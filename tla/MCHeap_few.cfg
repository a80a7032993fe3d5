SPECIFICATION HeapSpec
CONSTANTS
  ENTRIES = 4
  Frames <- MCFewFrames
  PPages <- MCPPages
  BootRegions <- MCBootRegions
  MapRanges <- MCMapRanges
  UnmapRanges <- MCUnmapRanges
  PowerOn <- MCPowerOn
  PAGE_SIZE = 8
  HEAP_ALIGN = 2
  HEAP_BASE = 256
  HEAP_MAX_SIZE = 24
  Sizes <- MCSizes
INVARIANT HeapBacked
CHECK_DEADLOCK FALSE

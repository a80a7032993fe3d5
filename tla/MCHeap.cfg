SPECIFICATION HeapSpec
CONSTANTS
  ENTRIES = 4
  Frames <- MCFrames
  PPages <- MCPPages
  BootRegions <- MCBootRegions
  MapRanges <- MCMapRanges
  UnmapRanges <- MCUnmapRanges
  PowerOn <- MCPowerOn
  PAGE_SIZE = 8
  HEAP_ALIGN = 2
  HEAP_BASE = 256
  HEAP_MAX_SIZE = 24
  Sizes <- MCSizes
INVARIANTS HeapTypeOK AllocationsPartitionHeap HeapEndIsTight HeapBacked
PROPERTY KmallocEnds
CHECK_DEADLOCK FALSE

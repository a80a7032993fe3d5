SPECIFICATION Spec
CONSTANTS
  ENTRIES = 4
  Frames <- MCFrames
  PPages <- MCPPages
  BootRegions <- MCBootRegions
  MapRanges <- MCMapRanges
  UnmapRanges <- MCEmptyingRanges
  PowerOn <- MCPowerOn
INVARIANT NoDescriptorToFreeFrame

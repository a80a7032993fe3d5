SPECIFICATION Spec
CONSTANTS
  ENTRIES = 4
  Frames <- MCFrames
  PPages <- MCPPages
  BootRegions <- MCBootRegions
  MapRanges <- MCMapRanges
  UnmapRanges <- MCUnmapRanges
  PowerOn <- MCPowerOn
INVARIANTS TypeOK TableTree FrameAccounting KernelStaysMapped
PROPERTY ImplementsAddressSpace

SPECIFICATION Spec
CONSTANTS
  KERNEL_END = 13
  PHYS_MEM_END = 61
  PAGE_SIZE = 4
  WORD_BITS = 4
  WORD_BYTES = 2
  Addresses <- MCAddresses
INVARIANTS TypeOK BitmapMatchesHeld HeldFramesManaged PaddingInUse
PROPERTY ImplementsFrameAllocator

SPECIFICATION Spec
CONSTANTS
  a = a
  b = b
  c = c
  Names <- MCNames
  BadNames = {""}
  Bytes <- MCBytes
  JunkByte = "?"
  StaleNext = {0}
  dirents_per_block = 2
  BlockBytes = 2
  MAX_SEGMENTS = 2
  CallTypes = {1, 2}
  Offsets <- MCOffsets
  Sources <- MCSources
  MaxInodes = 4
  MaxBlocks = 4
SYMMETRY MCSymmetry
INVARIANTS TypeOK ChainsSound EntriesFormForest ReadsAnySlice
PROPERTIES ImplementsFsTree PathsNeverRetarget

SPECIFICATION ShellSpec
CONSTANTS
  Lines <- MCLines
  MAX_ARGS = 4
  MAX_NAME = 3
  MAX_PATH = 7
  CatBuffer = 2
  Bytes <- MCBytes
  JunkByte = "?"
  dirents_per_block = 2
  BlockBytes = 3
  MAX_SEGMENTS = 2
  Names <- MCNames
  BadNames <- MCBadNames
  StaleNext = {0}
  CallTypes = {1, 2}
  Offsets = {0}
  Sources <- Texts
  MaxInodes = 4
  MaxBlocks = 4
INVARIANTS ShellTypeOK LineSplitsIntoWords CwdPathLeadsToCwd ListedNamesResolve CatPrintsWritten
CHECK_DEADLOCK FALSE

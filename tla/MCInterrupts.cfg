SPECIFICATION Spec
CONSTANTS
  Boards <- MCBoards
  Chars <- MCChars
  Faults <- MCFaults
  FIFO_SIZE = 2
  TX_SIZE = 1
  MAX_LINE = 3
  MaxTicks = 2
  MaxChars = 3
INVARIANTS TypeOK InterruptsLeaveNoTrace CharactersReachLine ScreenShowsLine EveryTickCountedOnce
PROPERTIES TicksAreCounted CharactersAreRead FatalFaultsHalt

SPECIFICATION Spec
CONSTANTS
  Word = 8
  Registers = {"a0"}
  NR_WP = 3
  Watched <- MCWatched
  Texts <- MCTexts
  GuestRegs <- MCGuestRegs
  GenNumbers <- MCNumbers
  GenOperators = {"*", "/", "-", "==", "&&"}
  MaxTokens = 7
  MaxIntTokens = 12
  TestReg <- MCTestReg
  None = None
INVARIANTS
  PoolPartition
  ExprIsC
PROPERTIES
  WatchesAreAList
CHECK_DEADLOCK FALSE

SPECIFICATION GuestSpec
CONSTANTS
  SB_SIZE = 4
  StreamLen = 3
  ChunkLens <- MCChunkLens
  NR_REGS = 4
  KCONTEXT = 7
  A0 = 3
  Threads = {0, 1}
  StackWords = 9
  Vals = {0, 7}
  Junk = 50
  W = 4
  Calls = {}
  LowMod = 1000
  MaxTime = 2070
  Setups <- MCTimed
  REF_SCORE = 100
  Ref = 50
INVARIANT TimeAsMeasured
CHECK_DEADLOCK FALSE

SPECIFICATION Spec
CONSTANTS
  WordMod = 13
  PMem <- MCPMem
  NReg = 2
  A0 = 1
  RESET_VECTOR = 4
  MSTATUS = 6
  CSRs <- MCCSRs
  Fields <- MCFields
  Alu <- MCAlu
  Taken <- MCTaken
  CsrOp <- MCCsrOp
  NSets = 2
  MAX_INST_LENGTH = 3
  RT_CHECK = TRUE
CHECK_DEADLOCK FALSE
PROPERTY Transparent

SPECIFICATION FairSdbSpec
CONSTANTS
  WordMod = 12
  PMem <- MCPMem
  NReg = 2
  A0 = 1
  RESET_VECTOR = 4
  MSTATUS = 6
  CSRs <- MCCSRs
  Fields <- MCFields
  Alu <- MCAlu
  Taken <- MCTaken
  CsrOp <- MCCsrOp
  NSets = 2
  MAX_INST_LENGTH = 2
  RT_CHECK = FALSE
  ULongMax = 7
  SiArgs <- MCSiArgs
  StepCap = 0
INVARIANTS PromptStopped StopIsFresh GoodExit
PROPERTIES ResumeKeepsCsr EndedIsFinal CommandReturns
CHECK_DEADLOCK FALSE

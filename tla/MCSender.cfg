CONSTANTS
  t1 = t1
  t2 = t2
  Threads <- MCThreads
  messagesToSend = 2
SPECIFICATION SenderFairSpec
INVARIANTS
  SenderTypeOK
  SuccessesWereForwarded
PROPERTY Finishes
CHECK_DEADLOCK FALSE

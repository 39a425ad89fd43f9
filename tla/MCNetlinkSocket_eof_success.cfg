CONSTANTS
  NLMSG_NOOP = NLMSG_NOOP
  RTM_GETLINK = RTM_GETLINK
  RTM_GETADDR = RTM_GETADDR
  ListenReqs <- MCListenReqs
  Budget <- MCBudgetEvent
  TxMessages = 1
  RxMessages = 1
  SockBuf = 2
  MaxData = 2
  SeqWrap = 16
  MaxFaults = 1
  RecLen <- MCRecLen
SPECIFICATION Spec
INVARIANT ListenSuccessImpliesCompleteDumps
CHECK_DEADLOCK FALSE

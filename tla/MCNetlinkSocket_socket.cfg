CONSTANTS
  NLMSG_NOOP = NLMSG_NOOP
  RTM_GETLINK = RTM_GETLINK
  RTM_GETADDR = RTM_GETADDR
  ListenReqs <- MCListenReqsOne
  Budget <- MCBudgetSocket
  TxMessages = 1
  RxMessages = 1
  SockBuf = 2
  MaxData = 2
  SeqWrap = 16
  MaxFaults = 3
  RecLen <- MCRecLen
SPECIFICATION Spec
INVARIANT TypeOK
INVARIANT HandlerSeesDumpsInOrder
INVARIANT FailureAfterExactlyMaxTries
INVARIANT FramingRecoversRecords
CHECK_DEADLOCK FALSE

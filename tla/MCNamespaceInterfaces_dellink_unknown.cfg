CONSTANTS
  ns1 = ns1
  ns2 = ns2
  a = a
  b = b
  t = t
  NoTap = NoTap
  NoLink = NoLink
  NS <- MCNS
  Ifindex <- MCIfindex
  IfNames <- MCIfNames
  Taps <- MCTaps
  TapByName <- MCTapByName
  TapByIfindex <- MCTapByIfindex
  InitialLinks <- MCInitialLinks
  MaxLinkChanges = 3
SPECIFICATION Spec
CHECK_DEADLOCK FALSE
INVARIANT
  NoNilDereference

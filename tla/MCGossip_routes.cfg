CONSTANTS
  a = a
  b = b
  c = c
  NoNode = NoNode
  Idle = Idle
  Payload = {m1}
  Node <- ThreeNodes
  Peers <- JoinPeers
  AddPeerCalls <- ShortCut
  RoutingCalls <- RouteChanges
  AckTimeout = FALSE
  AntiEntropy = TRUE
  MongerChoices = {TRUE, FALSE}
  Lossy = TRUE
  Duplicating = TRUE
  MaxSeq <- OneOfAC
  MaxInFlight = 1
SPECIFICATION Spec
CONSTRAINT NetBound
INVARIANTS
  RumorsGenuine
  StatusHonest
  RoutesConsistent

CONSTANTS
  a = a
  b = b
  c = c
  NoNode = NoNode
  Idle = Idle
  Payload = {m1, m2}
  Node <- ThreeNodes
  Peers <- LinePeers
  AddPeerCalls = {}
  RoutingCalls = {}
  AckTimeout = TRUE
  AntiEntropy = TRUE
  MongerChoices = {TRUE, FALSE}
  Lossy = TRUE
  Duplicating = TRUE
  MaxSeq <- TwoOfA
  MaxInFlight = 2
SPECIFICATION Spec
CONSTRAINT NetBound
INVARIANTS
  TypeOK
  StatusMatchesLog
  LogsAgree
  ProcessedInOrder
  OwnProcessedOnce
PROPERTIES
  LogsOnlyGrow
  ImplementsBroadcast

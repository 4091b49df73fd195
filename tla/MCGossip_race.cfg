CONSTANTS
  a = a
  b = b
  c = c
  NoNode = NoNode
  Idle = Idle
  Payload = {m1}
  Node <- ThreeNodes
  Peers <- JoinPeers
  AddPeerCalls <- ShortCut
  RoutingCalls = {}
  AckTimeout = FALSE
  AntiEntropy = FALSE
  MongerChoices = {TRUE, FALSE}
  Lossy = FALSE
  Duplicating = FALSE
  MaxSeq <- OneOfC
  MaxInFlight = 2
SPECIFICATION Spec
INVARIANT PeersDirect

CONSTANTS
  a = a
  b = b
  c = c
  NoNode = NoNode
  Idle = Idle
  Payload = {m1}
  Node <- ThreeNodes
  Peers <- LinePeers
  AddPeerCalls = {}
  RoutingCalls = {}
  AckTimeout = TRUE
  AntiEntropy = TRUE
  MongerChoices = {TRUE, FALSE}
  Lossy = FALSE
  Duplicating = FALSE
  MaxSeq <- OneOfB
  MaxInFlight = 2
SPECIFICATION FairSpec
PROPERTY EventuallyDelivered

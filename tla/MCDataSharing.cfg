CONSTANTS
  c1 = c1
  p = p
  q = q
  Meta = meta
  Nil = Nil
  Peer = {p, q}
  Uploader = {p}
  Download = {x, y}
  File <- OneChunk
  Retry = 1
  MaxUnderWay = 2
  UserKnows <- Known
  Routed = {p, q}
SPECIFICATION Spec
INVARIANTS
  DownloadIsTheFile
  PoolTracksDownloads
  LoopWaitsForWaiter
PROPERTIES
  DownloadsEnd
  LoopGoesOn
CHECK_DEADLOCK FALSE

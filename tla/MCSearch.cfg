CONSTANTS
  o = o
  p = p
  q = q
  f = f
  g = g
  mf = mf
  mg = mg
  c1 = c1
  c2 = c2
  Node = {o, p, q}
  Origin = o
  Nbrs <- Triangle
  Name = {f, g}
  Meta <- MetaOf
  Chunks <- ChunksOf
  Tagged <- Names
  Holds <- Blobs
  All = {s2}
  First = {s1}
  MaxCalls = 1
  Budget = 7
  Initial = 1
  Factor = 2
  Retry = 2
  Nobody = Nobody
SPECIFICATION Spec
INVARIANTS
  BudgetKept
  CatalogHonest
  FirstIsFull
PROPERTY SearchesEnd
CHECK_DEADLOCK FALSE

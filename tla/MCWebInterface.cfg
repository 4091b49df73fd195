CONSTANTS
  any = any
  other = other
  Empty = Empty
  Nobody = Nobody
  Slot = {any, other}
  Value = {filled}
  Offers <- OthersOverlap
SPECIFICATION Spec
INVARIANTS
  ShownAsSent
PROPERTIES
  PanelsHoldOneAnswer
  EveryRequestAnswered

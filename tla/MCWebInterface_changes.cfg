CONSTANTS
  any = any
  other = other
  Empty = Empty
  Nobody = Nobody
  Slot = {any, other}
  Value = {filled}
  Offers <- ChangesOverlap
SPECIFICATION Spec
PROPERTIES
  ChangesAreShown

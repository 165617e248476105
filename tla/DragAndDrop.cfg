SPECIFICATION Spec
CHECK_DEADLOCK FALSE
CONSTANTS
  Clients = {a, b}
  Sources = {s1}
  Offers = {o1, o2}
  MaxLost = 1
  None = None
INVARIANTS DragSound SourceHearsTrue
PROPERTIES DropConsented DropAnswered

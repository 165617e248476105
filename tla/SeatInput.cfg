SPECIFICATION Spec
CONSTANTS
  Windows = {w1, w2}
  MaxButtons = 2
  MaxOdd = 1
  None = None
SYMMETRY Interchangeable
INVARIANTS FocusKept IdleInhibitExact ClientsTold GrabsEnd

SPECIFICATION TransitionSpec
CONSTANTS
  Places = {0, 1}
  Full = 2
  Asked = {1, 2}
  Duration = 2
  MaxCalls = 2
  MaxMoves = 2
  NULL = NULL
CHECK_DEADLOCK FALSE
INVARIANTS LandsAsAsked SeenAndTold
PROPERTIES TransitionsEnd

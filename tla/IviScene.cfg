SPECIFICATION SceneSpec
CONSTANTS
  Surfaces = {a, b}
  Layers = {l1, l2}
  MaxCalls = 2
  MaxLayerCalls = 1
  ViewList = ViewList
  NULL = NULL
SYMMETRY Symmetry
CHECK_DEADLOCK FALSE
INVARIANTS SceneSound ViewListSound

SPECIFICATION Spec
CONSTANTS
  Surfaces = {s1, s2, s3}
  Buffers = {b1, b2}
  None = None
  MaxCommits = 2
SYMMETRY Interchangeable
INVARIANTS TreeSound BuffersAccounted CallbacksAccounted
PROPERTIES SyncKept

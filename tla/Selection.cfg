SPECIFICATION Spec
SYMMETRY Symmetry
CHECK_DEADLOCK FALSE
CONSTANTS
  Clients = {a, b}
  Sources = {s1, s2}
  Clips = {c1, c2}
  Serials = 5
  MaxReads = 1
  None = None
INVARIANTS SourcesSound ClipboardTakesOver ClientsInformed

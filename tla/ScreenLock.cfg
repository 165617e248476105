SPECIFICATION Spec
CONSTANTS
  Windows = {w1, w2}
  MaxDeaths = 1
  None = None
INVARIANTS LockSound HiddenGetNoInput
PROPERTIES LocksWhenIdle ScreenServed

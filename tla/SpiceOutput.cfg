SPECIFICATION OutputFairSpec
CONSTANTS
  MaxCommits = 3
  RingSize = 2
INVARIANTS DamageKept InputServed
PROPERTIES ImplementsUpdates CommitServed

SPECIFICATION FairSpec
CONSTANT MaxCommits = 2
INVARIANTS OneLoop PresentedWasDisplayed
PROPERTIES ImplementsUpdates CommitServed

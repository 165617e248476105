SPECIFICATION FairSpec
CONSTANTS
  MAX_COMMAND_NUM = 2
  MAX_WAIT_ITERATIONS = 1
  MaxFrames = 6
INVARIANTS IInv ReadsOldestCommand WorkerInBounds
PROPERTIES ImplementsFifo EveryCommandTaken

SPECIFICATION Spec
CONSTANTS MAX_COMMAND_NUM = 2 MAX_WAIT_ITERATIONS = 1 MaxFrames = 6
INVARIANT AssertNeverFails

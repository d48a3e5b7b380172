CONSTANTS
    MaxXfers = 6
    MaxPolls = 3
    MaxTimeouts = 3
SPECIFICATION FairSpec
INVARIANTS AnswersInOrder InStepUntilTimeout
PROPERTIES XferReturns
\* The caller makes a bounded number of calls.
CHECK_DEADLOCK FALSE

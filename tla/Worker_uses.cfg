SPECIFICATION FairSpec
CONSTANTS
    MaxTasks <- MCMaxTasks
    MaxStarts <- MCMaxStarts
INVARIANTS
    RunInOrder
PROPERTIES
    AnswersAreTrue
    CallsReturn
CHECK_DEADLOCK FALSE

\* Two processes with the numbers that snowflake/index.ts gives to all.
CONSTANTS
    Process = {1, 2}
    Worker <- SameNumber
    Proc <- SameNumber
    SeqLimit = 2
    MaxTime = 5
    MaxIds = 4
    MaxSetbacks = 1
SPECIFICATION LiveSpec
CHECK_DEADLOCK FALSE
INVARIANT Increasing
PROPERTY WaitEnds

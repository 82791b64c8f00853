CONSTANTS
    Alert <- MCAlert
    Ip = {"ip1", "ip2", "lan"}
    Blockable = {"ip1", "ip2"}
    FilePath = {"f1"}
    MaxBlocks = 1
    MaxStored = 2
    MaxSecond = 1
    MaxLost = 0
SPECIFICATION PipelineSpec
INVARIANT LoggedBeforeExecution
\* Nothing is left to do when no more alerts come.
CHECK_DEADLOCK FALSE

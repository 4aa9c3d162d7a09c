SPECIFICATION FairSpec
CONSTANTS
    a1 = a1
    Applies <- OneApply
    Commands <- ItsCommands
    MaxPolls = 2
    MaxBoots = 2
    MaxLines = 3
CHECK_DEADLOCK FALSE
INVARIANTS
    NeverRefused
    GrantOutlivesReboot
    LogInOrder
PROPERTIES
    RequestsSettle
    ChildEndsWithRequest

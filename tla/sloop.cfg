SPECIFICATION Spec
CONSTANTS
    MaxItems = 2
    MaxAwaits = 2
    MaxScopes = 2
    MaxErrors = 2
    MaxCancels = 1
    MaxEvents = 3
INVARIANTS
    IteratorInOrder
    HandlesOwned
    CancelContained
PROPERTIES
    Delivered
CHECK_DEADLOCK FALSE

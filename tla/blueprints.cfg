SPECIFICATION Spec
CONSTANTS
    top = top
    a = a
    Nodes = {top, a}
    Up <- Path
    Vals = {0, 1}
    Unset = unset
    None = none
    Assigns <- SomeWrites
    Aliases <- OneAlias
    PresetChoices <- OnePreset
    MaxIterations = 3
    MaxBlueprints = 2
    MaxEffects = 2
    MaxReads = 1
INVARIANTS
    TypeOK
    Settled
    BoundAsExposed
    PresetsWin
    AliasReaches
CHECK_DEADLOCK FALSE

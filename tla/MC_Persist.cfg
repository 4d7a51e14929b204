SPECIFICATION Spec
CONSTANTS
    MaxPage = 3
    Setups <- PersistSetups
CHECK_DEADLOCK FALSE
INVARIANTS
    OnlyOwnRecords

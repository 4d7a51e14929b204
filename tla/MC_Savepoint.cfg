SPECIFICATION Spec
CONSTANTS
    MaxPage = 4
    Setups <- MCSetups
CHECK_DEADLOCK FALSE
INVARIANTS
    TypeOK
    NoPageLost
PROPERTIES
    Transactional

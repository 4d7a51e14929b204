SPECIFICATION Spec
CONSTANTS
    Db = {a, b, c}
    Txn = {t1, t2}
    NoTxn = NoTxn
    Mixed = Mixed
    NoDb = NoDb
SYMMETRY Symmetry
CHECK_DEADLOCK FALSE
INVARIANTS
    TypeOK
PROPERTIES
    AllOrNothing

----------------------------- MODULE AtomicDbs -----------------------------
(***************************************************************************)
(* What a transaction on several attached database files promises: it      *)
(* takes effect in all of the files that it wrote to at once, or in none.  *)
(* MasterJournal.tla is shown to implement AtomicSpec.                     *)
(***************************************************************************)
CONSTANTS
    Db,     \* the database files
    Txn,    \* the transactions, which are also the versions they produce
    NoTxn   \* no transaction; the version of a file at the start

VARIABLES
    db,     \* the version of each database
    txn,    \* the open transaction, or NoTxn
    parts,  \* the databases it has written to
    used    \* the transactions there have been

atomicVars == <<db, txn, parts, used>>

AtomicInit ==
    /\ db = [d \in Db |-> NoTxn]
    /\ txn = NoTxn /\ parts = {} /\ used = {}

Open(t) ==
    /\ txn = NoTxn /\ t \notin used
    /\ txn' = t /\ parts' = {} /\ used' = used \cup {t}
    /\ UNCHANGED db

Enlist(d) ==
    /\ txn # NoTxn
    /\ parts' = parts \cup {d}
    /\ UNCHANGED <<db, txn, used>>

Commit ==
    /\ txn # NoTxn
    /\ db' = [d \in Db |-> IF d \in parts THEN txn ELSE db[d]]
    /\ txn' = NoTxn /\ parts' = {}
    /\ UNCHANGED used

Abort ==
    /\ txn # NoTxn
    /\ txn' = NoTxn /\ parts' = {}
    /\ UNCHANGED <<db, used>>

AtomicNext ==
    \/ \E t \in Txn : Open(t)
    \/ \E d \in Db : Enlist(d)
    \/ Commit \/ Abort

AtomicSpec == AtomicInit /\ [][AtomicNext]_atomicVars
=============================================================================

------------------------------- MODULE TxnDb -------------------------------
(***************************************************************************)
(* What SQLite promises to the connections of one database, with no files, *)
(* locks or journals in it: a transaction works on a private view that     *)
(* starts as the committed database and replaces it in one step or not at  *)
(* all, and a transaction may start to write only from a current view.     *)
(* Pager.tla is checked against TxnSpec.                                   *)
(***************************************************************************)
EXTENDS Integers

CONSTANTS Conn

VARIABLES
    db,         \* the committed database: a function from pages to contents
    mode,       \* mode[c]: "none", "read" or "write"
    view        \* view[c]: the database as the transaction of c sees it

txnVars == <<db, mode, view>>

NoView == [p \in {} |-> 0]

TxnInit ==
    /\ mode = [c \in Conn |-> "none"]
    /\ view = [c \in Conn |-> NoView]

\* A transaction starts on the committed database.
BeginRead(c) ==
    /\ mode[c] = "none"
    /\ mode' = [mode EXCEPT ![c] = "read"]
    /\ view' = [view EXCEPT ![c] = db]
    /\ UNCHANGED db

\* It may write if nobody has committed since it started and nobody writes.
BeginWrite(c) ==
    /\ mode[c] = "read"
    /\ view[c] = db
    /\ \A d \in Conn : mode[d] # "write"
    /\ mode' = [mode EXCEPT ![c] = "write"]
    /\ UNCHANGED <<db, view>>

\* One page of the view changes, or one page is added to it.
Write(c) ==
    /\ mode[c] = "write"
    /\ \E p \in DOMAIN view'[c] :
           /\ DOMAIN view'[c] \in {DOMAIN view[c], DOMAIN view[c] \cup {p}}
           /\ \A q \in DOMAIN view[c] \ {p} : view'[c][q] = view[c][q]
    /\ \A d \in Conn \ {c} : view'[d] = view[d]
    /\ UNCHANGED <<db, mode>>

Commit(c) ==
    /\ mode[c] = "write"
    /\ db' = view[c]
    /\ mode' = [mode EXCEPT ![c] = "none"]
    /\ view' = [view EXCEPT ![c] = NoView]

\* The end of a transaction without effect: rollback, failure or crash.
Abandon(c) ==
    /\ mode[c] # "none"
    /\ mode' = [mode EXCEPT ![c] = "none"]
    /\ view' = [view EXCEPT ![c] = NoView]
    /\ UNCHANGED db

TxnNext ==
    \E c \in Conn :
        BeginRead(c) \/ BeginWrite(c) \/ Write(c) \/ Commit(c) \/ Abandon(c)

TxnSpec == TxnInit /\ [][TxnNext]_txnVars
=============================================================================

----------------------------- MODULE NestedTxn -----------------------------
(***************************************************************************)
(* What SQLite promises to the user of one connection about savepoints: a  *)
(* write transaction works on a view of the database; each open savepoint  *)
(* remembers the view of its moment; ROLLBACK TO brings exactly that view  *)
(* back, ROLLBACK the committed database, and COMMIT makes the view the    *)
(* committed database.  There is no journal, cache or file in it.          *)
(* Savepoint.tla is checked against NestedSpec.                            *)
(*                                                                         *)
(* ROLLBACK TO and COMMIT are asked for in one step and answered in        *)
(* another, so that an implementation cannot pass off a wrong answer for   *)
(* no step at all.                                                         *)
(***************************************************************************)
EXTENDS Integers, Sequences

VARIABLES
    db,     \* the committed database: the sequence of its pages
    mode,   \* "none", "read", "write", or "undo": a rollback is due
    view,   \* the database as the transaction sees it
    stack,  \* the views that the open savepoints remember
    asked   \* NoRequest, ToCommit, or the savepoint to go back to; 0 is the
            \* transaction itself

nestedVars == <<db, mode, view, stack, asked>>

NoRequest == -1
ToCommit == -2

NestedInit ==
    /\ mode = "read" /\ view = db
    /\ stack = <<>> /\ asked = NoRequest

Writing == mode = "write" /\ asked = NoRequest

Begin ==
    /\ mode = "read"
    /\ mode' = "write"
    /\ UNCHANGED <<db, view, stack, asked>>

\* One page changes, or one is added.
Write ==
    /\ Writing
    /\ Len(view') \in {Len(view), Len(view) + 1}
    /\ \E p \in 1 .. Len(view') :
           \A q \in 1 .. Len(view') \ {p} :
               q <= Len(view) /\ view'[q] = view[q]
    /\ UNCHANGED <<db, mode, stack, asked>>

OpenSavepoint ==
    /\ Writing
    /\ stack' = Append(stack, view)
    /\ UNCHANGED <<db, mode, view, asked>>

Release ==
    /\ Writing
    /\ \E i \in 1 .. Len(stack) : stack' = SubSeq(stack, 1, i - 1)
    /\ UNCHANGED <<db, mode, view, asked>>

Ask ==
    /\ Writing
    /\ asked' \in {ToCommit} \cup 0 .. Len(stack)
    /\ UNCHANGED <<db, mode, view, stack>>

RolledBackTo(i) ==
    /\ mode = "write" /\ asked = i
    /\ view' = IF i = 0 THEN db ELSE stack[i]
    /\ stack' = SubSeq(stack, 1, i)
    /\ asked' = NoRequest
    /\ UNCHANGED <<db, mode>>

Committed ==
    /\ mode = "write" /\ asked = ToCommit
    /\ db' = view
    /\ mode' = "read" /\ stack' = <<>> /\ asked' = NoRequest
    /\ UNCHANGED view

\* ROLLBACK is asked for, or an error makes it the only thing left to do.
Undo ==
    /\ mode = "write"
    /\ mode' = "undo" /\ view' = <<>> /\ stack' = <<>> /\ asked' = NoRequest
    /\ UNCHANGED db

\* A transaction starts that can read: after a rollback, or after recovery.
Restored ==
    /\ mode \in {"undo", "none"}
    /\ mode' = "read" /\ view' = db
    /\ UNCHANGED <<db, stack, asked>>

Crash ==
    /\ mode' = "none" /\ view' = <<>> /\ stack' = <<>> /\ asked' = NoRequest
    /\ UNCHANGED db

NestedNext ==
    \/ Begin \/ Write \/ OpenSavepoint \/ Release \/ Ask
    \/ \E i \in 0 .. Len(stack) : RolledBackTo(i)
    \/ Committed \/ Undo \/ Restored \/ Crash

NestedSpec == NestedInit /\ [][NestedNext]_nestedVars
=============================================================================

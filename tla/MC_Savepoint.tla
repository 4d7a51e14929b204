---------------------------- MODULE MC_Savepoint ----------------------------
(***************************************************************************)
(* Savepoint.tla for TLC.  Base has sectors of one unit: each segment of   *)
(* the journal ends at a sector boundary.                                  *)
(***************************************************************************)
EXTENDS Savepoint

Base ==
    [persist |-> FALSE, sector |-> 1, pages |-> 1, init |-> 2, last |-> 3,
     saves |-> 1, writes |-> 4, faults |-> 1, commitFaults |-> TRUE]

MCSetups ==
    {[Base EXCEPT !.saves = 2, !.faults = 0],
     Base,
     \* the header of an older transaction may lie ahead
     [Base EXCEPT !.persist = TRUE, !.saves = 0, !.commitFaults = FALSE],
     \* a segment need not end at a sector boundary
     [Base EXCEPT !.sector = 2],
     \* two pages in a sector
     [Base EXCEPT !.sector = 2, !.pages = 2, !.saves = 0],
     [Base EXCEPT !.sector = 2, !.pages = 2, !.faults = 0],
     \* pages are added and spilled out of order
     [Base EXCEPT !.init = 1, !.last = 4, !.writes = 5, !.faults = 0]}

\* Two transactions of three pages each.
PersistSetups ==
    {[Base EXCEPT !.persist = TRUE, !.init = 3, !.saves = 0, !.writes = 5]}
=============================================================================

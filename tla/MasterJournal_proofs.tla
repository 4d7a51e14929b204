------------------------ MODULE MasterJournal_proofs ------------------------
(***************************************************************************)
(* MasterJournal implements AtomicDbs, for every set of databases and of   *)
(* transactions.  The invariant says when a journal may name a master      *)
(* journal that does not exist: only after the commit.                     *)
(***************************************************************************)
EXTENDS MasterJournal, TLAPS

PhaseOne == {"phase1", "sync", "pages"}

\* The writing connection and its databases.
WriterInv ==
    /\ wpc = "idle" <=> txn = NoTxn
    /\ wpc = "idle" => parts = {}
    /\ txn # NoTxn => txn \in used
    /\ wpc \in {"sync", "pages"} => at \in todo
    /\ wpc \in {"create", "names", "delete"} => ~Simple
    /\ wpc = "finish" => Simple /\ todo = parts
    /\ wpc = "phase2" /\ Simple => todo = {}
    /\ wpc # "phase2" => parts \subseteq has
    /\ \A d \in parts : rb[d] = "none"

\* The master journal exists from its creation to the commit, and names every
\* database before one of their journals names it.
MasterInv ==
    /\ txn \in exists <=>
           wpc \in {"names", "delete"} \/ (wpc \in PhaseOne /\ ~Simple)
    /\ wpc = "names" => parts \subseteq names[txn] \cup todo
    /\ wpc \in PhaseOne \cup {"delete"} /\ ~Simple => parts \subseteq names[txn]
    /\ \A d \in Db : ref[d] = txn /\ txn # NoTxn =>
           d \in parts /\ ~Simple /\ wpc \in PhaseOne \cup {"delete", "phase2"}

\* How far the databases of the transaction have come.
PhaseInv ==
    /\ wpc \in PhaseOne => \A d \in parts \ todo :
           file[d] = txn /\ d \in hdr /\ (Simple \/ ref[d] = txn)
    /\ wpc \in {"sync", "pages"} /\ ~Simple => ref[at] = txn
    /\ wpc = "pages" => at \in hdr
    /\ wpc \in {"delete", "finish", "phase2"} => \A d \in todo :
           file[d] = txn /\ d \in hdr /\ (Simple \/ ref[d] = txn)
    /\ wpc \in {"create", "delete"} => todo = parts

\* The journals.  A name of a master journal that does not exist is that of a
\* committed transaction.
JournalInv ==
    /\ \A d \in has \ hdr : file[d] = orig[d]
    /\ \A d \in Db \ has : file[d] # Mixed /\ ref[d] = NoTxn
    /\ \A d \in Db : ref[d] # NoTxn => ref[d] \in used /\ d \in names[ref[d]]
    /\ \A d \in Db : ref[d] \in exists \cup {NoTxn}
                     \/ (file[d] = ref[d] /\ d \in hdr)
    /\ wpc # "phase2" => \A d \in parts : ref[d] \in exists \cup {NoTxn}

\* The playbacks.
PlaybackInv ==
    \A d \in Db :
        /\ rb[d] \in {"start", "play", "end"} => d \in has
        /\ rb[d] \in {"open", "child"} => d \notin has
        /\ rb[d] \in {"play", "end"} => zMaster[d] = ref[d]
        /\ rb[d] \in {"open", "child"} =>
               zMaster[d] \in used /\ zMaster[d] # txn
        /\ rb[d] = "play" => ref[d] \in exists \cup {NoTxn}
        /\ rb[d] = "end" /\ ref[d] \in exists \cup {NoTxn} => file[d] = orig[d]
        /\ rb[d] = "child" => \A c \in names[zMaster[d]] \ child[d] :
                                  ref[c] # zMaster[d]

IInv ==
    TypeOK /\ WriterInv /\ MasterInv /\ PhaseInv /\ JournalInv /\ PlaybackInv

USE MasterJournalAssumption
    DEF dbVars, masterVars, writerVars, rbVars, Version, Simple, PhaseOne,
        Uncommitted

(* The first state: no transaction and no journal.                         *)
LEMMA InitInv == Init => IInv
  BY DEF Init, IInv, TypeOK, WriterInv, MasterInv, PhaseInv, JournalInv,
         PlaybackInv

(* Every step of the writing connection, and of every playback, keeps the  *)
(* invariant.                                                              *)
LEMMA StepInv == IInv /\ [Next]_vars => IInv'
<1> SUFFICES ASSUME IInv, [Next]_vars PROVE IInv'
  OBVIOUS
<1> USE DEF IInv, TypeOK, WriterInv, MasterInv, PhaseInv, JournalInv,
            PlaybackInv
<1>1. ASSUME NEW t \in Txn, Begin(t)
      PROVE  IInv'
  BY <1>1 DEF Begin
<1>2. ASSUME NEW d \in Db, pager_open_journal(d)
      PROVE  IInv'
  BY <1>2 DEF pager_open_journal, Hot
<1>3. ASSUME NEW d \in Db, pagerStress(d)
      PROVE  IInv'
  BY <1>3 DEF pagerStress
<1>4. ASSUME NEW d \in Db, WriteName(d)
      PROVE  IInv'
  BY <1>4 DEF WriteName
<1>5. ASSUME NEW d \in Db, writeMasterJournal(d)
      PROVE  IInv'
  BY <1>5 DEF writeMasterJournal
<1>6. ASSUME NEW d \in Db, CommitPhaseTwo(d)
      PROVE  IInv'
  BY <1>6 DEF CommitPhaseTwo, DeleteJournal
<1>7. ASSUME NEW d \in Db, PhaseTwoFails(d)
      PROVE  IInv'
  BY <1>7 DEF PhaseTwoFails
<1>8. ASSUME NEW d \in Db, HotJournal(d)
      PROVE  IInv'
  BY <1>8 DEF HotJournal, Hot
<1>9. ASSUME NEW d \in Db, readMasterJournal(d)
      PROVE  IInv'
  BY <1>9 DEF readMasterJournal
<1>10. ASSUME NEW d \in Db, Playback(d)
      PROVE  IInv'
  BY <1>10 DEF Playback
<1>11. ASSUME NEW d \in Db, EndPlayback(d)
      PROVE  IInv'
  BY <1>11 DEF EndPlayback, DeleteJournal
<1>12. ASSUME NEW d \in Db, OpenMaster(d)
      PROVE  IInv'
  BY <1>12 DEF OpenMaster, PlaybackReturns
<1>13. ASSUME NEW d \in Db, pager_delmaster(d)
      PROVE  IInv'
  BY <1>13 DEF pager_delmaster, PlaybackReturns
<1>14. ASSUME NEW d \in Db, PlaybackFails(d)
      PROVE  IInv'
  BY <1>14 DEF PlaybackFails, PlaybackReturns
<1>15. ASSUME NEW d \in Db, NEW c \in Db, CheckChild(d, c)
      PROVE  IInv'
  BY <1>15 DEF CheckChild, PlaybackReturns
<1>16. CASE StartCommit
  BY <1>16 DEF StartCommit
<1>17. CASE CreateMaster
  BY <1>17 DEF CreateMaster
<1>18. CASE NamesWritten
  BY <1>18 DEF NamesWritten
<1>19. CASE syncJournal
  BY <1>19 DEF syncJournal
<1>20. CASE pager_write_pagelist
  BY <1>20 DEF pager_write_pagelist
<1>21. CASE PhaseOneDone
  BY <1>21 DEF PhaseOneDone
<1>22. CASE DeleteMaster
  BY <1>22 DEF DeleteMaster
<1>23. CASE CommitDone
  BY <1>23 DEF CommitDone, NoWriter
<1>24. CASE RollbackAll
  BY <1>24 DEF RollbackAll, NoWriter
<1>25. CASE Crash
  BY <1>25 DEF Crash, NoWriter
<1>26. CASE UNCHANGED vars
  BY <1>26 DEF vars
<1> QED
  BY <1>1, <1>2, <1>3, <1>4, <1>5, <1>6, <1>7, <1>8, <1>9, <1>10, <1>11, <1>12,
     <1>13, <1>14, <1>15, <1>16, <1>17, <1>18, <1>19, <1>20, <1>21, <1>22,
     <1>23, <1>24, <1>25, <1>26 DEF Next


(* A step of the code is a step of AtomicDbs or changes nothing there: the *)
(* deletion of the master journal is the commit of a transaction on        *)
(* several databases, the deletion of the journal that of a simple one.    *)
LEMMA StepAtomic ==
    ASSUME IInv, [Next]_vars
    PROVE  [Atomic!AtomicNext]_(Atomic!atomicVars)
<1> DEFINE AtomicStep == [Atomic!AtomicNext]_(Atomic!atomicVars)
<1> USE DEF IInv, TypeOK, WriterInv, MasterInv, PhaseInv, JournalInv,
            PlaybackInv, Value, Hot, Atomic!AtomicNext, Atomic!atomicVars,
            Atomic!Open, Atomic!Enlist, Atomic!Commit, Atomic!Abort
<1>1. ASSUME NEW t \in Txn, Begin(t)
      PROVE  AtomicStep
  BY <1>1 DEF Begin
<1>2. ASSUME NEW d \in Db, pager_open_journal(d)
      PROVE  AtomicStep
  BY <1>2 DEF pager_open_journal
<1>3. ASSUME NEW d \in Db, pagerStress(d)
      PROVE  AtomicStep
  BY <1>3 DEF pagerStress
<1>4. ASSUME NEW d \in Db, WriteName(d)
      PROVE  AtomicStep
  BY <1>4 DEF WriteName
<1>5. ASSUME NEW d \in Db, writeMasterJournal(d)
      PROVE  AtomicStep
  BY <1>5 DEF writeMasterJournal
<1>6. ASSUME NEW d \in Db, CommitPhaseTwo(d)
      PROVE  AtomicStep
  BY <1>6 DEF CommitPhaseTwo, DeleteJournal
<1>7. ASSUME NEW d \in Db, PhaseTwoFails(d)
      PROVE  AtomicStep
  BY <1>7 DEF PhaseTwoFails
<1>8. ASSUME NEW d \in Db, HotJournal(d)
      PROVE  AtomicStep
  BY <1>8 DEF HotJournal
<1>9. ASSUME NEW d \in Db, readMasterJournal(d)
      PROVE  AtomicStep
  BY <1>9 DEF readMasterJournal
<1>10. ASSUME NEW d \in Db, Playback(d)
      PROVE  AtomicStep
  BY <1>10 DEF Playback
<1>11. ASSUME NEW d \in Db, EndPlayback(d)
      PROVE  AtomicStep
  BY <1>11 DEF EndPlayback, DeleteJournal
<1>12. ASSUME NEW d \in Db, OpenMaster(d)
      PROVE  AtomicStep
  BY <1>12 DEF OpenMaster, PlaybackReturns
<1>13. ASSUME NEW d \in Db, pager_delmaster(d)
      PROVE  AtomicStep
  BY <1>13 DEF pager_delmaster, PlaybackReturns
<1>14. ASSUME NEW d \in Db, PlaybackFails(d)
      PROVE  AtomicStep
  BY <1>14 DEF PlaybackFails, PlaybackReturns
<1>15. ASSUME NEW d \in Db, NEW c \in Db, CheckChild(d, c)
      PROVE  AtomicStep
  BY <1>15 DEF CheckChild, PlaybackReturns
<1>16. CASE StartCommit
  BY <1>16 DEF StartCommit
<1>17. CASE CreateMaster
  BY <1>17 DEF CreateMaster
<1>18. CASE NamesWritten
  BY <1>18 DEF NamesWritten
<1>19. CASE syncJournal
  BY <1>19 DEF syncJournal
<1>20. CASE pager_write_pagelist
  BY <1>20 DEF pager_write_pagelist
<1>21. CASE PhaseOneDone
  BY <1>21 DEF PhaseOneDone
<1>22. CASE DeleteMaster
  BY <1>22 DEF DeleteMaster
<1>23. CASE CommitDone
  BY <1>23 DEF CommitDone, NoWriter
<1>24. CASE RollbackAll
  BY <1>24 DEF RollbackAll, NoWriter
<1>25. CASE Crash
  BY <1>25 DEF Crash, NoWriter
<1>26. CASE UNCHANGED vars
  BY <1>26 DEF vars
<1> QED
  BY <1>1, <1>2, <1>3, <1>4, <1>5, <1>6, <1>7, <1>8, <1>9, <1>10, <1>11, <1>12,
     <1>13, <1>14, <1>15, <1>16, <1>17, <1>18, <1>19, <1>20, <1>21, <1>22,
     <1>23, <1>24, <1>25, <1>26 DEF Next

(* The state of MasterJournal is well-typed: no database has a complete    *)
(* journal header without a journal, and no master journal is one of a     *)
(* transaction that there has not been.                                    *)
THEOREM TypeCorrect == Spec => []TypeOK
<1>1. Spec => []IInv
  BY InitInv, StepInv, PTL DEF Spec
<1>2. IInv => TypeOK
  BY DEF IInv
<1> QED  BY <1>1, <1>2, PTL

(* vdbeCommit and pager_playback make a transaction on any number of       *)
(* databases atomic, wherever the process ends and whatever fails.         *)
THEOREM AtomicCommit == Spec => AllOrNothing
<1>1. Init => Atomic!AtomicInit
  BY DEF Init, Atomic!AtomicInit, Value, Hot
<1>2. Spec => []IInv
  BY InitInv, StepInv, PTL DEF Spec
<1> QED
  BY <1>1, <1>2, StepAtomic, PTL DEF Spec, AllOrNothing, Atomic!AtomicSpec
=============================================================================

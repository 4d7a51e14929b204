---------------------------- MODULE Pager_proofs ----------------------------
(***************************************************************************)
(* The lock protocol of VerixLock.tla is safe, and the pager's side of it, *)
(* for any number of connections, pages and faults: the pager implements   *)
(* the protocol, its state always matches the level it believes in, and it *)
(* changes the database file only as the owner of the file's lock.         *)
(*                                                                         *)
(* The invariant is PagerInv.  A step of connection c is summed up by      *)
(* StepOK(c): what the step may do to the lock and to the file, that it    *)
(* leaves the other connections alone, and that c's new state, position    *)
(* and level match.  One lemma shows that this is enough, one lemma per    *)
(* group of actions that each action is such a step.                       *)
(***************************************************************************)
EXTENDS Pager, TLAPS

-----------------------------------------------------------------------------
(* The lock protocol by itself is safe for any set of connections:         *)
(* LockTypeOK and ReservedIsOwned are together inductive.                  *)

LockInv == LockTypeOK /\ ReservedIsOwned

(* A SHARED, RESERVED or EXCLUSIVE request that the pager passes to        *)
(* verixLock keeps the lock invariant: whoever succeeds owns the file.     *)
LEMMA LockKeepsInv ==
    ASSUME LockInv, NEW c \in Conn,
           NEW level \in {SHARED_LOCK, RESERVED_LOCK, EXCLUSIVE_LOCK},
           pagerLockDb(c, level)
    PROVE  LockInv'
<1> USE ConnAssumption
<1>1. CASE pagerNeedsLock(c, level)
  <2>1. owner \in {NoConn, c} /\ owner' = c
    BY <1>1 DEF pagerLockDb, verixLock, OsLockable
  <2>2. \/ eLock' = [eLock EXCEPT ![c] = level]
        \/ eLock' = eLock
    BY <1>1 DEF pagerLockDb
  <2>3. LockTypeOK'
    BY <2>1, <2>2 DEF LockInv, LockTypeOK, LockLevel
  <2>4. ReservedIsOwned'
    <3> SUFFICES ASSUME NEW d \in Conn,
                        eLock'[d] \in {RESERVED_LOCK, EXCLUSIVE_LOCK}
                 PROVE  d = c
      BY <2>1 DEF ReservedIsOwned
    <3>1. CASE d # c
      <4>1. eLock'[d] = eLock[d]
        BY <2>2, <3>1 DEF LockInv, LockTypeOK
      <4>2. owner = d
        BY <4>1 DEF LockInv, ReservedIsOwned
      <4> QED  BY <2>1, <4>2
    <3> QED  BY <3>1
  <2> QED  BY <2>3, <2>4 DEF LockInv
<1>2. CASE ~pagerNeedsLock(c, level)
  <2>1. UNCHANGED lockVars
    BY <1>2 DEF pagerLockDb
  <2> QED  BY <2>1 DEF LockInv, LockTypeOK, ReservedIsOwned, lockVars
<1> QED  BY <1>1, <1>2

(* A step in which connection c may drop the OS lock and is left below     *)
(* RESERVED, or with an unknown level, keeps the lock invariant: verixUnlock *)
(* releases nobody else's lock.                                            *)
LEMMA ReleaseKeepsInv ==
    ASSUME LockInv, NEW c \in Conn,
           NEW level \in {NO_LOCK, SHARED_LOCK, UNKNOWN_LOCK},
           \/ OsUnlock(c)
           \/ UNCHANGED owner,
           eLock' = [eLock EXCEPT ![c] = level]
    PROVE  LockInv'
<1> USE ConnAssumption
<1>1. owner' = owner \/ (owner = c /\ owner' = NoConn)
  BY DEF OsUnlock
<1>2. LockTypeOK'
  BY <1>1 DEF LockInv, LockTypeOK, LockLevel
<1>3. ReservedIsOwned'
  <2> SUFFICES ASSUME NEW d \in Conn,
                      eLock'[d] \in {RESERVED_LOCK, EXCLUSIVE_LOCK}
               PROVE  owner' = d
    BY DEF ReservedIsOwned
  <2>1. d # c
    BY DEF LockInv, LockTypeOK, NO_LOCK, SHARED_LOCK, RESERVED_LOCK,
           EXCLUSIVE_LOCK, UNKNOWN_LOCK
  <2>2. eLock'[d] = eLock[d]
    BY <2>1 DEF LockInv, LockTypeOK
  <2>3. owner = d
    BY <2>2 DEF LockInv, ReservedIsOwned
  <2> QED  BY <1>1, <2>1, <2>3
<1> QED  BY <1>2, <1>3 DEF LockInv

(* The probe unlocks the caller's own lock, which matters only below       *)
(* RESERVED, and leaves everybody else's alone.                            *)
LEMMA ProbeKeepsInv ==
    ASSUME LockInv, NEW c \in Conn,
           eLock[c] <= SHARED_LOCK, verixCheckReservedLock(c)
    PROVE  LockInv'
<1> USE ConnAssumption
<1>1. owner' = owner \/ (owner \in {NoConn, c} /\ owner' = NoConn)
  BY DEF verixCheckReservedLock, OsLockable
<1>2. eLock' = eLock
  BY DEF verixCheckReservedLock
<1>3. eLock[c] \notin {RESERVED_LOCK, EXCLUSIVE_LOCK}
  BY DEF LockInv, LockTypeOK, LockLevel, NO_LOCK, SHARED_LOCK,
         RESERVED_LOCK, EXCLUSIVE_LOCK, UNKNOWN_LOCK
<1>4. LockTypeOK'
  BY <1>1, <1>2 DEF LockInv, LockTypeOK
<1>5. ReservedIsOwned'
  <2> SUFFICES ASSUME NEW d \in Conn,
                      eLock[d] \in {RESERVED_LOCK, EXCLUSIVE_LOCK}
               PROVE  owner' = d
    BY <1>2 DEF ReservedIsOwned
  <2>1. owner = d
    BY DEF LockInv, ReservedIsOwned
  <2> QED  BY <1>1, <1>3, <2>1
<1> QED  BY <1>4, <1>5 DEF LockInv

(* Every step of the lock protocol preserves the lock invariant.           *)
LEMMA LockStep == LockInv /\ [LockNext]_lockVars => LockInv'
<1> SUFFICES ASSUME LockInv, [LockNext]_lockVars
             PROVE  LockInv'
  OBVIOUS
<1>1. CASE UNCHANGED lockVars
  BY <1>1 DEF LockInv, LockTypeOK, ReservedIsOwned, lockVars
<1>2. ASSUME NEW c \in Conn,
             NEW level \in {SHARED_LOCK, RESERVED_LOCK, EXCLUSIVE_LOCK},
             pagerLockDb(c, level)
      PROVE  LockInv'
  BY <1>2, LockKeepsInv
<1>3. ASSUME NEW c \in Conn, NEW level \in {NO_LOCK, SHARED_LOCK},
             NEW ok \in BOOLEAN, pagerUnlockDb(c, level, ok)
      PROVE  LockInv'
  <2>1. OsUnlock(c) \/ UNCHANGED owner
    BY <1>3 DEF pagerUnlockDb, verixUnlock
  <2>2. CASE eLock[c] # UNKNOWN_LOCK
    <3>1. eLock' = [eLock EXCEPT ![c] = level]
      BY <1>3, <2>2 DEF pagerUnlockDb
    <3> QED  BY <2>1, <3>1, ReleaseKeepsInv
  <2>3. CASE eLock[c] = UNKNOWN_LOCK
    <3>1. eLock' = [eLock EXCEPT ![c] = UNKNOWN_LOCK]
      BY <1>3, <2>3 DEF pagerUnlockDb, LockInv, LockTypeOK
    <3> QED  BY <2>1, <3>1, ReleaseKeepsInv
  <2> QED  BY <2>2, <2>3
<1>4. ASSUME NEW c \in Conn, eLock[c] <= SHARED_LOCK,
             verixCheckReservedLock(c)
      PROVE  LockInv'
  BY <1>4, ProbeKeepsInv
<1>5. ASSUME NEW c \in Conn, pagerUnlockFailedInError(c)
      PROVE  LockInv'
  BY <1>5, ReleaseKeepsInv DEF pagerUnlockFailedInError, verixUnlock
<1>6. ASSUME NEW c \in Conn, LockCrash(c)
      PROVE  LockInv'
  BY <1>6, ReleaseKeepsInv DEF LockCrash
<1> QED  BY <1>1, <1>2, <1>3, <1>4, <1>5, <1>6 DEF LockNext

(* Whatever the number of connections and whichever VFS is linked, the     *)
(* variables of the lock protocol have their types and a pager at RESERVED *)
(* or above owns the file.                                                 *)
THEOREM LockSafety == LockSpec => [](LockTypeOK /\ ReservedIsOwned)
<1>1. LockInit => LockInv
  BY ConnAssumption DEF LockInit, LockInv, LockTypeOK, ReservedIsOwned,
     LockLevel, NO_LOCK, RESERVED_LOCK, EXCLUSIVE_LOCK
<1>2. LockInv => LockTypeOK /\ ReservedIsOwned
  BY DEF LockInv
<1> QED  BY <1>1, <1>2, LockStep, PTL DEF LockSpec

(* At most one connection believes that it may change the file.            *)
THEOREM LockOneWriter == LockSpec => []OneWriter
<1>1. LockTypeOK /\ ReservedIsOwned => OneWriter
  BY DEF ReservedIsOwned, OneWriter
<1> QED  BY <1>1, LockSafety, PTL

-----------------------------------------------------------------------------
(* The pager.                                                              *)

PagerInv ==
    /\ LockInv
    /\ eState \in [Conn -> EState]
    /\ pc \in [Conn -> PC]
    /\ StateMatchesLock

StepOK(c) ==
    /\ [LockNext]_lockVars
    /\ eState' \in [Conn -> EState]
    /\ pc' \in [Conn -> PC]
    /\ \A d \in Conn \ {c} :
           eLock'[d] = eLock[d] /\ eState'[d] = eState[d] /\ pc'[d] = pc[d]
    /\ Matches(eState'[c], pc'[c], eLock'[c])
    /\ dbf' # dbf =>
           owner = c /\ owner' = c /\ eLock[c] = EXCLUSIVE_LOCK

USE DEF NO_LOCK, SHARED_LOCK, RESERVED_LOCK, EXCLUSIVE_LOCK, UNKNOWN_LOCK

(* A step that is all right for its own connection keeps the invariant.    *)
LEMMA StepKeepsInv ==
    ASSUME PagerInv, NEW c \in Conn, StepOK(c)
    PROVE  PagerInv'
<1>1. LockInv'
  BY LockStep DEF PagerInv, StepOK
<1>2. StateMatchesLock'
  <2> SUFFICES ASSUME NEW d \in Conn
               PROVE  Matches(eState'[d], pc'[d], eLock'[d])
    BY DEF StateMatchesLock
  <2>1. CASE d = c
    BY <2>1 DEF StepOK
  <2>2. CASE d # c
    BY <2>2 DEF StepOK, PagerInv, StateMatchesLock
  <2> QED  BY <2>1, <2>2
<1> QED  BY <1>1, <1>2 DEF PagerInv, StepOK

(* pagerLockDb reaches the level it is asked for, unless it holds more or  *)
(* the level is unknown and stays so, and it concerns nobody else.         *)
LEMMA LockDbEffect ==
    ASSUME LockInv, NEW c \in Conn,
           NEW level \in {SHARED_LOCK, RESERVED_LOCK, EXCLUSIVE_LOCK},
           pagerLockDb(c, level)
    PROVE  /\ [LockNext]_lockVars
           /\ \A d \in Conn \ {c} : eLock'[d] = eLock[d]
           /\ eLock'[c] =
                  IF eLock[c] = UNKNOWN_LOCK
                  THEN IF level = EXCLUSIVE_LOCK THEN level ELSE UNKNOWN_LOCK
                  ELSE IF eLock[c] < level THEN level ELSE eLock[c]
<1>1. LockNext
  BY DEF LockNext
<1>2. eLock \in [Conn -> LockLevel]
  BY DEF LockInv, LockTypeOK
<1>3. /\ \A d \in Conn \ {c} : eLock'[d] = eLock[d]
      /\ eLock'[c] =
             IF eLock[c] = UNKNOWN_LOCK
             THEN IF level = EXCLUSIVE_LOCK THEN level ELSE UNKNOWN_LOCK
             ELSE IF eLock[c] < level THEN level ELSE eLock[c]
  BY <1>2 DEF pagerLockDb, pagerNeedsLock, lockVars, LockLevel
<1> QED  BY <1>1, <1>3

(* The EXCLUSIVE level is always reached.                                  *)
LEMMA ExclusiveEffect ==
    ASSUME LockInv, NEW c \in Conn, pagerLockDb(c, EXCLUSIVE_LOCK)
    PROVE  /\ [LockNext]_lockVars
           /\ \A d \in Conn \ {c} : eLock'[d] = eLock[d]
           /\ eLock'[c] = EXCLUSIVE_LOCK
<1>1. eLock[c] \in LockLevel
  BY DEF LockInv, LockTypeOK
<1>2. /\ [LockNext]_lockVars
      /\ \A d \in Conn \ {c} : eLock'[d] = eLock[d]
      /\ eLock'[c] = IF eLock[c] = UNKNOWN_LOCK THEN EXCLUSIVE_LOCK
                     ELSE IF eLock[c] < EXCLUSIVE_LOCK THEN EXCLUSIVE_LOCK
                     ELSE eLock[c]
  BY LockDbEffect
<1> QED  BY <1>1, <1>2 DEF LockLevel

(* pagerUnlockDb lowers the level to the one it is given, whether or not   *)
(* the system call worked; an unknown level stays unknown.                 *)
LEMMA UnlockDbEffect ==
    ASSUME LockInv, NEW c \in Conn, NEW level \in {NO_LOCK, SHARED_LOCK},
           level <= eLock[c],
           pagerUnlockDb(c, level, TRUE) \/ pagerUnlockDb(c, level, FALSE)
    PROVE  /\ [LockNext]_lockVars
           /\ \A d \in Conn \ {c} : eLock'[d] = eLock[d]
           /\ eLock'[c] = IF eLock[c] = UNKNOWN_LOCK THEN UNKNOWN_LOCK
                          ELSE level
<1>1. \E ok \in BOOLEAN : pagerUnlockDb(c, level, ok)
  OBVIOUS
<1>2. LockNext
  BY <1>1 DEF LockNext
<1>3. eLock \in [Conn -> LockLevel]
  BY DEF LockInv, LockTypeOK
<1>4. eLock' = IF eLock[c] # UNKNOWN_LOCK
               THEN [eLock EXCEPT ![c] = level] ELSE eLock
  BY DEF pagerUnlockDb
<1> QED  BY <1>2, <1>3, <1>4 DEF LockLevel

(* The end of a transaction goes down to SHARED.                            *)
LEMMA ToSharedEffect ==
    ASSUME LockInv, NEW c \in Conn, SHARED_LOCK <= eLock[c],
           \/ pagerUnlockDb(c, SHARED_LOCK, TRUE)
           \/ pagerUnlockDb(c, SHARED_LOCK, FALSE)
    PROVE  /\ [LockNext]_lockVars
           /\ \A d \in Conn \ {c} : eLock'[d] = eLock[d]
           /\ eLock'[c] = IF eLock[c] = UNKNOWN_LOCK THEN UNKNOWN_LOCK
                          ELSE SHARED_LOCK
<1> DEFINE level == SHARED_LOCK
<1>1. level \in {NO_LOCK, SHARED_LOCK} /\ level <= eLock[c]
  OBVIOUS
<1>2. pagerUnlockDb(c, level, TRUE) \/ pagerUnlockDb(c, level, FALSE)
  OBVIOUS
<1> HIDE DEF level
<1>3. /\ [LockNext]_lockVars
      /\ \A d \in Conn \ {c} : eLock'[d] = eLock[d]
      /\ eLock'[c] = IF eLock[c] = UNKNOWN_LOCK THEN UNKNOWN_LOCK
                     ELSE level
  BY <1>1, <1>2, UnlockDbEffect
<1> QED  BY <1>3 DEF level

(* pager_unlock goes down to NO_LOCK.                                      *)
LEMMA ToNoLockEffect ==
    ASSUME LockInv, NEW c \in Conn,
           \/ pagerUnlockDb(c, NO_LOCK, TRUE)
           \/ pagerUnlockDb(c, NO_LOCK, FALSE)
    PROVE  /\ [LockNext]_lockVars
           /\ \A d \in Conn \ {c} : eLock'[d] = eLock[d]
           /\ eLock'[c] = IF eLock[c] = UNKNOWN_LOCK THEN UNKNOWN_LOCK
                          ELSE NO_LOCK
<1> DEFINE level == NO_LOCK
<1>1. level \in {NO_LOCK, SHARED_LOCK} /\ level <= eLock[c]
  BY DEF LockInv, LockTypeOK, LockLevel
<1>2. pagerUnlockDb(c, level, TRUE) \/ pagerUnlockDb(c, level, FALSE)
  OBVIOUS
<1> HIDE DEF level
<1>3. /\ [LockNext]_lockVars
      /\ \A d \in Conn \ {c} : eLock'[d] = eLock[d]
      /\ eLock'[c] = IF eLock[c] = UNKNOWN_LOCK THEN UNKNOWN_LOCK
                     ELSE level
  BY <1>1, <1>2, UnlockDbEffect
<1> QED  BY <1>3 DEF level

(* A step that leaves the lock and the database file alone and moves only  *)
(* c needs nothing but a new position that fits.                           *)
LEMMA QuietStep ==
    ASSUME PagerInv, NEW c \in Conn, UNCHANGED <<owner, eLock, dbf>>,
           NEW st \in EState, NEW label \in PC,
           eState' = [eState EXCEPT ![c] = st],
           pc' = [pc EXCEPT ![c] = label],
           Matches(st, label, eLock[c])
    PROVE  StepOK(c)
<1>1. /\ eState' \in [Conn -> EState] /\ pc' \in [Conn -> PC]
      /\ \A d \in Conn \ {c} : eState'[d] = eState[d] /\ pc'[d] = pc[d]
      /\ eState'[c] = st /\ pc'[c] = label
  BY DEF PagerInv
<1> QED  BY <1>1 DEF StepOK, lockVars

(* What the invariant says of one connection.                              *)
LEMMA InvOf ==
    ASSUME PagerInv, NEW c \in Conn
    PROVE  /\ Matches(eState[c], pc[c], eLock[c])
           /\ eLock[c] \in LockLevel
           /\ eState[c] \in EState /\ pc[c] \in PC
           /\ eState = [eState EXCEPT ![c] = eState[c]]
           /\ pc = [pc EXCEPT ![c] = pc[c]]
           /\ eLock[c] = EXCLUSIVE_LOCK => owner = c
BY DEF PagerInv, StateMatchesLock, LockInv, LockTypeOK, ReservedIsOwned

(* The start of a read transaction, with and without a hot journal.        *)
LEMMA ReadSteps ==
    ASSUME PagerInv, NEW c \in Conn,
           \/ SharedLock(c) \/ hasHotJournal(c) \/ HotLock(c) \/ HotOpen(c)
           \/ CheckVersion(c)
    PROVE  StepOK(c)
<1> USE InvOf DEF Goto
<1>1. CASE SharedLock(c)
  <2>1. pagerLockDb(c, SHARED_LOCK) /\ LockInv
    BY <1>1 DEF SharedLock, PagerInv
  <2>2. /\ [LockNext]_lockVars
        /\ \A d \in Conn \ {c} : eLock'[d] = eLock[d]
        /\ eLock'[c] = IF eLock[c] = UNKNOWN_LOCK THEN UNKNOWN_LOCK
                       ELSE SHARED_LOCK
    BY <1>1, <2>1, LockDbEffect DEF SharedLock, Matches
  <2>3. pc' = [pc EXCEPT ![c] = IF eLock'[c] <= SHARED_LOCK THEN "hot"
                                ELSE "excl"]
    BY <1>1 DEF SharedLock
  <2>4. eState' = eState /\ dbf' = dbf /\ eState[c] = "OPEN"
    BY <1>1 DEF SharedLock, diskVars
  <2>5. Matches(eState'[c], pc'[c], eLock'[c])
    BY <2>2, <2>3, <2>4 DEF Matches, PagerInv, Writer, DbMod, CacheMod
  <2> QED  BY <2>2, <2>3, <2>4, <2>5 DEF StepOK, PagerInv, PC
<1>2. CASE hasHotJournal(c)
  <2>1. /\ eState[c] = "OPEN" /\ eLock[c] = SHARED_LOCK
        /\ pc[c] = "hot"
    BY <1>2 DEF hasHotJournal, Matches
  <2>2. /\ eState' = eState /\ dbf' = dbf
        /\ \/ pc' = [pc EXCEPT ![c] = "vers"]
           \/ pc' = [pc EXCEPT ![c] = "excl"]
    BY <1>2 DEF hasHotJournal, diskVars
  <2>3. [LockNext]_lockVars /\ eLock' = eLock
    <3>1. CASE jrnl.hdr = "absent"
      BY <1>2, <3>1 DEF hasHotJournal, lockVars
    <3>2. CASE jrnl.hdr # "absent"
      <4>1. verixCheckReservedLock(c)
        BY <1>2, <3>2 DEF hasHotJournal
      <4> QED  BY <2>1, <4>1 DEF LockNext, verixCheckReservedLock
    <3> QED  BY <3>1, <3>2
  <2>4. Matches(eState'[c], pc'[c], eLock'[c])
    BY <2>1, <2>2, <2>3 DEF Matches, PagerInv, Writer, DbMod, CacheMod
  <2> QED  BY <2>2, <2>3, <2>4 DEF StepOK, PagerInv, PC
<1>3. CASE HotLock(c)
  <2>1. eState[c] = "OPEN" /\ eState' = eState /\ dbf' = dbf
    BY <1>3 DEF HotLock, Matches, diskVars
  <2>2. CASE pagerLockDb(c, EXCLUSIVE_LOCK) /\ Goto(c, "hotopen")
    <3> HIDE InvOf
    <3>0. pagerLockDb(c, EXCLUSIVE_LOCK) /\ LockInv
      BY <2>2 DEF PagerInv
    <3>1. /\ [LockNext]_lockVars
          /\ \A d \in Conn \ {c} : eLock'[d] = eLock[d]
          /\ eLock'[c] = EXCLUSIVE_LOCK
      BY <3>0, ExclusiveEffect
    <3> USE InvOf
    <3>2. Matches(eState'[c], pc'[c], eLock'[c])
      BY <2>1, <2>2, <3>1 DEF Matches, PagerInv, Writer, DbMod, CacheMod
    <3> QED  BY <2>1, <2>2, <3>1, <3>2 DEF StepOK, PagerInv, PC
  <2>3. CASE Goto(c, "failed") /\ UNCHANGED lockVars
    <3>1. Matches(eState[c], "failed", eLock[c])
      BY <2>1 DEF Matches, Writer, DbMod, CacheMod
    <3> QED  BY <2>1, <2>3, <3>1, QuietStep DEF lockVars, PC
  <2> QED  BY <1>3, <2>2, <2>3 DEF HotLock
<1>4. CASE HotOpen(c)
  <2>1. /\ eState[c] = "OPEN" /\ eLock[c] = EXCLUSIVE_LOCK
        /\ eState' = eState /\ dbf' = dbf
    BY <1>4 DEF HotOpen, Matches, diskVars
  <2>2. CASE Goto(c, "playback") /\ UNCHANGED lockVars
    <3>1. Matches(eState[c], "playback", eLock[c])
      BY <2>1 DEF Matches, Writer, DbMod, CacheMod
    <3> QED  BY <2>1, <2>2, <3>1, QuietStep DEF lockVars, PC
  <2>3. CASE pagerUnlockDb(c, SHARED_LOCK, TRUE) /\ Goto(c, "vers")
    <3> HIDE InvOf
    <3>0. LockInv /\ SHARED_LOCK <= eLock[c]
      BY <2>1 DEF PagerInv
    <3>1. /\ [LockNext]_lockVars
          /\ \A d \in Conn \ {c} : eLock'[d] = eLock[d]
          /\ eLock'[c] = IF eLock[c] = UNKNOWN_LOCK THEN UNKNOWN_LOCK
                         ELSE SHARED_LOCK
      BY <2>3, <3>0, ToSharedEffect
    <3> USE InvOf
    <3>2. Matches(eState'[c], pc'[c], eLock'[c])
      BY <2>1, <2>3, <3>1 DEF Matches, PagerInv, Writer, DbMod, CacheMod
    <3> QED  BY <2>1, <2>3, <3>1, <3>2 DEF StepOK, PagerInv, PC
  <2>4. CASE Goto(c, "failed") /\ UNCHANGED lockVars
    <3>1. Matches(eState[c], "failed", eLock[c])
      BY <2>1 DEF Matches, Writer, DbMod, CacheMod
    <3> QED  BY <2>1, <2>4, <3>1, QuietStep DEF lockVars, PC
  <2> QED  BY <1>4, <2>2, <2>3, <2>4 DEF HotOpen, lockVars
<1>5. CASE CheckVersion(c)
  <2>1. /\ eLock[c] = SHARED_LOCK /\ UNCHANGED <<owner, eLock, dbf>>
        /\ eState' = [eState EXCEPT ![c] = "READER"]
        /\ pc' = [pc EXCEPT ![c] = "idle"]
    BY <1>5 DEF CheckVersion, Matches, lockVars, diskVars
  <2>2. Matches("READER", "idle", eLock[c])
    BY <2>1 DEF Matches, Writer, DbMod, CacheMod
  <2> QED  BY <2>1, <2>2, QuietStep DEF PC, EState
<1> QED  BY <1>1, <1>2, <1>3, <1>4, <1>5

(* Reading and changing pages, and the locks of a write transaction.       *)
LEMMA WorkSteps ==
    ASSUME PagerInv, NEW c \in Conn, Work(c), ~SharedLock(c)
    PROVE  StepOK(c)
<1> USE InvOf DEF Goto, diskVars, lockVars
<1>1. ASSUME NEW p \in Page, readDbPage(c, p)
      PROVE  StepOK(c)
  BY <1>1, QuietStep DEF readDbPage
<1>2. CASE BeginWrite(c)
  <2>1. /\ eState[c] = "READER" /\ pc[c] = "idle" /\ pc' = pc /\ dbf' = dbf
        /\ eState' = [eState EXCEPT ![c] = "WRITER_LOCKED"]
    BY <1>2 DEF BeginWrite
  <2>2. PICK level \in {RESERVED_LOCK, EXCLUSIVE_LOCK} :
            pagerLockDb(c, level)
    BY <1>2 DEF BeginWrite
  <2>3. eLock[c] \in {SHARED_LOCK, RESERVED_LOCK, EXCLUSIVE_LOCK}
    BY <2>1 DEF Matches
  <2>4. /\ [LockNext]_lockVars
        /\ \A d \in Conn \ {c} : eLock'[d] = eLock[d]
        /\ eLock'[c] \in {RESERVED_LOCK, EXCLUSIVE_LOCK}
    BY <2>2, <2>3, LockDbEffect DEF PagerInv
  <2>5. Matches("WRITER_LOCKED", "idle", eLock'[c])
    BY <2>4 DEF Matches, Writer, DbMod, CacheMod
  <2> QED  BY <2>1, <2>4, <2>5 DEF StepOK, PagerInv, EState, Writer
<1>3. CASE BeginBusy(c)
  <2>1. Matches(eState[c], "failed", eLock[c])
    BY <1>3 DEF BeginBusy, Matches, Writer, DbMod, CacheMod
  <2> QED  BY <1>3, <2>1, QuietStep DEF BeginBusy, PC
<1>4. CASE pager_open_journal(c)
  <2>1. /\ Matches(eState[c], "jhdr", eLock[c])
        /\ Matches(eState[c], "err", eLock[c])
    BY <1>4 DEF pager_open_journal, Matches, Writer, DbMod, CacheMod
  <2> QED  BY <1>4, <2>1, QuietStep DEF pager_open_journal, PC
<1>5. ASSUME NEW p \in Page, WritePage(c, p)
      PROVE  StepOK(c)
  <2>1. /\ Matches(eState[c], "idle", eLock[c])
        /\ Matches(eState[c], "err", eLock[c])
    BY <1>5 DEF WritePage, Matches, Writer, DbMod, CacheMod
  <2>2. pc' = [pc EXCEPT ![c] = "idle"] \/ pc' = [pc EXCEPT ![c] = "err"]
    BY <1>5 DEF WritePage, pager_write
  <2> QED  BY <1>5, <2>1, <2>2, QuietStep DEF WritePage, PC
<1> QED  BY <1>1, <1>2, <1>3, <1>4, <1>5 DEF Work

(* Commit: the journal, the pages, the change counter.                     *)
LEMMA CommitSteps ==
    ASSUME PagerInv, NEW c \in Conn,
           \/ writeJournalHdr(c) \/ pager_incr_changecounter(c)
           \/ CommitNoChange(c) \/ syncJournal(c) \/ pager_write_pagelist(c)
           \/ CommitPhaseOneDone(c)
    PROVE  StepOK(c)
<1> USE InvOf DEF Goto, diskVars, lockVars
<1>1. CASE writeJournalHdr(c)
  <2>1. /\ Matches("WRITER_CACHEMOD", "jpage", eLock[c])
        /\ Matches(eState[c], "err", eLock[c])
    BY <1>1 DEF writeJournalHdr, Matches, Writer, DbMod, CacheMod
  <2>2. \/ /\ eState' = [eState EXCEPT ![c] = "WRITER_CACHEMOD"]
           /\ pc' = [pc EXCEPT ![c] = "jpage"]
        \/ eState' = eState /\ pc' = [pc EXCEPT ![c] = "err"]
    BY <1>1 DEF writeJournalHdr
  <2>3. UNCHANGED <<owner, eLock, dbf>>
    BY <1>1 DEF writeJournalHdr
  <2>4. CASE /\ eState' = [eState EXCEPT ![c] = "WRITER_CACHEMOD"]
             /\ pc' = [pc EXCEPT ![c] = "jpage"]
    BY <2>1, <2>3, <2>4, QuietStep DEF PC, EState, Writer, CacheMod
  <2>5. CASE eState' = eState /\ pc' = [pc EXCEPT ![c] = "err"]
    BY <2>1, <2>3, <2>5, QuietStep DEF PC
  <2> QED
    BY <2>2, <2>4, <2>5
<1>2. CASE pager_incr_changecounter(c)
  <2>1. /\ Matches(eState[c], "sync", eLock[c])
        /\ Matches(eState[c], "err", eLock[c])
    BY <1>2 DEF pager_incr_changecounter, Matches, Writer, DbMod, CacheMod
  <2>2. pc' = [pc EXCEPT ![c] = "sync"] \/ pc' = [pc EXCEPT ![c] = "err"]
    BY <1>2 DEF pager_incr_changecounter, pager_write
  <2> QED
    BY <1>2, <2>1, <2>2, QuietStep DEF pager_incr_changecounter, PC
<1>3. CASE CommitNoChange(c)
  <2>1. Matches(eState[c], "end", eLock[c])
    BY <1>3 DEF CommitNoChange, Matches, Writer, DbMod, CacheMod
  <2> QED  BY <1>3, <2>1, QuietStep DEF CommitNoChange, PC
<1>4. CASE syncJournal(c)
  <2>1. /\ [LockNext]_lockVars
        /\ \A d \in Conn \ {c} : eLock'[d] = eLock[d]
        /\ eLock'[c] = EXCLUSIVE_LOCK
    BY <1>4, ExclusiveEffect DEF syncJournal, PagerInv
  <2>2. eState[c] = "WRITER_CACHEMOD" /\ dbf' = dbf
    BY <1>4 DEF syncJournal, Matches
  <2>3. \/ /\ eState' = [eState EXCEPT ![c] = "WRITER_DBMOD"]
           /\ pc' = [pc EXCEPT ![c] = "pages"]
        \/ eState' = eState /\ pc' = [pc EXCEPT ![c] = "err"]
    BY <1>4 DEF syncJournal
  <2>4. Matches(eState'[c], pc'[c], eLock'[c])
    BY <2>1, <2>2, <2>3 DEF PagerInv, Matches, Writer, DbMod, CacheMod
  <2> QED
    BY <2>1, <2>2, <2>3, <2>4
       DEF StepOK, PagerInv, PC, EState, Writer, CacheMod
<1>5. CASE pager_write_pagelist(c)
  <2>1. pc[c] = "pages" /\ eState' = eState /\ UNCHANGED <<owner, eLock>>
    BY <1>5 DEF pager_write_pagelist
  <2>2. eState[c] = "WRITER_DBMOD" /\ eLock[c] = EXCLUSIVE_LOCK /\ owner = c
    BY <2>1 DEF Matches, DbMod
  <2>3. pc' = pc \/ pc' = [pc EXCEPT ![c] = "err"]
    BY <1>5 DEF pager_write_pagelist
  <2>4. Matches(eState'[c], pc'[c], eLock'[c])
    BY <2>1, <2>2, <2>3 DEF PagerInv, Matches, Writer, DbMod, CacheMod
  <2> QED  BY <2>1, <2>2, <2>3, <2>4 DEF StepOK, PagerInv, PC
<1>6. CASE CommitPhaseOneDone(c)
  <2>1. Matches("WRITER_FINISHED", "end", eLock[c])
    BY <1>6 DEF CommitPhaseOneDone, Matches, Writer, DbMod, CacheMod
  <2> QED
    BY <1>6, <2>1, QuietStep
       DEF CommitPhaseOneDone, PC, EState, Writer, CacheMod
<1> QED  BY <1>1, <1>2, <1>3, <1>4, <1>5, <1>6

(* Rollback: what it puts back into the file, it puts back as the owner.   *)
LEMMA RollbackSteps ==
    ASSUME PagerInv, NEW c \in Conn,
           \/ Rollback(c) \/ pager_playback(c) \/ pager_playback_one_page(c)
           \/ PlaybackDone(c) \/ FinalizeJournal(c)
    PROVE  StepOK(c)
<1> USE InvOf DEF Goto, diskVars, lockVars
<1>1. CASE Rollback(c)
  <2>1. /\ eState[c] \in Writer /\ UNCHANGED <<owner, eLock, dbf, eState>>
        /\ \/ pc' = [pc EXCEPT ![c] = "end"]
           \/ pc' = [pc EXCEPT ![c] = "playback"]
    BY <1>1 DEF Rollback
  <2>2. /\ Matches(eState[c], "end", eLock[c])
        /\ Matches(eState[c], "playback", eLock[c])
    BY <2>1 DEF Matches, Writer, DbMod, CacheMod
  <2> QED  BY <2>1, <2>2, QuietStep DEF PC
<1>2. ASSUME pc[c] \in {"playback", "play"}, UNCHANGED <<owner, eLock>>,
             dbf' # dbf => PlaysToFile(c),
             \/ eState' = eState /\ pc' = pc
             \/ eState' = eState /\ pc' = [pc EXCEPT ![c] = "play"]
             \/ eState' = eState /\ pc' = [pc EXCEPT ![c] = "end"]
             \/ ToError(c)
      PROVE  StepOK(c)
  <2>1. \/ eState[c] \in Writer
        \/ eState[c] = "OPEN" /\ eLock[c] = EXCLUSIVE_LOCK
    BY <1>2 DEF Matches
  <2>2. dbf' # dbf => eLock[c] = EXCLUSIVE_LOCK /\ owner = c
    BY <1>2, <2>1 DEF PlaysToFile, isHot, Matches, Writer, DbMod, CacheMod
  <2>3. CASE eState' = eState /\ pc' = pc
    BY <1>2, <2>2, <2>3 DEF StepOK, PagerInv
  <2>4. CASE eState' = eState /\ pc' = [pc EXCEPT ![c] = "play"]
    <3>1. Matches(eState[c], "play", eLock[c])
      BY <2>1 DEF Matches, Writer, DbMod, CacheMod
    <3> QED  BY <1>2, <2>2, <2>4, <3>1 DEF StepOK, PagerInv, PC
  <2>5. CASE eState' = eState /\ pc' = [pc EXCEPT ![c] = "end"]
    <3>1. Matches(eState[c], "end", eLock[c])
      BY <2>1 DEF Matches, Writer, DbMod, CacheMod
    <3> QED  BY <1>2, <2>2, <2>5, <3>1 DEF StepOK, PagerInv, PC
  <2>6. CASE ToError(c)
    <3>1. Matches("ERROR", "idle", eLock[c])
      BY DEF Matches, Writer, DbMod, CacheMod
    <3> QED
      BY <1>2, <2>2, <2>6, <3>1 DEF StepOK, PagerInv, PC, EState, ToError
  <2> QED  BY <1>2, <2>3, <2>4, <2>5, <2>6
<1>3. CASE pager_playback(c)
  <2>1. /\ pc[c] = "playback" /\ UNCHANGED <<owner, eLock>>
        /\ dbf' # dbf => PlaysToFile(c)
        /\ \/ eState' = eState /\ pc' = [pc EXCEPT ![c] = "play"]
           \/ eState' = eState /\ pc' = [pc EXCEPT ![c] = "end"]
           \/ ToError(c)
    BY <1>3 DEF pager_playback
  <2> QED  BY <1>2, <2>1
<1>4. CASE pager_playback_one_page(c)
  <2>1. /\ pc[c] = "play" /\ UNCHANGED <<owner, eLock>>
        /\ dbf' # dbf => PlaysToFile(c)
        /\ \/ eState' = eState /\ pc' = pc
           \/ eState' = eState /\ pc' = [pc EXCEPT ![c] = "end"]
           \/ ToError(c)
    BY <1>4 DEF pager_playback_one_page
  <2> QED  BY <1>2, <2>1
<1>5. CASE PlaybackDone(c)
  BY <1>2, <1>5 DEF PlaybackDone
<1>6. CASE FinalizeJournal(c)
  <2>1. Matches(eState[c], "unlock", eLock[c])
    BY <1>6 DEF FinalizeJournal, Matches, Writer, DbMod, CacheMod
  <2> QED  BY <1>6, <2>1, QuietStep DEF FinalizeJournal, PC
<1> QED  BY <1>1, <1>3, <1>4, <1>5, <1>6

(* The end of a transaction and of a process.                              *)
LEMMA EndSteps ==
    ASSUME PagerInv, NEW c \in Conn,
           EndTransaction(c) \/ KeepReading(c) \/ pager_unlock(c) \/ Crash(c)
    PROVE  StepOK(c)
<1>1. LockInv
  BY DEF PagerInv
<1>2. CASE EndTransaction(c)
  <2>1. \/ eState[c] \in Writer /\ eLock[c] \in {RESERVED_LOCK, EXCLUSIVE_LOCK}
        \/ eState[c] = "OPEN" /\ eLock[c] = EXCLUSIVE_LOCK
    BY <1>2, InvOf DEF EndTransaction, Matches
  <2>2. /\ \/ pagerUnlockDb(c, SHARED_LOCK, TRUE)
           \/ pagerUnlockDb(c, SHARED_LOCK, FALSE)
        /\ dbf' = dbf
    BY <1>2 DEF EndTransaction, diskVars
  <2>3. /\ SHARED_LOCK <= eLock[c] /\ eLock[c] # UNKNOWN_LOCK
    BY <2>1
  <2>4. /\ [LockNext]_lockVars
        /\ \A d \in Conn \ {c} : eLock'[d] = eLock[d]
        /\ eLock'[c] = IF eLock[c] = UNKNOWN_LOCK THEN UNKNOWN_LOCK
                       ELSE SHARED_LOCK
    BY <1>1, <2>2, <2>3, ToSharedEffect
  <2>5. \/ /\ eState' = [eState EXCEPT ![c] = "OPEN"]
           /\ pc' = [pc EXCEPT ![c] = "vers"]
        \/ /\ eState' = [eState EXCEPT ![c] = "READER"]
           /\ pc' = [pc EXCEPT ![c] = "done"]
        \/ /\ eState' = [eState EXCEPT ![c] = "ERROR"]
           /\ pc' = [pc EXCEPT ![c] = "idle"]
    BY <1>2 DEF EndTransaction, ToError, Goto
  <2>6. /\ Matches("OPEN", "vers", SHARED_LOCK)
        /\ Matches("READER", "done", SHARED_LOCK)
        /\ Matches("ERROR", "idle", SHARED_LOCK)
    BY DEF Matches, Writer, DbMod, CacheMod
  <2> QED
    BY <2>2, <2>3, <2>4, <2>5, <2>6 DEF StepOK, PagerInv, EState, PC
<1>3. CASE KeepReading(c)
  <2>1. Matches(eState[c], "idle", eLock[c])
    BY <1>3, InvOf DEF KeepReading, Matches, Writer, DbMod, CacheMod
  <2> QED
    BY <1>3, <2>1, InvOf, QuietStep
       DEF KeepReading, PC, Goto, lockVars, diskVars
<1>4. CASE pager_unlock(c)
  <2>1. /\ [LockNext]_lockVars
        /\ \A d \in Conn \ {c} : eLock'[d] = eLock[d]
        /\ eLock'[c] \in {NO_LOCK, UNKNOWN_LOCK}
    <3>1. CASE \/ pagerUnlockDb(c, NO_LOCK, TRUE)
               \/ pagerUnlockDb(c, NO_LOCK, FALSE)
      <4>1. /\ [LockNext]_lockVars
            /\ \A d \in Conn \ {c} : eLock'[d] = eLock[d]
            /\ eLock'[c] = IF eLock[c] = UNKNOWN_LOCK THEN UNKNOWN_LOCK
                           ELSE NO_LOCK
        BY <1>1, <3>1, ToNoLockEffect
      <4> QED  BY <4>1
    <3>2. CASE pagerUnlockFailedInError(c)
      <4>1. LockNext
        BY <3>2 DEF LockNext
      <4> QED
        BY <1>1, <3>2, <4>1
           DEF pagerUnlockFailedInError, LockInv, LockTypeOK
    <3> QED  BY <1>4, <3>1, <3>2 DEF pager_unlock
  <2>2. /\ eState' = [eState EXCEPT ![c] = "OPEN"]
        /\ pc' = [pc EXCEPT ![c] = "idle"] /\ dbf' = dbf
    BY <1>4 DEF pager_unlock, Goto, diskVars
  <2>3. Matches("OPEN", "idle", eLock'[c])
    BY <2>1 DEF Matches, Writer, DbMod, CacheMod
  <2> QED  BY <2>1, <2>2, <2>3 DEF StepOK, PagerInv, EState, PC
<1>5. CASE Crash(c)
  <2>1. /\ [LockNext]_lockVars
        /\ \A d \in Conn \ {c} : eLock'[d] = eLock[d]
        /\ eLock'[c] = NO_LOCK
    <3>1. LockCrash(c)
      BY <1>5 DEF Crash
    <3>2. LockNext
      BY <3>1 DEF LockNext
    <3> QED  BY <1>1, <3>1, <3>2 DEF LockCrash, LockInv, LockTypeOK
  <2>2. /\ eState' = [eState EXCEPT ![c] = "OPEN"]
        /\ pc' = [pc EXCEPT ![c] = "idle"] /\ dbf' = dbf
    BY <1>5 DEF Crash, diskVars
  <2>3. Matches("OPEN", "idle", NO_LOCK)
    BY DEF Matches, Writer, DbMod, CacheMod
  <2> QED  BY <2>1, <2>2, <2>3 DEF StepOK, PagerInv, EState, PC
<1> QED  BY <1>2, <1>3, <1>4, <1>5

(* Every step of the specification is a step of one connection that is     *)
(* all right, or changes nothing.                                          *)
LEMMA NextStep ==
    ASSUME PagerInv, Next
    PROVE  \E c \in Conn : StepOK(c)
<1>1. PICK c \in Conn : PagerStep(c) \/ Finish(c) \/ Work(c) \/ Crash(c)
  BY DEF Next
<1>2. CASE PagerStep(c)
  BY <1>2, ReadSteps, CommitSteps, RollbackSteps, EndSteps DEF PagerStep
<1>3. CASE Finish(c)
  BY <1>3, CommitSteps, RollbackSteps, EndSteps DEF Finish
<1>4. CASE Work(c)
  <2>1. CASE SharedLock(c)
    BY <2>1, ReadSteps
  <2>2. CASE ~SharedLock(c)
    BY <1>4, <2>2, WorkSteps
  <2> QED  BY <2>1, <2>2
<1>5. CASE Crash(c)
  BY <1>5, EndSteps
<1> QED  BY <1>1, <1>2, <1>3, <1>4, <1>5

(* The invariant holds at the start, when every pager is closed ...        *)
LEMMA InitInv == Init => PagerInv
<1> SUFFICES ASSUME Init PROVE PagerInv
  OBVIOUS
<1>1. LockInv
  BY ConnAssumption
     DEF Init, LockInit, LockInv, LockTypeOK, ReservedIsOwned, LockLevel
<1>2. eState \in [Conn -> EState] /\ pc \in [Conn -> PC]
  BY DEF Init, EState, PC
<1>3. Matches("OPEN", "idle", NO_LOCK)
  BY DEF Matches, Writer, DbMod, CacheMod
<1>4. StateMatchesLock
  BY <1>3 DEF Init, LockInit, StateMatchesLock
<1> QED  BY <1>1, <1>2, <1>4 DEF PagerInv

(* ... and every step keeps it.                                            *)
LEMMA NextInv == PagerInv /\ [Next]_vars => PagerInv'
<1> SUFFICES ASSUME PagerInv, [Next]_vars PROVE PagerInv'
  OBVIOUS
<1>1. CASE Next
  BY <1>1, NextStep, StepKeepsInv
<1>2. CASE UNCHANGED vars
  BY <1>2 DEF vars, PagerInv, LockInv, LockTypeOK, ReservedIsOwned,
              StateMatchesLock
<1> QED  BY <1>1, <1>2

(* Whatever fails or ends on the way, the state of every pager fits the    *)
(* lock level it believes in, as assert_pager_state demands.               *)
THEOREM PagerStateSafe == Spec => []StateMatchesLock
<1>1. PagerInv => StateMatchesLock
  BY DEF PagerInv
<1> QED  BY <1>1, InitInv, NextInv, PTL DEF Spec

(* The pager uses the lock as VerixLock says: with LockSafety, a pager at  *)
(* RESERVED or above owns the file.                                        *)
THEOREM PagerImplementsLock == Spec => LockProtocol
<1>1. Init => LockInit
  BY DEF Init
<1>2. PagerInv /\ [Next]_vars => [LockNext]_lockVars
  <2> SUFFICES ASSUME PagerInv, [Next]_vars PROVE [LockNext]_lockVars
    OBVIOUS
  <2>1. CASE Next
    BY <2>1, NextStep DEF StepOK
  <2>2. CASE UNCHANGED vars
    BY <2>2 DEF vars, lockVars
  <2> QED  BY <2>1, <2>2
<1> QED  BY <1>1, <1>2, InitInv, NextInv, PTL DEF Spec, LockProtocol, LockSpec

(* No step of a commit, a rollback or a recovery changes the database file *)
(* unless its connection owns the file and knows it: invariant (12).       *)
THEOREM PagerWriteUnderLock == Spec => WriteUnderLock
<1> DEFINE Guarded ==
      dbf' # dbf => \E c \in Conn : owner = c /\ owner' = c
                                    /\ eLock[c] = EXCLUSIVE_LOCK
<1>1. PagerInv /\ [Next]_vars => [Guarded]_vars
  <2> SUFFICES ASSUME PagerInv, Next PROVE Guarded
    OBVIOUS
  <2> QED  BY NextStep DEF StepOK
<1> QED  BY <1>1, InitInv, NextInv, PTL DEF Spec, WriteUnderLock

(* Two connections are never both between BEGIN and the end of a write     *)
(* transaction, although Verix has no RESERVED lock.                       *)
THEOREM PagerOneWriter == Spec => []OneWriter
BY PagerImplementsLock, LockOneWriter, PTL DEF LockProtocol
=============================================================================

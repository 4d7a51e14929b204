----------------------------- MODULE VerixLock -----------------------------
(***************************************************************************)
(* The lock on one database file, as the pagers of a set of connections    *)
(* take and give it back through the verix VFS.                            *)
(*                                                                         *)
(* SQLite asks its VFS for five lock levels.  Verix has one whole-file     *)
(* lock per file, so verixLock and verixUnlock ignore the level they are   *)
(* given.  `owner' is the operating system's lock, `eLock[c]' the level    *)
(* that connection c's pager believes it holds; the module is about how    *)
(* the two relate.  Pager.tla extends it with what the pager does with     *)
(* the lock, and implements LockSpec.                                      *)
(***************************************************************************)
EXTENDS Integers

CONSTANTS
    Conn,       \* database connections, each a process with its own handle
    NoConn,     \* value of `owner' while nobody holds the OS lock
    Vfs         \* which VFS is linked: "verix" (verix.c), "os_verix" (3.5.9)

ASSUME ConnAssumption == NoConn \notin Conn
ASSUME VfsAssumption == Vfs \in {"verix", "os_verix"}

VARIABLES
    owner,      \* the connection whose handle holds the OS lock, or NoConn
    eLock       \* Pager.eLock of each connection

lockVars == <<owner, eLock>>

\* The lock levels of sqlite3.h; no one asks for PENDING_LOCK (3).
NO_LOCK == 0
SHARED_LOCK == 1
RESERVED_LOCK == 2
EXCLUSIVE_LOCK == 4
UNKNOWN_LOCK == EXCLUSIVE_LOCK + 1

LockLevel ==
    {NO_LOCK, SHARED_LOCK, RESERVED_LOCK, EXCLUSIVE_LOCK, UNKNOWN_LOCK}

-----------------------------------------------------------------------------
(* The operating system.  lock(h,0,0) succeeds unless another handle has   *)
(* the file; the owner may lock again (the pager does, on its way from     *)
(* SHARED to EXCLUSIVE).  unlock(h,0,0) releases only the caller's lock.   *)

OsLockable(c) == owner \in {NoConn, c}

OsUnlock(c) == owner' = IF owner = c THEN NoConn ELSE owner

-----------------------------------------------------------------------------
(* The VFS methods.  `ok' is whether the system call returned 0.           *)

\* Mutant: the result of lock() is not looked at.
verixLockUnchecked(c) ==
    owner' = IF OsLockable(c) THEN c ELSE owner

verixLock(c) ==
    /\ OsLockable(c)
    /\ owner' = c

verixLockBusy(c) == ~OsLockable(c)

verixUnlock(c, ok) ==
    IF ok THEN OsUnlock(c) ELSE UNCHANGED owner

\* The probe locks the file and, if that worked, unlocks it again, whether or
\* not the caller held the lock before.
verixCheckReservedLock(c) ==
    /\ IF OsLockable(c) THEN owner' = NoConn ELSE UNCHANGED owner
    /\ UNCHANGED eLock

\* Mutant: both files overwrite the result.
ReservedAlways(c) == TRUE

\* What the probe reports: os_verix.c says whether the file was locked;
\* verix.c overwrites that with `rc = 1'.
ReservedReported(c) ==
    IF Vfs = "verix" THEN TRUE ELSE ~OsLockable(c)

-----------------------------------------------------------------------------
(* The pager's wrappers, which keep eLock.                                 *)

pagerNeedsLock(c, level) ==
    eLock[c] < level \/ eLock[c] = UNKNOWN_LOCK

pagerLockDb(c, level) ==
    IF pagerNeedsLock(c, level)
    THEN /\ verixLock(c)
         /\ eLock' = IF eLock[c] # UNKNOWN_LOCK \/ level = EXCLUSIVE_LOCK
                     THEN [eLock EXCEPT ![c] = level] ELSE eLock
    ELSE UNCHANGED lockVars

pagerLockDbBusy(c, level) ==
    /\ pagerNeedsLock(c, level)
    /\ verixLockBusy(c)

\* eLock follows the level asked for even when the system call failed.
pagerUnlockDb(c, level, ok) ==
    /\ verixUnlock(c, ok)
    /\ eLock' = IF eLock[c] # UNKNOWN_LOCK
                THEN [eLock EXCEPT ![c] = level] ELSE eLock

\* pager_unlock in ERROR state: a failed unlock leaves the level unknown.
pagerUnlockFailedInError(c) ==
    /\ verixUnlock(c, FALSE)
    /\ eLock' = [eLock EXCEPT ![c] = UNKNOWN_LOCK]

\* The process ends: the system closes its handle and drops its lock.
LockCrash(c) ==
    /\ OsUnlock(c)
    /\ eLock' = [eLock EXCEPT ![c] = NO_LOCK]

-----------------------------------------------------------------------------
LockInit ==
    /\ owner = NoConn
    /\ eLock = [c \in Conn |-> NO_LOCK]

LockNext ==
    \E c \in Conn :
        \/ \E level \in {SHARED_LOCK, RESERVED_LOCK, EXCLUSIVE_LOCK} :
               pagerLockDb(c, level)
        \/ \E level \in {NO_LOCK, SHARED_LOCK}, ok \in BOOLEAN :
               /\ level <= eLock[c]
               /\ pagerUnlockDb(c, level, ok)
        \/ /\ eLock[c] <= SHARED_LOCK
           /\ verixCheckReservedLock(c)
        \/ pagerUnlockFailedInError(c)
        \/ LockCrash(c)

LockSpec == LockInit /\ [][LockNext]_lockVars

-----------------------------------------------------------------------------
LockTypeOK ==
    /\ owner \in Conn \cup {NoConn}
    /\ eLock \in [Conn -> LockLevel]

(* A pager that believes it has the RESERVED lock or the EXCLUSIVE lock    *)
(* really has the file: neither the level-blind unlock, nor another        *)
(* connection's probe or unlock, nor a failed call can take it away.       *)
ReservedIsOwned ==
    \A c \in Conn :
        eLock[c] \in {RESERVED_LOCK, EXCLUSIVE_LOCK} => owner = c

(* So two connections are never both about to change the file, although    *)
(* every level maps to the same system call.                               *)
OneWriter ==
    \A c, d \in Conn :
        /\ eLock[c] \in {RESERVED_LOCK, EXCLUSIVE_LOCK}
        /\ eLock[d] \in {RESERVED_LOCK, EXCLUSIVE_LOCK}
        => c = d
=============================================================================

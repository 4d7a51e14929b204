------------------------------- MODULE Pager -------------------------------
(***************************************************************************)
(* SQLite's pager in rollback-journal mode (journal_mode=DELETE), as       *)
(* several connections run it over the verix VFS on one database file.     *)
(*                                                                         *)
(* Every step is one call of the pager into the VFS, with the changes of   *)
(* the pager's own state around it, so that other connections, I/O errors  *)
(* and the end of a process can come between any two calls.  pc[c] says    *)
(* where inside a pager function connection c is; "idle" is between two    *)
(* calls of the b-tree layer.                                              *)
(*                                                                         *)
(* Page 1 stands for the database header: its content is the change        *)
(* counter.  The content of any other page is the number of times it has   *)
(* been changed, so a lost or half-done change shows.                      *)
(***************************************************************************)
EXTENDS VerixLock, Sequences, FiniteSets

CONSTANTS
    InitPages,      \* size of the database at the start, in pages
    MaxPage,        \* bound: the largest page number
    MaxVal,         \* bound: how often a page may change
    MaxCommits,     \* bound: the largest change counter
    Nonce,          \* the values writeJournalHdr draws for cksumInit
    FreshNonce,     \* does it never draw the cksumInit of an older journal?
    Overlap,        \* may a statement go on reading after another commits?
    FaultKinds,     \* which faults happen: a subset of AllFaults
    MaxFaults       \* bound: how many of them happen

AllFaults == {"crash", "write", "read", "delete", "unlock"}

ASSUME PagerAssumption ==
    /\ InitPages \in Nat \ {0}
    /\ MaxPage \in Nat /\ InitPages <= MaxPage
    /\ MaxVal \in Nat \ {0} /\ MaxCommits \in Nat /\ MaxFaults \in Nat
    /\ Overlap \in BOOLEAN /\ FreshNonce \in BOOLEAN
    /\ FaultKinds \subseteq AllFaults
    /\ 0 \notin Nonce       \* 0 is NoMatch

\* The 3.5.9 pager has no UNKNOWN_LOCK and its VFS reports failed reads in
\* another way; these two faults are modelled for verix.c only.
ASSUME OldVfsAssumption ==
    Vfs = "os_verix" => FaultKinds \subseteq {"crash", "write", "delete"}

VARIABLES
    dbf,        \* the database file: the sequence of its pages' contents
    jrnl,       \* the rollback journal file
    faults,     \* how many faults have happened
    eState,     \* Pager.eState
    pc,         \* the call that connection c makes next
    cache,      \* the page cache: contents of cached pages, or NotCached
    vers,       \* Pager.dbFileVers, the change counter last read or written
    tx          \* the rest of the Pager object, see TxType

diskVars == <<dbf, jrnl>>
connVars == <<eState, pc, cache, vers, tx>>
vars == <<owner, eLock, dbf, jrnl, faults, eState, pc, cache, vers, tx>>

Page == 1 .. MaxPage
NotCached == -2
Garbage == -1       \* a page whose last write failed half-way
NoMatch == 0        \* a checksum that fits no content
EmptyCache == [p \in Page |-> NotCached]

\* The state of a journal file's header: no file, a file without a header,
\* a header whose magic number and nRec are still zero, a complete header.
HdrState == {"absent", "empty", "zeroed", "valid"}

NoJournal ==
    [hdr |-> "absent", nRec |-> 0, cksumInit |-> 0, mxPg |-> 0, recs |-> <<>>]

NewTx ==
    [dbSize |-> 0, dbOrigSize |-> 0, dirty |-> {}, todo |-> {},
     inJournal |-> {}, jfd |-> FALSE, pos |-> 0, n |-> 0,
     rc |-> "OK"]

CacheMod == {"WRITER_CACHEMOD", "WRITER_DBMOD", "WRITER_FINISHED"}
DbMod == {"WRITER_DBMOD", "WRITER_FINISHED"}
Writer == {"WRITER_LOCKED"} \cup CacheMod
EState == {"OPEN", "READER", "ERROR"} \cup Writer

PC == {"idle", "hot", "excl", "hotopen", "vers", "failed", "jhdr", "jpage",
       "sync", "pages", "playback", "play", "end", "unlock", "done", "err"}

Init ==
    /\ LockInit
    /\ dbf = [p \in 1 .. InitPages |-> 0]
    /\ jrnl = NoJournal
    /\ faults = 0
    /\ eState = [c \in Conn |-> "OPEN"]
    /\ pc = [c \in Conn |-> "idle"]
    /\ cache = [c \in Conn |-> EmptyCache]
    /\ vers = [c \in Conn |-> 0]
    /\ tx = [c \in Conn |-> NewTx]

NoFault == UNCHANGED faults
Fault(kind) ==
    /\ kind \in FaultKinds
    /\ faults < MaxFaults
    /\ faults' = faults + 1

Goto(c, label) == pc' = [pc EXCEPT ![c] = label]

-----------------------------------------------------------------------------
(* sqlite3PagerSharedLock: the start of a read transaction.                *)

\* After a failed unlock in ERROR state the level is unknown, and the pager
\* goes to the hot-journal branch without asking hasHotJournal.  A busy file
\* leaves everything as it was.
SharedLock(c) ==
    /\ eState[c] = "OPEN" /\ pc[c] = "idle"
    /\ pagerLockDb(c, SHARED_LOCK)
    /\ Goto(c, IF eLock'[c] <= SHARED_LOCK THEN "hot" ELSE "excl")
    /\ NoFault
    /\ UNCHANGED <<diskVars, eState, cache, vers, tx>>

\* Mutant: the probe comes before the look for a journal.
hasHotJournalProbesFirst(c) ==
    /\ pc[c] = "hot"
    /\ verixCheckReservedLock(c)
    /\ Goto(c, IF jrnl.hdr = "absent" \/ ReservedReported(c) THEN "vers"
               ELSE "excl")
    /\ NoFault
    /\ UNCHANGED <<diskVars, eState, cache, vers, tx>>

\* An existing journal is probed for a RESERVED lock.  With verix.c the probe
\* always says "locked", so the rest of the 3.8.11 function is never reached;
\* the 3.5.9 function calls every journal hot that nobody holds a lock for.
hasHotJournal(c) ==
    /\ pc[c] = "hot"
    /\ IF jrnl.hdr = "absent"
       THEN Goto(c, "vers") /\ UNCHANGED lockVars
       ELSE /\ verixCheckReservedLock(c)
            /\ Goto(c, IF ReservedReported(c) THEN "vers" ELSE "excl")
    /\ NoFault
    /\ UNCHANGED <<diskVars, eState, cache, vers, tx>>

HotLock(c) ==
    /\ pc[c] = "excl"
    /\ \/ pagerLockDb(c, EXCLUSIVE_LOCK) /\ Goto(c, "hotopen")
       \/ /\ pagerLockDbBusy(c, EXCLUSIVE_LOCK)
          /\ Goto(c, "failed")
          /\ UNCHANGED lockVars
    /\ NoFault
    /\ UNCHANGED <<diskVars, eState, cache, vers, tx>>

\* If somebody else removed the journal, 3.8.11 goes on with a SHARED lock
\* and 3.5.9 fails with SQLITE_BUSY.
HotOpen(c) ==
    /\ pc[c] = "hotopen"
    /\ \/ /\ jrnl.hdr # "absent"
          /\ tx' = [tx EXCEPT ![c].jfd = TRUE]
          /\ Goto(c, "playback")
          /\ UNCHANGED lockVars
       \/ /\ jrnl.hdr = "absent"
          /\ IF Vfs = "verix"
             THEN pagerUnlockDb(c, SHARED_LOCK, TRUE) /\ Goto(c, "vers")
             ELSE Goto(c, "failed") /\ UNCHANGED lockVars
          /\ UNCHANGED tx
    /\ NoFault
    /\ UNCHANGED <<diskVars, eState, cache, vers>>

\* Mutant: the change counter is not looked at.
CheckVersionSkipped(c) ==
    /\ pc[c] = "vers"
    /\ tx' = [tx EXCEPT ![c].dbSize = Len(dbf)]
    /\ eState' = [eState EXCEPT ![c] = "READER"]
    /\ Goto(c, "idle")
    /\ NoFault
    /\ UNCHANGED <<lockVars, diskVars, cache, vers>>

\* The change counter on disk decides whether the cache is still good.  A
\* failed read is taken for a counter of zero.
CheckVersion(c) ==
    /\ pc[c] = "vers"
    /\ \E dbFileVers \in {dbf[1], 0} :
           /\ \/ NoFault /\ dbFileVers = dbf[1]
              \/ Fault("read") /\ dbFileVers = 0
           /\ cache' = IF vers[c] = dbFileVers THEN cache
                       ELSE [cache EXCEPT ![c] = EmptyCache]
    /\ tx' = [tx EXCEPT ![c].dbSize = Len(dbf)]
    /\ eState' = [eState EXCEPT ![c] = "READER"]
    /\ Goto(c, "idle")
    /\ UNCHANGED <<lockVars, diskVars, vers>>

-----------------------------------------------------------------------------
(* Reading and changing pages.                                             *)

PageOnDisk(p) == IF p <= Len(dbf) THEN dbf[p] ELSE 0

\* The b-tree layer fetches page 1 before any other page.  verixRead turns
\* a failed read into a short one, which readDbPage takes for a page of
\* zeros.
readDbPage(c, p) ==
    /\ pc[c] = "idle"
    /\ eState[c] \in {"READER", "WRITER_LOCKED", "WRITER_CACHEMOD"}
    /\ p <= tx[c].dbSize /\ cache[c][p] = NotCached
    /\ p = 1 \/ cache[c][1] # NotCached
    /\ \/ NoFault /\ cache' = [cache EXCEPT ![c][p] = PageOnDisk(p)]
       \/ Fault("read") /\ cache' = [cache EXCEPT ![c][p] = 0]
    /\ vers' = IF p = 1 THEN [vers EXCEPT ![c] = cache'[c][1]] ELSE vers
    /\ UNCHANGED <<lockVars, diskVars, eState, pc, tx>>

\* Mutant: the pager trusts its SHARED lock and takes the RESERVED lock
\* without a call.
BeginWriteNoCall(c) ==
    /\ pc[c] = "idle" /\ eState[c] = "READER"
    /\ cache[c][1] # NotCached
    /\ vers[c] < MaxCommits
    /\ eLock' = [eLock EXCEPT ![c] = RESERVED_LOCK]
    /\ eState' = [eState EXCEPT ![c] = "WRITER_LOCKED"]
    /\ tx' = [tx EXCEPT ![c].dbOrigSize = tx[c].dbSize]
    /\ NoFault
    /\ UNCHANGED <<owner, diskVars, pc, cache, vers>>

\* sqlite3PagerBegin; exFlag asks for the EXCLUSIVE lock at once.
BeginWrite(c) ==
    /\ pc[c] = "idle" /\ eState[c] = "READER"
    /\ cache[c][1] # NotCached
    /\ vers[c] < MaxCommits
    /\ \E exFlag \in BOOLEAN :
           pagerLockDb(c, IF exFlag THEN EXCLUSIVE_LOCK ELSE RESERVED_LOCK)
    /\ eState' = [eState EXCEPT ![c] = "WRITER_LOCKED"]
    /\ tx' = [tx EXCEPT ![c].dbOrigSize = tx[c].dbSize]
    /\ NoFault
    /\ UNCHANGED <<diskVars, pc, cache, vers>>

\* SQLITE_BUSY for the write lock: the b-tree layer gives up its page 1, and
\* the pager unlocks.
BeginBusy(c) ==
    /\ pc[c] = "idle" /\ eState[c] = "READER"
    /\ cache[c][1] # NotCached
    /\ pagerLockDbBusy(c, RESERVED_LOCK)
    /\ Goto(c, "failed")
    /\ NoFault
    /\ UNCHANGED <<lockVars, diskVars, eState, cache, vers, tx>>

\* The pages the b-tree layer can change: those it has fetched, and the page
\* after the last one.
Writable(c, p) ==
    /\ p > 1 /\ cache[c][p] < MaxVal
    /\ cache[c][p] # NotCached \/ p = tx[c].dbSize + 1

\* The first page change of a transaction opens the journal.  A file that is
\* already there keeps its content.
pager_open_journal(c) ==
    /\ pc[c] = "idle" /\ eState[c] = "WRITER_LOCKED"
    /\ \E p \in Page : Writable(c, p)
    /\ \/ /\ NoFault
          /\ jrnl' = IF jrnl.hdr = "absent"
                     THEN [NoJournal EXCEPT !.hdr = "empty"] ELSE jrnl
          /\ tx' = [tx EXCEPT ![c].jfd = TRUE]
          /\ Goto(c, "jhdr")
       \/ Fault("write") /\ Goto(c, "err") /\ UNCHANGED <<jrnl, tx>>
    /\ UNCHANGED <<lockVars, dbf, eState, cache, vers>>

\* sqlite3_randomness is seeded from verixRandomness, that is from rand().
\* Nothing in the repository calls srand, so unless the application does, a
\* restarted process draws the values that its predecessor drew.
Drawn ==
    Nonce \ (IF FreshNonce
             THEN {jrnl.recs[i].cksum : i \in 1 .. Len(jrnl.recs)} ELSE {})

\* Magic number and nRec are written as zeros; syncJournal fills them in.  A
\* failed write may have cleared the header that an older journal left.
writeJournalHdr(c) ==
    /\ pc[c] = "jhdr"
    /\ \/ /\ NoFault
          /\ \E init \in Drawn :
                 jrnl' = [hdr |-> "zeroed", nRec |-> 0, cksumInit |-> init,
                          mxPg |-> tx[c].dbOrigSize, recs |-> jrnl.recs]
          /\ eState' = [eState EXCEPT ![c] = "WRITER_CACHEMOD"]
          /\ Goto(c, "jpage")
       \/ /\ Fault("write")
          /\ jrnl' \in {jrnl, IF jrnl.hdr # "valid" THEN jrnl
                             ELSE [jrnl EXCEPT !.hdr = "zeroed", !.nRec = 0]}
          /\ Goto(c, "err")
          /\ UNCHANGED eState
    /\ UNCHANGED <<lockVars, dbf, cache, vers, tx>>

\* The journal with one more record, written over what an older transaction
\* may have left at that place.
AddRecord(c, p) ==
    LET i == Cardinality(tx[c].inJournal) + 1
        rec == [pg |-> p, data |-> cache[c][p], cksum |-> jrnl.cksumInit]
    IN  [jrnl EXCEPT !.recs =
            [k \in 1 .. (IF i > Len(@) THEN i ELSE Len(@)) |->
                IF k = i THEN rec ELSE @[k]]]

\* Page number, content and checksum are written in this order, so a failed
\* write may have spoilt the old record of that place.  Of a place beyond the
\* end of the file too little is written to count as a record.
TornRecord(c, p) ==
    LET i == Cardinality(tx[c].inJournal) + 1
        old == jrnl.recs[i]
    IN  IF i > Len(jrnl.recs) THEN {jrnl}
        ELSE {jrnl} \cup
             {[jrnl EXCEPT !.recs[i] = rec] :
                 rec \in {[old EXCEPT !.pg = p],
                          [pg |-> p, data |-> Garbage, cksum |-> NoMatch]}}

\* Mutant: the page after the last one counts as old.
NeedsRecordOffByOne(c, p) ==
    p <= tx[c].dbOrigSize + 1 /\ p \notin tx[c].inJournal

NeedsRecord(c, p) ==
    p <= tx[c].dbOrigSize /\ p \notin tx[c].inJournal

\* pager_write: the page's old content is journalled once per transaction,
\* unless the page is new; after a failed journal write the page is dirty,
\* but neither changed nor journalled.
pager_write(c, p, content, next) ==
    \/ /\ NoFault
       /\ jrnl' = IF NeedsRecord(c, p) THEN AddRecord(c, p) ELSE jrnl
       /\ tx' = [tx EXCEPT
                    ![c].inJournal = IF NeedsRecord(c, p)
                                     THEN @ \cup {p} ELSE @,
                    ![c].dirty = @ \cup {p},
                    ![c].dbSize = IF p > @ THEN p ELSE @]
       /\ cache' = [cache EXCEPT ![c][p] = content]
       /\ Goto(c, next)
    \/ /\ NeedsRecord(c, p)
       /\ Fault("write")
       /\ jrnl' \in TornRecord(c, p)
       /\ tx' = [tx EXCEPT ![c].dirty = @ \cup {p}]
       /\ Goto(c, "err")
       /\ UNCHANGED cache

Changed(content) ==
    IF content = NotCached THEN 1
    ELSE IF content = Garbage THEN Garbage ELSE content + 1

\* The b-tree layer changes page p, or appends it to the database.
WritePage(c, p) ==
    /\ pc[c] \in {"idle", "jpage"} /\ eState[c] = "WRITER_CACHEMOD"
    /\ Writable(c, p)
    /\ pager_write(c, p, Changed(cache[c][p]), "idle")
    /\ UNCHANGED <<lockVars, dbf, eState, vers>>

-----------------------------------------------------------------------------
(* sqlite3PagerCommitPhaseOne and Two.                                     *)

pager_incr_changecounter(c) ==
    /\ pc[c] = "idle" /\ eState[c] = "WRITER_CACHEMOD"
    /\ pager_write(c, 1, vers[c] + 1, "sync")
    /\ UNCHANGED <<lockVars, dbf, eState, vers>>

\* A transaction that changed nothing has only its lock to give back.
CommitNoChange(c) ==
    /\ pc[c] = "idle" /\ eState[c] = "WRITER_LOCKED"
    /\ Goto(c, "end")
    /\ NoFault
    /\ UNCHANGED <<lockVars, diskVars, eState, cache, vers, tx>>

\* Mutant: pages are written while the journal's header is still zero.
syncJournalForgotten(c) ==
    /\ pc[c] = "sync"
    /\ pagerLockDb(c, EXCLUSIVE_LOCK)
    /\ NoFault
    /\ eState' = [eState EXCEPT ![c] = "WRITER_DBMOD"]
    /\ tx' = [tx EXCEPT ![c].todo = tx[c].dirty]
    /\ Goto(c, "pages")
    /\ UNCHANGED <<dbf, jrnl, cache, vers>>

\* Mutant: the RESERVED lock is taken to be enough for writing pages.
syncJournalNoLock(c) ==
    /\ pc[c] = "sync"
    /\ NoFault
    /\ jrnl' = [jrnl EXCEPT !.hdr = "valid",
                            !.nRec = Cardinality(tx[c].inJournal)]
    /\ eState' = [eState EXCEPT ![c] = "WRITER_DBMOD"]
    /\ tx' = [tx EXCEPT ![c].todo = tx[c].dirty]
    /\ Goto(c, "pages")
    /\ UNCHANGED <<lockVars, dbf, cache, vers>>

\* From here on the journal can undo what follows.  A failed write may have
\* completed the magic number and not yet nRec.
syncJournal(c) ==
    /\ pc[c] = "sync"
    /\ pagerLockDb(c, EXCLUSIVE_LOCK)
    /\ \/ /\ NoFault
          /\ jrnl' = [jrnl EXCEPT !.hdr = "valid",
                                  !.nRec = Cardinality(tx[c].inJournal)]
          /\ eState' = [eState EXCEPT ![c] = "WRITER_DBMOD"]
          /\ tx' = [tx EXCEPT ![c].todo = tx[c].dirty]
          /\ Goto(c, "pages")
       \/ /\ Fault("write")
          /\ jrnl' \in {jrnl, [jrnl EXCEPT !.hdr = "valid"]}
          /\ Goto(c, "err")
          /\ UNCHANGED <<eState, tx>>
    /\ UNCHANGED <<dbf, cache, vers>>

PutPage(p, content) ==
    IF p <= Len(dbf) THEN [dbf EXCEPT ![p] = content]
    ELSE Append(dbf, content)

\* The dirty pages are written in page order, each by one call.
pager_write_pagelist(c) ==
    /\ pc[c] = "pages" /\ tx[c].todo # {}
    /\ LET p == CHOOSE q \in tx[c].todo : \A r \in tx[c].todo : q <= r
       IN  /\ \/ /\ NoFault
                 /\ dbf' = PutPage(p, cache[c][p])
                 /\ tx' = [tx EXCEPT ![c].todo = @ \ {p}]
                 /\ UNCHANGED pc
              \/ /\ Fault("write")
                 /\ dbf' \in {dbf, PutPage(p, Garbage)}
                 /\ Goto(c, "err")
                 /\ UNCHANGED tx
           /\ vers' = IF p = 1 THEN [vers EXCEPT ![c] = cache[c][1]] ELSE vers
    /\ UNCHANGED <<lockVars, jrnl, eState, cache>>

\* Mutant: the last dirty page is left out.
CommitPhaseOneEarly(c) ==
    /\ pc[c] = "pages" /\ Cardinality(tx[c].todo) <= 1
    /\ eState' = [eState EXCEPT ![c] = "WRITER_FINISHED"]
    /\ tx' = [tx EXCEPT ![c].dirty = {}]
    /\ Goto(c, "end")
    /\ NoFault
    /\ UNCHANGED <<lockVars, diskVars, cache, vers>>

CommitPhaseOneDone(c) ==
    /\ pc[c] = "pages" /\ tx[c].todo = {}
    /\ eState' = [eState EXCEPT ![c] = "WRITER_FINISHED"]
    /\ tx' = [tx EXCEPT ![c].dirty = {}]
    /\ Goto(c, "end")
    /\ NoFault
    /\ UNCHANGED <<lockVars, diskVars, cache, vers>>

-----------------------------------------------------------------------------
(* sqlite3PagerRollback and pager_playback.                                *)

\* On request, or because a call of the transaction failed.
Rollback(c) ==
    /\ pc[c] \in {"idle", "err"} /\ eState[c] \in Writer
    /\ Goto(c, IF eState[c] = "WRITER_LOCKED" THEN "end" ELSE "playback")
    /\ NoFault
    /\ UNCHANGED <<lockVars, diskVars, eState, cache, vers, tx>>

\* The rollback of a hot journal runs before the state leaves OPEN.
isHot(c) == eState[c] = "OPEN"

PlaysToFile(c) == isHot(c) \/ eState[c] \in DbMod

\* pager_error: the cache can no longer be trusted.
ToError(c) ==
    /\ eState' = [eState EXCEPT ![c] = "ERROR"]
    /\ Goto(c, "idle")

\* readJournalHdr, and the truncation to the original size.  The number of
\* records of a journal that is not yet synced comes from the file's size.
\* A short read of the header, unlike one of a record, is an error.
pager_playback(c) ==
    /\ pc[c] = "playback"
    /\ LET readable == PlaysToFile(c) => jrnl.hdr = "valid"
           n == IF PlaysToFile(c) THEN jrnl.nRec ELSE Len(jrnl.recs)
           cut == PlaysToFile(c) /\ Len(dbf) > jrnl.mxPg
       IN  \/ /\ ~readable
              /\ NoFault
              /\ Goto(c, "end")
              /\ UNCHANGED <<dbf, eState, cache, tx>>
           \/ /\ readable
              /\ NoFault
              /\ dbf' = IF cut THEN SubSeq(dbf, 1, jrnl.mxPg) ELSE dbf
              /\ tx' = [tx EXCEPT ![c].dbSize = jrnl.mxPg, ![c].pos = 1,
                                  ![c].n = n]
              /\ cache' = IF isHot(c) /\ n > 0
                          THEN [cache EXCEPT ![c] = EmptyCache] ELSE cache
              /\ Goto(c, "play")
              /\ UNCHANGED eState
           \/ /\ \/ jrnl.hdr # "empty" /\ Fault("read")
                 \/ readable /\ cut /\ Fault("write")
              /\ ToError(c)
              /\ UNCHANGED <<dbf, cache, tx>>
    /\ UNCHANGED <<lockVars, jrnl, vers>>

\* Mutant: the checksum of a record is not compared.
pager_playback_unchecked(c) ==
    /\ pc[c] = "play" /\ tx[c].pos <= tx[c].n
    /\ LET rec == jrnl.recs[tx[c].pos]
       IN  /\ rec.pg <= tx[c].dbSize
           /\ NoFault
           /\ dbf' = IF PlaysToFile(c) THEN PutPage(rec.pg, rec.data) ELSE dbf
           /\ tx' = [tx EXCEPT ![c].pos = @ + 1]
           /\ cache' = [cache EXCEPT ![c][rec.pg] =
                           IF @ # NotCached THEN rec.data ELSE @]
    /\ UNCHANGED <<lockVars, jrnl, eState, pc, vers>>

\* One record goes back to the cache, and to the file if the transaction had
\* begun to change it.  A record of another transaction ends the playback;
\* so does a short read, and verixRead reports every failed read as one.  In
\* both cases the read of the master journal's name follows, as in
\* PlaybackDone; if it fails like the record's, the two count as one fault.
pager_playback_one_page(c) ==
    /\ pc[c] = "play" /\ tx[c].pos <= tx[c].n
    /\ LET rec == jrnl.recs[tx[c].pos]
           stale == rec.cksum # jrnl.cksumInit
           next == [tx EXCEPT ![c].pos = @ + 1,
                              ![c].dirty = @ \ {rec.pg}]
       IN  \/ /\ stale /\ rec.pg <= tx[c].dbSize
              /\ NoFault
              /\ Goto(c, "end")
              /\ UNCHANGED <<dbf, eState, cache, vers, tx>>
           \/ /\ rec.pg > tx[c].dbSize
              /\ NoFault
              /\ tx' = [tx EXCEPT ![c].pos = @ + 1]
              /\ UNCHANGED <<dbf, eState, cache, vers, pc>>
           \/ /\ ~stale /\ rec.pg <= tx[c].dbSize
              /\ NoFault
              /\ dbf' = IF PlaysToFile(c) THEN PutPage(rec.pg, rec.data)
                        ELSE dbf
              /\ tx' = next
              /\ IF cache[c][rec.pg] # NotCached
                 THEN /\ cache' = [cache EXCEPT ![c][rec.pg] = rec.data]
                      /\ vers' = IF rec.pg = 1
                                 THEN [vers EXCEPT ![c] = rec.data] ELSE vers
                 ELSE UNCHANGED <<cache, vers>>
              /\ UNCHANGED <<eState, pc>>
           \/ /\ ~stale /\ rec.pg <= tx[c].dbSize /\ PlaysToFile(c)
              /\ Fault("write")
              /\ dbf' \in {dbf, PutPage(rec.pg, Garbage)}
              /\ ToError(c)
              /\ UNCHANGED <<cache, vers, tx>>
           \/ /\ Fault("read")
              /\ \/ Goto(c, "end") /\ UNCHANGED eState
                 \/ ToError(c)
              /\ UNCHANGED <<dbf, cache, vers, tx>>
    /\ UNCHANGED <<lockVars, jrnl>>

\* Mutant: the playback may stop before the last record.
PlaybackEarly(c) ==
    /\ pc[c] = "play" /\ tx[c].pos >= tx[c].n
    /\ Goto(c, "end")
    /\ NoFault
    /\ UNCHANGED <<lockVars, diskVars, eState, cache, vers, tx>>

\* The name of a master journal is read once more before the journal goes.
\* There is none here (MasterJournal.tla), but the read may fail.
PlaybackDone(c) ==
    /\ pc[c] = "play" /\ tx[c].pos > tx[c].n
    /\ \/ NoFault /\ Goto(c, "end") /\ UNCHANGED eState
       \/ Fault("read") /\ ToError(c)
    /\ UNCHANGED <<lockVars, diskVars, cache, vers, tx>>

-----------------------------------------------------------------------------
(* pager_end_transaction and pager_unlock.                                 *)

\* The journal is closed and deleted, if it was open: this is the moment of
\* commit.  The cache forgets the pages beyond the end of the database.
FinalizeJournal(c) ==
    /\ pc[c] = "end"
    /\ \/ /\ NoFault
          /\ jrnl' = IF tx[c].jfd THEN NoJournal ELSE jrnl
          /\ tx' = [tx EXCEPT ![c].jfd = FALSE, ![c].inJournal = {},
                              ![c].dirty = {}, ![c].todo = {}]
       \/ /\ tx[c].jfd
          /\ Fault("delete")
          /\ tx' = [tx EXCEPT ![c].jfd = FALSE, ![c].inJournal = {},
                              ![c].dirty = {}, ![c].todo = {},
                              ![c].rc = "IOERR"]
          /\ UNCHANGED jrnl
    /\ cache' = [cache EXCEPT ![c] =
                    [p \in Page |-> IF p > tx[c].dbSize THEN NotCached
                                    ELSE @[p]]]
    /\ Goto(c, "unlock")
    /\ UNCHANGED <<lockVars, dbf, eState, vers>>

\* pagerUnlockDb(SHARED_LOCK).  A hot-journal rollback goes on with the read
\* transaction it interrupted.
EndTransaction(c) ==
    /\ pc[c] = "unlock"
    /\ \/ /\ NoFault
          /\ pagerUnlockDb(c, SHARED_LOCK, TRUE)
          /\ IF tx[c].rc = "OK"
             THEN /\ eState' = [eState EXCEPT ![c] = IF isHot(c) THEN "OPEN"
                                                     ELSE "READER"]
                  /\ Goto(c, IF isHot(c) THEN "vers" ELSE "done")
             ELSE ToError(c)
       \/ /\ Fault("unlock")
          /\ pagerUnlockDb(c, SHARED_LOCK, FALSE)
          /\ ToError(c)
    /\ tx' = [tx EXCEPT ![c].rc = "OK"]
    /\ UNCHANGED <<diskVars, cache, vers>>

\* btreeEndTransaction with other statements active: no unlock.
KeepReading(c) ==
    /\ pc[c] = "done" /\ Overlap
    /\ Goto(c, "idle")
    /\ NoFault
    /\ UNCHANGED <<lockVars, diskVars, eState, cache, vers, tx>>

\* Mutant: a reader takes its SHARED lock for no lock and keeps the file.
pager_unlockReaderKeeps(c) ==
    /\ \/ pc[c] \in {"done", "failed"}
       \/ pc[c] = "idle" /\ eState[c] \in {"READER", "ERROR"}
    /\ eState' = [eState EXCEPT ![c] = "OPEN"]
    /\ eLock' = [eLock EXCEPT ![c] = NO_LOCK]
    /\ tx' = [tx EXCEPT ![c] = NewTx]
    /\ Goto(c, "idle")
    /\ NoFault
    /\ UNCHANGED <<owner, diskVars, cache, vers>>

\* The last page reference is gone, or sqlite3PagerSharedLock failed.
pager_unlock(c) ==
    /\ \/ pc[c] \in {"done", "failed"}
       \/ pc[c] = "idle" /\ eState[c] \in {"READER", "ERROR"}
    /\ \/ NoFault /\ pagerUnlockDb(c, NO_LOCK, TRUE)
       \/ /\ Fault("unlock")
          /\ IF eState[c] = "ERROR" THEN pagerUnlockFailedInError(c)
             ELSE pagerUnlockDb(c, NO_LOCK, FALSE)
    /\ eState' = [eState EXCEPT ![c] = "OPEN"]
    /\ cache' = IF eState[c] = "ERROR"
                THEN [cache EXCEPT ![c] = EmptyCache] ELSE cache
    /\ tx' = [tx EXCEPT ![c] = NewTx]
    /\ Goto(c, "idle")
    /\ UNCHANGED <<diskVars, vers>>

\* The process of connection c ends at any point and starts again.
Crash(c) ==
    /\ Fault("crash")
    /\ LockCrash(c)
    /\ eState' = [eState EXCEPT ![c] = "OPEN"]
    /\ pc' = [pc EXCEPT ![c] = "idle"]
    /\ cache' = [cache EXCEPT ![c] = EmptyCache]
    /\ vers' = [vers EXCEPT ![c] = 0]
    /\ tx' = [tx EXCEPT ![c] = NewTx]
    /\ UNCHANGED diskVars

-----------------------------------------------------------------------------
\* The steps inside the pager, which happen without a new request.
PagerStep(c) ==
    \/ hasHotJournal(c) \/ HotLock(c) \/ HotOpen(c) \/ CheckVersion(c)
    \/ writeJournalHdr(c) \/ syncJournal(c) \/ pager_write_pagelist(c)
    \/ CommitPhaseOneDone(c) \/ pager_playback(c)
    \/ pager_playback_one_page(c) \/ PlaybackDone(c) \/ FinalizeJournal(c)
    \/ EndTransaction(c) \/ KeepReading(c)

\* The requests that end a transaction, and what follows a failed call.
Finish(c) ==
    \/ pager_incr_changecounter(c) \/ CommitNoChange(c) \/ Rollback(c)
    \/ pager_unlock(c)

\* The requests that start one and work in it.
Work(c) ==
    \/ SharedLock(c) \/ BeginWrite(c) \/ BeginBusy(c)
    \/ pager_open_journal(c)
    \/ \E p \in Page : readDbPage(c, p) \/ WritePage(c, p)

Next == \E c \in Conn : PagerStep(c) \/ Finish(c) \/ Work(c) \/ Crash(c)

Spec == Init /\ [][Next]_vars

\* Fairness: a process that is inside a pager function goes on, and an
\* application ends the transactions it starts.  Nothing is assumed about a
\* connection that meets SQLITE_BUSY.
FairSpec ==
    /\ Spec
    /\ \A c \in Conn : WF_vars(PagerStep(c)) /\ WF_vars(Finish(c))
                       /\ WF_vars(\E p \in Page : WritePage(c, p))

-----------------------------------------------------------------------------
(* Properties.                                                             *)

Content == Garbage .. MaxVal \cup 0 .. MaxCommits
JournalRecord == [pg : Page, data : Content, cksum : Nonce \cup {NoMatch}]

TypeOK ==
    /\ LockTypeOK
    /\ dbf \in Seq(Content) /\ Len(dbf) \in Page
    /\ jrnl.hdr \in HdrState /\ jrnl.nRec \in 0 .. Len(jrnl.recs)
    /\ jrnl.mxPg \in 0 .. MaxPage /\ jrnl.recs \in Seq(JournalRecord)
    /\ faults \in 0 .. MaxFaults
    /\ eState \in [Conn -> EState]
    /\ pc \in [Conn -> PC]
    /\ cache \in [Conn -> [Page -> Content \cup {NotCached}]]
    /\ vers \in [Conn -> Content]
    /\ \A c \in Conn :
           /\ tx[c].dbSize \in 0 .. MaxPage
           /\ tx[c].inJournal \subseteq 1 .. tx[c].dbOrigSize
           /\ tx[c].dirty \subseteq Page /\ tx[c].todo \subseteq Page

\* The database that the files stand for: a complete journal undoes what the
\* database file holds of the transaction that wrote it.
Original(p) ==
    LET S == {i \in 1 .. jrnl.nRec : jrnl.recs[i].pg = p}
    IN  IF S = {} THEN PageOnDisk(p)
        ELSE jrnl.recs[CHOOSE i \in S : TRUE].data

Committed ==
    IF jrnl.hdr = "valid"
    THEN [p \in 2 .. jrnl.mxPg |-> Original(p)]
    ELSE [p \in 2 .. Len(dbf) |-> dbf[p]]

\* A connection has a transaction from the version check to the moment the
\* journal is gone or the rollback begins.
InTransaction(c) ==
    /\ eState[c] \in {"READER"} \cup Writer
    /\ pc[c] \notin {"playback", "play", "unlock", "done", "failed"}
    /\ pc[c] = "end" => eState[c] = "WRITER_FINISHED"

Mode(c) ==
    IF ~InTransaction(c) THEN "none"
    ELSE IF eState[c] = "READER" THEN "read" ELSE "write"

View(c) ==
    [p \in IF InTransaction(c) THEN 2 .. tx[c].dbSize ELSE {} |->
        IF cache[c][p] # NotCached THEN cache[c][p] ELSE PageOnDisk(p)]

Txn == INSTANCE TxnDb WITH
           db <- Committed,
           mode <- [c \in Conn |-> Mode(c)],
           view <- [c \in Conn |-> View(c)]

(* The connections see a database with atomic, isolated transactions: what *)
(* a reader sees never changes under it, a writer starts from the last     *)
(* commit, and the deletion of the journal in pager_end_transaction, and   *)
(* no other step, replaces the database by what the writer saw.            *)
Serializable == Txn!TxnSpec

\* The levels that fit a state, as assert_pager_state has them, and the state
\* and level with which the pager makes each call.
Matches(state, call, level) ==
    /\ state = "READER" =>
           level \in {SHARED_LOCK, RESERVED_LOCK, EXCLUSIVE_LOCK}
    /\ state \in Writer => level \in {RESERVED_LOCK, EXCLUSIVE_LOCK}
    /\ state \in DbMod => level = EXCLUSIVE_LOCK
    /\ state = "OPEN" /\ call = "idle" => level \in {NO_LOCK, UNKNOWN_LOCK}
    /\ call \in {"hot", "vers"} => state = "OPEN" /\ level = SHARED_LOCK
    /\ call = "excl" => state = "OPEN"
    /\ call = "hotopen" => state = "OPEN" /\ level = EXCLUSIVE_LOCK
    /\ call = "failed" => state \in {"OPEN", "READER"}
    /\ call = "done" => state = "READER"
    /\ call = "jhdr" => state = "WRITER_LOCKED"
    /\ call \in {"jpage", "sync"} => state = "WRITER_CACHEMOD"
    /\ call = "pages" => state = "WRITER_DBMOD"
    /\ call = "err" => state \in Writer
    /\ call \in {"playback", "play", "end", "unlock"} =>
           state \in Writer \/ (state = "OPEN" /\ level = EXCLUSIVE_LOCK)

(* The assertions of assert_pager_state hold at every call into the VFS,   *)
(* whatever failed before: a writer believes in RESERVED at least, and in  *)
(* EXCLUSIVE once it may have changed the file; an unknown level survives  *)
(* only until the next read transaction.                                   *)
StateMatchesLock ==
    \A c \in Conn : Matches(eState[c], pc[c], eLock[c])

(* The pager uses the VFS lock the way VerixLock says, so what is proved   *)
(* there holds for it.                                                     *)
LockProtocol == LockSpec

(* The change counter works: a cache that CheckVersion kept is what the    *)
(* file holds, page by page.                                               *)
CacheCurrent ==
    \A c \in Conn, p \in Page :
        /\ eState[c] = "READER" /\ pc[c] = "idle"
        /\ cache[c][p] # NotCached
        => p <= Len(dbf) /\ cache[c][p] = dbf[p]

(* Invariant (13) of the pager: a SHARED lock is held on the database file *)
(* while reading any content out of it.  On Verix that is the file's only  *)
(* lock.                                                                   *)
ReadUnderLock ==
    [][\A c \in Conn, p \in Page :
           cache[c][p] = NotCached /\ cache'[c][p] # NotCached
           /\ p <= tx[c].dbSize
           => owner = c]_vars

(* Invariant (12) of the pager: the database file is written only by a     *)
(* connection that has the EXCLUSIVE lock, and really has it: during       *)
(* commit, rollback and recovery, whatever failed before.                  *)
WriteUnderLock ==
    [][dbf' # dbf => \E c \in Conn : owner = c /\ owner' = c
                                     /\ eLock[c] = EXCLUSIVE_LOCK]_vars

(* A rollback takes back what the transaction itself has journalled.  A    *)
(* record that an older transaction left in the file, beyond the new ones, *)
(* is told by its checksum and changes nothing in the cache.               *)
OnlyOwnRecords ==
    [][\A c \in Conn :
           /\ pc[c] = "play" /\ ~isHot(c) /\ pc'[c] = "play"
           /\ cache'[c] # cache[c]
           => tx[c].pos <= Cardinality(tx[c].inJournal)]_vars

\* A complete journal that no connection is using.
Orphan ==
    /\ jrnl.hdr = "valid"
    /\ \A c \in Conn :
           /\ eState[c] \notin CacheMod
           /\ pc[c] \in {"playback", "play", "end"} => ~isHot(c)

(* No step but the end of a commit changes the database that the files     *)
(* stand for: not one page write of a commit or a rollback, not a failed   *)
(* write, not a crash between any two calls.  The exception is the fate of *)
(* a journal that a dead or failed transaction left behind.                *)
ChangesOnlyAtCommit ==
    [][Committed' # Committed =>
           \/ \E c \in Conn : eState[c] = "WRITER_FINISHED" /\ pc[c] = "end"
           \/ Orphan]_vars

(* The comment of pager_unlock: any journal file left in the file-system   *)
(* is rolled back the next time a read transaction is opened.              *)
LeftJournalRolledBack ==
    \A c \in Conn : Mode(c) = "read" => ~Orphan

(* Whoever has the file gives it back: a commit or rollback under way, or  *)
(* a reader, cannot keep the others out for ever.                          *)
LockReleased == \A c \in Conn : (owner = c) ~> (owner # c)
=============================================================================

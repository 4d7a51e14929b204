----------------------- MODULE PagerIsolation_proofs -----------------------
(***************************************************************************)
(* Isolation: while no call fails, no process dies and no statement goes   *)
(* on reading after another one has committed, the connections see a       *)
(* database with atomic, isolated transactions, for any number of          *)
(* connections, pages and commits.                                         *)
(*                                                                         *)
(* The invariant says, for each place where a pager can be, how its cache, *)
(* its version and its journal relate to the database file.  Its heart is  *)
(* Stale: a cache that is older than the file has an older change counter, *)
(* because a commit writes page 1 before any other page.                   *)
(***************************************************************************)
EXTENDS PagerTypes_proofs

\* No call fails and no process ends; one statement at a time on a
\* connection.  Without either, Isolation is false: see README.md.
Calm == FaultKinds = {} /\ ~Overlap

Cached(c, p) == cache[c][p] # NotCached

\* Page p of the cache of c is what the file holds.
Same(c, p) == p <= Len(dbf) /\ cache[c][p] = dbf[p]

\* The places where a pager can be when nothing fails.
Places(state, call) ==
    /\ state = "OPEN" => call \in {"idle", "hot", "vers"}
    /\ state = "READER" => call \in {"idle", "done"}
    /\ state = "WRITER_LOCKED" => call \in {"idle", "jhdr", "end", "unlock"}
    /\ state = "WRITER_CACHEMOD" =>
           call \in {"idle", "jpage", "sync", "playback", "play", "end",
                     "unlock"}
    /\ state = "WRITER_DBMOD" => call = "pages"
    /\ state = "WRITER_FINISHED" => call \in {"end", "unlock"}
    /\ state # "ERROR"

\* Does c look at the file, or write it?
Active(c) ==
    \/ eState[c] \in Writer
    \/ pc[c] \in {"hot", "vers"}
    \/ eState[c] = "READER" /\ pc[c] = "idle"

\* Is the journal the one of c?
Journaling(c) ==
    pc[c] = "jhdr" \/ (eState[c] \in CacheMod /\ pc[c] # "unlock")

ControlOK(c) ==
    /\ Places(eState[c], pc[c])
    /\ eLock[c] # UNKNOWN_LOCK
    /\ Active(c) => owner = c
    /\ tx[c].jfd <=> Journaling(c)
    /\ tx[c].rc = "OK"

\* A cache that nobody vouches for: it is current, or its version is old.
Stale(c) ==
    \A p \in Page :
        Cached(c, p) =>
            /\ Cached(c, 1) /\ vers[c] = cache[c][1] /\ vers[c] <= dbf[1]
            /\ vers[c] = dbf[1] => Same(c, p)

\* A read transaction: the cache is current.
ReaderOK(c) ==
    /\ Cached(c, 1) => vers[c] = dbf[1]
    /\ tx[c].dbSize = Len(dbf)

\* A write transaction before its commit: only dirty pages differ from the
\* file, and the old ones among them are journalled.
WorkingOK(c) ==
    /\ tx[c].dbOrigSize = Len(dbf) /\ vers[c] = dbf[1]
    /\ \A p \in Page : Cached(c, p) /\ p \notin tx[c].dirty => Same(c, p)
    /\ \A p \in tx[c].dirty :
           /\ Cached(c, p) /\ p <= tx[c].dbSize
           /\ p <= tx[c].dbOrigSize => p \in tx[c].inJournal
    /\ \A p \in Page :
           p > tx[c].dbOrigSize /\ p <= tx[c].dbSize => p \in tx[c].dirty
    /\ tx[c].dbOrigSize <= tx[c].dbSize
    /\ IF pc[c] = "sync" THEN 1 \in tx[c].dirty /\ cache[c][1] = vers[c] + 1
       ELSE cache[c][1] = dbf[1] /\ 1 \notin tx[c].dirty

\* The commit writes its dirty pages: page 1, the change counter, first.
PagesOK(c) ==
    /\ \A p \in Page : Cached(c, p) /\ p \notin tx[c].todo => Same(c, p)
    /\ \A p \in tx[c].todo :
           /\ p <= tx[c].dbSize
           /\ p <= tx[c].dbOrigSize => p \in tx[c].inJournal
    /\ \A p \in Page :
           p > Len(dbf) /\ p <= tx[c].dbSize => p \in tx[c].todo
    /\ tx[c].dbOrigSize <= Len(dbf) /\ Len(dbf) <= tx[c].dbSize
    /\ Cached(c, 1) /\ vers[c] = dbf[1]
    /\ 1 \in tx[c].todo => cache[c][1] = vers[c] + 1
    /\ 1 \notin tx[c].todo =>
           \A d \in Conn \ {c}, p \in Page : Cached(d, p) => vers[d] < dbf[1]

\* The pages that a rollback has still to put back are among the records it
\* has still to read.
PlayOK(c) ==
    /\ tx[c].dbOrigSize = Len(dbf) /\ tx[c].dbSize = Len(dbf)
    /\ tx[c].n = Len(jrnl.recs)
    /\ cache[c][1] = dbf[1] /\ vers[c] = dbf[1]
    /\ \A p \in Page :
           Cached(c, p) /\ p <= Len(dbf) /\ cache[c][p] # dbf[p] =>
               \E i \in tx[c].pos .. tx[c].n : jrnl.recs[i].pg = p

\* A transaction has done its work, or undone it.
EndOK(c) ==
    /\ tx[c].dbSize = Len(dbf) /\ cache[c][1] = dbf[1] /\ vers[c] = dbf[1]
    /\ \A p \in Page : Cached(c, p) /\ p <= Len(dbf) => cache[c][p] = dbf[p]
    /\ pc[c] = "unlock" \/ eState[c] = "WRITER_FINISHED" =>
           \A p \in Page : Cached(c, p) => p <= Len(dbf)

CacheOK(c) ==
    /\ eState[c] \notin Writer => Stale(c)
    /\ eState[c] = "READER" /\ pc[c] = "idle" => ReaderOK(c)
    /\ eState[c] \in {"WRITER_LOCKED", "WRITER_CACHEMOD"}
       /\ pc[c] \in {"idle", "jhdr", "jpage", "sync", "playback"} =>
           WorkingOK(c)
    /\ pc[c] = "pages" => PagesOK(c)
    /\ pc[c] = "play" => PlayOK(c)
    /\ pc[c] \in {"end", "unlock"} => EndOK(c)
    /\ eState[c] = "WRITER_LOCKED" => tx[c].dbSize = tx[c].dbOrigSize

\* The records are those of the transaction, one for each journalled page,
\* and hold what was in the file before the commit began.
RecordsOK(c) ==
    /\ jrnl.hdr = IF eState[c] \in DbMod THEN "valid" ELSE "zeroed"
    /\ jrnl.mxPg = tx[c].dbOrigSize
    /\ Len(jrnl.recs) = Cardinality(tx[c].inJournal)
    /\ eState[c] \in DbMod => jrnl.nRec = Len(jrnl.recs)
    /\ \A i \in 1 .. Len(jrnl.recs) :
           /\ jrnl.recs[i].cksum = jrnl.cksumInit
           /\ jrnl.recs[i].pg \in tx[c].inJournal
           /\ eState[c] \notin DbMod =>
                  jrnl.recs[i].data = dbf[jrnl.recs[i].pg]
    /\ \A p \in tx[c].inJournal :
           \E i \in 1 .. Len(jrnl.recs) : jrnl.recs[i].pg = p

FilesOK(c) ==
    /\ pc[c] = "jhdr" => jrnl.hdr = "empty" /\ jrnl.recs = <<>>
    /\ eState[c] \in CacheMod /\ pc[c] # "unlock" => RecordsOK(c)

IsoInv ==
    /\ TypeInv
    /\ jrnl.hdr # "absent" => \E c \in Conn : Journaling(c)
    /\ \A c \in Conn : ControlOK(c) /\ CacheOK(c) /\ FilesOK(c)

-----------------------------------------------------------------------------
(* What a step of c must be for the invariant to survive it.  The others   *)
(* either see no change, or c owns the file and they hold a cache that     *)
(* nobody vouches for.                                                     *)
IsoStep(c) ==
    /\ ControlOK(c)' /\ CacheOK(c)' /\ FilesOK(c)'
    /\ \A d \in Conn \ {c} : owner = d => owner' = d
    /\ <<dbf, jrnl, cache, vers>>' # <<dbf, jrnl, cache, vers>> => owner = c
    /\ dbf' # dbf =>
           \A d \in Conn \ {c} : eState[d] \notin Writer => Stale(d)'
    /\ jrnl'.hdr # "absent" =>
           Journaling(c)' \/ (jrnl' = jrnl /\ ~Journaling(c))

LEMMA Inactive ==
    ASSUME IsoInv, NEW d \in Conn, ~Active(d)
    PROVE  /\ eState[d] \notin Writer
           /\ ~(eState[d] = "READER" /\ pc[d] = "idle")
           /\ pc[d] \in {"idle", "done"}
<1>1. /\ eState[d] \in EState /\ Places(eState[d], pc[d])
  BY InvOf DEF IsoInv, TypeInv, ControlOK
<1> QED  BY <1>1 DEF Active, Places, EState, Writer, CacheMod

LEMMA IsoStepKeepsInv ==
    ASSUME IsoInv, NEW c \in Conn, StepOK(c), TypedStep(c), IsoStep(c)
    PROVE  IsoInv'
<1>1. TypeInv'
  BY TypedStepKeepsInv DEF IsoInv
<1>2. ASSUME NEW d \in Conn, d # c
      PROVE  /\ ControlOK(d)' /\ CacheOK(d)' /\ FilesOK(d)'
             /\ Journaling(d)' <=> Journaling(d)
  <2>1. /\ eState'[d] = eState[d] /\ pc'[d] = pc[d] /\ eLock'[d] = eLock[d]
        /\ tx'[d] = tx[d] /\ cache'[d] = cache[d] /\ vers'[d] = vers[d]
    BY <1>2 DEF StepOK, TypedStep
  <2>2. ControlOK(d) /\ CacheOK(d) /\ FilesOK(d)
    BY DEF IsoInv
  <2>3. Active(d)' <=> Active(d)
    BY <2>1 DEF Active
  <2>4. Journaling(d)' <=> Journaling(d)
    BY <2>1 DEF Journaling
  <2>5. Active(d) => owner' = d
    BY <1>2, <2>2 DEF ControlOK, IsoStep
  <2>6. ControlOK(d)'
    BY <2>1, <2>2, <2>3, <2>4, <2>5 DEF ControlOK
  <2>7. CASE UNCHANGED <<dbf, jrnl, cache, vers>>
    <3>1. /\ Stale(d) => Stale(d)'
          /\ ReaderOK(d) => ReaderOK(d)'
      BY <2>1, <2>7 DEF Stale, ReaderOK, Cached, Same
    <3>2. WorkingOK(d) => WorkingOK(d)'
      BY <2>1, <2>7 DEF WorkingOK, Cached, Same
    <3>3. PagesOK(d) => PagesOK(d)'
      BY <2>1, <2>7 DEF PagesOK, Cached, Same
    <3>4. PlayOK(d) => PlayOK(d)'
      BY <2>1, <2>7 DEF PlayOK, Cached
    <3>5. EndOK(d) => EndOK(d)'
      BY <2>1, <2>7 DEF EndOK, Cached
    <3>6. CacheOK(d)'
      BY <2>1, <2>2, <3>1, <3>2, <3>3, <3>4, <3>5 DEF CacheOK
    <3>7. FilesOK(d)'
      BY <2>1, <2>2, <2>7 DEF FilesOK, RecordsOK
    <3> QED  BY <2>4, <2>6, <3>6, <3>7
  <2>8. CASE <<dbf, jrnl, cache, vers>>' # <<dbf, jrnl, cache, vers>>
    <3>1. ~Active(d)
      BY <1>2, <2>2, <2>8 DEF IsoStep, ControlOK
    <3>2. /\ eState[d] \notin Writer
          /\ ~(eState[d] = "READER" /\ pc[d] = "idle")
          /\ pc[d] \in {"idle", "done"}
      BY <3>1, Inactive
    <3>3. Stale(d)'
      <4>1. CASE dbf' = dbf
        BY <2>1, <2>2, <3>2, <4>1 DEF CacheOK, Stale, Cached, Same
      <4>2. CASE dbf' # dbf
        BY <1>2, <3>2, <4>2 DEF IsoStep
      <4> QED  BY <4>1, <4>2
    <3>4. CacheOK(d)'
      BY <2>1, <3>2, <3>3 DEF CacheOK, Writer, CacheMod
    <3>5. FilesOK(d)'
      BY <2>1, <3>2 DEF FilesOK, Writer
    <3> QED  BY <2>4, <2>6, <3>4, <3>5
  <2> QED  BY <2>7, <2>8
<1>3. \A d \in Conn : ControlOK(d)' /\ CacheOK(d)' /\ FilesOK(d)'
  BY <1>2 DEF IsoStep
<1>4. ASSUME jrnl'.hdr # "absent" PROVE \E d \in Conn : Journaling(d)'
  <2>1. CASE Journaling(c)'
    BY <2>1
  <2>2. CASE jrnl' = jrnl /\ ~Journaling(c)
    <3>1. PICK d \in Conn : Journaling(d)
      BY <1>4, <2>2 DEF IsoInv
    <3> QED  BY <1>2, <2>2, <3>1
  <2> QED  BY <1>4, <2>1, <2>2 DEF IsoStep
<1> QED  BY <1>1, <1>3, <1>4 DEF IsoInv

(* What the invariant says of one connection.                              *)
LEMMA IsoOf ==
    ASSUME IsoInv, NEW c \in Conn
    PROVE  /\ ControlOK(c) /\ CacheOK(c) /\ FilesOK(c)
           /\ TypeInv /\ PagerInv /\ DiskOK
           /\ eState[c] \in EState /\ pc[c] \in PC
           /\ tx[c] \in TxType /\ cache[c] \in Pages /\ vers[c] \in Content
           /\ dbf \in Seq(Content) /\ Len(dbf) \in Page /\ dbf[1] \in Content
<1>1. TypeInv /\ DiskOK /\ PagerInv
  BY DEF IsoInv, TypeInv
<1>2. dbf \in Seq(Content) /\ Len(dbf) \in Page
  BY <1>1 DEF DiskOK
<1>3. dbf[1] \in Content
  BY <1>2, ElementOfSeq DEF Page
<1> QED  BY <1>1, <1>2, <1>3, InvOf, TypesOf DEF IsoInv

(* Nothing fails.                                                          *)
LEMMA NoFaults ==
    ASSUME Calm, NEW kind
    PROVE  ~Fault(kind)
BY DEF Calm, Fault

(* Only one connection looks at the file, and the journal is its own.      *)
LEMMA OwnJournal ==
    ASSUME IsoInv, NEW c \in Conn, owner = c, ~Journaling(c)
    PROVE  jrnl = NoJournal
<1>1. ASSUME jrnl.hdr # "absent" PROVE FALSE
  <2>1. PICK d \in Conn : Journaling(d)
    BY <1>1 DEF IsoInv
  <2>2. eState[d] \in Writer
    <3>1. pc[d] = "jhdr" => eState[d] = "WRITER_LOCKED"
      BY InvOf, IsoOf DEF Matches
    <3> QED  BY <2>1, <3>1 DEF Journaling, Writer
  <2>3. owner = d
    BY <2>2, IsoOf DEF ControlOK, Active
  <2> QED  BY <2>1, <2>3
<1> QED  BY <1>1 DEF IsoInv, TypeInv, DiskOK

USE DEF NO_LOCK, SHARED_LOCK, RESERVED_LOCK, EXCLUSIVE_LOCK, UNKNOWN_LOCK

(* The start of a read transaction: nobody else is active, so there is no  *)
(* journal, and the change counter tells whether the cache is current.     *)
LEMMA IsoRead ==
    ASSUME IsoInv, Calm, NEW c \in Conn, StepOK(c), TypedStep(c),
           \/ SharedLock(c) \/ hasHotJournal(c) \/ HotLock(c) \/ HotOpen(c)
           \/ CheckVersion(c)
    PROVE  IsoStep(c)
<1>0. /\ Matches(eState[c], pc[c], eLock[c]) /\ ControlOK(c) /\ CacheOK(c)
      /\ Places(eState[c], pc[c])
      /\ eState \in [Conn -> EState] /\ pc \in [Conn -> PC]
      /\ eLock \in [Conn -> LockLevel] /\ LockInv
  BY InvOf, IsoOf DEF ControlOK, PagerInv, LockInv, LockTypeOK
<1>1. CASE SharedLock(c)
  <2>1. /\ eState[c] = "OPEN" /\ pc[c] = "idle" /\ eLock[c] = NO_LOCK
        /\ UNCHANGED <<dbf, jrnl, eState, cache, vers, tx>>
        /\ pagerLockDb(c, SHARED_LOCK)
        /\ pc' = [pc EXCEPT ![c] = IF eLock'[c] <= SHARED_LOCK THEN "hot"
                                   ELSE "excl"]
    BY <1>0, <1>1 DEF SharedLock, diskVars, Goto, Matches, ControlOK
  <2>2. owner \in {NoConn, c} /\ owner' = c
    <3>1. pagerNeedsLock(c, SHARED_LOCK)
      BY <2>1 DEF pagerNeedsLock
    <3> QED  BY <2>1, <3>1 DEF pagerLockDb, verixLock, OsLockable
  <2>3. pc'[c] = "hot" /\ eState'[c] = "OPEN" /\ eLock'[c] = SHARED_LOCK
    <3>1. eLock'[c] = SHARED_LOCK
      BY <1>0, <2>1, LockDbEffect
    <3>2. (IF eLock'[c] <= SHARED_LOCK THEN "hot" ELSE "excl") = "hot"
      BY <3>1
    <3> QED  BY <1>0, <2>1, <3>1, <3>2
  <2>4. Stale(c)'
    BY <1>0, <2>1 DEF CacheOK, Stale, Cached, Same, Writer, CacheMod
  <2>5. CacheOK(c)'
    BY <2>3, <2>4 DEF CacheOK, Writer, CacheMod
  <2>6. ~Journaling(c) /\ ~Journaling(c)'
    BY <2>1, <2>3 DEF Journaling, CacheMod
  <2>7. ControlOK(c)'
    <3>1. Places("OPEN", "hot")
      BY DEF Places
    <3>2. tx'[c].jfd = tx[c].jfd /\ tx'[c].rc = tx[c].rc
      BY <2>1
    <3> QED  BY <1>0, <2>2, <2>3, <2>6, <3>1, <3>2 DEF ControlOK
  <2>8. FilesOK(c)'
    BY <2>3 DEF FilesOK, CacheMod
  <2>9. \A d \in Conn \ {c} : owner # d
    BY <2>2, ConnAssumption
  <2> QED  BY <2>1, <2>5, <2>6, <2>7, <2>8, <2>9 DEF IsoStep
<1>2. CASE hasHotJournal(c)
  <2>1. pc[c] = "hot" /\ eState[c] = "OPEN" /\ owner = c
    BY <1>0, <1>2 DEF hasHotJournal, Matches, ControlOK, Active
  <2>2. ~Journaling(c)
    BY <2>1 DEF Journaling, CacheMod
  <2>3. jrnl = NoJournal
    BY <2>1, <2>2, OwnJournal
  <2>4. /\ UNCHANGED <<owner, eLock, dbf, jrnl, eState, cache, vers, tx>>
        /\ pc' = [pc EXCEPT ![c] = "vers"]
    BY <1>2, <2>3
       DEF hasHotJournal, diskVars, Goto, lockVars, NoJournal
  <2>5. pc'[c] = "vers" /\ eState'[c] = "OPEN"
    BY <1>0, <2>1, <2>4
  <2>6. Stale(c)'
    BY <1>0, <2>1, <2>4 DEF CacheOK, Stale, Cached, Same, Writer, CacheMod
  <2>7. CacheOK(c)'
    BY <2>5, <2>6 DEF CacheOK, Writer, CacheMod
  <2>8. ~Journaling(c)'
    BY <2>5 DEF Journaling, CacheMod
  <2>9. ControlOK(c)'
    BY <1>0, <2>1, <2>2, <2>4, <2>5, <2>8 DEF ControlOK, Places
  <2>10. FilesOK(c)'
    BY <2>5 DEF FilesOK, CacheMod
  <2> QED  BY <2>2, <2>4, <2>7, <2>9, <2>10 DEF IsoStep
<1>3. CASE HotLock(c) \/ HotOpen(c)
  BY <1>0, <1>3 DEF HotLock, HotOpen, Matches, Places
<1>4. CASE CheckVersion(c)
  <2>1. pc[c] = "vers" /\ eState[c] = "OPEN" /\ owner = c
    BY <1>0, <1>4 DEF CheckVersion, Matches, ControlOK, Active
  <2>2. /\ UNCHANGED <<owner, eLock, dbf, jrnl, vers>>
        /\ cache' = IF vers[c] = dbf[1] THEN cache
                    ELSE [cache EXCEPT ![c] = EmptyCache]
        /\ tx' = [tx EXCEPT ![c].dbSize = Len(dbf)]
        /\ pc'[c] = "idle" /\ eState'[c] = "READER"
    BY <1>0, <1>4, NoFaults DEF CheckVersion, diskVars, Goto, lockVars
  <2>3. /\ tx'[c].dbSize = Len(dbf) /\ tx'[c].jfd = tx[c].jfd
        /\ tx'[c].rc = tx[c].rc
    BY <2>2, IsoOf DEF TxType, TypeInv
  <2>4. \/ cache'[c] = cache[c] /\ vers[c] = dbf[1]
        \/ \A p \in Page : cache'[c][p] = NotCached
    BY <2>2, IsoOf DEF TypeInv, EmptyCache
  <2>5. Stale(c)
    BY <1>0, <2>1 DEF CacheOK, Writer, CacheMod
  <2>6. Stale(c)'
    BY <2>2, <2>4, <2>5 DEF Stale, Cached, Same
  <2>7. ReaderOK(c)'
    BY <2>2, <2>3, <2>4, ZeroIsContent DEF ReaderOK, Cached
  <2>8. CacheOK(c)'
    BY <2>2, <2>6, <2>7 DEF CacheOK, Writer, CacheMod
  <2>9. ~Journaling(c) /\ ~Journaling(c)'
    BY <2>1, <2>2 DEF Journaling, CacheMod
  <2>10. ControlOK(c)'
    BY <1>0, <2>1, <2>2, <2>3, <2>9 DEF ControlOK, Places
  <2>11. FilesOK(c)'
    BY <2>2 DEF FilesOK, CacheMod
  <2> QED  BY <2>1, <2>2, <2>8, <2>9, <2>10, <2>11 DEF IsoStep
<1> QED  BY <1>1, <1>2, <1>3, <1>4

(* A page read from the file.                                              *)
LEMMA IsoFetch ==
    ASSUME IsoInv, Calm, NEW c \in Conn, StepOK(c), TypedStep(c),
           NEW p \in Page, readDbPage(c, p)
    PROVE  IsoStep(c)
<1>0. /\ ControlOK(c) /\ CacheOK(c) /\ FilesOK(c)
      /\ cache \in [Conn -> Pages] /\ vers \in [Conn -> Content]
      /\ Len(dbf) \in Nat /\ p \in Nat
      /\ tx[c] \in TxType
  BY IsoOf, Untouched DEF Page
<1>1. /\ pc[c] = "idle" /\ UNCHANGED <<owner, eLock, dbf, jrnl, eState, pc, tx>>
      /\ eState[c] \in {"READER", "WRITER_LOCKED", "WRITER_CACHEMOD"}
      /\ p <= tx[c].dbSize /\ ~Cached(c, p) /\ (p = 1 \/ Cached(c, 1))
      /\ cache' = [cache EXCEPT ![c][p] = PageOnDisk(p)]
      /\ vers' = IF p = 1 THEN [vers EXCEPT ![c] = cache'[c][1]] ELSE vers
  BY NoFaults DEF readDbPage, diskVars, lockVars, Cached
<1>2. owner = c
  BY <1>0, <1>1 DEF ControlOK, Active, Writer, CacheMod
<1>3. /\ \A q \in Page :
             cache'[c][q] = IF q = p THEN PageOnDisk(p) ELSE cache[c][q]
      /\ vers'[c] = IF p = 1 THEN PageOnDisk(p) ELSE vers[c]
  <2>1. \A q \in Page :
            cache'[c][q] = IF q = p THEN PageOnDisk(p) ELSE cache[c][q]
    BY <1>0, <1>1 DEF Pages
  <2> QED  BY <1>0, <1>1, <2>1, ZeroIsContent
<1>4. Journaling(c)' <=> Journaling(c)
  BY <1>1 DEF Journaling
<1>5. ControlOK(c)'
  BY <1>0, <1>1, <1>2, <1>4 DEF ControlOK
<1>6. FilesOK(c)'
  BY <1>0, <1>1 DEF FilesOK, RecordsOK
<1>7. CacheOK(c)'
  <2>1. CASE eState[c] = "READER"
    <3>1. ReaderOK(c) /\ Stale(c)
      BY <1>0, <1>1, <2>1 DEF CacheOK, Writer, CacheMod
    <3>2. p <= Len(dbf) /\ PageOnDisk(p) = dbf[p]
      BY <1>1, <3>1 DEF ReaderOK, PageOnDisk
    <3>3. Cached(c, 1) => vers[c] = dbf[1]
      BY <3>1 DEF ReaderOK
    <3>4. vers'[c] = dbf[1] /\ cache'[c][1] = dbf[1]
      <4>1. CASE p = 1
        BY <1>3, <3>2, <4>1, ZeroIsContent
      <4>2. CASE p # 1
        BY <1>1, <1>3, <3>1, <3>3, <4>2, ZeroIsContent DEF Stale
      <4> QED  BY <4>1, <4>2
    <3>5. \A q \in Page :
              Cached(c, q)' => q <= Len(dbf) /\ cache'[c][q] = dbf[q]
      BY <1>1, <1>3, <3>1, <3>2, <3>3 DEF Stale, Cached, Same
    <3>6. dbf[1] # NotCached /\ dbf[1] <= dbf[1]
      BY IsoOf DEF Content, NotCached, Garbage
    <3>7. Stale(c)'
      BY <1>1, <3>4, <3>5, <3>6 DEF Stale, Cached, Same
    <3>8. ReaderOK(c)'
      BY <1>1, <3>1, <3>4 DEF ReaderOK
    <3> QED  BY <1>1, <2>1, <3>7, <3>8 DEF CacheOK, Writer, CacheMod
  <2>2. CASE eState[c] \in {"WRITER_LOCKED", "WRITER_CACHEMOD"}
    <3>1. WorkingOK(c)
      BY <1>0, <1>1, <2>2 DEF CacheOK
    <3>2. p # 1
      BY <1>1, <2>2, TypesOf DEF IsoInv, TxOK, Cached, Writer, CacheMod,
                                 Working
    <3>3. p \notin tx[c].dirty
      BY <1>1, <3>1 DEF WorkingOK
    <3>4. p <= Len(dbf) /\ PageOnDisk(p) = dbf[p]
      BY <1>0, <1>1, <3>1, <3>3 DEF WorkingOK, PageOnDisk
    <3>5. vers'[c] = vers[c] /\ cache'[c][1] = cache[c][1]
      BY <1>3, <3>2, ZeroIsContent
    <3>6. \A q \in Page : Cached(c, q) => cache'[c][q] = cache[c][q]
      BY <1>1, <1>3
    <3>7. WorkingOK(c)'
      <4>1. \A q \in Page : Cached(c, q)' /\ q \notin tx[c].dirty =>
                q <= Len(dbf) /\ cache'[c][q] = dbf[q]
        BY <1>3, <3>1, <3>4 DEF WorkingOK, Cached, Same
      <4>2. \A q \in tx[c].dirty : Cached(c, q)'
        BY <1>0, <3>1, <3>6 DEF WorkingOK, Cached, TxType
      <4> QED  BY <1>1, <3>1, <3>5, <4>1, <4>2 DEF WorkingOK, Same
    <3> QED  BY <1>0, <1>1, <2>2, <3>7 DEF CacheOK, Writer, CacheMod
  <2> QED  BY <1>1, <2>1, <2>2
<1> QED  BY <1>1, <1>2, <1>4, <1>5, <1>6, <1>7 DEF IsoStep

-----------------------------------------------------------------------------
(* What a connection in a write transaction can rely on.                   *)
LEMMA WriterOf ==
    ASSUME IsoInv, NEW c \in Conn, eState[c] \in Writer
    PROVE  /\ owner = c /\ tx[c].rc = "OK" /\ (tx[c].jfd <=> Journaling(c))
           /\ eLock[c] \in {RESERVED_LOCK, EXCLUSIVE_LOCK}
           /\ tx[c].dbSize \in Nat /\ tx[c].dbOrigSize \in Nat
           /\ tx[c].dirty \subseteq Page /\ tx[c].inJournal \subseteq Page
           /\ tx[c].todo \subseteq Page
<1>1. owner = c /\ tx[c].rc = "OK" /\ (tx[c].jfd <=> Journaling(c))
  BY IsoOf DEF ControlOK, Active
<1>2. eLock[c] \in {RESERVED_LOCK, EXCLUSIVE_LOCK}
  BY IsoOf, InvOf DEF Matches
<1>3. tx[c] \in TxType
  BY IsoOf
<1> QED  BY <1>1, <1>2, <1>3, PagerAssumption DEF TxType

(* The owner of the file does not change it and keeps it.                  *)
LEMMA OwnerStep ==
    ASSUME NEW c \in Conn, owner = c, owner' = c, dbf' = dbf,
           ControlOK(c)', CacheOK(c)', FilesOK(c)',
           Journaling(c)' \/ (jrnl' = jrnl /\ ~Journaling(c))
    PROVE  IsoStep(c)
BY DEF IsoStep

(* A write transaction that goes on with the pages it has.                 *)
LEMMA WorkingKept ==
    ASSUME NEW c \in Conn, WorkingOK(c), dbf' = dbf, cache'[c] = cache[c],
           vers'[c] = vers[c], tx'[c].dbSize = tx[c].dbSize,
           tx'[c].dbOrigSize = tx[c].dbOrigSize,
           tx'[c].dirty = tx[c].dirty, tx'[c].inJournal = tx[c].inJournal,
           pc[c] # "sync", pc'[c] # "sync"
    PROVE  WorkingOK(c)'
BY DEF WorkingOK, Cached, Same

(* BEGIN: the cache is current, so a write transaction starts from the     *)
(* last commit.                                                            *)
LEMMA IsoBegin ==
    ASSUME IsoInv, Calm, NEW c \in Conn, StepOK(c), TypedStep(c),
           BeginWrite(c) \/ BeginBusy(c)
    PROVE  IsoStep(c)
<1>1. /\ pc[c] = "idle" /\ eState[c] = "READER" /\ Cached(c, 1)
      /\ ControlOK(c) /\ ReaderOK(c) /\ Stale(c) /\ owner = c
  <2>1. pc[c] = "idle" /\ eState[c] = "READER" /\ Cached(c, 1)
    BY DEF BeginWrite, BeginBusy, Cached
  <2> QED  BY <2>1, IsoOf DEF CacheOK, ControlOK, Active, Writer, CacheMod
<1>2. CASE BeginBusy(c)
  BY <1>1, <1>2 DEF BeginBusy, pagerLockDbBusy, verixLockBusy, OsLockable
<1>3. CASE BeginWrite(c)
  <2>1. /\ UNCHANGED <<dbf, jrnl, pc, cache, vers>>
        /\ eState' = [eState EXCEPT ![c] = "WRITER_LOCKED"]
        /\ tx' = [tx EXCEPT ![c].dbOrigSize = tx[c].dbSize]
    BY <1>3 DEF BeginWrite, diskVars
  <2>2. PICK level \in {RESERVED_LOCK, EXCLUSIVE_LOCK} :
            pagerLockDb(c, level)
    BY <1>3 DEF BeginWrite
  <2>3. owner' = c
    BY <1>1, <2>2 DEF pagerLockDb, verixLock, lockVars
  <2>4. eState'[c] = "WRITER_LOCKED" /\ pc'[c] = "idle"
    BY <1>1, <2>1, IsoOf DEF PagerInv
  <2>5. eLock'[c] # UNKNOWN_LOCK
    BY <2>4 DEF StepOK, Matches, Writer
  <2>6. /\ tx'[c].dbOrigSize = tx[c].dbSize /\ tx'[c].dbSize = tx[c].dbSize
        /\ tx'[c].dirty = {} /\ tx'[c].inJournal = tx[c].inJournal
        /\ tx'[c].jfd = tx[c].jfd /\ tx'[c].rc = tx[c].rc
    <3>1. tx[c].dirty = {}
      BY <1>1, IsoOf, TypesOf DEF TxOK
    <3> QED  BY <2>1, <3>1, IsoOf DEF TypeInv, TxType
  <2>7. ~Journaling(c) /\ ~Journaling(c)'
    BY <1>1, <2>4 DEF Journaling, CacheMod
  <2>8. ControlOK(c)'
    <3>1. Places("WRITER_LOCKED", "idle")
      BY DEF Places
    <3> QED  BY <1>1, <2>3, <2>4, <2>5, <2>6, <2>7, <3>1 DEF ControlOK
  <2>9. FilesOK(c)'
    BY <2>4 DEF FilesOK, CacheMod
  <2>10. WorkingOK(c)'
    <3>1. /\ vers[c] = dbf[1] /\ tx[c].dbSize = Len(dbf)
          /\ cache[c][1] = dbf[1]
      BY <1>1, ZeroIsContent DEF ReaderOK, Stale
    <3>2. \A p \in Page : Cached(c, p) => Same(c, p)
      BY <1>1, <3>1 DEF Stale
    <3>3. \A p \in Page : ~(p > Len(dbf) /\ p <= Len(dbf))
      BY IsoOf DEF Page
    <3>4. Len(dbf) <= Len(dbf)
      BY IsoOf DEF Page
    <3> QED
      BY <2>1, <2>4, <2>6, <3>1, <3>2, <3>3, <3>4 DEF WorkingOK, Cached, Same
  <2>11. CacheOK(c)'
    BY <2>4, <2>6, <2>10 DEF CacheOK, Writer
  <2> QED
    BY <1>1, <2>1, <2>3, <2>7, <2>8, <2>9, <2>11, OwnerStep
<1> QED  BY <1>2, <1>3

(* The journal is new: nobody left one.                                    *)
LEMMA IsoOpenJournal ==
    ASSUME IsoInv, Calm, NEW c \in Conn, StepOK(c), TypedStep(c),
           pager_open_journal(c) \/ writeJournalHdr(c)
    PROVE  IsoStep(c)
<1>1. CASE pager_open_journal(c)
  <2>1. /\ pc[c] = "idle" /\ eState[c] = "WRITER_LOCKED"
        /\ UNCHANGED <<owner, eLock, dbf, eState, cache, vers>>
        /\ jrnl' = IF jrnl.hdr = "absent"
                   THEN [NoJournal EXCEPT !.hdr = "empty"] ELSE jrnl
        /\ tx' = [tx EXCEPT ![c].jfd = TRUE]
        /\ pc' = [pc EXCEPT ![c] = "jhdr"]
    BY <1>1, NoFaults DEF pager_open_journal, lockVars, Goto
  <2>2. ~Journaling(c)
    BY <2>1 DEF Journaling, CacheMod
  <2>3. owner = c
    BY <2>1, WriterOf DEF Writer
  <2>4. jrnl'.hdr = "empty" /\ jrnl'.recs = <<>>
    <3>1. jrnl = NoJournal
      BY <2>2, <2>3, OwnJournal
    <3> QED  BY <2>1, <3>1 DEF NoJournal
  <2>5. pc'[c] = "jhdr" /\ eState'[c] = "WRITER_LOCKED"
    BY <2>1, IsoOf DEF PagerInv
  <2>6. /\ tx'[c].dbOrigSize = tx[c].dbOrigSize
        /\ tx'[c].dbSize = tx[c].dbSize
        /\ tx'[c].dirty = tx[c].dirty /\ tx'[c].inJournal = tx[c].inJournal
        /\ tx'[c].jfd = TRUE /\ tx'[c].rc = tx[c].rc
    BY <2>1, IsoOf DEF TypeInv, TxType
  <2>7. Journaling(c)'
    BY <2>5 DEF Journaling
  <2>8. ControlOK(c)'
    <3>1. Places("WRITER_LOCKED", "jhdr")
      BY DEF Places
    <3>2. ControlOK(c)
      BY IsoOf
    <3> QED  BY <2>1, <2>3, <2>5, <2>6, <2>7, <3>1, <3>2 DEF ControlOK
  <2>9. FilesOK(c)'
    BY <2>4, <2>5 DEF FilesOK, CacheMod
  <2>10. WorkingOK(c) /\ tx[c].dbSize = tx[c].dbOrigSize
    BY <2>1, IsoOf DEF CacheOK
  <2>11. WorkingOK(c)'
    BY <2>1, <2>5, <2>6, <2>10, WorkingKept
  <2>12. CacheOK(c)'
    BY <2>5, <2>6, <2>10, <2>11 DEF CacheOK, Writer
  <2> QED  BY <2>1, <2>3, <2>7, <2>8, <2>9, <2>12, OwnerStep
<1>2. CASE writeJournalHdr(c)
  <2>1. /\ pc[c] = "jhdr" /\ UNCHANGED <<owner, eLock, dbf, cache, vers, tx>>
        /\ eState' = [eState EXCEPT ![c] = "WRITER_CACHEMOD"]
        /\ pc' = [pc EXCEPT ![c] = "jpage"]
        /\ \E init \in Drawn :
               jrnl' = [hdr |-> "zeroed", nRec |-> 0, cksumInit |-> init,
                        mxPg |-> tx[c].dbOrigSize, recs |-> jrnl.recs]
    BY <1>2, NoFaults DEF writeJournalHdr, lockVars, Goto
  <2>2. eState[c] = "WRITER_LOCKED" /\ owner = c /\ Journaling(c)
    <3>1. eState[c] = "WRITER_LOCKED"
      BY <2>1, IsoOf, InvOf DEF Matches
    <3> QED  BY <2>1, <3>1, WriterOf DEF Writer, Journaling
  <2>3. pc'[c] = "jpage" /\ eState'[c] = "WRITER_CACHEMOD"
    BY <2>1, IsoOf DEF PagerInv
  <2>4. Journaling(c)'
    BY <2>3 DEF Journaling, CacheMod
  <2>5. ControlOK(c)'
    <3>1. Places("WRITER_CACHEMOD", "jpage")
      BY DEF Places
    <3>2. ControlOK(c)
      BY IsoOf
    <3>3. tx'[c].jfd = tx[c].jfd /\ tx'[c].rc = tx[c].rc
      BY <2>1
    <3> QED  BY <2>1, <2>2, <2>3, <2>4, <3>1, <3>2, <3>3 DEF ControlOK
  <2>6. FilesOK(c)'
    <3>1. jrnl.recs = <<>>
      BY <2>1, IsoOf DEF FilesOK
    <3>2. tx'[c].inJournal = {} /\ tx'[c].dbOrigSize = tx[c].dbOrigSize
      BY <2>1, <2>2, IsoOf, TypesOf DEF TxOK
    <3>3. /\ jrnl'.hdr = "zeroed" /\ jrnl'.mxPg = tx[c].dbOrigSize
          /\ jrnl'.recs = <<>>
      BY <2>1, <3>1
    <3>4. RecordsOK(c)'
      BY <2>3, <3>2, <3>3, FS_EmptySet, EmptySeq DEF RecordsOK, DbMod
    <3> QED  BY <2>3, <3>4 DEF FilesOK
  <2>7. WorkingOK(c)
    BY <2>1, <2>2, IsoOf DEF CacheOK
  <2>8. WorkingOK(c)'
    BY <2>1, <2>3, <2>7, WorkingKept
  <2>9. CacheOK(c)'
    BY <2>3, <2>8 DEF CacheOK, Writer, CacheMod
  <2> QED  BY <2>1, <2>2, <2>4, <2>5, <2>6, <2>9, OwnerStep
<1> QED  BY <1>1, <1>2

(* pager_write: a page that is not journalled yet is still as in the file, *)
(* so its record holds what was there before the transaction.              *)
LEMMA IsoPageWrite ==
    ASSUME IsoInv, Calm, NEW c \in Conn, StepOK(c), TypedStep(c),
           NEW p \in Page, NEW content \in Content,
           NEW next \in {"idle", "sync"},
           eState[c] = "WRITER_CACHEMOD", pc[c] \in {"idle", "jpage"},
           p <= tx[c].dbOrigSize => Cached(c, p), p <= tx[c].dbSize + 1,
           IF next = "sync" THEN p = 1 /\ content = vers[c] + 1 ELSE p # 1,
           pager_write(c, p, content, next),
           UNCHANGED <<owner, eLock, dbf, eState, vers>>
    PROVE  IsoStep(c)
<1> DEFINE t0 == tx[c]
           own == IF NeedsRecord(c, p) THEN t0.inJournal \cup {p}
                  ELSE t0.inJournal
           size == IF p > t0.dbSize THEN p ELSE t0.dbSize
           pages == cache[c]
<1>1. /\ jrnl' = IF NeedsRecord(c, p) THEN AddRecord(c, p) ELSE jrnl
      /\ tx' = [tx EXCEPT ![c].inJournal = own,
                          ![c].dirty = t0.dirty \cup {p},
                          ![c].dbSize = size]
      /\ cache' = [cache EXCEPT ![c][p] = content]
      /\ pc' = [pc EXCEPT ![c] = next]
  BY NoFaults DEF pager_write, Goto
<1>2. /\ owner = c /\ t0.rc = "OK" /\ (t0.jfd <=> Journaling(c))
      /\ t0.dbSize \in Nat /\ t0.dbOrigSize \in Nat
      /\ t0.dirty \subseteq Page /\ t0.inJournal \subseteq Page
  BY WriterOf DEF Writer, CacheMod
<1>3. /\ WorkingOK(c) /\ RecordsOK(c) /\ ControlOK(c) /\ Journaling(c)
      /\ pc[c] # "sync"
  BY IsoOf DEF CacheOK, FilesOK, CacheMod, Journaling
<1>4. eState'[c] = "WRITER_CACHEMOD" /\ pc'[c] = next
  BY <1>1, IsoOf DEF PagerInv
<1>5. Journaling(c)'
  BY <1>4 DEF Journaling, CacheMod
<1>6. /\ tx'[c].dbOrigSize = t0.dbOrigSize /\ tx'[c].dbSize = size
      /\ tx'[c].dirty = t0.dirty \cup {p} /\ tx'[c].inJournal = own
      /\ tx'[c].jfd = t0.jfd /\ tx'[c].rc = t0.rc
  <2> HIDE DEF own, size
  <2> QED  BY <1>1, IsoOf DEF TypeInv, TxType
<1>7. \A q \in Page : cache'[c][q] = IF q = p THEN content ELSE pages[q]
  BY <1>1, Untouched, IsoOf DEF Pages
<1>8. ControlOK(c)'
  <2>1. Places("WRITER_CACHEMOD", next)
    BY DEF Places
  <2> QED  BY <1>2, <1>3, <1>4, <1>5, <1>6, <2>1 DEF ControlOK
<1>p. p \in Nat /\ 1 \in Page /\ content # NotCached
  BY ZeroIsContent DEF Page, Content, NotCached, Garbage
<1>9. WorkingOK(c)'
  <2>1. \A q \in Page : Cached(c, q)' /\ q \notin tx'[c].dirty =>
            q <= Len(dbf) /\ cache'[c][q] = dbf[q]
    BY <1>3, <1>6, <1>7 DEF WorkingOK, Cached, Same
  <2>2. \A q \in tx'[c].dirty :
            /\ cache'[c][q] # NotCached /\ q <= size
            /\ q <= t0.dbOrigSize => q \in own
    <3> SUFFICES ASSUME NEW q \in tx'[c].dirty
                 PROVE  /\ cache'[c][q] # NotCached /\ q <= size
                        /\ q <= t0.dbOrigSize => q \in own
      OBVIOUS
    <3>1. q \in Page /\ q \in Nat
      BY <1>2, <1>6 DEF Page
    <3>2. CASE q = p
      BY <1>2, <1>7, <1>p, <3>1, <3>2 DEF NeedsRecord
    <3>3. CASE q # p
      <4>1. q \in t0.dirty
        BY <1>6, <3>3
      <4>2. /\ pages[q] # NotCached /\ q <= t0.dbSize
            /\ q <= t0.dbOrigSize => q \in t0.inJournal
        BY <1>3, <4>1 DEF WorkingOK, Cached
      <4> QED  BY <1>2, <1>7, <1>p, <3>1, <3>3, <4>2
    <3> QED  BY <3>2, <3>3
  <2>3. \A q \in Page : q > t0.dbOrigSize /\ q <= size => q \in tx'[c].dirty
    <3> SUFFICES ASSUME NEW q \in Page, q > t0.dbOrigSize, q <= size
                 PROVE  q \in t0.dirty \cup {p}
      BY <1>6
    <3>1. q \in Nat
      BY DEF Page
    <3>2. q <= t0.dbSize \/ q = p
      BY <1>2, <1>p, <3>1
    <3>3. q <= t0.dbSize => q \in t0.dirty
      BY <1>3 DEF WorkingOK
    <3> QED  BY <3>2, <3>3
  <2>4. t0.dbOrigSize <= size
    BY <1>2, <1>3, <1>p DEF WorkingOK
  <2>5. IF next = "sync" THEN 1 \in tx'[c].dirty /\ cache'[c][1] = vers[c] + 1
        ELSE cache'[c][1] = dbf[1] /\ 1 \notin tx'[c].dirty
    BY <1>3, <1>6, <1>7, <1>p DEF WorkingOK
  <2>6. t0.dbOrigSize = Len(dbf) /\ vers[c] = dbf[1]
    BY <1>3 DEF WorkingOK
  <2> HIDE DEF own, size, t0
  <2>7. t0.dbOrigSize = tx'[c].dbOrigSize /\ size = tx'[c].dbSize
        /\ own = tx'[c].inJournal
    BY <1>6
  <2> QED
    BY <1>4, <2>1, <2>2, <2>3, <2>4, <2>5, <2>6, <2>7
       DEF WorkingOK, Cached, Same
<1>10. CacheOK(c)'
  BY <1>4, <1>9 DEF CacheOK, Writer, CacheMod
<1>11. RecordsOK(c)'
  <2>1. CASE ~NeedsRecord(c, p)
    <3>1. jrnl' = jrnl /\ own = t0.inJournal
      BY <1>1, <2>1
    <3> QED  BY <1>3, <1>4, <1>6, <3>1 DEF RecordsOK, DbMod
  <2>2. CASE NeedsRecord(c, p)
    <3> DEFINE i == Cardinality(t0.inJournal) + 1
               rec == [pg |-> p, data |-> pages[p], cksum |-> jrnl.cksumInit]
               recs == PutRecord(jrnl.recs, i, rec)
    <3>1. /\ IsFiniteSet(t0.inJournal)
          /\ Len(jrnl.recs) \in Nat /\ jrnl.recs \in Seq(JournalRecord)
      BY IsoOf, JournalCount DEF CacheMod
    <3>2. /\ Len(jrnl.recs) = Cardinality(t0.inJournal)
          /\ i = Len(jrnl.recs) + 1 /\ i \in 1 .. Len(jrnl.recs) + 1
      BY <1>3, <3>1 DEF RecordsOK
    <3>3. pages[p] = dbf[p] /\ p \notin t0.inJournal
      <4>1. p <= t0.dbOrigSize /\ p \notin t0.inJournal
        BY <2>2 DEF NeedsRecord
      <4>2. p \notin t0.dirty
        BY <1>3, <4>1 DEF WorkingOK
      <4> QED  BY <1>3, <4>1, <4>2 DEF WorkingOK, Same
    <3>4. rec \in JournalRecord
      <4>1. pages[p] \in Content
        <5>1. pages[p] # NotCached /\ pages \in Pages
          BY <2>2, IsoOf DEF NeedsRecord, Cached
        <5> QED  BY <5>1 DEF Pages
      <4>2. jrnl.cksumInit \in Nonce \cup {NoMatch}
        BY IsoOf DEF DiskOK, JournalType
      <4> QED  BY <4>1, <4>2 DEF JournalRecord
    <3>5. jrnl' = [jrnl EXCEPT !.recs = recs]
      BY <1>1, <2>2 DEF AddRecord, PutRecord
    <3>6. own = t0.inJournal \cup {p}
      BY <2>2
    <3>7. rec.pg = p /\ rec.data = dbf[p] /\ rec.cksum = jrnl.cksumInit
      BY <3>3
    <3> HIDE DEF rec
    <3>8. /\ Len(recs) = IF i > Len(jrnl.recs) THEN i ELSE Len(jrnl.recs)
          /\ recs[i] = rec
          /\ \A k \in 1 .. Len(jrnl.recs) : k # i => recs[k] = jrnl.recs[k]
      BY <3>1, <3>2, <3>4, PutRecordEffect
    <3> HIDE DEF recs, i
    <3>9. /\ Len(recs) = i
          /\ \A k \in 1 .. Len(jrnl.recs) : recs[k] = jrnl.recs[k]
          /\ \A k \in 1 .. i : k = i \/ k \in 1 .. Len(jrnl.recs)
          /\ \A k \in 1 .. Len(jrnl.recs) : k \in 1 .. i
          /\ i \in 1 .. i
      BY <3>1, <3>2, <3>8
    <3>10. Cardinality(own) = i
      BY <3>1, <3>3, <3>6, FS_AddElement DEF i
    <3>11. /\ jrnl'.hdr = jrnl.hdr /\ jrnl'.recs = recs
           /\ jrnl'.mxPg = jrnl.mxPg /\ jrnl'.cksumInit = jrnl.cksumInit
      BY <3>5, IsoOf DEF DiskOK, JournalType
    <3>12. eState[c] \notin DbMod
      BY DEF DbMod
    <3> HIDE DEF own, t0
    <3>13. \A k \in 1 .. i :
               /\ recs[k].cksum = jrnl.cksumInit /\ recs[k].pg \in own
               /\ recs[k].data = dbf[recs[k].pg]
      <4> SUFFICES ASSUME NEW k \in 1 .. i
                   PROVE  /\ recs[k].cksum = jrnl.cksumInit
                          /\ recs[k].pg \in own
                          /\ recs[k].data = dbf[recs[k].pg]
        OBVIOUS
      <4>1. CASE k = i
        BY <3>6, <3>7, <3>8, <4>1
      <4>2. CASE k \in 1 .. Len(jrnl.recs)
        <5>1. recs[k] = jrnl.recs[k]
          BY <3>9, <4>2
        <5>2. /\ jrnl.recs[k].cksum = jrnl.cksumInit
              /\ jrnl.recs[k].pg \in t0.inJournal
              /\ jrnl.recs[k].data = dbf[jrnl.recs[k].pg]
          BY <1>3, <3>12, <4>2 DEF RecordsOK, t0
        <5> QED  BY <3>6, <5>1, <5>2
      <4> QED  BY <3>9, <4>1, <4>2
    <3>14. \A q \in own : \E k \in 1 .. i : recs[k].pg = q
      <4> SUFFICES ASSUME NEW q \in own
                   PROVE  \E k \in 1 .. i : recs[k].pg = q
        OBVIOUS
      <4>1. CASE q = p
        BY <3>7, <3>8, <3>9, <4>1
      <4>2. CASE q \in t0.inJournal
        <5>1. PICK k \in 1 .. Len(jrnl.recs) : jrnl.recs[k].pg = q
          BY <1>3, <4>2 DEF RecordsOK, t0
        <5> QED  BY <3>9, <5>1
      <4> QED  BY <3>6, <4>1, <4>2
    <3>15. jrnl.hdr = "zeroed" /\ jrnl.mxPg = tx[c].dbOrigSize
      BY <1>3, <3>12 DEF RecordsOK
    <3>16. tx'[c].dbOrigSize = tx[c].dbOrigSize /\ tx'[c].inJournal = own
      BY <1>6 DEF t0
    <3> QED
      BY <1>4, <3>9, <3>10, <3>11, <3>12, <3>13, <3>14, <3>15, <3>16
         DEF RecordsOK
  <2> QED  BY <2>1, <2>2
<1>12. FilesOK(c)'
  BY <1>4, <1>11 DEF FilesOK
<1> QED  BY <1>2, <1>5, <1>8, <1>10, <1>12, OwnerStep

(* The b-tree layer's changes, and the change of the counter with which a  *)
(* commit begins.                                                          *)
LEMMA IsoWrite ==
    ASSUME IsoInv, Calm, NEW c \in Conn, StepOK(c), TypedStep(c),
           pager_incr_changecounter(c) \/ \E p \in Page : WritePage(c, p)
    PROVE  IsoStep(c)
<1>0. eState[c] = "WRITER_CACHEMOD" /\ pc[c] \in {"idle", "jpage"}
  BY DEF pager_incr_changecounter, WritePage
<1>1. /\ cache[c] \in Pages /\ vers[c] \in Content /\ vers[c] < MaxCommits
      /\ tx[c].dbSize \in Nat /\ tx[c].dbOrigSize \in Nat
      /\ tx[c].dbOrigSize <= tx[c].dbSize /\ Cached(c, 1)
  BY <1>0, IsoOf, TypesOf, WriterOf
     DEF TxOK, Writer, CacheMod, Working, Cached
<1>2. CASE pager_incr_changecounter(c)
  <2>1. vers[c] + 1 \in Content
    BY <1>1, PagerAssumption DEF Content, Garbage
  <2>2. /\ pager_write(c, 1, vers[c] + 1, "sync")
        /\ UNCHANGED <<owner, eLock, dbf, eState, vers>>
    BY <1>2 DEF pager_incr_changecounter, lockVars
  <2>3. 1 <= tx[c].dbSize + 1
    BY <1>1
  <2> QED  BY <1>0, <1>1, <2>1, <2>2, <2>3, ZeroIsContent, IsoPageWrite
<1>3. ASSUME NEW p \in Page, WritePage(c, p) PROVE IsoStep(c)
  <2>1. /\ pager_write(c, p, Changed(cache[c][p]), "idle")
        /\ UNCHANGED <<owner, eLock, dbf, eState, vers>> /\ Writable(c, p)
    BY <1>3 DEF WritePage, lockVars
  <2>2. Changed(cache[c][p]) \in Content
    <3>1. cache[c][p] \in Content \cup {NotCached} /\ cache[c][p] < MaxVal
      BY <1>1, <2>1 DEF Pages, Writable
    <3> QED  BY <3>1, PagerAssumption DEF Changed, Content, Garbage, NotCached
  <2>3. /\ p # 1 /\ p <= tx[c].dbSize + 1
        /\ p <= tx[c].dbOrigSize => Cached(c, p)
    <3>1. p \in Nat /\ p > 1 /\ (Cached(c, p) \/ p = tx[c].dbSize + 1)
      BY <2>1 DEF Writable, Cached, Page
    <3>2. Cached(c, p) => p <= tx[c].dbSize
      <4>1. WorkingOK(c)
        BY <1>0, IsoOf DEF CacheOK
      <4>2. /\ tx[c].dbOrigSize = Len(dbf)
            /\ \A q \in tx[c].dirty : q <= tx[c].dbSize
            /\ Cached(c, p) /\ p \notin tx[c].dirty => p <= Len(dbf)
        BY <4>1 DEF WorkingOK, Same
      <4> QED  BY <1>1, <3>1, <4>2
    <3> QED  BY <1>1, <3>1, <3>2
  <2> QED  BY <1>0, <2>1, <2>2, <2>3, IsoPageWrite
<1> QED  BY <1>2, <1>3

(* A commit: sync, page by page, done.                                     *)
LEMMA IsoSync ==
    ASSUME IsoInv, Calm, NEW c \in Conn, StepOK(c), TypedStep(c),
           syncJournal(c)
    PROVE  IsoStep(c)
<1>1. /\ pc[c] = "sync" /\ UNCHANGED <<dbf, cache, vers>>
      /\ pagerLockDb(c, EXCLUSIVE_LOCK)
      /\ jrnl' = [jrnl EXCEPT !.hdr = "valid",
                              !.nRec = Cardinality(tx[c].inJournal)]
      /\ eState' = [eState EXCEPT ![c] = "WRITER_DBMOD"]
      /\ tx' = [tx EXCEPT ![c].todo = tx[c].dirty]
      /\ pc' = [pc EXCEPT ![c] = "pages"]
  BY NoFaults DEF syncJournal, Goto
<1>2. eState[c] = "WRITER_CACHEMOD"
  BY <1>1, IsoOf, InvOf DEF Matches
<1>3. /\ owner = c /\ tx[c].rc = "OK" /\ tx[c].jfd
      /\ WorkingOK(c) /\ RecordsOK(c) /\ Journaling(c)
  BY <1>1, <1>2, IsoOf, WriterOf
     DEF CacheOK, FilesOK, Writer, CacheMod, Journaling
<1>4. owner' = c
  BY <1>1, <1>3 DEF pagerLockDb, verixLock, lockVars
<1>5. eState'[c] = "WRITER_DBMOD" /\ pc'[c] = "pages"
  BY <1>1, IsoOf DEF PagerInv
<1>6. eLock'[c] # UNKNOWN_LOCK
  BY <1>5 DEF StepOK, Matches, Writer, CacheMod
<1>7. /\ tx'[c].dbOrigSize = tx[c].dbOrigSize
      /\ tx'[c].dbSize = tx[c].dbSize /\ tx'[c].todo = tx[c].dirty
      /\ tx'[c].inJournal = tx[c].inJournal
      /\ tx'[c].jfd = tx[c].jfd /\ tx'[c].rc = tx[c].rc
  BY <1>1, IsoOf DEF TypeInv, TxType
<1>8. Journaling(c)'
  BY <1>5 DEF Journaling, CacheMod
<1>9. ControlOK(c)'
  <2>1. Places("WRITER_DBMOD", "pages")
    BY DEF Places
  <2> QED  BY <1>3, <1>4, <1>5, <1>6, <1>7, <1>8, <2>1 DEF ControlOK
<1>10. PagesOK(c)'
  <2>1. /\ tx[c].dbOrigSize = Len(dbf) /\ vers[c] = dbf[1]
        /\ tx[c].dbOrigSize <= tx[c].dbSize
        /\ 1 \in tx[c].dirty /\ cache[c][1] = vers[c] + 1 /\ Cached(c, 1)
    BY <1>1, <1>3 DEF WorkingOK
  <2>2. Len(dbf) <= Len(dbf)
    BY IsoOf DEF Page
  <2>3. \A p \in Page : Cached(c, p) /\ p \notin tx[c].dirty => Same(c, p)
    BY <1>3 DEF WorkingOK
  <2>4. \A p \in tx[c].dirty :
           /\ p <= tx[c].dbSize
           /\ p <= tx[c].dbOrigSize => p \in tx[c].inJournal
    BY <1>3 DEF WorkingOK
  <2>5. \A p \in Page :
           p > tx[c].dbOrigSize /\ p <= tx[c].dbSize => p \in tx[c].dirty
    BY <1>3 DEF WorkingOK
  <2> QED
    BY <1>1, <1>7, <2>1, <2>2, <2>3, <2>4, <2>5 DEF PagesOK, Cached, Same
<1>11. CacheOK(c)'
  BY <1>5, <1>10 DEF CacheOK, Writer, CacheMod
<1>12. RecordsOK(c)'
  <2>1. /\ jrnl'.hdr = "valid" /\ jrnl'.nRec = Cardinality(tx[c].inJournal)
        /\ jrnl'.recs = jrnl.recs /\ jrnl'.mxPg = jrnl.mxPg
        /\ jrnl'.cksumInit = jrnl.cksumInit
    BY <1>1, IsoOf DEF DiskOK, JournalType
  <2> QED  BY <1>3, <1>5, <1>7, <2>1 DEF RecordsOK, DbMod
<1>13. FilesOK(c)'
  BY <1>5, <1>12 DEF FilesOK
<1> QED  BY <1>1, <1>3, <1>4, <1>8, <1>9, <1>11, <1>13, OwnerStep

\* The next page of a commit.
NextPage(c) == CHOOSE q \in tx[c].todo : \A r \in tx[c].todo : q <= r

(* What one page write of a commit does to the file.  New pages are        *)
(* written in order, so each is the next one of the file.                  *)
LEMMA PagelistEffect ==
    ASSUME IsoInv, Calm, NEW c \in Conn, pager_write_pagelist(c)
    PROVE  LET p == NextPage(c)
           IN  /\ pc[c] = "pages" /\ eState[c] = "WRITER_DBMOD"
               /\ UNCHANGED <<owner, eLock, jrnl, eState, cache, pc>>
               /\ tx' = [tx EXCEPT ![c].todo = tx[c].todo \ {p}]
               /\ vers' = IF p = 1 THEN [vers EXCEPT ![c] = cache[c][1]]
                          ELSE vers
               /\ p \in tx[c].todo /\ p \in Page /\ Cached(c, p)
               /\ \A r \in tx[c].todo : p <= r
               /\ Len(dbf') = IF p <= Len(dbf) THEN Len(dbf) ELSE p
               /\ p > Len(dbf) => p = Len(dbf) + 1
               /\ \A q \in 1 .. Len(dbf') :
                      dbf'[q] = IF q = p THEN cache[c][p] ELSE dbf[q]
               /\ Len(dbf) \in Nat /\ Len(dbf') \in Nat
<1> DEFINE p == NextPage(c)
           todo == tx[c].todo
<1>1. /\ pc[c] = "pages" /\ todo # {}
      /\ UNCHANGED <<owner, eLock, jrnl, eState, cache, pc>>
      /\ dbf' = PutPage(p, cache[c][p])
      /\ tx' = [tx EXCEPT ![c].todo = todo \ {p}]
      /\ vers' = IF p = 1 THEN [vers EXCEPT ![c] = cache[c][1]] ELSE vers
  BY NoFaults DEF pager_write_pagelist, lockVars, NextPage
<1>2. eState[c] = "WRITER_DBMOD" /\ PagesOK(c) /\ todo \subseteq Page
  BY <1>1, IsoOf, InvOf, WriterOf DEF Matches, CacheOK, Writer, CacheMod
<1>3. p \in todo /\ (\A r \in todo : p <= r) /\ p \in Page
  BY <1>1, <1>2, LeastPage DEF NextPage
<1> HIDE DEF p
<1>4. Cached(c, p) /\ cache[c][p] \in Content
  BY <1>1, <1>3, IsoOf, TypesOf DEF TxOK, Cached, Pages
<1>5. DiskOK /\ Len(dbf) \in Nat /\ Len(dbf) <= MaxPage /\ MaxPage \in Nat
  BY IsoOf, PagerAssumption DEF Page
<1>6. p > Len(dbf) => p = Len(dbf) + 1
  <2> SUFFICES ASSUME p > Len(dbf) PROVE p = Len(dbf) + 1
    OBVIOUS
  <2>1. p <= tx[c].dbSize /\ tx[c].dbSize \in Nat
    BY <1>2, <1>3, WriterOf DEF PagesOK, Writer, CacheMod
  <2>2. /\ Len(dbf) + 1 \in Page /\ Len(dbf) + 1 > Len(dbf)
        /\ Len(dbf) + 1 <= tx[c].dbSize
    BY <1>3, <1>5, <2>1 DEF Page
  <2>3. Len(dbf) + 1 \in todo
    BY <1>2, <2>2 DEF PagesOK
  <2>4. p <= Len(dbf) + 1
    BY <1>3, <2>3
  <2> QED  BY <1>3, <1>5, <2>4 DEF Page
<1>7. /\ Len(dbf') = IF p <= Len(dbf) THEN Len(dbf) ELSE Len(dbf) + 1
      /\ \A q \in 1 .. Len(dbf) :
             dbf'[q] = IF q = p THEN cache[c][p] ELSE dbf[q]
      /\ p > Len(dbf) => dbf'[Len(dbf) + 1] = cache[c][p]
  <2> DEFINE content == cache[c][p]
  <2>1. content \in Content /\ p \in Page /\ dbf' = PutPage(p, content)
    BY <1>1, <1>3, <1>4
  <2> HIDE DEF content
  <2> DEFINE file == PutPage(p, content)
  <2>2. /\ Len(file) = IF p <= Len(dbf) THEN Len(dbf) ELSE Len(dbf) + 1
        /\ \A q \in 1 .. Len(dbf) :
               file[q] = IF q = p THEN content ELSE dbf[q]
        /\ p > Len(dbf) => file[Len(dbf) + 1] = content
    BY <1>5, <2>1, PutPageEffect, Zenon
  <2>3. dbf' = file
    BY <2>1
  <2> HIDE DEF file
  <2> QED  BY <2>2, <2>3 DEF content
<1>8. p \in Nat
  BY <1>3 DEF Page
<1>9. Len(dbf') = (IF p <= Len(dbf) THEN Len(dbf) ELSE p) /\ Len(dbf') \in Nat
  BY <1>5, <1>6, <1>7, <1>8
<1>10. ASSUME NEW q \in 1 .. Len(dbf')
       PROVE  dbf'[q] = IF q = p THEN cache[c][p] ELSE dbf[q]
  <2>1. CASE q \in 1 .. Len(dbf)
    BY <1>7, <2>1
  <2>2. CASE q \notin 1 .. Len(dbf)
    <3>1. q = p /\ p > Len(dbf) /\ q = Len(dbf) + 1
      BY <1>5, <1>6, <1>8, <1>9, <2>2
    <3> QED  BY <1>7, <3>1
  <2> QED  BY <2>1, <2>2
<1> QED  BY <1>1, <1>2, <1>3, <1>4, <1>5, <1>6, <1>9, <1>10 DEF p

LEMMA IsoPagelist ==
    ASSUME IsoInv, Calm, NEW c \in Conn, StepOK(c), TypedStep(c),
           pager_write_pagelist(c)
    PROVE  IsoStep(c)
<1> DEFINE p == NextPage(c)
<1>1. /\ pc[c] = "pages" /\ eState[c] = "WRITER_DBMOD"
      /\ UNCHANGED <<owner, eLock, jrnl, eState, cache, pc>>
      /\ tx' = [tx EXCEPT ![c].todo = tx[c].todo \ {p}]
      /\ vers' = IF p = 1 THEN [vers EXCEPT ![c] = cache[c][1]] ELSE vers
      /\ p \in tx[c].todo /\ p \in Page /\ Cached(c, p)
      /\ \A r \in tx[c].todo : p <= r
      /\ Len(dbf') = IF p <= Len(dbf) THEN Len(dbf) ELSE p
      /\ p > Len(dbf) => p = Len(dbf) + 1
      /\ \A q \in 1 .. Len(dbf') :
             dbf'[q] = IF q = p THEN cache[c][p] ELSE dbf[q]
      /\ Len(dbf) \in Nat /\ Len(dbf') \in Nat
  BY PagelistEffect
<1> HIDE DEF p
<1>2. /\ PagesOK(c) /\ RecordsOK(c) /\ ControlOK(c) /\ owner = c
      /\ Journaling(c)
  BY <1>1, IsoOf, WriterOf
     DEF CacheOK, FilesOK, Writer, CacheMod, Journaling
<1>3. /\ tx'[c].dbOrigSize = tx[c].dbOrigSize
      /\ tx'[c].dbSize = tx[c].dbSize
      /\ tx'[c].todo = tx[c].todo \ {p}
      /\ tx'[c].inJournal = tx[c].inJournal
      /\ tx'[c].jfd = tx[c].jfd /\ tx'[c].rc = tx[c].rc
  BY <1>1, IsoOf DEF TypeInv, TxType
<1>4. p \in Nat /\ p >= 1 /\ Len(dbf) >= 1 /\ Len(dbf') >= 1 /\ 1 \in Page
      /\ 1 \in 1 .. Len(dbf') /\ p <= Len(dbf') /\ p \in 1 .. Len(dbf')
      /\ Len(dbf) <= Len(dbf')
  BY <1>1, IsoOf, ZeroIsContent DEF Page
<1>5. ControlOK(c)' /\ Journaling(c)'
  BY <1>1, <1>2, <1>3 DEF ControlOK, Active, Journaling
<1>6. FilesOK(c)'
  <2>1. RecordsOK(c)'
    BY <1>1, <1>2, <1>3 DEF RecordsOK, DbMod
  <2> QED  BY <1>1, <2>1 DEF FilesOK
<1>7. \A q \in Page : Cached(c, q) /\ q \notin tx'[c].todo =>
          q <= Len(dbf') /\ cache[c][q] = dbf'[q]
  <2> SUFFICES ASSUME NEW q \in Page, Cached(c, q), q \notin tx'[c].todo
               PROVE  q <= Len(dbf') /\ cache[c][q] = dbf'[q]
    OBVIOUS
  <2>1. CASE q = p
    BY <1>1, <1>4, <2>1
  <2>2. CASE q # p
    <3>1. q <= Len(dbf) /\ cache[c][q] = dbf[q] /\ q \in Nat /\ q >= 1
      BY <1>2, <1>3, <2>2 DEF PagesOK, Same, Page
    <3>2. q \in 1 .. Len(dbf')
      BY <1>1, <1>4, <3>1
    <3> QED  BY <1>1, <2>2, <3>1, <3>2
  <2> QED  BY <2>1, <2>2
<1>8. vers'[c] = dbf'[1] /\ 1 \notin tx'[c].todo
  <2>1. vers[c] = dbf[1]
    BY <1>2 DEF PagesOK
  <2>2. CASE p = 1
    BY <1>1, <1>3, <1>4, <2>2, IsoOf DEF TypeInv
  <2>3. CASE p # 1
    <3>1. 1 \notin tx[c].todo
      BY <1>1, <1>4, <2>3
    <3> QED  BY <1>1, <1>3, <1>4, <2>1, <2>3, <3>1
  <2> QED  BY <2>2, <2>3
<1>9. ASSUME NEW d \in Conn, d # c
      PROVE  /\ eState[d] \notin Writer
             /\ vers'[d] = vers[d] /\ cache'[d] = cache[d] /\ Stale(d)
             /\ \A q \in Page : Cached(d, q) => vers[d] < dbf'[1]
  <2>1. eState[d] \notin Writer
    BY <1>2, <1>9, IsoOf DEF ControlOK, Active
  <2>2. Stale(d)
    BY <2>1, IsoOf DEF CacheOK
  <2>3. vers'[d] = vers[d] /\ cache'[d] = cache[d]
    BY <1>9 DEF TypedStep
  <2>4. ASSUME NEW q \in Page, Cached(d, q) PROVE vers[d] < dbf'[1]
    <3>1. CASE p = 1
      <4>1. vers[d] <= dbf[1]
        BY <2>2, <2>4 DEF Stale
      <4>2. dbf'[1] = vers[c] + 1 /\ vers[c] = dbf[1]
        BY <1>1, <1>2, <1>4, <3>1 DEF PagesOK
      <4>3. vers[d] \in Int /\ dbf[1] \in Int
        BY IsoOf, PagerAssumption DEF Content, Garbage
      <4> QED  BY <4>1, <4>2, <4>3
    <3>2. CASE p # 1
      <4>1. 1 \notin tx[c].todo
        BY <1>1, <1>4, <3>2
      <4>2. dbf'[1] = dbf[1]
        BY <1>1, <1>4, <3>2
      <4> QED  BY <1>2, <1>9, <2>4, <4>1, <4>2 DEF PagesOK
    <3> QED  BY <3>1, <3>2
  <2> QED  BY <2>1, <2>2, <2>3, <2>4
<1>10. PagesOK(c)'
  <2>1. \A q \in tx'[c].todo :
           /\ q <= tx'[c].dbSize
           /\ q <= tx'[c].dbOrigSize => q \in tx'[c].inJournal
    BY <1>2, <1>3 DEF PagesOK
  <2>2. \A q \in Page : q > Len(dbf') /\ q <= tx'[c].dbSize => q \in tx'[c].todo
    <3> SUFFICES ASSUME NEW q \in Page, q > Len(dbf'), q <= tx[c].dbSize
                 PROVE  q \in tx[c].todo \ {p}
      BY <1>3
    <3>1. q > Len(dbf) /\ q # p
      BY <1>1, <1>4 DEF Page
    <3> QED  BY <1>2, <3>1 DEF PagesOK
  <2>3. tx'[c].dbOrigSize <= Len(dbf') /\ Len(dbf') <= tx'[c].dbSize
    <3>1. /\ tx[c].dbOrigSize <= Len(dbf) /\ Len(dbf) <= tx[c].dbSize
          /\ p <= tx[c].dbSize
      BY <1>1, <1>2 DEF PagesOK
    <3>2. tx[c].dbOrigSize \in Nat /\ tx[c].dbSize \in Nat
      BY <1>1, WriterOf DEF Writer, CacheMod
    <3> QED  BY <1>1, <1>3, <1>4, <3>1, <3>2
  <2>4. Cached(c, 1)
    BY <1>2 DEF PagesOK
  <2>5. \A d \in Conn \ {c}, q \in Page : Cached(d, q)' => vers'[d] < dbf'[1]
    BY <1>9 DEF Cached
  <2> QED
    BY <1>1, <1>7, <1>8, <2>1, <2>2, <2>3, <2>4, <2>5 DEF PagesOK, Cached, Same
<1>11. CacheOK(c)'
  BY <1>1, <1>10 DEF CacheOK, Writer, CacheMod
<1>12. ASSUME NEW d \in Conn \ {c} PROVE Stale(d)'
  <2>1. vers[d] \in Int /\ dbf'[1] \in Int
    <3>1. dbf' \in Seq(Content)
      BY DEF TypedStep, DiskOK
    <3>2. dbf'[1] \in Content
      BY <1>4, <3>1, ElementOfSeq
    <3> QED  BY <3>2, IsoOf, PagerAssumption DEF Content, Garbage
  <2>2. \A q \in Page : Cached(d, q) =>
            vers[d] <= dbf'[1] /\ vers[d] # dbf'[1]
    BY <1>9, <2>1
  <2> QED  BY <1>9, <2>2 DEF Stale, Cached
<1> QED  BY <1>1, <1>2, <1>5, <1>6, <1>11, <1>12 DEF IsoStep

(* Every dirty page is written: the file has the size of the new database. *)
LEMMA IsoPhaseOneDone ==
    ASSUME IsoInv, Calm, NEW c \in Conn, StepOK(c), TypedStep(c),
           CommitPhaseOneDone(c)
    PROVE  IsoStep(c)
<1>1. /\ pc[c] = "pages" /\ tx[c].todo = {}
      /\ UNCHANGED <<owner, eLock, dbf, jrnl, cache, vers>>
      /\ eState' = [eState EXCEPT ![c] = "WRITER_FINISHED"]
      /\ tx' = [tx EXCEPT ![c].dirty = {}]
      /\ pc' = [pc EXCEPT ![c] = "end"]
  BY DEF CommitPhaseOneDone, lockVars, diskVars, Goto
<1>2. eState[c] = "WRITER_DBMOD"
  BY <1>1, IsoOf, InvOf DEF Matches
<1>3. /\ PagesOK(c) /\ RecordsOK(c) /\ ControlOK(c) /\ owner = c
      /\ Journaling(c)
  BY <1>1, <1>2, IsoOf, WriterOf
     DEF CacheOK, FilesOK, Writer, CacheMod, Journaling
<1>4. eState'[c] = "WRITER_FINISHED" /\ pc'[c] = "end"
  BY <1>1, IsoOf DEF PagerInv
<1>5. /\ tx'[c].dbOrigSize = tx[c].dbOrigSize
      /\ tx'[c].dbSize = tx[c].dbSize
      /\ tx'[c].inJournal = tx[c].inJournal
      /\ tx'[c].jfd = tx[c].jfd /\ tx'[c].rc = tx[c].rc
  BY <1>1, IsoOf DEF TypeInv, TxType
<1>6. Journaling(c)'
  BY <1>4 DEF Journaling, CacheMod
<1>7. ControlOK(c)'
  <2>1. Places("WRITER_FINISHED", "end")
    BY DEF Places
  <2> QED  BY <1>1, <1>3, <1>4, <1>5, <1>6, <2>1 DEF ControlOK
<1>8. FilesOK(c)'
  <2>1. RecordsOK(c)'
    BY <1>1, <1>2, <1>3, <1>4, <1>5 DEF RecordsOK, DbMod
  <2> QED  BY <1>4, <2>1 DEF FilesOK
<1>9. EndOK(c)'
  <2>1. tx[c].dbSize = Len(dbf)
    <3>1. Len(dbf) <= tx[c].dbSize /\ tx[c].dbSize <= MaxPage
      BY <1>3, IsoOf DEF PagesOK, TxType
    <3>2. tx[c].dbSize \in Nat /\ Len(dbf) \in Nat /\ MaxPage \in Nat
      BY <1>2, IsoOf, WriterOf, PagerAssumption DEF Writer, CacheMod, Page
    <3>3. ASSUME Len(dbf) < tx[c].dbSize PROVE FALSE
      <4>1. Len(dbf) + 1 \in Page /\ Len(dbf) + 1 > Len(dbf)
            /\ Len(dbf) + 1 <= tx[c].dbSize
        BY <3>1, <3>2, <3>3 DEF Page
      <4> QED  BY <1>1, <1>3, <4>1 DEF PagesOK
    <3> QED  BY <3>1, <3>2, <3>3
  <2>2. \A p \in Page : Cached(c, p) => p <= Len(dbf) /\ cache[c][p] = dbf[p]
    BY <1>1, <1>3 DEF PagesOK, Same
  <2>3. cache[c][1] = dbf[1] /\ vers[c] = dbf[1]
    BY <1>3, <2>2, ZeroIsContent DEF PagesOK
  <2> QED  BY <1>1, <1>5, <2>1, <2>2, <2>3 DEF EndOK, Cached
<1>10. CacheOK(c)'
  BY <1>4, <1>9 DEF CacheOK, Writer, CacheMod
<1> QED  BY <1>1, <1>3, <1>6, <1>7, <1>8, <1>10, OwnerStep

-----------------------------------------------------------------------------
(* The end of a write transaction that has changed nothing, and the start  *)
(* of a rollback.                                                          *)
LEMMA IsoGiveUp ==
    ASSUME IsoInv, Calm, NEW c \in Conn, StepOK(c), TypedStep(c),
           CommitNoChange(c) \/ Rollback(c)
    PROVE  IsoStep(c)
<1>1. /\ eState[c] \in Writer /\ pc[c] \in {"idle", "err"}
      /\ UNCHANGED <<owner, eLock, dbf, jrnl, eState, cache, vers, tx>>
      /\ pc' = [pc EXCEPT ![c] = IF eState[c] = "WRITER_LOCKED" THEN "end"
                                 ELSE "playback"]
  BY DEF CommitNoChange, Rollback, lockVars, diskVars, Goto, Writer
<1>2. /\ ControlOK(c) /\ CacheOK(c) /\ FilesOK(c)
      /\ eState[c] \in {"WRITER_LOCKED", "WRITER_CACHEMOD"} /\ pc[c] = "idle"
      /\ owner = c
  BY <1>1, IsoOf, WriterOf DEF ControlOK, Places, Writer, CacheMod
<1>3. WorkingOK(c)
  BY <1>2 DEF CacheOK
<1>4. CASE eState[c] = "WRITER_LOCKED"
  <2>1. pc'[c] = "end" /\ eState'[c] = "WRITER_LOCKED"
    BY <1>1, <1>4, IsoOf DEF PagerInv
  <2>2. ~Journaling(c) /\ ~Journaling(c)'
    BY <1>2, <1>4, <2>1 DEF Journaling, CacheMod
  <2>3. ControlOK(c)'
    <3>1. Places("WRITER_LOCKED", "end")
      BY DEF Places
    <3>2. tx'[c].jfd = tx[c].jfd /\ tx'[c].rc = tx[c].rc
      BY <1>1
    <3> QED  BY <1>1, <1>2, <2>1, <2>2, <3>1, <3>2 DEF ControlOK
  <2>4. FilesOK(c)'
    BY <2>1 DEF FilesOK, CacheMod
  <2>5. tx[c].dirty = {} /\ tx[c].dbSize = tx[c].dbOrigSize
    BY <1>2, <1>4, IsoOf, TypesOf DEF TxOK, CacheOK
  <2>6. EndOK(c)'
    <3>1. tx[c].dbSize = Len(dbf) /\ cache[c][1] = dbf[1] /\ vers[c] = dbf[1]
      BY <1>2, <1>3, <2>5 DEF WorkingOK
    <3>2. \A p \in Page : Cached(c, p) => cache[c][p] = dbf[p]
      BY <1>3, <2>5 DEF WorkingOK, Same
    <3> QED  BY <1>1, <2>1, <3>1, <3>2 DEF EndOK, Cached
  <2>7. tx'[c].dbSize = tx'[c].dbOrigSize
    BY <1>1, <2>5
  <2>8. CacheOK(c)'
    BY <2>1, <2>6, <2>7 DEF CacheOK, Writer
  <2> QED  BY <1>1, <1>2, <2>2, <2>3, <2>4, <2>8, OwnerStep
<1>5. CASE eState[c] = "WRITER_CACHEMOD"
  <2>1. pc'[c] = "playback" /\ eState'[c] = "WRITER_CACHEMOD"
    BY <1>1, <1>5, IsoOf DEF PagerInv
  <2>2. Journaling(c) /\ Journaling(c)'
    BY <1>2, <1>5, <2>1 DEF Journaling, CacheMod
  <2>3. ControlOK(c)'
    <3>1. Places("WRITER_CACHEMOD", "playback")
      BY DEF Places
    <3>2. tx'[c].jfd = tx[c].jfd /\ tx'[c].rc = tx[c].rc
      BY <1>1
    <3> QED  BY <1>1, <1>2, <2>1, <2>2, <3>1, <3>2 DEF ControlOK
  <2>4. FilesOK(c)'
    BY <1>1, <1>2, <1>5, <2>1 DEF FilesOK, RecordsOK, CacheMod
  <2>5. WorkingOK(c)'
    BY <1>1, <1>2, <1>3, <2>1, WorkingKept
  <2>6. CacheOK(c)'
    BY <2>1, <2>5 DEF CacheOK, Writer, CacheMod
  <2> QED  BY <1>1, <1>2, <2>2, <2>3, <2>4, <2>6, OwnerStep
<1> QED  BY <1>2, <1>4, <1>5

(* The playback of a transaction's own journal into the cache: every dirty *)
(* old page has a record with the content of the file.                     *)
LEMMA IsoPlayback ==
    ASSUME IsoInv, Calm, NEW c \in Conn, StepOK(c), TypedStep(c),
           pager_playback(c) \/ pager_playback_one_page(c) \/ PlaybackDone(c)
    PROVE  IsoStep(c)
<1> DEFINE t0 == tx[c]
<1>0. /\ pc[c] \in {"playback", "play"} /\ eState[c] = "WRITER_CACHEMOD"
      /\ UNCHANGED <<owner, eLock, jrnl>>
  <2>1. pc[c] \in {"playback", "play"} /\ UNCHANGED <<owner, eLock, jrnl>>
    BY DEF pager_playback, pager_playback_one_page, PlaybackDone, lockVars,
           diskVars
  <2>2. Places(eState[c], pc[c]) /\ eState[c] \in EState
    BY IsoOf DEF ControlOK
  <2> QED  BY <2>1, <2>2 DEF Places, EState, Writer, CacheMod
<1>1. /\ ControlOK(c) /\ CacheOK(c) /\ RecordsOK(c) /\ owner = c
      /\ Journaling(c) /\ ~PlaysToFile(c) /\ Len(dbf) \in Nat
      /\ t0 \in TxType /\ t0.inJournal \subseteq 1 .. t0.dbOrigSize
      /\ t0.dbOrigSize \in Nat
      /\ jrnl.recs \in Seq(JournalRecord) /\ Len(jrnl.recs) \in Nat
  BY <1>0, IsoOf, WriterOf, JournalCount, TypesOf
     DEF FilesOK, Writer, CacheMod, DbMod, Journaling, PlaysToFile, isHot,
         Page, TxOK
<1>2. CASE pager_playback(c)
  <2>1. /\ pc[c] = "playback" /\ UNCHANGED <<dbf, eState, cache, vers>>
        /\ tx' = [tx EXCEPT ![c].dbSize = jrnl.mxPg, ![c].pos = 1,
                            ![c].n = Len(jrnl.recs)]
        /\ pc' = [pc EXCEPT ![c] = "play"]
    BY <1>0, <1>1, <1>2, NoFaults
       DEF pager_playback, PlaysToFile, isHot, Goto
  <2>2. /\ tx'[c].dbOrigSize = t0.dbOrigSize /\ tx'[c].dbSize = jrnl.mxPg
        /\ tx'[c].inJournal = t0.inJournal /\ tx'[c].jfd = t0.jfd
        /\ tx'[c].rc = t0.rc /\ tx'[c].pos = 1
        /\ tx'[c].n = Len(jrnl.recs)
    BY <2>1, IsoOf DEF TypeInv, TxType
  <2>3. pc'[c] = "play" /\ eState'[c] = "WRITER_CACHEMOD"
    BY <1>0, <2>1, IsoOf DEF PagerInv
  <2>4. Journaling(c)'
    BY <2>3 DEF Journaling, CacheMod
  <2>5. ControlOK(c)'
    <3>1. Places("WRITER_CACHEMOD", "play")
      BY DEF Places
    <3> QED  BY <1>0, <1>1, <2>2, <2>3, <2>4, <3>1 DEF ControlOK
  <2>6. FilesOK(c)'
    <3>1. RecordsOK(c)'
      BY <1>0, <1>1, <2>1, <2>2, <2>3 DEF RecordsOK
    <3> QED  BY <2>3, <3>1 DEF FilesOK
  <2>7. WorkingOK(c)
    BY <1>0, <1>1, <2>1 DEF CacheOK
  <2>8. PlayOK(c)'
    <3>1. /\ t0.dbOrigSize = Len(dbf) /\ jrnl.mxPg = Len(dbf)
          /\ cache[c][1] = dbf[1] /\ vers[c] = dbf[1]
      BY <1>1, <2>1, <2>7 DEF WorkingOK, RecordsOK
    <3>2. ASSUME NEW p \in Page, Cached(c, p), p <= Len(dbf),
                 cache[c][p] # dbf[p]
          PROVE  \E i \in 1 .. Len(jrnl.recs) : jrnl.recs[i].pg = p
      <4>1. p \in t0.inJournal
        BY <2>7, <3>1, <3>2 DEF WorkingOK, Same
      <4> QED  BY <1>1, <4>1 DEF RecordsOK
    <3> QED  BY <1>0, <2>1, <2>2, <3>1, <3>2 DEF PlayOK, Cached
  <2>9. CacheOK(c)'
    BY <2>3, <2>8 DEF CacheOK, Writer, CacheMod
  <2> QED  BY <1>0, <1>1, <2>1, <2>4, <2>5, <2>6, <2>9, OwnerStep
<1>3. CASE pager_playback_one_page(c)
  <2> DEFINE pos == t0.pos
             rec == jrnl.recs[pos]
  <2>0. pc[c] = "play" /\ pos <= t0.n
    BY <1>3 DEF pager_playback_one_page
  <2>1. PlayOK(c)
    BY <1>1, <2>0 DEF CacheOK
  <2>2. pos \in 1 .. Len(jrnl.recs) /\ pos \in Nat
    <3>1. pos \in Nat /\ pos >= 1 /\ t0.n = Len(jrnl.recs)
      BY <1>1, <2>0, <2>1, IsoOf, TypesOf DEF PlayOK, JournalOK, TxType
    <3> QED  BY <1>1, <2>0, <3>1
  <2>3. /\ rec.cksum = jrnl.cksumInit /\ rec.pg \in t0.inJournal
        /\ rec.data = dbf[rec.pg]
    BY <1>0, <1>1, <2>2 DEF RecordsOK, DbMod
  <2>4. /\ rec.pg \in Nat /\ rec.pg <= t0.dbSize /\ t0.dbSize \in Nat
        /\ rec.pg <= Len(dbf) /\ rec.pg \in Page
    <3>1. rec.pg \in 1 .. t0.dbOrigSize
      BY <1>1, <2>3
    <3>2. t0.dbOrigSize = Len(dbf) /\ t0.dbSize = Len(dbf)
      BY <2>1 DEF PlayOK
    <3>3. rec.pg \in Page
      BY <1>1, <2>3 DEF TxType
    <3> QED  BY <1>1, <3>1, <3>2, <3>3
  <2>5. /\ dbf' = dbf /\ UNCHANGED <<eState, pc>>
        /\ tx' = [tx EXCEPT ![c].pos = @ + 1, ![c].dirty = @ \ {rec.pg}]
        /\ IF Cached(c, rec.pg)
           THEN /\ cache' = [cache EXCEPT ![c][rec.pg] = rec.data]
                /\ vers' = IF rec.pg = 1 THEN [vers EXCEPT ![c] = rec.data]
                           ELSE vers
           ELSE UNCHANGED <<cache, vers>>
    <3>1. ~(rec.pg > t0.dbSize) /\ ~(rec.cksum # jrnl.cksumInit)
      BY <2>3, <2>4
    <3> QED
      BY <1>1, <1>3, <3>1, NoFaults DEF pager_playback_one_page, Cached
  <2> DEFINE next == pos + 1
  <2>6. /\ tx'[c].dbOrigSize = t0.dbOrigSize /\ tx'[c].dbSize = t0.dbSize
        /\ tx'[c].inJournal = t0.inJournal /\ tx'[c].jfd = t0.jfd
        /\ tx'[c].rc = t0.rc /\ tx'[c].n = t0.n /\ tx'[c].pos = next
    <3>1. tx' = [tx EXCEPT ![c].pos = next, ![c].dirty = t0.dirty \ {rec.pg}]
      BY <2>5
    <3> HIDE DEF next, rec
    <3> QED  BY <3>1, IsoOf DEF TypeInv, TxType
  <2>7. /\ \A q \in Page :
               cache'[c][q] = IF q = rec.pg /\ Cached(c, q) THEN dbf[q]
                              ELSE cache[c][q]
        /\ vers'[c] = vers[c]
    <3>1. CASE ~Cached(c, rec.pg)
      BY <2>5, <3>1 DEF Cached
    <3>2. CASE Cached(c, rec.pg)
      <4> DEFINE g == rec.pg
                 x == rec.data
      <4>1. /\ cache' = [cache EXCEPT ![c][g] = x]
            /\ vers' = IF g = 1 THEN [vers EXCEPT ![c] = x] ELSE vers
            /\ x = dbf[g] /\ g \in Page /\ Cached(c, g)
        BY <2>3, <2>4, <2>5, <3>2
      <4>a. vers[c] = dbf[1]
        BY <2>1 DEF PlayOK
      <4> HIDE DEF g, x
      <4>2. \A q \in Page : cache'[c][q] = IF q = g THEN x ELSE cache[c][q]
        BY <4>1, Untouched, IsoOf DEF Pages
      <4>3. vers'[c] = vers[c]
        BY <4>1, <4>a, Untouched, IsoOf
      <4> QED  BY <4>1, <4>2, <4>3 DEF g
    <3> QED  BY <3>1, <3>2
  <2>8. Journaling(c)' /\ ControlOK(c)'
    BY <1>0, <1>1, <2>5, <2>6 DEF ControlOK, Active, Journaling
  <2>9. FilesOK(c)'
    <3>1. RecordsOK(c)'
      BY <1>0, <1>1, <2>5, <2>6 DEF RecordsOK
    <3> QED  BY <2>0, <2>5, <3>1 DEF FilesOK
  <2>10. PlayOK(c)'
    <3>1. /\ t0.dbOrigSize = Len(dbf) /\ t0.dbSize = Len(dbf)
          /\ t0.n = Len(jrnl.recs)
          /\ cache[c][1] = dbf[1] /\ vers[c] = dbf[1]
      BY <2>1 DEF PlayOK
    <3>2. ASSUME NEW p \in Page, cache'[c][p] # NotCached, p <= Len(dbf),
                 cache'[c][p] # dbf[p]
          PROVE  \E i \in next .. t0.n : jrnl.recs[i].pg = p
      <4>1. p # rec.pg /\ cache[c][p] # dbf[p] /\ Cached(c, p)
        BY <2>7, <3>2 DEF Cached
      <4>2. PICK i \in pos .. t0.n : jrnl.recs[i].pg = p
        BY <2>1, <3>2, <4>1 DEF PlayOK
      <4>3. i # pos /\ t0.n \in Nat
        BY <1>1, <3>1, <4>1, <4>2
      <4>4. i \in next .. t0.n
        BY <2>2, <4>2, <4>3
      <4> QED  BY <4>2, <4>4
    <3>3. cache'[c][1] = dbf[1]
      BY <2>7, <3>1, ZeroIsContent
    <3> HIDE DEF next, rec
    <3> QED
      BY <1>0, <2>5, <2>6, <2>7, <3>1, <3>2, <3>3 DEF PlayOK, Cached
  <2>11. CacheOK(c)'
    BY <1>0, <2>0, <2>5, <2>10 DEF CacheOK, Writer, CacheMod
  <2> QED  BY <1>0, <1>1, <2>5, <2>8, <2>9, <2>11, OwnerStep
<1>4. CASE PlaybackDone(c)
  <2>1. /\ pc[c] = "play" /\ t0.pos > t0.n
        /\ UNCHANGED <<dbf, eState, cache, vers, tx>>
        /\ pc' = [pc EXCEPT ![c] = "end"]
    BY <1>4, NoFaults DEF PlaybackDone, diskVars, Goto
  <2>2. pc'[c] = "end" /\ eState'[c] = "WRITER_CACHEMOD"
    BY <1>0, <2>1, IsoOf DEF PagerInv
  <2>3. Journaling(c)'
    BY <2>2 DEF Journaling, CacheMod
  <2>4. ControlOK(c)'
    <3>1. Places("WRITER_CACHEMOD", "end")
      BY DEF Places
    <3>2. tx'[c].jfd = tx[c].jfd /\ tx'[c].rc = tx[c].rc
      BY <2>1
    <3> QED  BY <1>0, <1>1, <2>2, <2>3, <3>1, <3>2 DEF ControlOK
  <2>5. FilesOK(c)'
    <3>1. RecordsOK(c)'
      BY <1>0, <1>1, <2>1, <2>2 DEF RecordsOK
    <3> QED  BY <2>2, <3>1 DEF FilesOK
  <2>6. EndOK(c)'
    <3>1. PlayOK(c)
      BY <1>1, <2>1 DEF CacheOK
    <3>2. /\ t0.dbSize = Len(dbf) /\ cache[c][1] = dbf[1]
          /\ vers[c] = dbf[1]
      BY <3>1 DEF PlayOK
    <3>3. t0.pos .. t0.n = {}
      BY <1>1, <2>1 DEF TxType
    <3>4. \A p \in Page : Cached(c, p) /\ p <= Len(dbf) => cache[c][p] = dbf[p]
      BY <3>1, <3>3 DEF PlayOK
    <3> QED  BY <2>1, <2>2, <3>2, <3>4 DEF EndOK, Cached
  <2>7. CacheOK(c)'
    BY <2>2, <2>6 DEF CacheOK, Writer, CacheMod
  <2> QED  BY <1>0, <1>1, <2>1, <2>3, <2>4, <2>5, <2>7, OwnerStep
<1> QED  BY <1>2, <1>3, <1>4

(* The journal goes, and the pages that are no longer in the database with *)
(* it.                                                                     *)
LEMMA IsoFinalize ==
    ASSUME IsoInv, Calm, NEW c \in Conn, StepOK(c), TypedStep(c),
           FinalizeJournal(c)
    PROVE  IsoStep(c) /\ jrnl' = NoJournal
<1> DEFINE t0 == tx[c]
<1>1. /\ pc[c] = "end" /\ UNCHANGED <<owner, eLock, dbf, eState, vers>>
      /\ jrnl' = IF t0.jfd THEN NoJournal ELSE jrnl
      /\ tx' = [tx EXCEPT ![c].jfd = FALSE, ![c].inJournal = {},
                          ![c].dirty = {}, ![c].todo = {}]
      /\ cache' = [cache EXCEPT ![c] =
                      [p \in Page |-> IF p > t0.dbSize THEN NotCached
                                      ELSE cache[c][p]]]
      /\ pc' = [pc EXCEPT ![c] = "unlock"]
  BY NoFaults DEF FinalizeJournal, lockVars, Goto
<1>2. /\ eState[c] \in {"WRITER_LOCKED", "WRITER_CACHEMOD", "WRITER_FINISHED"}
  <2>1. Places(eState[c], pc[c]) /\ eState[c] \in EState
    BY IsoOf DEF ControlOK
  <2> QED  BY <1>1, <2>1 DEF Places, EState, Writer, CacheMod
<1>3. /\ owner = c /\ (t0.jfd <=> Journaling(c)) /\ t0.dbSize \in Nat
      /\ EndOK(c) /\ ControlOK(c)
      /\ eState[c] = "WRITER_LOCKED" => t0.dbSize = t0.dbOrigSize
  BY <1>1, <1>2, IsoOf, WriterOf DEF Writer, CacheMod, CacheOK
<1>4. jrnl' = NoJournal
  BY <1>1, <1>3, OwnJournal
<1>5. pc'[c] = "unlock" /\ eState'[c] = eState[c]
  BY <1>1, IsoOf DEF PagerInv
<1>6. /\ tx'[c].dbSize = t0.dbSize /\ tx'[c].jfd = FALSE
      /\ tx'[c].dbOrigSize = t0.dbOrigSize /\ tx'[c].rc = t0.rc
  BY <1>1, IsoOf DEF TypeInv, TxType
<1>7. \A p \in Page : cache'[c][p] = IF p > t0.dbSize THEN NotCached
                                     ELSE cache[c][p]
  BY <1>1, Untouched, IsoOf
<1>8. ~Journaling(c)'
  BY <1>5 DEF Journaling
<1>9. ControlOK(c)'
  <2>1. Places(eState[c], "unlock")
    BY <1>2 DEF Places
  <2> QED  BY <1>1, <1>3, <1>5, <1>6, <1>8, <2>1 DEF ControlOK
<1>10. FilesOK(c)'
  BY <1>5 DEF FilesOK
<1>11. EndOK(c)'
  <2>1. t0.dbSize = Len(dbf) /\ cache[c][1] = dbf[1] /\ vers[c] = dbf[1]
    BY <1>3 DEF EndOK
  <2>2. 1 \in Page /\ ~(1 > t0.dbSize)
    BY <1>3, <2>1, IsoOf, ZeroIsContent DEF Page
  <2>3. \A p \in Page : cache'[c][p] # NotCached =>
            p <= Len(dbf) /\ cache'[c][p] = dbf[p]
    <3> SUFFICES ASSUME NEW p \in Page, cache'[c][p] # NotCached
                 PROVE  p <= Len(dbf) /\ cache'[c][p] = dbf[p]
      OBVIOUS
    <3>1. ~(p > t0.dbSize) /\ cache'[c][p] = cache[c][p] /\ Cached(c, p)
      BY <1>7 DEF Cached
    <3>2. p <= Len(dbf)
      BY <1>3, <2>1, <3>1 DEF Page
    <3> QED  BY <1>3, <3>1, <3>2 DEF EndOK
  <2> QED  BY <1>1, <1>6, <1>7, <2>1, <2>2, <2>3 DEF EndOK, Cached
<1>12. CacheOK(c)'
  BY <1>2, <1>3, <1>5, <1>6, <1>11 DEF CacheOK, Writer, CacheMod
<1>13. jrnl'.hdr = "absent"
  BY <1>4 DEF NoJournal
<1> QED  BY <1>1, <1>3, <1>4, <1>9, <1>10, <1>12, <1>13 DEF IsoStep

(* The unlock of the file.                                                 *)
LEMMA IsoEnd ==
    ASSUME IsoInv, Calm, NEW c \in Conn, StepOK(c), TypedStep(c),
           EndTransaction(c) \/ KeepReading(c) \/ pager_unlock(c) \/ Crash(c)
    PROVE  IsoStep(c)
<1>0. /\ ControlOK(c) /\ CacheOK(c) /\ Places(eState[c], pc[c])
      /\ eState[c] \in EState /\ LockInv
      /\ Matches(eState[c], pc[c], eLock[c]) /\ eLock[c] # UNKNOWN_LOCK
  BY IsoOf, InvOf DEF ControlOK, PagerInv
<1>1. CASE EndTransaction(c)
  <2>1. /\ pc[c] = "unlock" /\ eState[c] \in Writer
    BY <1>0, <1>1 DEF EndTransaction, Places, EState, Writer, CacheMod
  <2>2. /\ owner = c /\ tx[c].rc = "OK" /\ ~Journaling(c) /\ ~tx[c].jfd
        /\ EndOK(c) /\ eLock[c] \in {RESERVED_LOCK, EXCLUSIVE_LOCK}
    BY <1>0, <2>1, WriterOf DEF CacheOK, Journaling
  <2>3. /\ UNCHANGED <<dbf, jrnl, cache, vers>>
        /\ pagerUnlockDb(c, SHARED_LOCK, TRUE)
        /\ tx' = [tx EXCEPT ![c].rc = "OK"]
        /\ eState' = [eState EXCEPT ![c] = "READER"]
        /\ pc' = [pc EXCEPT ![c] = "done"]
    BY <1>1, <2>1, <2>2, NoFaults
       DEF EndTransaction, diskVars, isHot, Goto, Writer, CacheMod
  <2>4. eState'[c] = "READER" /\ pc'[c] = "done"
    BY <2>3, IsoOf DEF PagerInv
  <2>5. eLock'[c] # UNKNOWN_LOCK
    BY <2>4 DEF StepOK, Matches
  <2>6. /\ tx'[c].jfd = tx[c].jfd /\ tx'[c].rc = "OK"
    BY <2>3, IsoOf DEF TypeInv, TxType
  <2>7. ~Journaling(c)' /\ ~Active(c)'
    BY <2>4 DEF Journaling, Active, Writer, CacheMod
  <2>8. ControlOK(c)'
    <3>1. Places("READER", "done")
      BY DEF Places
    <3> QED  BY <2>2, <2>4, <2>5, <2>6, <2>7, <3>1 DEF ControlOK
  <2>9. FilesOK(c)'
    BY <2>4 DEF FilesOK, CacheMod
  <2>10. Stale(c)'
    <3>1. /\ cache[c][1] = dbf[1] /\ vers[c] = dbf[1]
          /\ \A p \in Page : Cached(c, p) =>
                 p <= Len(dbf) /\ cache[c][p] = dbf[p]
      BY <2>1, <2>2 DEF EndOK
    <3>2. dbf[1] # NotCached /\ dbf[1] <= dbf[1]
      BY IsoOf DEF Content, NotCached, Garbage
    <3> QED  BY <2>3, <3>1, <3>2 DEF Stale, Cached, Same
  <2>11. CacheOK(c)'
    BY <2>4, <2>10 DEF CacheOK, Writer, CacheMod
  <2> QED  BY <2>2, <2>3, <2>8, <2>9, <2>11 DEF IsoStep
<1>2. CASE KeepReading(c)
  BY <1>2 DEF KeepReading, Calm
<1>3. CASE pager_unlock(c)
  <2>1. eState[c] = "READER" /\ pc[c] \in {"idle", "done"}
    BY <1>0, <1>3 DEF pager_unlock, Places, EState, Writer, CacheMod
  <2>2. /\ UNCHANGED <<dbf, jrnl, cache, vers>>
        /\ pagerUnlockDb(c, NO_LOCK, TRUE)
        /\ tx' = [tx EXCEPT ![c] = NewTx]
        /\ eState' = [eState EXCEPT ![c] = "OPEN"]
        /\ pc' = [pc EXCEPT ![c] = "idle"]
    BY <1>3, <2>1, NoFaults DEF pager_unlock, diskVars, Goto
  <2>3. eState'[c] = "OPEN" /\ pc'[c] = "idle"
    BY <2>2, IsoOf DEF PagerInv
  <2>4. eLock'[c] # UNKNOWN_LOCK
    <3>1. /\ eLock' = [eLock EXCEPT ![c] = NO_LOCK]
          /\ eLock \in [Conn -> LockLevel]
      BY <1>0, <2>2 DEF pagerUnlockDb, LockInv, LockTypeOK
    <3> QED  BY <3>1
  <2>5. owner' = IF owner = c THEN NoConn ELSE owner
    BY <2>2 DEF pagerUnlockDb, verixUnlock, OsUnlock
  <2>6. tx'[c].jfd = FALSE /\ tx'[c].rc = "OK"
    BY <2>2, Untouched, IsoOf DEF NewTx
  <2>7. ~Journaling(c) /\ ~Journaling(c)' /\ ~Active(c)'
    BY <2>1, <2>3 DEF Journaling, Active, Writer, CacheMod
  <2>8. ControlOK(c)'
    <3>1. Places("OPEN", "idle")
      BY DEF Places
    <3> QED  BY <2>3, <2>4, <2>6, <2>7, <3>1 DEF ControlOK
  <2>9. FilesOK(c)'
    BY <2>3 DEF FilesOK, CacheMod
  <2>10. Stale(c)'
    BY <1>0, <2>1, <2>2 DEF CacheOK, Stale, Cached, Same, Writer, CacheMod
  <2>11. CacheOK(c)'
    BY <2>3, <2>10 DEF CacheOK, Writer, CacheMod
  <2> QED  BY <2>2, <2>5, <2>7, <2>8, <2>9, <2>11 DEF IsoStep
<1>4. CASE Crash(c)
  BY <1>4, NoFaults DEF Crash
<1> QED  BY <1>1, <1>2, <1>3, <1>4

-----------------------------------------------------------------------------
(* Every step keeps the invariant.                                         *)
LEMMA IsoSteps ==
    ASSUME IsoInv, Calm, NEW c \in Conn,
           PagerStep(c) \/ Finish(c) \/ Work(c) \/ Crash(c)
    PROVE  StepOK(c) /\ TypedStep(c) /\ IsoStep(c)
<1>0. StepOK(c) /\ TypedStep(c)
  BY StepTypes DEF IsoInv
<1>1. CASE PagerStep(c)
  BY <1>0, <1>1, IsoRead, IsoOpenJournal, IsoSync, IsoPagelist,
     IsoPhaseOneDone, IsoPlayback, IsoFinalize, IsoEnd DEF PagerStep
<1>2. CASE Finish(c)
  BY <1>0, <1>2, IsoWrite, IsoGiveUp, IsoEnd DEF Finish
<1>3. CASE Work(c)
  BY <1>0, <1>3, IsoRead, IsoBegin, IsoOpenJournal, IsoFetch, IsoWrite
     DEF Work
<1>4. CASE Crash(c)
  BY <1>0, <1>4, IsoEnd
<1> QED  BY <1>0, <1>1, <1>2, <1>3, <1>4

LEMMA IsoInit ==
    ASSUME Init
    PROVE  IsoInv
<1>1. TypeInv
  BY TypeInit
<1>2. jrnl.hdr = "absent"
  BY DEF Init, NoJournal
<1>3. ASSUME NEW c \in Conn PROVE ControlOK(c) /\ CacheOK(c) /\ FilesOK(c)
  <2>1. /\ eState[c] = "OPEN" /\ pc[c] = "idle" /\ eLock[c] = NO_LOCK
        /\ tx[c] = NewTx /\ cache[c] = EmptyCache
    BY DEF Init, LockInit
  <2>2. ControlOK(c)
    BY <2>1 DEF ControlOK, Places, Active, Journaling, Writer, CacheMod, NewTx
  <2>3. Stale(c)
    BY <2>1 DEF Stale, Cached, EmptyCache
  <2>4. CacheOK(c)
    BY <2>1, <2>3 DEF CacheOK, Writer, CacheMod
  <2>5. FilesOK(c)
    BY <2>1 DEF FilesOK, CacheMod
  <2> QED  BY <2>2, <2>4, <2>5
<1> QED  BY <1>1, <1>2, <1>3 DEF IsoInv

LEMMA IsoNext ==
    ASSUME IsoInv, Calm, [Next]_vars
    PROVE  IsoInv'
<1>1. CASE Next
  <2>1. PICK c \in Conn : PagerStep(c) \/ Finish(c) \/ Work(c) \/ Crash(c)
    BY <1>1 DEF Next
  <2> QED  BY <2>1, IsoSteps, IsoStepKeepsInv
<1>2. CASE UNCHANGED vars
  <2>1. TypeInv'
    BY <1>2, TypeNext DEF IsoInv
  <2>2. ASSUME NEW c \in Conn
        PROVE  ControlOK(c)' /\ CacheOK(c)' /\ FilesOK(c)'
    <3>1. ControlOK(c) /\ CacheOK(c) /\ FilesOK(c)
      BY DEF IsoInv
    <3>2. ControlOK(c)'
      BY <1>2, <3>1 DEF vars, ControlOK, Active, Journaling
    <3>3. FilesOK(c)'
      BY <1>2, <3>1 DEF vars, FilesOK, RecordsOK
    <3>4. CacheOK(c)'
      BY <1>2, <3>1
         DEF vars, CacheOK, Stale, ReaderOK, WorkingOK, PagesOK, PlayOK,
             EndOK, Cached, Same
    <3> QED  BY <3>2, <3>3, <3>4
  <2>3. jrnl'.hdr # "absent" => \E c \in Conn : Journaling(c)'
    BY <1>2 DEF vars, IsoInv, Journaling
  <2> QED  BY <2>1, <2>2, <2>3 DEF IsoInv
<1> QED  BY <1>1, <1>2

(* While nothing fails, the change counter works: what a reader finds in a *)
(* cache that CheckVersion kept is what the file holds.                    *)
THEOREM CacheIsCurrent ==
    ASSUME Calm
    PROVE  Spec => []CacheCurrent
<1>1. Init => IsoInv
  BY IsoInit
<1>2. IsoInv /\ [Next]_vars => IsoInv'
  BY IsoNext
<1>3. IsoInv => CacheCurrent
  <2> SUFFICES ASSUME IsoInv, NEW c \in Conn, NEW p \in Page,
                      eState[c] = "READER", pc[c] = "idle", Cached(c, p)
               PROVE  Same(c, p)
    BY DEF CacheCurrent, Cached, Same
  <2>1. ReaderOK(c) /\ Stale(c)
    BY IsoOf DEF CacheOK, Writer, CacheMod
  <2> QED  BY <2>1 DEF ReaderOK, Stale
<1> QED  BY <1>1, <1>2, <1>3, PTL DEF Spec

(* While nothing fails, a page is read from the file only by the           *)
(* connection that has the file's lock: invariant (13).                    *)
THEOREM ReadsAreLocked ==
    ASSUME Calm
    PROVE  Spec => ReadUnderLock
<1> DEFINE Locked ==
      \A c \in Conn, p \in Page :
          cache[c][p] = NotCached /\ cache'[c][p] # NotCached
          /\ p <= tx[c].dbSize
          => owner = c
<1>1. Init => IsoInv
  BY IsoInit
<1>2. IsoInv /\ [Next]_vars => IsoInv'
  BY IsoNext
<1>3. IsoInv /\ [Next]_vars => [Locked]_vars
  <2> SUFFICES ASSUME IsoInv, Next PROVE Locked
    OBVIOUS
  <2>1. PICK c \in Conn : PagerStep(c) \/ Finish(c) \/ Work(c) \/ Crash(c)
    BY DEF Next
  <2>2. TypedStep(c) /\ IsoStep(c)
    BY <2>1, IsoSteps
  <2>3. \A d \in Conn \ {c} : cache'[d] = cache[d]
    BY <2>2 DEF TypedStep
  <2>4. cache' # cache => owner = c
    BY <2>2 DEF IsoStep
  <2> QED  BY <2>3, <2>4
<1> QED  BY <1>1, <1>2, <1>3, PTL DEF Spec, ReadUnderLock

-----------------------------------------------------------------------------
(* The refinement of TxnDb, action by action: TxnStep.                     *)

(* Only the owner of the file has a transaction.                           *)
LEMMA TransactionOwns ==
    ASSUME IsoInv, NEW c \in Conn, InTransaction(c)
    PROVE  owner = c
BY IsoOf DEF InTransaction, ControlOK, Active, Places

LEMMA OthersTxn ==
    ASSUME IsoInv, NEW c \in Conn, StepOK(c), TypedStep(c), IsoStep(c),
           NEW d \in Conn \ {c}
    PROVE  Mode(d)' = Mode(d) /\ View(d)' = View(d)
<1>1. /\ eState'[d] = eState[d] /\ pc'[d] = pc[d] /\ tx'[d] = tx[d]
      /\ cache'[d] = cache[d]
  BY DEF StepOK, TypedStep
<1>2. (InTransaction(d)' <=> InTransaction(d)) /\ Mode(d)' = Mode(d)
  BY <1>1 DEF InTransaction, Mode
<1>3. CASE dbf' = dbf
  BY <1>1, <1>2, <1>3 DEF View, PageOnDisk
<1>4. CASE dbf' # dbf
  <2>1. owner = c
    BY <1>4 DEF IsoStep
  <2>2. ~InTransaction(d)
    BY <2>1, TransactionOwns
  <2> QED  BY <1>2, <2>2 DEF View
<1> QED  BY <1>2, <1>3, <1>4

(* A reader sees the committed database.                                   *)
LEMMA ReaderView ==
    ASSUME IsoInv, NEW c \in Conn, eState[c] = "READER", pc[c] = "idle"
    PROVE  /\ View(c) = Committed /\ Mode(c) = "read" /\ jrnl = NoJournal
           /\ \A d \in Conn : Mode(d) # "write"
<1>1. InTransaction(c) /\ Mode(c) = "read"
  BY DEF InTransaction, Mode
<1>2. owner = c /\ ReaderOK(c) /\ Stale(c) /\ ~Journaling(c)
  BY <1>1, TransactionOwns, IsoOf
     DEF CacheOK, Writer, CacheMod, Journaling
<1>3. jrnl = NoJournal
  BY <1>2, OwnJournal
<1>4. \A d \in Conn : Mode(d) # "write"
  BY <1>1, <1>2, TransactionOwns DEF Mode
<1>5. View(c) = Committed
  <2>1. tx[c].dbSize = Len(dbf) /\ Len(dbf) \in Nat /\ Len(dbf) <= MaxPage
    BY <1>2, IsoOf, PagerAssumption DEF ReaderOK, Page
  <2>2. \A p \in 2 .. Len(dbf) :
            /\ p <= Len(dbf)
            /\ cache[c][p] # NotCached => cache[c][p] = dbf[p]
    <3>1. \A p \in 2 .. Len(dbf) : p \in Page /\ p <= Len(dbf)
      BY <2>1, PagerAssumption DEF Page
    <3>2. \A p \in Page : Cached(c, p) => cache[c][p] = dbf[p]
      BY <1>2 DEF ReaderOK, Stale, Same
    <3> QED  BY <3>1, <3>2 DEF Cached
  <2>3. Committed = [p \in 2 .. Len(dbf) |-> dbf[p]]
    BY <1>3 DEF Committed, NoJournal
  <2> QED  BY <1>1, <2>1, <2>2, <2>3 DEF View, PageOnDisk
<1> QED  BY <1>1, <1>3, <1>4, <1>5

(* A read transaction starts on the committed database.                    *)
LEMMA TxnRead ==
    ASSUME IsoInv, Calm, NEW c \in Conn, StepOK(c), TypedStep(c), IsoStep(c),
           \/ SharedLock(c) \/ hasHotJournal(c) \/ HotLock(c) \/ HotOpen(c)
           \/ CheckVersion(c)
    PROVE  TxnStep(c)
<1>0. /\ eState[c] = "OPEN" /\ dbf' = dbf /\ jrnl' = jrnl
  BY IsoOf, InvOf
     DEF SharedLock, hasHotJournal, HotLock, HotOpen, CheckVersion, diskVars,
         Matches
<1>1. ~InTransaction(c) /\ Committed' = Committed
  BY <1>0, CommittedSame DEF InTransaction, Writer, CacheMod
<1>2. CASE \/ SharedLock(c) \/ hasHotJournal(c) \/ HotLock(c) \/ HotOpen(c)
  <2>1. eState'[c] = "OPEN"
    BY <1>0, <1>2 DEF SharedLock, hasHotJournal, HotLock, HotOpen
  <2>2. ~InTransaction(c)'
    BY <2>1 DEF InTransaction, Writer, CacheMod
  <2> QED  BY <1>1, <2>2, NoTxn
<1>3. CASE CheckVersion(c)
  <2>1. eState'[c] = "READER" /\ pc'[c] = "idle" /\ pc[c] = "vers"
    BY <1>3, IsoOf DEF CheckVersion, Goto, PagerInv
  <2>2. InTransaction(c)' /\ Mode(c)' = "read" /\ Mode(c) = "none"
    BY <1>1, <2>1 DEF InTransaction, Mode
  <2>3. owner = c /\ jrnl = NoJournal
    <3>1. owner = c /\ ~Journaling(c)
      BY <1>0, <2>1, IsoOf DEF ControlOK, Active, Journaling, CacheMod
    <3> QED  BY <3>1, OwnJournal
  <2>4. ReaderOK(c)' /\ Stale(c)'
    BY <2>1 DEF IsoStep, CacheOK, Writer, CacheMod
  <2>5. View(c)' = Committed
    <3>1. tx'[c].dbSize = Len(dbf) /\ Len(dbf) \in Nat /\ Len(dbf) <= MaxPage
      BY <1>0, <2>4, IsoOf, PagerAssumption DEF ReaderOK, Page
    <3>2. \A p \in Page : cache'[c][p] # NotCached => cache'[c][p] = dbf[p]
      BY <1>0, <2>4 DEF ReaderOK, Stale, Same, Cached
    <3>3. \A p \in 2 .. Len(dbf) :
              /\ p <= Len(dbf)
              /\ cache'[c][p] # NotCached => cache'[c][p] = dbf[p]
      <4>1. \A p \in 2 .. Len(dbf) : p \in Page /\ p <= Len(dbf)
        BY <3>1, PagerAssumption DEF Page
      <4> QED  BY <3>2, <4>1
    <3>4. Committed = [p \in 2 .. Len(dbf) |-> dbf[p]]
      BY <2>3 DEF Committed, NoJournal
    <3> QED  BY <1>0, <2>2, <3>1, <3>3, <3>4 DEF View, PageOnDisk
  <2> QED  BY <1>1, <2>2, <2>5 DEF TxnStep
<1> QED  BY <1>2, <1>3

(* BEGIN, and the page reads and changes of a transaction.                 *)
LEMMA TxnWork ==
    ASSUME IsoInv, Calm, NEW c \in Conn, StepOK(c), TypedStep(c), IsoStep(c),
           Work(c), ~SharedLock(c)
    PROVE  TxnStep(c)
<1>1. ASSUME NEW p \in Page, readDbPage(c, p) PROVE TxnStep(c)
  <2>1. /\ pc[c] = "idle" /\ UNCHANGED <<dbf, jrnl, eState, pc, tx>>
        /\ eState[c] \in {"READER", "WRITER_LOCKED", "WRITER_CACHEMOD"}
        /\ cache[c][p] = NotCached
        /\ cache' = [cache EXCEPT ![c][p] = PageOnDisk(p)]
    BY <1>1, NoFaults DEF readDbPage, diskVars
  <2>2. \A q \in Page : cache'[c][q] = IF q = p THEN PageOnDisk(p)
                                       ELSE cache[c][q]
    BY <2>1, Untouched, IsoOf DEF Pages
  <2>3. Committed' = Committed
    BY <2>1, CommittedSame
  <2>4. Mode(c)' = Mode(c) /\ (InTransaction(c)' <=> InTransaction(c))
    BY <2>1 DEF Mode, InTransaction
  <2>5. \A q \in 2 .. tx[c].dbSize : q \in Page
    BY IsoOf, PagerAssumption DEF TxType, Page
  <2>6. \A q : PageOnDisk(q)' = PageOnDisk(q)
    BY <2>1 DEF PageOnDisk
  <2>7. View(c)' = View(c)
    <3>1. tx'[c].dbSize = tx[c].dbSize
      BY <2>1
    <3>2. \A q \in 2 .. tx[c].dbSize :
              (IF cache'[c][q] # NotCached THEN cache'[c][q]
               ELSE PageOnDisk(q)')
              = (IF cache[c][q] # NotCached THEN cache[c][q]
                 ELSE PageOnDisk(q))
      BY <2>1, <2>2, <2>5, <2>6
    <3> QED  BY <2>4, <3>1, <3>2 DEF View
  <2> QED  BY <2>3, <2>4, <2>7 DEF TxnStep
<1>2. CASE BeginWrite(c)
  <2>1. /\ pc[c] = "idle" /\ eState[c] = "READER"
        /\ UNCHANGED <<dbf, jrnl, pc, cache>>
        /\ tx' = [tx EXCEPT ![c].dbOrigSize = tx[c].dbSize]
        /\ eState'[c] = "WRITER_LOCKED"
    BY <1>2, IsoOf DEF BeginWrite, diskVars, PagerInv
  <2>2. tx'[c].dbSize = tx[c].dbSize
    BY <2>1, IsoOf DEF TypeInv, TxType
  <2>3. /\ View(c) = Committed /\ Mode(c) = "read"
        /\ \A d \in Conn : Mode(d) # "write"
    BY <2>1, ReaderView
  <2>4. InTransaction(c) /\ InTransaction(c)' /\ Mode(c)' = "write"
    BY <2>1 DEF InTransaction, Mode, Writer
  <2>5. View(c)' = View(c)
    BY <2>1, <2>2, <2>4 DEF View, PageOnDisk
  <2>6. Committed' = Committed
    BY <2>1, CommittedSame
  <2> QED  BY <2>3, <2>4, <2>5, <2>6 DEF TxnStep
<1>3. CASE BeginBusy(c)
  <2>1. pc[c] = "idle" /\ eState[c] = "READER"
    BY <1>3 DEF BeginBusy
  <2>2. owner = c
    BY <2>1, TransactionOwns DEF InTransaction
  <2> QED
    BY <1>3, <2>2 DEF BeginBusy, pagerLockDbBusy, verixLockBusy, OsLockable
<1>4. CASE pager_open_journal(c)
  <2>1. /\ pc[c] = "idle" /\ eState[c] = "WRITER_LOCKED"
        /\ UNCHANGED <<dbf, eState, cache>>
        /\ tx' = [tx EXCEPT ![c].jfd = TRUE]
        /\ pc'[c] = "jhdr" /\ eState'[c] = "WRITER_LOCKED"
        /\ jrnl' = IF jrnl.hdr = "absent"
                   THEN [NoJournal EXCEPT !.hdr = "empty"] ELSE jrnl
    BY <1>4, NoFaults, IsoOf DEF pager_open_journal, Goto, PagerInv
  <2>2. tx'[c].dbSize = tx[c].dbSize
    BY <2>1, IsoOf DEF TypeInv, TxType
  <2>3. InTransaction(c) /\ InTransaction(c)'
    BY <2>1 DEF InTransaction, Writer
  <2>4. Committed' = Committed
    BY <2>1, CommittedSame DEF NoJournal
  <2>5. \A q : PageOnDisk(q)' = PageOnDisk(q)
    BY <2>1 DEF PageOnDisk
  <2> QED  BY <2>1, <2>2, <2>3, <2>4, <2>5, StillWriting DEF Writer
<1>5. ASSUME NEW p \in Page, WritePage(c, p) PROVE TxnStep(c)
  <2> DEFINE t0 == tx[c]
             size == IF p > t0.dbSize THEN p ELSE t0.dbSize
             x == Changed(cache[c][p])
  <2>1. /\ pc[c] \in {"idle", "jpage"} /\ eState[c] = "WRITER_CACHEMOD"
        /\ Writable(c, p) /\ UNCHANGED <<dbf, eState>>
        /\ tx' = [tx EXCEPT
                    ![c].inJournal = IF NeedsRecord(c, p)
                                     THEN @ \cup {p} ELSE @,
                    ![c].dirty = @ \cup {p},
                    ![c].dbSize = IF p > @ THEN p ELSE @]
        /\ cache' = [cache EXCEPT ![c][p] = x]
        /\ pc'[c] = "idle"
        /\ jrnl' = IF NeedsRecord(c, p) THEN AddRecord(c, p) ELSE jrnl
    BY <1>5, NoFaults, IsoOf DEF WritePage, pager_write, Goto, PagerInv
  <2>2. tx'[c].dbSize = size
    <3> DEFINE own == IF NeedsRecord(c, p) THEN t0.inJournal \cup {p}
                      ELSE t0.inJournal
               dirty == t0.dirty \cup {p}
    <3>1. tx' = [tx EXCEPT ![c].inJournal = own, ![c].dirty = dirty,
                           ![c].dbSize = size]
      BY <2>1
    <3> HIDE DEF own, dirty, size
    <3> QED  BY <3>1, IsoOf DEF TypeInv, TxType
  <2>3. \A q \in Page : cache'[c][q] = IF q = p THEN x ELSE cache[c][q]
    <3> HIDE DEF x
    <3> QED  BY <2>1, Untouched, IsoOf DEF Pages
  <2>4. Committed' = Committed
    <3>1. RecordsOK(c)
      BY <2>1, IsoOf DEF FilesOK, CacheMod
    <3>2. jrnl.hdr # "valid"
      BY <2>1, <3>1 DEF RecordsOK, DbMod
    <3>3. jrnl'.hdr = jrnl.hdr
      <4>1. jrnl \in JournalType
        BY IsoOf DEF DiskOK
      <4> QED  BY <2>1, <4>1 DEF AddRecord, JournalType
    <3> QED  BY <2>1, <3>2, <3>3, CommittedSame
  <2>5. /\ InTransaction(c) /\ InTransaction(c)'
        /\ Mode(c) = "write" /\ Mode(c)' = "write"
    BY <2>1 DEF InTransaction, Mode, Writer, CacheMod
  <2>6. p \in Nat /\ p > 1 /\ t0.dbSize \in Nat /\ t0.dbSize <= MaxPage
    BY <2>1, IsoOf, PagerAssumption DEF Writable, Page, TxType
  <2>7. p <= t0.dbSize + 1
    <3>1. cache[c][p] # NotCached \/ p = t0.dbSize + 1
      BY <2>1 DEF Writable
    <3>2. WorkingOK(c)
      BY <2>1, IsoOf DEF CacheOK
    <3>3. Cached(c, p) => p \in t0.dirty \/ p <= Len(dbf)
      BY <3>2 DEF WorkingOK, Same
    <3>4. /\ \A q \in t0.dirty : q <= t0.dbSize
          /\ t0.dbOrigSize = Len(dbf) /\ t0.dbOrigSize <= t0.dbSize
      BY <3>2 DEF WorkingOK
    <3>5. Len(dbf) \in Nat
      BY IsoOf DEF Page
    <3> QED  BY <2>6, <3>1, <3>3, <3>4, <3>5 DEF Cached
  <2>8. /\ p \in 2 .. size
        /\ 2 .. size \in {2 .. t0.dbSize, (2 .. t0.dbSize) \cup {p}}
    <3>1. CASE p <= t0.dbSize
      BY <2>6, <3>1
    <3>2. CASE p > t0.dbSize
      <4>1. p = t0.dbSize + 1 /\ size = p
        BY <2>6, <2>7, <3>2
      <4> QED  BY <2>6, <4>1
    <3> QED  BY <2>6, <3>1, <3>2
  <2>9. DOMAIN View(c) = 2 .. t0.dbSize /\ DOMAIN View(c)' = 2 .. size
    BY <2>2, <2>5 DEF View
  <2>10. ASSUME NEW q \in 2 .. t0.dbSize, q # p
         PROVE  View(c)'[q] = View(c)[q]
    <3>1. q \in Page /\ q \in 2 .. size
      BY <2>6, PagerAssumption DEF Page
    <3>2. cache'[c][q] = cache[c][q] /\ PageOnDisk(q)' = PageOnDisk(q)
      BY <2>1, <2>3, <2>10, <3>1 DEF PageOnDisk
    <3> HIDE DEF size
    <3> QED  BY <2>2, <2>5, <3>1, <3>2 DEF View
  <2> HIDE DEF size, t0
  <2> QED  BY <2>4, <2>5, <2>8, <2>9, <2>10 DEF TxnStep
<1> QED  BY <1>1, <1>2, <1>3, <1>4, <1>5 DEF Work

(* The change counter, the journal's header and the sync of a commit leave *)
(* the transaction's view and the committed database as they are.          *)
LEMMA TxnCommit ==
    ASSUME IsoInv, Calm, NEW c \in Conn, StepOK(c), TypedStep(c), IsoStep(c),
           \/ writeJournalHdr(c) \/ pager_incr_changecounter(c)
           \/ syncJournal(c) \/ CommitPhaseOneDone(c)
    PROVE  TxnStep(c)
<1>1. CASE writeJournalHdr(c)
  <2>1. /\ pc[c] = "jhdr" /\ UNCHANGED <<dbf, cache, tx>>
        /\ pc'[c] = "jpage" /\ eState'[c] = "WRITER_CACHEMOD"
        /\ jrnl'.hdr = "zeroed"
    BY <1>1, NoFaults, IsoOf DEF writeJournalHdr, Goto, PagerInv
  <2>2. eState[c] = "WRITER_LOCKED" /\ jrnl.hdr = "empty"
    BY <2>1, IsoOf, InvOf DEF Matches, FilesOK
  <2>3. InTransaction(c) /\ InTransaction(c)'
    BY <2>1, <2>2 DEF InTransaction, Writer, CacheMod
  <2>4. Committed' = Committed
    BY <2>1, <2>2, CommittedSame
  <2>5. \A q : PageOnDisk(q)' = PageOnDisk(q)
    BY <2>1 DEF PageOnDisk
  <2> QED  BY <2>1, <2>2, <2>3, <2>4, <2>5, StillWriting DEF Writer, CacheMod
<1>2. CASE pager_incr_changecounter(c)
  <2> DEFINE t0 == tx[c]
             size == IF 1 > t0.dbSize THEN 1 ELSE t0.dbSize
             x == vers[c] + 1
  <2>1. /\ pc[c] = "idle" /\ eState[c] = "WRITER_CACHEMOD"
        /\ UNCHANGED <<dbf, eState>>
        /\ tx' = [tx EXCEPT
                    ![c].inJournal = IF NeedsRecord(c, 1)
                                     THEN @ \cup {1} ELSE @,
                    ![c].dirty = @ \cup {1},
                    ![c].dbSize = IF 1 > @ THEN 1 ELSE @]
        /\ cache' = [cache EXCEPT ![c][1] = x]
        /\ pc'[c] = "sync"
        /\ jrnl' = IF NeedsRecord(c, 1) THEN AddRecord(c, 1) ELSE jrnl
    BY <1>2, NoFaults, IsoOf
       DEF pager_incr_changecounter, pager_write, Goto, PagerInv
  <2>2. tx'[c].dbSize = t0.dbSize /\ t0.dbSize \in Nat /\ t0.dbSize <= MaxPage
    <3> DEFINE own == IF NeedsRecord(c, 1) THEN t0.inJournal \cup {1}
                      ELSE t0.inJournal
               dirty == t0.dirty \cup {1}
    <3>1. tx' = [tx EXCEPT ![c].inJournal = own, ![c].dirty = dirty,
                           ![c].dbSize = size]
      BY <2>1
    <3>2. /\ size = t0.dbSize /\ t0.dbSize \in Nat /\ t0.dbSize <= MaxPage
      BY <2>1, IsoOf, TypesOf, PagerAssumption DEF TxOK, Writer, CacheMod,
                                                   TxType
    <3> HIDE DEF own, dirty, size
    <3>3. tx'[c].dbSize = size
      BY <3>1, IsoOf DEF TypeInv, TxType
    <3> QED  BY <3>2, <3>3
  <2>3. \A q \in 2 .. t0.dbSize : cache'[c][q] = cache[c][q]
    <3>1. \A q \in Page : cache'[c][q] = IF q = 1 THEN x ELSE cache[c][q]
      <4> HIDE DEF x
      <4> QED  BY <2>1, Untouched, IsoOf, ZeroIsContent DEF Pages
    <3>2. \A q \in 2 .. t0.dbSize : q \in Page /\ q # 1
      BY <2>2, PagerAssumption DEF Page
    <3> QED  BY <3>1, <3>2
  <2>4. Committed' = Committed
    <3>1. RecordsOK(c)
      BY <2>1, IsoOf DEF FilesOK, CacheMod
    <3>2. jrnl.hdr # "valid"
      BY <2>1, <3>1 DEF RecordsOK, DbMod
    <3>3. jrnl'.hdr = jrnl.hdr
      <4>1. jrnl \in JournalType
        BY IsoOf DEF DiskOK
      <4> QED  BY <2>1, <4>1 DEF AddRecord, JournalType
    <3> QED  BY <2>1, <3>2, <3>3, CommittedSame
  <2>5. InTransaction(c) /\ InTransaction(c)'
    BY <2>1 DEF InTransaction, Writer, CacheMod
  <2>6. \A q : PageOnDisk(q)' = PageOnDisk(q)
    BY <2>1 DEF PageOnDisk
  <2> HIDE DEF x, size
  <2> QED
    BY <2>1, <2>2, <2>3, <2>4, <2>5, <2>6, StillWriting DEF Writer, CacheMod
<1>3. CASE syncJournal(c)
  <2>1. /\ pc[c] = "sync" /\ UNCHANGED <<dbf, cache>>
        /\ jrnl' = [jrnl EXCEPT !.hdr = "valid",
                                !.nRec = Cardinality(tx[c].inJournal)]
        /\ eState'[c] = "WRITER_DBMOD" /\ pc'[c] = "pages"
        /\ tx' = [tx EXCEPT ![c].todo = tx[c].dirty]
    BY <1>3, NoFaults, IsoOf DEF syncJournal, Goto, PagerInv
  <2>2. eState[c] = "WRITER_CACHEMOD"
    BY <2>1, IsoOf, InvOf DEF Matches
  <2>3. tx'[c].dbSize = tx[c].dbSize
    BY <2>1, IsoOf DEF TypeInv, TxType
  <2>4. WorkingOK(c) /\ RecordsOK(c)
    BY <2>1, <2>2, IsoOf DEF CacheOK, FilesOK, CacheMod
  <2>5. /\ jrnl.hdr = "zeroed" /\ jrnl.mxPg = Len(dbf)
        /\ \A i \in 1 .. Len(jrnl.recs) :
               jrnl.recs[i].data = dbf[jrnl.recs[i].pg]
    BY <2>2, <2>4 DEF RecordsOK, WorkingOK, DbMod
  <2>6. /\ jrnl'.hdr = "valid" /\ jrnl'.mxPg = Len(dbf)
        /\ jrnl'.recs = jrnl.recs /\ jrnl'.nRec = Len(jrnl.recs)
    BY <2>1, <2>4, <2>5, IsoOf DEF DiskOK, JournalType, RecordsOK
  <2>7. ASSUME NEW p \in 2 .. Len(dbf) PROVE Original(p)' = dbf[p]
    <3> DEFINE S == {i \in 1 .. Len(jrnl.recs) : jrnl.recs[i].pg = p}
    <3>1. Original(p)' = IF S = {} THEN PageOnDisk(p)'
                         ELSE jrnl.recs[CHOOSE i \in S : TRUE].data
      BY <2>6 DEF Original
    <3>2. CASE S = {}
      <4>1. p <= Len(dbf)
        BY IsoOf DEF Page
      <4> QED  BY <2>1, <3>1, <3>2, <4>1 DEF PageOnDisk
    <3>3. CASE S # {}
      <4>1. (CHOOSE i \in S : TRUE) \in S
        BY <3>3
      <4> QED  BY <2>5, <3>1, <3>3, <4>1
    <3> QED  BY <3>2, <3>3
  <2>8. Committed' = Committed
    <3>1. Committed = [p \in 2 .. Len(dbf) |-> dbf[p]]
      BY <2>5 DEF Committed
    <3>2. Committed' = [p \in 2 .. Len(dbf) |-> Original(p)']
      BY <2>6 DEF Committed
    <3> QED  BY <2>7, <3>1, <3>2
  <2>9. InTransaction(c) /\ InTransaction(c)'
    BY <2>1, <2>2 DEF InTransaction, Writer, CacheMod
  <2>10. \A q : PageOnDisk(q)' = PageOnDisk(q)
    BY <2>1 DEF PageOnDisk
  <2> QED
    BY <2>1, <2>2, <2>3, <2>8, <2>9, <2>10, StillWriting DEF Writer, CacheMod
<1>4. CASE CommitPhaseOneDone(c)
  <2>1. /\ pc[c] = "pages" /\ UNCHANGED <<dbf, jrnl, cache>>
        /\ tx' = [tx EXCEPT ![c].dirty = {}]
        /\ eState'[c] = "WRITER_FINISHED" /\ pc'[c] = "end"
    BY <1>4, IsoOf DEF CommitPhaseOneDone, diskVars, Goto, PagerInv
  <2>2. eState[c] = "WRITER_DBMOD"
    BY <2>1, IsoOf, InvOf DEF Matches
  <2>3. tx'[c].dbSize = tx[c].dbSize
    BY <2>1, IsoOf DEF TypeInv, TxType
  <2>4. InTransaction(c) /\ InTransaction(c)'
    BY <2>1, <2>2 DEF InTransaction, Writer, CacheMod
  <2>5. Committed' = Committed
    BY <2>1, CommittedSame
  <2>6. \A q : PageOnDisk(q)' = PageOnDisk(q)
    BY <2>1 DEF PageOnDisk
  <2> QED
    BY <2>1, <2>2, <2>3, <2>4, <2>5, <2>6, StillWriting DEF Writer, CacheMod
<1> QED  BY <1>1, <1>2, <1>3, <1>4

(* A page write of a commit: an old page that it overwrites has a record,  *)
(* and every page that it writes is one the transaction sees in its cache. *)
LEMMA TxnPagelist ==
    ASSUME IsoInv, Calm, NEW c \in Conn, StepOK(c), TypedStep(c), IsoStep(c),
           pager_write_pagelist(c)
    PROVE  TxnStep(c)
<1> DEFINE p == NextPage(c)
<1>1. /\ pc[c] = "pages" /\ eState[c] = "WRITER_DBMOD"
      /\ UNCHANGED <<jrnl, eState, cache, pc>>
      /\ tx' = [tx EXCEPT ![c].todo = tx[c].todo \ {p}]
      /\ p \in tx[c].todo /\ p \in Page /\ Cached(c, p)
      /\ Len(dbf') = IF p <= Len(dbf) THEN Len(dbf) ELSE p
      /\ p > Len(dbf) => p = Len(dbf) + 1
      /\ \A q \in 1 .. Len(dbf') :
             dbf'[q] = IF q = p THEN cache[c][p] ELSE dbf[q]
      /\ Len(dbf) \in Nat /\ Len(dbf') \in Nat
  BY PagelistEffect
<1> HIDE DEF p
<1>2. PagesOK(c) /\ RecordsOK(c)
  BY <1>1, IsoOf DEF CacheOK, FilesOK, CacheMod
<1>3. tx'[c].dbSize = tx[c].dbSize
  BY <1>1, IsoOf DEF TypeInv, TxType
<1>4. ASSUME NEW q \in Nat, q >= 1, q # p PROVE PageOnDisk(q)' = PageOnDisk(q)
  <2>1. p \in Nat
    BY <1>1 DEF Page
  <2>2. CASE q <= Len(dbf')
    <3>1. q \in 1 .. Len(dbf') /\ q <= Len(dbf)
      BY <1>1, <1>4, <2>1, <2>2
    <3>2. dbf'[q] = dbf[q]
      BY <1>1, <1>4, <3>1
    <3> QED  BY <2>2, <3>1, <3>2 DEF PageOnDisk
  <2>3. CASE ~(q <= Len(dbf'))
    <3>1. ~(q <= Len(dbf))
      BY <1>1, <2>1, <2>3
    <3> QED  BY <2>3, <3>1 DEF PageOnDisk
  <2> QED  BY <2>2, <2>3
<1>5. /\ jrnl.hdr = "valid" /\ jrnl.mxPg = tx[c].dbOrigSize
      /\ jrnl.nRec = Len(jrnl.recs) /\ tx[c].dbOrigSize \in Nat
  BY <1>1, <1>2, WriterOf DEF RecordsOK, DbMod, Writer, CacheMod
<1>6. ASSUME NEW q \in 2 .. jrnl.mxPg PROVE Original(q)' = Original(q)
  <2> DEFINE S == {i \in 1 .. jrnl.nRec : jrnl.recs[i].pg = q}
  <2>0. q \in Nat /\ q >= 1 /\ q <= tx[c].dbOrigSize
    BY <1>5
  <2>1. /\ Original(q) = IF S = {} THEN PageOnDisk(q)
                         ELSE jrnl.recs[CHOOSE i \in S : TRUE].data
        /\ Original(q)' = IF S = {} THEN PageOnDisk(q)'
                          ELSE jrnl.recs[CHOOSE i \in S : TRUE].data
    BY <1>1 DEF Original
  <2>2. CASE S = {}
    <3>1. q \notin tx[c].inJournal
      BY <1>2, <1>5, <2>2 DEF RecordsOK
    <3>2. q # p
      BY <1>1, <1>2, <2>0, <3>1 DEF PagesOK
    <3>3. PageOnDisk(q)' = PageOnDisk(q)
      BY <1>4, <2>0, <3>2
    <3> QED  BY <2>1, <2>2, <3>3
  <2>3. CASE S # {}
    BY <2>1, <2>3
  <2> QED  BY <2>2, <2>3
<1>7. Committed' = Committed
  <2>1. /\ Committed = [q \in 2 .. jrnl.mxPg |-> Original(q)]
        /\ Committed' = [q \in 2 .. jrnl.mxPg |-> Original(q)']
    BY <1>1, <1>5 DEF Committed
  <2> QED  BY <1>6, <2>1
<1>8. InTransaction(c) /\ InTransaction(c)'
  BY <1>1 DEF InTransaction, Writer, CacheMod
<1>9. ASSUME NEW q \in 2 .. tx[c].dbSize
      PROVE  (IF cache'[c][q] # NotCached THEN cache'[c][q]
              ELSE PageOnDisk(q)')
             = (IF cache[c][q] # NotCached THEN cache[c][q] ELSE PageOnDisk(q))
  <2>1. q \in Nat /\ q >= 1
    BY <1>1, WriterOf DEF Writer, CacheMod
  <2>2. CASE q = p
    BY <1>1, <2>2 DEF Cached
  <2>3. CASE q # p
    BY <1>1, <1>4, <2>1, <2>3
  <2> QED  BY <2>2, <2>3
<1> QED  BY <1>1, <1>3, <1>7, <1>8, <1>9, StillWriting DEF Writer, CacheMod

(* Rollback, playback and the end of a transaction.                        *)
LEMMA TxnEnd ==
    ASSUME IsoInv, Calm, NEW c \in Conn, StepOK(c), TypedStep(c), IsoStep(c),
           \/ CommitNoChange(c) \/ Rollback(c) \/ pager_playback(c)
           \/ pager_playback_one_page(c) \/ PlaybackDone(c)
           \/ EndTransaction(c) \/ KeepReading(c) \/ pager_unlock(c)
           \/ Crash(c)
    PROVE  TxnStep(c)
<1>1. Committed' = Committed
  <2>1. jrnl' = jrnl
    BY DEF CommitNoChange, Rollback, pager_playback, pager_playback_one_page,
           PlaybackDone, EndTransaction, KeepReading, pager_unlock, Crash,
           diskVars
  <2>2. dbf' = dbf
    <3>1. CASE pager_playback(c) \/ pager_playback_one_page(c)
      <4>1. pc[c] \in {"playback", "play"}
        BY <3>1 DEF pager_playback, pager_playback_one_page
      <4>2. eState[c] = "WRITER_CACHEMOD"
        BY <4>1, IsoOf DEF ControlOK, Places, EState, Writer, CacheMod
      <4>3. ~PlaysToFile(c)
        BY <4>2 DEF PlaysToFile, isHot, DbMod
      <4> QED
        BY <3>1, <4>3, NoFaults DEF pager_playback, pager_playback_one_page
    <3>2. CASE ~(pager_playback(c) \/ pager_playback_one_page(c))
      BY <3>2 DEF CommitNoChange, Rollback, PlaybackDone, EndTransaction,
                  KeepReading, pager_unlock, Crash, diskVars
    <3> QED  BY <3>1, <3>2
  <2> QED  BY <2>1, <2>2, CommittedSame
<1>2. ~InTransaction(c)'
  <2>1. CASE CommitNoChange(c) \/ Rollback(c)
    <3>1. /\ \/ pc'[c] = "playback"
             \/ pc'[c] = "end" /\ eState'[c] = "WRITER_LOCKED"
      BY <2>1, IsoOf DEF CommitNoChange, Rollback, Goto, PagerInv
    <3> QED  BY <3>1 DEF InTransaction
  <2>2. CASE \/ pager_playback(c) \/ pager_playback_one_page(c)
             \/ PlaybackDone(c)
    <3>1. pc[c] \in {"playback", "play"}
      BY <2>2 DEF pager_playback, pager_playback_one_page, PlaybackDone
    <3>2. eState[c] = "WRITER_CACHEMOD"
      BY <3>1, IsoOf DEF ControlOK, Places, EState, Writer, CacheMod
    <3>3. eState' = eState
      BY <2>2, <3>2, NoFaults
         DEF pager_playback, pager_playback_one_page, PlaybackDone
    <3>4. pc'[c] \in {"play", "end"}
      BY <2>2, NoFaults, IsoOf
         DEF pager_playback, pager_playback_one_page, PlaybackDone, Goto,
             PagerInv
    <3> QED  BY <3>2, <3>3, <3>4 DEF InTransaction
  <2>3. CASE EndTransaction(c)
    <3>1. tx[c].rc = "OK" /\ pc[c] = "unlock" /\ eState[c] # "OPEN"
      BY <2>3, IsoOf DEF EndTransaction, ControlOK, Places
    <3>2. pc'[c] = "done"
      BY <2>3, <3>1, NoFaults, IsoOf DEF EndTransaction, Goto, isHot, PagerInv
    <3> QED  BY <3>2 DEF InTransaction
  <2>4. CASE KeepReading(c)
    BY <2>4 DEF KeepReading, Calm
  <2>5. CASE pager_unlock(c) \/ Crash(c)
    <3>1. eState'[c] = "OPEN"
      BY <2>5, IsoOf DEF pager_unlock, Crash, PagerInv
    <3> QED  BY <3>1 DEF InTransaction, Writer, CacheMod
  <2> QED  BY <2>1, <2>2, <2>3, <2>4, <2>5
<1>3. CASE InTransaction(c)
  BY <1>1, <1>2, <1>3, ModeView DEF TxnStep
<1>4. CASE ~InTransaction(c)
  BY <1>1, <1>2, <1>4, NoTxn
<1> QED  BY <1>3, <1>4

(* The deletion of the journal commits what the transaction sees.          *)
LEMMA TxnFinalize ==
    ASSUME IsoInv, Calm, NEW c \in Conn, StepOK(c), TypedStep(c),
           FinalizeJournal(c)
    PROVE  TxnStep(c)
<1>1. /\ pc[c] = "end" /\ dbf' = dbf /\ pc'[c] = "unlock"
  BY IsoOf DEF FinalizeJournal, Goto, PagerInv
<1>2. ~InTransaction(c)' /\ jrnl' = NoJournal
  BY <1>1, IsoFinalize DEF InTransaction
<1>3. Committed' = [p \in 2 .. Len(dbf) |-> dbf[p]]
  BY <1>1, <1>2 DEF Committed, NoJournal
<1>4. CASE eState[c] = "WRITER_FINISHED"
  <2>1. EndOK(c)
    BY <1>1, IsoOf DEF CacheOK
  <2>2. InTransaction(c) /\ Mode(c) = "write"
    BY <1>1, <1>4 DEF InTransaction, Mode, Writer, CacheMod
  <2>3. /\ tx[c].dbSize = Len(dbf) /\ Len(dbf) \in Nat /\ Len(dbf) <= MaxPage
        /\ \A p \in Page : Cached(c, p) /\ p <= Len(dbf) =>
               cache[c][p] = dbf[p]
    BY <2>1, IsoOf, PagerAssumption DEF EndOK, Page
  <2>4. \A p \in 2 .. Len(dbf) :
            /\ p <= Len(dbf)
            /\ cache[c][p] # NotCached => cache[c][p] = dbf[p]
    <3>1. \A p \in 2 .. Len(dbf) : p \in Page /\ p <= Len(dbf)
      BY <2>3, PagerAssumption DEF Page
    <3> QED  BY <2>3, <3>1 DEF Cached
  <2>5. View(c) = [p \in 2 .. Len(dbf) |-> dbf[p]]
    BY <2>2, <2>3, <2>4 DEF View, PageOnDisk
  <2> QED  BY <1>2, <1>3, <2>2, <2>5, ModeView DEF TxnStep
<1>5. CASE eState[c] # "WRITER_FINISHED"
  <2>1. ~InTransaction(c)
    BY <1>1, <1>5 DEF InTransaction
  <2>2. eState[c] \in {"WRITER_LOCKED", "WRITER_CACHEMOD"}
    BY <1>1, <1>5, IsoOf DEF ControlOK, Places, EState, Writer, CacheMod
  <2>3. jrnl.hdr # "valid"
    <3>1. CASE eState[c] = "WRITER_CACHEMOD"
      BY <1>1, <3>1, IsoOf DEF FilesOK, RecordsOK, CacheMod, DbMod
    <3>2. CASE eState[c] = "WRITER_LOCKED"
      <4>1. ~Journaling(c) /\ owner = c
        BY <1>1, <3>2, WriterOf DEF Journaling, Writer, CacheMod
      <4> QED  BY <4>1, OwnJournal DEF NoJournal
    <3> QED  BY <2>2, <3>1, <3>2
  <2>4. Committed' = Committed
    BY <1>1, <1>2, <2>3, CommittedSame DEF NoJournal
  <2> QED  BY <1>2, <2>1, <2>4, NoTxn
<1> QED  BY <1>4, <1>5

LEMMA TxnNextStep ==
    ASSUME IsoInv, Calm, [Next]_vars
    PROVE  [Txn!TxnNext]_(Txn!txnVars)
<1>1. CASE Next
  <2>1. PICK c \in Conn : PagerStep(c) \/ Finish(c) \/ Work(c) \/ Crash(c)
    BY <1>1 DEF Next
  <2>2. StepOK(c) /\ TypedStep(c) /\ IsoStep(c)
    BY <2>1, IsoSteps
  <2>3. TxnStep(c)
    <3>1. CASE SharedLock(c)
      BY <2>2, <3>1, TxnRead
    <3>2. CASE PagerStep(c)
      BY <2>2, <3>2, TxnRead, TxnCommit, TxnPagelist, TxnEnd, TxnFinalize
         DEF PagerStep
    <3>3. CASE Finish(c)
      BY <2>2, <3>3, TxnCommit, TxnEnd DEF Finish
    <3>4. CASE Work(c) /\ ~SharedLock(c)
      BY <2>2, <3>4, TxnWork
    <3>5. CASE Crash(c)
      BY <2>2, <3>5, TxnEnd
    <3> QED  BY <2>1, <3>1, <3>2, <3>3, <3>4, <3>5
  <2> QED  BY <2>2, <2>3, OthersTxn, TxnStepRefines
<1>2. CASE UNCHANGED vars
  <2>1. UNCHANGED <<dbf, jrnl, eState, pc, cache, tx>>
    BY <1>2 DEF vars
  <2>2. Committed' = Committed
    BY <2>1, CommittedSame
  <2>3. \A c \in Conn : Mode(c)' = Mode(c) /\ View(c)' = View(c)
    BY <2>1 DEF Mode, View, InTransaction, PageOnDisk
  <2> QED  BY <2>2, <2>3 DEF Txn!txnVars
<1> QED  BY <1>1, <1>2

(* While nothing fails, the pagers of any number of connections implement  *)
(* TxnDb: transactions are atomic and isolated, whatever the order of      *)
(* their calls into a VFS whose only lock is one for the whole file.       *)
THEOREM Isolation ==
    ASSUME Calm
    PROVE  Spec => Serializable
<1>1. Init => IsoInv
  BY IsoInit
<1>2. IsoInv /\ [Next]_vars => IsoInv'
  BY IsoNext
<1>3. Init => Txn!TxnInit
  <2> SUFFICES ASSUME Init PROVE Txn!TxnInit
    OBVIOUS
  <2>1. \A c \in Conn : Mode(c) = "none"
    BY DEF Init, Mode, InTransaction, Writer, CacheMod
  <2>2. \A c \in Conn : View(c) = [p \in {} |-> 0]
    BY <2>1, ModeView
  <2> QED  BY <2>1, <2>2 DEF Txn!TxnInit, Txn!NoView
<1>4. IsoInv /\ [Next]_vars => [Txn!TxnNext]_(Txn!txnVars)
  BY TxnNextStep
<1> QED
  BY <1>1, <1>2, <1>3, <1>4, PTL DEF Spec, Serializable, Txn!TxnSpec
=============================================================================

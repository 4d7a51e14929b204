------------------------- MODULE PagerTypes_proofs -------------------------
(***************************************************************************)
(* Every value of the pager stays within its range, for any number of      *)
(* connections and pages and under every fault: TypeOK.  Most of it is not *)
(* obvious from the assignments: that a page which is written or           *)
(* journalled is in the cache, that a rollback finds the records it reads, *)
(* that it never truncates the database to nothing.  Those facts are       *)
(* ConnOK (one connection) and DiskOK (the files).                         *)
(***************************************************************************)
EXTENDS Pager_proofs, FiniteSetTheorems, SequenceTheorems,
        WellFoundedInduction

TxType ==
    [dbSize : 0 .. MaxPage, dbOrigSize : 0 .. MaxPage,
     dirty : SUBSET Page, todo : SUBSET Page, inJournal : SUBSET Page,
     jfd : BOOLEAN, pos : Nat, n : Nat, rc : {"OK", "IOERR"}]

JournalType ==
    [hdr : HdrState, nRec : Nat, cksumInit : Nonce \cup {NoMatch},
     mxPg : 0 .. MaxPage, recs : Seq(JournalRecord)]

\* The files.  A journal that has a header restores at least one page.
DiskOK ==
    /\ dbf \in Seq(Content) /\ Len(dbf) \in Page
    /\ jrnl \in JournalType
    /\ jrnl.nRec <= Len(jrnl.recs)
    /\ jrnl.hdr = "absent" => jrnl = NoJournal
    /\ jrnl.hdr \in {"zeroed", "valid"} => jrnl.mxPg >= 1
    /\ faults \in 0 .. MaxFaults

\* Where a write transaction has not failed yet.
Working == {"idle", "jhdr", "jpage", "sync"}

\* One connection: its state, position, transaction, cache and version.
TxOK(state, call, t, pages, version) ==
    /\ state \in {"READER"} \cup Writer => t.dbSize >= 1
    /\ t.inJournal \subseteq 1 .. t.dbOrigSize
    /\ state \in {"OPEN", "READER", "WRITER_LOCKED"} \/ call = "unlock" =>
           t.inJournal = {} /\ t.dirty = {}
    /\ state \in Writer /\ call \in Working =>
           /\ pages[1] # NotCached /\ version < MaxCommits
           /\ 1 <= t.dbOrigSize /\ t.dbOrigSize <= t.dbSize
           /\ \A p \in t.dirty : pages[p] # NotCached
    /\ call = "pages" => \A p \in t.todo : pages[p] # NotCached
    /\ call \in {"playback", "play"} => state # "WRITER_LOCKED"

\* A connection and the journal it writes or plays back.
JournalOK(state, call, t, j) ==
    /\ state \in CacheMod /\ call # "unlock" =>
           j.hdr \in {"zeroed", "valid"}
           /\ Cardinality(t.inJournal) <= Len(j.recs)
    /\ call = "play" => t.pos >= 1 /\ t.n <= Len(j.recs)

ConnOK(c) ==
    /\ TxOK(eState[c], pc[c], tx[c], cache[c], vers[c])
    /\ JournalOK(eState[c], pc[c], tx[c], jrnl)

TypeInv ==
    /\ PagerInv
    /\ DiskOK
    /\ tx \in [Conn -> TxType]
    /\ cache \in [Conn -> [Page -> Content \cup {NotCached}]]
    /\ vers \in [Conn -> Content]
    /\ \A c \in Conn : ConnOK(c)

-----------------------------------------------------------------------------
Pages == [Page -> Content \cup {NotCached}]

(* What a step of c must be for the invariant to survive it.               *)
TypedStep(c) ==
    /\ DiskOK'
    /\ tx' \in [Conn -> TxType] /\ cache' \in [Conn -> Pages]
    /\ vers' \in [Conn -> Content]
    /\ \A d \in Conn \ {c} :
           tx'[d] = tx[d] /\ cache'[d] = cache[d] /\ vers'[d] = vers[d]
    /\ jrnl' # jrnl => eLock[c] \in {RESERVED_LOCK, EXCLUSIVE_LOCK}
    /\ TxOK(eState'[c], pc'[c], tx'[c], cache'[c], vers'[c])
    /\ JournalOK(eState'[c], pc'[c], tx'[c], jrnl')

(* A journal changes only under a lock, so the connection it belongs to    *)
(* still finds in it what it has put there.                                *)
LEMMA TypedStepKeepsInv ==
    ASSUME TypeInv, NEW c \in Conn, StepOK(c), TypedStep(c)
    PROVE  TypeInv'
<1>1. PagerInv'
  BY StepKeepsInv DEF TypeInv
<1>2. ASSUME NEW d \in Conn PROVE ConnOK(d)'
  <2>1. CASE d = c
    BY <2>1 DEF ConnOK, TypedStep
  <2>2. CASE d # c
    <3>1. /\ eState'[d] = eState[d] /\ pc'[d] = pc[d]
          /\ tx'[d] = tx[d] /\ cache'[d] = cache[d] /\ vers'[d] = vers[d]
      BY <2>2 DEF StepOK, TypedStep
    <3>2. ConnOK(d)
      BY DEF TypeInv
    <3>3. CASE jrnl' = jrnl
      BY <3>1, <3>2, <3>3 DEF ConnOK
    <3>4. CASE jrnl' # jrnl
      <4>1. eLock[c] \in {RESERVED_LOCK, EXCLUSIVE_LOCK}
        BY <3>4 DEF TypedStep
      <4>2. eLock[d] \notin {RESERVED_LOCK, EXCLUSIVE_LOCK}
        BY <2>2, <4>1 DEF TypeInv, PagerInv, LockInv, ReservedIsOwned
      <4>3. eState[d] \notin CacheMod /\ pc[d] # "play"
        BY <4>2, InvOf DEF TypeInv, Matches, Writer
      <4> QED  BY <3>1, <3>2, <4>3 DEF ConnOK, JournalOK
    <3> QED  BY <3>3, <3>4
  <2> QED  BY <2>1, <2>2
<1> QED  BY <1>1, <1>2 DEF TypeInv, TypedStep, Pages

(* One part of connection c replaced: the others keep theirs.              *)
LEMMA UpdateTx ==
    ASSUME TypeInv, NEW c \in Conn, NEW t \in TxType,
           tx' = [tx EXCEPT ![c] = t]
    PROVE  /\ tx' \in [Conn -> TxType] /\ tx'[c] = t
           /\ \A d \in Conn \ {c} : tx'[d] = tx[d]
BY DEF TypeInv

LEMMA UpdateCache ==
    ASSUME TypeInv, NEW c \in Conn, NEW pages \in Pages,
           cache' = [cache EXCEPT ![c] = pages]
    PROVE  /\ cache' \in [Conn -> Pages] /\ cache'[c] = pages
           /\ \A d \in Conn \ {c} : cache'[d] = cache[d]
BY DEF TypeInv, Pages

LEMMA UpdateVers ==
    ASSUME TypeInv, NEW c \in Conn, NEW v \in Content,
           vers' = [vers EXCEPT ![c] = v]
    PROVE  /\ vers' \in [Conn -> Content] /\ vers'[c] = v
           /\ \A d \in Conn \ {c} : vers'[d] = vers[d]
BY DEF TypeInv

(* A part that is left alone keeps its type.                               *)
LEMMA Untouched ==
    ASSUME TypeInv
    PROVE  /\ tx \in [Conn -> TxType] /\ cache \in [Conn -> Pages]
           /\ vers \in [Conn -> Content]
BY DEF TypeInv, Pages

(* What the invariant says of one connection.                              *)
LEMMA TypesOf ==
    ASSUME TypeInv, NEW c \in Conn
    PROVE  /\ tx[c] \in TxType /\ cache[c] \in Pages /\ vers[c] \in Content
           /\ TxOK(eState[c], pc[c], tx[c], cache[c], vers[c])
           /\ JournalOK(eState[c], pc[c], tx[c], jrnl)
BY DEF TypeInv, Pages, ConnOK

(* Faults are counted.                                                     *)
LEMMA FaultsBounded ==
    ASSUME DiskOK, NEW kind, NoFault \/ Fault(kind)
    PROVE  faults' \in 0 .. MaxFaults
BY PagerAssumption DEF DiskOK, NoFault, Fault

(* A step that leaves the files alone leaves them right.                   *)
LEMMA FilesAlone ==
    ASSUME DiskOK, dbf' = dbf, jrnl' = jrnl, faults' \in 0 .. MaxFaults
    PROVE  DiskOK'
BY DEF DiskOK

LEMMA ZeroIsContent ==
    0 \in Content /\ EmptyCache \in Pages /\ 1 \in Page /\ NewTx \in TxType
BY PagerAssumption
   DEF Content, Garbage, EmptyCache, Pages, Page, NewTx, TxType

-----------------------------------------------------------------------------
(* A connection that is not in a transaction and only moves on.            *)
LEMMA OpenMoves ==
    ASSUME TypeInv, NEW c \in Conn, StepOK(c),
           eState[c] = "OPEN", UNCHANGED <<dbf, jrnl, eState, vers, cache>>,
           faults' \in 0 .. MaxFaults,
           NEW j \in BOOLEAN, tx' = [tx EXCEPT ![c].jfd = j],
           NEW label \in {"hot", "vers", "excl", "failed", "hotopen",
                          "playback"},
           pc' = [pc EXCEPT ![c] = label]
    PROVE  TypedStep(c)
<1> DEFINE t == [tx[c] EXCEPT !.jfd = j]
<1>1. /\ t \in TxType /\ tx' = [tx EXCEPT ![c] = t]
      /\ t.inJournal = tx[c].inJournal /\ t.dirty = tx[c].dirty
      /\ t.dbOrigSize = tx[c].dbOrigSize
  BY TypesOf DEF TxType
<1>2. DiskOK'
  BY FilesAlone DEF TypeInv
<1>3. eState'[c] = "OPEN" /\ pc'[c] = label
  BY DEF TypeInv, PagerInv
<1> HIDE DEF t
<1>4. TxOK("OPEN", label, t, cache[c], vers[c])
  BY <1>1, TypesOf DEF TxOK, Writer, CacheMod, Working
<1>5. JournalOK("OPEN", label, t, jrnl)
  BY DEF JournalOK, CacheMod
<1> QED
  BY <1>1, <1>2, <1>3, <1>4, <1>5, UpdateTx, Untouched DEF TypedStep

(* The start of a read transaction.                                        *)
LEMMA ReadTypes ==
    ASSUME TypeInv, NEW c \in Conn, StepOK(c),
           \/ SharedLock(c) \/ hasHotJournal(c) \/ HotLock(c) \/ HotOpen(c)
           \/ CheckVersion(c)
    PROVE  TypedStep(c)
<1>1. CASE \/ SharedLock(c) \/ hasHotJournal(c) \/ HotLock(c) \/ HotOpen(c)
  <2>1. eState[c] = "OPEN"
    BY <1>1, InvOf
       DEF SharedLock, hasHotJournal, HotLock, HotOpen, TypeInv, Matches
  <2>2. UNCHANGED <<dbf, jrnl, eState, vers, cache>>
    BY <1>1 DEF SharedLock, hasHotJournal, HotLock, HotOpen, diskVars
  <2>3. faults' \in 0 .. MaxFaults
    BY <1>1 DEF SharedLock, hasHotJournal, HotLock, HotOpen, TypeInv, DiskOK,
                NoFault
  <2>4. \E label \in {"hot", "vers", "excl", "failed", "hotopen",
                      "playback"} : pc' = [pc EXCEPT ![c] = label]
    BY <1>1 DEF SharedLock, hasHotJournal, HotLock, HotOpen, Goto
  <2>5. \E j \in BOOLEAN : tx' = [tx EXCEPT ![c].jfd = j]
    <3>1. tx' = tx \/ tx' = [tx EXCEPT ![c].jfd = TRUE]
      BY <1>1 DEF SharedLock, hasHotJournal, HotLock, HotOpen
    <3>2. tx = [tx EXCEPT ![c].jfd = tx[c].jfd] /\ tx[c].jfd \in BOOLEAN
      BY TypesOf DEF TxType, TypeInv
    <3> QED  BY <3>1, <3>2
  <2> QED  BY <2>1, <2>2, <2>3, <2>4, <2>5, OpenMoves
<1>2. CASE CheckVersion(c)
  <2> DEFINE t == [tx[c] EXCEPT !.dbSize = Len(dbf)]
  <2>0. Len(dbf) \in 0 .. MaxPage /\ Len(dbf) >= 1 /\ tx[c] \in TxType
    BY TypesOf DEF TypeInv, DiskOK, Page
  <2>1. /\ t \in TxType /\ tx' = [tx EXCEPT ![c] = t]
        /\ t.inJournal = tx[c].inJournal /\ t.dirty = tx[c].dirty
        /\ t.dbOrigSize = tx[c].dbOrigSize /\ t.dbSize = Len(dbf)
    BY <1>2, <2>0 DEF CheckVersion, TxType
  <2> HIDE DEF t
  <2>2. /\ UNCHANGED <<dbf, jrnl, vers>>
        /\ cache' = cache \/ cache' = [cache EXCEPT ![c] = EmptyCache]
    BY <1>2 DEF CheckVersion, diskVars
  <2>3. faults' \in 0 .. MaxFaults
    BY <1>2, FaultsBounded DEF CheckVersion, TypeInv
  <2>4. DiskOK'
    BY <2>2, <2>3, FilesAlone DEF TypeInv
  <2>5. eState[c] = "OPEN" /\ eState'[c] = "READER" /\ pc'[c] = "idle"
    BY <1>2, InvOf DEF CheckVersion, Goto, TypeInv, PagerInv, Matches
  <2>6. \A pages : TxOK("READER", "idle", t, pages, vers[c])
    BY <2>0, <2>1, <2>5, TypesOf DEF TxOK, Writer, CacheMod, Working
  <2>7. JournalOK("READER", "idle", t, jrnl)
    BY DEF JournalOK, CacheMod
  <2>8. /\ cache' \in [Conn -> Pages]
        /\ \A d \in Conn \ {c} : cache'[d] = cache[d]
    BY <2>2, UpdateCache, Untouched, ZeroIsContent
  <2> QED
    BY <2>1, <2>2, <2>4, <2>5, <2>6, <2>7, <2>8, UpdateTx, Untouched
       DEF TypedStep
<1> QED  BY <1>1, <1>2

-----------------------------------------------------------------------------
(* Lemmas on the operators that write the two files.                       *)

\* The records s with rec at place i, as AddRecord writes it.
PutRecord(s, i, rec) ==
    [k \in 1 .. (IF i > Len(s) THEN i ELSE Len(s)) |->
        IF k = i THEN rec ELSE s[k]]

LEMMA PutRecordEffect ==
    ASSUME NEW s \in Seq(JournalRecord), NEW i \in 1 .. Len(s) + 1,
           NEW rec \in JournalRecord
    PROVE  /\ PutRecord(s, i, rec) \in Seq(JournalRecord)
           /\ Len(PutRecord(s, i, rec)) = IF i > Len(s) THEN i ELSE Len(s)
           /\ PutRecord(s, i, rec)[i] = rec
           /\ \A k \in 1 .. Len(s) :
                  k # i => PutRecord(s, i, rec)[k] = s[k]
<1> DEFINE n == Len(s)
           m == IF i > n THEN i ELSE n
           val(k) == IF k = i THEN rec ELSE s[k]
<1>0. n \in Nat /\ m \in Nat /\ i \in 1 .. m /\ i <= n + 1
  BY LenProperties
<1>e. \A k \in 1 .. n : s[k] \in JournalRecord
  BY ElementOfSeq
<1>o. PutRecord(s, i, rec) = [k \in 1 .. m |-> val(k)]
  BY DEF PutRecord
<1>m. m = IF i > n THEN i ELSE n
  OBVIOUS
<1> HIDE DEF n, m
<1>1. ASSUME NEW k \in 1 .. m PROVE val(k) \in JournalRecord
  <2>1. k # i => k \in 1 .. n
    BY <1>0, <1>m
  <2> QED  BY <2>1, <1>e
<1>v. val(i) = rec /\ \A k : k # i => val(k) = s[k]
  OBVIOUS
<1> HIDE DEF val
<1>2. PutRecord(s, i, rec) \in [1 .. m -> JournalRecord]
  BY <1>1, <1>o
<1>3. PutRecord(s, i, rec) \in Seq(JournalRecord)
      /\ Len(PutRecord(s, i, rec)) = m
  BY <1>0, <1>2, IsASeq, LenProperties
<1>4. PutRecord(s, i, rec)[i] = rec
  BY <1>0, <1>o, <1>v
<1>5. ASSUME NEW k \in 1 .. n, k # i PROVE PutRecord(s, i, rec)[k] = s[k]
  <2>1. k \in 1 .. m
    BY <1>0, <1>m
  <2> QED  BY <1>5, <2>1, <1>o, <1>v
<1> QED  BY <1>3, <1>4, <1>5, <1>m DEF n

(* PutPage replaces one page, or adds one at the end.                      *)
LEMMA PutPageEffect ==
    ASSUME DiskOK, NEW p \in Page, NEW content \in Content
    PROVE  /\ PutPage(p, content) \in Seq(Content)
           /\ Len(PutPage(p, content)) =
                  IF p <= Len(dbf) THEN Len(dbf) ELSE Len(dbf) + 1
           /\ Len(PutPage(p, content)) \in Page
           /\ \A q \in 1 .. Len(dbf) :
                  PutPage(p, content)[q] = IF q = p THEN content ELSE dbf[q]
           /\ p > Len(dbf) => PutPage(p, content)[Len(dbf) + 1] = content
<1>1. dbf \in Seq(Content) /\ Len(dbf) \in Nat /\ Len(dbf) \in Page
      /\ p \in Nat /\ p <= MaxPage /\ p >= 1 /\ MaxPage \in Nat
  BY PagerAssumption DEF DiskOK, Page
<1>2. CASE p <= Len(dbf)
  <2>1. p \in 1 .. Len(dbf)
    BY <1>1, <1>2
  <2>2. PutPage(p, content) = [dbf EXCEPT ![p] = content]
    BY <1>2 DEF PutPage
  <2> QED  BY <1>1, <1>2, <2>1, <2>2, ExceptSeq
<1>3. CASE p > Len(dbf)
  <2>1. PutPage(p, content) = Append(dbf, content)
    BY <1>1, <1>3 DEF PutPage
  <2>2. Len(dbf) + 1 \in Page
    BY <1>1, <1>3 DEF Page
  <2> QED  BY <1>1, <1>3, <2>1, <2>2, AppendProperties
<1> QED  BY <1>1, <1>2, <1>3

(* The journal file with other records, at least as many.                  *)
LEMMA NewRecords ==
    ASSUME DiskOK, NEW recs \in Seq(JournalRecord), Len(jrnl.recs) <= Len(recs),
           jrnl.hdr # "absent", dbf' = dbf, faults' \in 0 .. MaxFaults,
           jrnl' = [jrnl EXCEPT !.recs = recs]
    PROVE  DiskOK'
<1>1. /\ jrnl' \in JournalType /\ jrnl'.recs = recs
      /\ jrnl'.nRec = jrnl.nRec /\ jrnl'.mxPg = jrnl.mxPg
      /\ jrnl'.hdr = jrnl.hdr
  BY DEF DiskOK, JournalType
<1>2. Len(recs) \in Nat /\ Len(jrnl.recs) \in Nat /\ jrnl.nRec \in Nat
  BY LenProperties DEF DiskOK, JournalType
<1> QED  BY <1>1, <1>2 DEF DiskOK

(* The journalled pages are counted, and there are no more of them than    *)
(* records.                                                                *)
LEMMA JournalCount ==
    ASSUME TypeInv, NEW c \in Conn, eState[c] \in CacheMod, pc[c] # "unlock"
    PROVE  /\ IsFiniteSet(tx[c].inJournal)
           /\ Cardinality(tx[c].inJournal) \in 0 .. Len(jrnl.recs)
           /\ Len(jrnl.recs) \in Nat /\ jrnl.recs \in Seq(JournalRecord)
           /\ jrnl.hdr \in {"zeroed", "valid"}
           /\ eLock[c] \in {RESERVED_LOCK, EXCLUSIVE_LOCK}
<1>1. /\ tx[c].inJournal \in SUBSET (1 .. tx[c].dbOrigSize)
      /\ tx[c].dbOrigSize \in Int
  BY TypesOf, PagerAssumption DEF TxOK, TxType
<1>2. IsFiniteSet(tx[c].inJournal) /\ Cardinality(tx[c].inJournal) \in Nat
  <2>1. IsFiniteSet(1 .. tx[c].dbOrigSize)
    BY <1>1, FS_Interval
  <2>2. IsFiniteSet(tx[c].inJournal)
    BY <1>1, <2>1, FS_Subset
  <2> QED  BY <2>2, FS_CardinalityType
<1>3. jrnl.recs \in Seq(JournalRecord) /\ Len(jrnl.recs) \in Nat
  BY LenProperties DEF TypeInv, DiskOK, JournalType
<1>4. /\ Cardinality(tx[c].inJournal) <= Len(jrnl.recs)
      /\ jrnl.hdr \in {"zeroed", "valid"}
  BY TypesOf DEF JournalOK
<1>5. eLock[c] \in {RESERVED_LOCK, EXCLUSIVE_LOCK}
  BY InvOf DEF TypeInv, Matches, Writer
<1> QED  BY <1>2, <1>3, <1>4, <1>5

(* pager_write: what it journals is a cached page, at the next free place. *)
LEMMA PageWriteTypes ==
    ASSUME TypeInv, NEW c \in Conn, StepOK(c),
           NEW p \in Page, NEW content \in Content,
           NEW next \in {"idle", "sync"},
           eState[c] = "WRITER_CACHEMOD", pc[c] \in {"idle", "jpage"},
           p <= tx[c].dbOrigSize => cache[c][p] # NotCached,
           pager_write(c, p, content, next), UNCHANGED <<dbf, eState, vers>>
    PROVE  TypedStep(c)
<1> DEFINE t0 == tx[c]
           i == Cardinality(t0.inJournal) + 1
<1>1. /\ t0 \in TxType /\ cache[c] \in Pages /\ vers[c] \in Content
      /\ cache[c][1] # NotCached /\ vers[c] < MaxCommits
      /\ t0.dbSize >= 1 /\ 1 <= t0.dbOrigSize /\ t0.dbOrigSize <= t0.dbSize
      /\ t0.inJournal \subseteq 1 .. t0.dbOrigSize
      /\ \A q \in t0.dirty : cache[c][q] # NotCached
  BY TypesOf DEF TxOK, Writer, CacheMod, Working
<1>2. /\ IsFiniteSet(t0.inJournal)
      /\ Cardinality(t0.inJournal) \in 0 .. Len(jrnl.recs)
      /\ Len(jrnl.recs) \in Nat /\ jrnl.recs \in Seq(JournalRecord)
      /\ jrnl.hdr \in {"zeroed", "valid"}
      /\ eLock[c] \in {RESERVED_LOCK, EXCLUSIVE_LOCK}
  BY JournalCount DEF CacheMod
<1>3. i \in 1 .. Len(jrnl.recs) + 1
  BY <1>2
<1>4. eState'[c] = "WRITER_CACHEMOD"
  BY DEF TypeInv, PagerInv
<1>5. DiskOK /\ jrnl \in JournalType
  BY DEF TypeInv, DiskOK
<1>p. p \in Int /\ p >= 1 /\ p \in 0 .. MaxPage
  BY PagerAssumption DEF Page
<1>6. CASE NoFault /\ pc' = [pc EXCEPT ![c] = next]
           /\ jrnl' = (IF NeedsRecord(c, p) THEN AddRecord(c, p) ELSE jrnl)
           /\ tx' = [tx EXCEPT
                        ![c].inJournal = IF NeedsRecord(c, p)
                                         THEN @ \cup {p} ELSE @,
                        ![c].dirty = @ \cup {p},
                        ![c].dbSize = IF p > @ THEN p ELSE @]
           /\ cache' = [cache EXCEPT ![c][p] = content]
  <2> DEFINE own == IF NeedsRecord(c, p) THEN t0.inJournal \cup {p}
                    ELSE t0.inJournal
             size == IF p > t0.dbSize THEN p ELSE t0.dbSize
             t == [t0 EXCEPT !.inJournal = own, !.dirty = t0.dirty \cup {p},
                             !.dbSize = size]
             pages == [cache[c] EXCEPT ![p] = content]
  <2>1. /\ own \subseteq Page /\ own \subseteq 1 .. t0.dbOrigSize
        /\ size \in 0 .. MaxPage /\ size >= 1 /\ t0.dbOrigSize <= size
    BY <1>1, <1>p DEF NeedsRecord, TxType
  <2>2. tx' = [tx EXCEPT ![c] = t]
    BY <1>6
  <2> HIDE DEF own, size
  <2>3. /\ t \in TxType /\ t.inJournal = own /\ t.dbSize = size
        /\ t.dirty = t0.dirty \cup {p} /\ t.dbOrigSize = t0.dbOrigSize
    BY <1>1, <2>1 DEF TxType
  <2> HIDE DEF t
  <2>4. /\ pages \in Pages /\ cache' = [cache EXCEPT ![c] = pages]
        /\ pages[p] # NotCached
        /\ \A q \in Page : cache[c][q] # NotCached => pages[q] # NotCached
    BY <1>1, <1>6 DEF Pages, Content, NotCached, Garbage
  <2> HIDE DEF pages
  <2>5. pc'[c] = next
    BY <1>6 DEF TypeInv, PagerInv
  <2>6. TxOK("WRITER_CACHEMOD", next, t, pages, vers[c])
    <3>1. pages[1] # NotCached
      BY <1>1, <2>4, ZeroIsContent
    <3>2. \A q \in t.dirty : pages[q] # NotCached
      BY <1>1, <2>3, <2>4 DEF TxType
    <3> QED
      BY <1>1, <2>1, <2>3, <3>1, <3>2 DEF TxOK, Writer, CacheMod, Working
  <2>7. DiskOK' /\ JournalOK("WRITER_CACHEMOD", next, t, jrnl')
    <3>1. CASE NeedsRecord(c, p)
      <4> DEFINE rec == [pg |-> p, data |-> cache[c][p],
                         cksum |-> jrnl.cksumInit]
                 recs == PutRecord(jrnl.recs, i, rec)
      <4>1. rec \in JournalRecord
        <5>1. cache[c][p] \in Content
          BY <1>1, <3>1 DEF NeedsRecord, Pages
        <5>2. jrnl.cksumInit \in Nonce \cup {NoMatch}
          BY <1>5 DEF JournalType
        <5> QED  BY <5>1, <5>2 DEF JournalRecord
      <4>2. jrnl' = [jrnl EXCEPT !.recs = recs]
        BY <1>6, <3>1 DEF AddRecord, PutRecord
      <4>a. own = t0.inJournal \cup {p} /\ p \notin t0.inJournal
        BY <3>1 DEF own, NeedsRecord
      <4> HIDE DEF rec
      <4>3. /\ recs \in Seq(JournalRecord)
            /\ Len(recs) = IF i > Len(jrnl.recs) THEN i ELSE Len(jrnl.recs)
        BY <1>2, <1>3, <4>1, PutRecordEffect
      <4> HIDE DEF recs, i
      <4>4. Len(jrnl.recs) <= Len(recs) /\ i <= Len(recs)
        BY <1>2, <1>3, <4>3
      <4>5. DiskOK'
        <5>1. faults' \in 0 .. MaxFaults
          BY <1>6, <1>5 DEF NoFault, DiskOK
        <5> QED  BY <1>2, <1>5, <4>2, <4>3, <4>4, <5>1, NewRecords
      <4>6. Cardinality(own) = i
        BY <1>2, <4>a, FS_AddElement DEF i
      <4>7. jrnl'.hdr = jrnl.hdr /\ jrnl'.recs = recs
        BY <1>5, <4>2 DEF JournalType
      <4>8. JournalOK("WRITER_CACHEMOD", next, t, jrnl')
        BY <1>2, <2>3, <4>4, <4>6, <4>7 DEF JournalOK
      <4> QED  BY <4>5, <4>8
    <3>2. CASE ~NeedsRecord(c, p)
      <4>1. own = t0.inJournal /\ jrnl' = jrnl
        BY <1>6, <3>2 DEF own
      <4>2. DiskOK'
        BY <1>5, <1>6, <4>1, FilesAlone DEF NoFault, DiskOK
      <4> QED  BY <1>2, <2>3, <4>1, <4>2 DEF JournalOK
    <3> QED  BY <3>1, <3>2
  <2> QED
    BY <1>1, <1>2, <1>4, <2>2, <2>3, <2>4, <2>5, <2>6, <2>7, UpdateTx,
       UpdateCache, Untouched DEF TypedStep
<1>7. CASE NeedsRecord(c, p) /\ Fault("write") /\ jrnl' \in TornRecord(c, p)
           /\ tx' = [tx EXCEPT ![c].dirty = @ \cup {p}]
           /\ pc' = [pc EXCEPT ![c] = "err"] /\ cache' = cache
  <2> DEFINE t == [t0 EXCEPT !.dirty = t0.dirty \cup {p}]
  <2>1. tx' = [tx EXCEPT ![c] = t]
    BY <1>7
  <2>2. /\ t \in TxType /\ t.inJournal = t0.inJournal
        /\ t.dbSize = t0.dbSize /\ t.dbOrigSize = t0.dbOrigSize
    BY <1>1 DEF TxType
  <2> HIDE DEF t
  <2>3. pc'[c] = "err"
    BY <1>7 DEF TypeInv, PagerInv
  <2>4. TxOK("WRITER_CACHEMOD", "err", t, cache[c], vers[c])
    BY <1>1, <2>2 DEF TxOK, Writer, CacheMod, Working
  <2>5. faults' \in 0 .. MaxFaults
    BY <1>5, <1>7, FaultsBounded
  <2>6. DiskOK' /\ jrnl'.hdr = jrnl.hdr /\ Len(jrnl'.recs) = Len(jrnl.recs)
    <3>1. CASE jrnl' = jrnl
      BY <1>5, <2>5, <3>1, FilesAlone
    <3>2. CASE jrnl' # jrnl
      <4> DEFINE old == jrnl.recs[i]
      <4>1. i \in 1 .. Len(jrnl.recs)
        BY <1>2, <1>3, <1>7, <3>2 DEF TornRecord
      <4>2. old \in JournalRecord
        BY <1>2, <4>1, ElementOfSeq
      <4>3. PICK rec \in {[old EXCEPT !.pg = p],
                          [pg |-> p, data |-> Garbage, cksum |-> NoMatch]} :
                jrnl' = [jrnl EXCEPT !.recs[i] = rec]
        BY <1>7, <3>2 DEF TornRecord
      <4>4. rec \in JournalRecord
        <5>1. Garbage \in Content
          BY PagerAssumption DEF Content, Garbage
        <5> QED  BY <4>2, <4>3, <5>1 DEF JournalRecord
      <4> DEFINE recs == [jrnl.recs EXCEPT ![i] = rec]
      <4>5. jrnl' = [jrnl EXCEPT !.recs = recs]
        BY <4>3
      <4> HIDE DEF i
      <4>6. recs \in Seq(JournalRecord) /\ Len(recs) = Len(jrnl.recs)
        BY <1>2, <4>1, <4>4, ExceptSeq
      <4> HIDE DEF recs
      <4>7. jrnl'.hdr = jrnl.hdr /\ jrnl'.recs = recs
        BY <1>5, <4>5 DEF JournalType
      <4> QED  BY <1>2, <1>5, <2>5, <4>5, <4>6, <4>7, NewRecords
    <3> QED  BY <3>1, <3>2
  <2>7. JournalOK("WRITER_CACHEMOD", "err", t, jrnl')
    BY <1>2, <2>2, <2>6 DEF JournalOK
  <2> QED
    BY <1>2, <1>4, <1>7, <2>1, <2>2, <2>3, <2>4, <2>6, <2>7, UpdateTx,
       Untouched DEF TypedStep
<1> QED  BY <1>6, <1>7 DEF pager_write, Goto

(* The dirty pages have a least one, the next that a commit writes.        *)
LEMMA LeastPage ==
    ASSUME NEW S \in SUBSET Page, S # {}
    PROVE  LET p == CHOOSE q \in S : \A r \in S : q <= r
           IN  p \in S /\ \A r \in S : p <= r
<1>1. S \subseteq Nat
  BY DEF Page
<1>2. PICK q \in S : \A r \in S : <<r, q>> \notin OpToRel(<, Nat)
  BY <1>1, WFMin, NatLessThanWellFounded, Zenon
<1>3. \A r \in S : ~(r < q)
  BY <1>1, <1>2, Zenon DEF OpToRel
<1>4. \A r \in S : q <= r
  BY <1>1, <1>3
<1> QED  BY <1>4

(* Reading and changing pages.                                             *)
LEMMA WorkTypes ==
    ASSUME TypeInv, NEW c \in Conn, StepOK(c), Work(c), ~SharedLock(c)
    PROVE  TypedStep(c)
<1> DEFINE t0 == tx[c]
<1>0. /\ t0 \in TxType /\ cache[c] \in Pages /\ vers[c] \in Content
      /\ DiskOK /\ jrnl \in JournalType /\ MaxPage \in Nat
      /\ t0.dbSize \in Nat /\ t0.dbSize <= MaxPage
      /\ t0.dbOrigSize \in Nat /\ t0.dbOrigSize <= MaxPage
  BY TypesOf, PagerAssumption DEF TypeInv, DiskOK, TxType
<1>1. ASSUME NEW p \in Page, readDbPage(c, p)
      PROVE  TypedStep(c)
  <2>1. PICK x \in {PageOnDisk(p), 0} : cache' = [cache EXCEPT ![c][p] = x]
    BY <1>1 DEF readDbPage
  <2>2. x \in Content
    <3>1. PageOnDisk(p) \in Content
      BY <1>0, ZeroIsContent, ElementOfSeq DEF PageOnDisk, DiskOK, Page
    <3> QED  BY <2>1, <3>1, ZeroIsContent
  <2> DEFINE pages == [cache[c] EXCEPT ![p] = x]
             v == IF p = 1 THEN x ELSE vers[c]
  <2>3. /\ pages \in Pages /\ cache' = [cache EXCEPT ![c] = pages]
        /\ \A q \in Page : cache[c][q] # NotCached => pages[q] # NotCached
        /\ p = 1 => pages[1] = x
    BY <1>0, <2>1, <2>2 DEF Pages, Content, NotCached, Garbage
  <2>4. v \in Content /\ vers' = [vers EXCEPT ![c] = v]
    <3>1. cache'[c] = pages
      BY <2>3, UpdateCache
    <3>2. CASE p = 1
      BY <1>1, <2>2, <2>3, <3>1, <3>2 DEF readDbPage
    <3>3. CASE p # 1
      BY <1>0, <1>1, <3>3 DEF readDbPage, TypeInv
    <3> QED  BY <3>2, <3>3
  <2>5. /\ UNCHANGED <<dbf, jrnl, eState, pc, tx>>
        /\ cache[c][p] = NotCached /\ pc[c] = "idle"
        /\ eState[c] \in {"READER", "WRITER_LOCKED", "WRITER_CACHEMOD"}
    BY <1>1 DEF readDbPage, diskVars
  <2>6. v = vers[c] \/ eState[c] = "READER"
    BY <2>5, TypesOf DEF TxOK, Writer, CacheMod, Working
  <2>7. DiskOK'
    BY <1>0, <1>1, <2>5, FilesAlone, FaultsBounded DEF readDbPage
  <2> HIDE DEF pages, v
  <2>8. TxOK(eState[c], pc[c], t0, pages, v)
    <3>1. CASE eState[c] = "READER"
      BY <2>5, <3>1, TypesOf DEF TxOK, Writer, CacheMod
    <3>2. CASE eState[c] \in Writer
      <4>1. \A q \in t0.dirty : pages[q] # NotCached
        BY <1>0, <2>3, <2>5, <3>2, TypesOf DEF TxOK, Working, TxType
      <4>2. pages[1] # NotCached /\ v = vers[c]
        BY <2>3, <2>5, <2>6, <3>2, TypesOf, ZeroIsContent
           DEF TxOK, Working, Writer, CacheMod
      <4> QED  BY <2>5, <3>2, <4>1, <4>2, TypesOf DEF TxOK
    <3> QED  BY <2>5, <3>1, <3>2 DEF Writer, CacheMod
  <2>9. JournalOK(eState[c], pc[c], t0, jrnl)
    BY TypesOf
  <2> QED
    BY <2>3, <2>4, <2>5, <2>7, <2>8, <2>9, UpdateCache, UpdateVers, Untouched
       DEF TypedStep
<1>2. CASE BeginWrite(c)
  <2> DEFINE t == [t0 EXCEPT !.dbOrigSize = t0.dbSize]
  <2>1. /\ tx' = [tx EXCEPT ![c] = t]
        /\ UNCHANGED <<dbf, jrnl, pc, cache, vers>>
        /\ pc[c] = "idle" /\ eState[c] = "READER"
        /\ cache[c][1] # NotCached /\ vers[c] < MaxCommits
    BY <1>2 DEF BeginWrite, diskVars
  <2>2. /\ t \in TxType /\ t.dbOrigSize = t0.dbSize /\ t.dbSize = t0.dbSize
        /\ t.inJournal = t0.inJournal /\ t.dirty = t0.dirty
    BY <1>0 DEF TxType
  <2> HIDE DEF t
  <2>3. DiskOK'
    BY <1>0, <1>2, <2>1, FilesAlone DEF BeginWrite, NoFault, DiskOK
  <2>4. eState'[c] = "WRITER_LOCKED" /\ pc'[c] = "idle"
    BY <1>2, <2>1 DEF BeginWrite, TypeInv, PagerInv
  <2>5. TxOK("WRITER_LOCKED", "idle", t, cache[c], vers[c])
    <3>1. t0.dbSize >= 1 /\ t0.inJournal = {} /\ t0.dirty = {}
      BY <2>1, TypesOf DEF TxOK
    <3> QED  BY <1>0, <2>1, <2>2, <3>1 DEF TxOK
  <2>6. JournalOK("WRITER_LOCKED", "idle", t, jrnl)
    BY DEF JournalOK, CacheMod
  <2> QED
    BY <2>1, <2>2, <2>3, <2>4, <2>5, <2>6, UpdateTx, Untouched DEF TypedStep
<1>3. CASE BeginBusy(c)
  <2>1. /\ UNCHANGED <<dbf, jrnl, eState, cache, vers, tx>>
        /\ eState[c] = "READER" /\ pc'[c] = "failed"
    BY <1>3 DEF BeginBusy, diskVars, Goto, TypeInv, PagerInv
  <2>2. DiskOK'
    BY <1>0, <1>3, <2>1, FilesAlone DEF BeginBusy, NoFault, DiskOK
  <2>3. TxOK("READER", "failed", t0, cache[c], vers[c])
    BY <2>1, TypesOf DEF TxOK, Writer, CacheMod
  <2>4. JournalOK("READER", "failed", t0, jrnl)
    BY DEF JournalOK, CacheMod
  <2> QED  BY <2>1, <2>2, <2>3, <2>4, Untouched DEF TypedStep
<1>4. CASE pager_open_journal(c)
  <2>1. /\ UNCHANGED <<dbf, eState, cache, vers>>
        /\ eState[c] = "WRITER_LOCKED" /\ pc[c] = "idle"
        /\ eLock[c] \in {RESERVED_LOCK, EXCLUSIVE_LOCK}
    BY <1>4, InvOf DEF pager_open_journal, TypeInv, Matches, Writer
  <2>2. DiskOK'
    <3>1. faults' \in 0 .. MaxFaults
      BY <1>0, <1>4, FaultsBounded DEF pager_open_journal
    <3>2. CASE jrnl' = jrnl
      BY <1>0, <2>1, <3>1, <3>2, FilesAlone
    <3>3. CASE jrnl' = [NoJournal EXCEPT !.hdr = "empty"]
      <4>1. jrnl' = [hdr |-> "empty", nRec |-> 0, cksumInit |-> 0,
                     mxPg |-> 0, recs |-> <<>>]
        BY <3>3 DEF NoJournal
      <4>2. jrnl' \in JournalType
        BY <1>0, <4>1, EmptySeq DEF JournalType, HdrState, NoMatch
      <4> QED  BY <1>0, <2>1, <3>1, <4>1, <4>2, EmptySeq DEF DiskOK
    <3> QED  BY <1>4, <3>2, <3>3 DEF pager_open_journal
  <2>3. /\ tx' \in [Conn -> TxType]
        /\ \A d \in Conn \ {c} : tx'[d] = tx[d]
        /\ tx'[c] = t0 \/ tx'[c] = [t0 EXCEPT !.jfd = TRUE]
    <3> DEFINE t == [t0 EXCEPT !.jfd = TRUE]
    <3>1. CASE tx' = tx
      BY <3>1, Untouched
    <3>2. CASE tx' = [tx EXCEPT ![c].jfd = TRUE]
      <4>1. t \in TxType /\ tx' = [tx EXCEPT ![c] = t]
        BY <1>0, <3>2 DEF TxType
      <4> HIDE DEF t
      <4>2. tx'[c] = t
        BY <4>1, UpdateTx
      <4> QED  BY <4>1, <4>2, UpdateTx DEF t
    <3> QED  BY <1>4, <3>1, <3>2 DEF pager_open_journal
  <2>4. /\ tx'[c].dbSize = t0.dbSize /\ tx'[c].dbOrigSize = t0.dbOrigSize
        /\ tx'[c].dirty = t0.dirty /\ tx'[c].inJournal = t0.inJournal
    BY <1>0, <2>3 DEF TxType
  <2>5. pc'[c] \in {"jhdr", "err"} /\ eState'[c] = "WRITER_LOCKED"
    BY <1>4, <2>1 DEF pager_open_journal, Goto, TypeInv, PagerInv
  <2>6. TxOK("WRITER_LOCKED", pc'[c], tx'[c], cache[c], vers[c])
    BY <2>1, <2>4, <2>5, TypesOf DEF TxOK, Writer, CacheMod, Working
  <2>7. JournalOK("WRITER_LOCKED", pc'[c], tx'[c], jrnl')
    BY <2>5 DEF JournalOK, CacheMod
  <2> QED
    BY <2>1, <2>2, <2>3, <2>5, <2>6, <2>7, Untouched DEF TypedStep
<1>5. ASSUME NEW p \in Page, WritePage(c, p)
      PROVE  TypedStep(c)
  <2>1. /\ eState[c] = "WRITER_CACHEMOD" /\ pc[c] \in {"idle", "jpage"}
        /\ pager_write(c, p, Changed(cache[c][p]), "idle")
        /\ UNCHANGED <<dbf, eState, vers>> /\ Writable(c, p)
    BY <1>5 DEF WritePage
  <2>2. cache[c][p] \in Content \cup {NotCached} /\ cache[c][p] < MaxVal
    BY <1>0, <2>1 DEF Pages, Writable
  <2>3. Changed(cache[c][p]) \in Content
    BY <2>2, PagerAssumption DEF Changed, Content, Garbage, NotCached
  <2>4. p <= t0.dbOrigSize => cache[c][p] # NotCached
    <3>1. t0.dbOrigSize <= t0.dbSize
      BY <2>1, TypesOf DEF TxOK, Writer, CacheMod, Working
    <3> QED  BY <1>0, <2>1, <3>1 DEF Writable, Page
  <2> QED  BY <2>1, <2>3, <2>4, PageWriteTypes
<1> QED  BY <1>1, <1>2, <1>3, <1>4, <1>5 DEF Work

(* Commit.                                                                 *)
LEMMA CommitTypes ==
    ASSUME TypeInv, NEW c \in Conn, StepOK(c),
           \/ writeJournalHdr(c) \/ pager_incr_changecounter(c)
           \/ CommitNoChange(c) \/ syncJournal(c) \/ pager_write_pagelist(c)
           \/ CommitPhaseOneDone(c)
    PROVE  TypedStep(c)
<1> DEFINE t0 == tx[c]
<1>0. /\ t0 \in TxType /\ cache[c] \in Pages /\ vers[c] \in Content
      /\ DiskOK /\ jrnl \in JournalType /\ MaxPage \in Nat
      /\ t0.dbOrigSize \in 0 .. MaxPage
      /\ jrnl.recs \in Seq(JournalRecord) /\ Len(jrnl.recs) \in Nat
  BY TypesOf, PagerAssumption, LenProperties
     DEF TypeInv, DiskOK, TxType, JournalType
<1>1. CASE writeJournalHdr(c)
  <2>1. /\ pc[c] = "jhdr" /\ eState[c] = "WRITER_LOCKED"
        /\ UNCHANGED <<dbf, cache, vers, tx>>
        /\ eLock[c] \in {RESERVED_LOCK, EXCLUSIVE_LOCK}
    BY <1>1, InvOf DEF writeJournalHdr, TypeInv, Matches, Writer
  <2>2. faults' \in 0 .. MaxFaults
    BY <1>0, <1>1, FaultsBounded DEF writeJournalHdr
  <2>3. /\ t0.inJournal = {} /\ t0.dirty = {} /\ t0.dbSize >= 1
        /\ cache[c][1] # NotCached /\ vers[c] < MaxCommits
        /\ 1 <= t0.dbOrigSize /\ t0.dbOrigSize <= t0.dbSize
    BY <2>1, TypesOf DEF TxOK, Writer, Working
  <2>4. CASE \E init \in Drawn :
                 /\ jrnl' = [hdr |-> "zeroed", nRec |-> 0, cksumInit |-> init,
                             mxPg |-> tx[c].dbOrigSize, recs |-> jrnl.recs]
                 /\ eState' = [eState EXCEPT ![c] = "WRITER_CACHEMOD"]
                 /\ pc' = [pc EXCEPT ![c] = "jpage"]
    <3>1. PICK init \in Nonce :
              jrnl' = [hdr |-> "zeroed", nRec |-> 0, cksumInit |-> init,
                       mxPg |-> t0.dbOrigSize, recs |-> jrnl.recs]
      BY <2>4 DEF Drawn
    <3>2. jrnl' \in JournalType
      BY <1>0, <3>1 DEF JournalType, HdrState
    <3>3. DiskOK'
      BY <1>0, <2>1, <2>2, <2>3, <3>1, <3>2 DEF DiskOK
    <3>4. eState'[c] = "WRITER_CACHEMOD" /\ pc'[c] = "jpage"
      BY <2>4 DEF TypeInv, PagerInv
    <3>5. TxOK("WRITER_CACHEMOD", "jpage", t0, cache[c], vers[c])
      BY <2>3 DEF TxOK
    <3>6. JournalOK("WRITER_CACHEMOD", "jpage", t0, jrnl')
      BY <1>0, <2>3, <3>1, FS_EmptySet DEF JournalOK
    <3> QED
      BY <2>1, <3>3, <3>4, <3>5, <3>6, Untouched DEF TypedStep
  <2>5. CASE /\ jrnl' \in {jrnl, IF jrnl.hdr # "valid" THEN jrnl
                             ELSE [jrnl EXCEPT !.hdr = "zeroed", !.nRec = 0]}
             /\ pc' = [pc EXCEPT ![c] = "err"] /\ eState' = eState
    <3>1. DiskOK'
      <4>1. CASE jrnl' = jrnl
        BY <1>0, <2>1, <2>2, <4>1, FilesAlone
      <4>2. CASE /\ jrnl.hdr = "valid"
                 /\ jrnl' = [jrnl EXCEPT !.hdr = "zeroed", !.nRec = 0]
        <5>1. /\ jrnl' \in JournalType /\ jrnl'.hdr = "zeroed"
              /\ jrnl'.nRec = 0 /\ jrnl'.recs = jrnl.recs
              /\ jrnl'.mxPg = jrnl.mxPg
          BY <1>0, <4>2 DEF JournalType, HdrState
        <5> QED  BY <1>0, <2>1, <2>2, <4>2, <5>1 DEF DiskOK
      <4> QED  BY <2>5, <4>1, <4>2
    <3>2. eState'[c] = "WRITER_LOCKED" /\ pc'[c] = "err"
      BY <2>1, <2>5 DEF TypeInv, PagerInv
    <3>3. TxOK("WRITER_LOCKED", "err", t0, cache[c], vers[c])
      BY <2>3 DEF TxOK, Working
    <3>4. JournalOK("WRITER_LOCKED", "err", t0, jrnl')
      BY DEF JournalOK, CacheMod
    <3> QED
      BY <2>1, <3>1, <3>2, <3>3, <3>4, Untouched DEF TypedStep
  <2> QED  BY <1>1, <2>4, <2>5 DEF writeJournalHdr, Goto
<1>2. CASE pager_incr_changecounter(c)
  <2>1. /\ eState[c] = "WRITER_CACHEMOD" /\ pc[c] = "idle"
        /\ pager_write(c, 1, vers[c] + 1, "sync")
        /\ UNCHANGED <<dbf, eState, vers>>
    BY <1>2 DEF pager_incr_changecounter
  <2>2. cache[c][1] # NotCached /\ vers[c] < MaxCommits
    BY <2>1, TypesOf DEF TxOK, Writer, CacheMod, Working
  <2> DEFINE content == vers[c] + 1
             p == 1
  <2>3. content \in Content /\ p \in Page
    BY <1>0, <2>2, PagerAssumption, ZeroIsContent DEF Content, Garbage
  <2>4. pager_write(c, p, content, "sync") /\ cache[c][p] # NotCached
    BY <2>1, <2>2
  <2> HIDE DEF content, p
  <2> QED  BY <2>1, <2>3, <2>4, PageWriteTypes
<1>3. CASE CommitNoChange(c)
  <2>1. /\ UNCHANGED <<dbf, jrnl, eState, cache, vers, tx>>
        /\ eState[c] = "WRITER_LOCKED" /\ pc'[c] = "end"
    BY <1>3 DEF CommitNoChange, diskVars, Goto, TypeInv, PagerInv
  <2>2. DiskOK'
    BY <1>0, <1>3, <2>1, FilesAlone DEF CommitNoChange, NoFault, DiskOK
  <2>3. TxOK("WRITER_LOCKED", "end", t0, cache[c], vers[c])
    BY <2>1, TypesOf DEF TxOK, Writer, Working
  <2>4. JournalOK("WRITER_LOCKED", "end", t0, jrnl)
    BY DEF JournalOK, CacheMod
  <2> QED  BY <2>1, <2>2, <2>3, <2>4, Untouched DEF TypedStep
<1>4. CASE syncJournal(c)
  <2>1. /\ pc[c] = "sync" /\ eState[c] = "WRITER_CACHEMOD"
        /\ UNCHANGED <<dbf, cache, vers>>
    BY <1>4, InvOf DEF syncJournal, TypeInv, Matches
  <2>2. /\ Cardinality(t0.inJournal) \in 0 .. Len(jrnl.recs)
        /\ jrnl.hdr \in {"zeroed", "valid"}
        /\ eLock[c] \in {RESERVED_LOCK, EXCLUSIVE_LOCK}
    BY <2>1, JournalCount DEF CacheMod
  <2>3. faults' \in 0 .. MaxFaults
    BY <1>0, <1>4, FaultsBounded DEF syncJournal
  <2>4. ASSUME NEW n \in 0 .. Len(jrnl.recs),
               jrnl' = [jrnl EXCEPT !.hdr = "valid", !.nRec = n]
        PROVE  DiskOK' /\ jrnl'.hdr = "valid" /\ jrnl'.recs = jrnl.recs
    <3>1. n \in Nat /\ n <= Len(jrnl.recs)
      BY <1>0
    <3>2. /\ jrnl' \in JournalType /\ jrnl'.hdr = "valid"
          /\ jrnl'.nRec = n /\ jrnl'.recs = jrnl.recs
          /\ jrnl'.mxPg = jrnl.mxPg
      <4>1. jrnl \in JournalType
        BY <1>0
      <4> QED  BY <2>4, <3>1, <4>1 DEF JournalType, HdrState
    <3> QED  BY <1>0, <2>1, <2>2, <2>3, <3>1, <3>2 DEF DiskOK
  <2>5. CASE /\ jrnl' = [jrnl EXCEPT !.hdr = "valid",
                                     !.nRec = Cardinality(tx[c].inJournal)]
             /\ eState' = [eState EXCEPT ![c] = "WRITER_DBMOD"]
             /\ tx' = [tx EXCEPT ![c].todo = tx[c].dirty]
             /\ pc' = [pc EXCEPT ![c] = "pages"]
    <3> DEFINE t == [t0 EXCEPT !.todo = t0.dirty]
    <3>1. tx' = [tx EXCEPT ![c] = t]
      BY <2>5
    <3>2. /\ t \in TxType /\ t.todo = t0.dirty /\ t.dbSize = t0.dbSize
          /\ t.inJournal = t0.inJournal /\ t.dbOrigSize = t0.dbOrigSize
      BY <1>0 DEF TxType
    <3> HIDE DEF t
    <3>3. DiskOK' /\ jrnl'.hdr = "valid" /\ jrnl'.recs = jrnl.recs
      BY <2>2, <2>4, <2>5
    <3>4. eState'[c] = "WRITER_DBMOD" /\ pc'[c] = "pages"
      BY <2>5 DEF TypeInv, PagerInv
    <3>5. TxOK("WRITER_DBMOD", "pages", t, cache[c], vers[c])
      BY <2>1, <3>2, TypesOf DEF TxOK, Writer, CacheMod, Working
    <3>6. JournalOK("WRITER_DBMOD", "pages", t, jrnl')
      BY <2>2, <3>2, <3>3 DEF JournalOK
    <3> QED
      BY <2>1, <2>2, <3>1, <3>2, <3>3, <3>4, <3>5, <3>6, UpdateTx, Untouched
         DEF TypedStep
  <2>6. CASE /\ jrnl' \in {jrnl, [jrnl EXCEPT !.hdr = "valid"]}
             /\ pc' = [pc EXCEPT ![c] = "err"] /\ UNCHANGED <<eState, tx>>
    <3>1. DiskOK' /\ jrnl'.hdr \in {"zeroed", "valid"}
          /\ jrnl'.recs = jrnl.recs
      <4>1. CASE jrnl' = jrnl
        BY <1>0, <2>1, <2>2, <2>3, <4>1, FilesAlone
      <4>2. CASE jrnl' = [jrnl EXCEPT !.hdr = "valid"]
        <5> DEFINE n == jrnl.nRec
        <5>1. n \in 0 .. Len(jrnl.recs)
          BY <1>0 DEF DiskOK, JournalType
        <5>2. jrnl' = [jrnl EXCEPT !.hdr = "valid", !.nRec = n]
          BY <1>0, <4>2 DEF JournalType
        <5> HIDE DEF n
        <5> QED  BY <2>4, <5>1, <5>2
      <4> QED  BY <2>6, <4>1, <4>2
    <3>2. eState'[c] = "WRITER_CACHEMOD" /\ pc'[c] = "err"
      BY <2>1, <2>6 DEF TypeInv, PagerInv
    <3>3. TxOK("WRITER_CACHEMOD", "err", t0, cache[c], vers[c])
      BY <2>1, TypesOf DEF TxOK, Writer, CacheMod, Working
    <3>4. JournalOK("WRITER_CACHEMOD", "err", t0, jrnl')
      BY <2>2, <3>1 DEF JournalOK
    <3> QED
      BY <2>1, <2>2, <2>6, <3>1, <3>2, <3>3, <3>4, Untouched DEF TypedStep
  <2> QED  BY <1>4, <2>5, <2>6 DEF syncJournal, Goto
<1>5. CASE pager_write_pagelist(c)
  <2> DEFINE p == CHOOSE q \in t0.todo : \A r \in t0.todo : q <= r
  <2>1. /\ pc[c] = "pages" /\ t0.todo # {}
        /\ UNCHANGED <<jrnl, eState, cache>>
    BY <1>5 DEF pager_write_pagelist
  <2>2. p \in t0.todo
    BY <1>0, <2>1, LeastPage DEF TxType
  <2>3. /\ \/ /\ NoFault /\ dbf' = PutPage(p, cache[c][p])
              /\ tx' = [tx EXCEPT ![c].todo = @ \ {p}] /\ UNCHANGED pc
           \/ /\ Fault("write") /\ dbf' \in {dbf, PutPage(p, Garbage)}
              /\ pc' = [pc EXCEPT ![c] = "err"] /\ UNCHANGED tx
        /\ vers' = IF p = 1 THEN [vers EXCEPT ![c] = cache[c][1]] ELSE vers
    BY <1>5 DEF pager_write_pagelist, Goto
  <2> HIDE DEF p
  <2>4. /\ eState[c] = "WRITER_DBMOD"
        /\ p \in Page /\ cache[c][p] \in Content /\ Garbage \in Content
        /\ \A q \in t0.todo : cache[c][q] # NotCached
    <3>1. \A q \in t0.todo : cache[c][q] # NotCached
      BY <2>1, TypesOf DEF TxOK
    <3>2. eState[c] = "WRITER_DBMOD"
      BY <2>1, InvOf DEF TypeInv, Matches
    <3>3. Garbage \in Content
      BY PagerAssumption DEF Content, Garbage
    <3> QED  BY <1>0, <2>2, <3>1, <3>2, <3>3 DEF TxType, Pages
  <2>5. DiskOK'
    <3>1. faults' \in 0 .. MaxFaults
      BY <1>0, <2>3, FaultsBounded
    <3>2. CASE dbf' = dbf
      BY <1>0, <2>1, <3>1, <3>2, FilesAlone
    <3>3. CASE \E x \in Content : dbf' = PutPage(p, x)
      <4>1. dbf' \in Seq(Content) /\ Len(dbf') \in Page
        BY <1>0, <2>4, <3>3, PutPageEffect
      <4> QED  BY <1>0, <2>1, <3>1, <4>1 DEF DiskOK
    <3> QED  BY <2>3, <2>4, <3>2, <3>3
  <2>6. /\ vers' \in [Conn -> Content]
        /\ \A d \in Conn \ {c} : vers'[d] = vers[d]
    BY <2>3, <2>4, UpdateVers, Untouched
  <2>7. /\ tx' \in [Conn -> TxType]
        /\ \A d \in Conn \ {c} : tx'[d] = tx[d]
        /\ tx'[c].todo \subseteq t0.todo /\ tx'[c].dbSize = t0.dbSize
        /\ tx'[c].dbOrigSize = t0.dbOrigSize
        /\ tx'[c].inJournal = t0.inJournal
    <3>1. CASE tx' = tx
      BY <3>1, Untouched
    <3>2. CASE tx' = [tx EXCEPT ![c].todo = @ \ {p}]
      <4> DEFINE t == [t0 EXCEPT !.todo = t0.todo \ {p}]
      <4>1. /\ tx' = [tx EXCEPT ![c] = t] /\ t \in TxType
            /\ t.todo \subseteq t0.todo /\ t.dbSize = t0.dbSize
            /\ t.dbOrigSize = t0.dbOrigSize /\ t.inJournal = t0.inJournal
        BY <1>0, <3>2 DEF TxType
      <4> HIDE DEF t
      <4> QED  BY <4>1, UpdateTx
    <3> QED  BY <2>3, <3>1, <3>2
  <2>8. eState'[c] = "WRITER_DBMOD" /\ pc'[c] \in {"pages", "err"}
    BY <2>1, <2>3, <2>4 DEF TypeInv, PagerInv
  <2>9. TxOK("WRITER_DBMOD", pc'[c], tx'[c], cache[c], vers'[c])
    BY <2>4, <2>7, <2>8, TypesOf DEF TxOK, Working, Writer, CacheMod
  <2>10. JournalOK("WRITER_DBMOD", pc'[c], tx'[c], jrnl)
    BY <2>1, <2>4, <2>7, <2>8, TypesOf DEF JournalOK, CacheMod
  <2> QED
    BY <2>1, <2>5, <2>6, <2>7, <2>8, <2>9, <2>10, Untouched DEF TypedStep
<1>6. CASE CommitPhaseOneDone(c)
  <2> DEFINE t == [t0 EXCEPT !.dirty = {}]
  <2>1. /\ tx' = [tx EXCEPT ![c] = t] /\ UNCHANGED <<dbf, jrnl, cache, vers>>
        /\ pc[c] = "pages" /\ eState[c] = "WRITER_DBMOD"
    BY <1>6, InvOf DEF CommitPhaseOneDone, diskVars, TypeInv, Matches
  <2>2. /\ t \in TxType /\ t.dbOrigSize = t0.dbOrigSize
        /\ t.dbSize = t0.dbSize /\ t.inJournal = t0.inJournal
    BY <1>0 DEF TxType
  <2> HIDE DEF t
  <2>3. DiskOK'
    BY <1>0, <1>6, <2>1, FilesAlone DEF CommitPhaseOneDone, NoFault, DiskOK
  <2>4. eState'[c] = "WRITER_FINISHED" /\ pc'[c] = "end"
    BY <1>6 DEF CommitPhaseOneDone, Goto, TypeInv, PagerInv
  <2>5. TxOK("WRITER_FINISHED", "end", t, cache[c], vers[c])
    BY <2>1, <2>2, TypesOf DEF TxOK, Writer, CacheMod, Working
  <2>6. JournalOK("WRITER_FINISHED", "end", t, jrnl)
    BY <2>1, <2>2, TypesOf DEF JournalOK, CacheMod
  <2> QED
    BY <2>1, <2>2, <2>3, <2>4, <2>5, <2>6, UpdateTx, Untouched DEF TypedStep
<1> QED  BY <1>1, <1>2, <1>3, <1>4, <1>5, <1>6

(* In the ERROR state nothing but the types matters.                       *)
LEMMA ErrorTypes ==
    ASSUME TypeInv, NEW c \in Conn, StepOK(c), ToError(c), DiskOK',
           UNCHANGED <<jrnl, cache>>,
           vers' \in [Conn -> Content], tx' \in [Conn -> TxType],
           \A d \in Conn \ {c} : tx'[d] = tx[d] /\ vers'[d] = vers[d],
           tx'[c].inJournal = tx[c].inJournal,
           tx'[c].dbOrigSize = tx[c].dbOrigSize
    PROVE  TypedStep(c)
<1>1. eState'[c] = "ERROR" /\ pc'[c] = "idle"
  BY DEF ToError, Goto, TypeInv, PagerInv
<1>2. TxOK("ERROR", "idle", tx'[c], cache[c], vers'[c])
  BY TypesOf DEF TxOK, Writer, CacheMod
<1>3. JournalOK("ERROR", "idle", tx'[c], jrnl)
  BY DEF JournalOK, CacheMod
<1> QED  BY <1>1, <1>2, <1>3, Untouched DEF TypedStep

(* Rollback: it reads records that are there.                              *)
LEMMA RollbackTypes ==
    ASSUME TypeInv, NEW c \in Conn, StepOK(c),
           \/ Rollback(c) \/ pager_playback(c) \/ pager_playback_one_page(c)
           \/ PlaybackDone(c) \/ FinalizeJournal(c)
    PROVE  TypedStep(c)
<1> DEFINE t0 == tx[c]
<1>0. /\ t0 \in TxType /\ cache[c] \in Pages /\ vers[c] \in Content
      /\ DiskOK /\ jrnl \in JournalType /\ MaxPage \in Nat
      /\ jrnl.recs \in Seq(JournalRecord) /\ Len(jrnl.recs) \in Nat
      /\ jrnl.mxPg \in 0 .. MaxPage
  BY TypesOf, PagerAssumption, LenProperties
     DEF TypeInv, DiskOK, TxType, JournalType
<1>1. CASE Rollback(c) \/ PlaybackDone(c)
  <2>0. UNCHANGED <<dbf, jrnl, cache, vers, tx>>
    BY <1>1 DEF Rollback, PlaybackDone, diskVars
  <2>2. DiskOK'
    <3>1. faults' \in 0 .. MaxFaults
      BY <1>0, <1>1, FaultsBounded DEF Rollback, PlaybackDone, NoFault, DiskOK
    <3> QED  BY <1>0, <2>0, <3>1, FilesAlone
  <2>5. CASE ToError(c)
    BY <2>0, <2>2, <2>5, ErrorTypes, Untouched
  <2>6. CASE ~ToError(c)
    <3>1. /\ eState' = eState
          /\ pc'[c] \in {"end", "playback"}
          /\ eState[c] = "WRITER_LOCKED" => pc'[c] = "end"
          /\ pc[c] # "unlock"
      BY <1>1, <2>6 DEF Rollback, PlaybackDone, Goto, TypeInv, PagerInv
    <3>2. TxOK(eState[c], pc'[c], t0, cache[c], vers[c])
      BY <3>1, TypesOf DEF TxOK, Working
    <3>3. JournalOK(eState[c], pc'[c], t0, jrnl)
      BY <3>1, TypesOf DEF JournalOK
    <3> QED  BY <2>0, <2>2, <3>1, <3>2, <3>3, Untouched DEF TypedStep
  <2> QED  BY <2>5, <2>6
<1>2. CASE pager_playback(c)
  <2> DEFINE n == IF PlaysToFile(c) THEN jrnl.nRec ELSE Len(jrnl.recs)
             readable == PlaysToFile(c) => jrnl.hdr = "valid"
             cut == PlaysToFile(c) /\ Len(dbf) > jrnl.mxPg
  <2>1. /\ pc[c] = "playback" /\ UNCHANGED <<jrnl, vers>>
        /\ eState[c] \in Writer \cup {"OPEN"}
    BY <1>2, InvOf DEF pager_playback, TypeInv, Matches
  <2>2. faults' \in 0 .. MaxFaults
    BY <1>0, <1>2, FaultsBounded DEF pager_playback
  <2>3. CASE /\ pc' = [pc EXCEPT ![c] = "end"]
             /\ UNCHANGED <<dbf, eState, cache, tx>>
    <3>1. DiskOK'
      BY <1>0, <2>1, <2>2, <2>3, FilesAlone
    <3>2. pc'[c] = "end"
      BY <2>3 DEF TypeInv, PagerInv
    <3>3. TxOK(eState[c], "end", t0, cache[c], vers[c])
      BY <2>1, TypesOf DEF TxOK, Working
    <3>4. JournalOK(eState[c], "end", t0, jrnl)
      BY <2>1, TypesOf DEF JournalOK
    <3> QED  BY <2>1, <2>3, <3>1, <3>2, <3>3, <3>4, Untouched DEF TypedStep
  <2>4. CASE /\ readable
             /\ dbf' = (IF cut THEN SubSeq(dbf, 1, jrnl.mxPg) ELSE dbf)
             /\ tx' = [tx EXCEPT ![c].dbSize = jrnl.mxPg, ![c].pos = 1,
                                 ![c].n = n]
             /\ cache' \in {cache, [cache EXCEPT ![c] = EmptyCache]}
             /\ pc' = [pc EXCEPT ![c] = "play"] /\ eState' = eState
    <3> DEFINE t == [t0 EXCEPT !.dbSize = jrnl.mxPg, !.pos = 1, !.n = n]
    <3>1. n \in Nat /\ n <= Len(jrnl.recs)
      BY <1>0 DEF DiskOK, JournalType
    <3>2. cut => jrnl.hdr = "valid"
      BY <2>4
    <3>3. tx' = [tx EXCEPT ![c] = t]
      BY <2>4
    <3> HIDE DEF n
    <3>4. /\ t \in TxType /\ t.dbSize = jrnl.mxPg /\ t.pos = 1 /\ t.n = n
          /\ t.inJournal = t0.inJournal /\ t.dirty = t0.dirty
          /\ t.dbOrigSize = t0.dbOrigSize
      BY <1>0, <3>1 DEF TxType
    <3> HIDE DEF t
    <3>5. DiskOK'
      <4>1. CASE ~cut
        BY <1>0, <2>1, <2>2, <2>4, <4>1, FilesAlone
      <4>2. CASE cut
        <5>1. jrnl.mxPg >= 1 /\ jrnl.mxPg <= Len(dbf) /\ jrnl.mxPg \in Int
              /\ dbf \in Seq(Content) /\ Len(dbf) \in Nat
          BY <1>0, <3>2, <4>2, LenProperties DEF DiskOK
        <5>2. \A i \in 1 .. jrnl.mxPg : dbf[i] \in Content
          BY <5>1, ElementOfSeq
        <5>3. /\ SubSeq(dbf, 1, jrnl.mxPg) \in Seq(Content)
              /\ Len(SubSeq(dbf, 1, jrnl.mxPg)) = jrnl.mxPg
          BY <5>1, <5>2, SubSeqProperties
        <5>4. jrnl.mxPg \in Page
          BY <1>0, <5>1 DEF Page
        <5> QED  BY <1>0, <2>1, <2>2, <2>4, <4>2, <5>3, <5>4 DEF DiskOK
      <4> QED  BY <4>1, <4>2
    <3> HIDE DEF readable, cut
    <3>6. pc'[c] = "play" /\ eState'[c] = eState[c]
      BY <2>4 DEF TypeInv, PagerInv
    <3>7. /\ cache' \in [Conn -> Pages]
          /\ \A d \in Conn \ {c} : cache'[d] = cache[d]
      BY <2>4, UpdateCache, Untouched, ZeroIsContent
    <3>8. eState[c] \in Writer => jrnl.mxPg >= 1
      <4>1. eState[c] \in CacheMod => jrnl.mxPg >= 1
        BY <1>0, <2>1, TypesOf DEF JournalOK, DiskOK
      <4>2. eState[c] # "WRITER_LOCKED"
        BY <2>1, TypesOf DEF TxOK
      <4> QED  BY <4>1, <4>2 DEF Writer
    <3>9. TxOK(eState[c], "play", t, cache'[c], vers[c])
      BY <2>1, <3>4, <3>8, TypesOf DEF TxOK, Working
    <3>10. JournalOK(eState[c], "play", t, jrnl)
      BY <2>1, <3>1, <3>4, TypesOf DEF JournalOK
    <3> QED
      BY <2>1, <3>3, <3>4, <3>5, <3>6, <3>7, <3>9, <3>10, UpdateTx, Untouched
         DEF TypedStep
  <2>5. CASE ToError(c) /\ UNCHANGED <<dbf, cache, tx>>
    <3>1. DiskOK'
      BY <1>0, <2>1, <2>2, <2>5, FilesAlone
    <3> QED  BY <2>1, <2>5, <3>1, ErrorTypes, Untouched
  <2> QED  BY <1>2, <2>3, <2>4, <2>5 DEF pager_playback, Goto
<1>3. CASE pager_playback_one_page(c)
  <2> DEFINE rec == jrnl.recs[t0.pos]
  <2>1. /\ pc[c] = "play" /\ t0.pos <= t0.n /\ jrnl' = jrnl
        /\ eState[c] \in Writer \cup {"OPEN"}
    BY <1>3, InvOf DEF pager_playback_one_page, TypeInv, Matches
  <2>2. rec \in JournalRecord
    <3>1. t0.pos \in 1 .. Len(jrnl.recs)
      BY <1>0, <2>1, TypesOf DEF JournalOK, TxType
    <3> QED  BY <1>0, <3>1, ElementOfSeq
  <2>3. rec.pg \in Page /\ rec.data \in Content
    BY <2>2 DEF JournalRecord
  <2>4. faults' \in 0 .. MaxFaults
    BY <1>0, <1>3, FaultsBounded DEF pager_playback_one_page
  <2>5. /\ \/ UNCHANGED <<dbf, eState, cache, vers, tx>>
              /\ pc' = [pc EXCEPT ![c] = "end"]
           \/ /\ tx' = [tx EXCEPT ![c].pos = @ + 1]
              /\ UNCHANGED <<dbf, eState, cache, vers, pc>>
           \/ /\ dbf' \in {dbf, PutPage(rec.pg, rec.data)}
              /\ tx' = [tx EXCEPT ![c].pos = @ + 1, ![c].dirty = @ \ {rec.pg}]
              /\ \/ UNCHANGED <<cache, vers>>
                 \/ /\ cache' = [cache EXCEPT ![c][rec.pg] = rec.data]
                    /\ vers' \in {vers, [vers EXCEPT ![c] = rec.data]}
              /\ UNCHANGED <<eState, pc>>
           \/ /\ dbf' \in {dbf, PutPage(rec.pg, Garbage)}
              /\ ToError(c)
              /\ UNCHANGED <<cache, vers, tx>>
    BY <1>3 DEF pager_playback_one_page, Goto
  <2> HIDE DEF rec
  <2>6. DiskOK'
    <3>1. CASE dbf' = dbf
      BY <1>0, <2>1, <2>4, <3>1, FilesAlone
    <3>2. CASE \E x \in Content : dbf' = PutPage(rec.pg, x)
      <4>1. dbf' \in Seq(Content) /\ Len(dbf') \in Page
        BY <1>0, <2>3, <3>2, PutPageEffect
      <4> QED  BY <1>0, <2>1, <2>4, <4>1 DEF DiskOK
    <3>3. Garbage \in Content
      BY PagerAssumption DEF Content, Garbage
    <3> QED  BY <2>3, <2>5, <3>1, <3>2, <3>3
  <2>7. CASE UNCHANGED <<dbf, eState, cache, vers, tx>>
             /\ pc' = [pc EXCEPT ![c] = "end"]
    <3>1. pc'[c] = "end"
      BY <2>7 DEF TypeInv, PagerInv
    <3>2. TxOK(eState[c], "end", t0, cache[c], vers[c])
      BY <2>1, TypesOf DEF TxOK, Working
    <3>3. JournalOK(eState[c], "end", t0, jrnl)
      BY <2>1, TypesOf DEF JournalOK
    <3> QED  BY <2>1, <2>6, <2>7, <3>1, <3>2, <3>3, Untouched DEF TypedStep
  <2>8. ASSUME UNCHANGED <<eState, pc>>,
               \/ tx' = [tx EXCEPT ![c].pos = @ + 1]
               \/ tx' = [tx EXCEPT ![c].pos = @ + 1,
                                   ![c].dirty = @ \ {rec.pg}],
               cache' \in [Conn -> Pages],
               \A d \in Conn \ {c} : cache'[d] = cache[d],
               vers' \in [Conn -> Content],
               \A d \in Conn \ {c} : vers'[d] = vers[d]
        PROVE  TypedStep(c)
    <3> DEFINE next == t0.pos + 1
               rest == t0.dirty \ {rec.pg}
    <3>1. PICK t \in {[t0 EXCEPT !.pos = next],
                      [t0 EXCEPT !.pos = next, !.dirty = rest]} :
              tx' = [tx EXCEPT ![c] = t]
      BY <2>8
    <3>0. /\ next \in Nat /\ rest \in SUBSET Page
          /\ rest \subseteq t0.dirty
      BY <1>0 DEF TxType
    <3> HIDE DEF next, rest
    <3>4. /\ t \in TxType
          /\ t.dbSize = t0.dbSize /\ t.dbOrigSize = t0.dbOrigSize
          /\ t.inJournal = t0.inJournal /\ t.dirty \subseteq t0.dirty
          /\ t.pos = next /\ t.n = t0.n
      BY <1>0, <3>0, <3>1 DEF TxType
    <3>2. TxOK(eState[c], "play", t, cache'[c], vers'[c])
      BY <2>1, <3>4, TypesOf DEF TxOK, Working
    <3>3. JournalOK(eState[c], "play", t, jrnl)
      <4>1. t0.pos \in Nat
        BY <1>0 DEF TxType
      <4> QED  BY <2>1, <3>4, <4>1, TypesOf DEF JournalOK, next
    <3> QED
      BY <2>1, <2>6, <2>8, <3>1, <3>2, <3>3, <3>4, UpdateTx DEF TypedStep
  <2>9. CASE /\ tx' = [tx EXCEPT ![c].pos = @ + 1]
             /\ UNCHANGED <<dbf, eState, cache, vers, pc>>
    BY <2>8, <2>9, Untouched
  <2>10. CASE /\ tx' = [tx EXCEPT ![c].pos = @ + 1, ![c].dirty = @ \ {rec.pg}]
              /\ \/ UNCHANGED <<cache, vers>>
                 \/ /\ cache' = [cache EXCEPT ![c][rec.pg] = rec.data]
                    /\ vers' \in {vers, [vers EXCEPT ![c] = rec.data]}
              /\ UNCHANGED <<eState, pc>>
    <3>1. /\ cache' \in [Conn -> Pages]
          /\ \A d \in Conn \ {c} : cache'[d] = cache[d]
      <4>1. CASE cache' = cache
        BY <4>1, Untouched
      <4>2. CASE cache' = [cache EXCEPT ![c][rec.pg] = rec.data]
        <5> DEFINE pages == [cache[c] EXCEPT ![rec.pg] = rec.data]
        <5>1. pages \in Pages /\ cache' = [cache EXCEPT ![c] = pages]
          BY <1>0, <2>3, <4>2 DEF Pages
        <5> HIDE DEF pages
        <5> QED  BY <5>1, UpdateCache
      <4> QED  BY <2>10, <4>1, <4>2
    <3>2. /\ vers' \in [Conn -> Content]
          /\ \A d \in Conn \ {c} : vers'[d] = vers[d]
      BY <2>3, <2>10, UpdateVers, Untouched
    <3> QED  BY <2>8, <2>10, <3>1, <3>2
  <2>11. CASE ToError(c) /\ UNCHANGED <<cache, vers, tx>>
    BY <2>1, <2>6, <2>11, ErrorTypes, Untouched
  <2> QED  BY <2>5, <2>7, <2>9, <2>10, <2>11
<1>4. CASE FinalizeJournal(c)
  <2>1. /\ pc[c] = "end" /\ UNCHANGED <<dbf, eState, vers>>
        /\ pc'[c] = "unlock"
    BY <1>4 DEF FinalizeJournal, Goto, TypeInv, PagerInv
  <2>2. eLock[c] \in {RESERVED_LOCK, EXCLUSIVE_LOCK}
    BY <2>1, InvOf DEF TypeInv, Matches
  <2>3. PICK t \in {[t0 EXCEPT !.jfd = FALSE, !.inJournal = {},
                               !.dirty = {}, !.todo = {}],
                    [t0 EXCEPT !.jfd = FALSE, !.inJournal = {},
                               !.dirty = {}, !.todo = {}, !.rc = "IOERR"]} :
            tx' = [tx EXCEPT ![c] = t]
    BY <1>4 DEF FinalizeJournal
  <2> DEFINE pages == [p \in Page |-> IF p > t0.dbSize THEN NotCached
                                      ELSE cache[c][p]]
  <2>4. /\ t \in TxType /\ t.inJournal = {} /\ t.dirty = {}
        /\ t.dbSize = t0.dbSize
    <3> DEFINE ended == [t0 EXCEPT !.jfd = FALSE, !.inJournal = {},
                                   !.dirty = {}, !.todo = {}]
    <3>1. /\ ended \in TxType /\ ended.inJournal = {} /\ ended.dirty = {}
          /\ ended.dbSize = t0.dbSize
      BY <1>0 DEF TxType
    <3>2. t = ended \/ t = [ended EXCEPT !.rc = "IOERR"]
      BY <2>3
    <3> HIDE DEF ended
    <3> QED  BY <3>1, <3>2 DEF TxType
  <2>6. pages \in Pages /\ cache' = [cache EXCEPT ![c] = pages]
    BY <1>0, <1>4 DEF FinalizeJournal, Pages
  <2> HIDE DEF pages
  <2>7. DiskOK'
    <3>1. faults' \in 0 .. MaxFaults
      BY <1>0, <1>4, FaultsBounded DEF FinalizeJournal
    <3>2. CASE jrnl' = jrnl
      BY <1>0, <2>1, <3>1, <3>2, FilesAlone
    <3>3. CASE jrnl' = NoJournal
      <4>1. jrnl' \in JournalType
        BY <1>0, <3>3, EmptySeq DEF NoJournal, JournalType, HdrState, NoMatch
      <4> QED
        BY <1>0, <2>1, <3>1, <3>3, <4>1, EmptySeq DEF DiskOK, NoJournal
    <3> QED  BY <1>4, <3>2, <3>3 DEF FinalizeJournal
  <2>8. TxOK(eState[c], "unlock", t, pages, vers[c])
    BY <2>1, <2>4, TypesOf DEF TxOK, Working
  <2>9. JournalOK(eState[c], "unlock", t, jrnl')
    BY DEF JournalOK
  <2> QED
    BY <2>1, <2>2, <2>3, <2>4, <2>6, <2>7, <2>8, <2>9, UpdateTx, UpdateCache,
       Untouched DEF TypedStep
<1> QED  BY <1>1, <1>2, <1>3, <1>4

(* The end of a transaction and of a process.                              *)
LEMMA EndTypes ==
    ASSUME TypeInv, NEW c \in Conn, StepOK(c),
           EndTransaction(c) \/ KeepReading(c) \/ pager_unlock(c) \/ Crash(c)
    PROVE  TypedStep(c)
<1> DEFINE t0 == tx[c]
<1>0. /\ t0 \in TxType /\ cache[c] \in Pages /\ vers[c] \in Content
      /\ DiskOK
  BY TypesOf DEF TypeInv
<1>d. DiskOK' /\ jrnl' = jrnl
  <2>1. UNCHANGED <<dbf, jrnl>>
    BY DEF EndTransaction, KeepReading, pager_unlock, Crash, diskVars
  <2>2. faults' \in 0 .. MaxFaults
    BY <1>0, FaultsBounded DEF EndTransaction, KeepReading, pager_unlock, Crash
  <2> QED  BY <1>0, <2>1, <2>2, FilesAlone
<1>1. CASE EndTransaction(c)
  <2> DEFINE t == [t0 EXCEPT !.rc = "OK"]
  <2>1. /\ pc[c] = "unlock" /\ UNCHANGED <<cache, vers>>
        /\ tx' = [tx EXCEPT ![c] = t]
        /\ eState[c] \in Writer \cup {"OPEN"}
    BY <1>1, InvOf DEF EndTransaction, TypeInv, Matches
  <2>2. /\ t \in TxType /\ t.inJournal = t0.inJournal /\ t.dirty = t0.dirty
        /\ t.dbSize = t0.dbSize /\ t.dbOrigSize = t0.dbOrigSize
    BY <1>0 DEF TxType
  <2> HIDE DEF t
  <2>3. t0.inJournal = {} /\ t0.dirty = {}
    BY <2>1, TypesOf DEF TxOK
  <2>4. CASE eState[c] = "OPEN" /\ eState'[c] = "OPEN" /\ pc'[c] = "vers"
    <3>1. TxOK("OPEN", "vers", t, cache[c], vers[c])
      BY <2>2, <2>3 DEF TxOK, Writer, CacheMod
    <3>2. JournalOK("OPEN", "vers", t, jrnl)
      BY DEF JournalOK, CacheMod
    <3> QED
      BY <1>d, <2>1, <2>2, <2>4, <3>1, <3>2, UpdateTx, Untouched DEF TypedStep
  <2>5. CASE eState[c] # "OPEN" /\ eState'[c] = "READER" /\ pc'[c] = "done"
    <3>1. TxOK("READER", "done", t, cache[c], vers[c])
      BY <2>1, <2>2, <2>3, <2>5, TypesOf DEF TxOK, Writer, CacheMod
    <3>2. JournalOK("READER", "done", t, jrnl)
      BY DEF JournalOK, CacheMod
    <3> QED
      BY <1>d, <2>1, <2>2, <2>5, <3>1, <3>2, UpdateTx, Untouched DEF TypedStep
  <2>6. CASE ToError(c)
    BY <1>d, <2>1, <2>2, <2>6, ErrorTypes, UpdateTx, Untouched
  <2> QED
    BY <1>1, <2>4, <2>5, <2>6
       DEF EndTransaction, isHot, Goto, TypeInv, PagerInv
<1>2. CASE KeepReading(c)
  <2>1. /\ UNCHANGED <<eState, cache, vers, tx>> /\ eState[c] = "READER"
        /\ pc'[c] = "idle"
    BY <1>2, InvOf DEF KeepReading, Goto, TypeInv, PagerInv, Matches
  <2>2. TxOK("READER", "idle", t0, cache[c], vers[c])
    BY <2>1, TypesOf DEF TxOK, Writer, CacheMod
  <2>3. JournalOK("READER", "idle", t0, jrnl)
    BY DEF JournalOK, CacheMod
  <2> QED  BY <1>d, <2>1, <2>2, <2>3, Untouched DEF TypedStep
<1>3. CASE pager_unlock(c) \/ Crash(c)
  <2>1. /\ eState'[c] = "OPEN" /\ pc'[c] = "idle"
        /\ tx' = [tx EXCEPT ![c] = NewTx]
        /\ cache' \in {cache, [cache EXCEPT ![c] = EmptyCache]}
        /\ vers' \in {vers, [vers EXCEPT ![c] = 0]}
    BY <1>3 DEF pager_unlock, Crash, Goto, TypeInv, PagerInv
  <2>2. /\ cache' \in [Conn -> Pages]
        /\ \A d \in Conn \ {c} : cache'[d] = cache[d]
    BY <2>1, UpdateCache, Untouched, ZeroIsContent
  <2>3. /\ vers' \in [Conn -> Content]
        /\ \A d \in Conn \ {c} : vers'[d] = vers[d]
    BY <2>1, UpdateVers, Untouched, ZeroIsContent
  <2>4. TxOK("OPEN", "idle", NewTx, cache'[c], vers'[c])
    BY DEF TxOK, NewTx, Writer, CacheMod
  <2>5. JournalOK("OPEN", "idle", NewTx, jrnl)
    BY DEF JournalOK, CacheMod
  <2>6. /\ tx' \in [Conn -> TxType] /\ tx'[c] = NewTx
        /\ \A d \in Conn \ {c} : tx'[d] = tx[d]
    BY <2>1, UpdateTx, ZeroIsContent
  <2> QED  BY <1>d, <2>1, <2>2, <2>3, <2>4, <2>5, <2>6 DEF TypedStep
<1> QED  BY <1>1, <1>2, <1>3

-----------------------------------------------------------------------------
(* Every step is typed.  StepOK comes from the lemmas of Pager_proofs.     *)
LEMMA StepTypes ==
    ASSUME TypeInv, NEW c \in Conn,
           PagerStep(c) \/ Finish(c) \/ Work(c) \/ Crash(c)
    PROVE  StepOK(c) /\ TypedStep(c)
<1>0. PagerInv
  BY DEF TypeInv
<1>1. CASE SharedLock(c)
  BY <1>0, <1>1, ReadSteps, ReadTypes
<1>2. CASE PagerStep(c)
  BY <1>0, <1>2, ReadSteps, CommitSteps, RollbackSteps, EndSteps, ReadTypes,
     CommitTypes, RollbackTypes, EndTypes DEF PagerStep
<1>3. CASE Finish(c)
  BY <1>0, <1>3, CommitSteps, RollbackSteps, EndSteps, CommitTypes,
     RollbackTypes, EndTypes DEF Finish
<1>4. CASE Work(c) /\ ~SharedLock(c)
  BY <1>0, <1>4, WorkSteps, WorkTypes
<1>5. CASE Crash(c)
  BY <1>0, <1>5, EndSteps, EndTypes
<1> QED  BY <1>1, <1>2, <1>3, <1>4, <1>5

LEMMA TypeInit == Init => TypeInv
<1> SUFFICES ASSUME Init PROVE TypeInv
  OBVIOUS
<1>1. PagerInv
  BY InitInv
<1>2. DiskOK
  <2>1. jrnl \in JournalType /\ jrnl = NoJournal
    BY PagerAssumption, EmptySeq
       DEF Init, NoJournal, JournalType, HdrState, NoMatch
  <2>2. InitPages \in Nat /\ InitPages \in Page
    BY PagerAssumption DEF Page
  <2>3. dbf \in [1 .. InitPages -> Content]
    BY ZeroIsContent DEF Init
  <2>4. dbf \in Seq(Content) /\ Len(dbf) = InitPages
    BY <2>2, <2>3, IsASeq, LenProperties
  <2>5. faults \in 0 .. MaxFaults
    BY PagerAssumption DEF Init
  <2> QED  BY <2>1, <2>2, <2>4, <2>5, EmptySeq DEF DiskOK, NoJournal
<1>3. /\ tx \in [Conn -> TxType] /\ vers \in [Conn -> Content]
      /\ cache \in [Conn -> [Page -> Content \cup {NotCached}]]
  BY ZeroIsContent DEF Init, Pages
<1>4. ASSUME NEW c \in Conn PROVE ConnOK(c)
  <2>1. /\ eState[c] = "OPEN" /\ pc[c] = "idle" /\ tx[c] = NewTx
    BY DEF Init
  <2>2. TxOK("OPEN", "idle", NewTx, cache[c], vers[c])
    BY DEF TxOK, NewTx, Writer, CacheMod
  <2>3. JournalOK("OPEN", "idle", NewTx, jrnl)
    BY DEF JournalOK, CacheMod
  <2> QED  BY <2>1, <2>2, <2>3 DEF ConnOK
<1> QED  BY <1>1, <1>2, <1>3, <1>4 DEF TypeInv

LEMMA TypeNext == TypeInv /\ [Next]_vars => TypeInv'
<1> SUFFICES ASSUME TypeInv, [Next]_vars PROVE TypeInv'
  OBVIOUS
<1>1. CASE Next
  <2>1. PICK c \in Conn : PagerStep(c) \/ Finish(c) \/ Work(c) \/ Crash(c)
    BY <1>1 DEF Next
  <2> QED  BY <2>1, StepTypes, TypedStepKeepsInv
<1>2. CASE UNCHANGED vars
  <2>1. PagerInv'
    BY <1>2, NextInv DEF TypeInv
  <2>2. DiskOK'
    BY <1>2 DEF vars, TypeInv, DiskOK
  <2> QED  BY <1>2, <2>1, <2>2 DEF vars, TypeInv, ConnOK
<1> QED  BY <1>1, <1>2

(* Every page that a commit or a rollback writes is a page of the database *)
(* with a content that some connection or journal holds, every journal     *)
(* record that a rollback reads is there, and no fault ever makes the file *)
(* empty.                                                                  *)
THEOREM PagerTypes == Spec => []TypeOK
<1>1. TypeInv => TypeOK
  <2> SUFFICES ASSUME TypeInv PROVE TypeOK
    OBVIOUS
  <2>1. /\ LockTypeOK /\ eState \in [Conn -> EState] /\ pc \in [Conn -> PC]
    BY DEF TypeInv, PagerInv, LockInv
  <2>2. /\ dbf \in Seq(Content) /\ Len(dbf) \in Page
        /\ jrnl.hdr \in HdrState /\ jrnl.nRec \in 0 .. Len(jrnl.recs)
        /\ jrnl.mxPg \in 0 .. MaxPage /\ jrnl.recs \in Seq(JournalRecord)
        /\ faults \in 0 .. MaxFaults
    <3>1. Len(jrnl.recs) \in Nat
      BY LenProperties DEF TypeInv, DiskOK, JournalType
    <3> QED  BY <3>1 DEF TypeInv, DiskOK, JournalType
  <2>3. ASSUME NEW c \in Conn
        PROVE  /\ tx[c].dbSize \in 0 .. MaxPage
               /\ tx[c].inJournal \subseteq 1 .. tx[c].dbOrigSize
               /\ tx[c].dirty \subseteq Page /\ tx[c].todo \subseteq Page
    BY TypesOf DEF TxOK, TxType
  <2>4. /\ cache \in [Conn -> [Page -> Content \cup {NotCached}]]
        /\ vers \in [Conn -> Content]
    BY DEF TypeInv
  <2> QED  BY <2>1, <2>2, <2>3, <2>4 DEF TypeOK
<1> QED  BY <1>1, TypeInit, TypeNext, PTL DEF Spec

-----------------------------------------------------------------------------
(* The refinement of TxnDb.  A step of c is one of its five, or none.      *)
TxnStep(c) ==
    \/ /\ UNCHANGED Committed
       /\ \/ Mode(c)' = Mode(c) /\ View(c)' = View(c)
          \/ Mode(c) = "none" /\ Mode(c)' = "read" /\ View(c)' = Committed
          \/ /\ Mode(c) = "read" /\ Mode(c)' = "write"
             /\ View(c) = Committed /\ View(c)' = View(c)
             /\ \A d \in Conn : Mode(d) # "write"
          \/ /\ Mode(c) = "write" /\ Mode(c)' = "write"
             /\ \E p \in DOMAIN View(c)' :
                    /\ DOMAIN View(c)' \in {DOMAIN View(c),
                                            DOMAIN View(c) \cup {p}}
                    /\ \A q \in DOMAIN View(c) \ {p} :
                           View(c)'[q] = View(c)[q]
          \/ Mode(c) # "none" /\ Mode(c)' = "none"
    \/ Mode(c) = "write" /\ Mode(c)' = "none" /\ Committed' = View(c)

LEMMA ModeView ==
    ASSUME NEW c
    PROVE  /\ Mode(c) = "none" => View(c) = [p \in {} |-> 0]
           /\ Mode(c)' = "none" => View(c)' = [p \in {} |-> 0]
           /\ Mode(c) = "none" <=> ~InTransaction(c)
           /\ Mode(c)' = "none" <=> ~InTransaction(c)'
BY DEF Mode, View

LEMMA TxnStepRefines ==
    ASSUME NEW c \in Conn, TxnStep(c),
           \A d \in Conn \ {c} : Mode(d)' = Mode(d) /\ View(d)' = View(d)
    PROVE  [Txn!TxnNext]_(Txn!txnVars)
<1> DEFINE m == [d \in Conn |-> Mode(d)]
           v == [d \in Conn |-> View(d)]
<1>1. /\ m' = [m EXCEPT ![c] = Mode(c)'] /\ v' = [v EXCEPT ![c] = View(c)']
      /\ \A d \in Conn : m[d] = Mode(d) /\ v[d] = View(d)
      /\ \A d \in Conn \ {c} : v'[d] = v[d]
      /\ m'[c] = Mode(c)' /\ v'[c] = View(c)'
  OBVIOUS
<1>2. CASE UNCHANGED Committed /\ Mode(c)' = Mode(c) /\ View(c)' = View(c)
  <2>1. m' = m /\ v' = v
    BY <1>2
  <2> QED  BY <1>2, <2>1 DEF Txn!txnVars
<1>3. CASE /\ UNCHANGED Committed
           /\ Mode(c) = "none" /\ Mode(c)' = "read" /\ View(c)' = Committed
  <2>1. Txn!BeginRead(c)
    BY <1>1, <1>3 DEF Txn!BeginRead
  <2> QED  BY <2>1 DEF Txn!TxnNext
<1>4. CASE /\ UNCHANGED Committed
           /\ Mode(c) = "read" /\ Mode(c)' = "write"
           /\ View(c) = Committed /\ View(c)' = View(c)
           /\ \A d \in Conn : Mode(d) # "write"
  <2>1. v' = v
    BY <1>4
  <2>2. Txn!BeginWrite(c)
    BY <1>1, <1>4, <2>1 DEF Txn!BeginWrite
  <2> QED  BY <2>2 DEF Txn!TxnNext
<1>5. CASE /\ UNCHANGED Committed
           /\ Mode(c) = "write" /\ Mode(c)' = "write"
           /\ \E p \in DOMAIN View(c)' :
                  /\ DOMAIN View(c)' \in {DOMAIN View(c),
                                          DOMAIN View(c) \cup {p}}
                  /\ \A q \in DOMAIN View(c) \ {p} :
                         View(c)'[q] = View(c)[q]
  <2>1. m' = m
    BY <1>5
  <2>2. Txn!Write(c)
    BY <1>1, <1>5, <2>1 DEF Txn!Write
  <2> QED  BY <2>2 DEF Txn!TxnNext
<1>6. CASE /\ UNCHANGED Committed /\ Mode(c) # "none" /\ Mode(c)' = "none"
  <2>1. Txn!Abandon(c)
    BY <1>1, <1>6, ModeView DEF Txn!Abandon, Txn!NoView
  <2> QED  BY <2>1 DEF Txn!TxnNext
<1>7. CASE Mode(c) = "write" /\ Mode(c)' = "none" /\ Committed' = View(c)
  <2>1. Txn!Commit(c)
    BY <1>1, <1>7, ModeView DEF Txn!Commit, Txn!NoView
  <2> QED  BY <2>1 DEF Txn!TxnNext
<1> QED  BY <1>2, <1>3, <1>4, <1>5, <1>6, <1>7 DEF TxnStep

(* What the files stand for, when no complete journal is there.            *)
LEMMA CommittedSame ==
    ASSUME dbf' = dbf,
           jrnl' = jrnl \/ (jrnl.hdr # "valid" /\ jrnl'.hdr # "valid")
    PROVE  Committed' = Committed
<1>1. CASE jrnl' = jrnl
  <2>1. \A p : Original(p)' = Original(p)
    BY <1>1 DEF Original, PageOnDisk
  <2> QED  BY <1>1, <2>1 DEF Committed
<1>2. CASE jrnl.hdr # "valid" /\ jrnl'.hdr # "valid"
  BY <1>2 DEF Committed
<1> QED  BY <1>1, <1>2

(* A step outside of any transaction.                                      *)
LEMMA NoTxn ==
    ASSUME NEW c \in Conn, ~InTransaction(c), ~InTransaction(c)',
           Committed' = Committed
    PROVE  TxnStep(c)
BY ModeView DEF TxnStep

(* A write transaction that goes on.                                       *)
LEMMA StillWriting ==
    ASSUME NEW c \in Conn, InTransaction(c), InTransaction(c)',
           eState[c] \in Writer, eState'[c] \in Writer,
           Committed' = Committed, tx'[c].dbSize = tx[c].dbSize,
           \A p \in 2 .. tx[c].dbSize :
               (IF cache'[c][p] # NotCached THEN cache'[c][p]
                ELSE PageOnDisk(p)')
               = (IF cache[c][p] # NotCached THEN cache[c][p]
                  ELSE PageOnDisk(p))
    PROVE  TxnStep(c)
<1>1. Mode(c)' = Mode(c)
  BY DEF Mode, Writer, CacheMod
<1>2. View(c)' = View(c)
  BY DEF View
<1> QED  BY <1>1, <1>2 DEF TxnStep
=============================================================================

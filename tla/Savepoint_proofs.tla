-------------------------- MODULE Savepoint_proofs --------------------------
(***************************************************************************)
(* The pager's values inside a write transaction stay within their ranges, *)
(* and no page is lost, for any number of pages, savepoints, segments of   *)
(* the journal and faults: TypeOK and NoPageLost.                          *)
(***************************************************************************)
EXTENDS Savepoint, TLAPS, SequenceTheorems, WellFoundedInduction

\* The units of a journal file, the records of the sub-journal, an element
\* of aSavepoint and what the pager is doing.
HdrUnit ==
    [k : {"hdr"}, magic : BOOLEAN, nRec : Nat, init : {Own, Other},
     mxPg : 0 .. MaxPage]
RecUnit(data) ==
    [k : {"rec"}, pg : Page, data : data, cksum : {Own, Other, Torn}]
Unit(data) == HdrUnit \cup RecUnit(data) \cup {Pad}
SubRec(data) == [pg : Page, data : data]
Save ==
    [nOrig : Page, iOffset : Nat, iHdrOffset : Nat, iSubRec : Nat,
     pInSavepoint : SUBSET Page]
Op == {"none", "write", "commit", "spill", "savepoint", "rollback", "hot"}
Cur ==
    [op : Op, p : Nat, todo : SUBSET Page, off : Nat, n : Nat, szJ : Nat,
     ck : {Own, Other}, sub : Nat, done : SUBSET Page]
Pages(data) == [Page -> data \cup {NotCached}]

Typed ==
    /\ setup \in SetupType
    /\ dbf \in Seq(Contents) /\ Len(dbf) \in Page
    /\ jrnl \in Seq(Unit(Contents)) /\ sub \in Seq(SubRec(Contents))
    /\ faults \in 0 .. MaxFaults /\ written \in 0 .. MaxWrites
    /\ dbSize \in 0 .. MaxPage /\ dbOrigSize \in 0 .. MaxPage
    /\ j \in [off : Nat, hdr : Nat, nRec : Nat, open : BOOLEAN]
    /\ sp \in Seq(Save) /\ Len(sp) <= setup.saves
    /\ cur \in Cur
    /\ cache \in Pages(Contents)

\* The flags of pages.
FlagsOK ==
    /\ dirty \subseteq Cached(Page) /\ needSync \subseteq Cached(Page)
    /\ inJournal \subseteq 1 .. dbOrigSize
    /\ eState \in {"OPEN", "READER"} \/ pc = "shrink" => inJournal = {}
    /\ eState \in {"OPEN", "READER", "WRITER_LOCKED"} \/ pc = "shrink" =>
           dirty = {} /\ sub = <<>>
    /\ eState = "OPEN" => needSync = {}

PC == {"idle", "open", "write", "zap", "nrec", "newhdr", "put", "pages", "end",
       "shrink", "play", "sub", "err", "dead"}
Modifying == {"WRITER_CACHEMOD", "WRITER_DBMOD"}
Writing == {"WRITER_LOCKED"} \cup Modifying

\* The state and the operation with which the pager is at each step.
Places(step, state, op) ==
    /\ step \in PC
    /\ step = "idle" => state \in {"READER"} \cup Writing /\ op = "none"
    /\ step = "open" => state = "WRITER_LOCKED" /\ op = "write"
    /\ step = "write" => state \in Modifying /\ op \in {"write", "commit"}
    /\ step \in {"zap", "nrec"} =>
           state \in Modifying /\ op \in {"commit", "spill"}
    /\ step \in {"newhdr", "put"} => state \in Modifying /\ op = "spill"
    /\ step = "pages" => state = "WRITER_DBMOD" /\ op = "commit"
    /\ step = "end" =>
           \/ op = "commit" /\ state \in {"WRITER_LOCKED", "WRITER_FINISHED"}
           \/ op = "rollback" /\ state \in Writing
           \/ op = "hot" /\ state = "OPEN"
    /\ step = "shrink" =>
           op = "none" /\ state \in {"WRITER_LOCKED", "WRITER_FINISHED"}
    /\ step = "play" =>
           \/ op = "savepoint" /\ state \in Writing
           \/ op = "rollback" /\ state \in Modifying
           \/ op = "hot" /\ state = "OPEN"
    /\ step = "sub" => op = "savepoint" /\ state \in Writing
    /\ step = "err" => op = "none" /\ state \in Writing
    /\ step = "dead" => op = "none" /\ state = "OPEN"
ControlOK == Places(pc, eState, cur.op)

\* No record is about a page beyond the n-th.
RecBound(file, n) ==
    \A i \in 1 .. Len(file) : file[i].k = "rec" => file[i].pg <= n

\* A journal as it may be left beside a database of n pages: if it is hot,
\* it gives the database back a size that is not zero and not larger.
Left(file, n) ==
    /\ RecBound(file, n)
    /\ file # <<>> => file[1] \in HdrUnit
    /\ file # <<>> /\ file[1].magic =>
           /\ 1 <= file[1].mxPg /\ file[1].mxPg <= n
           /\ RecBound(file, file[1].mxPg)

\* The journal of a transaction on a database that had n pages.
Mine(file, n) ==
    /\ file # <<>> /\ file[1] \in HdrUnit
    /\ file[1].mxPg = n /\ RecBound(file, n)

JournalOK ==
    /\ Left(jrnl, Len(dbf))
    /\ j.off <= Len(jrnl)
    /\ pc = "play" => cur.szJ <= Len(jrnl)
    /\ cur.op = "hot" => IsHotJournal /\ j.open
    /\ eState = "READER" \/ pc = "shrink" =>
           ~IsHotJournal /\ RecBound(jrnl, dbSize)
    /\ eState = "WRITER_LOCKED" => ~IsHotJournal /\ RecBound(jrnl, dbOrigSize)
    /\ eState \in CacheMod /\ pc # "shrink" =>
           /\ Mine(jrnl, dbOrigSize) /\ j.open /\ j.off >= Sector
           /\ jrnl[1].magic \/ j.hdr = 0
    /\ pc = "newhdr" => jrnl[1].magic

\* The pages beyond the end of the file are among those in S.
Covered(S) == \A p \in Page : Len(dbf) < p /\ p <= dbSize => p \in S

SizeOK ==
    /\ eState # "OPEN" => dbSize >= 1
    /\ eState \in {"WRITER_LOCKED"} \cup CacheMod =>
           1 <= dbOrigSize /\ dbOrigSize <= dbSize /\ dbOrigSize <= Len(dbf)
    /\ eState \in Modifying /\ cur.op # "rollback" => Covered(dirty)
    /\ eState \in {"OPEN", "READER", "WRITER_LOCKED", "WRITER_FINISHED"}
       \/ pc = "end" => dbSize <= Len(dbf)
    /\ pc = "play" /\ cur.op = "rollback" =>
           \/ cur.off = 0 /\ cur.n = 0 /\ cur.szJ = Len(jrnl)
           \/ dbSize <= Len(dbf)

WorkOK ==
    /\ pc \in {"open", "write"} =>
           /\ cur.p \in Page /\ cur.todo # {} /\ written < MaxWrites
           /\ \A q \in cur.todo : q <= dbSize + 1
    /\ cur.op = "spill" => cur.p \in dirty
    /\ pc = "pages" =>
           /\ cur.todo \subseteq dirty /\ Covered(cur.todo)
           /\ \A q \in cur.todo : q <= dbSize

\* The savepoints are nested in size too.
SavesOK ==
    /\ eState \in {"OPEN", "READER"} \/ pc = "shrink" => sp = <<>>
    /\ cur.op # "rollback" =>
           \A i \in 1 .. Len(sp) :
               /\ dbOrigSize <= sp[i].nOrig /\ sp[i].nOrig <= dbSize
               /\ \A k \in i .. Len(sp) : sp[i].nOrig <= sp[k].nOrig

SaveInv ==
    /\ Typed /\ FlagsOK /\ ControlOK /\ JournalOK
    /\ SizeOK /\ WorkOK /\ SavesOK

-----------------------------------------------------------------------------
(* Helpers.                                                                *)

LEMMA Constants ==
    ASSUME setup \in SetupType
    PROVE  /\ MaxPage \in Nat /\ MaxPage >= 1
           /\ Sector \in Nat /\ Sector >= 1
           /\ PagesPerSector \in Nat /\ PagesPerSector >= 1
           /\ MaxWrites \in Nat /\ MaxFaults \in Nat /\ setup.saves \in Nat
           /\ setup.last \in Page /\ InitPages \in Page
           /\ Blank \in Contents /\ Garbage \in Contents
           /\ NotCached \notin Contents
<1>1. /\ MaxPage \in Nat /\ MaxPage >= 1
      /\ Sector \in Nat /\ Sector >= 1
      /\ PagesPerSector \in Nat /\ PagesPerSector >= 1
      /\ MaxWrites \in Nat /\ MaxFaults \in Nat /\ setup.saves \in Nat
      /\ setup.last \in Page /\ InitPages \in Page /\ setup.init \in Page
  BY SavepointAssumption
     DEF SetupType, Sector, PagesPerSector, MaxWrites, MaxFaults, InitPages,
         Page
<1>2. Blank \in Contents /\ Garbage \in Contents /\ NotCached \notin Contents
  BY <1>1 DEF Blank, Garbage, NotCached, Content, Contents, Page
<1> QED  BY <1>1, <1>2

(* A header begins at or after the offset that asks for one.               *)
LEMMA HdrOffset ==
    ASSUME NEW off \in Nat, Sector \in Nat, Sector >= 1
    PROVE  /\ journalHdrOffset(off) \in Nat /\ journalHdrOffset(off) >= off
           /\ off = 0 => journalHdrOffset(off) = 0
BY DEF journalHdrOffset

(* What WriteAt does to a file that reaches to the offset.                 *)
LEMMA WriteAtEffect ==
    ASSUME NEW T, NEW s \in Seq(T), NEW off \in Nat, off <= Len(s),
           NEW b \in Seq(T)
    PROVE  /\ WriteAt(s, off, b) \in Seq(T)
           /\ Len(WriteAt(s, off, b)) =
                  IF off + Len(b) > Len(s) THEN off + Len(b) ELSE Len(s)
           /\ \A i \in 1 .. Len(WriteAt(s, off, b)) :
                  WriteAt(s, off, b)[i] =
                      IF i \in off + 1 .. off + Len(b) THEN b[i - off]
                      ELSE s[i]
<1> DEFINE n == IF off + Len(b) > Len(s) THEN off + Len(b) ELSE Len(s)
           w == [i \in 1 .. n |-> IF i \in off + 1 .. off + Len(b)
                                  THEN b[i - off] ELSE s[i]]
<1>1. Len(s) \in Nat /\ Len(b) \in Nat /\ n \in Nat
  OBVIOUS
<1>2. \A i \in 1 .. n : w[i] \in T
  <2> SUFFICES ASSUME NEW i \in 1 .. n PROVE w[i] \in T
    OBVIOUS
  <2>1. CASE i \in off + 1 .. off + Len(b)
    <3>1. i - off \in 1 .. Len(b)
      BY <1>1, <2>1
    <3>2. b[i - off] \in T
      BY <3>1, ElementOfSeq
    <3> QED  BY <2>1, <3>2
  <2>2. CASE i \notin off + 1 .. off + Len(b)
    <3>1. i \in 1 .. Len(s)
      BY <1>1, <2>2
    <3>2. s[i] \in T
      BY <3>1, ElementOfSeq
    <3> QED  BY <2>2, <3>2
  <2> QED  BY <2>1, <2>2
<1>3. w \in Seq(T) /\ Len(w) = n
  <2>1. w \in [1 .. n -> T]
    BY <1>2
  <2> QED  BY <1>1, <2>1
<1>4. WriteAt(s, off, b) = w
  BY DEF WriteAt
<1> QED  BY <1>3, <1>4

(* The smallest of some pages is one of them.                              *)
LEMMA SmallestIn ==
    ASSUME NEW S \in SUBSET Page, S # {}
    PROVE  Smallest(S) \in S /\ Smallest(S) \in Page
<1>1. S \subseteq Nat
  BY DEF Page
<1>2. PICK p \in S : \A q \in S : <<q, p>> \notin OpToRel(<, Nat)
  BY <1>1, WFMin, NatLessThanWellFounded, Zenon
<1>3. \A q \in S : ~(q < p)
  BY <1>1, <1>2, Zenon DEF OpToRel
<1>4. \A q \in S : p <= q
  BY <1>1, <1>3
<1> QED  BY <1>4 DEF Smallest

LEMMA SameSetup ==
    ASSUME setup' = setup
    PROVE  /\ Contents' = Contents /\ MaxWrites' = MaxWrites
           /\ MaxFaults' = MaxFaults /\ Sector' = Sector
           /\ PagesPerSector' = PagesPerSector /\ InitPages' = InitPages
           /\ Blank' = Blank
BY DEF Contents, MaxWrites, MaxFaults, Sector, PagesPerSector, InitPages, Blank
(* The first n elements of a sequence.                                     *)
LEMMA Prefix ==
    ASSUME NEW T, NEW s \in Seq(T), NEW n \in 0 .. Len(s)
    PROVE  /\ SubSeq(s, 1, n) \in Seq(T) /\ Len(SubSeq(s, 1, n)) = n
           /\ \A i \in 1 .. n : SubSeq(s, 1, n)[i] = s[i]
OBVIOUS

(* The journal beside a file that grows.                                   *)
LEMMA LeftGrows ==
    ASSUME setup \in SetupType, NEW file \in Seq(Unit(Contents)),
           NEW m \in Nat, NEW n \in Nat, m <= n, Left(file, m)
    PROVE  Left(file, n)
<1>0. MaxPage \in Nat
  BY Constants
<1>1. \A i \in 1 .. Len(file) : file[i].k = "rec" => file[i].pg \in Nat
  <2> SUFFICES ASSUME NEW i \in 1 .. Len(file), file[i].k = "rec"
               PROVE  file[i].pg \in Nat
    OBVIOUS
  <2>1. file[i] \in Unit(Contents)
    BY ElementOfSeq
  <2> QED  BY <1>0, <2>1 DEF Unit, HdrUnit, RecUnit, Pad, Page
<1>2. RecBound(file, n)
  BY <1>1 DEF Left, RecBound
<1>3. file # <<>> /\ file[1].magic => file[1].mxPg <= n
  BY <1>0 DEF Left, HdrUnit
<1> QED  BY <1>2, <1>3 DEF Left

(* The journal of a transaction is one that may be left.                   *)
LEMMA MineLeft ==
    ASSUME setup \in SetupType, NEW file \in Seq(Unit(Contents)),
           NEW n \in Nat, NEW size \in Nat, 1 <= n, n <= size, Mine(file, n)
    PROVE  Left(file, size)
<1>1. Left(file, n)
  BY DEF Left, Mine
<1> QED  BY <1>1, LeftGrows

(* A page is written to the file or right after its end.                   *)
LEMMA PutEffect ==
    ASSUME setup \in SetupType, dbf \in Seq(Contents), Len(dbf) \in Page,
           NEW p \in Page, NEW data \in Contents, p <= Len(dbf) + 1
    PROVE  /\ PutPage(p, data) \in Seq(Contents)
           /\ Len(PutPage(p, data)) \in Page
           /\ Len(PutPage(p, data)) = IF p > Len(dbf) THEN p ELSE Len(dbf)
<1> DEFINE b == <<data>>
           off == p - 1
<1>1. /\ off \in Nat /\ off <= Len(dbf) /\ b \in Seq(Contents)
      /\ Len(b) = 1 /\ Len(dbf) \in Nat /\ p \in Nat /\ off = p - 1
  BY Constants DEF Page
<1>2. PutPage(p, data) = WriteAt(dbf, off, b)
  BY DEF PutPage
<1> HIDE DEF b, off
<1>3. /\ WriteAt(dbf, off, b) \in Seq(Contents)
      /\ Len(WriteAt(dbf, off, b)) =
             IF off + Len(b) > Len(dbf) THEN off + Len(b) ELSE Len(dbf)
  <2> DEFINE s == dbf
             T == Contents
  <2>1. s \in Seq(T) /\ b \in Seq(T) /\ off <= Len(s)
    BY <1>1
  <2> HIDE DEF s, T
  <2>2. off \in Nat
    BY <1>1
  <2>3. WriteAt(s, off, b) \in Seq(T)
    BY <2>1, <2>2, WriteAtEffect, Zenon
  <2>4. Len(WriteAt(s, off, b)) =
            IF off + Len(b) > Len(s) THEN off + Len(b) ELSE Len(s)
    BY <2>1, <2>2, WriteAtEffect
  <2> QED  BY <2>3, <2>4 DEF s, T
<1> QED  BY <1>1, <1>2, <1>3, Constants DEF Page

(* The contents that pages have in the file and in the cache.              *)
LEMMA PageContents ==
    ASSUME SaveInv
    PROVE  /\ \A p \in Page : PageOnDisk(p) \in Contents
           /\ \A p \in Page : cache[p] # NotCached => cache[p] \in Contents
           /\ dbf[1] \in Contents
<1>1. /\ setup \in SetupType /\ dbf \in Seq(Contents) /\ Len(dbf) \in Page
      /\ cache \in Pages(Contents)
  BY DEF SaveInv, Typed
<1>2. \A i \in 1 .. Len(dbf) : dbf[i] \in Contents
  BY <1>1, ElementOfSeq
<1>3. /\ 1 \in 1 .. Len(dbf)
      /\ \A p \in Page : p <= Len(dbf) => p \in 1 .. Len(dbf)
  BY <1>1, Constants DEF Page
<1> QED  BY <1>1, <1>2, <1>3, Constants DEF PageOnDisk, Pages

(* The pages of a sector, as far as the database goes.                     *)
LEMMA SectorPages ==
    ASSUME setup \in SetupType, NEW p \in Page, dbSize \in 0 .. MaxPage
    PROVE  /\ SectorOf(p) \subseteq Page /\ p \in SectorOf(p)
           /\ p <= dbSize + 1 => \A q \in SectorOf(p) : q <= dbSize + 1
<1> DEFINE n == PagesPerSector
           pg1 == ((p - 1) \div n) * n + 1
<1>1. n \in Nat /\ n >= 1 /\ p \in Nat /\ p >= 1 /\ MaxPage \in Nat
  BY Constants DEF Page
<1>2. pg1 \in Nat /\ 1 <= pg1 /\ pg1 <= p /\ p <= pg1 + n - 1
  BY <1>1
<1> DEFINE end == pg1 + n - 1
           last == IF p > dbSize THEN p
                   ELSE IF end > dbSize THEN dbSize ELSE end
<1>3. SectorOf(p) = pg1 .. last
  BY DEF SectorOf
<1> HIDE DEF pg1, n
<1>4. /\ last \in Nat /\ p <= last /\ last <= MaxPage
      /\ p <= dbSize + 1 => last <= dbSize + 1
  BY <1>1, <1>2 DEF Page
<1> HIDE DEF last
<1> QED  BY <1>1, <1>2, <1>3, <1>4 DEF Page

-----------------------------------------------------------------------------
(* Transactions and savepoints.                                            *)

LEMMA BeginSafe ==
    ASSUME SaveInv, sqlite3PagerBegin
    PROVE  SaveInv'
<1>0. setup' = setup /\ setup \in SetupType
  BY DEF sqlite3PagerBegin, fileVars, SaveInv, Typed
<1>1. Typed'
  BY <1>0, Constants, SameSetup
     DEF SaveInv, Typed, sqlite3PagerBegin, Cur, Save, Pages, Page, fileVars,
         pageVars
<1>2. FlagsOK'
  BY <1>0, Constants, SameSetup
     DEF SaveInv, FlagsOK, sqlite3PagerBegin, Cached, Typed, Pages, Page,
         fileVars, pageVars
<1>3. ControlOK'
  BY <1>0, Constants, SameSetup
     DEF SaveInv, ControlOK, sqlite3PagerBegin, Places, PC, Writing,
         Modifying, fileVars, pageVars
<1>4. JournalOK'
  BY <1>0, Constants, SameSetup
     DEF SaveInv, JournalOK, sqlite3PagerBegin, Typed, IsHotJournal, CacheMod,
         ControlOK, Places, Writing, Modifying, SizeOK, fileVars, pageVars
<1>5. SizeOK'
  BY <1>0, Constants, SameSetup
     DEF SaveInv, SizeOK, sqlite3PagerBegin, Typed, Covered, CacheMod,
         ControlOK, Places, Writing, Modifying, SavesOK, WorkOK, fileVars,
         pageVars
<1>6. WorkOK'
  BY <1>0, Constants, SameSetup
     DEF SaveInv, WorkOK, sqlite3PagerBegin, Typed, Covered, ControlOK,
         Places, SizeOK, fileVars, pageVars
<1>7. SavesOK'
  BY <1>0, Constants, SameSetup
     DEF SaveInv, SavesOK, sqlite3PagerBegin, Typed, Save, ControlOK, Places,
         SizeOK, CacheMod, Writing, Modifying, fileVars, pageVars
<1> QED
  BY <1>1, <1>2, <1>3, <1>4, <1>5, <1>6, <1>7 DEF SaveInv

LEMMA OpenSavepointSafe ==
    ASSUME SaveInv, sqlite3PagerOpenSavepoint
    PROVE  SaveInv'
<1>0. setup' = setup /\ setup \in SetupType
  BY DEF sqlite3PagerOpenSavepoint, fileVars, SaveInv, Typed
<1>1. /\ eState \in Writing /\ dbSize \in Page /\ dbOrigSize <= dbSize
  BY DEF SaveInv, sqlite3PagerOpenSavepoint, InWrite, SizeOK, Typed, Page,
     Writing, Modifying, CacheMod
<1> DEFINE new == [nOrig |-> dbSize,
                   iOffset |-> IF j.off > 0 THEN j.off ELSE Sector,
                   iHdrOffset |-> 0, iSubRec |-> Len(sub),
                   pInSavepoint |-> {}]
<1>2. new \in Save /\ new.nOrig = dbSize
  BY <1>0, <1>1, Constants DEF SaveInv, Typed, Save
<1>3. /\ sp' = Append(sp, new) /\ sp \in Seq(Save) /\ Len(sp) < setup.saves
  BY DEF SaveInv, Typed, sqlite3PagerOpenSavepoint
<1> HIDE DEF new
<1>4. /\ sp' \in Seq(Save) /\ Len(sp') = Len(sp) + 1 /\ sp'[Len(sp) + 1] = new
      /\ \A i \in 1 .. Len(sp) : sp'[i] = sp[i]
  BY <1>2, <1>3
<1>5. Typed'
  <2>1. Len(sp') <= setup'.saves
    BY <1>0, <1>3, <1>4, Constants
  <2> QED
    BY <1>0, <1>4, <2>1, SameSetup
       DEF SaveInv, Typed, sqlite3PagerOpenSavepoint, fileVars, pageVars
<1>6. FlagsOK'
  BY <1>0, Constants, SameSetup
     DEF SaveInv, FlagsOK, sqlite3PagerOpenSavepoint, Cached, Typed, Pages,
         Page, InWrite, fileVars, pageVars
<1>7. ControlOK'
  BY <1>0, Constants, SameSetup
     DEF SaveInv, ControlOK, sqlite3PagerOpenSavepoint, Places, PC, Writing,
         Modifying, InWrite, fileVars, pageVars
<1>8. JournalOK'
  BY <1>0, Constants, SameSetup
     DEF SaveInv, JournalOK, sqlite3PagerOpenSavepoint, Typed, IsHotJournal,
         CacheMod, ControlOK, Places, Writing, Modifying, SizeOK, InWrite,
         fileVars, pageVars
<1>9. SizeOK'
  BY <1>0, Constants, SameSetup
     DEF SaveInv, SizeOK, sqlite3PagerOpenSavepoint, Typed, Covered, CacheMod,
         ControlOK, Places, Writing, Modifying, SavesOK, WorkOK, InWrite,
         fileVars, pageVars
<1>10. WorkOK'
  BY <1>0, Constants, SameSetup
     DEF SaveInv, WorkOK, sqlite3PagerOpenSavepoint, Typed, Covered,
         ControlOK, Places, SizeOK, InWrite, fileVars, pageVars
<1>11. SavesOK'
  <2>1. \A i \in 1 .. Len(sp) :
            /\ dbOrigSize <= sp[i].nOrig /\ sp[i].nOrig <= dbSize
            /\ \A k \in i .. Len(sp) : sp[i].nOrig <= sp[k].nOrig
    BY DEF SaveInv, SavesOK, ControlOK, Places, sqlite3PagerOpenSavepoint,
       InWrite
  <2>2. /\ UNCHANGED <<dbSize, dbOrigSize, eState, cur>> /\ pc' = "idle"
        /\ Len(sp) \in Nat
    BY <1>3 DEF sqlite3PagerOpenSavepoint, InWrite
  <2>3. dbSize \in Nat
    BY DEF SaveInv, Typed
  <2> QED  BY <1>1, <1>2, <1>4, <2>1, <2>2, <2>3
           DEF SavesOK, Writing, Modifying
<1> QED
  BY <1>5, <1>6, <1>7, <1>8, <1>9, <1>10, <1>11 DEF SaveInv

LEMMA ReleaseSafe ==
    ASSUME SaveInv, NEW i \in 1 .. Len(sp), ReleaseSavepoint(i)
    PROVE  SaveInv'
<1>0. setup' = setup /\ setup \in SetupType
  BY DEF ReleaseSavepoint, fileVars, SaveInv, Typed
<1>1. i - 1 \in 0 .. Len(sp) /\ sp \in Seq(Save) /\ Len(sp) <= setup.saves
  BY DEF SaveInv, Typed
<1>2. /\ sp' \in Seq(Save) /\ Len(sp') = i - 1
      /\ \A k \in 1 .. i - 1 : sp'[k] = sp[k]
  BY <1>1, Prefix DEF ReleaseSavepoint
<1>3. Typed'
  <2>1. sub' \in Seq(SubRec(Contents))
    BY DEF SaveInv, Typed, ReleaseSavepoint
  <2>2. Len(sp') <= setup'.saves
    BY <1>0, <1>1, <1>2, Constants
  <2> QED
    BY <1>0, <1>2, <2>1, <2>2, SameSetup
       DEF SaveInv, Typed, ReleaseSavepoint, fileVars, pageVars
<1>4. FlagsOK'
  BY <1>0, Constants, SameSetup
     DEF SaveInv, FlagsOK, ReleaseSavepoint, Cached, Typed, Pages, Page,
         InWrite, fileVars, pageVars
<1>5. ControlOK'
  BY <1>0, Constants, SameSetup
     DEF SaveInv, ControlOK, ReleaseSavepoint, Places, PC, Writing, Modifying,
         InWrite, fileVars, pageVars
<1>6. JournalOK'
  BY <1>0, Constants, SameSetup
     DEF SaveInv, JournalOK, ReleaseSavepoint, Typed, IsHotJournal, CacheMod,
         ControlOK, Places, Writing, Modifying, SizeOK, InWrite, fileVars,
         pageVars
<1>7. SizeOK'
  BY <1>0, Constants, SameSetup
     DEF SaveInv, SizeOK, ReleaseSavepoint, Typed, Covered, CacheMod,
         ControlOK, Places, Writing, Modifying, SavesOK, WorkOK, InWrite,
         fileVars, pageVars
<1>8. WorkOK'
  BY <1>0, Constants, SameSetup
     DEF SaveInv, WorkOK, ReleaseSavepoint, Typed, Covered, ControlOK, Places,
         SizeOK, InWrite, fileVars, pageVars
<1>9. SavesOK'
  <2>1. /\ \A k \in 1 .. i - 1 : k \in 1 .. Len(sp)
        /\ \A k \in 1 .. i - 1 : \A m \in k .. i - 1 : m \in k .. Len(sp)
    BY <1>1
  <2>2. /\ UNCHANGED <<dbSize, dbOrigSize, eState, cur>> /\ pc' = "idle"
        /\ eState \in Writing /\ cur.op = "none"
    BY DEF ReleaseSavepoint, InWrite, SaveInv, ControlOK, Places, Writing,
       Modifying
  <2>3. \A k \in 1 .. i - 1 :
            /\ dbOrigSize <= sp'[k].nOrig /\ sp'[k].nOrig <= dbSize
            /\ \A m \in k .. i - 1 : sp'[k].nOrig <= sp'[m].nOrig
    <3>1. \A k \in 1 .. i - 1 : \A m \in k .. i - 1 : m \in 1 .. i - 1
      BY <1>1
    <3> QED  BY <1>2, <2>1, <2>2, <3>1 DEF SaveInv, SavesOK
  <2> QED  BY <1>2, <2>2, <2>3 DEF SavesOK, Writing, Modifying
<1> QED
  BY <1>3, <1>4, <1>5, <1>6, <1>7, <1>8, <1>9 DEF SaveInv

LEMMA RollbackToSafe ==
    ASSUME SaveInv, NEW i \in 0 .. Len(sp), RollbackTo(i)
    PROVE  SaveInv'
<1>0. setup' = setup /\ setup \in SetupType
  BY DEF RollbackTo, fileVars, SaveInv, Typed
<1>1. /\ sp \in Seq(Save) /\ Len(sp) <= setup.saves /\ dbSize \in 0 .. MaxPage
      /\ eState \in Writing /\ cur.op = "none" /\ pc = "idle"
      /\ j \in [off : Nat, hdr : Nat, nRec : Nat, open : BOOLEAN]
      /\ dbOrigSize \in Nat /\ dbOrigSize >= 1 /\ dbOrigSize <= dbSize
      /\ sub \in Seq(SubRec(Contents))
  BY DEF SaveInv, Typed, RollbackTo, InWrite, Writing, Modifying, ControlOK,
     Places, SizeOK, CacheMod
<1>2. /\ sp' \in Seq(Save) /\ Len(sp') = i
      /\ \A k \in 1 .. i : sp'[k] = sp[k]
  BY <1>1, Prefix DEF RollbackTo
<1>3. \A k \in 1 .. Len(sp) :
          /\ sp[k] \in Save
          /\ dbOrigSize <= sp[k].nOrig /\ sp[k].nOrig <= dbSize
          /\ \A m \in k .. Len(sp) : sp[k].nOrig <= sp[m].nOrig
  BY <1>1, ElementOfSeq DEF SaveInv, SavesOK
<1>4. /\ dbSize' \in Nat /\ dbOrigSize <= dbSize' /\ dbSize' <= dbSize
      /\ \A k \in 1 .. i : sp[k].nOrig <= dbSize'
  <2>1. CASE i = 0
    BY <1>1, <2>1 DEF RollbackTo
  <2>2. CASE i # 0
    <3>1. i \in 1 .. Len(sp) /\ dbSize' = sp[i].nOrig
          /\ \A k \in 1 .. i : k \in 1 .. Len(sp) /\ i \in k .. Len(sp)
      BY <1>1, <2>2 DEF RollbackTo
    <3>2. sp[i].nOrig \in Nat
      BY <1>3, <3>1, Constants DEF Save, Page
    <3> QED  BY <1>3, <3>1, <3>2
  <2> QED  BY <2>1, <2>2
<1>5. /\ cur' \in Cur /\ cur'.op = "savepoint" /\ cur'.szJ = j.off
  <2> DEFINE off == IF i = 0 THEN 0 ELSE sp[i].iOffset
             end == IF i = 0 THEN 0
                    ELSE IF sp[i].iHdrOffset # 0 THEN sp[i].iHdrOffset
                    ELSE j.off
             n == IF end > off THEN end - off ELSE 0
             subRec == IF i = 0 THEN Len(sub) ELSE sp[i].iSubRec
  <2>1. off \in Nat /\ end \in Nat /\ subRec \in Nat
    <3>1. CASE i = 0
      <4>1. Len(sub) \in Nat
        BY <1>1
      <4> QED  BY <3>1, <4>1
    <3>2. CASE i # 0
      <4>1. i \in 1 .. Len(sp) /\ j.off \in Nat
        BY <1>1, <3>2
      <4>2. sp[i].iOffset \in Nat /\ sp[i].iHdrOffset \in Nat
            /\ sp[i].iSubRec \in Nat
        BY <1>3, <4>1 DEF Save
      <4> QED  BY <3>2, <4>1, <4>2
    <3> QED  BY <3>1, <3>2
  <2>2. n \in Nat
    BY <2>1
  <2>3. cur' = [Idle EXCEPT !.op = "savepoint", !.p = i, !.off = off, !.n = n,
                            !.szJ = j.off, !.sub = subRec]
    BY DEF RollbackTo
  <2> HIDE DEF off, n, subRec
  <2>4. i \in Nat /\ j.off \in Nat
    BY <1>1
  <2> QED  BY <2>1, <2>2, <2>3, <2>4 DEF Idle, Cur, Op, Own, Other
<1>6. Typed'
  <2>1. Len(sp') <= setup'.saves /\ dbSize' \in 0 .. MaxPage
    <3>1. Len(sp) \in Nat /\ i <= Len(sp) /\ setup.saves \in Nat
          /\ MaxPage \in Nat
      BY <1>0, <1>1, Constants
    <3>2. Len(sp') <= setup'.saves
      BY <1>0, <1>1, <1>2, <3>1
    <3> QED  BY <1>1, <1>4, <3>1, <3>2
  <2>2. UNCHANGED <<dbf, jrnl, sub, faults, written, dbOrigSize, j, cache>>
    BY DEF RollbackTo, fileVars, pageVars
  <2> QED  BY <1>0, <1>2, <1>5, <2>1, <2>2, SameSetup DEF SaveInv, Typed
<1>7. FlagsOK'
  BY <1>0, Constants, SameSetup
     DEF SaveInv, FlagsOK, RollbackTo, Cached, Typed, Pages, Page, InWrite,
         Idle, fileVars, pageVars
<1>8. ControlOK'
  <2>1. pc' = "play" /\ eState' = eState
    BY DEF RollbackTo
  <2> QED  BY <1>1, <1>5, <2>1 DEF ControlOK, Places, PC
<1>9. JournalOK'
  <2>1. /\ UNCHANGED <<dbf, jrnl, j, eState, dbOrigSize>> /\ pc' = "play"
    BY DEF RollbackTo, fileVars
  <2> QED  BY <1>0, <1>1, <1>5, <2>1, SameSetup
           DEF SaveInv, JournalOK, Writing, Modifying, IsHotJournal, CacheMod
<1>10. SizeOK'
  <2>1. UNCHANGED <<dbf, jrnl, dirty, eState, dbOrigSize>> /\ pc' = "play"
    BY DEF RollbackTo, fileVars, pageVars
  <2>2. /\ eState = "WRITER_LOCKED" => dbSize <= Len(dbf)
        /\ eState \in Modifying => Covered(dirty)
        /\ dbOrigSize <= Len(dbf) /\ Len(dbf) \in Nat
    BY <1>1 DEF SaveInv, SizeOK, Typed, Writing, Modifying, CacheMod
  <2>3. Covered(dirty) => Covered(dirty)'
    BY <1>1, <1>4, <2>1, Constants DEF Covered, Page
  <2> QED
    BY <1>1, <1>4, <1>5, <2>1, <2>2, <2>3
       DEF SizeOK, Writing, Modifying, CacheMod
<1>11. WorkOK'
  BY <1>5 DEF WorkOK, RollbackTo
<1>12. SavesOK'
  <2>1. UNCHANGED <<eState, dbOrigSize>> /\ pc' = "play"
    BY DEF RollbackTo
  <2>2. \A k \in 1 .. i : \A m \in k .. i :
            k \in 1 .. Len(sp) /\ m \in k .. Len(sp) /\ m \in 1 .. i
    BY <1>1
  <2>3. \A k \in 1 .. i :
            /\ dbOrigSize <= sp'[k].nOrig /\ sp'[k].nOrig <= dbSize'
            /\ \A m \in k .. i : sp'[k].nOrig <= sp'[m].nOrig
    <3>1. \A k \in 1 .. i : k \in k .. i
      BY <1>1
    <3> QED  BY <1>2, <1>3, <1>4, <2>2, <3>1
  <2> QED  BY <1>1, <1>2, <2>1, <2>3 DEF SavesOK, Writing, Modifying
<1> QED
  BY <1>6, <1>7, <1>8, <1>9, <1>10, <1>11, <1>12 DEF SaveInv

LEMMA RolledBackToSafe ==
    ASSUME SaveInv, RolledBackTo
    PROVE  SaveInv'
<1>0. setup' = setup /\ setup \in SetupType
  BY DEF RolledBackTo, fileVars, SaveInv, Typed
<1>1. cur' \in Cur
  BY DEF RolledBackTo, Idle, Cur, Op, Own, Other
<1>2. Typed'
  BY <1>0, <1>1, SameSetup DEF SaveInv, Typed, RolledBackTo, fileVars, pageVars
<1>3. FlagsOK'
  BY <1>0, Constants, SameSetup
     DEF SaveInv, FlagsOK, RolledBackTo, Cached, Typed, Pages, Page, Idle,
         fileVars, pageVars
<1>4. ControlOK'
  BY <1>0, Constants, SameSetup
     DEF SaveInv, ControlOK, RolledBackTo, Places, PC, Writing, Modifying,
         Idle, fileVars, pageVars
<1>5. JournalOK'
  BY <1>0, Constants, SameSetup
     DEF SaveInv, JournalOK, RolledBackTo, Typed, IsHotJournal, CacheMod,
         ControlOK, Places, Writing, Modifying, SizeOK, Idle, fileVars,
         pageVars
<1>6. SizeOK'
  BY <1>0, Constants, SameSetup
     DEF SaveInv, SizeOK, RolledBackTo, Typed, Covered, CacheMod, ControlOK,
         Places, Writing, Modifying, SavesOK, WorkOK, Idle, fileVars, pageVars
<1>7. WorkOK'
  BY <1>0, Constants, SameSetup
     DEF SaveInv, WorkOK, RolledBackTo, Typed, Covered, ControlOK, Places,
         SizeOK, Idle, fileVars, pageVars
<1>8. SavesOK'
  BY <1>0, Constants, SameSetup
     DEF SaveInv, SavesOK, RolledBackTo, Typed, Save, ControlOK, Places,
         SizeOK, CacheMod, Writing, Modifying, Idle, fileVars, pageVars
<1> QED
  BY <1>2, <1>3, <1>4, <1>5, <1>6, <1>7, <1>8 DEF SaveInv

-----------------------------------------------------------------------------
(* The cache, and the steps that only say what comes next.                 *)

LEMMA ReadSafe ==
    ASSUME SaveInv, NEW p \in Page, readDbPage(p)
    PROVE  SaveInv'
<1>0. setup' = setup /\ setup \in SetupType
  BY DEF readDbPage, fileVars, SaveInv, Typed
<1>1. cache' \in Pages(Contents)
  <2>1. PageOnDisk(p) \in Contents /\ cache \in Pages(Contents)
    BY PageContents DEF SaveInv, Typed
  <2> QED  BY <2>1 DEF readDbPage, Pages
<1>2. Typed'
  BY <1>0, <1>1, SameSetup DEF SaveInv, Typed, readDbPage, fileVars
<1>3. FlagsOK'
  <2>1. cache'[p] # NotCached /\ \A q \in Page \ {p} : cache'[q] = cache[q]
    BY <1>0, PageContents, Constants DEF readDbPage, SaveInv, Typed, Pages
  <2> QED  BY <2>1 DEF SaveInv, FlagsOK, Cached, readDbPage
<1>4. ControlOK'
  BY <1>0, Constants, SameSetup
     DEF SaveInv, ControlOK, readDbPage, Places, PC, Writing, Modifying,
         PageOnDisk, fileVars, pageVars
<1>5. JournalOK'
  BY <1>0, Constants, SameSetup
     DEF SaveInv, JournalOK, readDbPage, Typed, IsHotJournal, CacheMod,
         ControlOK, Places, Writing, Modifying, SizeOK, PageOnDisk, fileVars,
         pageVars
<1>6. SizeOK'
  BY <1>0, Constants, SameSetup
     DEF SaveInv, SizeOK, readDbPage, Typed, Covered, CacheMod, ControlOK,
         Places, Writing, Modifying, SavesOK, WorkOK, PageOnDisk, fileVars,
         pageVars
<1>7. WorkOK'
  BY <1>0, Constants, SameSetup
     DEF SaveInv, WorkOK, readDbPage, Typed, Covered, ControlOK, Places,
         SizeOK, PageOnDisk, fileVars, pageVars
<1>8. SavesOK'
  BY <1>0, Constants, SameSetup
     DEF SaveInv, SavesOK, readDbPage, Typed, Save, ControlOK, Places, SizeOK,
         CacheMod, Writing, Modifying, PageOnDisk, fileVars, pageVars
<1> QED
  BY <1>2, <1>3, <1>4, <1>5, <1>6, <1>7, <1>8 DEF SaveInv

LEMMA RecycleSafe ==
    ASSUME SaveInv, NEW p \in Page, Recycle(p)
    PROVE  SaveInv'
<1>0. setup' = setup /\ setup \in SetupType
  BY DEF Recycle, fileVars, SaveInv, Typed
<1>1. Typed'
  BY <1>0, Constants, SameSetup
     DEF SaveInv, Typed, Recycle, Cur, Save, Pages, Page, fileVars, pageVars
<1>2. FlagsOK'
  BY <1>0, Constants, SameSetup
     DEF SaveInv, FlagsOK, Recycle, Cached, Typed, Pages, Page, fileVars,
         pageVars
<1>3. ControlOK'
  BY <1>0, Constants, SameSetup
     DEF SaveInv, ControlOK, Recycle, Places, PC, Writing, Modifying,
         fileVars, pageVars
<1>4. JournalOK'
  BY <1>0, Constants, SameSetup
     DEF SaveInv, JournalOK, Recycle, Typed, IsHotJournal, CacheMod,
         ControlOK, Places, Writing, Modifying, SizeOK, fileVars, pageVars
<1>5. SizeOK'
  BY <1>0, Constants, SameSetup
     DEF SaveInv, SizeOK, Recycle, Typed, Covered, CacheMod, ControlOK,
         Places, Writing, Modifying, SavesOK, WorkOK, fileVars, pageVars
<1>6. WorkOK'
  BY <1>0, Constants, SameSetup
     DEF SaveInv, WorkOK, Recycle, Typed, Covered, ControlOK, Places, SizeOK,
         fileVars, pageVars
<1>7. SavesOK'
  BY <1>0, Constants, SameSetup
     DEF SaveInv, SavesOK, Recycle, Typed, Save, ControlOK, Places, SizeOK,
         CacheMod, Writing, Modifying, fileVars, pageVars
<1> QED
  BY <1>1, <1>2, <1>3, <1>4, <1>5, <1>6, <1>7 DEF SaveInv

LEMMA StressSafe ==
    ASSUME SaveInv, NEW p \in Page, pagerStress(p)
    PROVE  SaveInv'
<1>0. setup' = setup /\ setup \in SetupType
  BY DEF pagerStress, fileVars, SaveInv, Typed
<1>1. cur' \in Cur /\ cur'.op = "spill" /\ cur'.p = p
  <2>1. p \in Nat
    BY <1>0, Constants DEF Page
  <2>2. cur' = [Idle EXCEPT !.op = "spill", !.p = p]
    BY DEF pagerStress
  <2> QED  BY <2>1, <2>2 DEF Idle, Cur, Op, Own, Other
<1>2. /\ pc = "idle" /\ eState \in Modifying /\ cur.op = "none"
      /\ pc' \in {"zap", "put"} /\ eState' = eState /\ p \in dirty
  BY DEF pagerStress, InWrite, SaveInv, FlagsOK, ControlOK, Places, Modifying
<1>3. Typed'
  BY <1>0, <1>1, SameSetup DEF SaveInv, Typed, pagerStress, fileVars, pageVars
<1>4. FlagsOK'
  BY <1>0, Constants, SameSetup
     DEF SaveInv, FlagsOK, pagerStress, Cached, Typed, Pages, Page, InWrite,
         Idle, fileVars, pageVars
<1>5. ControlOK'
  BY <1>1, <1>2 DEF ControlOK, Places, PC, Modifying
<1>6. JournalOK'
  BY <1>0, Constants, SameSetup
     DEF SaveInv, JournalOK, pagerStress, Typed, IsHotJournal, CacheMod,
         ControlOK, Places, Writing, Modifying, SizeOK, InWrite, Idle,
         fileVars, pageVars
<1>7. SizeOK'
  BY <1>0, Constants, SameSetup
     DEF SaveInv, SizeOK, pagerStress, Typed, Covered, CacheMod, ControlOK,
         Places, Writing, Modifying, SavesOK, WorkOK, InWrite, Idle, fileVars,
         pageVars
<1>8. WorkOK'
  BY <1>0, Constants, SameSetup
     DEF SaveInv, WorkOK, pagerStress, Typed, Covered, ControlOK, Places,
         SizeOK, InWrite, Idle, fileVars, pageVars
<1>9. SavesOK'
  BY <1>0, Constants, SameSetup
     DEF SaveInv, SavesOK, pagerStress, Typed, Save, ControlOK, Places,
         SizeOK, CacheMod, Writing, Modifying, InWrite, Idle, fileVars,
         pageVars
<1> QED
  BY <1>3, <1>4, <1>5, <1>6, <1>7, <1>8, <1>9 DEF SaveInv

(* sqlite3PagerWrite of a page, and that of page 1 by a commit.            *)
LEMMA StartSafe ==
    ASSUME SaveInv, NEW p \in Page, NEW op \in {"write", "commit"},
           StartWrite(op, p), p <= dbSize + 1,
           eState = "WRITER_LOCKED" => op = "write"
    PROVE  SaveInv'
<1>0. setup' = setup /\ setup \in SetupType
  BY DEF StartWrite, fileVars, SaveInv, Typed
<1>1. /\ pc = "idle" /\ eState \in Writing /\ cur.op = "none"
      /\ dbSize \in 0 .. MaxPage
  BY DEF StartWrite, InWrite, SaveInv, ControlOK, Places, Writing, Modifying,
     Typed
<1>2. /\ SectorOf(p) \subseteq Page /\ p \in SectorOf(p)
      /\ \A q \in SectorOf(p) : q <= dbSize + 1
  BY <1>1, <1>0, SectorPages
<1> DEFINE todo == {q \in SectorOf(p) : q = p \/ q \notin inJournal}
<1>3. todo \in SUBSET Page /\ p \in todo /\ \A q \in todo : q <= dbSize + 1
  BY <1>2
<1>4. cur' = [Idle EXCEPT !.op = op, !.p = p, !.todo = todo]
  BY DEF StartWrite
<1> HIDE DEF todo
<1>5. cur' \in Cur /\ cur'.op = op /\ cur'.p = p /\ cur'.todo = todo
  <2>1. p \in Nat /\ op \in Op
    BY <1>0, Constants DEF Page, Op
  <2> QED  BY <1>3, <1>4, <2>1 DEF Idle, Cur, Own, Other
<1>6. /\ UNCHANGED <<fileVars, sub, faults, written, eState, dbSize, dbOrigSize,
                     j, inJournal, pageVars, sp>>
      /\ pc' = IF eState = "WRITER_LOCKED" THEN "open" ELSE "write"
      /\ written < MaxWrites
  BY DEF StartWrite
<1>7. Typed'
  BY <1>0, <1>5, <1>6, SameSetup DEF SaveInv, Typed, fileVars, pageVars
<1>8. FlagsOK'
  BY <1>6 DEF SaveInv, FlagsOK, Cached, pageVars
<1>9. ControlOK'
  BY <1>1, <1>5, <1>6 DEF ControlOK, Places, PC, Writing, Modifying
<1>10. JournalOK'
  BY <1>0, <1>1, <1>5, <1>6, SameSetup
     DEF SaveInv, JournalOK, IsHotJournal, fileVars
<1>11. SizeOK'
  BY <1>1, <1>5, <1>6 DEF SaveInv, SizeOK, Covered, fileVars, pageVars
<1>12. WorkOK'
  BY <1>0, <1>3, <1>5, <1>6, SameSetup DEF WorkOK
<1>13. SavesOK'
  BY <1>1, <1>6 DEF SaveInv, SavesOK
<1> QED
  BY <1>7, <1>8, <1>9, <1>10, <1>11, <1>12, <1>13 DEF SaveInv

LEMMA PhaseOneSafe ==
    ASSUME SaveInv, CommitPhaseOneDone
    PROVE  SaveInv'
<1>0. setup' = setup /\ setup \in SetupType
  BY DEF CommitPhaseOneDone, fileVars, SaveInv, Typed
<1>1. Typed'
  BY <1>0, Constants, SameSetup
     DEF SaveInv, Typed, CommitPhaseOneDone, Cur, Save, Pages, Page,
         MakeClean, fileVars, pageVars
<1>2. FlagsOK'
  BY <1>0, Constants, SameSetup
     DEF SaveInv, FlagsOK, CommitPhaseOneDone, Cached, Typed, Pages, Page,
         MakeClean, fileVars, pageVars
<1>3. ControlOK'
  BY <1>0, Constants, SameSetup
     DEF SaveInv, ControlOK, CommitPhaseOneDone, Places, PC, Writing,
         Modifying, MakeClean, fileVars, pageVars
<1>4. JournalOK'
  BY <1>0, Constants, SameSetup
     DEF SaveInv, JournalOK, CommitPhaseOneDone, Typed, IsHotJournal,
         CacheMod, ControlOK, Places, Writing, Modifying, SizeOK, MakeClean,
         fileVars, pageVars
<1>5. SizeOK'
  <2>1. /\ UNCHANGED <<dbf, dbSize, dbOrigSize>> /\ cur' = cur
        /\ eState = "WRITER_DBMOD" /\ eState' = "WRITER_FINISHED"
        /\ pc = "pages" /\ pc' = "end" /\ cur.todo = {}
    BY DEF CommitPhaseOneDone, SaveInv, ControlOK, Places, fileVars
  <2>2. dbSize <= Len(dbf)
    <3>1. /\ dbSize \in 0 .. MaxPage /\ Len(dbf) \in Nat /\ Covered({})
          /\ dbSize >= 1
      BY <2>1 DEF SaveInv, WorkOK, Typed, Page, SizeOK
    <3> QED  BY <1>0, <3>1, Constants DEF Covered, Page
  <2> QED  BY <2>1, <2>2 DEF SaveInv, SizeOK, CacheMod, Modifying
<1>6. WorkOK'
  BY <1>0, Constants, SameSetup
     DEF SaveInv, WorkOK, CommitPhaseOneDone, Typed, Covered, ControlOK,
         Places, SizeOK, MakeClean, fileVars, pageVars
<1>7. SavesOK'
  BY <1>0, Constants, SameSetup
     DEF SaveInv, SavesOK, CommitPhaseOneDone, Typed, Save, ControlOK, Places,
         SizeOK, CacheMod, Writing, Modifying, MakeClean, fileVars, pageVars
<1> QED
  BY <1>1, <1>2, <1>3, <1>4, <1>5, <1>6, <1>7 DEF SaveInv

LEMMA NoChangeSafe ==
    ASSUME SaveInv, CommitNoChange
    PROVE  SaveInv'
<1>0. setup' = setup /\ setup \in SetupType
  BY DEF CommitNoChange, fileVars, SaveInv, Typed
<1>1. cur' \in Cur /\ cur'.op = "commit"
  BY DEF CommitNoChange, Idle, Cur, Op, Own, Other
<1>2. Typed'
  BY <1>0, <1>1, SameSetup
     DEF SaveInv, Typed, CommitNoChange, fileVars, pageVars
<1>3. FlagsOK'
  BY <1>0, Constants, SameSetup
     DEF SaveInv, FlagsOK, CommitNoChange, Cached, Typed, Pages, Page, Idle,
         fileVars, pageVars
<1>4. ControlOK'
  BY <1>0, Constants, SameSetup
     DEF SaveInv, ControlOK, CommitNoChange, Places, PC, Writing, Modifying,
         Idle, fileVars, pageVars
<1>5. JournalOK'
  BY <1>0, Constants, SameSetup
     DEF SaveInv, JournalOK, CommitNoChange, Typed, IsHotJournal, CacheMod,
         ControlOK, Places, Writing, Modifying, SizeOK, Idle, fileVars,
         pageVars
<1>6. SizeOK'
  BY <1>0, Constants, SameSetup
     DEF SaveInv, SizeOK, CommitNoChange, Typed, Covered, CacheMod, ControlOK,
         Places, Writing, Modifying, SavesOK, WorkOK, Idle, fileVars, pageVars
<1>7. WorkOK'
  BY <1>0, Constants, SameSetup
     DEF SaveInv, WorkOK, CommitNoChange, Typed, Covered, ControlOK, Places,
         SizeOK, Idle, fileVars, pageVars
<1>8. SavesOK'
  BY <1>0, Constants, SameSetup
     DEF SaveInv, SavesOK, CommitNoChange, Typed, Save, ControlOK, Places,
         SizeOK, CacheMod, Writing, Modifying, Idle, fileVars, pageVars
<1> QED
  BY <1>2, <1>3, <1>4, <1>5, <1>6, <1>7, <1>8 DEF SaveInv

LEMMA RollbackSafe ==
    ASSUME SaveInv, sqlite3PagerRollback
    PROVE  SaveInv'
<1>0. setup' = setup /\ setup \in SetupType
  BY DEF sqlite3PagerRollback, fileVars, SaveInv, Typed
<1>1. /\ cur' \in Cur /\ cur'.op = "rollback" /\ cur'.szJ = Len(jrnl)
      /\ cur'.off = 0 /\ cur'.n = 0
  <2>1. Len(jrnl) \in Nat
    BY DEF SaveInv, Typed
  <2> QED
    BY <2>1 DEF sqlite3PagerRollback, Playback, Idle, Cur, Op, Own, Other
<1>2. Typed'
  BY <1>0, <1>1, SameSetup
     DEF SaveInv, Typed, sqlite3PagerRollback, fileVars, pageVars
<1>3. FlagsOK'
  BY <1>0, <1>1, Constants, SameSetup
     DEF SaveInv, FlagsOK, sqlite3PagerRollback, Cached, Typed, Pages, Page,
         InWrite, fileVars, pageVars
<1>4. ControlOK'
  BY <1>0, <1>1, Constants, SameSetup
     DEF SaveInv, ControlOK, sqlite3PagerRollback, Places, PC, Writing,
         Modifying, InWrite, fileVars, pageVars
<1>5. JournalOK'
  <2>1. /\ UNCHANGED <<dbf, jrnl, j, eState, dbSize, dbOrigSize>>
        /\ eState \in Writing /\ pc \in {"err", "idle"}
        /\ pc' \in {"end", "play"}
    BY DEF sqlite3PagerRollback, InWrite, fileVars, SaveInv, ControlOK, Places,
       Writing, Modifying
  <2>2. Len(jrnl) <= Len(jrnl)
    BY DEF SaveInv, Typed
  <2> QED  BY <1>0, <1>1, <2>1, <2>2, SameSetup
           DEF SaveInv, JournalOK, IsHotJournal, Writing, Modifying
<1>6. SizeOK'
  BY <1>0, <1>1, Constants, SameSetup
     DEF SaveInv, SizeOK, sqlite3PagerRollback, Typed, Covered, CacheMod,
         ControlOK, Places, Writing, Modifying, SavesOK, WorkOK, InWrite,
         fileVars, pageVars
<1>7. WorkOK'
  BY <1>0, <1>1, Constants, SameSetup
     DEF SaveInv, WorkOK, sqlite3PagerRollback, Typed, Covered, ControlOK,
         Places, SizeOK, InWrite, fileVars, pageVars
<1>8. SavesOK'
  BY <1>0, <1>1, Constants, SameSetup
     DEF SaveInv, SavesOK, sqlite3PagerRollback, Typed, Save, ControlOK,
         Places, SizeOK, CacheMod, Writing, Modifying, InWrite, fileVars,
         pageVars
<1> QED
  BY <1>2, <1>3, <1>4, <1>5, <1>6, <1>7, <1>8 DEF SaveInv

(* The start of a read transaction after the end of a process.             *)
LEMMA HotJournalSafe ==
    ASSUME SaveInv, HotJournal
    PROVE  SaveInv'
<1>0. setup' = setup /\ setup \in SetupType
  BY DEF HotJournal, fileVars, SaveInv, Typed
<1>1. /\ pc = "dead" /\ eState = "OPEN" /\ cur.op = "none"
      /\ UNCHANGED <<dbf, jrnl, sub, faults, written, dbOrigSize, inJournal,
                     dirty, needSync, sp>>
      /\ sp = <<>> /\ sub = <<>> /\ dirty = {} /\ needSync = {}
      /\ inJournal = {}
  BY DEF HotJournal, SaveInv, ControlOK, Places, fileVars, SavesOK, FlagsOK
<1>2. /\ jrnl \in Seq(Unit(Contents)) /\ Len(jrnl) \in Nat
      /\ Len(dbf) \in Page /\ Len(dbf) \in Nat /\ Left(jrnl, Len(dbf))
      /\ j \in [off : Nat, hdr : Nat, nRec : Nat, open : BOOLEAN]
      /\ cur \in Cur /\ cache \in Pages(Contents)
  BY DEF SaveInv, Typed, JournalOK, Page
<1>3. CASE /\ IsHotJournal /\ cur' = Playback("hot") /\ pc' = "play"
           /\ j' = [j EXCEPT !.hdr = Len(jrnl), !.open = TRUE]
           /\ UNCHANGED <<eState, dbSize, cache>>
  <2>1. /\ cur' \in Cur /\ cur'.op = "hot" /\ cur'.szJ = Len(jrnl)
        /\ cur'.off = 0 /\ cur'.n = 0
    BY <1>2, <1>3 DEF Playback, Idle, Cur, Op, Own, Other
  <2>2. /\ j' \in [off : Nat, hdr : Nat, nRec : Nat, open : BOOLEAN]
        /\ j'.off = j.off /\ j'.open
    BY <1>2, <1>3
  <2>3. Typed'
    BY <1>0, <1>1, <1>3, <2>1, <2>2, SameSetup DEF SaveInv, Typed
  <2>4. FlagsOK'
    BY <1>1, <1>3 DEF SaveInv, FlagsOK, Cached
  <2>5. ControlOK'
    BY <1>1, <1>3, <2>1 DEF ControlOK, Places, PC
  <2>6. JournalOK'
    BY <1>1, <1>2, <1>3, <2>1, <2>2
       DEF SaveInv, JournalOK, IsHotJournal, CacheMod
  <2>7. SizeOK' /\ WorkOK' /\ SavesOK'
    BY <1>1, <1>3, <2>1
       DEF SaveInv, SizeOK, WorkOK, SavesOK, Modifying, CacheMod
  <2> QED  BY <2>3, <2>4, <2>5, <2>6, <2>7 DEF SaveInv
<1>4. CASE /\ ~IsHotJournal /\ dbSize' = Len(dbf)
           /\ cache' = [EmptyCache EXCEPT ![1] = dbf[1]]
           /\ eState' = "READER" /\ pc' = "idle" /\ UNCHANGED <<cur, j>>
  <2>1. cache' \in Pages(Contents)
    BY <1>4, PageContents DEF EmptyCache, Pages
  <2>2. Typed'
    BY <1>0, <1>1, <1>2, <1>4, <2>1, SameSetup DEF SaveInv, Typed, Page
  <2>3. FlagsOK'
    BY <1>1, <1>4 DEF FlagsOK, SaveInv
  <2>4. ControlOK'
    BY <1>1, <1>4 DEF ControlOK, Places, PC
  <2>5. JournalOK'
    BY <1>1, <1>2, <1>4 DEF SaveInv, JournalOK, IsHotJournal, CacheMod, Left
  <2>6. SizeOK' /\ WorkOK' /\ SavesOK'
    BY <1>0, <1>1, <1>2, <1>4, Constants
       DEF SizeOK, WorkOK, SavesOK, Modifying, CacheMod, Page
  <2> QED  BY <2>2, <2>3, <2>4, <2>5, <2>6 DEF SaveInv
<1> QED  BY <1>3, <1>4 DEF HotJournal

-----------------------------------------------------------------------------
(* The journal file.                                                       *)

LEMMA FunSeq ==
    ASSUME NEW T, NEW n \in Nat, NEW f \in [1 .. n -> T]
    PROVE  f \in Seq(T) /\ Len(f) = n
OBVIOUS

(* What a journal file is made of.                                         *)
LEMMA UnitKinds ==
    ASSUME NEW u \in Unit(Contents)
    PROVE  /\ u.k = "hdr" => u \in HdrUnit
           /\ u.k = "rec" => u \in RecUnit(Contents)
BY DEF Unit, HdrUnit, RecUnit, Pad

(* A write that leaves the first unit alone.                               *)
LEMMA JournalWrite ==
    ASSUME setup \in SetupType, NEW file \in Seq(Unit(Contents)), NEW n \in Nat,
           NEW off \in Nat, off >= 1, off <= Len(file),
           NEW b \in Seq(Unit(Contents)), Mine(file, n), RecBound(b, n)
    PROVE  /\ WriteAt(file, off, b) \in Seq(Unit(Contents))
           /\ Mine(WriteAt(file, off, b), n)
           /\ Len(WriteAt(file, off, b)) \in Nat
           /\ Len(file) <= Len(WriteAt(file, off, b))
           /\ off + Len(b) <= Len(WriteAt(file, off, b))
           /\ WriteAt(file, off, b)[1] = file[1]
<1> DEFINE T == Unit(Contents)
           w == WriteAt(file, off, b)
<1>1. file \in Seq(T) /\ b \in Seq(T)
  OBVIOUS
<1> HIDE DEF T
<1>2. w \in Seq(T)
  BY <1>1, WriteAtEffect, Zenon
<1>3. Len(w) = IF off + Len(b) > Len(file) THEN off + Len(b) ELSE Len(file)
  BY <1>1, WriteAtEffect
<1>4. \A i \in 1 .. Len(w) :
          w[i] = IF i \in off + 1 .. off + Len(b) THEN b[i - off] ELSE file[i]
  BY <1>1, WriteAtEffect
<1> HIDE DEF w
<1>5. Len(file) \in Nat /\ Len(b) \in Nat /\ Len(w) \in Nat
  BY <1>1, <1>2
<1>6. Len(file) <= Len(w) /\ off + Len(b) <= Len(w)
  BY <1>3, <1>5
<1>7. 1 \in 1 .. Len(w) /\ w[1] = file[1] /\ w # <<>>
  <2>1. 1 \in 1 .. Len(w) /\ 1 \notin off + 1 .. off + Len(b)
    BY <1>5, <1>6
  <2> QED  BY <1>2, <1>4, <2>1
<1>8. RecBound(w, n)
  <2> SUFFICES ASSUME NEW i \in 1 .. Len(w), w[i].k = "rec"
               PROVE  w[i].pg <= n
    BY DEF RecBound
  <2>1. CASE i \in off + 1 .. off + Len(b)
    <3>1. i - off \in 1 .. Len(b) /\ w[i] = b[i - off]
      BY <1>4, <1>5, <2>1
    <3> QED  BY <3>1 DEF RecBound
  <2>2. CASE i \notin off + 1 .. off + Len(b)
    <3>1. i \in 1 .. Len(file) /\ w[i] = file[i]
      BY <1>3, <1>4, <1>5, <2>2
    <3> QED  BY <3>1 DEF RecBound, Mine
  <2> QED  BY <2>1, <2>2
<1>9. Mine(w, n)
  BY <1>7, <1>8 DEF Mine
<1> QED  BY <1>2, <1>5, <1>6, <1>7, <1>9 DEF T, w

(* A header fills a sector.                                                *)
IsHdrSector(s, n) ==
    /\ s \in Seq(Unit(Contents)) /\ Len(s) = Sector
    /\ s[1] \in HdrUnit /\ s[1].mxPg = n /\ ~s[1].magic
    /\ \A i \in 1 .. Len(s) : s[i].k # "rec"

LEMMA HdrSectorUnits ==
    ASSUME setup \in SetupType, NEW n \in 0 .. MaxPage
    PROVE  IsHdrSector(HdrSector(Hdr(FALSE, 0, Own, n)), n)
<1> DEFINE s == HdrSector(Hdr(FALSE, 0, Own, n))
           h == Hdr(FALSE, 0, Own, n)
<1>1. Sector \in Nat /\ Sector >= 1
  BY Constants
<1>2. h \in HdrUnit /\ h.mxPg = n /\ ~h.magic /\ h.k # "rec"
  BY DEF Hdr, HdrUnit
<1>3. Pad \in Unit(Contents) /\ Pad.k # "rec" /\ h \in Unit(Contents)
  BY <1>2 DEF Unit, Pad
<1>4. s = [i \in 1 .. Sector |-> IF i = 1 THEN h ELSE Pad]
  BY DEF HdrSector
<1> HIDE DEF h, s
<1>5. s \in [1 .. Sector -> Unit(Contents)]
  BY <1>3, <1>4
<1>6. s \in Seq(Unit(Contents)) /\ Len(s) = Sector
  BY <1>1, <1>5, FunSeq
<1>7. \A i \in 1 .. Sector : s[i] = IF i = 1 THEN h ELSE Pad
  BY <1>4
<1>8. s[1] = h
  <2>1. 1 \in 1 .. Sector
    BY <1>1
  <2> QED  BY <1>7, <2>1, Zenon
<1>9. IsHdrSector(s, n)
  BY <1>2, <1>3, <1>6, <1>7, <1>8 DEF IsHdrSector
<1> QED  BY <1>9 DEF s

LEMMA AgedJournal ==
    ASSUME setup \in SetupType, NEW file \in Seq(Unit(Contents)),
           NEW n \in Nat, RecBound(file, n)
    PROVE  /\ Aged(file) \in Seq(Unit(Contents)) /\ Len(Aged(file)) = Len(file)
           /\ RecBound(Aged(file), n)
<1> DEFINE w == Aged(file)
<1>1. w = [i \in 1 .. Len(file) |->
              IF file[i].k = "hdr" THEN [file[i] EXCEPT !.init = Other]
              ELSE IF file[i].k = "rec" /\ file[i].cksum = Own
              THEN [file[i] EXCEPT !.cksum = Other] ELSE file[i]]
  BY DEF Aged
<1> HIDE DEF w
<1>2. ASSUME NEW i \in 1 .. Len(file)
      PROVE  w[i] \in Unit(Contents) /\ (w[i].k = "rec" => w[i].pg <= n)
  <2> DEFINE u == file[i]
  <2>1. u \in Unit(Contents) /\ (u.k = "rec" => u.pg <= n)
    BY ElementOfSeq DEF RecBound
  <2>2. w[i] = IF u.k = "hdr" THEN [u EXCEPT !.init = Other]
               ELSE IF u.k = "rec" /\ u.cksum = Own
               THEN [u EXCEPT !.cksum = Other] ELSE u
    BY <1>1
  <2> HIDE DEF u
  <2>3. CASE u.k = "hdr"
    <3>1. u \in HdrUnit /\ w[i] = [u EXCEPT !.init = Other]
      BY <2>1, <2>2, <2>3, UnitKinds
    <3>2. w[i] \in HdrUnit /\ w[i].k = "hdr"
      BY <3>1 DEF HdrUnit
    <3> QED  BY <3>2 DEF Unit
  <2>4. CASE u.k = "rec" /\ u.cksum = Own
    <3>1. u \in RecUnit(Contents) /\ w[i] = [u EXCEPT !.cksum = Other]
      BY <2>1, <2>2, <2>4, UnitKinds
    <3>2. w[i] \in RecUnit(Contents) /\ w[i].pg = u.pg
      BY <3>1 DEF RecUnit
    <3> QED  BY <2>1, <2>4, <3>2 DEF Unit
  <2>5. CASE u.k # "hdr" /\ ~(u.k = "rec" /\ u.cksum = Own)
    BY <2>1, <2>2, <2>5
  <2> QED  BY <2>3, <2>4, <2>5
<1>3. w \in [1 .. Len(file) -> Unit(Contents)]
  BY <1>1, <1>2
<1>4. w \in Seq(Unit(Contents)) /\ Len(w) = Len(file)
  BY <1>3
<1>5. RecBound(w, n)
  BY <1>2, <1>4 DEF RecBound
<1> QED  BY <1>4, <1>5 DEF w

(* The journal that a transaction begins.                                  *)
LEMMA OpenedMine ==
    ASSUME SaveInv, eState = "WRITER_LOCKED"
    PROVE  /\ OpenedHdr \in Seq(Unit(Contents)) /\ Mine(OpenedHdr, dbOrigSize)
           /\ Len(OpenedHdr) \in Nat /\ Sector <= Len(OpenedHdr)
           /\ Len(jrnl) <= Len(OpenedHdr) /\ ~OpenedHdr[1].magic
<1> DEFINE b == HdrSector(Hdr(FALSE, 0, Own, dbOrigSize))
           s == Aged(jrnl)
           T == Unit(Contents)
           w == WriteAt(s, 0, b)
<1>0. /\ setup \in SetupType /\ jrnl \in Seq(T) /\ dbOrigSize \in 0 .. MaxPage
      /\ dbOrigSize \in Nat /\ RecBound(jrnl, dbOrigSize) /\ Len(jrnl) \in Nat
  BY DEF SaveInv, Typed, JournalOK
<1>1. s \in Seq(T) /\ Len(s) = Len(jrnl) /\ RecBound(s, dbOrigSize)
  BY <1>0, AgedJournal
<1>2. /\ b \in Seq(T) /\ Len(b) = Sector
      /\ b[1] \in HdrUnit /\ b[1].mxPg = dbOrigSize /\ ~b[1].magic
      /\ \A i \in 1 .. Len(b) : b[i].k # "rec"
  <2>1. b = HdrSector(Hdr(FALSE, 0, Own, dbOrigSize))
    OBVIOUS
  <2>2. IsHdrSector(b, dbOrigSize)
    BY <1>0, <2>1, HdrSectorUnits
  <2> HIDE DEF b, s, w
  <2> QED  BY <2>2 DEF IsHdrSector
<1>3. OpenedHdr = w /\ Sector \in Nat /\ Sector >= 1 /\ 0 <= Len(s) /\ 0 \in Nat
  BY <1>0, <1>1, Constants DEF OpenedHdr
<1> HIDE DEF T, b, s
<1>4. w \in Seq(T)
  BY <1>1, <1>2, <1>3, WriteAtEffect, Zenon
<1>5. Len(w) = IF 0 + Len(b) > Len(s) THEN 0 + Len(b) ELSE Len(s)
  BY <1>1, <1>2, <1>3, WriteAtEffect
<1>6. \A i \in 1 .. Len(w) :
          w[i] = IF i \in 0 + 1 .. 0 + Len(b) THEN b[i - 0] ELSE s[i]
  BY <1>1, <1>2, <1>3, WriteAtEffect
<1> HIDE DEF w
<1>7. Len(w) \in Nat /\ Sector <= Len(w) /\ Len(jrnl) <= Len(w)
  BY <1>0, <1>1, <1>2, <1>3, <1>5
<1>8. w # <<>> /\ w[1] = b[1]
  BY <1>2, <1>3, <1>4, <1>6, <1>7
<1>9. RecBound(w, dbOrigSize)
  <2> SUFFICES ASSUME NEW i \in 1 .. Len(w), w[i].k = "rec"
               PROVE  w[i].pg <= dbOrigSize
    BY DEF RecBound
  <2>1. CASE i <= Len(b)
    BY <1>2, <1>3, <1>6, <2>1
  <2>2. CASE ~(i <= Len(b))
    <3>1. i \in 1 .. Len(s) /\ w[i] = s[i]
      BY <1>0, <1>1, <1>2, <1>3, <1>5, <1>6, <2>2
    <3> QED  BY <1>1, <3>1 DEF RecBound
  <2> QED  BY <2>1, <2>2
<1> QED  BY <1>2, <1>3, <1>4, <1>7, <1>8, <1>9 DEF Mine, T

(* The magic number and nRec go into a header, and nowhere else.           *)
Complete(file, at, n) ==
    [file EXCEPT ![at + 1].magic = TRUE, ![at + 1].nRec = n]

LEMMA Completed ==
    ASSUME setup \in SetupType, NEW file \in Seq(Unit(Contents)),
           NEW size \in Nat, Mine(file, size), NEW at \in Nat, NEW n \in Nat
    PROVE  /\ Complete(file, at, n) \in Seq(Unit(Contents))
           /\ Len(Complete(file, at, n)) = Len(file)
           /\ Mine(Complete(file, at, n), size)
           /\ file[1].magic \/ at = 0 => Complete(file, at, n)[1].magic
<1> DEFINE w == Complete(file, at, n)
<1>1. /\ DOMAIN w = 1 .. Len(file)
      /\ \A i \in 1 .. Len(file) :
             w[i] = IF i = at + 1
                    THEN [file[i] EXCEPT !.magic = TRUE, !.nRec = n]
                    ELSE file[i]
  <2> DEFINE one == [file EXCEPT ![at + 1].magic = TRUE]
  <2>1. DOMAIN file = 1 .. Len(file) /\ at + 1 \in Nat
    OBVIOUS
  <2>2. /\ DOMAIN one = 1 .. Len(file)
        /\ \A i \in 1 .. Len(file) :
               one[i] = IF i = at + 1 THEN [file[i] EXCEPT !.magic = TRUE]
                        ELSE file[i]
    BY <2>1
  <2>3. w = [one EXCEPT ![at + 1].nRec = n]
    BY DEF Complete
  <2> HIDE DEF one, w
  <2>4. /\ DOMAIN w = 1 .. Len(file)
        /\ \A i \in 1 .. Len(file) :
               w[i] = IF i = at + 1 THEN [one[i] EXCEPT !.nRec = n] ELSE one[i]
    BY <2>2, <2>3
  <2> QED  BY <2>2, <2>4
<1> HIDE DEF w
<1>2. ASSUME NEW u \in Unit(Contents), NEW v,
             v = [u EXCEPT !.magic = TRUE, !.nRec = n]
      PROVE  /\ v \in Unit(Contents) /\ v.k = u.k
             /\ u.k = "rec" => v.pg = u.pg
             /\ u \in HdrUnit => v \in HdrUnit /\ v.mxPg = u.mxPg /\ v.magic
  <2>1. CASE u \in HdrUnit
    <3>1. /\ v \in HdrUnit /\ v.k = u.k /\ u.k = "hdr"
          /\ v.mxPg = u.mxPg /\ v.magic
      BY <1>2, <2>1 DEF HdrUnit
    <3> QED  BY <3>1 DEF Unit
  <2>2. CASE u \in RecUnit(Contents)
    <3>1. v = u
      BY <1>2, <2>2 DEF RecUnit
    <3>2. u.k = "rec" /\ (u \in HdrUnit => u.k = "hdr")
      BY <2>2 DEF RecUnit, HdrUnit
    <3> QED  BY <3>1, <3>2
  <2>3. CASE u = Pad
    <3>1. v = u
      BY <1>2, <2>3 DEF Pad
    <3>2. u.k = "pad" /\ (u \in HdrUnit => u.k = "hdr")
      BY <2>3 DEF Pad, HdrUnit
    <3> QED  BY <3>1, <3>2
  <2> QED  BY <2>1, <2>2, <2>3 DEF Unit
<1>3. ASSUME NEW i \in 1 .. Len(file)
      PROVE  /\ w[i] \in Unit(Contents) /\ w[i].k = file[i].k
             /\ file[i].k = "rec" => w[i].pg = file[i].pg
             /\ file[i] \in HdrUnit =>
                    w[i] \in HdrUnit /\ w[i].mxPg = file[i].mxPg
             /\ file[i] \in HdrUnit /\ file[i].magic => w[i].magic
             /\ file[i] \in HdrUnit /\ i = at + 1 => w[i].magic
  <2>1. file[i] \in Unit(Contents)
    BY ElementOfSeq
  <2>2. CASE i = at + 1
    <3>1. w[i] = [file[i] EXCEPT !.magic = TRUE, !.nRec = n]
      BY <1>1, <2>2
    <3> QED  BY <1>2, <2>1, <3>1
  <2>3. CASE i # at + 1
    <3>1. w[i] = file[i]
      BY <1>1, <2>3
    <3> QED  BY <2>1, <2>3, <3>1
  <2> QED  BY <2>2, <2>3
<1>4. w \in [1 .. Len(file) -> Unit(Contents)]
  <2>1. w = [i \in DOMAIN w |-> w[i]]
    BY DEF w, Complete
  <2> QED  BY <1>1, <1>3, <2>1
<1>5. w \in Seq(Unit(Contents)) /\ Len(w) = Len(file) /\ Len(file) \in Nat
  BY <1>4
<1>6. 1 \in 1 .. Len(file) /\ file[1] \in HdrUnit /\ file[1].mxPg = size
  BY <1>5 DEF Mine
<1>7. w # <<>> /\ RecBound(w, size)
  BY <1>3, <1>5, <1>6 DEF RecBound, Mine
<1> QED  BY <1>3, <1>5, <1>6, <1>7 DEF Mine, w

-----------------------------------------------------------------------------
(* Failures.                                                               *)

LEMMA FaultsBound ==
    ASSUME SaveInv, setup' = setup, NoFault \/ Fault
    PROVE  faults' \in 0 .. MaxFaults
<1>1. faults \in 0 .. MaxFaults /\ MaxFaults \in Nat
  BY Constants DEF SaveInv, Typed
<1> QED  BY <1>1 DEF NoFault, Fault

(* The pager forgets everything: what is left is what the files hold.      *)
LEMMA DeadSafe ==
    ASSUME SaveInv, Dead, setup' = setup, written' = written,
           faults' \in 0 .. MaxFaults,
           dbf' \in Seq(Contents), Len(dbf') \in Page,
           jrnl' \in Seq(Unit(Contents)), Left(jrnl', Len(dbf'))
    PROVE  SaveInv'
<1>0. setup \in SetupType /\ written \in 0 .. MaxWrites
  BY DEF SaveInv, Typed
<1>1. /\ Len(dbf') \in Nat /\ Len(jrnl') \in Nat /\ setup.saves \in Nat
      /\ MaxPage \in Nat
  BY <1>0, Constants DEF Page
<1>2. cur' \in Cur /\ cur'.op = "none"
  BY DEF Dead, Idle, Cur, Op, Own, Other
<1>3. /\ j' \in [off : Nat, hdr : Nat, nRec : Nat, open : BOOLEAN]
      /\ j'.off = 0
  BY DEF Dead, NewJ
<1>4. cache' \in Pages(Contents)
  BY DEF Dead, EmptyCache, Pages
<1>5. /\ pc' = "dead" /\ eState' = "OPEN" /\ dirty' = {} /\ needSync' = {}
      /\ sub' = <<>> /\ sp' = <<>> /\ inJournal' = {}
      /\ dbSize' = 0 /\ dbOrigSize' = 0
  BY DEF Dead
<1>6. Typed'
  BY <1>0, <1>1, <1>2, <1>3, <1>4, <1>5, SameSetup DEF Typed
<1>7. FlagsOK' /\ ControlOK'
  BY <1>2, <1>5 DEF FlagsOK, ControlOK, Places, PC
<1>8. JournalOK'
  BY <1>1, <1>2, <1>3, <1>5 DEF JournalOK, CacheMod
<1>9. SizeOK' /\ WorkOK' /\ SavesOK'
  BY <1>1, <1>2, <1>5 DEF SizeOK, WorkOK, SavesOK, CacheMod, Modifying
<1> QED  BY <1>6, <1>7, <1>8, <1>9 DEF SaveInv

(* What is known of a transaction that has begun its journal.              *)
LEMMA InTxn ==
    ASSUME SaveInv, eState \in Modifying, pc # "shrink"
    PROVE  /\ setup \in SetupType /\ jrnl \in Seq(Unit(Contents))
           /\ dbf \in Seq(Contents) /\ Len(dbf) \in Page /\ Len(dbf) \in Nat
           /\ j \in [off : Nat, hdr : Nat, nRec : Nat, open : BOOLEAN]
           /\ j.off \in Nat /\ j.off >= 1 /\ j.off <= Len(jrnl)
           /\ j.hdr \in Nat /\ j.nRec \in Nat /\ Len(jrnl) \in Nat
           /\ Mine(jrnl, dbOrigSize) /\ (jrnl[1].magic \/ j.hdr = 0)
           /\ dbOrigSize \in Nat /\ dbOrigSize >= 1 /\ dbOrigSize <= dbSize
           /\ dbSize \in Nat /\ dbOrigSize <= Len(dbf)
           /\ dbOrigSize \in 0 .. MaxPage /\ j.open /\ j.off >= Sector
<1>1. /\ setup \in SetupType /\ jrnl \in Seq(Unit(Contents))
      /\ dbf \in Seq(Contents) /\ Len(dbf) \in Page
      /\ j \in [off : Nat, hdr : Nat, nRec : Nat, open : BOOLEAN]
      /\ j.off <= Len(jrnl) /\ j.off >= Sector /\ j.open
      /\ Mine(jrnl, dbOrigSize) /\ (jrnl[1].magic \/ j.hdr = 0)
      /\ dbOrigSize >= 1 /\ dbOrigSize <= dbSize /\ dbOrigSize <= Len(dbf)
      /\ dbOrigSize \in 0 .. MaxPage /\ dbSize \in 0 .. MaxPage
  BY DEF SaveInv, Typed, JournalOK, SizeOK, Modifying, CacheMod
<1>2. MaxPage \in Nat /\ Sector \in Nat /\ Sector >= 1 /\ Len(jrnl) \in Nat
  BY <1>1, Constants
<1>3. Len(dbf) \in Nat /\ j.off \in Nat /\ j.hdr \in Nat /\ j.nRec \in Nat
  BY <1>1, <1>2 DEF Page
<1> QED  BY <1>1, <1>2, <1>3

(* An error in a transaction that can only be rolled back now.             *)
LEMMA FailsSafe ==
    ASSUME SaveInv, Fails, setup' = setup, written' = written,
           faults' \in 0 .. MaxFaults, eState \in Modifying,
           cur.op # "rollback", pc # "shrink",
           UNCHANGED <<eState, sub, sp, inJournal, j, dbSize, dbOrigSize>>,
           cache' \in Pages(Contents), dirty \subseteq dirty',
           dirty' \subseteq Cached(Page)', needSync' \subseteq Cached(Page)',
           dbf' \in Seq(Contents), Len(dbf') \in Page, Len(dbf) <= Len(dbf'),
           jrnl' \in Seq(Unit(Contents)), Mine(jrnl', dbOrigSize),
           j.off <= Len(jrnl'), jrnl'[1].magic \/ j.hdr = 0
    PROVE  SaveInv'
<1>1. /\ setup \in SetupType /\ Len(dbf') \in Nat /\ Len(dbf) \in Nat
      /\ dbOrigSize \in Nat /\ 1 <= dbOrigSize /\ dbOrigSize <= dbSize
      /\ dbSize \in Nat /\ dbOrigSize <= Len(dbf) /\ dbSize >= 1
      /\ Covered(dirty)
  <2>1. Len(dbf') \in Nat
    BY SavepointAssumption DEF Page
  <2> QED  BY <2>1, InTxn DEF SaveInv, SizeOK
<1>2. cur' \in Cur /\ cur'.op = "none" /\ pc' = "err"
  BY DEF Fails, Idle, Cur, Op, Own, Other
<1>3. Typed'
  BY <1>1, <1>2, SameSetup DEF SaveInv, Typed
<1>4. FlagsOK'
  BY <1>2 DEF SaveInv, FlagsOK, Modifying
<1>5. ControlOK'
  BY <1>2 DEF ControlOK, Places, PC, Writing, Modifying
<1>6. JournalOK'
  <2>1. Left(jrnl', Len(dbf'))
    <3>1. dbOrigSize <= Len(dbf')
      BY <1>1
    <3> QED  BY <1>1, <3>1, MineLeft
  <2> QED  BY <1>2, <2>1, SameSetup
           DEF SaveInv, JournalOK, IsHotJournal, CacheMod, Modifying
<1>7. SizeOK'
  <2>1. Covered(dirty)'
    BY <1>1 DEF Covered, Page
  <2> QED  BY <1>1, <1>2, <2>1 DEF SizeOK, CacheMod, Modifying
<1>8. WorkOK' /\ SavesOK'
  BY <1>2 DEF SaveInv, WorkOK, SavesOK, Modifying
<1> QED  BY <1>3, <1>4, <1>5, <1>6, <1>7, <1>8 DEF SaveInv

LEMMA IoErrorSafe ==
    ASSUME SaveInv, IoError, setup' = setup, written' = written,
           faults' \in 0 .. MaxFaults, pc # "shrink",
           cur.op \in {"spill", "rollback", "hot"} \/ eState \in Modifying,
           dbf' \in Seq(Contents), Len(dbf') \in Page, Len(dbf) <= Len(dbf'),
           jrnl' \in Seq(Unit(Contents)), Left(jrnl', Len(dbf')),
           eState \in Modifying =>
               /\ Mine(jrnl', dbOrigSize) /\ j.off <= Len(jrnl')
               /\ jrnl'[1].magic \/ j.hdr = 0
    PROVE  SaveInv'
<1>1. CASE Dead
  BY <1>1, DeadSafe
<1>2. CASE /\ cur.op \notin {"spill", "rollback", "hot"} /\ Fails
           /\ UNCHANGED <<eState, pageVars, sub, sp, inJournal, j, dbSize,
                          dbOrigSize>>
  <2>1. /\ cache' \in Pages(Contents) /\ dirty \subseteq dirty'
        /\ dirty' \subseteq Cached(Page)' /\ needSync' \subseteq Cached(Page)'
        /\ UNCHANGED <<eState, sub, sp, inJournal, j, dbSize, dbOrigSize>>
    BY <1>2 DEF SaveInv, Typed, FlagsOK, Cached, pageVars
  <2> QED  BY <1>2, <2>1, FailsSafe
<1> QED  BY <1>1, <1>2 DEF IoError

(* The write of a page to the database file fails.                         *)
LEMMA WriteFailsSafe ==
    ASSUME SaveInv, NEW p \in Page, WritePageFails(p), setup' = setup,
           UNCHANGED <<jrnl, written>>, pc \in {"put", "pages", "play", "sub"},
           cur.op \in {"spill", "rollback", "hot"} \/ eState \in Modifying
    PROVE  SaveInv'
<1>1. /\ setup \in SetupType /\ dbf \in Seq(Contents) /\ Len(dbf) \in Page
      /\ jrnl \in Seq(Unit(Contents)) /\ Left(jrnl, Len(dbf))
      /\ j.off <= Len(jrnl)
      /\ eState \in Modifying =>
             Mine(jrnl, dbOrigSize) /\ (jrnl[1].magic \/ j.hdr = 0)
  BY DEF SaveInv, Typed, JournalOK, Modifying, CacheMod
<1>2. MaxPage \in Nat /\ Len(dbf) \in Nat /\ p \in Nat
  BY <1>1, Constants DEF Page
<1>3. faults' \in 0 .. MaxFaults /\ IoError
  BY FaultsBound DEF WritePageFails
<1>4. dbf' \in Seq(Contents) /\ Len(dbf') \in Page /\ Len(dbf) <= Len(dbf')
  <2>1. CASE dbf' = dbf
    BY <1>1, <1>2, <2>1
  <2>2. CASE Seekable(dbf, p - 1) /\ dbf' = PutPage(p, Garbage)
    <3>1. p <= Len(dbf) + 1 /\ Garbage \in Contents
      BY <1>1, <1>2, <2>2, Constants DEF Seekable
    <3>2. /\ PutPage(p, Garbage) \in Seq(Contents)
          /\ Len(PutPage(p, Garbage)) \in Page
          /\ Len(PutPage(p, Garbage)) = IF p > Len(dbf) THEN p ELSE Len(dbf)
      BY <1>1, <1>2, <3>1, PutEffect
    <3> QED  BY <1>1, <1>2, <2>2, <3>2
  <2> QED  BY <2>1, <2>2 DEF WritePageFails
<1>5. Left(jrnl', Len(dbf'))
  <2>1. Len(dbf') \in Nat
    BY <1>1, <1>2, <1>4 DEF Page
  <2> QED  BY <1>1, <1>2, <1>4, <2>1, LeftGrows
<1> QED  BY <1>1, <1>2, <1>3, <1>4, <1>5, IoErrorSafe

LEMMA CrashSafe ==
    ASSUME SaveInv, Crash
    PROVE  SaveInv'
<1>1. setup' = setup /\ written' = written /\ Dead /\ UNCHANGED <<dbf, jrnl>>
  BY DEF Crash, fileVars
<1>2. faults' \in 0 .. MaxFaults
  BY <1>1, FaultsBound DEF Crash
<1>3. /\ dbf' \in Seq(Contents) /\ Len(dbf') \in Page
      /\ jrnl' \in Seq(Unit(Contents)) /\ Left(jrnl', Len(dbf'))
  BY <1>1 DEF SaveInv, Typed, JournalOK
<1> QED  BY <1>1, <1>2, <1>3, DeadSafe

-----------------------------------------------------------------------------
(* sqlite3PagerWrite.                                                      *)

LEMMA OpenJournalSafe ==
    ASSUME SaveInv, pager_open_journal
    PROVE  SaveInv'
<1>0. setup' = setup /\ setup \in SetupType
  BY DEF pager_open_journal, fileVars, SaveInv, Typed
<1>1. /\ pc = "open" /\ eState = "WRITER_LOCKED" /\ cur.op = "write"
      /\ UNCHANGED <<dbf, sub, written, dbSize, dbOrigSize, inJournal, cache,
                     dirty, needSync, sp>>
      /\ dirty = {} /\ sub = <<>>
  BY DEF pager_open_journal, pageVars, SaveInv, ControlOK, Places, FlagsOK
<1>2. /\ Len(dbf) \in Nat /\ dbOrigSize \in Nat /\ 1 <= dbOrigSize
      /\ dbOrigSize <= dbSize /\ dbOrigSize <= Len(dbf) /\ dbSize <= Len(dbf)
      /\ dbSize \in Nat /\ j.off <= Len(jrnl) /\ Len(jrnl) \in Nat
      /\ j \in [off : Nat, hdr : Nat, nRec : Nat, open : BOOLEAN]
      /\ Sector \in Nat
  <2>1. /\ 1 <= dbOrigSize /\ dbOrigSize <= dbSize /\ dbOrigSize <= Len(dbf)
        /\ dbSize <= Len(dbf) /\ j.off <= Len(jrnl)
    BY <1>1 DEF SaveInv, SizeOK, JournalOK
  <2>2. /\ Len(dbf) \in Page /\ jrnl \in Seq(Unit(Contents))
        /\ dbOrigSize \in 0 .. MaxPage /\ dbSize \in 0 .. MaxPage
        /\ j \in [off : Nat, hdr : Nat, nRec : Nat, open : BOOLEAN]
    BY DEF SaveInv, Typed
  <2>3. Len(dbf) \in Nat /\ Len(jrnl) \in Nat /\ Sector \in Nat
    BY <1>0, <2>2, Constants DEF Page
  <2> QED  BY <2>1, <2>2, <2>3
<1>3. /\ OpenedHdr \in Seq(Unit(Contents)) /\ Mine(OpenedHdr, dbOrigSize)
      /\ Len(OpenedHdr) \in Nat /\ Sector <= Len(OpenedHdr)
      /\ Len(jrnl) <= Len(OpenedHdr) /\ ~OpenedHdr[1].magic
      /\ RecBound(OpenedHdr, dbOrigSize)
  BY <1>1, OpenedMine DEF Mine
<1>4. Left(OpenedHdr, Len(dbf))
  BY <1>0, <1>2, <1>3, MineLeft
<1>5. CASE /\ NoFault /\ jrnl' = OpenedHdr
           /\ j' = [off |-> Sector, hdr |-> 0, nRec |-> 0, open |-> TRUE]
           /\ eState' = "WRITER_CACHEMOD" /\ pc' = "write" /\ cur' = cur
  <2>1. /\ j' \in [off : Nat, hdr : Nat, nRec : Nat, open : BOOLEAN]
        /\ j'.off = Sector /\ j'.hdr = 0 /\ j'.open
    BY <1>2, <1>5
  <2>2. Typed'
    BY <1>0, <1>1, <1>3, <1>5, <2>1, SameSetup DEF SaveInv, Typed, NoFault
  <2>3. FlagsOK' /\ ControlOK'
    BY <1>1, <1>5 DEF SaveInv, FlagsOK, Cached, ControlOK, Places, PC, Modifying
  <2>4. JournalOK'
    <3>1. Sector' = Sector /\ Sector >= Sector
      BY <1>0, <1>2, SameSetup
    <3> QED  BY <1>1, <1>3, <1>4, <1>5, <2>1, <3>1 DEF JournalOK, CacheMod
  <2>5. SizeOK'
    <3>1. Covered(dirty)'
      BY <1>0, <1>1, <1>2, Constants DEF Covered, Page
    <3> QED  BY <1>1, <1>2, <1>5, <3>1 DEF SaveInv, SizeOK, CacheMod, Modifying
  <2>6. WorkOK' /\ SavesOK'
    BY <1>0, <1>1, <1>5, SameSetup DEF SaveInv, WorkOK, SavesOK
  <2> QED  BY <2>2, <2>3, <2>4, <2>5, <2>6 DEF SaveInv
<1>6. CASE /\ Fault /\ Fails /\ eState' = eState
           /\ \/ UNCHANGED <<jrnl, j>>
              \/ jrnl' = OpenedHdr /\ j' = [j EXCEPT !.open = TRUE]
  <2>1. /\ j' \in [off : Nat, hdr : Nat, nRec : Nat, open : BOOLEAN]
        /\ j'.off = j.off
    BY <1>2, <1>6
  <2>2. cur' \in Cur /\ cur'.op = "none" /\ pc' = "err"
    BY <1>6 DEF Fails, Idle, Cur, Op, Own, Other
  <2>3. faults' \in 0 .. MaxFaults
    BY <1>0, <1>6, FaultsBound
  <2>4. /\ jrnl' \in Seq(Unit(Contents)) /\ Left(jrnl', Len(dbf))
        /\ j.off <= Len(jrnl') /\ ~(jrnl' # <<>> /\ jrnl'[1].magic)
        /\ RecBound(jrnl', dbOrigSize)
    <3>1. CASE jrnl' = jrnl
      BY <1>1, <3>1 DEF SaveInv, Typed, JournalOK, IsHotJournal
    <3>2. CASE jrnl' = OpenedHdr
      BY <1>2, <1>3, <1>4, <3>2
    <3> QED  BY <1>6, <3>1, <3>2
  <2>5. Typed'
    BY <1>0, <1>1, <2>1, <2>2, <2>3, <2>4, SameSetup DEF SaveInv, Typed
  <2>6. FlagsOK' /\ ControlOK'
    BY <1>1, <1>6, <2>2
       DEF SaveInv, FlagsOK, Cached, ControlOK, Places, PC, Writing
  <2>7. JournalOK'
    BY <1>1, <1>6, <2>1, <2>2, <2>4 DEF JournalOK, IsHotJournal, CacheMod
  <2>8. SizeOK'
    BY <1>1, <1>2, <1>6, <2>2 DEF SaveInv, SizeOK, CacheMod, Modifying
  <2>9. WorkOK' /\ SavesOK'
    BY <1>1, <1>6, <2>2 DEF SaveInv, WorkOK, SavesOK
  <2> QED  BY <2>5, <2>6, <2>7, <2>8, <2>9 DEF SaveInv
<1> QED  BY <1>5, <1>6 DEF pager_open_journal

(* The bits of a page in the savepoints' Bitvecs change nothing else.      *)
LEMMA BitvecsEffect ==
    ASSUME NEW saves \in Seq(Save), NEW p \in Page
    PROVE  /\ addToSavepointBitvecs(saves, p) \in Seq(Save)
           /\ Len(addToSavepointBitvecs(saves, p)) = Len(saves)
           /\ \A i \in 1 .. Len(saves) :
                  addToSavepointBitvecs(saves, p)[i].nOrig = saves[i].nOrig
<1> DEFINE w == addToSavepointBitvecs(saves, p)
<1>1. w = [i \in 1 .. Len(saves) |->
              IF p <= saves[i].nOrig
              THEN [saves[i] EXCEPT !.pInSavepoint = @ \cup {p}] ELSE saves[i]]
  BY DEF addToSavepointBitvecs
<1> HIDE DEF w
<1>2. ASSUME NEW i \in 1 .. Len(saves)
      PROVE  w[i] \in Save /\ w[i].nOrig = saves[i].nOrig
  <2> DEFINE s == saves[i]
  <2>1. s \in Save
    BY ElementOfSeq
  <2>2. w[i] = IF p <= s.nOrig
               THEN [s EXCEPT !.pInSavepoint = @ \cup {p}] ELSE s
    BY <1>1
  <2> HIDE DEF s
  <2>3. w[i] \in Save /\ w[i].nOrig = s.nOrig
    BY <2>1, <2>2 DEF Save
  <2> QED  BY <2>3 DEF s
<1>3. w \in [1 .. Len(saves) -> Save] /\ Len(saves) \in Nat
  BY <1>1, <1>2
<1>4. w \in Seq(Save) /\ Len(w) = Len(saves)
  BY <1>3, FunSeq
<1> QED  BY <1>2, <1>4 DEF w

(* One pager_write.  The page is in the database or right after it, so the *)
(* database grows by that page at most, and the page is dirty then.        *)
LEMMA WriteSafe ==
    ASSUME SaveInv, pager_write
    PROVE  SaveInv'
<1>0. setup' = setup /\ setup \in SetupType
  BY DEF pager_write, fileVars, SaveInv, Typed
<1> DEFINE p == Smallest(cur.todo)
           last == cur.todo = {p}
           data == IF cache[p] # NotCached THEN cache[p]
                   ELSE IF p <= dbSize THEN PageOnDisk(p) ELSE Blank
           rec == Rec(p, data, Own)
           saves == IF NeedsRecord(p) THEN addToSavepointBitvecs(sp, p) ELSE sp
           subj == subjRequiresPage(saves, p)
           marked == needSync \cup (IF MarkSync(p) THEN {p} ELSE {})
           sector == Cached(SectorOf(cur.p)) \cup {p}
<1>1. /\ pc = "write" /\ eState \in Modifying /\ cur.op \in {"write", "commit"}
      /\ UNCHANGED <<dbf, eState, dbOrigSize>> /\ dirty' = dirty \cup {p}
      /\ cur.p \in Page /\ cur.todo # {} /\ written < MaxWrites
      /\ \A q \in cur.todo : q <= dbSize + 1
      /\ cur \in Cur /\ cur.todo \in SUBSET Page
  BY DEF pager_write, SaveInv, ControlOK, Places, WorkOK, Typed, Cur
<1>2. p \in cur.todo /\ p \in Page /\ p <= dbSize + 1 /\ p \in Nat
  <2>1. p \in cur.todo /\ p \in Page
    BY <1>1, SmallestIn
  <2> QED  BY <1>0, <1>1, <2>1, Constants DEF Page
<1>3. /\ jrnl \in Seq(Unit(Contents)) /\ dbf \in Seq(Contents)
      /\ Len(dbf) \in Page /\ Len(dbf) \in Nat
      /\ j \in [off : Nat, hdr : Nat, nRec : Nat, open : BOOLEAN]
      /\ j.off \in Nat /\ j.off >= 1 /\ j.off <= Len(jrnl)
      /\ j.hdr \in Nat /\ j.nRec \in Nat /\ Len(jrnl) \in Nat
      /\ Mine(jrnl, dbOrigSize) /\ (jrnl[1].magic \/ j.hdr = 0)
      /\ dbOrigSize \in Nat /\ dbOrigSize >= 1 /\ dbOrigSize <= dbSize
      /\ dbSize \in Nat /\ dbOrigSize <= Len(dbf) /\ j.open /\ j.off >= Sector
  BY <1>1, InTxn
<1>4. /\ cache \in Pages(Contents) /\ sub \in Seq(SubRec(Contents))
      /\ sp \in Seq(Save) /\ Len(sp) <= setup.saves
      /\ dirty \subseteq Cached(Page) /\ needSync \subseteq Cached(Page)
      /\ inJournal \subseteq 1 .. dbOrigSize /\ dbSize \in 0 .. MaxPage
      /\ Covered(dirty) /\ written \in 0 .. MaxWrites
  BY <1>1 DEF SaveInv, Typed, FlagsOK, SizeOK
<1>5. data \in Contents
  BY <1>0, <1>2, PageContents, Constants
<1>6. /\ saves \in Seq(Save) /\ Len(saves) = Len(sp)
      /\ \A i \in 1 .. Len(sp) : saves[i].nOrig = sp[i].nOrig
  BY <1>2, <1>4, BitvecsEffect
<1>7. \A i \in 1 .. Len(sp) :
          /\ dbOrigSize <= sp[i].nOrig /\ sp[i].nOrig <= dbSize
          /\ \A k \in i .. Len(sp) : sp[i].nOrig <= sp[k].nOrig
  BY <1>1 DEF SaveInv, SavesOK
<1>8. /\ marked \subseteq Cached(Page) \cup {p}
      /\ sector \subseteq Cached(Page) \cup {p}
  <2>1. SectorOf(cur.p) \subseteq Page
    BY <1>0, <1>1, <1>4, SectorPages
  <2> QED  BY <1>4, <2>1 DEF Cached
<1>9. last => cur.todo = {p}
  OBVIOUS
<1>10. ~last => cur.todo # {p}
  OBVIOUS
<1>11. rec = Rec(p, data, Own)
  OBVIOUS
<1> HIDE DEF p, last, data, rec, saves, subj, marked, sector
<1>12. NeedsRecord(p) => p <= dbOrigSize
  BY DEF NeedsRecord
<1>13. ASSUME NeedsRecord(p), NEW u \in Contents, NEW ck \in {Own, Torn}
       PROVE  /\ WriteAt(jrnl, j.off, <<Rec(p, u, ck)>>) \in Seq(Unit(Contents))
              /\ Mine(WriteAt(jrnl, j.off, <<Rec(p, u, ck)>>), dbOrigSize)
              /\ j.off + 1 <= Len(WriteAt(jrnl, j.off, <<Rec(p, u, ck)>>))
              /\ WriteAt(jrnl, j.off, <<Rec(p, u, ck)>>)[1] = jrnl[1]
  <2> DEFINE r == Rec(p, u, ck)
             b == <<r>>
  <2>1. r \in Unit(Contents) /\ r.pg = p
    BY <1>2 DEF Rec, Unit, RecUnit
  <2> HIDE DEF r
  <2>2. b \in Seq(Unit(Contents)) /\ Len(b) = 1 /\ RecBound(b, dbOrigSize)
    BY <1>12, <1>13, <2>1 DEF RecBound
  <2> HIDE DEF b
  <2>3. /\ WriteAt(jrnl, j.off, b) \in Seq(Unit(Contents))
        /\ Mine(WriteAt(jrnl, j.off, b), dbOrigSize)
        /\ j.off + Len(b) <= Len(WriteAt(jrnl, j.off, b))
        /\ WriteAt(jrnl, j.off, b)[1] = jrnl[1]
    <3> DEFINE off == j.off
    <3>1. /\ jrnl \in Seq(Unit(Contents)) /\ dbOrigSize \in Nat
          /\ off \in Nat /\ off >= 1 /\ off <= Len(jrnl)
          /\ Mine(jrnl, dbOrigSize)
      BY <1>3
    <3> HIDE DEF off
    <3>2. /\ WriteAt(jrnl, off, b) \in Seq(Unit(Contents))
          /\ Mine(WriteAt(jrnl, off, b), dbOrigSize)
          /\ off + Len(b) <= Len(WriteAt(jrnl, off, b))
          /\ WriteAt(jrnl, off, b)[1] = jrnl[1]
      BY <1>0, <2>2, <3>1, JournalWrite
    <3> QED  BY <3>2 DEF off
  <2> QED  BY <2>2, <2>3 DEF b, r
<1>14. CASE /\ NoFault
            /\ jrnl' = IF NeedsRecord(p) THEN WriteAt(jrnl, j.off, <<rec>>)
                       ELSE jrnl
            /\ j' = IF NeedsRecord(p)
                    THEN [j EXCEPT !.off = @ + 1, !.nRec = @ + 1] ELSE j
            /\ inJournal' = IF NeedsRecord(p) THEN inJournal \cup {p}
                            ELSE inJournal
            /\ sub' = IF subj THEN Append(sub, [pg |-> p, data |-> data])
                      ELSE sub
            /\ sp' = IF subj THEN addToSavepointBitvecs(saves, p) ELSE saves
            /\ dbSize' = IF p > dbSize THEN p ELSE dbSize
            /\ cache' = IF last
                        THEN [cache EXCEPT ![p] = data,
                                           ![cur.p] =
                               Content(written + 1, dbSize')]
                        ELSE [cache EXCEPT ![p] = data]
            /\ needSync' = IF last /\ sector \cap marked # {}
                           THEN marked \cup sector ELSE marked
            /\ written' = IF last THEN written + 1 ELSE written
            /\ cur' = IF last /\ cur.op = "write" THEN Idle
                      ELSE [cur EXCEPT !.todo = @ \ {p}]
            /\ pc' = IF ~last THEN "write"
                     ELSE IF cur.op = "commit" THEN "zap" ELSE "idle"
  <2>1. /\ jrnl' \in Seq(Unit(Contents)) /\ Mine(jrnl', dbOrigSize)
        /\ j'.off <= Len(jrnl') /\ j'.off >= Sector /\ j'.open
        /\ j' \in [off : Nat, hdr : Nat, nRec : Nat, open : BOOLEAN]
        /\ jrnl'[1].magic \/ j'.hdr = 0
    <3>1. CASE ~NeedsRecord(p)
      BY <1>3, <1>14, <3>1
    <3>2. CASE NeedsRecord(p)
      <4>1. /\ jrnl' \in Seq(Unit(Contents)) /\ Mine(jrnl', dbOrigSize)
            /\ j.off + 1 <= Len(jrnl') /\ jrnl'[1] = jrnl[1]
        BY <1>5, <1>13, <1>14, <1>11, <3>2
      <4>2. /\ j' \in [off : Nat, hdr : Nat, nRec : Nat, open : BOOLEAN]
            /\ j'.off = j.off + 1 /\ j'.hdr = j.hdr /\ j'.open = j.open
        <5>1. j' = [j EXCEPT !.off = @ + 1, !.nRec = @ + 1]
          BY <1>14, <3>2
        <5>2. /\ j \in [off : Nat, hdr : Nat, nRec : Nat, open : BOOLEAN]
              /\ j.off + 1 \in Nat /\ j.nRec + 1 \in Nat
          BY <1>3
        <5> QED  BY <5>1, <5>2
      <4>3. j'.off >= Sector
        BY <1>0, <1>3, <4>2, Constants
      <4> QED  BY <1>3, <4>1, <4>2, <4>3
    <3> QED  BY <3>1, <3>2
  <2>2. /\ dbSize' \in 0 .. MaxPage /\ dbSize <= dbSize' /\ p <= dbSize'
        /\ dbSize' = dbSize \/ dbSize' = p
    <3>1. p \in Nat /\ p <= MaxPage /\ MaxPage \in Nat
      BY <1>0, <1>2, Constants DEF Page
    <3>2. dbSize \in Nat /\ dbSize <= MaxPage
      BY <1>4, <3>1
    <3>3. dbSize' = IF p > dbSize THEN p ELSE dbSize
      BY <1>14
    <3> QED  BY <3>1, <3>2, <3>3
  <2>3. sub' \in Seq(SubRec(Contents))
    <3>1. [pg |-> p, data |-> data] \in SubRec(Contents)
      BY <1>2, <1>5 DEF SubRec
    <3> QED  BY <1>4, <1>14, <3>1
  <2>4. /\ sp' \in Seq(Save) /\ Len(sp') = Len(sp)
        /\ \A i \in 1 .. Len(sp) : sp'[i].nOrig = sp[i].nOrig
    <3>1. CASE subj
      BY <1>2, <1>6, <1>14, <3>1, BitvecsEffect
    <3>2. CASE ~subj
      BY <1>6, <1>14, <3>2
    <3> QED  BY <3>1, <3>2
  <2>5. written' \in 0 .. MaxWrites
    BY <1>0, <1>1, <1>4, <1>14, Constants
  <2>6. /\ cache' \in Pages(Contents) /\ cache'[p] # NotCached
        /\ \A q \in Page : cache[q] # NotCached => cache'[q] # NotCached
    <3> DEFINE new == Content(written + 1, dbSize')
    <3>1. new \in Contents /\ NotCached \notin Contents
      <4>1. MaxWrites \in Nat /\ NotCached \notin Contents
        BY <1>0, Constants
      <4>2. written + 1 \in -1 .. MaxWrites
        BY <1>1, <1>4, <4>1
      <4> QED  BY <2>2, <4>1, <4>2 DEF Content, Contents
    <3> HIDE DEF new
    <3>2. CASE last
      <4>1. cache' = [[cache EXCEPT ![p] = data] EXCEPT ![cur.p] = new]
        BY <1>14, <3>2 DEF new
      <4> QED  BY <1>1, <1>2, <1>4, <1>5, <3>1, <4>1 DEF Pages
    <3>3. CASE ~last
      BY <1>1, <1>2, <1>4, <1>5, <1>14, <3>1, <3>3 DEF Pages
    <3> QED  BY <3>2, <3>3
  <2>7. cur' \in Cur
    <3>1. CASE last /\ cur.op = "write"
      BY <1>14, <3>1 DEF Idle, Cur, Op, Own, Other
    <3>2. CASE ~(last /\ cur.op = "write")
      BY <1>1, <1>14, <3>2 DEF Cur
    <3> QED  BY <3>1, <3>2
  <2>8. Typed'
    <3>1. Len(sp') <= setup'.saves
      BY <1>0, <1>4, <2>4
    <3> QED
      BY <1>0, <1>1, <1>3, <1>14, <2>1, <2>2, <2>3, <2>4, <2>5, <2>6, <2>7,
         <3>1, SameSetup
         DEF SaveInv, Typed, NoFault
  <2>9. FlagsOK'
    <3>1. Cached(Page) \cup {p} \subseteq Cached(Page)'
      BY <1>2, <2>6 DEF Cached
    <3>2. dirty' \subseteq Cached(Page)' /\ needSync' \subseteq Cached(Page)'
      BY <1>1, <1>4, <1>8, <1>14, <3>1
    <3>3. inJournal' \subseteq 1 .. dbOrigSize
      BY <1>2, <1>3, <1>4, <1>12, <1>14 DEF Page
    <3> QED  BY <1>1, <1>14, <3>2, <3>3 DEF FlagsOK, Modifying
  <2>10. ControlOK'
    <3>1. CASE ~last
      BY <1>1, <1>14, <3>1 DEF ControlOK, Places, PC, Cur
    <3>2. CASE last /\ cur.op = "commit"
      BY <1>1, <1>14, <3>2 DEF ControlOK, Places, PC, Cur
    <3>3. CASE last /\ cur.op = "write"
      BY <1>1, <1>14, <3>3 DEF ControlOK, Places, PC, Idle, Writing, Modifying
    <3> QED  BY <1>1, <3>1, <3>2, <3>3
  <2>11. /\ cur'.op \in {"write", "commit", "none"}
         /\ pc' \in {"write", "zap", "idle"}
    BY <1>1, <1>14 DEF Cur, Idle
  <2>12. JournalOK'
    <3>1. Left(jrnl', Len(dbf))
      BY <1>0, <1>3, <2>1, MineLeft
    <3> QED  BY <1>0, <1>1, <2>1, <2>11, <3>1, SameSetup
             DEF JournalOK, Modifying, CacheMod
  <2>13. SizeOK'
    <3>1. Covered(dirty)'
      <4> SUFFICES ASSUME NEW q \in Page, Len(dbf) < q, q <= dbSize'
                   PROVE  q \in dirty \cup {p}
        BY <1>1 DEF Covered
      <4>1. q <= dbSize \/ q = p
        <5>1. q \in Nat
          BY <1>0, Constants DEF Page
        <5>2. p \in Nat /\ p <= dbSize + 1 /\ dbSize \in Nat
          BY <1>2, <1>3
        <5> QED  BY <2>2, <5>1, <5>2
      <4> QED  BY <1>4, <4>1 DEF Covered
    <3>2. dbSize' >= 1 /\ dbOrigSize <= dbSize'
      BY <1>3, <2>2
    <3> QED  BY <1>1, <1>3, <2>11, <3>1, <3>2 DEF SizeOK, Modifying, CacheMod
  <2>14. WorkOK'
    <3>1. CASE last
      BY <1>14, <2>11, <3>1 DEF WorkOK
    <3>2. CASE ~last
      <4>1. /\ cur'.p = cur.p /\ cur'.todo = cur.todo \ {p} /\ cur'.op = cur.op
            /\ written' = written /\ pc' = "write"
        BY <1>1, <1>14, <3>2 DEF Cur
      <4>2. cur'.todo # {}
        BY <1>2, <1>10, <3>2, <4>1
      <4>3. \A q \in cur'.todo : q <= dbSize' + 1
        <5>1. \A q \in cur.todo : q \in Nat /\ q <= dbSize + 1
          BY <1>0, <1>1, Constants DEF Page
        <5>2. dbSize \in Nat /\ dbSize' \in Nat /\ dbSize <= dbSize'
          BY <1>3, <2>2
        <5> QED  BY <4>1, <5>1, <5>2
      <4>4. cur'.p \in Page /\ written' < MaxWrites'
        BY <1>0, <1>1, <4>1 DEF MaxWrites
      <4> QED  BY <1>1, <4>1, <4>2, <4>3, <4>4 DEF WorkOK
    <3> QED  BY <3>1, <3>2
  <2>15. SavesOK'
    <3>1. \A i \in 1 .. Len(sp) : sp[i].nOrig \in Nat
      <4>1. \A i \in 1 .. Len(sp) : sp[i] \in Save
        BY <1>4, ElementOfSeq
      <4>2. \A i \in 1 .. Len(sp) : sp[i].nOrig \in Page
        BY <4>1 DEF Save
      <4> QED  BY <1>0, <4>2, Constants DEF Page
    <3>2. \A i \in 1 .. Len(sp) : \A k \in i .. Len(sp) : k \in 1 .. Len(sp)
      BY <1>4
    <3>3. \A i \in 1 .. Len(sp) : sp[i].nOrig <= dbSize'
      BY <1>3, <1>7, <2>2, <3>1
    <3>4. \A i \in 1 .. Len(sp') :
              /\ dbOrigSize <= sp'[i].nOrig /\ sp'[i].nOrig <= dbSize'
              /\ \A k \in i .. Len(sp') : sp'[i].nOrig <= sp'[k].nOrig
      BY <1>7, <2>4, <3>2, <3>3
    <3> QED  BY <1>1, <2>11, <3>4 DEF SavesOK, Modifying
  <2> QED  BY <2>8, <2>9, <2>10, <2>12, <2>13, <2>14, <2>15 DEF SaveInv
<1>15. CASE /\ Fault
            /\ jrnl' \in IF NeedsRecord(p)
                         THEN {jrnl, WriteAt(jrnl, j.off,
                                             <<Rec(p, Garbage, Torn)>>)}
                         ELSE {jrnl}
            /\ needSync' = marked
            /\ cache' = [cache EXCEPT ![p] = data]
            /\ Fails
            /\ UNCHANGED <<j, inJournal, sub, sp, dbSize, written>>
  <2>1. /\ jrnl' \in Seq(Unit(Contents)) /\ Mine(jrnl', dbOrigSize)
        /\ j.off <= Len(jrnl') /\ (jrnl'[1].magic \/ j.hdr = 0)
    <3>1. CASE jrnl' = jrnl
      BY <1>3, <3>1
    <3>2. CASE /\ NeedsRecord(p)
               /\ jrnl' = WriteAt(jrnl, j.off, <<Rec(p, Garbage, Torn)>>)
      <4>1. Garbage \in Contents
        BY <1>0, Constants
      <4>2. /\ jrnl' \in Seq(Unit(Contents)) /\ Mine(jrnl', dbOrigSize)
            /\ j.off + 1 <= Len(jrnl') /\ jrnl'[1] = jrnl[1]
        BY <1>13, <3>2, <4>1
      <4> QED  BY <1>3, <4>2
    <3> QED  BY <1>15, <3>1, <3>2
  <2>2. /\ cache' \in Pages(Contents) /\ cache'[p] # NotCached
        /\ \A q \in Page : cache[q] # NotCached => cache'[q] # NotCached
    <3>1. NotCached \notin Contents
      BY <1>0, Constants
    <3> QED  BY <1>2, <1>4, <1>5, <1>15, <3>1 DEF Pages
  <2>3. Cached(Page) \cup {p} \subseteq Cached(Page)'
    BY <1>2, <2>2 DEF Cached
  <2>4. dirty' \subseteq Cached(Page)' /\ needSync' \subseteq Cached(Page)'
    BY <1>1, <1>4, <1>8, <1>15, <2>3
  <2>5. faults' \in 0 .. MaxFaults
    BY <1>0, <1>15, FaultsBound
  <2>6. /\ dbf' \in Seq(Contents) /\ Len(dbf') \in Page /\ Len(dbf) <= Len(dbf')
        /\ dirty \subseteq dirty'
    BY <1>1, <1>3
  <2>7. UNCHANGED <<eState, sub, sp, inJournal, j, dbSize, dbOrigSize, written>>
    BY <1>1, <1>15
  <2> QED
    BY <1>0, <1>1, <1>15, <2>1, <2>2, <2>4, <2>5, <2>6, <2>7, FailsSafe
<1> QED
  BY <1>14, <1>15
     DEF pager_write, p, last, data, rec, saves, subj, marked, sector

-----------------------------------------------------------------------------
(* syncJournal.                                                            *)

(* What the steps of syncJournal have in common.                           *)
LEMMA SyncSafe ==
    ASSUME SaveInv, pc \in {"zap", "nrec", "newhdr"}, setup' = setup,
           UNCHANGED <<dbf, written, faults, cache, dirty, sub, inJournal,
                       dbSize, dbOrigSize>>,
           needSync' \subseteq needSync, eState' \in Modifying,
           jrnl' \in Seq(Unit(Contents)), Mine(jrnl', dbOrigSize),
           j' \in [off : Nat, hdr : Nat, nRec : Nat, open : BOOLEAN],
           j'.off <= Len(jrnl'), j'.off >= Sector, j'.open,
           jrnl'[1].magic \/ j'.hdr = 0, pc' = "newhdr" => jrnl'[1].magic,
           sp' \in Seq(Save), Len(sp') = Len(sp),
           \A i \in 1 .. Len(sp) : sp'[i].nOrig = sp[i].nOrig,
           cur' \in Cur, cur'.op = cur.op, cur'.p = cur.p,
           pc' \in {"nrec", "newhdr", "put", "pages"},
           Places(pc', eState', cur'.op),
           pc' = "pages" => cur'.todo = dirty \cap 1 .. dbSize
    PROVE  SaveInv'
<1>1. /\ eState \in Modifying /\ cur.op \in {"commit", "spill"}
      /\ setup \in SetupType /\ Len(dbf) \in Nat
      /\ dbOrigSize \in Nat /\ dbOrigSize >= 1 /\ dbOrigSize <= dbSize
      /\ dbSize \in Nat /\ dbOrigSize <= Len(dbf) /\ Covered(dirty)
  <2>1. eState \in Modifying /\ cur.op \in {"commit", "spill"} /\ pc # "shrink"
    BY DEF SaveInv, ControlOK, Places
  <2> QED  BY <2>1, InTxn DEF SaveInv, SizeOK
<1>2. Typed'
  <2>1. Len(sp') <= setup'.saves
    BY DEF SaveInv, Typed
  <2> QED  BY <2>1, SameSetup DEF SaveInv, Typed
<1>3. FlagsOK'
  <2>1. Cached(Page)' = Cached(Page)
    BY DEF Cached
  <2> QED  BY <1>1, <2>1 DEF SaveInv, FlagsOK, Modifying
<1>4. ControlOK'
  BY DEF ControlOK
<1>5. JournalOK'
  <2>1. Left(jrnl', Len(dbf))
    BY <1>1, MineLeft
  <2> QED  BY <1>1, <2>1, SameSetup DEF JournalOK, CacheMod, Modifying
<1>6. SizeOK'
  <2>1. Covered(dirty)'
    BY <1>1 DEF Covered
  <2> QED  BY <1>1, <2>1 DEF SaveInv, SizeOK, CacheMod, Modifying
<1>7. WorkOK'
  <2>1. pc' = "pages" =>
            /\ cur'.todo \subseteq dirty /\ \A q \in cur'.todo : q <= dbSize
            /\ \A p \in Page : Len(dbf) < p /\ p <= dbSize => p \in cur'.todo
    <3>1. \A p \in Page : p <= dbSize => p \in 1 .. dbSize
      BY <1>1, Constants DEF Page
    <3> QED  BY <1>1, <3>1 DEF Covered
  <2> QED  BY <2>1 DEF SaveInv, WorkOK, Covered
<1>8. SavesOK'
  <2>1. \A i \in 1 .. Len(sp) : \A k \in i .. Len(sp) : k \in 1 .. Len(sp)
    BY DEF SaveInv, Typed
  <2> QED  BY <1>1, <2>1 DEF SaveInv, SavesOK, Modifying
<1> QED  BY <1>2, <1>3, <1>4, <1>5, <1>6, <1>7, <1>8 DEF SaveInv

(* A header that is not the first is made unrecognisable.                  *)
ZeroMagic(file, at) == [file EXCEPT ![at + 1].magic = FALSE]

LEMMA Zeroed ==
    ASSUME setup \in SetupType, NEW file \in Seq(Unit(Contents)),
           NEW size \in Nat, Mine(file, size), NEW at \in Nat, at >= 1,
           at < Len(file), file[at + 1].k = "hdr"
    PROVE  /\ ZeroMagic(file, at) \in Seq(Unit(Contents))
           /\ Len(ZeroMagic(file, at)) = Len(file)
           /\ Mine(ZeroMagic(file, at), size)
           /\ ZeroMagic(file, at)[1] = file[1]
<1> DEFINE w == ZeroMagic(file, at)
           h == file[at + 1]
           v == [h EXCEPT !.magic = FALSE]
<1>1. at + 1 \in 1 .. Len(file) /\ Len(file) \in Nat /\ at + 1 # 1
  OBVIOUS
<1>2. h \in Unit(Contents)
  BY <1>1, ElementOfSeq
<1>3. h \in HdrUnit
  BY <1>2, UnitKinds
<1>4. w = [file EXCEPT ![at + 1] = v]
  BY DEF ZeroMagic
<1> HIDE DEF h, w
<1>5. v \in HdrUnit /\ v.k = "hdr"
  BY <1>3 DEF HdrUnit
<1>6. v \in Unit(Contents)
  BY <1>5 DEF Unit
<1> HIDE DEF v
<1>7. /\ w \in Seq(Unit(Contents)) /\ Len(w) = Len(file)
      /\ \A i \in 1 .. Len(file) : w[i] = IF i = at + 1 THEN v ELSE file[i]
  <2>1. DOMAIN file = 1 .. Len(file)
    OBVIOUS
  <2>2. /\ DOMAIN w = 1 .. Len(file)
        /\ \A i \in 1 .. Len(file) : w[i] = IF i = at + 1 THEN v ELSE file[i]
    BY <1>4, <2>1
  <2>3. \A i \in 1 .. Len(file) : file[i] \in Unit(Contents)
    BY ElementOfSeq
  <2>4. w \in [1 .. Len(file) -> Unit(Contents)]
    BY <1>4, <1>6, <2>1, <2>2, <2>3
  <2>5. w \in Seq(Unit(Contents)) /\ Len(w) = Len(file)
    BY <1>1, <2>4, FunSeq
  <2> QED  BY <2>2, <2>5
<1>8. 1 \in 1 .. Len(file) /\ w[1] = file[1]
  BY <1>1, <1>7
<1>9. w # <<>> /\ RecBound(w, size)
  BY <1>5, <1>7, <1>8 DEF RecBound, Mine
<1> QED  BY <1>7, <1>8, <1>9 DEF Mine, w

LEMMA ZeroSafe ==
    ASSUME SaveInv, zeroNextHdr
    PROVE  SaveInv'
<1>0. setup' = setup /\ setup \in SetupType
  BY DEF zeroNextHdr, fileVars, SaveInv, Typed
<1> DEFINE o == journalHdrOffset(j.off)
           found == o < Len(jrnl) /\ jrnl[o + 1].k = "hdr" /\ jrnl[o + 1].magic
<1>1. /\ pc = "zap" /\ eState \in Modifying /\ cur.op \in {"commit", "spill"}
      /\ UNCHANGED <<dbf, written>>
  BY DEF zeroNextHdr, SaveInv, ControlOK, Places
<1>2. /\ jrnl \in Seq(Unit(Contents)) /\ dbf \in Seq(Contents)
      /\ Len(dbf) \in Page /\ Len(dbf) \in Nat
      /\ j \in [off : Nat, hdr : Nat, nRec : Nat, open : BOOLEAN]
      /\ j.off \in Nat /\ j.off >= 1 /\ j.off <= Len(jrnl) /\ j.off >= Sector
      /\ Mine(jrnl, dbOrigSize) /\ (jrnl[1].magic \/ j.hdr = 0)
      /\ dbOrigSize \in Nat /\ j.open
  BY <1>1, InTxn
<1>3. o \in Nat /\ o >= 1
  <2>1. o \in Nat /\ o >= j.off
    BY <1>0, <1>2, HdrOffset, Constants
  <2> QED  BY <1>2, <2>1
<1> HIDE DEF o
<1>4. CASE /\ NoFault
           /\ jrnl' = IF found THEN [jrnl EXCEPT ![o + 1].magic = FALSE]
                      ELSE jrnl
           /\ pc' = "nrec"
           /\ UNCHANGED <<eState, pageVars, sub, sp, inJournal, j, dbSize,
                          dbOrigSize, cur, histVars>>
  <2>1. /\ jrnl' \in Seq(Unit(Contents)) /\ Len(jrnl') = Len(jrnl)
        /\ Mine(jrnl', dbOrigSize) /\ jrnl'[1] = jrnl[1]
    <3>1. CASE found
      <4>1. /\ jrnl' = ZeroMagic(jrnl, o)
            /\ o < Len(jrnl) /\ jrnl[o + 1].k = "hdr"
        BY <1>4, <3>1 DEF ZeroMagic
      <4> QED  BY <1>0, <1>2, <1>3, <4>1, Zeroed
    <3>2. CASE ~found
      BY <1>2, <1>4, <3>2
    <3> QED  BY <3>1, <3>2
  <2>2. /\ UNCHANGED <<dbf, written, faults, cache, dirty, sub, inJournal,
                       dbSize, dbOrigSize, needSync, eState, j, sp, cur>>
        /\ sp \in Seq(Save) /\ cur \in Cur
    BY <1>1, <1>4 DEF NoFault, pageVars, SaveInv, Typed
  <2>3. Places(pc', eState', cur'.op)
    BY <1>1, <1>4, <2>2 DEF Places, PC
  <2> QED  BY <1>0, <1>1, <1>2, <1>4, <2>1, <2>2, <2>3, SyncSafe
<1>5. CASE found /\ Fault /\ IoError /\ UNCHANGED jrnl
  <2>1. faults' \in 0 .. MaxFaults
    BY <1>0, <1>5, FaultsBound
  <2>2. /\ dbf' \in Seq(Contents) /\ Len(dbf') \in Page /\ Len(dbf) <= Len(dbf')
        /\ Left(jrnl', Len(dbf'))
    BY <1>1, <1>2, <1>5 DEF SaveInv, JournalOK
  <2> QED  BY <1>0, <1>1, <1>2, <1>5, <2>1, <2>2, IoErrorSafe
<1> QED  BY <1>4, <1>5 DEF zeroNextHdr, o

LEMMA NRecSafe ==
    ASSUME SaveInv, writeNRec
    PROVE  SaveInv'
<1>0. setup' = setup /\ setup \in SetupType
  BY DEF writeNRec, fileVars, SaveInv, Typed
<1> DEFINE complete(n) == [jrnl EXCEPT ![j.hdr + 1].magic = TRUE,
                                       ![j.hdr + 1].nRec = n]
<1>1. /\ pc = "nrec" /\ eState \in Modifying /\ cur.op \in {"commit", "spill"}
      /\ UNCHANGED <<dbf, written>> /\ cur \in Cur /\ sp \in Seq(Save)
      /\ dbSize \in 0 .. MaxPage
  BY DEF writeNRec, SaveInv, ControlOK, Places, Typed
<1>2. /\ jrnl \in Seq(Unit(Contents)) /\ dbf \in Seq(Contents)
      /\ Len(dbf) \in Page /\ Len(dbf) \in Nat
      /\ j \in [off : Nat, hdr : Nat, nRec : Nat, open : BOOLEAN]
      /\ j.off \in Nat /\ j.off >= 1 /\ j.off <= Len(jrnl) /\ j.off >= Sector
      /\ j.hdr \in Nat /\ j.nRec \in Nat
      /\ Mine(jrnl, dbOrigSize) /\ (jrnl[1].magic \/ j.hdr = 0)
      /\ dbOrigSize \in Nat /\ j.open
      /\ dbOrigSize >= 1 /\ dbOrigSize <= Len(dbf)
  BY <1>1, InTxn
<1>3. ASSUME NEW n \in Nat
      PROVE  /\ complete(n) \in Seq(Unit(Contents))
             /\ Len(complete(n)) = Len(jrnl)
             /\ Mine(complete(n), dbOrigSize) /\ complete(n)[1].magic
  <2> DEFINE at == j.hdr
  <2>1. at \in Nat /\ (jrnl[1].magic \/ at = 0)
    BY <1>2
  <2>2. complete(n) = Complete(jrnl, at, n)
    BY DEF Complete
  <2> HIDE DEF at, complete
  <2> QED  BY <1>0, <1>2, <2>1, <2>2, Completed
<1> HIDE DEF complete
<1>4. CASE /\ NoFault
           /\ jrnl' = complete(j.nRec)
           /\ j' = [j EXCEPT !.hdr = j.off]
           /\ IF cur.op = "spill"
              THEN pc' = "newhdr" /\ UNCHANGED <<needSync, eState, cur>>
              ELSE /\ Synced
                   /\ pc' = "pages"
                   /\ cur' = [cur EXCEPT !.todo = dirty \cap 1 .. dbSize]
           /\ UNCHANGED <<cache, dirty, sub, sp, inJournal, dbSize,
                          dbOrigSize, histVars>>
  <2>1. /\ jrnl' \in Seq(Unit(Contents)) /\ Len(jrnl') = Len(jrnl)
        /\ Mine(jrnl', dbOrigSize) /\ jrnl'[1].magic
    BY <1>2, <1>3, <1>4
  <2>2. /\ j' \in [off : Nat, hdr : Nat, nRec : Nat, open : BOOLEAN]
        /\ j'.off = j.off /\ j'.open = j.open
    BY <1>2, <1>4
  <2>3. UNCHANGED <<dbf, written, faults, cache, dirty, sub, inJournal, dbSize,
                    dbOrigSize, sp>>
    BY <1>1, <1>4 DEF NoFault
  <2>4. j'.off <= Len(jrnl') /\ j'.off >= Sector /\ j'.open
    BY <1>2, <2>1, <2>2
  <2>5. CASE cur.op = "spill"
    <3>1. /\ pc' = "newhdr" /\ UNCHANGED <<needSync, eState, cur>>
      BY <1>4, <2>5
    <3>2. Places(pc', eState', cur'.op)
      BY <1>1, <2>5, <3>1 DEF Places, PC
    <3> QED  BY <1>0, <1>1, <2>1, <2>2, <2>3, <2>4, <3>1, <3>2, SyncSafe
  <2>6. CASE cur.op = "commit"
    <3>1. /\ pc' = "pages" /\ needSync' \subseteq needSync
          /\ eState' = "WRITER_DBMOD"
          /\ cur' = [cur EXCEPT !.todo = dirty \cap 1 .. dbSize]
      BY <1>4, <2>6 DEF Synced
    <3>2. dirty \cap 1 .. dbSize \in SUBSET Page
      BY <1>0, <1>1, Constants DEF Page
    <3>3. /\ cur' \in Cur /\ cur'.op = cur.op /\ cur'.p = cur.p
          /\ cur'.todo = dirty \cap 1 .. dbSize
      BY <1>1, <3>1, <3>2 DEF Cur
    <3>4. Places(pc', eState', cur'.op) /\ eState' \in Modifying
      BY <2>6, <3>1, <3>3 DEF Places, PC, Modifying
    <3> QED  BY <1>0, <1>1, <2>1, <2>2, <2>3, <2>4, <3>1, <3>3, <3>4, SyncSafe
  <2> QED  BY <1>1, <2>5, <2>6
<1>5. CASE Fault /\ jrnl' \in {jrnl, complete(0)} /\ IoError
  <2>1. faults' \in 0 .. MaxFaults
    BY <1>0, <1>5, FaultsBound
  <2>2. /\ jrnl' \in Seq(Unit(Contents)) /\ Len(jrnl') = Len(jrnl)
        /\ Mine(jrnl', dbOrigSize) /\ (jrnl'[1].magic \/ j.hdr = 0)
    BY <1>2, <1>3, <1>5
  <2>3. Left(jrnl', Len(dbf))
    BY <1>0, <1>2, <2>2, MineLeft
  <2>4. /\ dbf' \in Seq(Contents) /\ Len(dbf') \in Page /\ Len(dbf) <= Len(dbf')
        /\ Left(jrnl', Len(dbf')) /\ j.off <= Len(jrnl')
    BY <1>1, <1>2, <2>2, <2>3
  <2> QED  BY <1>0, <1>1, <1>5, <2>1, <2>2, <2>4, IoErrorSafe
<1> QED  BY <1>4, <1>5 DEF writeNRec, complete

LEMMA NextHdrSafe ==
    ASSUME SaveInv, writeNextHdr
    PROVE  SaveInv'
<1>0. setup' = setup /\ setup \in SetupType
  BY DEF writeNextHdr, fileVars, SaveInv, Typed
<1> DEFINE o == journalHdrOffset(j.off)
           b == HdrSector(Hdr(FALSE, 0, Own, dbOrigSize))
           next == WriteAt(jrnl, o, b)
<1>1. /\ pc = "newhdr" /\ eState \in Modifying /\ cur.op = "spill"
      /\ UNCHANGED <<dbf, written>> /\ cur \in Cur /\ sp \in Seq(Save)
      /\ jrnl[1].magic
  BY DEF writeNextHdr, SaveInv, ControlOK, Places, Typed, JournalOK
<1>2. /\ jrnl \in Seq(Unit(Contents)) /\ dbf \in Seq(Contents)
      /\ Len(dbf) \in Page /\ Len(dbf) \in Nat /\ Len(jrnl) \in Nat
      /\ j.off \in Nat /\ j.off >= 1 /\ j.off <= Len(jrnl)
      /\ Mine(jrnl, dbOrigSize) /\ dbOrigSize \in 0 .. MaxPage
      /\ dbOrigSize \in Nat /\ dbOrigSize >= 1 /\ dbOrigSize <= Len(dbf)
  BY <1>1, InTxn
<1>3. Sector \in Nat /\ Sector >= 1
  BY <1>0, Constants
<1>4. o \in Nat /\ o >= 1
  <2>1. o \in Nat /\ o >= j.off
    BY <1>2, <1>3, HdrOffset
  <2> QED  BY <1>2, <2>1
<1>5. b \in Seq(Unit(Contents)) /\ Len(b) = Sector /\ RecBound(b, dbOrigSize)
  <2>1. b = HdrSector(Hdr(FALSE, 0, Own, dbOrigSize))
    OBVIOUS
  <2>2. IsHdrSector(b, dbOrigSize)
    BY <1>0, <1>2, <2>1, HdrSectorUnits
  <2> HIDE DEF b, next
  <2> QED  BY <2>2 DEF IsHdrSector, RecBound
<1> HIDE DEF o, b
<1>6. ASSUME Seekable(jrnl, o)
      PROVE  /\ next \in Seq(Unit(Contents)) /\ Mine(next, dbOrigSize)
             /\ Len(next) \in Nat /\ Len(jrnl) <= Len(next)
             /\ o + Sector <= Len(next) /\ next[1] = jrnl[1]
  <2>1. o <= Len(jrnl)
    BY <1>6 DEF Seekable
  <2>2. /\ next \in Seq(Unit(Contents)) /\ Mine(next, dbOrigSize)
        /\ Len(next) \in Nat /\ Len(jrnl) <= Len(next)
        /\ o + Len(b) <= Len(next) /\ next[1] = jrnl[1]
    BY <1>0, <1>2, <1>4, <1>5, <2>1, JournalWrite
  <2> QED  BY <1>5, <2>2
<1> HIDE DEF next
<1>7. CASE /\ Seekable(jrnl, o)
           /\ NoFault
           /\ jrnl' = next
           /\ sp' = [i \in 1 .. Len(sp) |->
                        IF sp[i].iHdrOffset = 0
                        THEN [sp[i] EXCEPT !.iHdrOffset = j.off] ELSE sp[i]]
           /\ j' = [off |-> o + Sector, hdr |-> o, nRec |-> 0, open |-> TRUE]
           /\ Synced
           /\ pc' = "put"
           /\ UNCHANGED <<cache, dirty, sub, inJournal, dbSize, dbOrigSize,
                          cur, histVars>>
  <2>1. ASSUME NEW i \in 1 .. Len(sp)
        PROVE  sp'[i] \in Save /\ sp'[i].nOrig = sp[i].nOrig
    <3> DEFINE s == sp[i]
    <3>1. s \in Save
      BY <1>1, ElementOfSeq
    <3>2. sp'[i] = IF s.iHdrOffset = 0
                   THEN [s EXCEPT !.iHdrOffset = j.off] ELSE s
      BY <1>7
    <3> HIDE DEF s
    <3>3. sp'[i] \in Save /\ sp'[i].nOrig = s.nOrig
      BY <1>2, <3>1, <3>2 DEF Save
    <3> QED  BY <3>3 DEF s
  <2>2. sp' \in [1 .. Len(sp) -> Save] /\ Len(sp) \in Nat
    BY <1>1, <1>7, <2>1
  <2>3. sp' \in Seq(Save) /\ Len(sp') = Len(sp)
    BY <2>2, FunSeq
  <2>4. /\ j' \in [off : Nat, hdr : Nat, nRec : Nat, open : BOOLEAN]
        /\ j'.off = o + Sector /\ j'.open
    BY <1>3, <1>4, <1>7
  <2>5. /\ jrnl' \in Seq(Unit(Contents)) /\ Mine(jrnl', dbOrigSize)
        /\ j'.off <= Len(jrnl') /\ jrnl'[1].magic /\ j'.off >= Sector
    BY <1>1, <1>3, <1>4, <1>6, <1>7, <2>4
  <2>6. /\ UNCHANGED <<dbf, written, faults, cache, dirty, sub, inJournal,
                       dbSize, dbOrigSize, cur>>
        /\ needSync' \subseteq needSync /\ eState' = "WRITER_DBMOD"
        /\ pc' = "put"
    BY <1>1, <1>7 DEF NoFault, Synced
  <2>7. Places(pc', eState', cur'.op) /\ eState' \in Modifying
    BY <1>1, <2>6 DEF Places, PC, Modifying
  <2> QED  BY <1>0, <1>1, <2>1, <2>3, <2>4, <2>5, <2>6, <2>7, SyncSafe
<1>8. CASE /\ IF Seekable(jrnl, o) THEN Fault /\ jrnl' \in {jrnl, next}
              ELSE NoFault /\ UNCHANGED jrnl
           /\ IoError
  <2>1. faults' \in 0 .. MaxFaults
    BY <1>0, <1>8, FaultsBound
  <2>2. /\ jrnl' \in Seq(Unit(Contents)) /\ Mine(jrnl', dbOrigSize)
        /\ j.off <= Len(jrnl') /\ jrnl'[1].magic
    BY <1>1, <1>2, <1>6, <1>8
  <2>3. Left(jrnl', Len(dbf))
    BY <1>0, <1>2, <2>2, MineLeft
  <2>4. /\ dbf' \in Seq(Contents) /\ Len(dbf') \in Page /\ Len(dbf) <= Len(dbf')
        /\ Left(jrnl', Len(dbf'))
    BY <1>1, <1>2, <2>3
  <2> QED  BY <1>0, <1>1, <1>8, <2>1, <2>2, <2>4, IoErrorSafe
<1> QED  BY <1>7, <1>8 DEF writeNextHdr, next, o, b

-----------------------------------------------------------------------------
(* Pages go to the database file.                                          *)

(* A page is written to the file, or right after its end.                  *)
LEMMA FileGrows ==
    ASSUME SaveInv, NEW p \in Page, NEW data \in Contents,
           Seekable(dbf, p - 1), dbf' = PutPage(p, data)
    PROVE  /\ dbf' \in Seq(Contents) /\ Len(dbf') \in Page /\ Len(dbf') \in Nat
           /\ Len(dbf) <= Len(dbf') /\ p <= Len(dbf')
           /\ \A q \in Page : Len(dbf') < q => Len(dbf) < q /\ q # p
           /\ Left(jrnl, Len(dbf'))
<1>1. /\ setup \in SetupType /\ dbf \in Seq(Contents) /\ Len(dbf) \in Page
      /\ jrnl \in Seq(Unit(Contents)) /\ Left(jrnl, Len(dbf))
  BY DEF SaveInv, Typed, JournalOK
<1>2. p \in Nat /\ Len(dbf) \in Nat /\ MaxPage \in Nat /\ Page \subseteq Nat
  BY <1>1, Constants DEF Page
<1>3. p <= Len(dbf) + 1
  BY <1>2 DEF Seekable
<1>4. /\ dbf' \in Seq(Contents) /\ Len(dbf') \in Page
      /\ Len(dbf') = IF p > Len(dbf) THEN p ELSE Len(dbf)
  BY <1>1, <1>3, PutEffect
<1>5. /\ Len(dbf') \in Nat /\ Len(dbf) <= Len(dbf') /\ p <= Len(dbf')
      /\ \A q \in Page : Len(dbf') < q => Len(dbf) < q /\ q # p
  BY <1>2, <1>4
<1>6. Left(jrnl, Len(dbf'))
  BY <1>1, <1>2, <1>5, LeftGrows
<1> QED  BY <1>4, <1>5, <1>6

LEMMA SpilledSafe ==
    ASSUME SaveInv, writeSpilled
    PROVE  SaveInv'
<1>0. setup' = setup /\ setup \in SetupType
  BY DEF writeSpilled, fileVars, SaveInv, Typed
<1>1. /\ pc = "put" /\ eState \in Modifying /\ cur.op = "spill"
      /\ UNCHANGED <<jrnl, written>> /\ cur.p \in dirty /\ cur.p \in Page
      /\ cache[cur.p] \in Contents /\ dirty \subseteq Cached(Page)
  <2>1. /\ pc = "put" /\ eState \in Modifying /\ cur.op = "spill"
        /\ UNCHANGED <<jrnl, written>> /\ cur.p \in dirty
        /\ dirty \subseteq Cached(Page)
    BY DEF writeSpilled, SaveInv, ControlOK, Places, WorkOK, FlagsOK
  <2>2. cur.p \in Page /\ cache[cur.p] # NotCached
    BY <2>1 DEF Cached
  <2> QED  BY <2>1, <2>2, PageContents
<1>2. /\ jrnl \in Seq(Unit(Contents)) /\ dbf \in Seq(Contents)
      /\ Len(dbf) \in Page /\ Len(dbf) \in Nat /\ Left(jrnl, Len(dbf))
      /\ dbOrigSize \in Nat /\ dbOrigSize >= 1 /\ dbOrigSize <= dbSize
      /\ dbSize \in Nat /\ dbOrigSize <= Len(dbf) /\ Covered(dirty)
  BY <1>1, InTxn DEF SaveInv, JournalOK, SizeOK
<1>3. CASE /\ NoFault /\ MakeClean({cur.p}) /\ pc' = "idle" /\ cur' = Idle
           /\ UNCHANGED <<eState, cache, sub, sp, inJournal, j, dbSize,
                          dbOrigSize, histVars>>
           /\ \/ /\ cur.p <= dbSize /\ Seekable(dbf, cur.p - 1)
                 /\ dbf' = PutPage(cur.p, cache[cur.p])
              \/ cur.p > dbSize /\ UNCHANGED dbf
  <2>1. /\ dbf' \in Seq(Contents) /\ Len(dbf') \in Page /\ Len(dbf') \in Nat
        /\ Len(dbf) <= Len(dbf') /\ Left(jrnl, Len(dbf'))
        /\ \A q \in Page : Len(dbf') < q /\ q <= dbSize =>
                               Len(dbf) < q /\ q # cur.p
    <3>1. CASE /\ cur.p <= dbSize /\ Seekable(dbf, cur.p - 1)
               /\ dbf' = PutPage(cur.p, cache[cur.p])
      BY <1>1, <3>1, FileGrows
    <3>2. CASE cur.p > dbSize /\ UNCHANGED dbf
      <4>1. cur.p \in Nat
        BY <1>0, <1>1, Constants DEF Page
      <4> QED  BY <1>0, <1>2, <3>2, <4>1, Constants DEF Page
    <3> QED  BY <1>3, <3>1, <3>2
  <2>2. cur' \in Cur /\ cur'.op = "none" /\ pc' = "idle"
    BY <1>3 DEF Idle, Cur, Op, Own, Other
  <2>3. /\ UNCHANGED <<eState, cache, sub, sp, inJournal, j, dbSize,
                       dbOrigSize, faults, jrnl, written>>
        /\ dirty' = dirty \ {cur.p} /\ needSync' \subseteq needSync
    BY <1>1, <1>3 DEF NoFault, MakeClean
  <2>4. Typed'
    BY <1>0, <2>1, <2>2, <2>3, SameSetup DEF SaveInv, Typed
  <2>5. FlagsOK'
    <3>1. Cached(Page)' = Cached(Page)
      BY <2>3 DEF Cached
    <3> QED  BY <1>1, <2>2, <2>3, <3>1 DEF SaveInv, FlagsOK, Modifying
  <2>6. ControlOK'
    BY <1>1, <2>2, <2>3 DEF ControlOK, Places, PC, Writing
  <2>7. JournalOK'
    BY <1>0, <1>1, <2>1, <2>2, <2>3, SameSetup
       DEF SaveInv, JournalOK, CacheMod, Modifying
  <2>8. SizeOK'
    <3>1. Covered(dirty)'
      BY <1>2, <2>1, <2>3 DEF Covered
    <3> QED  BY <1>1, <1>2, <2>1, <2>2, <2>3, <3>1
             DEF SaveInv, SizeOK, CacheMod, Modifying
  <2>9. WorkOK' /\ SavesOK'
    BY <1>1, <2>2, <2>3 DEF SaveInv, WorkOK, SavesOK
  <2> QED  BY <2>4, <2>5, <2>6, <2>7, <2>8, <2>9 DEF SaveInv
<1>4. CASE WritePageFails(cur.p)
  BY <1>0, <1>1, <1>4, WriteFailsSafe
<1> QED  BY <1>3, <1>4 DEF writeSpilled

LEMMA PageListSafe ==
    ASSUME SaveInv, pager_write_pagelist
    PROVE  SaveInv'
<1>0. setup' = setup /\ setup \in SetupType
  BY DEF pager_write_pagelist, fileVars, SaveInv, Typed
<1> DEFINE p == Smallest(cur.todo)
<1>1. /\ pc = "pages" /\ eState = "WRITER_DBMOD" /\ cur.op = "commit"
      /\ UNCHANGED <<jrnl, written>> /\ cur.todo # {} /\ cur \in Cur
      /\ cur.todo \subseteq dirty /\ Covered(cur.todo)
      /\ \A q \in cur.todo : q <= dbSize
      /\ dirty \subseteq Cached(Page)
  BY DEF pager_write_pagelist, SaveInv, ControlOK, Places, WorkOK, FlagsOK,
     Typed
<1>2. p \in cur.todo /\ p \in Page /\ cache[p] \in Contents
  <2>1. cur.todo \in SUBSET Page
    BY <1>1 DEF Cur
  <2>2. p \in cur.todo /\ p \in Page
    BY <1>1, <2>1, SmallestIn
  <2>3. cache[p] # NotCached
    BY <1>1, <2>2 DEF Cached
  <2> QED  BY <2>2, <2>3, PageContents
<1>3. /\ jrnl \in Seq(Unit(Contents)) /\ dbf \in Seq(Contents)
      /\ Len(dbf) \in Page /\ Len(dbf) \in Nat
      /\ dbOrigSize \in Nat /\ dbOrigSize >= 1 /\ dbOrigSize <= dbSize
      /\ dbSize \in Nat /\ dbOrigSize <= Len(dbf) /\ Covered(dirty)
  BY <1>1, InTxn DEF SaveInv, SizeOK, Modifying
<1> HIDE DEF p
<1>4. CASE /\ Seekable(dbf, p - 1)
           /\ NoFault
           /\ dbf' = PutPage(p, cache[p])
           /\ cur' = [cur EXCEPT !.todo = @ \ {p}]
           /\ UNCHANGED <<eState, pageVars, sub, sp, inJournal, j, dbSize,
                          dbOrigSize, pc, histVars>>
  <2>1. /\ dbf' \in Seq(Contents) /\ Len(dbf') \in Page /\ Len(dbf') \in Nat
        /\ Len(dbf) <= Len(dbf') /\ Left(jrnl, Len(dbf'))
        /\ \A q \in Page : Len(dbf') < q => Len(dbf) < q /\ q # p
    BY <1>2, <1>4, FileGrows
  <2>2. /\ cur' \in Cur /\ cur'.op = cur.op /\ cur'.p = cur.p
        /\ cur'.todo = cur.todo \ {p}
    BY <1>1, <1>4 DEF Cur
  <2>3. UNCHANGED <<eState, cache, dirty, needSync, sub, sp, inJournal, j,
                    dbSize, dbOrigSize, pc, faults, jrnl, written>>
    BY <1>1, <1>4 DEF NoFault, pageVars
  <2>4. Typed'
    BY <1>0, <2>1, <2>2, <2>3, SameSetup DEF SaveInv, Typed
  <2>5. FlagsOK' /\ ControlOK'
    BY <2>2, <2>3 DEF SaveInv, FlagsOK, Cached, ControlOK
  <2>6. JournalOK'
    BY <1>0, <1>1, <2>1, <2>2, <2>3, SameSetup DEF SaveInv, JournalOK, CacheMod
  <2>7. SizeOK'
    <3>1. Covered(dirty)'
      BY <1>3, <2>1, <2>3 DEF Covered
    <3> QED  BY <1>1, <1>3, <2>1, <2>2, <2>3, <3>1
             DEF SaveInv, SizeOK, CacheMod, Modifying
  <2>8. WorkOK'
    <3>1. Covered(cur.todo)' /\ cur'.todo \subseteq dirty'
          /\ \A q \in cur'.todo : q <= dbSize'
      BY <1>1, <2>1, <2>2, <2>3 DEF Covered
    <3> QED  BY <1>1, <2>2, <2>3, <3>1 DEF WorkOK
  <2>9. SavesOK'
    BY <2>2, <2>3 DEF SaveInv, SavesOK
  <2> QED  BY <2>4, <2>5, <2>6, <2>7, <2>8, <2>9 DEF SaveInv
<1>5. CASE WritePageFails(p)
  BY <1>0, <1>1, <1>2, <1>5, WriteFailsSafe DEF Modifying
<1> QED  BY <1>4, <1>5 DEF pager_write_pagelist, p

(* The journal after the end of a transaction.                             *)
LEMMA FinalizedJournal ==
    ASSUME SaveInv, pc = "end"
    PROVE  /\ Finalized \in Seq(Unit(Contents)) /\ Left(Finalized, Len(dbf))
           /\ ~(Finalized # <<>> /\ Finalized[1].magic)
           /\ eState # "OPEN" => RecBound(Finalized, dbOrigSize)
<1>1. /\ setup \in SetupType /\ jrnl \in Seq(Unit(Contents))
      /\ Left(jrnl, Len(dbf)) /\ Len(jrnl) \in Nat
      /\ eState \in {"OPEN", "WRITER_LOCKED"} \cup CacheMod
      /\ eState = "OPEN" => IsHotJournal /\ j.open
      /\ eState = "WRITER_LOCKED" => ~IsHotJournal /\ RecBound(jrnl, dbOrigSize)
      /\ eState \in CacheMod => Mine(jrnl, dbOrigSize) /\ j.open
  BY DEF SaveInv, Typed, JournalOK, ControlOK, Places, Writing, Modifying,
     CacheMod
<1>2. CASE Finalized = jrnl /\ eState = "WRITER_LOCKED"
  BY <1>1, <1>2 DEF IsHotJournal
<1>3. CASE Finalized = <<>>
  BY <1>3 DEF Left, RecBound
<1>4. CASE /\ eState # "WRITER_LOCKED"
           /\ Finalized = [jrnl EXCEPT ![1] = Hdr(FALSE, 0, Other, 0)]
  <2> DEFINE h == Hdr(FALSE, 0, Other, 0)
  <2>1. h \in HdrUnit /\ h \in Unit(Contents) /\ h.k = "hdr" /\ ~h.magic
    <3>1. MaxPage \in Nat
      BY <1>1, Constants
    <3> QED  BY <3>1 DEF Hdr, HdrUnit, Unit
  <2>2. jrnl # <<>> /\ RecBound(jrnl, Len(dbf))
        /\ (eState # "OPEN" => RecBound(jrnl, dbOrigSize))
    BY <1>1, <1>4 DEF IsHotJournal, Mine, Left
  <2> HIDE DEF h
  <2>3. 1 \in 1 .. Len(jrnl)
    BY <1>1, <2>2
  <2>4. Finalized = [jrnl EXCEPT ![1] = h]
    BY <1>4 DEF h
  <2>5. /\ Finalized \in Seq(Unit(Contents)) /\ Len(Finalized) = Len(jrnl)
        /\ \A i \in 1 .. Len(jrnl) : Finalized[i] = IF i = 1 THEN h ELSE jrnl[i]
    BY <1>1, <2>1, <2>3, <2>4
  <2>6. Finalized[1] = h
    BY <2>3, <2>5
  <2>7. /\ RecBound(Finalized, Len(dbf))
        /\ eState # "OPEN" => RecBound(Finalized, dbOrigSize)
    BY <2>1, <2>2, <2>5 DEF RecBound
  <2> QED  BY <2>1, <2>5, <2>6, <2>7 DEF Left
<1> QED  BY <1>1, <1>2, <1>3, <1>4 DEF Finalized

LEMMA EndSafe ==
    ASSUME SaveInv, pager_end_transaction
    PROVE  SaveInv'
<1>0. setup' = setup /\ setup \in SetupType
  BY DEF pager_end_transaction, fileVars, SaveInv, Typed
<1>1. /\ pc = "end" /\ jrnl' = Finalized
      /\ UNCHANGED <<dbf, faults, written, dbSize, dbOrigSize>>
      /\ dirty' = {} /\ sub' = <<>> /\ sp' = <<>> /\ inJournal' = {}
      /\ j' = NewJ /\ cur' = Idle
      /\ cache' = [p \in Page |-> IF p > dbSize THEN NotCached ELSE cache[p]]
      /\ needSync' = needSync \ (dirty \cup (dbSize + 1 .. MaxPage))
  BY DEF pager_end_transaction
<1>2. \/ pc' = "shrink" /\ eState' = eState /\ cur.op = "commit"
      \/ pc' = "dead" /\ eState' = eState /\ cur.op = "hot"
      \/ pc' = "idle" /\ eState' = "READER" /\ cur.op # "hot"
  BY DEF pager_end_transaction, isHot
<1>3. /\ cur.op = "commit" => eState \in {"WRITER_LOCKED", "WRITER_FINISHED"}
      /\ cur.op = "hot" <=> eState = "OPEN"
      /\ cur.op # "hot" => eState \in {"WRITER_LOCKED"} \cup CacheMod
  BY <1>1 DEF SaveInv, ControlOK, Places, Writing, Modifying, CacheMod
<1>4. /\ dbSize \in 0 .. MaxPage /\ dbSize \in Nat /\ Len(dbf) \in Nat
      /\ dbSize <= Len(dbf) /\ cache \in Pages(Contents)
      /\ setup.saves \in Nat /\ needSync \subseteq Cached(Page)
      /\ eState = "OPEN" => needSync = {}
      /\ eState # "OPEN" =>
             /\ dbSize >= 1 /\ dbOrigSize \in Nat /\ 1 <= dbOrigSize
             /\ dbOrigSize <= dbSize /\ dbOrigSize <= Len(dbf)
  <2>1. /\ dbSize \in 0 .. MaxPage /\ dbOrigSize \in 0 .. MaxPage
        /\ Len(dbf) \in Page /\ cache \in Pages(Contents)
        /\ needSync \subseteq Cached(Page)
        /\ eState = "OPEN" => needSync = {}
    BY DEF SaveInv, Typed, FlagsOK
  <2>2. MaxPage \in Nat /\ setup.saves \in Nat /\ Len(dbf) \in Nat
    BY <1>0, <2>1, Constants DEF Page
  <2>3. /\ dbSize <= Len(dbf)
        /\ eState # "OPEN" =>
               /\ dbSize >= 1 /\ 1 <= dbOrigSize
               /\ dbOrigSize <= dbSize /\ dbOrigSize <= Len(dbf)
    BY <1>1, <1>3 DEF SaveInv, SizeOK
  <2> QED  BY <2>1, <2>2, <2>3
<1>5. /\ jrnl' \in Seq(Unit(Contents)) /\ Left(jrnl', Len(dbf))
      /\ ~(jrnl' # <<>> /\ jrnl'[1].magic) /\ Len(jrnl') \in Nat
      /\ eState # "OPEN" => RecBound(jrnl', dbOrigSize)
  BY <1>1, FinalizedJournal
<1>6. eState # "OPEN" => RecBound(jrnl', dbSize)
  <2> SUFFICES ASSUME eState # "OPEN", NEW i \in 1 .. Len(jrnl'),
                      jrnl'[i].k = "rec"
               PROVE  jrnl'[i].pg <= dbSize
    BY DEF RecBound
  <2>1. jrnl'[i].pg <= dbOrigSize /\ jrnl'[i] \in Unit(Contents)
    BY <1>5, ElementOfSeq DEF RecBound
  <2>2. jrnl'[i].pg \in Page
    BY <2>1, UnitKinds DEF RecUnit
  <2>3. jrnl'[i].pg \in Nat
    BY <1>0, <2>2, Constants DEF Page
  <2> QED  BY <1>4, <2>1, <2>3
<1>7. Typed'
  <2>1. cur' \in Cur
    BY <1>1 DEF Idle, Cur, Op, Own, Other
  <2>2. j' \in [off : Nat, hdr : Nat, nRec : Nat, open : BOOLEAN]
    BY <1>1 DEF NewJ
  <2>3. cache' \in Pages(Contents)
    BY <1>1, <1>4 DEF Pages
  <2> QED  BY <1>0, <1>1, <1>4, <1>5, <2>1, <2>2, <2>3, SameSetup
           DEF SaveInv, Typed
<1>8. FlagsOK'
  <2>1. needSync' \subseteq Cached(Page)'
    <3> SUFFICES ASSUME NEW q \in needSync' PROVE q \in Cached(Page)'
      OBVIOUS
    <3>1. q \in Page /\ cache[q] # NotCached /\ q \notin dbSize + 1 .. MaxPage
      BY <1>1, <1>4 DEF Cached
    <3>2. q \in Nat /\ ~(q > dbSize)
      BY <1>0, <1>4, <3>1, Constants DEF Page
    <3>3. cache'[q] = cache[q]
      BY <1>1, <3>1, <3>2
    <3> QED  BY <3>1, <3>3 DEF Cached
  <2>2. eState' = "OPEN" => needSync' = {}
    BY <1>1, <1>2, <1>4
  <2> QED  BY <1>1, <2>1, <2>2 DEF FlagsOK
<1>9. ControlOK'
  BY <1>1, <1>2, <1>3 DEF ControlOK, Places, PC, Idle
<1>10. JournalOK'
  <2>1. j'.off = 0 /\ cur'.op = "none"
    BY <1>1 DEF NewJ, Idle
  <2>2. Left(jrnl', Len(dbf')) /\ j'.off <= Len(jrnl')
    BY <1>1, <1>5, <2>1
  <2>3. ~IsHotJournal'
    BY <1>5 DEF IsHotJournal
  <2>4. eState' = "READER" \/ pc' = "shrink" => RecBound(jrnl', dbSize')
    BY <1>1, <1>2, <1>3, <1>6
  <2>5. eState' = "WRITER_LOCKED" => RecBound(jrnl', dbOrigSize')
    BY <1>1, <1>2, <1>3, <1>5
  <2>6. eState' \in CacheMod => pc' = "shrink"
    BY <1>2, <1>3 DEF CacheMod
  <2>7. pc' \in {"shrink", "dead", "idle"}
    BY <1>2
  <2> QED  BY <2>1, <2>2, <2>3, <2>4, <2>5, <2>6, <2>7 DEF JournalOK
<1>11. SizeOK'
  BY <1>1, <1>2, <1>3, <1>4 DEF SizeOK, CacheMod, Modifying
<1>12. WorkOK' /\ SavesOK'
  BY <1>1, <1>2 DEF WorkOK, SavesOK, Idle
<1> QED  BY <1>7, <1>8, <1>9, <1>10, <1>11, <1>12 DEF SaveInv

LEMMA TruncateSafe ==
    ASSUME SaveInv, truncateFile
    PROVE  SaveInv'
<1>0. setup' = setup /\ setup \in SetupType
  BY DEF truncateFile, fileVars, SaveInv, Typed
<1>1. /\ pc = "shrink" /\ cur.op = "none"
      /\ eState \in {"WRITER_LOCKED", "WRITER_FINISHED"}
      /\ UNCHANGED <<jrnl, written>>
      /\ inJournal = {} /\ dirty = {} /\ sub = <<>> /\ sp = <<>>
      /\ ~IsHotJournal /\ RecBound(jrnl, dbSize)
      /\ jrnl \in Seq(Unit(Contents)) /\ dbf \in Seq(Contents)
      /\ Len(dbf) \in Page /\ Left(jrnl, Len(dbf))
      /\ dbSize \in 0 .. MaxPage /\ 1 <= dbSize /\ dbSize <= Len(dbf)
  BY DEF truncateFile, SaveInv, ControlOK, Places, FlagsOK, SavesOK, JournalOK,
     Typed, SizeOK
<1>2. dbSize \in Page /\ dbSize \in 0 .. Len(dbf) /\ dbSize \in Nat
  BY <1>0, <1>1, Constants DEF Page
<1>3. CASE /\ NoFault /\ dbf' = SubSeq(dbf, 1, dbSize)
           /\ pc' = "idle" /\ eState' = "READER"
           /\ UNCHANGED <<pageVars, sub, sp, inJournal, j, dbSize, dbOrigSize,
                          cur, histVars>>
  <2>1. dbf' \in Seq(Contents) /\ Len(dbf') = dbSize
    BY <1>1, <1>2, <1>3, Prefix
  <2>2. UNCHANGED <<cache, dirty, needSync, sub, sp, inJournal, j, dbSize,
                    dbOrigSize, cur, faults, jrnl, written>>
    BY <1>1, <1>3 DEF NoFault, pageVars
  <2>3. Typed'
    BY <1>0, <1>2, <2>1, <2>2, SameSetup DEF SaveInv, Typed
  <2>4. FlagsOK' /\ ControlOK'
    BY <1>1, <1>3, <2>2 DEF SaveInv, FlagsOK, Cached, ControlOK, Places, PC
  <2>5. JournalOK'
    BY <1>1, <1>3, <2>1, <2>2
       DEF SaveInv, JournalOK, Left, IsHotJournal, CacheMod
  <2>6. SizeOK' /\ WorkOK' /\ SavesOK'
    BY <1>1, <1>2, <1>3, <2>1, <2>2
       DEF SizeOK, WorkOK, SavesOK, CacheMod, Modifying
  <2> QED  BY <2>3, <2>4, <2>5, <2>6 DEF SaveInv
<1>4. CASE Fault /\ Dead /\ UNCHANGED dbf
  <2>1. faults' \in 0 .. MaxFaults
    BY <1>0, <1>4, FaultsBound
  <2> QED  BY <1>0, <1>1, <1>4, <2>1, DeadSafe
<1> QED  BY <1>3, <1>4 DEF truncateFile

-----------------------------------------------------------------------------
(* Playback.                                                               *)

(* The first header of a playback of the whole journal is recognised, and  *)
(* says a size of which the file has all pages.                            *)
LEMMA HeaderSafe ==
    ASSUME SaveInv, readJournalHdr
    PROVE  SaveInv'
<1>0. setup' = setup /\ setup \in SetupType
  BY DEF readJournalHdr, fileVars, SaveInv, Typed
<1> DEFINE o == journalHdrOffset(cur.off)
           h == jrnl[o + 1]
           ok == h.k = "hdr" /\ (h.magic \/ (~isHot /\ o = j.hdr))
           first == o = 0 /\ ~isSavepnt
<1>1. /\ pc = "play" /\ cur.n = 0 /\ cur \in Cur
      /\ UNCHANGED <<jrnl, sub, faults, written, eState, dbOrigSize, j,
                     inJournal, dirty, needSync, sp, cache>>
      /\ \/ cur.op = "savepoint" /\ eState \in Writing
         \/ cur.op = "rollback" /\ eState \in Modifying
         \/ cur.op = "hot" /\ eState = "OPEN"
  BY DEF readJournalHdr, SaveInv, ControlOK, Places, Typed
<1>2. /\ jrnl \in Seq(Unit(Contents)) /\ dbf \in Seq(Contents)
      /\ Len(dbf) \in Page /\ Left(jrnl, Len(dbf)) /\ cur.szJ <= Len(jrnl)
      /\ dbSize \in 0 .. MaxPage
      /\ j \in [off : Nat, hdr : Nat, nRec : Nat, open : BOOLEAN]
      /\ cur.op = "hot" => IsHotJournal
      /\ cur.op = "hot" => dbSize <= Len(dbf)
      /\ eState \in Modifying =>
             /\ Mine(jrnl, dbOrigSize) /\ (jrnl[1].magic \/ j.hdr = 0)
             /\ j.off >= Sector /\ j.off <= Len(jrnl)
             /\ 1 <= dbOrigSize /\ dbOrigSize <= dbSize
             /\ dbOrigSize <= Len(dbf)
      /\ cur.op = "rollback" =>
             (cur.off = 0 /\ cur.szJ = Len(jrnl)) \/ dbSize <= Len(dbf)
  BY <1>1 DEF SaveInv, Typed, JournalOK, SizeOK, Modifying, CacheMod
<1>3. /\ Len(jrnl) \in Nat /\ Len(dbf) \in Nat /\ MaxPage \in Nat
      /\ cur.off \in Nat /\ cur.szJ \in Nat /\ Sector \in Nat /\ Sector >= 1
      /\ dbOrigSize \in Nat /\ dbSize \in Nat
  <2>1. /\ MaxPage \in Nat /\ Sector \in Nat /\ Sector >= 1
        /\ Len(jrnl) \in Nat /\ dbSize \in Nat
    BY <1>0, <1>2, Constants
  <2>2. Len(dbf) \in Nat
    BY <1>2, <2>1 DEF Page
  <2>3. cur.off \in Nat /\ cur.szJ \in Nat
    BY <1>1 DEF Cur
  <2>4. dbOrigSize \in Nat
    BY DEF SaveInv, Typed
  <2> QED  BY <2>1, <2>2, <2>3, <2>4
<1>4. o \in Nat /\ (cur.off = 0 => o = 0)
  BY <1>3, HdrOffset
<1> HIDE DEF o
\* The end of the playback.
<1>5. CASE /\ PlaybackEnd /\ UNCHANGED <<dbf, dbSize, cur>>
           /\ cur.op = "rollback" => dbSize <= Len(dbf)
  <2>1. /\ pc' = IF cur.op = "savepoint" THEN "sub" ELSE "end"
    BY <1>5 DEF PlaybackEnd, isSavepnt
  <2>2. Typed'
    BY <1>0, <1>1, <1>5, SameSetup DEF SaveInv, Typed
  <2>3. FlagsOK'
    BY <1>1, <2>1 DEF SaveInv, FlagsOK, Cached
  <2>4. ControlOK'
    BY <1>1, <1>5, <2>1 DEF ControlOK, Places, PC, Writing
  <2>5. JournalOK'
    BY <1>0, <1>1, <1>5, <2>1, SameSetup DEF SaveInv, JournalOK, IsHotJournal
  <2>6. SizeOK'
    <3>1. cur.op # "savepoint" => dbSize <= Len(dbf)
      BY <1>1, <1>2, <1>5
    <3> QED  BY <1>1, <1>5, <2>1, <3>1 DEF SaveInv, SizeOK, Covered
  <2>7. WorkOK' /\ SavesOK'
    BY <1>1, <1>5, <2>1 DEF SaveInv, WorkOK, SavesOK
  <2> QED  BY <2>2, <2>3, <2>4, <2>5, <2>6, <2>7 DEF SaveInv
<1>6. ASSUME cur.op = "rollback", cur.off = 0, cur.szJ = Len(jrnl)
      PROVE  o + Sector <= cur.szJ /\ ok
  <2>1. eState \in Modifying /\ o = 0
    BY <1>1, <1>4, <1>6
  <2>2. Sector <= Len(jrnl)
    <3>1. j.off \in Nat
      BY <1>2
    <3> QED  BY <1>2, <1>3, <2>1, <3>1
  <2>3. h \in HdrUnit /\ (h.magic \/ o = j.hdr)
    BY <1>2, <2>1 DEF Mine
  <2>4. h.k = "hdr" /\ ~isHot
    BY <1>6, <2>3 DEF HdrUnit, isHot
  <2> QED  BY <1>3, <1>6, <2>1, <2>2, <2>3, <2>4
\* A header.
<1>7. CASE /\ o + Sector <= cur.szJ /\ ok
           /\ cur' = [cur EXCEPT !.off = o + Sector, !.ck = h.init,
                                 !.n = RecordsAfter(h, o)]
           /\ dbSize' = IF first THEN h.mxPg ELSE dbSize
           /\ dbf' = IF first /\ PlaysToFile /\ Len(dbf) > h.mxPg
                     THEN SubSeq(dbf, 1, h.mxPg) ELSE dbf
           /\ UNCHANGED pc
  <2>1. /\ h \in HdrUnit /\ h.init \in {Own, Other} /\ h.nRec \in Nat
        /\ h.mxPg \in 0 .. MaxPage
    <3>1. o + 1 \in 1 .. Len(jrnl)
      <4>1. o + Sector <= cur.szJ /\ cur.szJ <= Len(jrnl)
        BY <1>2, <1>7
      <4> QED  BY <1>3, <1>4, <4>1
    <3>2. h \in Unit(Contents)
      BY <1>2, <3>1, ElementOfSeq
    <3>3. h \in HdrUnit
      BY <1>7, <3>2, UnitKinds
    <3> QED  BY <3>3 DEF HdrUnit
  <2>2. RecordsAfter(h, o) \in Nat
    BY <1>3, <1>4, <1>7, <2>1 DEF RecordsAfter
  <2>3. /\ cur' \in Cur /\ cur'.op = cur.op /\ cur'.szJ = cur.szJ
        /\ cur'.p = cur.p
    <3>1. o + Sector \in Nat
      BY <1>3, <1>4
    <3> HIDE DEF h
    <3> QED  BY <1>1, <1>7, <2>1, <2>2, <3>1 DEF Cur
  \* The size of the database is restored by the first header.
  <2>4. CASE first
    <3>1. /\ h = jrnl[1] /\ jrnl # <<>> /\ cur.op \in {"rollback", "hot"}
          /\ isSavepnt = FALSE
      BY <1>1, <1>2, <1>3, <1>7, <2>4 DEF isSavepnt
    <3>2. /\ 1 <= h.mxPg /\ h.mxPg <= Len(dbf) /\ RecBound(jrnl, h.mxPg)
          /\ cur.op = "rollback" => h.mxPg = dbOrigSize
      <4>1. CASE cur.op = "rollback"
        BY <1>1, <1>2, <3>1, <4>1 DEF Mine
      <4>2. CASE cur.op = "hot"
        BY <1>1, <1>2, <3>1, <4>2 DEF Left, IsHotJournal
      <4> QED  BY <3>1, <4>1, <4>2
    <3> DEFINE m == h.mxPg
    <3>3. m \in 0 .. MaxPage /\ m \in Nat /\ m \in 0 .. Len(dbf) /\ m \in Page
      BY <1>3, <2>1, <3>2 DEF Page
    <3>4. /\ dbSize' = m
          /\ dbf' = IF PlaysToFile /\ Len(dbf) > m THEN SubSeq(dbf, 1, m)
                    ELSE dbf
      BY <1>7, <2>4
    <3>5. Left(jrnl, m)
      <4>1. jrnl[1] \in HdrUnit
        BY <1>2, <3>1 DEF Left
      <4> QED  BY <3>1, <3>2, <3>3, <4>1 DEF Left
    <3> HIDE DEF m, h, first
    <3>6. /\ dbf' \in Seq(Contents) /\ Len(dbf') \in Page /\ m <= Len(dbf')
          /\ Left(jrnl, Len(dbf')) /\ Len(dbf') \in Nat
      <4>1. CASE dbf' = dbf
        BY <1>2, <1>3, <3>3, <4>1
      <4>2. CASE dbf' = SubSeq(dbf, 1, m)
        <5>1. dbf' \in Seq(Contents) /\ Len(dbf') = m
          BY <1>2, <3>3, <4>2, Prefix
        <5> QED  BY <3>3, <3>5, <5>1
      <4> QED  BY <3>4, <4>1, <4>2
    <3>7. cur.op = "rollback" => dbOrigSize = m
      BY <3>2 DEF m
    <3>8. Typed'
      BY <1>0, <1>1, <2>3, <3>3, <3>4, <3>6, SameSetup DEF SaveInv, Typed
    <3>9. FlagsOK'
      BY <1>1, <1>7 DEF SaveInv, FlagsOK, Cached
    <3>10. ControlOK'
      BY <1>1, <1>7, <2>3 DEF ControlOK, Places, PC, Writing
    <3>11. JournalOK'
      BY <1>0, <1>1, <1>7, <2>3, <3>1, <3>6, SameSetup
         DEF SaveInv, JournalOK, IsHotJournal, Modifying, CacheMod
    <3>12. SizeOK'
      <4>1. dbSize' \in Nat /\ dbSize' >= 1 /\ dbSize' <= Len(dbf')
        BY <3>2, <3>3, <3>4, <3>6 DEF m
      <4>2. cur.op = "rollback" => dbOrigSize' = dbSize'
        BY <1>1, <3>4, <3>7
      <4>3. eState' = eState /\ pc' = "play" /\ cur'.op = cur.op
        BY <1>1, <1>7, <2>3
      <4> QED  BY <1>1, <3>1, <4>1, <4>2, <4>3 DEF SizeOK, Modifying, CacheMod
    <3>13. WorkOK'
      <4>1. pc' = "play" /\ cur'.op # "spill"
        BY <1>1, <1>7, <2>3
      <4> QED  BY <4>1 DEF WorkOK
    <3>14. SavesOK'
      BY <1>1, <1>7, <2>3, <3>1
         DEF SaveInv, SavesOK, Modifying
    <3> QED  BY <3>8, <3>9, <3>10, <3>11, <3>12, <3>13, <3>14 DEF SaveInv
  <2>5. CASE ~first
    <3>1. UNCHANGED <<dbf, dbSize, pc>>
      BY <1>7, <2>5
    <3> HIDE DEF h, first, ok
    <3>2. cur.op = "rollback" => dbSize <= Len(dbf)
      <4> SUFFICES ASSUME cur.op = "rollback", cur.off = 0 PROVE FALSE
        BY <1>2
      <4> QED  BY <1>4, <2>5 DEF first, isSavepnt
    <3>3. Typed'
      BY <1>0, <1>1, <2>3, <3>1, SameSetup DEF SaveInv, Typed
    <3>4. FlagsOK' /\ ControlOK'
      BY <1>1, <2>3, <3>1 DEF SaveInv, FlagsOK, Cached, ControlOK
    <3>5. JournalOK'
      BY <1>0, <1>1, <2>3, <3>1, SameSetup DEF SaveInv, JournalOK, IsHotJournal
    <3>6. SizeOK'
      BY <1>1, <2>3, <3>1, <3>2 DEF SaveInv, SizeOK, Covered
    <3>7. WorkOK' /\ SavesOK'
      BY <1>1, <2>3, <3>1 DEF SaveInv, WorkOK, SavesOK
    <3> QED  BY <3>3, <3>4, <3>5, <3>6, <3>7 DEF SaveInv
  <2> QED  BY <2>4, <2>5
<1>8. ASSUME \/ isSavepnt /\ cur.off >= cur.szJ
             \/ o + Sector > cur.szJ
             \/ ~ok
      PROVE  cur.op = "rollback" => dbSize <= Len(dbf)
  <2> SUFFICES ASSUME cur.op = "rollback", ~(dbSize <= Len(dbf)) PROVE FALSE
    OBVIOUS
  <2>1. cur.off = 0 /\ cur.szJ = Len(jrnl) /\ ~isSavepnt
    BY <1>2 DEF isSavepnt
  <2>2. o + Sector <= cur.szJ /\ ok
    BY <1>6, <2>1
  <2> HIDE DEF ok
  <2> QED  BY <1>3, <1>4, <1>8, <2>1, <2>2
<1> QED
  <2>1. CASE /\ \/ isSavepnt /\ cur.off >= cur.szJ
                \/ o + Sector > cur.szJ
             /\ PlaybackEnd
             /\ UNCHANGED <<dbf, dbSize, cur>>
    <3> HIDE DEF ok
    <3> QED  BY <1>5, <1>8, <2>1
  <2>2. CASE ~ok /\ PlaybackEnd /\ UNCHANGED <<dbf, dbSize, cur>>
    <3> HIDE DEF ok
    <3> QED  BY <1>5, <1>8, <2>2
  <2> QED  BY <1>7, <2>1, <2>2 DEF readJournalHdr, o

(* A record of the main journal.  ROLLBACK TO finds no page beyond the     *)
(* size that the database had at first, a rollback none beyond its size.   *)
LEMMA MainSafe ==
    ASSUME SaveInv, playMain
    PROVE  SaveInv'
<1>0. setup' = setup /\ setup \in SetupType
  BY DEF playMain, fileVars, SaveInv, Typed
<1> DEFINE r == jrnl[cur.off + 1]
           next == [cur EXCEPT !.off = @ + 1, !.n = @ - 1]
           isSynced == cur.off + 1 <= j.hdr
           valid == /\ cur.off < Len(jrnl)
                    /\ r.k = "rec"
                    /\ isSavepnt \/ r.pg > dbSize \/ r.cksum = cur.ck
           skip == r.pg > dbSize \/ r.pg \in cur.done
<1>1. /\ pc = "play" /\ cur.n > 0 /\ cur \in Cur /\ UNCHANGED <<jrnl, written>>
      /\ \/ cur.op = "savepoint" /\ eState \in Writing
         \/ cur.op = "rollback" /\ eState \in Modifying
         \/ cur.op = "hot" /\ eState = "OPEN"
  BY DEF playMain, SaveInv, ControlOK, Places, Typed
<1>2. /\ jrnl \in Seq(Unit(Contents)) /\ dbf \in Seq(Contents)
      /\ Len(dbf) \in Page /\ Left(jrnl, Len(dbf)) /\ cache \in Pages(Contents)
      /\ cur.op # "savepoint" => dbSize <= Len(dbf)
      /\ cur.op = "savepoint" =>
             RecBound(jrnl, dbOrigSize) /\ dbOrigSize <= Len(dbf)
      /\ eState \in Modifying /\ cur.op # "rollback" => Covered(dirty)
      /\ dirty \subseteq Cached(Page) /\ needSync \subseteq Cached(Page)
  <2>1. /\ jrnl \in Seq(Unit(Contents)) /\ dbf \in Seq(Contents)
        /\ Len(dbf) \in Page /\ cache \in Pages(Contents)
        /\ Left(jrnl, Len(dbf))
        /\ dirty \subseteq Cached(Page) /\ needSync \subseteq Cached(Page)
    BY DEF SaveInv, Typed, JournalOK, FlagsOK
  <2>2. cur.op = "savepoint" => RecBound(jrnl, dbOrigSize)
    <3>1. CASE eState = "WRITER_LOCKED"
      BY <3>1 DEF SaveInv, JournalOK
    <3>2. CASE eState \in Modifying
      BY <1>1, <3>2, InTxn DEF Mine
    <3> QED  BY <1>1, <3>1, <3>2 DEF Writing
  <2>3. /\ cur.op = "savepoint" => dbOrigSize <= Len(dbf)
        /\ eState \in Modifying /\ cur.op # "rollback" => Covered(dirty)
    BY <1>1 DEF SaveInv, SizeOK, Writing, Modifying, CacheMod
  <2>4. cur.op # "savepoint" => dbSize <= Len(dbf)
    <3>1. cur.n # 0
      BY <1>1 DEF Cur
    <3> QED  BY <1>1, <3>1 DEF SaveInv, SizeOK
  <2> QED  BY <2>1, <2>2, <2>3, <2>4
<1>3. /\ Len(jrnl) \in Nat /\ Len(dbf) \in Nat /\ dbSize \in Nat
      /\ dbOrigSize \in Nat
  <2>1. Len(jrnl) \in Nat /\ dbSize \in Nat /\ dbOrigSize \in Nat
    BY <1>2 DEF SaveInv, Typed
  <2> QED  BY <1>0, <1>2, <2>1, Constants DEF Page
<1>4. /\ cur.off \in Nat /\ cur.n \in Nat /\ cur.szJ \in Nat
      /\ cur.off + 1 \in Nat /\ cur.n - 1 \in Nat
  <2>1. cur.off \in Nat /\ cur.n \in Nat /\ cur.szJ \in Nat
    BY <1>1 DEF Cur
  <2> QED  BY <1>1, <2>1
<1>5. /\ next \in Cur /\ next.op = cur.op /\ next.szJ = cur.szJ
      /\ next.done = cur.done
  BY <1>1, <1>4 DEF Cur
<1>6. ASSUME valid
      PROVE  /\ r.pg \in Page /\ r.pg \in Nat /\ r.data \in Contents
             /\ ~skip => r.pg <= Len(dbf)
  <2>1. cur.off + 1 \in 1 .. Len(jrnl) /\ r.k = "rec"
    BY <1>3, <1>4, <1>6
  <2>2. r \in Unit(Contents)
    BY <1>2, <2>1, ElementOfSeq
  <2>3. r \in RecUnit(Contents)
    BY <2>1, <2>2, UnitKinds
  <2>4. r.pg \in Page /\ r.data \in Contents
    BY <2>3 DEF RecUnit
  <2>5. r.pg \in Nat
    BY <1>0, <2>4, Constants DEF Page
  <2>6. cur.op = "savepoint" => r.pg <= dbOrigSize
    BY <1>2, <2>1 DEF RecBound
  <2>7. ASSUME ~skip PROVE r.pg <= Len(dbf)
    <3>1. r.pg <= dbSize
      BY <1>3, <2>5, <2>7
    <3> HIDE DEF r
    <3> QED  BY <1>1, <1>2, <1>3, <2>5, <2>6, <3>1
  <2> HIDE DEF r, skip
  <2> QED  BY <2>4, <2>5, <2>7
<1> HIDE DEF r, next, isSynced, valid, skip
\* The record is left out, or the segment ends.
<1>7. CASE /\ NoFault
           /\ cur' = IF valid THEN next
                     ELSE [cur EXCEPT !.off = cur.szJ, !.n = 0]
           /\ UNCHANGED <<dbf, pageVars, pc, eState, sub, sp, inJournal, j,
                          dbSize, dbOrigSize, histVars>>
  <2>1. cur' \in Cur /\ cur'.op = cur.op /\ cur'.szJ = cur.szJ
    <3>1. CASE valid
      BY <1>5, <1>7, <3>1
    <3>2. CASE ~valid
      BY <1>1, <1>4, <1>7, <3>2 DEF Cur
    <3> QED  BY <3>1, <3>2
  <2>2. UNCHANGED <<dbf, cache, dirty, needSync, pc, eState, sub, sp, inJournal,
                    j, dbSize, dbOrigSize, faults, jrnl, written>>
    BY <1>1, <1>7 DEF NoFault, pageVars
  <2>3. Typed'
    BY <1>0, <2>1, <2>2, SameSetup DEF SaveInv, Typed
  <2>4. FlagsOK' /\ ControlOK'
    BY <2>1, <2>2 DEF SaveInv, FlagsOK, Cached, ControlOK
  <2>5. JournalOK'
    BY <1>0, <2>1, <2>2, SameSetup DEF SaveInv, JournalOK, IsHotJournal
  <2>6. SizeOK'
    BY <1>1, <1>2, <2>1, <2>2 DEF SaveInv, SizeOK, Covered
  <2>7. WorkOK' /\ SavesOK'
    BY <1>1, <2>1, <2>2 DEF SaveInv, WorkOK, SavesOK
  <2> QED  BY <2>3, <2>4, <2>5, <2>6, <2>7 DEF SaveInv
\* The page gets its old content.
<1>8. CASE /\ valid /\ ~skip
           /\ NoFault
           /\ dbf' = IF PlaysToFile /\ isSynced THEN PutPage(r.pg, r.data)
                     ELSE dbf
           /\ cur' = [next EXCEPT !.done = IF isSavepnt THEN @ \cup {r.pg}
                                           ELSE @]
           /\ IF cache[r.pg] # NotCached
              THEN /\ cache' = [cache EXCEPT ![r.pg] = r.data]
                   /\ IF ~isSavepnt \/ isSynced THEN MakeClean({r.pg})
                      ELSE UNCHANGED <<dirty, needSync>>
              ELSE UNCHANGED pageVars
           /\ UNCHANGED <<pc, eState, sub, sp, inJournal, j, dbSize,
                          dbOrigSize, histVars>>
  <2>0. /\ r.pg \in Page /\ r.pg \in Nat /\ r.data \in Contents
        /\ r.pg <= Len(dbf)
    BY <1>6, <1>8
  <2>1. cur' \in Cur /\ cur'.op = cur.op /\ cur'.szJ = cur.szJ
    BY <1>5, <1>8, <2>0 DEF Cur
  <2>2. dbf' \in Seq(Contents) /\ Len(dbf') = Len(dbf)
    <3>1. CASE dbf' = dbf
      BY <1>2, <3>1
    <3>2. CASE dbf' = PutPage(r.pg, r.data)
      <4>1. r.pg <= Len(dbf) + 1
        BY <1>3, <2>0
      <4>2. /\ PutPage(r.pg, r.data) \in Seq(Contents)
            /\ Len(PutPage(r.pg, r.data)) =
                   IF r.pg > Len(dbf) THEN r.pg ELSE Len(dbf)
        BY <1>0, <1>2, <2>0, <4>1, PutEffect
      <4> QED  BY <1>3, <2>0, <3>2, <4>2
    <3> QED  BY <1>8, <3>1, <3>2
  <2>3. UNCHANGED <<pc, eState, sub, sp, inJournal, j, dbSize, dbOrigSize,
                    faults, jrnl, written>>
    BY <1>1, <1>8 DEF NoFault
  <2>4. /\ cache' \in Pages(Contents)
        /\ \A q \in Page : cache[q] # NotCached => cache'[q] # NotCached
    <3>1. NotCached \notin Contents
      BY <1>0, Constants
    <3>2. CASE cache' = cache
      BY <1>2, <3>2
    <3>3. CASE cache' = [cache EXCEPT ![r.pg] = r.data]
      BY <1>2, <2>0, <3>1, <3>3 DEF Pages
    <3> QED  BY <1>8, <3>2, <3>3 DEF pageVars
  <2>5. /\ dirty' \subseteq dirty /\ needSync' \subseteq needSync
        /\ dirty \subseteq dirty' \cup {r.pg}
    BY <1>8 DEF MakeClean, pageVars
  <2>6. Typed'
    BY <1>0, <1>2, <2>1, <2>2, <2>3, <2>4, SameSetup DEF SaveInv, Typed
  <2>7. FlagsOK'
    <3>1. Cached(Page) \subseteq Cached(Page)'
      BY <2>4 DEF Cached
    <3> QED  BY <1>2, <2>3, <2>5, <3>1 DEF SaveInv, FlagsOK
  <2>8. ControlOK'
    BY <2>1, <2>3 DEF SaveInv, ControlOK
  <2>9. JournalOK'
    BY <1>0, <2>1, <2>2, <2>3, SameSetup DEF SaveInv, JournalOK, IsHotJournal
  <2>10. SizeOK'
    <3>1. Covered(dirty) => Covered(dirty)'
      <4> SUFFICES ASSUME Covered(dirty), NEW q \in Page, Len(dbf) < q,
                          q <= dbSize
                   PROVE  q \in dirty'
        BY <2>2, <2>3 DEF Covered
      <4>1. q # r.pg
        BY <1>3, <2>0
      <4> QED  BY <2>5, <4>1 DEF Covered
    <3> QED  BY <1>1, <1>2, <2>1, <2>2, <2>3, <3>1 DEF SaveInv, SizeOK
  <2>11. WorkOK' /\ SavesOK'
    BY <1>1, <2>1, <2>3 DEF SaveInv, WorkOK, SavesOK
  <2> QED  BY <2>6, <2>7, <2>8, <2>9, <2>10, <2>11 DEF SaveInv
<1>9. CASE valid /\ PlaysToFile /\ WritePageFails(r.pg)
  <2>1. cur.op \in {"spill", "rollback", "hot"} \/ eState \in Modifying
    BY <1>1, <1>9 DEF PlaysToFile, DbMod, Writing, Modifying
  <2> QED  BY <1>0, <1>1, <1>6, <1>9, <2>1, WriteFailsSafe
<1> QED
  BY <1>7, <1>8, <1>9 DEF playMain, r, next, isSynced, valid, skip

LEMMA SubSafe ==
    ASSUME SaveInv, playSub
    PROVE  SaveInv'
<1>0. setup' = setup /\ setup \in SetupType
  BY DEF playSub, fileVars, SaveInv, Typed
<1> DEFINE r == sub[cur.sub + 1]
           skip == r.pg > dbSize \/ r.pg \in cur.done
           cached == cache[r.pg] # NotCached
           toFile == PlaysToFile /\ ~(cached /\ r.pg \in needSync)
           next == [cur EXCEPT !.sub = @ + 1,
                               !.done = @ \cup (IF skip THEN {} ELSE {r.pg})]
<1>1. /\ pc = "sub" /\ cur.op = "savepoint" /\ eState \in Modifying
      /\ cur.sub < Len(sub) /\ cur \in Cur /\ UNCHANGED <<jrnl, written>>
      /\ sub \in Seq(SubRec(Contents)) /\ cache \in Pages(Contents)
      /\ dirty \subseteq Cached(Page) /\ needSync \subseteq Cached(Page)
  <2>1. /\ pc = "sub" /\ cur.op = "savepoint" /\ eState \in Writing
        /\ cur.sub < Len(sub) /\ cur \in Cur /\ UNCHANGED <<jrnl, written>>
        /\ sub \in Seq(SubRec(Contents)) /\ cache \in Pages(Contents)
        /\ dirty \subseteq Cached(Page) /\ needSync \subseteq Cached(Page)
        /\ eState = "WRITER_LOCKED" => sub = <<>>
    BY DEF playSub, SaveInv, ControlOK, Places, Typed, FlagsOK
  <2>2. cur.sub \in Nat
    BY <2>1 DEF Cur
  <2>3. sub # <<>>
    BY <2>1, <2>2
  <2> QED  BY <2>1, <2>3 DEF Writing
<1>2. /\ jrnl \in Seq(Unit(Contents)) /\ dbf \in Seq(Contents)
      /\ Len(dbf) \in Page /\ Len(dbf) \in Nat /\ Left(jrnl, Len(dbf))
      /\ dbOrigSize \in Nat /\ dbOrigSize >= 1 /\ dbOrigSize <= dbSize
      /\ dbSize \in Nat /\ dbOrigSize <= Len(dbf) /\ Covered(dirty)
  BY <1>1, InTxn DEF SaveInv, JournalOK, SizeOK
<1>3. r.pg \in Page /\ r.data \in Contents
  <2>1. cur.sub \in Nat
    BY <1>1 DEF Cur
  <2>2. cur.sub + 1 \in 1 .. Len(sub)
    BY <1>1, <2>1
  <2>3. r \in SubRec(Contents)
    BY <1>1, <2>2, ElementOfSeq
  <2> QED  BY <2>3 DEF SubRec
<1>4. next \in Cur /\ next.op = "savepoint"
  <2> DEFINE more == IF skip THEN {} ELSE {r.pg}
  <2>1. more \in SUBSET Page /\ next = [cur EXCEPT !.sub = @ + 1,
                                                   !.done = @ \cup more]
    BY <1>3
  <2>2. cur.sub \in Nat /\ cur.done \in SUBSET Page
    BY <1>1 DEF Cur
  <2>3. cur.sub + 1 \in Nat /\ cur.done \cup more \in SUBSET Page
    BY <2>1, <2>2
  <2> HIDE DEF more, next
  <2> QED  BY <1>1, <2>1, <2>3 DEF Cur
<1> HIDE DEF r, skip, cached, toFile, next
<1>5. CASE /\ NoFault /\ cur' = next
           /\ \/ UNCHANGED dbf
              \/ Seekable(dbf, r.pg - 1) /\ dbf' = PutPage(r.pg, r.data)
           /\ \/ UNCHANGED <<cache, dirty>>
              \/ /\ cache' = [cache EXCEPT ![r.pg] = r.data]
                 /\ dirty' = dirty \/ dirty' = dirty \cup {r.pg}
           /\ UNCHANGED <<needSync, pc, eState, sub, sp, inJournal, j,
                          dbSize, dbOrigSize, histVars>>
  <2>1. /\ dbf' \in Seq(Contents) /\ Len(dbf') \in Page /\ Len(dbf') \in Nat
        /\ Len(dbf) <= Len(dbf') /\ Left(jrnl, Len(dbf'))
        /\ \A q \in Page : Len(dbf') < q => Len(dbf) < q
    <3>1. CASE dbf' = dbf
      BY <1>2, <3>1
    <3>2. CASE Seekable(dbf, r.pg - 1) /\ dbf' = PutPage(r.pg, r.data)
      BY <1>3, <3>2, FileGrows
    <3> QED  BY <1>5, <3>1, <3>2
  <2>2. /\ cache' \in Pages(Contents) /\ Cached(Page) \subseteq Cached(Page)'
        /\ dirty' \subseteq Cached(Page)' /\ dirty \subseteq dirty'
    <3>1. NotCached \notin Contents
      BY <1>0, Constants
    <3>2. CASE UNCHANGED <<cache, dirty>>
      BY <1>1, <3>2 DEF Cached
    <3>3. CASE /\ cache' = [cache EXCEPT ![r.pg] = r.data]
               /\ dirty' = dirty \/ dirty' = dirty \cup {r.pg}
      <4>1. /\ cache' \in Pages(Contents) /\ cache'[r.pg] # NotCached
            /\ \A q \in Page : cache[q] # NotCached => cache'[q] # NotCached
        BY <1>1, <1>3, <3>1, <3>3 DEF Pages
      <4>2. Cached(Page) \cup {r.pg} \subseteq Cached(Page)'
        BY <1>3, <4>1 DEF Cached
      <4> QED  BY <1>1, <3>3, <4>1, <4>2
    <3> QED  BY <1>5, <3>2, <3>3
  <2>3. UNCHANGED <<needSync, pc, eState, sub, sp, inJournal, j, dbSize,
                    dbOrigSize, faults, jrnl, written>>
    BY <1>1, <1>5 DEF NoFault
  <2>4. cur' \in Cur /\ cur'.op = "savepoint" /\ pc' = "sub"
    BY <1>1, <1>4, <1>5
  <2>5. Typed'
    BY <1>0, <2>1, <2>2, <2>3, <2>4, SameSetup DEF SaveInv, Typed
  <2>6. FlagsOK'
    BY <1>1, <2>2, <2>3 DEF SaveInv, FlagsOK, Modifying
  <2>7. ControlOK'
    BY <1>1, <2>3, <2>4 DEF ControlOK, Places, PC, Writing
  <2>8. JournalOK'
    BY <1>0, <1>1, <2>1, <2>3, <2>4, SameSetup
       DEF SaveInv, JournalOK, CacheMod, Modifying
  <2>9. SizeOK'
    <3>1. Covered(dirty)'
      BY <1>2, <2>1, <2>2, <2>3 DEF Covered
    <3> QED  BY <1>1, <1>2, <2>1, <2>3, <2>4, <3>1
             DEF SaveInv, SizeOK, CacheMod, Modifying
  <2>10. WorkOK' /\ SavesOK'
    BY <1>1, <2>3, <2>4 DEF SaveInv, WorkOK, SavesOK
  <2> QED  BY <2>5, <2>6, <2>7, <2>8, <2>9, <2>10 DEF SaveInv
<1>6. CASE WritePageFails(r.pg)
  BY <1>0, <1>1, <1>3, <1>6, WriteFailsSafe
<1> QED
  <2>1. CASE /\ skip /\ NoFault /\ cur' = next
             /\ UNCHANGED <<dbf, pageVars, pc, eState, sub, sp, inJournal, j,
                            dbSize, dbOrigSize, histVars>>
    BY <1>5, <2>1 DEF pageVars
  <2>2. CASE /\ ~skip /\ (toFile => Seekable(dbf, r.pg - 1))
             /\ NoFault
             /\ dbf' = IF toFile THEN PutPage(r.pg, r.data) ELSE dbf
             /\ cache' = IF cached \/ ~toFile
                         THEN [cache EXCEPT ![r.pg] = r.data] ELSE cache
             /\ dirty' = IF cached \/ toFile THEN dirty ELSE dirty \cup {r.pg}
             /\ cur' = next
             /\ UNCHANGED <<needSync, pc, eState, sub, sp, inJournal, j,
                            dbSize, dbOrigSize, histVars>>
    BY <1>5, <2>2
  <2> QED
    BY <1>6, <2>1, <2>2 DEF playSub, r, skip, cached, toFile, next

-----------------------------------------------------------------------------
(* The inductive invariant.                                                *)

LEMMA SaveInit ==
    ASSUME Init
    PROVE  SaveInv
<1>1. setup \in SetupType
  BY SavepointAssumption DEF Init
<1>2. InitPages \in Page /\ InitPages \in Nat /\ MaxPage \in Nat
      /\ Blank \in Contents /\ MaxFaults \in Nat /\ MaxWrites \in Nat
      /\ setup.saves \in Nat
  BY <1>1, Constants DEF Page
<1>3. dbf \in Seq(Contents) /\ Len(dbf) = InitPages
  <2>1. dbf \in [1 .. InitPages -> Contents]
    BY <1>2 DEF Init
  <2> QED  BY <1>2, <2>1, FunSeq
<1>4. cur \in Cur /\ cur.op = "none"
  BY DEF Init, Idle, Cur, Op, Own, Other
<1>5. /\ j \in [off : Nat, hdr : Nat, nRec : Nat, open : BOOLEAN]
      /\ j.off = 0
  BY DEF Init, NewJ
<1>6. cache \in Pages(Contents)
  BY <1>2 DEF Init, EmptyCache, Pages
<1>7. /\ jrnl = <<>> /\ sub = <<>> /\ sp = <<>> /\ eState = "READER"
      /\ pc = "idle" /\ dbSize = InitPages /\ dbOrigSize = 0
      /\ inJournal = {} /\ dirty = {} /\ needSync = {}
      /\ faults = 0 /\ written = 0
  BY DEF Init
<1>8. Typed
  <2>1. faults \in 0 .. MaxFaults /\ written \in 0 .. MaxWrites
        /\ dbSize \in 0 .. MaxPage /\ dbOrigSize \in 0 .. MaxPage
    BY <1>2, <1>7 DEF Page
  <2> QED  BY <1>1, <1>2, <1>3, <1>4, <1>5, <1>6, <1>7, <2>1 DEF Typed
<1>9. FlagsOK /\ ControlOK
  BY <1>4, <1>7 DEF FlagsOK, ControlOK, Places, PC
<1>10. JournalOK
  BY <1>4, <1>5, <1>7 DEF JournalOK, Left, RecBound, IsHotJournal, CacheMod
<1>11. SizeOK /\ WorkOK /\ SavesOK
  <2>1. InitPages >= 1
    BY <1>2 DEF Page
  <2> QED  BY <1>2, <1>3, <1>4, <1>7, <2>1
           DEF SizeOK, WorkOK, SavesOK, CacheMod, Modifying
<1> QED  BY <1>8, <1>9, <1>10, <1>11 DEF SaveInv

LEMMA SaveStutter ==
    ASSUME SaveInv, UNCHANGED vars
    PROVE  SaveInv'
<1>1. setup' = setup
  BY DEF vars
<1>2. Typed'
  BY <1>1, SameSetup DEF vars, SaveInv, Typed
<1>3. FlagsOK' /\ ControlOK'
  BY DEF vars, SaveInv, FlagsOK, Cached, ControlOK
<1>4. JournalOK'
  BY <1>1, SameSetup DEF vars, SaveInv, JournalOK, IsHotJournal
<1>5. SizeOK' /\ WorkOK'
  BY <1>1, SameSetup DEF vars, SaveInv, SizeOK, WorkOK, Covered
<1>6. SavesOK'
  BY DEF vars, SaveInv, SavesOK
<1> QED  BY <1>2, <1>3, <1>4, <1>5, <1>6 DEF SaveInv

LEMMA SaveNext ==
    ASSUME SaveInv, [Next]_vars
    PROVE  SaveInv'
<1>1. ASSUME NEW p \in Page, WritePage(p)
      PROVE  SaveInv'
  <2>1. StartWrite("write", p) /\ p <= dbSize + 1
    <3>1. p \in Nat /\ dbSize \in Nat
      BY Constants DEF SaveInv, Typed, Page
    <3> QED  BY <1>1, <3>1 DEF WritePage
  <2> QED  BY <2>1, StartSafe
<1>2. CASE Commit
  <2>1. StartWrite("commit", 1) /\ eState # "WRITER_LOCKED"
    BY <1>2 DEF Commit
  <2>2. 1 \in Page /\ 1 <= dbSize + 1
    <3>1. dbSize \in Nat
      BY DEF SaveInv, Typed
    <3> QED  BY <3>1, Constants DEF SaveInv, Typed, Page
  <2> QED  BY <2>1, <2>2, StartSafe
<1>3. CASE Next
  BY <1>1, <1>2, <1>3, BeginSafe, OpenSavepointSafe, ReleaseSafe,
     RollbackToSafe, ReadSafe, RecycleSafe, StressSafe, NoChangeSafe,
     OpenJournalSafe, WriteSafe, ZeroSafe, NRecSafe, NextHdrSafe, SpilledSafe,
     PageListSafe, PhaseOneSafe, EndSafe, TruncateSafe, RollbackSafe,
     HotJournalSafe, HeaderSafe, MainSafe, SubSafe, RolledBackToSafe, CrashSafe
     DEF Next
<1> QED  BY <1>3, SaveStutter

(* Whatever the b-tree layer asks for, and whichever writes fail or        *)
(* processes end, the values of a pager stay in their ranges: the database *)
(* file has a first page and never more than MaxPage, dirty and NEED_SYNC  *)
(* pages are in the cache, and a page with a bit in pInJournal was in the  *)
(* database when the transaction began.                                    *)
THEOREM SaveTypes == Spec => []TypeOK
<1>1. ASSUME SaveInv PROVE TypeOK
  <2>1. eState \in {"OPEN", "READER", "WRITER_LOCKED"} \cup CacheMod
    BY <1>1 DEF SaveInv, ControlOK, Places, PC, Writing, Modifying, CacheMod
  <2>2. Len(sp) \in 0 .. setup.saves
    BY <1>1, Constants DEF SaveInv, Typed
  <2> QED  BY <1>1, <2>1, <2>2 DEF SaveInv, Typed, FlagsOK, Pages, TypeOK
<1> QED  BY <1>1, SaveInit, SaveNext, PTL DEF Spec

(* Spills, failed writes, rollbacks to savepoints and recoveries, in any   *)
(* order and any number, lose no page: a hot journal never cuts the file   *)
(* to nothing or to more than it has, pages beyond the end of the file are *)
(* still dirty, and a transaction ends with a complete file.               *)
THEOREM PagesKept == Spec => []NoPageLost
<1>1. ASSUME SaveInv PROVE NoPageLost
  <2>1. /\ setup \in SetupType /\ Len(dbf) \in Nat /\ dbSize \in Nat
        /\ jrnl \in Seq(Unit(Contents))
    BY <1>1, Constants DEF SaveInv, Typed, Page
  <2>2. IsHotJournal => jrnl[1].mxPg \in 1 .. Len(dbf)
    BY <1>1, <2>1, Constants
       DEF SaveInv, JournalOK, Left, IsHotJournal, HdrUnit
  <2>3. ASSUME eState \in CacheMod, cur.op # "rollback"
        PROVE  Len(dbf) + 1 .. dbSize \subseteq dirty
    <3>1. CASE eState \in Modifying
      <4>1. Covered(dirty)
        BY <1>1, <2>3, <3>1 DEF SaveInv, SizeOK
      <4>2. dbSize <= MaxPage /\ MaxPage \in Nat
        BY <1>1, <2>1, Constants DEF SaveInv, Typed
      <4> QED  BY <2>1, <4>1, <4>2 DEF Covered, Page
    <3>2. CASE eState = "WRITER_FINISHED"
      <4>1. dbSize <= Len(dbf)
        BY <1>1, <3>2 DEF SaveInv, SizeOK
      <4> QED  BY <2>1, <4>1
    <3> QED  BY <2>3, <3>1, <3>2 DEF CacheMod, Modifying
  <2>4. pc = "end" => dbSize <= Len(dbf)
    BY <1>1 DEF SaveInv, SizeOK
  <2> QED  BY <2>2, <2>3, <2>4 DEF NoPageLost
<1> QED  BY <1>1, SaveInit, SaveNext, PTL DEF Spec
=============================================================================

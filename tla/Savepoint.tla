----------------------------- MODULE Savepoint -----------------------------
(***************************************************************************)
(* One write transaction of the pager from the inside: savepoints and the  *)
(* sub-journal, pages spilled from a full cache before the commit, and the *)
(* rollback journal as a file of several segments, each with a header of   *)
(* its own.  The locks and the other connections are in Pager.tla.         *)
(*                                                                         *)
(* The journal file is a sequence of units.  A record is one unit, and a   *)
(* header fills a sector, which is Sector units.  Headers begin at sector  *)
(* boundaries: with one unit in a sector every record ends at one, with    *)
(* two units there can be a gap between a record and the next header.      *)
(* Offsets count from 0, as in the code.                                   *)
(*                                                                         *)
(* A page's content is the number of the change that it comes from, and    *)
(* the size of the database then: of page 1 this is the size field in the  *)
(* database header.                                                        *)
(*                                                                         *)
(* Every step is at most one write to a file that survives the process.    *)
(***************************************************************************)
EXTENDS Integers, Sequences

CONSTANTS
    MaxPage,        \* bound: the largest page number
    Setups          \* what is tried: a set of records, see SetupType

\* Whether journalMode is PERSIST (or DELETE); the units and the pages in a
\* sector; the size of the database at the start, in pages; and the bounds:
\* the last page that is written, how many savepoints are open at once, how
\* many changes of a page there are, how often a write fails or the process
\* ends, and whether the writes to the database file in a commit are among
\* those that fail.
SetupType ==
    [persist : BOOLEAN, sector : Nat \ {0}, pages : Nat \ {0},
     init : 1 .. MaxPage, last : 1 .. MaxPage, saves : Nat, writes : Nat,
     faults : Nat, commitFaults : BOOLEAN]

ASSUME SavepointAssumption ==
    MaxPage \in Nat \ {0} /\ Setups \subseteq SetupType

VARIABLES
    dbf,        \* the database file: its pages' contents
    jrnl,       \* the journal file: its units; <<>> if there is none
    sub,        \* the sub-journal, nSubRec records long
    faults,     \* how many faults have happened
    written,    \* how many page changes there have been
    setup,      \* one of Setups
    eState,     \* Pager.eState
    dbSize,     \* Pager.dbSize
    dbOrigSize, \* Pager.dbOrigSize
    j,          \* Pager.journalOff, journalHdr and nRec; whether jfd is open
    inJournal,  \* Pager.pInJournal
    cache,      \* contents of the cached pages, or NotCached
    dirty,      \* pages with PGHDR_DIRTY
    needSync,   \* pages with PGHDR_NEED_SYNC
    sp,         \* Pager.aSavepoint
    pc,         \* the step that is next
    cur,        \* what the pager is doing, see Idle
    stack,      \* history: the views that were saved with the savepoints
    before      \* history: the view when a ROLLBACK TO began

fileVars == <<dbf, jrnl, setup>>
pageVars == <<cache, dirty, needSync>>
histVars == <<stack, before>>
vars == <<dbf, jrnl, setup, sub, faults, written, eState, dbSize, dbOrigSize, j,
          inJournal, cache, dirty, needSync, sp, pc, cur, stack, before>>

Page == 1 .. MaxPage
Content(change, n) == [change |-> change, n |-> n]
Blank == Content(0, setup.init)
NotCached == Content(-2, 0)
Garbage == Content(-1, 0)   \* a page whose last write failed half-way

\* cksumInit is random.  What matters is whether it is that of the current
\* transaction or of another; a record that was torn has none.
Own == 1
Other == 0
Torn == -1
CacheMod == {"WRITER_CACHEMOD", "WRITER_DBMOD", "WRITER_FINISHED"}
DbMod == {"WRITER_DBMOD", "WRITER_FINISHED"}

Sector == setup.sector
PagesPerSector == setup.pages
InitPages == setup.init
MaxWrites == setup.writes
MaxFaults == setup.faults

\* The units of a journal: the start of a header, the rest of its sector,
\* and a record.
Hdr(magic, nRec, init, mxPg) ==
    [k |-> "hdr", magic |-> magic, nRec |-> nRec, init |-> init, mxPg |-> mxPg]
Pad == [k |-> "pad"]
Rec(p, data, cksum) == [k |-> "rec", pg |-> p, data |-> data, cksum |-> cksum]
HdrSector(hdr) == [i \in 1 .. Sector |-> IF i = 1 THEN hdr ELSE Pad]

\* What the pager is doing: op and the page or savepoint it is about; the
\* pages still to be handled; the position, record count, size and checksum
\* seed of a playback, its next sub-journal record and Bitvec pDone.
Idle ==
    [op |-> "none", p |-> 0, todo |-> {}, off |-> 0, n |-> 0, szJ |-> 0,
     ck |-> 0, sub |-> 0, done |-> {}]

isSavepnt == cur.op = "savepoint"
isHot == cur.op = "hot"

NewJ == [off |-> 0, hdr |-> 0, nRec |-> 0, open |-> FALSE]
EmptyCache == [p \in Page |-> NotCached]

Init ==
    /\ setup \in Setups
    /\ dbf = [p \in 1 .. InitPages |-> Blank] /\ jrnl = <<>>
    /\ sub = <<>> /\ faults = 0 /\ written = 0
    /\ eState = "READER" /\ dbSize = InitPages /\ dbOrigSize = 0
    /\ j = NewJ /\ inJournal = {}
    /\ cache = [EmptyCache EXCEPT ![1] = Blank]
    /\ dirty = {} /\ needSync = {}
    /\ sp = <<>> /\ pc = "idle" /\ cur = Idle
    /\ stack = <<>> /\ before = <<>>

NoFault == UNCHANGED faults
Fault == faults < MaxFaults /\ faults' = faults + 1

-----------------------------------------------------------------------------
(* Files.                                                                  *)

\* The file s with b written at offset off; lseek finds no offset beyond the
\* end, so the write fails there.
Seekable(s, off) == off <= Len(s)
WriteAt(s, off, b) ==
    [i \in 1 .. (IF off + Len(b) > Len(s) THEN off + Len(b) ELSE Len(s)) |->
        IF i \in off + 1 .. off + Len(b) THEN b[i - off] ELSE s[i]]

PageOnDisk(p) == IF p <= Len(dbf) THEN dbf[p] ELSE Blank
PutPage(p, data) == WriteAt(dbf, p - 1, <<data>>)

\* The start of the next sector.
journalHdrOffset(off) == ((off + Sector - 1) \div Sector) * Sector

\* The view that the b-tree layer has of the database.  A reader takes its
\* size from page 1.
View ==
    [p \in 1 .. (IF eState = "READER" THEN cache[1].n ELSE dbSize) |->
        IF cache[p] # NotCached THEN cache[p] ELSE PageOnDisk(p)]

Cached(S) == {p \in S : cache[p] # NotCached}
Smallest(S) == CHOOSE p \in S : \A q \in S : p <= q

-----------------------------------------------------------------------------
(* The page cache.                                                         *)

readDbPage(p) ==
    /\ pc = "idle" /\ p <= dbSize /\ cache[p] = NotCached
    /\ cache' = [cache EXCEPT ![p] = PageOnDisk(p)]
    /\ UNCHANGED <<fileVars, sub, faults, written, eState, dbSize, dbOrigSize,
                   j, inJournal, dirty, needSync, sp, pc, cur, histVars>>

\* The cache reuses the memory of a clean page.  The b-tree layer always has
\* a reference to page 1.
Recycle(p) ==
    /\ pc = "idle" /\ p # 1 /\ cache[p] # NotCached /\ p \notin dirty
    /\ cache' = [cache EXCEPT ![p] = NotCached]
    /\ needSync' = needSync \ {p}
    /\ UNCHANGED <<fileVars, sub, faults, written, eState, dbSize, dbOrigSize,
                   j, inJournal, dirty, sp, pc, cur, histVars>>

-----------------------------------------------------------------------------
(* Transactions and savepoints.                                            *)

\* Transactions on a file that is longer than its header says, because a
\* process ended before it was cut, are not followed any further.
sqlite3PagerBegin ==
    /\ pc = "idle" /\ eState = "READER" /\ written < MaxWrites
    /\ cache[1].n = dbSize
    /\ eState' = "WRITER_LOCKED"
    /\ dbOrigSize' = dbSize
    /\ UNCHANGED <<fileVars, sub, faults, written, dbSize, j, inJournal,
                   pageVars, sp, pc, cur, histVars>>

InWrite == pc = "idle" /\ eState \in {"WRITER_LOCKED", "WRITER_CACHEMOD",
                                      "WRITER_DBMOD"}

sqlite3PagerOpenSavepoint ==
    /\ InWrite /\ Len(sp) < setup.saves
    /\ sp' = Append(sp, [nOrig |-> dbSize,
                         iOffset |-> IF j.off > 0 THEN j.off ELSE Sector,
                         iHdrOffset |-> 0,
                         iSubRec |-> Len(sub),
                         pInSavepoint |-> {}])
    /\ stack' = Append(stack, View)
    /\ UNCHANGED <<fileVars, sub, faults, written, eState, dbSize, dbOrigSize,
                   j, inJournal, pageVars, pc, cur, before>>

\* sqlite3PagerSavepoint(SAVEPOINT_RELEASE): savepoint i and those after it
\* are forgotten, and the sub-journal with the outermost.
ReleaseSavepoint(i) ==
    /\ InWrite
    /\ sp' = SubSeq(sp, 1, i - 1)
    /\ sub' = IF i = 1 THEN <<>> ELSE sub
    /\ stack' = SubSeq(stack, 1, i - 1)
    /\ UNCHANGED <<fileVars, faults, written, eState, dbSize, dbOrigSize, j,
                   inJournal, pageVars, pc, cur, before>>

\* sqlite3PagerSavepoint(SAVEPOINT_ROLLBACK) and the first lines of
\* pagerPlaybackSavepoint: the records from iOffset to the first header that
\* was written after the savepoint, or to the end.  Savepoint 0 is the whole
\* transaction, which goes on.
RollbackTo(i) ==
    /\ InWrite
    /\ sp' = SubSeq(sp, 1, i)
    /\ dbSize' = IF i = 0 THEN dbOrigSize ELSE sp[i].nOrig
    /\ LET off == IF i = 0 THEN 0 ELSE sp[i].iOffset
           end == IF i = 0 THEN 0
                  ELSE IF sp[i].iHdrOffset # 0 THEN sp[i].iHdrOffset ELSE j.off
       IN  cur' = [Idle EXCEPT !.op = "savepoint", !.p = i, !.off = off,
                               !.n = IF end > off THEN end - off ELSE 0,
                               !.szJ = j.off,
                               !.sub = IF i = 0 THEN Len(sub)
                                       ELSE sp[i].iSubRec]
    /\ pc' = "play"
    /\ before' = View
    /\ UNCHANGED <<fileVars, sub, faults, written, eState, dbOrigSize, j,
                   inJournal, pageVars, stack>>

-----------------------------------------------------------------------------
(* sqlite3PagerWrite.                                                      *)

\* The pages of p's sector, as far as the database goes.
SectorOf(p) ==
    LET pg1 == ((p - 1) \div PagesPerSector) * PagesPerSector + 1
        end == pg1 + PagesPerSector - 1
    IN  pg1 .. (IF p > dbSize THEN p ELSE IF end > dbSize THEN dbSize ELSE end)

\* pagerWriteLargeSector calls pager_write for p and for the pages of its
\* sector that have not been journalled.
StartWrite(op, p) ==
    /\ InWrite /\ written < MaxWrites
    /\ cur' = [Idle EXCEPT !.op = op, !.p = p,
                           !.todo = {q \in SectorOf(p) :
                                        q = p \/ q \notin inJournal}]
    /\ pc' = IF eState = "WRITER_LOCKED" THEN "open" ELSE "write"
    /\ UNCHANGED <<fileVars, sub, faults, written, eState, dbSize, dbOrigSize,
                   j, inJournal, pageVars, sp, histVars>>

\* The b-tree layer changes a page that it has fetched, or adds one.  The
\* last change is left for the change counter.
WritePage(p) ==
    /\ p \in 2 .. setup.last /\ written + 1 < MaxWrites
    /\ \/ p <= dbSize /\ cache[p] # NotCached
       \/ p = dbSize + 1
    /\ StartWrite("write", p)

\* sqlite3PagerCommitPhaseOne begins with pager_incr_changecounter.
Commit ==
    /\ eState # "WRITER_LOCKED"
    /\ StartWrite("commit", 1)

\* After an error the only thing to do is a rollback.
Fails ==
    /\ pc' = "err" /\ cur' = Idle
    /\ stack' = <<>> /\ before' = <<>>

\* What an older transaction has left in the journal file.
Aged(s) ==
    [i \in 1 .. Len(s) |->
        IF s[i].k = "hdr" THEN [s[i] EXCEPT !.init = Other]
        ELSE IF s[i].k = "rec" /\ s[i].cksum = Own
        THEN [s[i] EXCEPT !.cksum = Other] ELSE s[i]]

\* The first header of a transaction goes over it.
OpenedHdr == WriteAt(Aged(jrnl), 0, HdrSector(Hdr(FALSE, 0, Own, dbOrigSize)))

pager_open_journal ==
    /\ pc = "open"
    /\ \/ /\ NoFault
          /\ jrnl' = OpenedHdr
          /\ j' = [off |-> Sector, hdr |-> 0, nRec |-> 0, open |-> TRUE]
          /\ eState' = "WRITER_CACHEMOD"
          /\ pc' = "write"
          /\ UNCHANGED <<cur, histVars>>
       \/ /\ Fault
          /\ \/ UNCHANGED <<jrnl, j>>
             \/ jrnl' = OpenedHdr /\ j' = [j EXCEPT !.open = TRUE]
          /\ Fails
          /\ UNCHANGED eState
    /\ UNCHANGED <<dbf, setup, sub, written, dbSize, dbOrigSize, inJournal,
                   pageVars, sp>>

\* Mutant: the last page of the savepoint's database is forgotten.
subjRequiresInner(saves, p) ==
    \E i \in 1 .. Len(saves) :
        saves[i].nOrig > p /\ p \notin saves[i].pInSavepoint

\* Some savepoint needs the page in the sub-journal.
subjRequiresPage(saves, p) ==
    \E i \in 1 .. Len(saves) :
        saves[i].nOrig >= p /\ p \notin saves[i].pInSavepoint

addToSavepointBitvecs(saves, p) ==
    [i \in 1 .. Len(saves) |->
        IF p <= saves[i].nOrig
        THEN [saves[i] EXCEPT !.pInSavepoint = @ \cup {p}] ELSE saves[i]]

\* Mutant: a record for the first page that is new.
NeedsRecordNew(p) == p \notin inJournal /\ p <= dbOrigSize + 1

NeedsRecord(p) == p \notin inJournal /\ p <= dbOrigSize

\* A page that is new since the transaction began needs no record, but must
\* not be written to the file before the first header is complete.
MarkSync(p) ==
    NeedsRecord(p) \/ (p \notin inJournal /\ eState # "WRITER_DBMOD")

\* One pager_write: the record in the journal, or else the one in the
\* sub-journal.  After the last page of the sector NEED_SYNC is made the same
\* for all of them, and the b-tree layer changes its page.
pager_write ==
    /\ pc = "write"
    /\ LET p == Smallest(cur.todo)
           last == cur.todo = {p}
           data == IF cache[p] # NotCached THEN cache[p]
                   ELSE IF p <= dbSize THEN PageOnDisk(p) ELSE Blank
           rec == Rec(p, data, Own)
           saves == IF NeedsRecord(p) THEN addToSavepointBitvecs(sp, p) ELSE sp
           subj == subjRequiresPage(saves, p)
           marked == needSync \cup (IF MarkSync(p) THEN {p} ELSE {})
           sector == Cached(SectorOf(cur.p)) \cup {p}
       IN  /\ dirty' = dirty \cup {p}
           /\ \/ /\ NoFault
                 /\ jrnl' = IF NeedsRecord(p) THEN WriteAt(jrnl, j.off, <<rec>>)
                            ELSE jrnl
                 /\ j' = IF NeedsRecord(p)
                         THEN [j EXCEPT !.off = @ + 1, !.nRec = @ + 1] ELSE j
                 /\ inJournal' = IF NeedsRecord(p) THEN inJournal \cup {p}
                                 ELSE inJournal
                 /\ sub' = IF subj THEN Append(sub, [pg |-> p, data |-> data])
                           ELSE sub
                 /\ sp' = IF subj THEN addToSavepointBitvecs(saves, p)
                          ELSE saves
                 /\ dbSize' = IF p > dbSize THEN p ELSE dbSize
                 /\ cache' = IF last
                             THEN [cache EXCEPT ![p] = data,
                                                ![cur.p] =
                                    Content(written + 1, dbSize')]
                             ELSE [cache EXCEPT ![p] = data]
                 /\ needSync' = IF last /\ sector \cap marked # {}
                                THEN marked \cup sector ELSE marked
                 /\ written' = IF last THEN written + 1 ELSE written
                 /\ cur' = IF last /\ cur.op = "write" THEN Idle
                           ELSE [cur EXCEPT !.todo = @ \ {p}]
                 /\ pc' = IF ~last THEN "write"
                          ELSE IF cur.op = "commit" THEN "zap" ELSE "idle"
                 /\ UNCHANGED histVars
              \/ /\ NeedsRecord(p) \/ subj
                 /\ Fault
                 /\ jrnl' \in IF NeedsRecord(p)
                              THEN {jrnl, WriteAt(jrnl, j.off,
                                                  <<Rec(p, Garbage, Torn)>>)}
                              ELSE {jrnl}
                 /\ needSync' = marked
                 /\ cache' = [cache EXCEPT ![p] = data]
                 /\ Fails
                 /\ UNCHANGED <<j, inJournal, sub, sp, dbSize, written>>
    /\ UNCHANGED <<dbf, setup, eState, dbOrigSize>>

-----------------------------------------------------------------------------
(* syncJournal, in three steps.                                            *)

\* The pager is in ERROR state, or its process has ended: what counts now is
\* in the files.
Dead ==
    /\ pc' = "dead" /\ eState' = "OPEN" /\ cur' = Idle
    /\ cache' = EmptyCache /\ dirty' = {} /\ needSync' = {}
    /\ sub' = <<>> /\ sp' = <<>> /\ inJournal' = {} /\ j' = NewJ
    /\ dbSize' = 0 /\ dbOrigSize' = 0
    /\ stack' = <<>> /\ before' = <<>>

\* A failed write: pagerStress and sqlite3PagerRollback go to the ERROR
\* state, sqlite3PagerCommitPhaseOne and ROLLBACK TO return the error.
IoError ==
    IF cur.op \in {"spill", "rollback", "hot"} THEN Dead
    ELSE /\ Fails
         /\ UNCHANGED <<eState, pageVars, sub, sp, inJournal, j, dbSize,
                        dbOrigSize>>

\* The write of page p to the database file fails.
WritePageFails(p) ==
    /\ IF Seekable(dbf, p - 1)
       THEN Fault /\ dbf' \in {dbf, PutPage(p, Garbage)}
       ELSE NoFault /\ UNCHANGED dbf
    /\ IoError

\* "An obscure problem": a header that an older transaction left where the
\* next header would be is made unrecognisable.
zeroNextHdr ==
    /\ pc = "zap"
    /\ LET o == journalHdrOffset(j.off)
           found == o < Len(jrnl) /\ jrnl[o + 1].k = "hdr"
                    /\ jrnl[o + 1].magic
       IN  \/ /\ NoFault
              /\ jrnl' = IF found THEN [jrnl EXCEPT ![o + 1].magic = FALSE]
                         ELSE jrnl
              /\ pc' = "nrec"
              /\ UNCHANGED <<eState, pageVars, sub, sp, inJournal, j, dbSize,
                             dbOrigSize, cur, histVars>>
           \/ found /\ Fault /\ IoError /\ UNCHANGED jrnl
    /\ UNCHANGED <<dbf, setup, written>>

\* The journal has been synced up to j.off: the flag of all dirty pages is
\* cleared.
Synced ==
    /\ needSync' = needSync \ dirty
    /\ eState' = "WRITER_DBMOD"

\* Magic number and nRec go into the header of the current segment.
writeNRec ==
    /\ pc = "nrec"
    /\ LET complete(n) == [jrnl EXCEPT ![j.hdr + 1].magic = TRUE,
                                       ![j.hdr + 1].nRec = n]
       IN  \/ /\ NoFault
              /\ jrnl' = complete(j.nRec)
              /\ j' = [j EXCEPT !.hdr = j.off]
              /\ IF cur.op = "spill"
                 THEN pc' = "newhdr" /\ UNCHANGED <<needSync, eState, cur>>
                 ELSE /\ Synced
                      /\ pc' = "pages"
                      /\ cur' = [cur EXCEPT !.todo = dirty \cap 1 .. dbSize]
              /\ UNCHANGED <<cache, dirty, sub, sp, inJournal, dbSize,
                             dbOrigSize, histVars>>
           \/ /\ Fault
              /\ jrnl' \in {jrnl, complete(0)}
              /\ IoError
    /\ UNCHANGED <<dbf, setup, written>>

\* writeJournalHdr for the next segment.  A gap before it that lies beyond
\* the end of the file is beyond lseek.
writeNextHdr ==
    /\ pc = "newhdr"
    /\ LET o == journalHdrOffset(j.off)
           next == WriteAt(jrnl, o, HdrSector(Hdr(FALSE, 0, Own, dbOrigSize)))
       IN  \/ /\ Seekable(jrnl, o)
              /\ NoFault
              /\ jrnl' = next
              /\ sp' = [i \in 1 .. Len(sp) |->
                           IF sp[i].iHdrOffset = 0
                           THEN [sp[i] EXCEPT !.iHdrOffset = j.off] ELSE sp[i]]
              /\ j' = [off |-> o + Sector, hdr |-> o, nRec |-> 0,
                       open |-> TRUE]
              /\ Synced
              /\ pc' = "put"
              /\ UNCHANGED <<cache, dirty, sub, inJournal, dbSize, dbOrigSize,
                             cur, histVars>>
           \/ /\ IF Seekable(jrnl, o) THEN Fault /\ jrnl' \in {jrnl, next}
                 ELSE NoFault /\ UNCHANGED jrnl
              /\ IoError
    /\ UNCHANGED <<dbf, setup, written>>

-----------------------------------------------------------------------------
(* Pages go to the database file.                                          *)

\* pagerStress: the cache is full, and an unreferenced dirty page must go.
pagerStress(p) ==
    /\ InWrite /\ p # 1 /\ p \in dirty
    /\ cur' = [Idle EXCEPT !.op = "spill", !.p = p]
    /\ pc' = IF p \in needSync \/ eState = "WRITER_CACHEMOD" THEN "zap"
             ELSE "put"
    /\ UNCHANGED <<fileVars, sub, faults, written, eState, dbSize, dbOrigSize,
                   j, inJournal, pageVars, sp, histVars>>

MakeClean(S) == dirty' = dirty \ S /\ needSync' = needSync \ (S \cap dirty)

\* Mutant: the last page of the database is taken to be beyond its end.
writeSpilledInner ==
    /\ pc = "put" /\ NoFault
    /\ dbf' = IF cur.p < dbSize THEN PutPage(cur.p, cache[cur.p]) ELSE dbf
    /\ MakeClean({cur.p})
    /\ pc' = "idle" /\ cur' = Idle
    /\ UNCHANGED <<jrnl, setup, written, eState, cache, sub, sp, inJournal, j,
                   dbSize, dbOrigSize, histVars>>

\* pager_write_pagelist for the page of pagerStress: a page beyond the end of
\* the database is only marked as clean.
writeSpilled ==
    /\ pc = "put"
    /\ \/ /\ cur.p <= dbSize /\ Seekable(dbf, cur.p - 1)
          /\ NoFault
          /\ dbf' = PutPage(cur.p, cache[cur.p])
          /\ MakeClean({cur.p})
          /\ pc' = "idle" /\ cur' = Idle
          /\ UNCHANGED <<eState, cache, sub, sp, inJournal, j, dbSize,
                         dbOrigSize, histVars>>
       \/ /\ cur.p > dbSize
          /\ NoFault
          /\ MakeClean({cur.p})
          /\ pc' = "idle" /\ cur' = Idle
          /\ UNCHANGED <<dbf, eState, cache, sub, sp, inJournal, j, dbSize,
                         dbOrigSize, histVars>>
       \/ cur.p <= dbSize /\ WritePageFails(cur.p)
    /\ UNCHANGED <<jrnl, setup, written>>

\* pager_write_pagelist for the dirty pages of a commit, in their order.
pager_write_pagelist ==
    /\ pc = "pages" /\ cur.todo # {}
    /\ LET p == Smallest(cur.todo)
       IN  \/ /\ Seekable(dbf, p - 1)
              /\ NoFault
              /\ dbf' = PutPage(p, cache[p])
              /\ cur' = [cur EXCEPT !.todo = @ \ {p}]
              /\ UNCHANGED <<eState, pageVars, sub, sp, inJournal, j, dbSize,
                             dbOrigSize, pc, histVars>>
           \/ setup.commitFaults /\ WritePageFails(p)
    /\ UNCHANGED <<jrnl, setup, written>>

CommitPhaseOneDone ==
    /\ pc = "pages" /\ cur.todo = {}
    /\ MakeClean(dirty)
    /\ eState' = "WRITER_FINISHED"
    /\ pc' = "end"
    /\ UNCHANGED <<fileVars, cache, sub, faults, written, dbSize, dbOrigSize,
                   j, inJournal, sp, cur, histVars>>

\* A transaction that changed nothing has nothing to write.
CommitNoChange ==
    /\ pc = "idle" /\ eState = "WRITER_LOCKED"
    /\ cur' = [Idle EXCEPT !.op = "commit"]
    /\ pc' = "end"
    /\ UNCHANGED <<fileVars, sub, faults, written, eState, dbSize, dbOrigSize,
                   j, inJournal, pageVars, sp, histVars>>

\* The journal is deleted if it is open, or its header is zeroed if something
\* has been written to it or played back from it.
Finalized ==
    IF setup.persist
    THEN IF eState = "WRITER_LOCKED" THEN jrnl
         ELSE [jrnl EXCEPT ![1] = Hdr(FALSE, 0, Other, 0)]
    ELSE IF j.open THEN <<>> ELSE jrnl

\* pager_end_transaction.  After a commit the file is cut to the size of the
\* database.  After a hot journal the pager is still about to start its read
\* transaction.
pager_end_transaction ==
    /\ pc = "end"
    /\ jrnl' = Finalized
    /\ cache' = [p \in Page |-> IF p > dbSize THEN NotCached ELSE cache[p]]
    /\ dirty' = {}
    /\ needSync' = needSync \ (dirty \cup (dbSize + 1 .. MaxPage))
    /\ sub' = <<>> /\ sp' = <<>> /\ inJournal' = {} /\ j' = NewJ
    /\ stack' = <<>> /\ before' = <<>> /\ cur' = Idle
    /\ IF cur.op = "commit" /\ Len(dbf) > dbSize
       THEN pc' = "shrink" /\ UNCHANGED eState
       ELSE IF isHot THEN pc' = "dead" /\ UNCHANGED eState
       ELSE pc' = "idle" /\ eState' = "READER"
    /\ UNCHANGED <<dbf, setup, faults, written, dbSize, dbOrigSize>>

truncateFile ==
    /\ pc = "shrink"
    /\ \/ /\ NoFault
          /\ dbf' = SubSeq(dbf, 1, dbSize)
          /\ pc' = "idle" /\ eState' = "READER"
          /\ UNCHANGED <<pageVars, sub, sp, inJournal, j, dbSize, dbOrigSize,
                         cur, histVars>>
       \/ Fault /\ Dead /\ UNCHANGED dbf
    /\ UNCHANGED <<jrnl, setup, written>>

-----------------------------------------------------------------------------
(* Playback.                                                               *)

Playback(op) == [Idle EXCEPT !.op = op, !.szJ = Len(jrnl)]

sqlite3PagerRollback ==
    /\ \/ pc = "err"
       \/ InWrite
    /\ cur' = Playback("rollback")
    /\ pc' = IF eState = "WRITER_LOCKED" THEN "end" ELSE "play"
    /\ stack' = <<>> /\ before' = <<>>
    /\ UNCHANGED <<fileVars, sub, faults, written, eState, dbSize, dbOrigSize,
                   j, inJournal, pageVars, sp>>

\* hasHotJournal: there is a journal, and it does not begin with a zero byte.
IsHotJournal == jrnl # <<>> /\ jrnl[1].magic

\* sqlite3PagerSharedLock looks for the journal of a dead transaction.
HotJournal ==
    /\ pc = "dead"
    /\ \/ /\ IsHotJournal
          /\ cur' = Playback("hot")
          /\ j' = [j EXCEPT !.hdr = Len(jrnl), !.open = TRUE]
          /\ pc' = "play"
          /\ UNCHANGED <<eState, dbSize, cache>>
       \/ /\ ~IsHotJournal
          /\ dbSize' = Len(dbf) /\ cache' = [EmptyCache EXCEPT ![1] = dbf[1]]
          /\ eState' = "READER" /\ pc' = "idle"
          /\ UNCHANGED <<cur, j>>
    /\ UNCHANGED <<fileVars, sub, faults, written, dbOrigSize, inJournal,
                   dirty, needSync, sp, histVars>>

PlaysToFile == eState \in DbMod \cup {"OPEN"}

\* What happens when there is no further record: SQLITE_DONE.
PlaybackEnd == pc' = IF isSavepnt THEN "sub" ELSE "end"

\* The number of records after header h at o.  The last header of a
\* transaction that is rolled back by its own process has no nRec yet.
RecordsAfter(h, o) ==
    IF h.nRec = 0 /\ ~isHot /\ j.hdr = o THEN cur.szJ - (o + Sector)
    ELSE h.nRec

\* readJournalHdr and what its callers do with the header.  pager_playback
\* cuts the file down to its old size after the first.
readJournalHdr ==
    /\ pc = "play" /\ cur.n = 0
    /\ LET o == journalHdrOffset(cur.off)
           h == jrnl[o + 1]
           ok == h.k = "hdr" /\ (h.magic \/ (~isHot /\ o = j.hdr))
           first == o = 0 /\ ~isSavepnt
       IN  \/ /\ \/ isSavepnt /\ cur.off >= cur.szJ
                 \/ o + Sector > cur.szJ
              /\ PlaybackEnd
              /\ UNCHANGED <<dbf, dbSize, cache, cur>>
           \/ /\ ~(isSavepnt /\ cur.off >= cur.szJ)
              /\ o + Sector <= cur.szJ
              /\ IF ok
                 THEN /\ cur' = [cur EXCEPT !.off = o + Sector, !.ck = h.init,
                                            !.n = RecordsAfter(h, o)]
                      /\ dbSize' = IF first THEN h.mxPg ELSE dbSize
                      /\ dbf' = IF first /\ PlaysToFile /\ Len(dbf) > h.mxPg
                                THEN SubSeq(dbf, 1, h.mxPg) ELSE dbf
                      /\ UNCHANGED pc
                 ELSE PlaybackEnd /\ UNCHANGED <<dbf, dbSize, cur>>
              /\ UNCHANGED cache
    /\ UNCHANGED <<jrnl, setup, sub, faults, written, eState, dbOrigSize, j,
                   inJournal, dirty, needSync, sp, histVars>>

\* pager_playback_one_page on the main journal.  What is no record of this
\* journal ends it: a header read as a record has page number 0.
playMain ==
    /\ pc = "play" /\ cur.n > 0
    /\ LET r == jrnl[cur.off + 1]
           next == [cur EXCEPT !.off = @ + 1, !.n = @ - 1]
           isSynced == cur.off + 1 <= j.hdr
           valid == /\ cur.off < Len(jrnl)
                    /\ r.k = "rec"
                    /\ isSavepnt \/ r.pg > dbSize \/ r.cksum = cur.ck
           skip == r.pg > dbSize \/ r.pg \in cur.done
       IN  \/ /\ valid => skip
              /\ NoFault
              /\ cur' = IF valid THEN next
                        ELSE [cur EXCEPT !.off = cur.szJ, !.n = 0]
              /\ UNCHANGED <<dbf, pageVars, pc, eState, sub, sp, inJournal, j,
                             dbSize, dbOrigSize, histVars>>
           \/ /\ valid /\ ~skip
              /\ NoFault
              /\ dbf' = IF PlaysToFile /\ isSynced THEN PutPage(r.pg, r.data)
                        ELSE dbf
              /\ cur' = [next EXCEPT !.done = IF isSavepnt THEN @ \cup {r.pg}
                                              ELSE @]
              /\ IF cache[r.pg] # NotCached
                 THEN /\ cache' = [cache EXCEPT ![r.pg] = r.data]
                      /\ IF ~isSavepnt \/ isSynced THEN MakeClean({r.pg})
                         ELSE UNCHANGED <<dirty, needSync>>
                 ELSE UNCHANGED pageVars
              /\ UNCHANGED <<pc, eState, sub, sp, inJournal, j, dbSize,
                             dbOrigSize, histVars>>
           \/ valid /\ ~skip /\ PlaysToFile /\ isSynced /\ WritePageFails(r.pg)
    /\ UNCHANGED <<jrnl, setup, written>>

\* pager_playback_one_page on the sub-journal, which is read after the main
\* journal and by a ROLLBACK TO only.
playSub ==
    /\ pc = "sub" /\ cur.sub < Len(sub)
    /\ LET r == sub[cur.sub + 1]
           skip == r.pg > dbSize \/ r.pg \in cur.done
           cached == cache[r.pg] # NotCached
           toFile == PlaysToFile /\ ~(cached /\ r.pg \in needSync)
           next == [cur EXCEPT !.sub = @ + 1,
                               !.done = @ \cup (IF skip THEN {} ELSE {r.pg})]
       IN  \/ /\ skip
              /\ NoFault
              /\ cur' = next
              /\ UNCHANGED <<dbf, pageVars, pc, eState, sub, sp, inJournal, j,
                             dbSize, dbOrigSize, histVars>>
           \/ /\ ~skip /\ (toFile => Seekable(dbf, r.pg - 1))
              /\ NoFault
              /\ dbf' = IF toFile THEN PutPage(r.pg, r.data) ELSE dbf
              /\ cache' = IF cached \/ ~toFile
                          THEN [cache EXCEPT ![r.pg] = r.data] ELSE cache
              /\ dirty' = IF cached \/ toFile THEN dirty ELSE dirty \cup {r.pg}
              /\ cur' = next
              /\ UNCHANGED <<needSync, pc, eState, sub, sp, inJournal, j,
                             dbSize, dbOrigSize, histVars>>
           \/ ~skip /\ toFile /\ WritePageFails(r.pg)
    /\ UNCHANGED <<jrnl, setup, written>>

RolledBackTo ==
    /\ pc = "sub" /\ cur.sub >= Len(sub)
    /\ stack' = SubSeq(stack, 1, cur.p) /\ before' = <<>>
    /\ pc' = "idle" /\ cur' = Idle
    /\ UNCHANGED <<fileVars, sub, faults, written, eState, dbSize, dbOrigSize,
                   j, inJournal, pageVars, sp>>

\* The process ends at any point.
Crash ==
    /\ pc # "dead"
    /\ Fault
    /\ Dead
    /\ UNCHANGED <<fileVars, written>>

-----------------------------------------------------------------------------
Next ==
    \/ sqlite3PagerBegin \/ sqlite3PagerOpenSavepoint
    \/ \E i \in 1 .. Len(sp) : ReleaseSavepoint(i)
    \/ \E i \in 0 .. Len(sp) : RollbackTo(i)
    \/ \E p \in Page :
           readDbPage(p) \/ Recycle(p) \/ WritePage(p) \/ pagerStress(p)
    \/ Commit \/ CommitNoChange \/ pager_open_journal \/ pager_write
    \/ zeroNextHdr \/ writeNRec \/ writeNextHdr \/ writeSpilled
    \/ pager_write_pagelist \/ CommitPhaseOneDone \/ pager_end_transaction
    \/ truncateFile
    \/ sqlite3PagerRollback \/ HotJournal \/ readJournalHdr \/ playMain
    \/ playSub \/ RolledBackTo \/ Crash

Spec == Init /\ [][Next]_vars

-----------------------------------------------------------------------------
(* Properties.                                                             *)

Contents == [change : -1 .. MaxWrites, n : 0 .. MaxPage]

TypeOK ==
    /\ dbf \in Seq(Contents) /\ Len(dbf) \in Page
    /\ faults \in 0 .. MaxFaults /\ written \in 0 .. MaxWrites
    /\ eState \in {"OPEN", "READER", "WRITER_LOCKED"} \cup CacheMod
    /\ dbSize \in 0 .. MaxPage /\ dbOrigSize \in 0 .. MaxPage
    /\ cache \in [Page -> Contents \cup {NotCached}]
    /\ dirty \subseteq Cached(Page) /\ needSync \subseteq Cached(Page)
    /\ inJournal \subseteq 1 .. dbOrigSize
    /\ Len(sp) \in 0 .. setup.saves

(* No page is lost, and none is missing: a journal that a later process    *)
(* would play back, whoever left it and wherever the process ended, gives  *)
(* the database a size that is not zero and that the file still has; what  *)
(* the file does not have of a larger database is still to be written,     *)
(* whatever was spilled, undone or failed before; and when the transaction *)
(* ends the file is complete.                                              *)
NoPageLost ==
    /\ IsHotJournal => jrnl[1].mxPg \in 1 .. Len(dbf)
    /\ eState \in CacheMod /\ cur.op # "rollback" =>
           Len(dbf) + 1 .. dbSize \subseteq dirty
    /\ pc = "end" => dbSize <= Len(dbf)

(* A playback takes records of the transaction that it undoes, never those *)
(* that an older transaction has left further on in the journal file; this *)
(* is what zeroNextHdr is for.                                             *)
OnlyOwnRecords == pc = "play" /\ cur.n > 0 /\ ~isSavepnt => cur.ck = Own

\* The offsets of the records that a hot-journal playback finds from a header
\* at o on.
HotRecords ==
    LET from[o \in 0 .. Len(jrnl)] ==
            IF o + Sector > Len(jrnl) \/ jrnl[o + 1].k # "hdr" THEN {}
            ELSE IF ~jrnl[o + 1].magic THEN {}
            ELSE LET n == jrnl[o + 1].nRec
                     next == journalHdrOffset(o + Sector + n)
                 IN  o + Sector .. o + Sector + n - 1 \cup
                     IF next <= Len(jrnl) THEN from[next] ELSE {}
    IN  from[0]

\* The database that the files stand for: what a playback of the journal
\* would make of them, up to the size that page 1 then says.
PlayedBack ==
    IF ~IsHotJournal THEN dbf
    ELSE [p \in 1 .. jrnl[1].mxPg |->
             LET S == {o \in HotRecords : jrnl[o + 1].pg = p}
             IN  IF S = {} THEN dbf[p]
                 ELSE jrnl[(CHOOSE o \in S : \A q \in S : o >= q) + 1].data]
Durable == SubSeq(PlayedBack, 1, PlayedBack[1].n)

Mode ==
    IF eState = "OPEN" THEN "none"
    ELSE IF pc = "err" \/ cur.op = "rollback" THEN "undo"
    ELSE IF eState = "READER" \/ pc = "shrink" THEN "read" ELSE "write"

Asked ==
    IF isSavepnt THEN cur.p
    ELSE IF cur.op = "commit" /\ pc \in {"nrec", "pages", "end"}
    THEN -2 ELSE -1

Nested == INSTANCE NestedTxn WITH
              db <- Durable,
              mode <- Mode,
              view <- IF Mode \in {"none", "undo"} THEN <<>>
                      ELSE IF isSavepnt THEN before ELSE View,
              stack <- stack,
              asked <- Asked

(* The transaction is what NestedTxn says, whatever is spilled, evicted,   *)
(* failing or ended in between: ROLLBACK TO restores the very view of the  *)
(* savepoint, ROLLBACK and the recovery of a dead process the committed    *)
(* database, and only the deletion of the journal commits.                 *)
Transactional == Nested!NestedSpec
=============================================================================

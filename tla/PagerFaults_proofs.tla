------------------------- MODULE PagerFaults_proofs -------------------------
(***************************************************************************)
(* What the journal is good for when calls fail and processes end.         *)
(*                                                                         *)
(*   - A rollback uses no record of an older transaction (OnlyOwnRecords), *)
(*     for any number of connections and every kind of fault.              *)
(*   - A connection that is alone changes the database that file and       *)
(*     journal stand for only at the end of a commit                       *)
(*     (ChangesOnlyAtCommit), unless reads fail.                           *)
(*   - Over os_verix.c such a connection has rolled back the journal that  *)
(*     a failed transaction left before it reads (LeftJournalRolledBack).  *)
(*   - No failure leaves stale pages in the cache of a connection that is  *)
(*     alone (CacheCurrent), unless reads fail.                            *)
(*   - Over os_verix.c a connection that is alone implements TxnDb, with   *)
(*     every fault that is modelled for it (Serializable).                 *)
(***************************************************************************)
EXTENDS PagerTypes_proofs

Records(c) == Cardinality(tx[c].inJournal)

\* Does c write a journal, or roll it back?
HasJournal(c) == eState[c] \in CacheMod /\ pc[c] # "unlock"

\* The checksums of what an older transaction left behind the records of c
\* do not fit.
ForeignOK(c) ==
    HasJournal(c) =>
        /\ jrnl.cksumInit \in Nonce
        /\ \A i \in 1 .. Len(jrnl.recs) :
               i > Records(c) => jrnl.recs[i].cksum # jrnl.cksumInit

OwnInv == TypeInv /\ \A c \in Conn : ForeignOK(c)

-----------------------------------------------------------------------------
(* What pager_write does to the journal, if it succeeds and if it fails:   *)
(* a record of this transaction follows the others, or nothing that counts.*)
LEMMA WriteEffect ==
    ASSUME TypeInv, NEW c \in Conn, HasJournal(c),
           NEW p \in Page, NEW content, NEW next,
           p <= tx[c].dbOrigSize => cache[c][p] # NotCached,
           pager_write(c, p, content, next)
    PROVE  /\ jrnl'.hdr = jrnl.hdr /\ jrnl'.nRec = jrnl.nRec
           /\ jrnl'.cksumInit = jrnl.cksumInit /\ jrnl'.mxPg = jrnl.mxPg
           /\ Len(jrnl.recs) \in Nat /\ Len(jrnl'.recs) \in Nat
           /\ Records(c) \in 0 .. Len(jrnl.recs)
           /\ Len(jrnl.recs) <= Len(jrnl'.recs)
           /\ \A i \in 1 .. Records(c) : jrnl'.recs[i] = jrnl.recs[i]
           /\ \/ /\ ~NeedsRecord(c, p) \/ UNCHANGED cache
                 /\ tx'[c].inJournal = tx[c].inJournal
                 /\ Len(jrnl'.recs) = Len(jrnl.recs)
                 /\ \A i \in 1 .. Len(jrnl.recs) :
                        jrnl'.recs[i].cksum \in {jrnl.recs[i].cksum, NoMatch}
              \/ /\ NeedsRecord(c, p)
                 /\ tx'[c].inJournal = tx[c].inJournal \cup {p}
                 /\ Records(c)' = Records(c) + 1
                 /\ Records(c) + 1 <= Len(jrnl'.recs)
                 /\ jrnl'.recs[Records(c) + 1] =
                        [pg |-> p, data |-> cache[c][p],
                         cksum |-> jrnl.cksumInit]
                 /\ \A i \in 1 .. Len(jrnl'.recs) : i # Records(c) + 1 =>
                        i <= Len(jrnl.recs) /\ jrnl'.recs[i] = jrnl.recs[i]
<1> DEFINE t0 == tx[c]
           n == Records(c)
           i == n + 1
<1>1. /\ IsFiniteSet(t0.inJournal) /\ n \in 0 .. Len(jrnl.recs)
      /\ Len(jrnl.recs) \in Nat /\ jrnl.recs \in Seq(JournalRecord)
      /\ jrnl \in JournalType /\ t0 \in TxType /\ cache[c] \in Pages
      /\ tx \in [Conn -> TxType]
  BY JournalCount, TypesOf DEF HasJournal, Records, TypeInv, DiskOK
<1>2. n = Cardinality(t0.inJournal) /\ i \in 1 .. Len(jrnl.recs) + 1
      /\ n \in Nat
  BY <1>1 DEF Records
<1>3. CASE ~NeedsRecord(c, p) /\ jrnl' = jrnl
           /\ tx'[c].inJournal = t0.inJournal
  <2>1. \A k \in 1 .. Len(jrnl.recs) :
            jrnl'.recs[k].cksum \in {jrnl.recs[k].cksum, NoMatch}
    BY <1>3
  <2> QED  BY <1>1, <1>3, <2>1
<1>4. CASE NeedsRecord(c, p) /\ jrnl' = AddRecord(c, p)
           /\ tx'[c].inJournal = t0.inJournal \cup {p}
  <2> DEFINE rec == [pg |-> p, data |-> cache[c][p], cksum |-> jrnl.cksumInit]
             recs == PutRecord(jrnl.recs, i, rec)
  <2>1. rec \in JournalRecord
    <3>1. cache[c][p] \in Content
      BY <1>1, <1>4 DEF NeedsRecord, Pages
    <3>2. jrnl.cksumInit \in Nonce \cup {NoMatch}
      BY <1>1 DEF JournalType
    <3> QED  BY <3>1, <3>2 DEF JournalRecord
  <2>2. jrnl' = [jrnl EXCEPT !.recs = recs]
    BY <1>2, <1>4 DEF AddRecord, PutRecord
  <2>3. Records(c)' = n + 1
    <3>1. p \notin t0.inJournal
      BY <1>4 DEF NeedsRecord
    <3> QED  BY <1>1, <1>2, <1>4, <3>1, FS_AddElement DEF Records
  <2>r. rec = [pg |-> p, data |-> cache[c][p], cksum |-> jrnl.cksumInit]
    OBVIOUS
  <2> HIDE DEF rec, n
  <2>4. /\ recs \in Seq(JournalRecord)
        /\ Len(recs) = IF i > Len(jrnl.recs) THEN i ELSE Len(jrnl.recs)
        /\ recs[i] = rec
        /\ \A k \in 1 .. Len(jrnl.recs) : k # i => recs[k] = jrnl.recs[k]
    BY <1>1, <1>2, <2>1, PutRecordEffect
  <2> HIDE DEF recs
  <2>5. /\ jrnl'.recs = recs /\ jrnl'.hdr = jrnl.hdr
        /\ jrnl'.nRec = jrnl.nRec /\ jrnl'.mxPg = jrnl.mxPg
        /\ jrnl'.cksumInit = jrnl.cksumInit
    BY <1>1, <2>2 DEF JournalType
  <2>6. /\ Len(recs) \in Nat /\ Len(jrnl.recs) <= Len(recs)
        /\ i <= Len(recs)
    BY <1>1, <1>2, <2>4
  <2>7. \A k \in 1 .. n : recs[k] = jrnl.recs[k]
    BY <1>1, <1>2, <2>4
  <2>8. \A k \in 1 .. Len(recs) :
            k # i => k <= Len(jrnl.recs) /\ recs[k] = jrnl.recs[k]
    BY <1>1, <1>2, <2>4
  <2> QED
    BY <1>1, <1>4, <2>3, <2>4, <2>5, <2>6, <2>7, <2>8, <2>r DEF n
<1>5. CASE NeedsRecord(c, p) /\ jrnl' \in TornRecord(c, p)
           /\ tx'[c].inJournal = t0.inJournal /\ cache' = cache
  <2>1. CASE jrnl' = jrnl
    <3>1. \A k \in 1 .. Len(jrnl.recs) :
              jrnl'.recs[k].cksum \in {jrnl.recs[k].cksum, NoMatch}
      BY <2>1
    <3> QED  BY <1>1, <1>5, <2>1, <3>1
  <2>2. CASE jrnl' # jrnl
    <3> DEFINE old == jrnl.recs[i]
    <3>1. i \in 1 .. Len(jrnl.recs)
      BY <1>1, <1>2, <1>5, <2>2 DEF TornRecord
    <3>2. old \in JournalRecord
      BY <1>1, <3>1, ElementOfSeq
    <3>3. PICK rec \in {[old EXCEPT !.pg = p],
                        [pg |-> p, data |-> Garbage, cksum |-> NoMatch]} :
              jrnl' = [jrnl EXCEPT !.recs[i] = rec]
      BY <1>2, <1>5, <2>2 DEF TornRecord
    <3>4. rec.cksum \in {old.cksum, NoMatch} /\ rec \in JournalRecord
      <4>1. Garbage \in Content
        BY PagerAssumption DEF Content, Garbage
      <4> QED  BY <3>2, <3>3, <4>1 DEF JournalRecord
    <3> DEFINE recs == [jrnl.recs EXCEPT ![i] = rec]
    <3>5. jrnl' = [jrnl EXCEPT !.recs = recs]
      BY <3>3
    <3>o. old = jrnl.recs[i]
      OBVIOUS
    <3> HIDE DEF n, old
    <3>6. /\ Len(recs) = Len(jrnl.recs) /\ recs[i] = rec
          /\ \A k \in 1 .. Len(jrnl.recs) : k # i => recs[k] = jrnl.recs[k]
      BY <1>1, <3>1, <3>4, ExceptSeq
    <3> HIDE DEF recs
    <3>7. /\ jrnl'.recs = recs /\ jrnl'.hdr = jrnl.hdr
          /\ jrnl'.nRec = jrnl.nRec /\ jrnl'.mxPg = jrnl.mxPg
          /\ jrnl'.cksumInit = jrnl.cksumInit
      BY <1>1, <3>5 DEF JournalType
    <3>8. \A k \in 1 .. Len(jrnl.recs) :
              recs[k].cksum \in {jrnl.recs[k].cksum, NoMatch}
      BY <3>4, <3>6, <3>o
    <3>9. \A k \in 1 .. n : recs[k] = jrnl.recs[k]
      BY <1>1, <1>2, <3>6
    <3> QED
      BY <1>1, <1>5, <3>6, <3>7, <3>8, <3>9 DEF n
  <2> QED  BY <2>1, <2>2
<1>6. CASE NoFault /\ jrnl' = (IF NeedsRecord(c, p) THEN AddRecord(c, p)
                               ELSE jrnl)
           /\ tx' = [tx EXCEPT
                        ![c].inJournal = IF NeedsRecord(c, p)
                                         THEN @ \cup {p} ELSE @,
                        ![c].dirty = @ \cup {p},
                        ![c].dbSize = IF p > @ THEN p ELSE @]
  <2>1. tx'[c].inJournal = IF NeedsRecord(c, p) THEN t0.inJournal \cup {p}
                           ELSE t0.inJournal
    BY <1>1, <1>6 DEF TxType
  <2> QED  BY <1>3, <1>4, <1>6, <2>1
<1>7. CASE NeedsRecord(c, p) /\ jrnl' \in TornRecord(c, p)
           /\ tx' = [tx EXCEPT ![c].dirty = @ \cup {p}] /\ UNCHANGED cache
  <2>1. tx'[c].inJournal = t0.inJournal
    BY <1>1, <1>7 DEF TxType
  <2> QED  BY <1>5, <1>7, <2>1
<1> QED  BY <1>6, <1>7 DEF pager_write

(* The steps that write a record.                                          *)
LEMMA PageWrites ==
    ASSUME TypeInv, NEW c \in Conn,
           pager_incr_changecounter(c) \/ \E p \in Page : WritePage(c, p)
    PROVE  /\ HasJournal(c) /\ eState[c] = "WRITER_CACHEMOD"
           /\ pc[c] \in {"idle", "jpage"}
           /\ UNCHANGED <<dbf, eState, vers>>
           /\ \E p, content, next :
                  /\ p \in Page /\ pager_write(c, p, content, next)
                  /\ p <= tx[c].dbOrigSize => cache[c][p] # NotCached
                  /\ \/ p = 1 /\ content = vers[c] + 1 /\ next = "sync"
                     \/ /\ next = "idle" /\ Writable(c, p)
                        /\ content = Changed(cache[c][p])
<1>0. /\ cache[c] \in Pages /\ tx[c] \in TxType
      /\ eState[c] = "WRITER_CACHEMOD" /\ pc[c] \in {"idle", "jpage"} =>
             /\ cache[c][1] # NotCached /\ tx[c].dbOrigSize <= tx[c].dbSize
             /\ HasJournal(c)
  BY TypesOf DEF TxOK, Writer, CacheMod, Working, HasJournal
<1>1. CASE pager_incr_changecounter(c)
  <2>1. /\ eState[c] = "WRITER_CACHEMOD" /\ pc[c] = "idle"
        /\ pager_write(c, 1, vers[c] + 1, "sync")
        /\ UNCHANGED <<dbf, eState, vers>>
    BY <1>1 DEF pager_incr_changecounter
  <2>2. 1 \in Page /\ cache[c][1] # NotCached /\ HasJournal(c)
    BY <1>0, <2>1, ZeroIsContent
  <2> QED  BY <2>1, <2>2
<1>2. CASE \E p \in Page : WritePage(c, p)
  <2>1. PICK p \in Page : WritePage(c, p)
    BY <1>2
  <2>2. /\ eState[c] = "WRITER_CACHEMOD" /\ pc[c] \in {"idle", "jpage"}
        /\ Writable(c, p)
        /\ pager_write(c, p, Changed(cache[c][p]), "idle")
        /\ UNCHANGED <<dbf, eState, vers>>
    BY <2>1 DEF WritePage
  <2>3. p <= tx[c].dbOrigSize => cache[c][p] # NotCached
    <3>1. /\ p \in Int /\ tx[c].dbSize \in Int /\ tx[c].dbOrigSize \in Int
          /\ tx[c].dbOrigSize <= tx[c].dbSize
      BY <1>0, <2>2, PagerAssumption DEF TxType, Page
    <3>2. cache[c][p] # NotCached \/ p = tx[c].dbSize + 1
      BY <2>2 DEF Writable
    <3> QED  BY <3>1, <3>2
  <2> QED  BY <1>0, <2>2, <2>3
<1> QED  BY <1>1, <1>2

(* The other steps of a transaction leave what matters of the journal.     *)
LEMMA JournalKept ==
    ASSUME TypeInv, NEW c \in Conn, StepOK(c),
           PagerStep(c) \/ Finish(c) \/ Work(c) \/ Crash(c),
           ~writeJournalHdr(c),
           ~pager_incr_changecounter(c), ~(\E p \in Page : WritePage(c, p)),
           HasJournal(c)'
    PROVE  /\ HasJournal(c)
           /\ jrnl'.recs = jrnl.recs /\ jrnl'.cksumInit = jrnl.cksumInit
           /\ jrnl'.mxPg = jrnl.mxPg
           /\ tx'[c].inJournal = tx[c].inJournal
           /\ tx'[c].dbOrigSize = tx[c].dbOrigSize
<1>0. /\ Matches(eState[c], pc[c], eLock[c])
      /\ eState \in [Conn -> EState] /\ pc \in [Conn -> PC]
      /\ tx \in [Conn -> TxType] /\ tx[c] \in TxType /\ jrnl \in JournalType
  BY InvOf, TypesOf DEF TypeInv, PagerInv, DiskOK
<1>1. CASE \/ SharedLock(c) \/ hasHotJournal(c) \/ HotLock(c) \/ HotOpen(c)
           \/ CheckVersion(c) \/ BeginWrite(c) \/ BeginBusy(c)
           \/ pager_open_journal(c)
  <2>1. eState'[c] \notin CacheMod
    BY <1>0, <1>1 DEF SharedLock, hasHotJournal, HotLock, HotOpen,
       CheckVersion, BeginWrite, BeginBusy, pager_open_journal, Matches,
       CacheMod
  <2> QED  BY <2>1 DEF HasJournal
<1>2. CASE \E p \in Page : readDbPage(c, p)
  BY <1>2 DEF readDbPage, HasJournal, diskVars
<1>3. CASE CommitNoChange(c) \/ Rollback(c)
  <2>1. UNCHANGED <<jrnl, eState, tx>> /\ pc[c] # "unlock"
    BY <1>3 DEF CommitNoChange, Rollback, diskVars
  <2> QED  BY <2>1 DEF HasJournal
<1>4. CASE syncJournal(c)
  <2>1. pc[c] = "sync" /\ HasJournal(c)
    BY <1>0, <1>4 DEF syncJournal, Matches, HasJournal, CacheMod
  <2>2. /\ jrnl'.recs = jrnl.recs /\ jrnl'.cksumInit = jrnl.cksumInit
        /\ jrnl'.mxPg = jrnl.mxPg
    BY <1>0, <1>4 DEF syncJournal, JournalType
  <2>3. tx' = tx \/ tx' = [tx EXCEPT ![c].todo = tx[c].dirty]
    BY <1>4 DEF syncJournal
  <2> QED  BY <1>0, <2>1, <2>2, <2>3 DEF TxType
<1>5. CASE pager_write_pagelist(c) \/ CommitPhaseOneDone(c)
  <2>1. HasJournal(c) /\ jrnl' = jrnl
    BY <1>0, <1>5 DEF pager_write_pagelist, CommitPhaseOneDone, Matches,
       HasJournal, CacheMod, diskVars
  <2>2. /\ tx'[c].inJournal = tx[c].inJournal
        /\ tx'[c].dbOrigSize = tx[c].dbOrigSize
    BY <1>0, <1>5 DEF pager_write_pagelist, CommitPhaseOneDone, TxType
  <2> QED  BY <2>1, <2>2
<1>6. CASE pager_playback(c)
  <2>1. pc[c] = "playback" /\ jrnl' = jrnl
    BY <1>6 DEF pager_playback
  <2>2. /\ eState' = eState \/ eState'[c] = "ERROR"
        /\ tx'[c].inJournal = tx[c].inJournal
        /\ tx'[c].dbOrigSize = tx[c].dbOrigSize
    BY <1>0, <1>6 DEF pager_playback, ToError, TxType
  <2> QED  BY <2>1, <2>2 DEF HasJournal, CacheMod
<1>7. CASE pager_playback_one_page(c) \/ PlaybackDone(c)
  <2>1. pc[c] = "play" /\ jrnl' = jrnl
    BY <1>7 DEF pager_playback_one_page, PlaybackDone, diskVars
  <2>2. /\ eState' = eState \/ eState'[c] = "ERROR"
        /\ tx'[c].inJournal = tx[c].inJournal
        /\ tx'[c].dbOrigSize = tx[c].dbOrigSize
    <3>1. CASE pager_playback_one_page(c)
      BY <1>0, <3>1 DEF pager_playback_one_page, ToError, TxType
    <3>2. CASE PlaybackDone(c)
      BY <1>0, <3>2 DEF PlaybackDone, ToError
    <3> QED  BY <1>7, <3>1, <3>2
  <2> QED  BY <2>1, <2>2 DEF HasJournal, CacheMod
<1>8. CASE \/ FinalizeJournal(c) \/ EndTransaction(c) \/ KeepReading(c)
           \/ pager_unlock(c) \/ Crash(c)
  <2>1. pc'[c] = "unlock" \/ eState'[c] \notin CacheMod
    BY <1>0, <1>8 DEF FinalizeJournal, EndTransaction, KeepReading,
       pager_unlock, Crash, Goto, ToError, Matches, CacheMod
  <2> QED  BY <2>1 DEF HasJournal
<1> QED
  BY <1>1, <1>2, <1>3, <1>4, <1>5, <1>6, <1>7, <1>8
     DEF PagerStep, Finish, Work

(* A new journal is begun with a seed that fits nothing in the file.       *)
LEMMA OwnStep ==
    ASSUME OwnInv, NEW c \in Conn, StepOK(c),
           FreshNonce \/ (pc[c] = "jhdr" => jrnl.recs = <<>>),
           PagerStep(c) \/ Finish(c) \/ Work(c) \/ Crash(c)
    PROVE  ForeignOK(c)'
<1>0. /\ TypeInv /\ ForeignOK(c) /\ tx \in [Conn -> TxType]
      /\ jrnl \in JournalType /\ jrnl.recs \in Seq(JournalRecord)
      /\ eState \in [Conn -> EState] /\ pc \in [Conn -> PC]
  BY DEF OwnInv, TypeInv, PagerInv, DiskOK, JournalType
<1>1. CASE writeJournalHdr(c)
  <2>1. CASE \E init \in Drawn :
                 jrnl' = [hdr |-> "zeroed", nRec |-> 0, cksumInit |-> init,
                          mxPg |-> tx[c].dbOrigSize, recs |-> jrnl.recs]
    <3>1. PICK init \in Drawn :
              jrnl' = [hdr |-> "zeroed", nRec |-> 0, cksumInit |-> init,
                       mxPg |-> tx[c].dbOrigSize, recs |-> jrnl.recs]
      BY <2>1
    <3>2. init \in Nonce
      BY DEF Drawn
    <3>3. \A i \in 1 .. Len(jrnl.recs) : jrnl.recs[i].cksum # init
      <4>1. CASE FreshNonce
        BY <4>1 DEF Drawn
      <4>2. CASE jrnl.recs = <<>>
        BY <4>2, EmptySeq
      <4> QED  BY <1>1, <4>1, <4>2 DEF writeJournalHdr
    <3>4. jrnl'.cksumInit = init /\ jrnl'.recs = jrnl.recs
      BY <3>1
    <3> QED  BY <3>2, <3>3, <3>4 DEF ForeignOK
  <2>2. CASE eState' = eState
    <3>1. eState[c] = "WRITER_LOCKED"
      BY <1>0, <1>1, InvOf DEF writeJournalHdr, TypeInv, Matches
    <3> QED  BY <2>2, <3>1 DEF ForeignOK, HasJournal, CacheMod
  <2> QED  BY <1>1, <2>1, <2>2 DEF writeJournalHdr
<1>2. CASE pager_incr_changecounter(c) \/ \E p \in Page : WritePage(c, p)
  <2>1. HasJournal(c)
    BY <1>0, <1>2, PageWrites
  <2>2. PICK p, content, next :
            /\ p \in Page /\ pager_write(c, p, content, next)
            /\ p <= tx[c].dbOrigSize => cache[c][p] # NotCached
    BY <1>0, <1>2, PageWrites
  <2>3. /\ jrnl.cksumInit \in Nonce /\ NoMatch \notin Nonce
        /\ \A i \in 1 .. Len(jrnl.recs) :
               i > Records(c) => jrnl.recs[i].cksum # jrnl.cksumInit
    BY <1>0, <2>1, PagerAssumption DEF ForeignOK, NoMatch
  <2>4. /\ jrnl'.cksumInit = jrnl.cksumInit
        /\ Len(jrnl.recs) \in Nat /\ Len(jrnl'.recs) \in Nat
        /\ Records(c) \in 0 .. Len(jrnl.recs)
    BY <1>0, <2>1, <2>2, WriteEffect
  <2>5. ASSUME NEW i \in 1 .. Len(jrnl'.recs), i > Records(c)'
        PROVE  jrnl'.recs[i].cksum # jrnl.cksumInit
    <3>1. CASE /\ tx'[c].inJournal = tx[c].inJournal
               /\ Len(jrnl'.recs) = Len(jrnl.recs)
               /\ \A k \in 1 .. Len(jrnl.recs) :
                      jrnl'.recs[k].cksum \in {jrnl.recs[k].cksum, NoMatch}
      BY <2>3, <2>5, <3>1 DEF Records
    <3>2. CASE /\ Records(c)' = Records(c) + 1
               /\ \A k \in 1 .. Len(jrnl'.recs) : k # Records(c) + 1 =>
                      k <= Len(jrnl.recs) /\ jrnl'.recs[k] = jrnl.recs[k]
      <4>1. i > Records(c) + 1
        BY <2>5, <3>2
      <4>2. i # Records(c) + 1 /\ i > Records(c)
        BY <2>4, <4>1
      <4> QED  BY <2>3, <2>4, <3>2, <4>2
    <3> QED  BY <1>0, <2>1, <2>2, <3>1, <3>2, WriteEffect
  <2> QED  BY <2>3, <2>4, <2>5 DEF ForeignOK
<1>3. CASE /\ ~writeJournalHdr(c) /\ ~pager_incr_changecounter(c)
           /\ ~(\E p \in Page : WritePage(c, p))
  <2>1. HasJournal(c)' =>
            /\ HasJournal(c) /\ jrnl'.recs = jrnl.recs
            /\ jrnl'.cksumInit = jrnl.cksumInit
            /\ tx'[c].inJournal = tx[c].inJournal
    BY <1>0, <1>3, JournalKept
  <2> QED  BY <1>0, <2>1 DEF ForeignOK, Records
<1> QED  BY <1>1, <1>2, <1>3

(* The journal of one connection is left alone by the others.              *)
LEMMA OwnOthers ==
    ASSUME OwnInv, NEW c \in Conn, StepOK(c), TypedStep(c),
           NEW d \in Conn, d # c
    PROVE  ForeignOK(d)'
<1>1. /\ eState'[d] = eState[d] /\ pc'[d] = pc[d] /\ tx'[d] = tx[d]
      /\ ForeignOK(d)
  BY DEF StepOK, TypedStep, OwnInv
<1>2. CASE jrnl' = jrnl
  BY <1>1, <1>2 DEF ForeignOK, HasJournal, Records
<1>3. CASE jrnl' # jrnl
  <2>1. eLock[d] \notin {RESERVED_LOCK, EXCLUSIVE_LOCK}
    BY <1>3 DEF TypedStep, OwnInv, TypeInv, PagerInv, LockInv,
       ReservedIsOwned
  <2>2. eState[d] \notin CacheMod
    BY <2>1, InvOf DEF OwnInv, TypeInv, Matches, Writer
  <2> QED  BY <1>1, <2>2 DEF ForeignOK, HasJournal
<1> QED  BY <1>2, <1>3

LEMMA OwnNext ==
    ASSUME FreshNonce, OwnInv, [Next]_vars
    PROVE  OwnInv'
<1>0. TypeInv /\ TypeInv'
  BY TypeNext DEF OwnInv
<1>1. CASE Next
  <2>1. PICK c \in Conn : PagerStep(c) \/ Finish(c) \/ Work(c) \/ Crash(c)
    BY <1>1 DEF Next
  <2>2. StepOK(c) /\ TypedStep(c)
    BY <1>0, <2>1, StepTypes
  <2> QED  BY <1>0, <2>1, <2>2, OwnStep, OwnOthers DEF OwnInv
<1>2. CASE UNCHANGED vars
  BY <1>0, <1>2 DEF vars, OwnInv, ForeignOK, HasJournal, Records
<1> QED  BY <1>1, <1>2

(* Whatever fails and however many connections share the journal file, a   *)
(* rollback takes nothing into the cache from a record that the            *)
(* transaction itself has not written, if writeJournalHdr draws no seed    *)
(* that an older journal left in the file.                                 *)
THEOREM OwnRecordsOnly ==
    ASSUME FreshNonce
    PROVE  Spec => OnlyOwnRecords
<1> DEFINE Own ==
        \A c \in Conn :
            /\ pc[c] = "play" /\ ~isHot(c) /\ pc'[c] = "play"
            /\ cache'[c] # cache[c]
            => tx[c].pos <= Cardinality(tx[c].inJournal)
<1>1. Init => OwnInv
  BY TypeInit DEF OwnInv, ForeignOK, HasJournal, Init, CacheMod
<1>2. OwnInv /\ [Next]_vars => OwnInv'
  BY OwnNext
<1>3. OwnInv /\ [Next]_vars => [Own]_vars
  <2> SUFFICES ASSUME OwnInv, Next, NEW c \in Conn,
                      pc[c] = "play", ~isHot(c), pc'[c] = "play",
                      cache'[c] # cache[c]
               PROVE  tx[c].pos <= Records(c)
    BY DEF Own, Records
  <2>0. TypeInv /\ DiskOK /\ ForeignOK(c)
    BY DEF OwnInv, TypeInv
  <2>1. PICK d \in Conn : PagerStep(d) \/ Finish(d) \/ Work(d) \/ Crash(d)
    BY DEF Next
  <2>2. d = c
    BY <2>0, <2>1, StepTypes DEF TypedStep
  <2>3. /\ eState[c] \in CacheMod /\ eState \in [Conn -> EState]
        /\ pc \in [Conn -> PC]
    BY <2>0, InvOf, TypesOf
       DEF TypeInv, PagerInv, Matches, isHot, TxOK, Writer, CacheMod
  <2>4. pager_playback_one_page(c)
    <3>1. ~PlaybackDone(c) /\ ~Crash(c)
      BY <2>3 DEF PlaybackDone, Crash, Goto
    <3> QED
      BY <2>1, <2>2, <2>3, <3>1
         DEF PagerStep, Finish, Work, hasHotJournal, HotLock, HotOpen,
             CheckVersion, writeJournalHdr, syncJournal,
             pager_write_pagelist, CommitPhaseOneDone, pager_playback,
             FinalizeJournal, EndTransaction, KeepReading,
             pager_incr_changecounter, CommitNoChange, Rollback,
             pager_unlock, SharedLock, BeginWrite, BeginBusy,
             pager_open_journal, readDbPage, WritePage, CacheMod
  <2>5. /\ jrnl.recs[tx[c].pos].cksum = jrnl.cksumInit
        /\ tx[c].pos <= tx[c].n
    BY <2>4 DEF pager_playback_one_page
  <2>6. tx[c].pos \in 1 .. Len(jrnl.recs) /\ Records(c) \in Nat
    <3>1. /\ tx[c].pos >= 1 /\ tx[c].n <= Len(jrnl.recs)
          /\ tx[c].pos \in Nat /\ tx[c].n \in Nat
      BY <2>0, TypesOf DEF JournalOK, TxType
    <3>2. Len(jrnl.recs) \in Nat /\ Records(c) \in 0 .. Len(jrnl.recs)
      BY <2>0, <2>3, JournalCount DEF Records
    <3> QED  BY <2>5, <3>1, <3>2
  <2>7. ~(tx[c].pos > Records(c))
    BY <2>0, <2>3, <2>5, <2>6 DEF ForeignOK, HasJournal
  <2> QED  BY <2>6, <2>7
<1> QED  BY <1>1, <1>2, <1>3, PTL DEF Spec, OnlyOwnRecords

-----------------------------------------------------------------------------
(* One connection.                                                         *)
Alone == \A c, d \in Conn : c = d

\* Over os_verix.c: no journal beside a read transaction, and whoever has
\* one open deletes it or fails.
NoneLeft(c) ==
    /\ pc[c] = "vers" \/ eState[c] = "READER" => jrnl = NoJournal
    /\ eState[c] = "WRITER_LOCKED" =>
           jrnl.hdr # "valid" /\ (pc[c] = "idle" => jrnl = NoJournal)
    /\ pc[c] = "jhdr" => tx[c].jfd /\ jrnl.recs = <<>>
    /\ pc[c] \in {"err", "playback", "play", "end"} =>
           tx[c].jfd \/ jrnl = NoJournal
    /\ HasJournal(c) => tx[c].jfd
    /\ pc[c] = "unlock" /\ tx[c].rc = "OK" => jrnl = NoJournal

LEMMA NoneLeftStep ==
    ASSUME TypeInv, NEW c \in Conn, NoneLeft(c), StepOK(c),
           Alone, Vfs = "os_verix",
           PagerStep(c) \/ Finish(c) \/ Work(c) \/ Crash(c)
    PROVE  NoneLeft(c)'
<1>0. /\ Matches(eState[c], pc[c], eLock[c])
      /\ eState \in [Conn -> EState] /\ pc \in [Conn -> PC]
      /\ tx \in [Conn -> TxType] /\ tx[c] \in TxType /\ jrnl \in JournalType
      /\ jrnl.hdr = "absent" => jrnl = NoJournal
      /\ eState[c] \in EState /\ pc[c] \in PC
  BY InvOf, TypesOf DEF TypeInv, PagerInv, DiskOK
<1>1. CASE SharedLock(c) \/ HotLock(c) \/ pager_unlock(c) \/ Crash(c)
  <2>1. /\ eState'[c] = "OPEN" \/ (eState'[c] = "READER" /\ eState' = eState)
        /\ pc'[c] \in {"idle", "hot", "excl", "hotopen", "failed"}
        /\ jrnl' = jrnl
    BY <1>0, <1>1 DEF SharedLock, HotLock, pager_unlock, Crash, Matches,
       Goto, diskVars
  <2> QED  BY <2>1 DEF NoneLeft, HasJournal, CacheMod
<1>2. CASE hasHotJournal(c)
  <2>1. owner \in {c, NoConn}
    BY DEF Alone, TypeInv, PagerInv, LockInv, LockTypeOK
  <2>2. ~ReservedReported(c)
    BY <2>1 DEF ReservedReported, OsLockable
  <2>3. /\ eState'[c] = "OPEN" /\ jrnl' = jrnl
        /\ pc'[c] = "excl" \/ (pc'[c] = "vers" /\ jrnl.hdr = "absent")
    BY <1>0, <1>2, <2>2 DEF hasHotJournal, Matches, Goto, diskVars
  <2> QED  BY <1>0, <2>3 DEF NoneLeft, HasJournal, CacheMod
<1>3. CASE HotOpen(c)
  <2>1. /\ eState'[c] = "OPEN" /\ jrnl' = jrnl
        /\ \/ pc'[c] = "playback" /\ tx'[c].jfd
           \/ pc'[c] = "failed"
    BY <1>0, <1>3 DEF HotOpen, Matches, Goto, diskVars, TxType
  <2> QED  BY <2>1 DEF NoneLeft, HasJournal, CacheMod
<1>4. CASE CheckVersion(c) \/ BeginWrite(c) \/ BeginBusy(c)
           \/ KeepReading(c)
  <2>1. /\ eState'[c] \in {"READER", "WRITER_LOCKED"} /\ jrnl' = jrnl
        /\ pc[c] = "vers" \/ eState[c] = "READER"
        /\ pc'[c] \in {"idle", "failed"}
    BY <1>0, <1>4 DEF CheckVersion, BeginWrite, BeginBusy, KeepReading,
       Matches, Goto, diskVars
  <2> QED  BY <2>1 DEF NoneLeft, HasJournal, CacheMod, NoJournal
<1>5. CASE pager_open_journal(c)
  <2>1. jrnl = NoJournal /\ eState'[c] = "WRITER_LOCKED"
    BY <1>0, <1>5 DEF pager_open_journal, NoneLeft
  <2>2. CASE /\ jrnl' = [NoJournal EXCEPT !.hdr = "empty"]
             /\ tx'[c].jfd /\ pc'[c] = "jhdr"
    BY <2>1, <2>2 DEF NoneLeft, NoJournal, HasJournal, CacheMod
  <2>3. CASE jrnl' = jrnl /\ pc'[c] = "err"
    BY <2>1, <2>3 DEF NoneLeft, HasJournal, CacheMod, NoJournal
  <2>4. jrnl.hdr = "absent"
    BY <2>1 DEF NoJournal
  <2> QED
    BY <1>0, <1>5, <2>2, <2>3, <2>4 DEF pager_open_journal, Goto, TxType
<1>6. CASE writeJournalHdr(c)
  <2>1. tx[c].jfd /\ tx' = tx /\ eState[c] = "WRITER_LOCKED"
    BY <1>0, <1>6 DEF writeJournalHdr, NoneLeft, Matches
  <2>2. /\ eState'[c] \in {"WRITER_CACHEMOD", "WRITER_LOCKED"}
        /\ pc'[c] \in {"jpage", "err"}
    BY <1>0, <1>6, <2>1 DEF writeJournalHdr, Goto
  <2>3. eState'[c] = "WRITER_LOCKED" => jrnl'.hdr # "valid"
    BY <1>0, <1>6, <2>1 DEF writeJournalHdr, NoneLeft
  <2> QED  BY <2>1, <2>2, <2>3 DEF NoneLeft
<1>7. CASE pager_incr_changecounter(c) \/ \E p \in Page : WritePage(c, p)
  <2>1. HasJournal(c) /\ eState[c] = "WRITER_CACHEMOD" /\ eState' = eState
    BY <1>7, PageWrites
  <2>2. PICK p, content, next :
            /\ p \in Page /\ pager_write(c, p, content, next)
            /\ next \in {"sync", "idle"}
    BY <1>7, PageWrites
  <2>3. tx'[c].jfd = tx[c].jfd /\ pc'[c] \in {"sync", "idle", "err"}
    BY <1>0, <2>2 DEF pager_write, Goto, TxType
  <2> QED  BY <2>1, <2>3 DEF NoneLeft, HasJournal
<1>8. CASE \E p \in Page : readDbPage(c, p)
  BY <1>8 DEF readDbPage, NoneLeft, HasJournal, diskVars
<1>9. CASE CommitNoChange(c) \/ Rollback(c)
  <2>1. /\ UNCHANGED <<jrnl, eState, tx>> /\ pc'[c] \in {"end", "playback"}
        /\ pc[c] # "unlock"
        /\ \/ eState[c] = "WRITER_LOCKED" /\ pc[c] = "idle"
           \/ HasJournal(c)
           \/ pc[c] = "err"
        /\ eState[c] # "READER"
    BY <1>0, <1>9 DEF CommitNoChange, Rollback, diskVars, Goto,
       Writer, HasJournal, Matches, CacheMod
  <2> QED  BY <2>1 DEF NoneLeft, HasJournal
<1>10. CASE syncJournal(c) \/ pager_write_pagelist(c)
            \/ CommitPhaseOneDone(c)
  <2>1. /\ HasJournal(c) /\ tx'[c].jfd = tx[c].jfd
        /\ eState'[c] \in CacheMod /\ pc'[c] \in {"pages", "err", "end"}
    <3>1. CASE syncJournal(c)
      BY <1>0, <3>1 DEF syncJournal, HasJournal, Matches, Goto, TxType,
         CacheMod
    <3>2. CASE pager_write_pagelist(c)
      BY <1>0, <3>2 DEF pager_write_pagelist, HasJournal, Matches, Goto,
         TxType, CacheMod
    <3>3. CASE CommitPhaseOneDone(c)
      BY <1>0, <3>3 DEF CommitPhaseOneDone, HasJournal, Matches, Goto, TxType,
         CacheMod
    <3> QED  BY <1>10, <3>1, <3>2, <3>3
  <2> QED  BY <2>1 DEF NoneLeft, HasJournal, CacheMod
<1>11. CASE \/ pager_playback(c) \/ pager_playback_one_page(c)
            \/ PlaybackDone(c)
  <2>1. /\ pc[c] \in {"playback", "play"} /\ jrnl' = jrnl
        /\ tx'[c].jfd = tx[c].jfd
        /\ \/ eState'[c] = "ERROR" /\ pc'[c] = "idle"
           \/ eState'[c] = eState[c] /\ pc'[c] \in {"play", "end"}
    <3>1. CASE pager_playback(c)
      <4> DEFINE n == IF PlaysToFile(c) THEN jrnl.nRec ELSE Len(jrnl.recs)
                 s == jrnl.mxPg
      <4>1. tx' = tx \/ tx' = [tx EXCEPT ![c].dbSize = s, ![c].pos = 1,
                                        ![c].n = n]
        BY <3>1 DEF pager_playback
      <4> HIDE DEF n, s
      <4>2. tx'[c].jfd = tx[c].jfd
        <5>1. CASE tx' = [tx EXCEPT ![c].dbSize = s, ![c].pos = 1, ![c].n = n]
          <6>1. tx'[c] = [tx[c] EXCEPT !.dbSize = s, !.pos = 1, !.n = n]
            BY <1>0, <5>1
          <6> QED  BY <1>0, <6>1 DEF TxType
        <5> QED  BY <4>1, <5>1
      <4> QED  BY <1>0, <3>1, <4>2 DEF pager_playback, ToError, Goto
    <3>2. CASE pager_playback_one_page(c)
      <4>1. tx' = tx \/ tx' = [tx EXCEPT ![c].pos = @ + 1]
            \/ \E S : tx' = [tx EXCEPT ![c].pos = @ + 1, ![c].dirty = @ \ S]
        BY <3>2 DEF pager_playback_one_page
      <4>2. tx'[c].jfd = tx[c].jfd
        BY <1>0, <4>1 DEF TxType
      <4> QED  BY <1>0, <3>2, <4>2 DEF pager_playback_one_page, ToError, Goto
    <3>3. CASE PlaybackDone(c)
      BY <1>0, <3>3 DEF PlaybackDone, ToError, Goto, diskVars
    <3> QED  BY <1>11, <3>1, <3>2, <3>3
  <2>2. eState[c] # "READER"
    BY <1>0, <2>1 DEF Matches, Writer, CacheMod
  <2> QED  BY <2>1, <2>2 DEF NoneLeft, HasJournal, CacheMod
<1>12. CASE FinalizeJournal(c)
  <2>1. /\ pc[c] = "end" /\ pc'[c] = "unlock" /\ eState' = eState
        /\ \/ jrnl' = IF tx[c].jfd THEN NoJournal ELSE jrnl
           \/ tx'[c].rc = "IOERR"
    BY <1>0, <1>12 DEF FinalizeJournal, Goto, TxType
  <2>2. eState[c] # "READER" /\ jrnl'.hdr \in {jrnl.hdr, "absent"}
    BY <1>0, <1>12, <2>1
       DEF FinalizeJournal, NoJournal, Matches, Writer, CacheMod
  <2> QED  BY <2>1, <2>2 DEF NoneLeft, HasJournal
<1>13. CASE EndTransaction(c)
  <2>1. /\ pc[c] = "unlock" /\ jrnl' = jrnl
        /\ \/ eState'[c] = "ERROR" /\ pc'[c] = "idle"
           \/ /\ tx[c].rc = "OK" /\ eState'[c] \in {"OPEN", "READER"}
              /\ pc'[c] \in {"vers", "done"}
    BY <1>0, <1>13 DEF EndTransaction, ToError, Goto, diskVars
  <2> QED  BY <2>1 DEF NoneLeft, HasJournal, CacheMod
<1> QED
  BY <1>1, <1>2, <1>3, <1>4, <1>5, <1>6, <1>7, <1>8, <1>9, <1>10, <1>11,
     <1>12, <1>13 DEF PagerStep, Finish, Work

(* With a probe that reports what it found, and unless another connection  *)
(* takes the file in between, the journal that a failed or dead            *)
(* transaction left is gone before a read transaction begins.              *)
THEOREM NoJournalLeft ==
    ASSUME Alone, Vfs = "os_verix"
    PROVE  Spec => []LeftJournalRolledBack
<1> DEFINE LeftInv == TypeInv /\ \A c \in Conn : NoneLeft(c)
<1>1. Init => LeftInv
  BY TypeInit DEF Init, NoneLeft, HasJournal, CacheMod
<1>2. LeftInv /\ [Next]_vars => LeftInv'
  <2> SUFFICES ASSUME LeftInv, [Next]_vars PROVE LeftInv'
    OBVIOUS
  <2>1. TypeInv'
    BY TypeNext
  <2>2. CASE Next
    <3>1. PICK c \in Conn : PagerStep(c) \/ Finish(c) \/ Work(c) \/ Crash(c)
      BY <2>2 DEF Next
    <3>2. NoneLeft(c)'
      BY <3>1, StepTypes, NoneLeftStep
    <3> QED  BY <2>1, <3>2 DEF Alone
  <2>3. CASE UNCHANGED vars
    BY <2>1, <2>3 DEF vars, NoneLeft, HasJournal
  <2> QED  BY <2>2, <2>3
<1>3. LeftInv => LeftJournalRolledBack
  <2> SUFFICES ASSUME LeftInv, NEW c \in Conn, Mode(c) = "read"
               PROVE  ~Orphan
    BY DEF LeftJournalRolledBack
  <2>1. eState[c] = "READER"
    BY DEF Mode
  <2>2. jrnl.hdr = "absent"
    BY <2>1 DEF NoneLeft, NoJournal
  <2> QED  BY <2>2 DEF Orphan
<1> QED  BY <1>1, <1>2, <1>3, PTL DEF Spec

-----------------------------------------------------------------------------
(* One connection, and reads that do not fail.                             *)
Steady ==
    /\ Alone /\ "read" \notin FaultKinds
    /\ FreshNonce \/ Vfs = "os_verix"

\* The journal as a later process finds it.
JournalSound ==
    /\ jrnl.hdr # "valid" => jrnl.nRec = 0
    /\ jrnl.hdr = "valid" => jrnl.mxPg <= Len(dbf)
    /\ \A i \in 1 .. jrnl.nRec :
           /\ jrnl.recs[i].cksum = jrnl.cksumInit
           /\ jrnl.recs[i].pg <= jrnl.mxPg
           /\ \A k \in 1 .. jrnl.nRec :
                  jrnl.recs[i].pg = jrnl.recs[k].pg => i = k

\* The journal of a transaction: one record for each journalled page, with
\* its original content.
RecordsSound(c) ==
    /\ jrnl.mxPg = tx[c].dbOrigSize
    /\ eState[c] \in DbMod => jrnl.hdr = "valid" /\ jrnl.nRec = Records(c)
    /\ eState[c] = "WRITER_CACHEMOD" =>
           jrnl.nRec = 0 /\ tx[c].dbOrigSize = Len(dbf)
    /\ \A i \in 1 .. Records(c) :
           /\ jrnl.recs[i].cksum = jrnl.cksumInit
           /\ jrnl.recs[i].pg \in tx[c].inJournal
           /\ eState[c] = "WRITER_CACHEMOD" =>
                  jrnl.recs[i].data = dbf[jrnl.recs[i].pg]
           /\ \A k \in 1 .. Records(c) :
                  jrnl.recs[i].pg = jrnl.recs[k].pg => i = k
    /\ \A p \in tx[c].inJournal :
           \E i \in 1 .. Records(c) : jrnl.recs[i].pg = p

\* Outside the pages in S the cache holds what the file holds.
Agrees(pages, file, S) ==
    \A p \in Page \ S :
        pages[p] # NotCached /\ p <= Len(file) => pages[p] = file[p]

\* No page beyond the n-th is cached.
Within(pages, n) == \A p \in Page : pages[p] # NotCached => p <= n

\* The pages of c that wait for records pos .. Records(c) of the journal.
Waiting(c) == {jrnl.recs[i].pg : i \in tx[c].pos .. Records(c)}

\* The first m records are back in the file.
Restored(m) ==
    /\ Len(dbf) = jrnl.mxPg
    /\ \A i \in 1 .. jrnl.nRec :
           i <= m => dbf[jrnl.recs[i].pg] = jrnl.recs[i].data

\* A write transaction before its commit.
WorkSound(c) ==
    /\ tx[c].inJournal \subseteq tx[c].dirty
    /\ \A p \in tx[c].dirty :
           /\ p <= tx[c].dbSize
           /\ p <= tx[c].dbOrigSize => p \in tx[c].inJournal
    /\ \A p \in Page :
           p > tx[c].dbOrigSize /\ p <= tx[c].dbSize => p \in tx[c].dirty
    /\ Within(cache[c], tx[c].dbSize)

\* The commit writes the pages in todo.
PagesSound(c) ==
    /\ Agrees(cache[c], dbf, tx[c].todo)
    /\ \A p \in tx[c].todo :
           /\ p <= tx[c].dbSize
           /\ p <= tx[c].dbOrigSize => p \in tx[c].inJournal
    /\ \A p \in Page :
           p > Len(dbf) /\ p <= tx[c].dbSize => p \in tx[c].todo
    /\ Len(dbf) <= tx[c].dbSize

\* The playback of a journal, of c's own or of one that it found.
PlaySound(c) ==
    /\ tx[c].dbSize = jrnl.mxPg
    /\ Agrees(cache[c], dbf, Waiting(c))
    /\ tx[c].n = IF PlaysToFile(c) THEN jrnl.nRec ELSE Len(jrnl.recs)
    /\ PlaysToFile(c) => jrnl.hdr = "valid" /\ Restored(tx[c].pos - 1)
    /\ isHot(c) /\ tx[c].n > 0 => cache[c] = EmptyCache

CacheSound(c) ==
    /\ eState[c] = "WRITER_DBMOD" => pc[c] # "idle"
    /\ eState[c] = "WRITER_FINISHED" => pc[c] \in {"end", "unlock"}
    /\ eState[c] \in {"OPEN", "READER", "WRITER_LOCKED"}
       \/ pc[c] \in {"end", "unlock"} => Agrees(cache[c], dbf, {})
    /\ eState[c] = "WRITER_CACHEMOD" /\ pc[c] \in {"idle", "jpage", "sync"} =>
           WorkSound(c)
    /\ eState[c] = "WRITER_CACHEMOD"
       /\ pc[c] \in {"idle", "jpage", "sync", "err", "playback"} =>
           Agrees(cache[c], dbf, tx[c].inJournal)
    /\ eState[c] = "WRITER_DBMOD" /\ pc[c] \in {"err", "playback"} =>
           Agrees(cache[c], dbf,
                  tx[c].inJournal \cup (tx[c].dbOrigSize + 1 .. MaxPage))
    /\ pc[c] = "pages" => PagesSound(c)
    /\ pc[c] = "play" => PlaySound(c)
    /\ pc[c] = "end" /\ PlaysToFile(c) /\ eState[c] # "WRITER_FINISHED"
       /\ jrnl.hdr = "valid" => Restored(jrnl.nRec)
    /\ eState[c] = "READER" \/ (eState[c] \in Writer
                                /\ pc[c] \in {"end", "unlock"}) =>
           tx[c].dbSize = Len(dbf)
    /\ eState[c] = "WRITER_LOCKED" =>
           tx[c].dbSize = Len(dbf) /\ tx[c].dbOrigSize = Len(dbf)
    /\ \/ eState[c] \in {"OPEN", "READER", "WRITER_LOCKED"}
          /\ pc[c] \notin {"play", "end"}
       \/ pc[c] = "unlock"
       => Within(cache[c], Len(dbf))
    /\ eState[c] = "OPEN" /\ pc[c] = "end" =>
           tx[c].dbSize <= Len(dbf) \/ Within(cache[c], Len(dbf))

SafeInv ==
    /\ OwnInv
    /\ JournalSound
    /\ \A c \in Conn :
           /\ CacheSound(c)
           /\ HasJournal(c) => RecordsSound(c)
           /\ Vfs = "os_verix" => NoneLeft(c)
-----------------------------------------------------------------------------
(* What a step of c must be for the invariant to survive it.               *)
SafeStep(c) ==
    JournalSound' /\ CacheSound(c)' /\ (HasJournal(c) => RecordsSound(c))'

(* What the invariant says of one connection.                              *)
LEMMA SafeOf ==
    ASSUME SafeInv, NEW c \in Conn
    PROVE  /\ TypeInv /\ OwnInv /\ DiskOK /\ JournalSound
           /\ CacheSound(c) /\ (HasJournal(c) => RecordsSound(c))
           /\ ForeignOK(c) /\ Matches(eState[c], pc[c], eLock[c])
           /\ eState \in [Conn -> EState] /\ pc \in [Conn -> PC]
           /\ tx \in [Conn -> TxType] /\ cache \in [Conn -> Pages]
           /\ eState[c] \in EState /\ pc[c] \in PC
           /\ tx[c] \in TxType /\ cache[c] \in Pages
           /\ TxOK(eState[c], pc[c], tx[c], cache[c], vers[c])
           /\ JournalOK(eState[c], pc[c], tx[c], jrnl)
<1>1. TypeInv /\ OwnInv /\ DiskOK
  BY DEF SafeInv, OwnInv, TypeInv
<1> QED
  BY <1>1, InvOf, TypesOf, Untouched
     DEF SafeInv, OwnInv, TypeInv, PagerInv

LEMMA Sizes ==
    ASSUME SafeInv, NEW c \in Conn
    PROVE  /\ jrnl \in JournalType /\ jrnl.recs \in Seq(JournalRecord)
           /\ Len(jrnl.recs) \in Nat /\ jrnl.nRec \in Nat
           /\ jrnl.nRec <= Len(jrnl.recs) /\ jrnl.mxPg \in Nat
           /\ dbf \in Seq(Content) /\ Len(dbf) \in Nat /\ Len(dbf) >= 1
           /\ MaxPage \in Nat /\ Len(dbf) <= MaxPage
           /\ tx[c].dbSize \in Nat /\ tx[c].dbOrigSize \in Nat
           /\ tx[c].dbSize <= MaxPage /\ tx[c].dbOrigSize <= MaxPage
           /\ tx[c].pos \in Nat /\ tx[c].n \in Nat
           /\ Records(c) \in Nat /\ IsFiniteSet(tx[c].inJournal)
           /\ HasJournal(c) => Records(c) <= Len(jrnl.recs)
           /\ tx[c].inJournal \subseteq 1 .. tx[c].dbOrigSize
           /\ \A i \in 1 .. Len(jrnl.recs) : jrnl.recs[i] \in JournalRecord
           /\ \A p \in 1 .. Len(dbf) : dbf[p] \in Content
<1>1. DiskOK /\ tx[c] \in TxType /\ MaxPage \in Nat
      /\ tx[c].inJournal \subseteq 1 .. tx[c].dbOrigSize
  BY SafeOf, PagerAssumption DEF TxOK
<1>2. /\ jrnl \in JournalType /\ jrnl.recs \in Seq(JournalRecord)
      /\ jrnl.mxPg \in Nat /\ dbf \in Seq(Content) /\ Len(dbf) \in Page
      /\ jrnl.nRec \in Nat /\ jrnl.nRec <= Len(jrnl.recs)
  BY <1>1 DEF DiskOK, JournalType
<1>3. /\ tx[c].dbSize \in Nat /\ tx[c].dbOrigSize \in Nat
      /\ tx[c].dbSize <= MaxPage /\ tx[c].dbOrigSize <= MaxPage
      /\ tx[c].pos \in Nat /\ tx[c].n \in Nat
  BY <1>1 DEF TxType
<1>4. IsFiniteSet(tx[c].inJournal) /\ Records(c) \in Nat
  <2>0. tx[c].dbOrigSize \in Int
    BY <1>3
  <2>1. IsFiniteSet(1 .. tx[c].dbOrigSize)
    BY <2>0, FS_Interval
  <2>2. IsFiniteSet(tx[c].inJournal)
    BY <1>1, <2>1, FS_Subset
  <2> QED  BY <2>2, FS_CardinalityType DEF Records
<1>5. HasJournal(c) => Records(c) <= Len(jrnl.recs)
  BY SafeOf DEF JournalOK, HasJournal, Records
<1>6. Len(jrnl.recs) \in Nat /\ Len(dbf) \in Nat /\ Len(dbf) >= 1
      /\ Len(dbf) <= MaxPage
  BY <1>1, <1>2, LenProperties DEF Page
<1>7. /\ \A i \in 1 .. Len(jrnl.recs) : jrnl.recs[i] \in JournalRecord
      /\ \A p \in 1 .. Len(dbf) : dbf[p] \in Content
  BY <1>2, ElementOfSeq
<1> QED  BY <1>1, <1>2, <1>3, <1>4, <1>5, <1>6, <1>7

(* A step that leaves the files and the cache alone, and of the            *)
(* transaction all but a flag.                                             *)
SameTx(t, u) ==
    /\ t.dbSize = u.dbSize /\ t.inJournal = u.inJournal
    /\ t.dirty = u.dirty /\ t.todo = u.todo /\ t.pos = u.pos /\ t.n = u.n

LEMMA QuietRecords ==
    ASSUME NEW c \in Conn, UNCHANGED <<dbf, jrnl>>,
           SameTx(tx'[c], tx[c]), tx'[c].dbOrigSize = tx[c].dbOrigSize,
           eState'[c] = eState[c], RecordsSound(c)
    PROVE  RecordsSound(c)'
<1>1. Records(c)' = Records(c)
  BY DEF Records, SameTx
<1> QED  BY <1>1 DEF RecordsSound, SameTx

(* The start of a transaction, its end, and the start of its rollback.     *)
LEMMA QuietSafe ==
    ASSUME SafeInv, NEW c \in Conn,
           \/ SharedLock(c) \/ hasHotJournal(c) \/ HotLock(c) \/ HotOpen(c)
           \/ BeginWrite(c) \/ BeginBusy(c) \/ CommitNoChange(c)
           \/ Rollback(c) \/ KeepReading(c) \/ EndTransaction(c)
    PROVE  SafeStep(c)
<1>0. /\ Matches(eState[c], pc[c], eLock[c]) /\ CacheSound(c)
      /\ HasJournal(c) => RecordsSound(c)
      /\ JournalSound /\ eState \in [Conn -> EState] /\ pc \in [Conn -> PC]
      /\ tx \in [Conn -> TxType] /\ tx[c] \in TxType
  BY SafeOf
<1>1. UNCHANGED <<dbf, jrnl, cache>> /\ SameTx(tx'[c], tx[c])
  <2>1. CASE HotOpen(c)
    <3>1. /\ UNCHANGED <<dbf, jrnl, cache>>
          /\ tx' = tx \/ tx' = [tx EXCEPT ![c].jfd = TRUE]
      BY <2>1 DEF HotOpen, diskVars
    <3>2. CASE tx' = tx
      BY <3>1, <3>2 DEF SameTx
    <3>3. CASE tx' = [tx EXCEPT ![c].jfd = TRUE]
      <4>1. tx'[c] = [tx[c] EXCEPT !.jfd = TRUE]
        BY <1>0, <3>3
      <4> QED  BY <1>0, <3>1, <4>1 DEF SameTx, TxType
    <3> QED  BY <3>1, <3>2, <3>3
  <2>3. CASE BeginWrite(c)
    BY <1>0, <2>3 DEF BeginWrite, diskVars, SameTx, TxType
  <2>4. CASE EndTransaction(c)
    BY <1>0, <2>4 DEF EndTransaction, diskVars, SameTx, TxType
  <2>2. CASE tx' = tx /\ UNCHANGED <<dbf, jrnl, cache>>
    BY <2>2 DEF SameTx
  <2> QED
    BY <2>1, <2>2, <2>3, <2>4 DEF SharedLock, hasHotJournal, HotLock,
       BeginBusy, CommitNoChange, Rollback, KeepReading, diskVars
<1>2. JournalSound'
  BY <1>0, <1>1 DEF JournalSound
<1>3. CASE SharedLock(c) \/ hasHotJournal(c) \/ HotLock(c) \/ HotOpen(c)
  <2>1. /\ eState[c] = "OPEN" /\ eState'[c] = "OPEN"
        /\ pc'[c] \in {"hot", "excl", "vers", "hotopen", "failed", "playback"}
        /\ pc[c] \notin {"play", "end"}
    BY <1>0, <1>3 DEF SharedLock, hasHotJournal, HotLock, HotOpen, Matches,
       Goto
  <2>2. Agrees(cache[c], dbf, {})' /\ Within(cache[c], Len(dbf))'
    BY <1>0, <1>1, <2>1 DEF CacheSound
  <2> QED
    BY <1>2, <2>1, <2>2 DEF SafeStep, CacheSound, HasJournal, CacheMod,
       Writer
<1>4. CASE BeginWrite(c) \/ BeginBusy(c) \/ KeepReading(c)
  <2>1. /\ eState[c] = "READER"
        /\ \/ eState'[c] = "READER"
           \/ /\ eState'[c] = "WRITER_LOCKED"
              /\ tx'[c].dbOrigSize = tx[c].dbSize
        /\ pc'[c] \in {"idle", "failed"} /\ pc[c] \in {"idle", "done"}
    BY <1>0, <1>4 DEF BeginWrite, BeginBusy, KeepReading, Matches, Goto,
       TxType
  <2>2. /\ Agrees(cache[c], dbf, {})' /\ tx'[c].dbSize = Len(dbf)
        /\ Within(cache[c], Len(dbf))'
    BY <1>0, <1>1, <1>2, <2>1 DEF CacheSound, SameTx
  <2> QED
    BY <1>1, <1>2, <2>1, <2>2 DEF SafeStep, CacheSound, HasJournal,
       CacheMod, Writer, SameTx
<1>5. CASE CommitNoChange(c) \/ Rollback(c)
  <2>1. /\ eState'[c] = eState[c] /\ tx' = tx /\ pc[c] # "unlock"
        /\ \/ eState[c] = "WRITER_LOCKED" /\ pc'[c] = "end"
           \/ /\ eState[c] \in CacheMod /\ pc'[c] = "playback"
              /\ pc[c] \in {"idle", "err"}
    BY <1>0, <1>5 DEF CommitNoChange, Rollback, Goto, Writer
  <2>2. CASE eState[c] = "WRITER_LOCKED"
    <3>1. Agrees(cache[c], dbf, {})' /\ tx'[c].dbSize = Len(dbf)
          /\ tx'[c].dbOrigSize = Len(dbf)
      BY <1>0, <1>1, <2>1, <2>2 DEF CacheSound
    <3> QED
      BY <1>1, <1>2, <2>1, <2>2, <3>1 DEF SafeStep, CacheSound, HasJournal,
         CacheMod, Writer, PlaysToFile, isHot, DbMod
  <2>3. CASE eState[c] \in CacheMod
    <3>1. /\ pc'[c] = "playback" /\ pc[c] \in {"idle", "err"}
          /\ HasJournal(c)
          /\ eState[c] = "WRITER_CACHEMOD"
             \/ (eState[c] = "WRITER_DBMOD" /\ pc[c] = "err")
      BY <1>0, <2>1, <2>3 DEF CacheMod, CacheSound, HasJournal
    <3>2. RecordsSound(c)'
      BY <1>0, <1>1, <2>1, <3>1, QuietRecords
    <3>3. /\ eState'[c] = "WRITER_CACHEMOD" =>
                 Agrees(cache[c], dbf, tx[c].inJournal)'
          /\ eState'[c] = "WRITER_DBMOD" =>
                 Agrees(cache[c], dbf,
                        tx[c].inJournal
                        \cup (tx[c].dbOrigSize + 1 .. MaxPage))'
      BY <1>0, <1>1, <2>1, <3>1 DEF CacheSound
    <3> QED
      BY <1>2, <2>1, <2>3, <3>1, <3>2, <3>3 DEF SafeStep, CacheSound
  <2> QED  BY <2>1, <2>2, <2>3
<1>6. CASE EndTransaction(c)
  <2>1. /\ pc[c] = "unlock"
        /\ \/ eState'[c] = "ERROR" /\ pc'[c] = "idle"
           \/ eState[c] = "OPEN" /\ eState'[c] = "OPEN" /\ pc'[c] = "vers"
           \/ eState[c] # "OPEN" /\ eState'[c] = "READER" /\ pc'[c] = "done"
    BY <1>0, <1>6 DEF EndTransaction, ToError, Goto, isHot
  <2>2. /\ Agrees(cache[c], dbf, {})'
        /\ eState[c] # "OPEN" => tx'[c].dbSize = Len(dbf)
        /\ Within(cache[c], Len(dbf))'
    BY <1>0, <1>1, <1>2, <2>1 DEF CacheSound, Matches, SameTx
  <2> QED
    BY <1>1, <1>2, <2>1, <2>2 DEF SafeStep, CacheSound, HasJournal,
       CacheMod, Writer
<1> QED  BY <1>3, <1>4, <1>5, <1>6

(* Reading, and the ways to a cache that starts again.                     *)
LEMMA ReadSafe ==
    ASSUME SafeInv, "read" \notin FaultKinds, NEW c \in Conn,
           \/ CheckVersion(c) \/ pager_unlock(c) \/ Crash(c)
           \/ \E p \in Page : readDbPage(c, p)
    PROVE  SafeStep(c)
<1>0. /\ Matches(eState[c], pc[c], eLock[c]) /\ CacheSound(c)
      /\ HasJournal(c) => RecordsSound(c)
      /\ JournalSound /\ eState \in [Conn -> EState] /\ pc \in [Conn -> PC]
      /\ tx \in [Conn -> TxType] /\ tx[c] \in TxType
      /\ cache \in [Conn -> Pages] /\ cache[c] \in Pages
  BY SafeOf
<1>1. /\ UNCHANGED <<dbf, jrnl>> /\ JournalSound'
  BY <1>0 DEF CheckVersion, pager_unlock, Crash, readDbPage, diskVars,
     JournalSound
<1>2. CASE CheckVersion(c) \/ pager_unlock(c) \/ Crash(c)
  <2>1. /\ \/ /\ eState[c] \in {"OPEN", "READER"} /\ cache'[c] = cache[c]
              /\ pc[c] \notin {"play", "end"}
           \/ cache'[c] = EmptyCache
        /\ pc'[c] = "idle"
        /\ \/ eState'[c] = "OPEN"
           \/ eState'[c] = "READER" /\ tx'[c].dbSize = Len(dbf)
    <3>1. CASE CheckVersion(c)
      BY <1>0, <3>1 DEF CheckVersion, Goto, Matches, TxType
    <3>2. CASE pager_unlock(c)
      <4>1. eState[c] \in {"OPEN", "READER", "ERROR"}
        BY <1>0, <3>2 DEF pager_unlock, Matches
      <4> QED  BY <1>0, <3>2, <4>1 DEF pager_unlock, Goto
    <3>3. CASE Crash(c)
      BY <1>0, <3>3 DEF Crash
    <3> QED  BY <1>2, <3>1, <3>2, <3>3
  <2>2. Agrees(cache[c], dbf, {})' /\ Within(cache[c], Len(dbf))'
    <3>1. CASE cache'[c] = EmptyCache
      BY <3>1 DEF Agrees, Within, EmptyCache
    <3>2. CASE eState[c] \in {"OPEN", "READER"} /\ cache'[c] = cache[c]
               /\ pc[c] \notin {"play", "end"}
      BY <1>0, <1>1, <3>2 DEF CacheSound
    <3> QED  BY <2>1, <3>1, <3>2
  <2> QED
    BY <1>1, <2>1, <2>2 DEF SafeStep, CacheSound, HasJournal, CacheMod,
       Writer
<1>3. CASE \E p \in Page : readDbPage(c, p)
  <2>1. PICK p \in Page : readDbPage(c, p)
    BY <1>3
  <2>2. /\ cache'[c] = [cache[c] EXCEPT ![p] = PageOnDisk(p)]
        /\ pc[c] = "idle" /\ UNCHANGED <<eState, pc, tx>>
        /\ eState[c] \in {"READER", "WRITER_LOCKED", "WRITER_CACHEMOD"}
        /\ p <= tx[c].dbSize
    BY <1>0, <2>1 DEF readDbPage, Fault
  <2>3. ASSUME NEW S, Agrees(cache[c], dbf, S)
        PROVE  Agrees(cache'[c], dbf', S)
    BY <1>0, <1>1, <2>2, <2>3 DEF Agrees, PageOnDisk, Pages
  <2>w. Within(cache[c], tx[c].dbSize) => Within(cache'[c], tx[c].dbSize)
    BY <1>0, <2>2 DEF Within, Pages
  <2>4. WorkSound(c) => WorkSound(c)'
    BY <2>2, <2>w DEF WorkSound
  <2>5. RecordsSound(c) => RecordsSound(c)'
    BY <1>1, <2>2 DEF RecordsSound, Records
  <2>6. CASE eState[c] = "WRITER_CACHEMOD"
    <3>1. /\ WorkSound(c) /\ RecordsSound(c)
          /\ Agrees(cache[c], dbf, tx[c].inJournal)
      BY <1>0, <2>2, <2>6 DEF CacheSound, HasJournal, CacheMod
    <3>2. Agrees(cache[c], dbf, tx[c].inJournal)'
      BY <2>2, <2>3, <3>1
    <3> QED
      BY <1>1, <2>2, <2>4, <2>5, <2>6, <3>1, <3>2
         DEF SafeStep, CacheSound, Writer, CacheMod
  <2>7. CASE eState[c] \in {"READER", "WRITER_LOCKED"}
    <3>1. /\ Agrees(cache[c], dbf, {}) /\ tx[c].dbSize = Len(dbf)
          /\ eState[c] = "WRITER_LOCKED" => tx[c].dbOrigSize = Len(dbf)
          /\ Within(cache[c], Len(dbf))
      BY <1>0, <2>2, <2>7 DEF CacheSound
    <3>2. Agrees(cache[c], dbf, {})' /\ Within(cache[c], Len(dbf))'
      BY <1>1, <2>3, <2>w, <3>1
    <3> QED
      BY <1>1, <2>2, <2>7, <3>1, <3>2
         DEF SafeStep, CacheSound, HasJournal, Writer, CacheMod
  <2> QED  BY <2>2, <2>6, <2>7
<1> QED  BY <1>2, <1>3

(* A journal is opened and gets its header.                                *)
LEMMA HeaderSafe ==
    ASSUME SafeInv, NEW c \in Conn,
           pager_open_journal(c) \/ writeJournalHdr(c)
    PROVE  SafeStep(c)
<1>0. /\ Matches(eState[c], pc[c], eLock[c]) /\ CacheSound(c)
      /\ JournalSound /\ eState \in [Conn -> EState] /\ pc \in [Conn -> PC]
      /\ tx \in [Conn -> TxType] /\ tx[c] \in TxType /\ jrnl \in JournalType
      /\ Len(dbf) \in Nat /\ jrnl.nRec \in Nat
  BY SafeOf, Sizes
<1>1. /\ eState[c] = "WRITER_LOCKED" /\ UNCHANGED <<dbf, cache>>
      /\ pc[c] \in {"idle", "jhdr"}
  BY <1>0 DEF pager_open_journal, writeJournalHdr, Matches
<1>2. /\ Agrees(cache[c], dbf, {})' /\ tx[c].dbSize = Len(dbf)
      /\ tx[c].dbOrigSize = Len(dbf)
      /\ Within(cache[c], Len(dbf))'
  BY <1>0, <1>1 DEF CacheSound
<1>3. CASE /\ pc'[c] \in {"jhdr", "err"} /\ eState' = eState
           /\ tx'[c].dbSize = tx[c].dbSize
           /\ tx'[c].dbOrigSize = tx[c].dbOrigSize
           /\ JournalSound'
  BY <1>1, <1>2, <1>3 DEF SafeStep, CacheSound, HasJournal, Writer, CacheMod
<1>4. CASE pager_open_journal(c)
  <2>1. JournalSound'
    <3>1. CASE jrnl' = jrnl
      BY <1>0, <1>1, <3>1 DEF JournalSound
    <3>2. CASE jrnl' = [NoJournal EXCEPT !.hdr = "empty"]
      <4>1. jrnl'.hdr = "empty" /\ jrnl'.nRec = 0
        BY <3>2 DEF NoJournal
      <4> QED  BY <4>1 DEF JournalSound
    <3> QED  BY <1>4, <3>1, <3>2 DEF pager_open_journal
  <2>2. /\ pc'[c] \in {"jhdr", "err"} /\ eState' = eState
        /\ tx'[c].dbSize = tx[c].dbSize
        /\ tx'[c].dbOrigSize = tx[c].dbOrigSize
    BY <1>0, <1>4 DEF pager_open_journal, Goto, TxType
  <2> QED  BY <1>3, <2>1, <2>2
<1>5. CASE writeJournalHdr(c)
  <2>1. tx' = tx /\ tx[c].inJournal = {} /\ tx[c].dirty = {}
    BY <1>1, <1>5, SafeOf DEF writeJournalHdr, TxOK
  <2>2. CASE /\ \E init \in Drawn :
                    jrnl' = [hdr |-> "zeroed", nRec |-> 0,
                             cksumInit |-> init, mxPg |-> tx[c].dbOrigSize,
                             recs |-> jrnl.recs]
             /\ eState' = [eState EXCEPT ![c] = "WRITER_CACHEMOD"]
             /\ pc' = [pc EXCEPT ![c] = "jpage"]
    <3>1. /\ jrnl'.hdr = "zeroed" /\ jrnl'.nRec = 0
          /\ jrnl'.mxPg = tx[c].dbOrigSize
          /\ eState'[c] = "WRITER_CACHEMOD" /\ pc'[c] = "jpage"
      BY <1>0, <2>2
    <3>2. JournalSound'
      BY <3>1 DEF JournalSound
    <3>3. Records(c)' = 0
      BY <2>1, FS_EmptySet DEF Records
    <3>4. RecordsSound(c)'
      BY <1>1, <1>2, <2>1, <3>1, <3>3 DEF RecordsSound, DbMod
    <3>5. WorkSound(c)'
      <4>1. /\ tx'[c].dbSize = Len(dbf) /\ tx'[c].dbOrigSize = Len(dbf)
            /\ tx'[c].dirty = {} /\ tx'[c].inJournal = {}
            /\ Within(cache'[c], tx'[c].dbSize)
        BY <1>1, <1>2, <2>1
      <4> QED  BY <1>0, <4>1 DEF WorkSound, Page
    <3>6. Agrees(cache[c], dbf, tx[c].inJournal)'
      BY <1>2, <2>1
    <3> QED
      BY <3>1, <3>2, <3>4, <3>5, <3>6
         DEF SafeStep, CacheSound, Writer, CacheMod
  <2>3. CASE /\ jrnl' \in {jrnl, IF jrnl.hdr # "valid" THEN jrnl
                                 ELSE [jrnl EXCEPT !.hdr = "zeroed",
                                                   !.nRec = 0]}
             /\ pc' = [pc EXCEPT ![c] = "err"] /\ eState' = eState
    <3>1. JournalSound'
      <4>1. CASE jrnl' = jrnl
        BY <1>0, <1>1, <4>1 DEF JournalSound
      <4>2. CASE jrnl' = [jrnl EXCEPT !.hdr = "zeroed", !.nRec = 0]
        <5>1. jrnl'.hdr = "zeroed" /\ jrnl'.nRec = 0
          BY <1>0, <4>2 DEF JournalType
        <5> QED  BY <5>1 DEF JournalSound
      <4> QED  BY <2>3, <4>1, <4>2
    <3>2. pc'[c] = "err"
      BY <1>0, <2>3
    <3> QED  BY <1>3, <2>1, <2>3, <3>1, <3>2
  <2> QED  BY <1>5, <2>2, <2>3 DEF writeJournalHdr, Goto
<1> QED  BY <1>4, <1>5

(* A page is changed, after its original content has been journalled.      *)
LEMMA WriteSafe ==
    ASSUME SafeInv, NEW c \in Conn,
           pager_incr_changecounter(c) \/ \E p \in Page : WritePage(c, p)
    PROVE  SafeStep(c)
<1>0. /\ TypeInv /\ CacheSound(c)
      /\ HasJournal(c) => RecordsSound(c)
      /\ JournalSound /\ eState \in [Conn -> EState] /\ pc \in [Conn -> PC]
      /\ tx \in [Conn -> TxType] /\ tx[c] \in TxType
      /\ cache \in [Conn -> Pages] /\ cache[c] \in Pages
  BY SafeOf
<1>1. /\ HasJournal(c) /\ eState[c] = "WRITER_CACHEMOD"
      /\ pc[c] \in {"idle", "jpage"} /\ UNCHANGED <<dbf, eState>>
  BY <1>0, PageWrites
<1>2. PICK p, content, next :
          /\ p \in Page /\ pager_write(c, p, content, next)
          /\ p <= tx[c].dbOrigSize => cache[c][p] # NotCached
          /\ next \in {"sync", "idle"}
          /\ p = 1 \/ p = tx[c].dbSize + 1 \/ cache[c][p] # NotCached
  BY <1>0, PageWrites DEF Writable
<1>3. /\ RecordsSound(c) /\ WorkSound(c)
      /\ Agrees(cache[c], dbf, tx[c].inJournal)
      /\ jrnl.nRec = 0 /\ tx[c].dbOrigSize = Len(dbf)
      /\ jrnl.mxPg = tx[c].dbOrigSize
  BY <1>0, <1>1 DEF CacheSound, RecordsSound
<1>4. /\ jrnl'.hdr = jrnl.hdr /\ jrnl'.nRec = jrnl.nRec
      /\ jrnl'.cksumInit = jrnl.cksumInit /\ jrnl'.mxPg = jrnl.mxPg
      /\ Records(c) \in 0 .. Len(jrnl.recs)
      /\ \A i \in 1 .. Records(c) : jrnl'.recs[i] = jrnl.recs[i]
  BY <1>0, <1>1, <1>2, WriteEffect
<1>5. JournalSound'
  <2>1. jrnl'.nRec = 0 /\ (jrnl'.hdr = "valid" => jrnl'.mxPg <= Len(dbf'))
    BY <1>0, <1>1, <1>3, <1>4 DEF JournalSound
  <2> QED  BY <2>1 DEF JournalSound
<1>n. /\ Records(c) \in Nat /\ Len(dbf) \in Nat /\ tx[c].dbSize \in Nat
      /\ tx[c].dbOrigSize \in Nat /\ p \in Nat
      /\ tx[c].inJournal \subseteq 1 .. tx[c].dbOrigSize
  BY <1>2, Sizes DEF Page
<1>6. /\ tx'[c].dbOrigSize = tx[c].dbOrigSize
      /\ \/ /\ pc'[c] = next /\ cache'[c] = [cache[c] EXCEPT ![p] = content]
            /\ tx'[c].dirty = tx[c].dirty \cup {p}
            /\ tx'[c].dbSize = IF p > tx[c].dbSize THEN p ELSE tx[c].dbSize
            /\ tx'[c].inJournal = IF NeedsRecord(c, p)
                                  THEN tx[c].inJournal \cup {p}
                                  ELSE tx[c].inJournal
         \/ /\ pc'[c] = "err" /\ cache'[c] = cache[c]
            /\ tx'[c].inJournal = tx[c].inJournal
  <2> DEFINE own == IF NeedsRecord(c, p) THEN tx[c].inJournal \cup {p}
                    ELSE tx[c].inJournal
             size == IF p > tx[c].dbSize THEN p ELSE tx[c].dbSize
             t == [tx[c] EXCEPT !.inJournal = own, !.dbSize = size,
                                !.dirty = tx[c].dirty \cup {p}]
             u == [tx[c] EXCEPT !.dirty = tx[c].dirty \cup {p}]
  <2>1. \/ tx' = [tx EXCEPT ![c] = t] /\ pc'[c] = next
           /\ cache'[c] = [cache[c] EXCEPT ![p] = content]
        \/ tx' = [tx EXCEPT ![c] = u] /\ pc'[c] = "err"
           /\ cache'[c] = cache[c]
    <3>1. CASE /\ tx' = [tx EXCEPT
                            ![c].inJournal = IF NeedsRecord(c, p)
                                             THEN @ \cup {p} ELSE @,
                            ![c].dirty = @ \cup {p},
                            ![c].dbSize = IF p > @ THEN p ELSE @]
               /\ cache' = [cache EXCEPT ![c][p] = content]
               /\ pc' = [pc EXCEPT ![c] = next]
      <4>1. tx' = [tx EXCEPT ![c] = t]
        BY <3>1
      <4>2. cache'[c] = [cache[c] EXCEPT ![p] = content] /\ pc'[c] = next
        BY <1>0, <3>1
      <4> QED  BY <4>1, <4>2
    <3>2. CASE /\ tx' = [tx EXCEPT ![c].dirty = @ \cup {p}]
               /\ pc' = [pc EXCEPT ![c] = "err"] /\ cache' = cache
      <4>1. tx' = [tx EXCEPT ![c] = u]
        BY <3>2
      <4>2. cache'[c] = cache[c] /\ pc'[c] = "err"
        BY <1>0, <3>2
      <4> QED  BY <4>1, <4>2
    <3> QED  BY <1>2, <3>1, <3>2 DEF pager_write, Goto
  <2> HIDE DEF own, size
  <2>2. /\ t.dbOrigSize = tx[c].dbOrigSize /\ t.inJournal = own
        /\ t.dbSize = size /\ t.dirty = tx[c].dirty \cup {p}
        /\ u.dbOrigSize = tx[c].dbOrigSize
        /\ u.inJournal = tx[c].inJournal
    BY <1>0 DEF TxType
  <2> HIDE DEF t, u
  <2>3. tx'[c] = t \/ tx'[c] = u
    BY <1>0, <2>1
  <2> QED  BY <1>0, <2>1, <2>2 DEF own, size
<1>7. RecordsSound(c)'
  <2>0. /\ \A i \in 1 .. Records(c) :
               /\ jrnl.recs[i].cksum = jrnl.cksumInit
               /\ jrnl.recs[i].pg \in tx[c].inJournal
               /\ jrnl.recs[i].data = dbf[jrnl.recs[i].pg]
               /\ \A k \in 1 .. Records(c) :
                      jrnl.recs[i].pg = jrnl.recs[k].pg => i = k
        /\ \A q \in tx[c].inJournal :
               \E i \in 1 .. Records(c) : jrnl.recs[i].pg = q
    BY <1>1, <1>3 DEF RecordsSound
  <2>a. /\ jrnl'.nRec = 0 /\ tx'[c].dbOrigSize = Len(dbf')
        /\ jrnl'.mxPg = tx'[c].dbOrigSize /\ eState'[c] = "WRITER_CACHEMOD"
    BY <1>1, <1>3, <1>4, <1>6
  <2>1. CASE tx'[c].inJournal = tx[c].inJournal
    <3>1. Records(c)' = Records(c)
      BY <2>1 DEF Records
    <3>2. ASSUME NEW i \in 1 .. Records(c)
          PROVE  /\ jrnl'.recs[i] = jrnl.recs[i]
                 /\ jrnl'.recs[i].cksum = jrnl'.cksumInit
                 /\ jrnl'.recs[i].pg \in tx'[c].inJournal
                 /\ jrnl'.recs[i].data = dbf'[jrnl'.recs[i].pg]
      BY <1>1, <1>4, <2>0, <2>1
    <3>3. /\ \A i, k \in 1 .. Records(c) :
                 jrnl'.recs[i].pg = jrnl'.recs[k].pg => i = k
          /\ \A q \in tx'[c].inJournal :
                 \E i \in 1 .. Records(c) : jrnl'.recs[i].pg = q
      BY <2>0, <2>1, <3>2, SMTT(20)
    <3> QED
      BY <2>a, <3>1, <3>2, <3>3 DEF RecordsSound, DbMod
  <2>2. CASE /\ NeedsRecord(c, p)
             /\ tx'[c].inJournal = tx[c].inJournal \cup {p}
             /\ Records(c)' = Records(c) + 1
             /\ jrnl'.recs[Records(c) + 1] =
                    [pg |-> p, data |-> cache[c][p], cksum |-> jrnl.cksumInit]
    <3> DEFINE m == Records(c)
    <3>1. /\ p \notin tx[c].inJournal /\ p <= Len(dbf)
          /\ cache[c][p] = dbf[p]
      BY <1>2, <1>3, <2>2 DEF NeedsRecord, Agrees
    <3>2. ASSUME NEW i \in 1 .. m + 1
          PROVE  /\ jrnl'.recs[i].cksum = jrnl.cksumInit
                 /\ jrnl'.recs[i].pg \in tx'[c].inJournal
                 /\ jrnl'.recs[i].data = dbf[jrnl'.recs[i].pg]
                 /\ i <= m <=> jrnl'.recs[i].pg # p
      <4>1. CASE i = m + 1
        BY <1>n, <2>2, <3>1, <4>1
      <4>2. CASE i # m + 1
        <5>1. i \in 1 .. m
          BY <1>n, <4>2
        <5>2. jrnl'.recs[i] = jrnl.recs[i] /\ i <= m
          BY <1>4, <1>n, <5>1
        <5>3. /\ jrnl.recs[i].cksum = jrnl.cksumInit
              /\ jrnl.recs[i].pg \in tx[c].inJournal
              /\ jrnl.recs[i].data = dbf[jrnl.recs[i].pg]
          BY <2>0, <5>1
        <5> QED  BY <2>2, <3>1, <5>2, <5>3
      <4> QED  BY <4>1, <4>2
    <3>3. ASSUME NEW i \in 1 .. m + 1, NEW k \in 1 .. m + 1,
                 jrnl'.recs[i].pg = jrnl'.recs[k].pg
          PROVE  i = k
      <4>1. i <= m <=> k <= m
        BY <3>2, <3>3
      <4>2. CASE i <= m
        <5>1. i \in 1 .. m /\ k \in 1 .. m
          BY <1>n, <4>1, <4>2
        <5>2. jrnl.recs[i].pg = jrnl.recs[k].pg
          BY <1>4, <3>3, <5>1
        <5> QED  BY <2>0, <5>1, <5>2
      <4>3. CASE ~(i <= m)
        BY <1>n, <4>1, <4>3
      <4> QED  BY <4>2, <4>3
    <3>4. ASSUME NEW q \in tx'[c].inJournal
          PROVE  \E i \in 1 .. m + 1 : jrnl'.recs[i].pg = q
      <4>1. CASE q = p
        <5>1. m + 1 \in 1 .. m + 1 /\ jrnl'.recs[m + 1].pg = q
          BY <1>n, <2>2, <4>1
        <5> QED  BY <5>1
      <4>2. CASE q \in tx[c].inJournal
        <5>1. PICK i \in 1 .. m : jrnl.recs[i].pg = q
          BY <2>0, <4>2
        <5>2. i \in 1 .. m + 1 /\ jrnl'.recs[i].pg = q
          BY <1>4, <1>n, <5>1
        <5> QED  BY <5>2
      <4> QED  BY <2>2, <3>4, <4>1, <4>2
    <3> QED
      BY <1>1, <1>4, <2>2, <2>a, <3>2, <3>3, <3>4 DEF RecordsSound, DbMod
  <2> QED  BY <1>0, <1>1, <1>2, <2>1, <2>2, WriteEffect
<1>8. Agrees(cache'[c], dbf', tx'[c].inJournal)
  <2>1. CASE cache'[c] = cache[c] /\ tx'[c].inJournal = tx[c].inJournal
    BY <1>1, <1>3, <2>1
  <2>2. CASE /\ cache'[c] = [cache[c] EXCEPT ![p] = content]
             /\ tx'[c].inJournal = IF NeedsRecord(c, p)
                                   THEN tx[c].inJournal \cup {p}
                                   ELSE tx[c].inJournal
    <3> SUFFICES ASSUME NEW q \in Page \ tx'[c].inJournal,
                        cache'[c][q] # NotCached, q <= Len(dbf)
                 PROVE  cache'[c][q] = dbf[q]
      BY <1>1 DEF Agrees
    <3>1. q \notin tx[c].inJournal
      BY <2>2
    <3>2. q # p
      <4>1. ASSUME q = p PROVE FALSE
        <5>1. NeedsRecord(c, p)
          BY <1>3, <3>1, <4>1 DEF NeedsRecord
        <5> QED  BY <2>2, <4>1, <5>1
      <4> QED  BY <4>1
    <3>3. cache'[c][q] = cache[c][q]
      BY <1>0, <2>2, <3>2 DEF Pages
    <3> QED  BY <1>3, <3>1, <3>3 DEF Agrees
  <2> QED  BY <1>6, <2>1, <2>2
<1>9. pc'[c] # "err" => WorkSound(c)'
  <2> SUFFICES ASSUME pc'[c] # "err" PROVE WorkSound(c)'
    OBVIOUS
  <2>1. /\ tx'[c].dirty = tx[c].dirty \cup {p}
        /\ tx'[c].dbSize = IF p > tx[c].dbSize THEN p ELSE tx[c].dbSize
        /\ tx'[c].inJournal = IF NeedsRecord(c, p)
                              THEN tx[c].inJournal \cup {p}
                              ELSE tx[c].inJournal
        /\ tx'[c].dbOrigSize = tx[c].dbOrigSize
    BY <1>6
  <2>2. tx'[c].inJournal \subseteq tx'[c].dirty
    BY <1>3, <2>1 DEF WorkSound
  <2>3. ASSUME NEW q \in tx'[c].dirty
        PROVE  /\ q <= tx'[c].dbSize
               /\ q <= tx'[c].dbOrigSize => q \in tx'[c].inJournal
    <3>1. CASE q = p
      BY <1>n, <2>1, <3>1 DEF NeedsRecord
    <3>2. CASE q \in tx[c].dirty
      <4>1. /\ q <= tx[c].dbSize /\ q \in Nat
            /\ q <= tx[c].dbOrigSize => q \in tx[c].inJournal
        BY <1>0, <1>3, <3>2 DEF WorkSound, TxType, Page
      <4> QED  BY <1>n, <2>1, <4>1
    <3> QED  BY <2>1, <2>3, <3>1, <3>2
  <2>4. ASSUME NEW q \in Page, q > tx'[c].dbOrigSize, q <= tx'[c].dbSize
        PROVE  q \in tx'[c].dirty
    <3>1. CASE q <= tx[c].dbSize
      BY <1>3, <2>1, <2>4, <3>1 DEF WorkSound
    <3>2. CASE ~(q <= tx[c].dbSize)
      <4>1. p > tx[c].dbSize /\ tx'[c].dbSize = p /\ q \in Nat
        BY <1>n, <2>1, <2>4, <3>2 DEF Page
      <4>2. p = tx[c].dbSize + 1
        <5>1. CASE p = 1
          BY <1>n, <4>1, <5>1
        <5>2. CASE cache[c][p] # NotCached /\ p # tx[c].dbSize + 1
          BY <1>2, <1>3, <1>n, <4>1, <5>2 DEF WorkSound, Within
        <5> QED  BY <1>2, <5>1, <5>2
      <4> QED  BY <1>n, <2>1, <2>4, <3>2, <4>1, <4>2
    <3> QED  BY <3>1, <3>2
  <2>5. Within(cache'[c], tx'[c].dbSize)
    <3> SUFFICES ASSUME NEW q \in Page, cache'[c][q] # NotCached
                 PROVE  q <= tx'[c].dbSize
      BY DEF Within
    <3>1. CASE q = p
      BY <1>n, <2>1, <3>1
    <3>2. CASE q # p
      <4>1. cache'[c][q] = cache[c][q]
        BY <1>0, <1>6, <3>2 DEF Pages
      <4>2. q <= tx[c].dbSize /\ q \in Nat
        BY <1>3, <4>1 DEF WorkSound, Within, Page
      <4> QED  BY <1>n, <2>1, <4>2
    <3> QED  BY <3>1, <3>2
  <2> QED  BY <2>2, <2>3, <2>4, <2>5 DEF WorkSound
<1> QED
  BY <1>1, <1>2, <1>5, <1>6, <1>7, <1>8, <1>9
     DEF SafeStep, CacheSound, Writer, CacheMod

(* The journal is complete, and the commit may begin to write pages.       *)
LEMMA SyncSafe ==
    ASSUME SafeInv, NEW c \in Conn, syncJournal(c)
    PROVE  SafeStep(c)
<1>0. /\ CacheSound(c) /\ JournalSound
      /\ HasJournal(c) => RecordsSound(c)
      /\ eState \in [Conn -> EState] /\ pc \in [Conn -> PC]
      /\ tx \in [Conn -> TxType] /\ tx[c] \in TxType
      /\ TxOK(eState[c], pc[c], tx[c], cache[c], vers[c])
  BY SafeOf
<1>n. /\ jrnl \in JournalType /\ Len(dbf) \in Nat /\ Records(c) \in Nat
      /\ tx[c].dbSize \in Nat /\ tx[c].dbOrigSize \in Nat
      /\ tx[c].inJournal \subseteq 1 .. tx[c].dbOrigSize
      /\ Records(c) = Cardinality(tx[c].inJournal)
  BY Sizes DEF Records
<1>1. /\ pc[c] = "sync" /\ eState[c] = "WRITER_CACHEMOD"
      /\ UNCHANGED <<dbf, cache>>
  BY SafeOf DEF syncJournal, Matches
<1>2. /\ WorkSound(c) /\ RecordsSound(c)
      /\ Agrees(cache[c], dbf, tx[c].inJournal)
      /\ tx[c].dbOrigSize = Len(dbf) /\ jrnl.mxPg = Len(dbf)
      /\ jrnl.nRec = 0 /\ tx[c].dbOrigSize <= tx[c].dbSize
  BY <1>0, <1>1 DEF CacheSound, RecordsSound, HasJournal, CacheMod, TxOK,
     Writer, Working
<1>3. /\ \A i \in 1 .. Records(c) :
             /\ jrnl.recs[i].cksum = jrnl.cksumInit
             /\ jrnl.recs[i].pg \in tx[c].inJournal
             /\ jrnl.recs[i].data = dbf[jrnl.recs[i].pg]
             /\ \A k \in 1 .. Records(c) :
                    jrnl.recs[i].pg = jrnl.recs[k].pg => i = k
      /\ \A p \in tx[c].inJournal :
             \E i \in 1 .. Records(c) : jrnl.recs[i].pg = p
  BY <1>1, <1>2 DEF RecordsSound
<1>4. CASE /\ jrnl' = [jrnl EXCEPT !.hdr = "valid",
                                   !.nRec = Cardinality(tx[c].inJournal)]
           /\ eState' = [eState EXCEPT ![c] = "WRITER_DBMOD"]
           /\ tx' = [tx EXCEPT ![c].todo = tx[c].dirty]
           /\ pc' = [pc EXCEPT ![c] = "pages"]
  <2>1. /\ jrnl'.hdr = "valid" /\ jrnl'.nRec = Records(c)
        /\ jrnl'.recs = jrnl.recs /\ jrnl'.mxPg = jrnl.mxPg
        /\ jrnl'.cksumInit = jrnl.cksumInit
        /\ eState'[c] = "WRITER_DBMOD" /\ pc'[c] = "pages"
    BY <1>0, <1>n, <1>4 DEF JournalType
  <2>2. /\ tx'[c].todo = tx[c].dirty /\ tx'[c].dbSize = tx[c].dbSize
        /\ tx'[c].dbOrigSize = tx[c].dbOrigSize
        /\ tx'[c].inJournal = tx[c].inJournal
    BY <1>0, <1>4 DEF TxType
  <2>3. Records(c)' = Records(c)
    BY <2>2 DEF Records
  <2>4. JournalSound'
    <3>1. \A i \in 1 .. Records(c) : jrnl.recs[i].pg <= Len(dbf)
      BY <1>n, <1>2, <1>3
    <3> QED  BY <1>1, <1>n, <1>2, <1>3, <2>1, <3>1 DEF JournalSound
  <2>5. RecordsSound(c)'
    BY <1>2, <1>3, <2>1, <2>2, <2>3 DEF RecordsSound
  <2>6. PagesSound(c)'
    <3>1. Agrees(cache[c], dbf, tx[c].dirty)
      BY <1>2 DEF Agrees, WorkSound
    <3>2. Agrees(cache'[c], dbf', tx'[c].todo)
      BY <1>1, <2>2, <3>1
    <3> QED  BY <1>1, <1>2, <2>2, <3>2 DEF PagesSound, WorkSound
  <2> QED
    BY <2>1, <2>4, <2>5, <2>6 DEF SafeStep, CacheSound, Writer, CacheMod
<1>5. CASE /\ jrnl' \in {jrnl, [jrnl EXCEPT !.hdr = "valid"]}
           /\ pc' = [pc EXCEPT ![c] = "err"] /\ eState' = eState /\ tx' = tx
  <2>1. /\ jrnl'.nRec = 0 /\ jrnl'.recs = jrnl.recs
        /\ jrnl'.mxPg = jrnl.mxPg /\ jrnl'.cksumInit = jrnl.cksumInit
        /\ pc'[c] = "err"
    BY <1>0, <1>n, <1>2, <1>5 DEF JournalType
  <2>2. JournalSound'
    BY <1>1, <1>n, <1>2, <2>1 DEF JournalSound
  <2>3. Records(c)' = Records(c)
    BY <1>5 DEF Records
  <2>4. RecordsSound(c)'
    BY <1>1, <1>2, <1>3, <1>5, <2>1, <2>3 DEF RecordsSound, DbMod
  <2>5. Agrees(cache'[c], dbf', tx'[c].inJournal)
    BY <1>1, <1>2, <1>5
  <2> QED
    BY <1>1, <1>5, <2>1, <2>2, <2>4, <2>5
       DEF SafeStep, CacheSound, Writer, CacheMod
<1> QED  BY <1>4, <1>5 DEF syncJournal, Goto

\* The next page of a commit.
NextPage(c) == CHOOSE q \in tx[c].todo : \A r \in tx[c].todo : q <= r

(* New pages are written in order, so each is the next one of the file.    *)
LEMMA NextPageFacts ==
    ASSUME SafeInv, NEW c \in Conn, pc[c] = "pages", tx[c].todo # {}
    PROVE  /\ NextPage(c) \in tx[c].todo /\ NextPage(c) \in Page
           /\ cache[c][NextPage(c)] \in Content
           /\ NextPage(c) <= Len(dbf) + 1
           /\ NextPage(c) <= tx[c].dbSize
           /\ PagesSound(c) /\ RecordsSound(c) /\ HasJournal(c)
           /\ eState[c] = "WRITER_DBMOD" /\ jrnl.hdr = "valid"
           /\ jrnl.mxPg = tx[c].dbOrigSize
<1>1. eState[c] = "WRITER_DBMOD"
  BY SafeOf DEF Matches
<1>2. PagesSound(c) /\ RecordsSound(c) /\ HasJournal(c)
  BY <1>1, SafeOf DEF CacheSound, HasJournal, CacheMod
<1>3. tx[c].todo \subseteq Page
  BY SafeOf DEF TxType
<1> DEFINE p == NextPage(c)
<1>4. p \in tx[c].todo /\ p \in Page /\ \A r \in tx[c].todo : p <= r
  BY <1>3, LeastPage DEF NextPage
<1> HIDE DEF p
<1>5. cache[c][p] \in Content /\ p <= tx[c].dbSize
  BY <1>2, <1>4, SafeOf DEF TxOK, Pages, PagesSound
<1>6. p <= Len(dbf) + 1
  <2>0. /\ p \in Nat /\ tx[c].dbSize \in Nat /\ Len(dbf) \in Nat
        /\ tx[c].dbSize <= MaxPage /\ MaxPage \in Nat
    BY <1>4, Sizes DEF Page
  <2> SUFFICES ASSUME p > Len(dbf) PROVE p <= Len(dbf) + 1
    BY <2>0
  <2>1. /\ Len(dbf) + 1 \in Page /\ Len(dbf) + 1 > Len(dbf)
        /\ Len(dbf) + 1 <= tx[c].dbSize
    BY <1>5, <2>0 DEF Page
  <2>2. Len(dbf) + 1 \in tx[c].todo
    BY <1>2, <2>1 DEF PagesSound
  <2> QED  BY <1>4, <2>2
<1>7. jrnl.hdr = "valid" /\ jrnl.mxPg = tx[c].dbOrigSize
  BY <1>1, <1>2 DEF RecordsSound, DbMod
<1> QED  BY <1>1, <1>2, <1>4, <1>5, <1>6, <1>7 DEF p

(* One page is written, in the file or right after its end.                *)
LEMMA PutEffect ==
    ASSUME DiskOK, NEW p \in Page, NEW content \in Content,
           p <= Len(dbf) + 1, dbf' = PutPage(p, content)
    PROVE  /\ Len(dbf) \in Nat /\ Len(dbf') \in Nat
           /\ Len(dbf') = IF p <= Len(dbf) THEN Len(dbf) ELSE p
           /\ Len(dbf) <= Len(dbf') /\ p <= Len(dbf')
           /\ \A q \in 1 .. Len(dbf') :
                  dbf'[q] = IF q = p THEN content ELSE dbf[q]
<1>0. Len(dbf) \in Nat /\ p \in Nat /\ p >= 1
  BY DEF DiskOK, Page
<1>1. /\ Len(dbf') = IF p <= Len(dbf) THEN Len(dbf) ELSE Len(dbf) + 1
      /\ \A q \in 1 .. Len(dbf) :
             dbf'[q] = IF q = p THEN content ELSE dbf[q]
      /\ p > Len(dbf) => dbf'[Len(dbf) + 1] = content
  <2> DEFINE file == PutPage(p, content)
  <2>1. /\ Len(file) = IF p <= Len(dbf) THEN Len(dbf) ELSE Len(dbf) + 1
        /\ \A q \in 1 .. Len(dbf) :
               file[q] = IF q = p THEN content ELSE dbf[q]
        /\ p > Len(dbf) => file[Len(dbf) + 1] = content
    BY PutPageEffect, Zenon
  <2>2. dbf' = file
    OBVIOUS
  <2> HIDE DEF file
  <2> QED  BY <2>1, <2>2
<1>2. Len(dbf') = (IF p <= Len(dbf) THEN Len(dbf) ELSE p)
      /\ Len(dbf') \in Nat /\ Len(dbf) <= Len(dbf') /\ p <= Len(dbf')
  BY <1>0, <1>1
<1>3. ASSUME NEW q \in 1 .. Len(dbf')
      PROVE  dbf'[q] = IF q = p THEN content ELSE dbf[q]
  <2>1. CASE q \in 1 .. Len(dbf)
    BY <1>1, <2>1
  <2>2. CASE q \notin 1 .. Len(dbf)
    <3>1. q = p /\ p > Len(dbf) /\ q = Len(dbf) + 1
      BY <1>0, <1>1, <1>2, <2>2
    <3> QED  BY <1>1, <3>1
  <2> QED  BY <2>1, <2>2
<1> QED  BY <1>0, <1>2, <1>3

(* A page write of the commit, and a failed one.                           *)
LEMMA PagelistSafe ==
    ASSUME SafeInv, NEW c \in Conn, pager_write_pagelist(c)
    PROVE  SafeStep(c)
<1> DEFINE p == NextPage(c)
<1>0. /\ JournalSound /\ DiskOK /\ eState \in [Conn -> EState]
      /\ pc \in [Conn -> PC] /\ tx \in [Conn -> TxType] /\ tx[c] \in TxType
  BY SafeOf
<1>1. /\ pc[c] = "pages" /\ tx[c].todo # {}
      /\ UNCHANGED <<jrnl, eState, cache>>
      /\ \/ /\ dbf' = PutPage(p, cache[c][p])
            /\ tx' = [tx EXCEPT ![c].todo = @ \ {p}] /\ pc' = pc
         \/ /\ dbf' \in {dbf, PutPage(p, Garbage)}
            /\ pc' = [pc EXCEPT ![c] = "err"] /\ tx' = tx
  BY DEF pager_write_pagelist, NextPage, Goto
<1>2. /\ p \in tx[c].todo /\ p \in Page /\ cache[c][p] \in Content
      /\ p <= Len(dbf) + 1 /\ p <= tx[c].dbSize
      /\ PagesSound(c) /\ RecordsSound(c) /\ HasJournal(c)
      /\ eState[c] = "WRITER_DBMOD" /\ jrnl.hdr = "valid"
      /\ jrnl.mxPg = tx[c].dbOrigSize
  BY <1>1, NextPageFacts
<1> HIDE DEF p
<1>n. /\ Len(dbf) \in Nat /\ p \in Nat /\ tx[c].dbSize \in Nat
      /\ tx[c].dbOrigSize \in Nat /\ MaxPage \in Nat
      /\ jrnl.mxPg <= Len(dbf)
  BY <1>0, <1>2, Sizes DEF Page, JournalSound
<1>3. ASSUME Len(dbf) <= Len(dbf'), Len(dbf') \in Nat PROVE JournalSound'
  <2>1. jrnl'.hdr = "valid" => jrnl'.mxPg <= Len(dbf')
    BY <1>1, <1>2, <1>3, <1>n
  <2> QED  BY <1>0, <1>1, <2>1 DEF JournalSound
<1>4. CASE /\ dbf' = PutPage(p, cache[c][p])
           /\ tx' = [tx EXCEPT ![c].todo = @ \ {p}] /\ pc' = pc
  <2> DEFINE content == cache[c][p]
  <2>1. content \in Content /\ dbf' = PutPage(p, content)
    BY <1>2, <1>4
  <2> HIDE DEF content
  <2>2. /\ Len(dbf') \in Nat
        /\ Len(dbf') = IF p <= Len(dbf) THEN Len(dbf) ELSE p
        /\ Len(dbf) <= Len(dbf') /\ p <= Len(dbf')
        /\ \A q \in 1 .. Len(dbf') :
               dbf'[q] = IF q = p THEN content ELSE dbf[q]
    BY <1>0, <1>2, <2>1, PutEffect
  <2>3. /\ tx'[c].todo = tx[c].todo \ {p} /\ tx'[c].dbSize = tx[c].dbSize
        /\ tx'[c].dbOrigSize = tx[c].dbOrigSize
        /\ tx'[c].inJournal = tx[c].inJournal
    BY <1>0, <1>4 DEF TxType
  <2>4. RecordsSound(c)'
    <3>1. Records(c)' = Records(c)
      BY <2>3 DEF Records
    <3> QED  BY <1>1, <1>2, <2>3, <3>1 DEF RecordsSound
  <2>5. PagesSound(c)'
    <3>1. Agrees(cache'[c], dbf', tx'[c].todo)
      <4> SUFFICES ASSUME NEW q \in Page \ tx'[c].todo,
                          cache[c][q] # NotCached, q <= Len(dbf')
                   PROVE  cache[c][q] = dbf'[q]
        BY <1>1 DEF Agrees
      <4>1. q \in 1 .. Len(dbf')
        BY <2>2 DEF Page
      <4>2. CASE q = p
        BY <2>2, <4>1, <4>2 DEF content
      <4>3. CASE q # p
        <5>1. q <= Len(dbf) /\ q \notin tx[c].todo
          BY <1>n, <1>2, <2>2, <2>3, <4>1, <4>3 DEF PagesSound
        <5>2. cache[c][q] = dbf[q]
          BY <1>2, <5>1 DEF PagesSound, Agrees
        <5> QED  BY <2>2, <4>1, <4>3, <5>2
      <4> QED  BY <4>2, <4>3
    <3>2. \A q \in tx'[c].todo :
             /\ q <= tx'[c].dbSize
             /\ q <= tx'[c].dbOrigSize => q \in tx'[c].inJournal
      BY <1>2, <2>3 DEF PagesSound
    <3>3. ASSUME NEW q \in Page, q > Len(dbf'), q <= tx'[c].dbSize
          PROVE  q \in tx'[c].todo
      <4>1. q > Len(dbf) /\ q # p
        BY <1>n, <2>2, <3>3 DEF Page
      <4> QED  BY <1>2, <2>3, <3>3, <4>1 DEF PagesSound
    <3>4. Len(dbf') <= tx'[c].dbSize
      BY <1>2, <2>2, <2>3 DEF PagesSound
    <3> QED  BY <3>1, <3>2, <3>3, <3>4 DEF PagesSound
  <2> QED
    BY <1>1, <1>2, <1>3, <1>4, <2>2, <2>4, <2>5
       DEF SafeStep, CacheSound, Writer, CacheMod
<1>5. CASE /\ dbf' \in {dbf, PutPage(p, Garbage)}
           /\ pc' = [pc EXCEPT ![c] = "err"] /\ tx' = tx
  <2>1. /\ Len(dbf') \in Nat /\ Len(dbf) <= Len(dbf')
        /\ \A q \in 1 .. Len(dbf) : q # p => dbf'[q] = dbf[q]
    <3>1. CASE dbf' = dbf
      BY <1>n, <3>1
    <3>2. CASE dbf' = PutPage(p, Garbage)
      <4>0. Garbage \in Content
        BY PagerAssumption DEF Content, Garbage
      <4>1. /\ Len(dbf') \in Nat /\ Len(dbf) <= Len(dbf')
            /\ \A q \in 1 .. Len(dbf') :
                   dbf'[q] = IF q = p THEN Garbage ELSE dbf[q]
        BY <1>0, <1>2, <3>2, <4>0, PutEffect
      <4> QED  BY <1>n, <4>1
    <3> QED  BY <1>5, <3>1, <3>2
  <2>2. pc'[c] = "err"
    BY <1>0, <1>5
  <2>3. RecordsSound(c)'
    <3>1. Records(c)' = Records(c)
      BY <1>5 DEF Records
    <3> QED  BY <1>1, <1>2, <1>5, <3>1 DEF RecordsSound
  <2>4. Agrees(cache'[c], dbf',
               tx'[c].inJournal \cup (tx'[c].dbOrigSize + 1 .. MaxPage))
    <3> SUFFICES ASSUME NEW q \in Page, q \notin tx[c].inJournal,
                        q \notin tx[c].dbOrigSize + 1 .. MaxPage,
                        cache[c][q] # NotCached
                 PROVE  cache[c][q] = dbf'[q]
      BY <1>1, <1>5 DEF Agrees
    <3>1. q \in Nat /\ q >= 1 /\ q <= tx[c].dbOrigSize
      BY <1>n DEF Page
    <3>2. q \in 1 .. Len(dbf) /\ q <= Len(dbf)
      BY <1>n, <1>2, <3>1
    <3>3. q \notin tx[c].todo
      BY <1>2, <3>1 DEF PagesSound
    <3>4. cache[c][q] = dbf[q]
      BY <1>2, <3>2, <3>3 DEF PagesSound, Agrees
    <3> QED  BY <1>2, <2>1, <3>2, <3>3, <3>4
  <2> QED
    BY <1>1, <1>2, <1>3, <2>1, <2>2, <2>3, <2>4
       DEF SafeStep, CacheSound, Writer, CacheMod
<1> QED  BY <1>1, <1>4, <1>5

(* Every dirty page is written: the file has the size of the new database. *)
LEMMA PhaseOneSafe ==
    ASSUME SafeInv, NEW c \in Conn, CommitPhaseOneDone(c)
    PROVE  SafeStep(c)
<1>0. /\ JournalSound /\ CacheSound(c) /\ eState \in [Conn -> EState]
      /\ pc \in [Conn -> PC] /\ tx \in [Conn -> TxType] /\ tx[c] \in TxType
      /\ HasJournal(c) => RecordsSound(c)
  BY SafeOf
<1>1. /\ pc[c] = "pages" /\ eState[c] = "WRITER_DBMOD" /\ tx[c].todo = {}
      /\ UNCHANGED <<dbf, jrnl, cache>>
      /\ tx' = [tx EXCEPT ![c].dirty = {}]
      /\ eState'[c] = "WRITER_FINISHED" /\ pc'[c] = "end"
  BY <1>0, SafeOf DEF CommitPhaseOneDone, Matches, diskVars, Goto
<1>2. PagesSound(c) /\ RecordsSound(c)
  BY <1>0, <1>1 DEF CacheSound, HasJournal, CacheMod
<1>3. /\ tx'[c].dbSize = tx[c].dbSize /\ tx'[c].inJournal = tx[c].inJournal
      /\ tx'[c].dbOrigSize = tx[c].dbOrigSize
  BY <1>0, <1>1 DEF TxType
<1>4. tx[c].dbSize = Len(dbf)
  <2>0. /\ tx[c].dbSize \in Nat /\ Len(dbf) \in Nat /\ MaxPage \in Nat
        /\ tx[c].dbSize <= MaxPage /\ Len(dbf) <= tx[c].dbSize
    BY <1>2, Sizes DEF PagesSound
  <2>1. ~(Len(dbf) + 1 \in Page /\ Len(dbf) + 1 > Len(dbf)
          /\ Len(dbf) + 1 <= tx[c].dbSize)
    BY <1>1, <1>2 DEF PagesSound
  <2> QED  BY <2>0, <2>1 DEF Page
<1>5. JournalSound'
  BY <1>0, <1>1 DEF JournalSound
<1>6. RecordsSound(c)'
  <2>1. Records(c)' = Records(c)
    BY <1>3 DEF Records
  <2> QED  BY <1>1, <1>2, <1>3, <2>1 DEF RecordsSound, DbMod
<1>7. Agrees(cache'[c], dbf', {})
  BY <1>1, <1>2 DEF PagesSound
<1> QED
  BY <1>1, <1>3, <1>4, <1>5, <1>6, <1>7
     DEF SafeStep, CacheSound, Writer, CacheMod

(* The state of a connection that plays back a journal.                    *)
LEMMA PlayState ==
    ASSUME SafeInv, NEW c \in Conn, pc[c] \in {"playback", "play"}
    PROVE  /\ eState[c] \in {"OPEN", "WRITER_CACHEMOD", "WRITER_DBMOD"}
           /\ eState[c] = "OPEN" => Records(c) = 0
           /\ eState[c] # "OPEN" =>
                  HasJournal(c) /\ RecordsSound(c)
                  /\ jrnl.mxPg = tx[c].dbOrigSize
           /\ eState[c] = "WRITER_CACHEMOD" =>
                  ~PlaysToFile(c) /\ jrnl.mxPg = Len(dbf)
           /\ eState[c] = "WRITER_DBMOD" =>
                  PlaysToFile(c) /\ jrnl.hdr = "valid"
                  /\ jrnl.nRec = Records(c)
<1>0. /\ Matches(eState[c], pc[c], eLock[c]) /\ CacheSound(c)
      /\ HasJournal(c) => RecordsSound(c)
      /\ TxOK(eState[c], pc[c], tx[c], cache[c], vers[c])
  BY SafeOf
<1>1. eState[c] \in {"OPEN", "WRITER_CACHEMOD", "WRITER_DBMOD"}
  BY <1>0 DEF Matches, TxOK, CacheSound, Writer, CacheMod
<1>2. eState[c] = "OPEN" => Records(c) = 0
  BY <1>0, FS_EmptySet DEF TxOK, Records
<1>3. eState[c] # "OPEN" => HasJournal(c) /\ RecordsSound(c)
  BY <1>0, <1>1 DEF HasJournal, CacheMod
<1> QED
  BY <1>1, <1>2, <1>3 DEF RecordsSound, DbMod, PlaysToFile, isHot

(* The file is cut to its original size, and the playback begins.          *)
LEMMA PlaybackSafe ==
    ASSUME SafeInv, NEW c \in Conn, pager_playback(c)
    PROVE  SafeStep(c)
<1> DEFINE n == IF PlaysToFile(c) THEN jrnl.nRec ELSE Len(jrnl.recs)
           readable == PlaysToFile(c) => jrnl.hdr = "valid"
           cut == PlaysToFile(c) /\ Len(dbf) > jrnl.mxPg
<1>0. /\ CacheSound(c) /\ JournalSound /\ eState \in [Conn -> EState]
      /\ pc \in [Conn -> PC] /\ tx \in [Conn -> TxType] /\ tx[c] \in TxType
      /\ cache \in [Conn -> Pages] /\ cache[c] \in Pages
  BY SafeOf
<1>n. /\ Len(dbf) \in Nat /\ jrnl.mxPg \in Nat /\ jrnl.nRec \in Nat
      /\ Len(jrnl.recs) \in Nat /\ MaxPage \in Nat
      /\ tx[c].dbOrigSize \in Nat
      /\ \A q \in 1 .. Len(dbf) : dbf[q] \in Content
  BY Sizes
<1>1. pc[c] = "playback" /\ jrnl' = jrnl
  BY DEF pager_playback
<1>2. /\ eState[c] \in {"OPEN", "WRITER_CACHEMOD", "WRITER_DBMOD"}
      /\ eState[c] = "OPEN" => Records(c) = 0
      /\ eState[c] # "OPEN" => HasJournal(c) /\ RecordsSound(c)
                               /\ jrnl.mxPg = tx[c].dbOrigSize
      /\ eState[c] = "WRITER_CACHEMOD" => ~PlaysToFile(c)
      /\ eState[c] = "WRITER_DBMOD" => PlaysToFile(c)
                                       /\ jrnl.hdr = "valid"
  BY <1>1, PlayState
<1>3. CASE /\ ~readable /\ pc' = [pc EXCEPT ![c] = "end"]
           /\ UNCHANGED <<dbf, eState, cache, tx>>
  <2>1. /\ eState[c] = "OPEN" /\ pc'[c] = "end" /\ jrnl.hdr # "valid"
        /\ Agrees(cache[c], dbf, {}) /\ Within(cache[c], Len(dbf))
    BY <1>0, <1>1, <1>2, <1>3 DEF CacheSound
  <2>2. JournalSound'
    BY <1>0, <1>1, <1>3 DEF JournalSound
  <2>3. Agrees(cache[c], dbf, {})' /\ Within(cache[c], Len(dbf))'
    BY <1>3, <2>1
  <2> QED
    BY <1>1, <1>3, <2>1, <2>2, <2>3
       DEF SafeStep, CacheSound, HasJournal, Writer, CacheMod
<1>4. CASE /\ readable
           /\ dbf' = (IF cut THEN SubSeq(dbf, 1, jrnl.mxPg) ELSE dbf)
           /\ tx' = [tx EXCEPT ![c].dbSize = jrnl.mxPg, ![c].pos = 1,
                               ![c].n = n]
           /\ cache' = (IF isHot(c) /\ n > 0
                        THEN [cache EXCEPT ![c] = EmptyCache] ELSE cache)
           /\ pc' = [pc EXCEPT ![c] = "play"] /\ eState' = eState
  <2>1. /\ Len(dbf') \in Nat /\ Len(dbf') <= Len(dbf)
        /\ PlaysToFile(c) => Len(dbf') = jrnl.mxPg
        /\ ~PlaysToFile(c) => dbf' = dbf
        /\ \A q \in 1 .. Len(dbf') : dbf'[q] = dbf[q]
    <3>1. CASE cut
      <4>1. \A i \in 1 .. jrnl.mxPg : dbf[i] \in Content
        BY <1>n, <3>1
      <4>2. /\ Len(SubSeq(dbf, 1, jrnl.mxPg)) = jrnl.mxPg
            /\ \A i \in 1 .. jrnl.mxPg :
                   SubSeq(dbf, 1, jrnl.mxPg)[i] = dbf[i]
        BY <1>n, <4>1, SubSeqProperties
      <4> QED  BY <1>n, <1>4, <3>1, <4>2
    <3>2. CASE ~cut
      <4>1. PlaysToFile(c) => jrnl.mxPg <= Len(dbf)
        BY <1>0, <1>4 DEF JournalSound
      <4> QED  BY <1>n, <1>4, <3>2, <4>1
    <3> QED  BY <3>1, <3>2
  <2>2. n \in Nat
    BY <1>n
  <2> DEFINE t == [tx[c] EXCEPT !.dbSize = jrnl.mxPg, !.pos = 1, !.n = n]
  <2>3. tx' = [tx EXCEPT ![c] = t]
    BY <1>4
  <2>a. n = IF PlaysToFile(c) THEN jrnl.nRec ELSE Len(jrnl.recs)
    OBVIOUS
  <2>r. PlaysToFile(c) => jrnl.hdr = "valid"
    BY <1>4
  <2>4. /\ cache'[c] = IF isHot(c) /\ n > 0 THEN EmptyCache ELSE cache[c]
        /\ pc'[c] = "play" /\ eState'[c] = eState[c]
        /\ PlaysToFile(c)' = PlaysToFile(c) /\ isHot(c)' = isHot(c)
    BY <1>0, <1>4 DEF PlaysToFile, isHot
  <2> HIDE DEF n, readable, cut
  <2>5. /\ tx'[c].dbSize = jrnl.mxPg /\ tx'[c].pos = 1 /\ tx'[c].n = n
        /\ tx'[c].inJournal = tx[c].inJournal
        /\ tx'[c].dbOrigSize = tx[c].dbOrigSize
    BY <1>0, <2>3 DEF TxType
  <2> HIDE DEF t
  <2>6. JournalSound'
    <3>1. jrnl'.hdr = "valid" => jrnl'.mxPg <= Len(dbf')
      <4>1. CASE PlaysToFile(c)
        BY <1>1, <1>n, <2>1, <4>1
      <4>2. CASE ~PlaysToFile(c)
        BY <1>0, <1>1, <2>1, <4>2 DEF JournalSound
      <4> QED  BY <4>1, <4>2
    <3> QED  BY <1>0, <1>1, <3>1 DEF JournalSound
  <2>7. Records(c)' = Records(c)
    BY <2>5 DEF Records
  <2>8. HasJournal(c)' => RecordsSound(c)'
    <3> SUFFICES ASSUME HasJournal(c)' PROVE RecordsSound(c)'
      OBVIOUS
    <3>1. RecordsSound(c) /\ eState[c] # "OPEN"
      BY <1>2, <2>4 DEF HasJournal, CacheMod
    <3>2. eState[c] = "WRITER_CACHEMOD" => dbf' = dbf
      BY <1>2, <2>1
    <3> QED  BY <1>1, <2>4, <2>5, <2>7, <3>1, <3>2 DEF RecordsSound
  <2>9. ASSUME NEW S, Agrees(cache[c], dbf, S) PROVE Agrees(cache'[c], dbf', S)
    <3>1. CASE cache'[c] = EmptyCache
      BY <3>1 DEF Agrees, EmptyCache
    <3>2. CASE cache'[c] = cache[c]
      <4> SUFFICES ASSUME NEW q \in Page \ S, cache[c][q] # NotCached,
                          q <= Len(dbf')
                   PROVE  cache[c][q] = dbf'[q]
        BY <3>2 DEF Agrees
      <4>1. q \in 1 .. Len(dbf') /\ q <= Len(dbf)
        BY <1>n, <2>1 DEF Page
      <4> QED  BY <2>1, <2>9, <4>1 DEF Agrees
    <3> QED  BY <2>4, <3>1, <3>2
  <2>10. Waiting(c)' = {jrnl.recs[i].pg : i \in 1 .. Records(c)}
    BY <1>1, <2>5, <2>7 DEF Waiting
  <2>11. Agrees(cache'[c], dbf', Waiting(c)')
         /\ (eState[c] = "OPEN" => Agrees(cache'[c], dbf', {}))
    <3>1. CASE eState[c] = "OPEN"
      <4>1. Agrees(cache[c], dbf, {})
        BY <1>0, <3>1 DEF CacheSound
      <4>2. Agrees(cache'[c], dbf', {})
        BY <2>9, <4>1
      <4> QED  BY <4>2 DEF Agrees
    <3>2. CASE eState[c] = "WRITER_CACHEMOD"
      <4>1. Agrees(cache[c], dbf, tx[c].inJournal)
        BY <1>0, <1>1, <3>2 DEF CacheSound
      <4>2. Agrees(cache'[c], dbf', tx[c].inJournal)
        BY <2>9, <4>1
      <4>3. tx[c].inJournal \subseteq Waiting(c)'
        BY <1>2, <2>10, <3>2 DEF RecordsSound
      <4> QED  BY <3>2, <4>2, <4>3 DEF Agrees
    <3>3. CASE eState[c] = "WRITER_DBMOD"
      <4> DEFINE S == tx[c].inJournal \cup (tx[c].dbOrigSize + 1 .. MaxPage)
      <4>1. Agrees(cache[c], dbf, S)
        BY <1>0, <1>1, <3>3 DEF CacheSound
      <4>2. Agrees(cache'[c], dbf', S)
        BY <2>9, <4>1
      <4>3. tx[c].inJournal \subseteq Waiting(c)'
        BY <1>2, <2>10, <3>3 DEF RecordsSound
      <4>4. \A q \in Page \ Waiting(c)' : q <= Len(dbf') => q \in Page \ S
        BY <1>n, <1>2, <2>1, <3>3, <4>3 DEF Page
      <4> QED  BY <3>3, <4>2, <4>4 DEF Agrees
    <3> QED  BY <1>2, <3>1, <3>2, <3>3
  <2>12. PlaySound(c)'
    <3>1. PlaysToFile(c)' => jrnl'.hdr = "valid"
                             /\ Restored(tx[c].pos - 1)'
      <4> SUFFICES ASSUME PlaysToFile(c)
                   PROVE  jrnl'.hdr = "valid" /\ Restored(tx[c].pos - 1)'
        BY <2>4
      <4>1. \A i \in 1 .. jrnl'.nRec : ~(i <= tx'[c].pos - 1)
        BY <1>1, <1>n, <2>5
      <4> QED  BY <1>1, <2>1, <2>r, <4>1 DEF Restored
    <3>2. tx'[c].n = IF PlaysToFile(c)' THEN jrnl'.nRec ELSE Len(jrnl'.recs)
      BY <1>1, <2>4, <2>5, <2>a
    <3>3. isHot(c)' /\ tx'[c].n > 0 => cache'[c] = EmptyCache
      BY <2>4, <2>5
    <3>4. tx'[c].dbSize = jrnl'.mxPg
      BY <1>1, <2>5
    <3> QED  BY <2>11, <3>1, <3>2, <3>3, <3>4 DEF PlaySound
  <2> QED
    BY <1>2, <2>4, <2>6, <2>8, <2>11, <2>12
       DEF SafeStep, CacheSound, Writer, CacheMod
<1>5. CASE ToError(c) /\ UNCHANGED <<dbf, cache, tx>>
  <2>1. eState'[c] = "ERROR" /\ pc'[c] = "idle"
    BY <1>0, <1>5 DEF ToError, Goto
  <2>2. JournalSound'
    BY <1>0, <1>1, <1>5 DEF JournalSound
  <2> QED
    BY <2>1, <2>2 DEF SafeStep, CacheSound, HasJournal, Writer, CacheMod
<1> QED  BY <1>3, <1>4, <1>5 DEF pager_playback, Goto

(* What the playback finds in its next record: one of its own journal,     *)
(* with an old page, or what an older transaction left.                    *)
LEMMA NextRecord ==
    ASSUME SafeInv, NEW c \in Conn, pc[c] = "play", tx[c].pos <= tx[c].n
    PROVE  LET rec == jrnl.recs[tx[c].pos]
           IN  /\ PlaySound(c) /\ tx[c].pos \in 1 .. Len(jrnl.recs)
               /\ rec \in JournalRecord /\ tx[c].dbSize = jrnl.mxPg
               /\ PlaysToFile(c) =>
                      /\ tx[c].pos \in 1 .. jrnl.nRec
                      /\ rec.cksum = jrnl.cksumInit
                      /\ rec.pg <= tx[c].dbSize /\ Len(dbf) = tx[c].dbSize
               /\ ~PlaysToFile(c) =>
                      /\ tx[c].dbSize = Len(dbf)
                      /\ tx[c].pos > Records(c) => rec.cksum # jrnl.cksumInit
                      /\ tx[c].pos <= Records(c) =>
                             /\ rec.cksum = jrnl.cksumInit
                             /\ rec.pg <= tx[c].dbSize
                             /\ rec.data = dbf[rec.pg]
<1> DEFINE rec == jrnl.recs[tx[c].pos]
<1>0. /\ CacheSound(c) /\ JournalSound /\ ForeignOK(c) /\ PlaySound(c)
      /\ JournalOK(eState[c], pc[c], tx[c], jrnl)
  BY SafeOf DEF CacheSound
<1>n. /\ Len(jrnl.recs) \in Nat /\ jrnl.nRec \in Nat /\ Len(dbf) \in Nat
      /\ tx[c].pos \in Nat /\ tx[c].n \in Nat /\ jrnl.mxPg \in Nat
      /\ Records(c) \in Nat /\ tx[c].dbOrigSize \in Nat
      /\ tx[c].inJournal \subseteq 1 .. tx[c].dbOrigSize
      /\ \A i \in 1 .. Len(jrnl.recs) : jrnl.recs[i] \in JournalRecord
  BY Sizes
<1>1. /\ tx[c].pos \in 1 .. Len(jrnl.recs)
      /\ PlaysToFile(c) => tx[c].pos \in 1 .. jrnl.nRec
  BY <1>0, <1>n DEF JournalOK, PlaySound
<1>2. rec \in JournalRecord /\ tx[c].dbSize = jrnl.mxPg
  BY <1>0, <1>n, <1>1 DEF PlaySound
<1>3. ASSUME PlaysToFile(c)
      PROVE  /\ rec.cksum = jrnl.cksumInit
             /\ rec.pg <= tx[c].dbSize /\ Len(dbf) = tx[c].dbSize
  BY <1>0, <1>1, <1>2, <1>3 DEF JournalSound, PlaySound, Restored
<1>4. ASSUME ~PlaysToFile(c)
      PROVE  /\ tx[c].dbSize = Len(dbf)
             /\ tx[c].pos > Records(c) => rec.cksum # jrnl.cksumInit
             /\ tx[c].pos <= Records(c) =>
                    /\ rec.cksum = jrnl.cksumInit
                    /\ rec.pg <= tx[c].dbSize
                    /\ rec.data = dbf[rec.pg]
  <2>1. /\ eState[c] = "WRITER_CACHEMOD" /\ HasJournal(c)
        /\ RecordsSound(c) /\ jrnl.mxPg = Len(dbf)
        /\ jrnl.mxPg = tx[c].dbOrigSize
    BY <1>4, PlayState DEF PlaysToFile, isHot
  <2>2. tx[c].pos > Records(c) => rec.cksum # jrnl.cksumInit
    BY <1>0, <1>1, <2>1 DEF ForeignOK
  <2>3. ASSUME tx[c].pos <= Records(c)
        PROVE  /\ rec.cksum = jrnl.cksumInit
               /\ rec.pg <= tx[c].dbSize /\ rec.data = dbf[rec.pg]
    <3>1. tx[c].pos \in 1 .. Records(c)
      BY <1>n, <1>1, <2>3
    <3>2. /\ rec.cksum = jrnl.cksumInit /\ rec.pg \in tx[c].inJournal
          /\ rec.data = dbf[rec.pg]
      BY <2>1, <3>1 DEF RecordsSound
    <3> QED  BY <1>n, <1>2, <2>1, <3>2
  <2> QED  BY <1>2, <2>1, <2>2, <2>3
<1> QED  BY <1>0, <1>1, <1>2, <1>3, <1>4

(* One record goes back, and the page no longer waits for it.              *)
LEMMA RecordSafe ==
    ASSUME SafeInv, "read" \notin FaultKinds, NEW c \in Conn,
           pager_playback_one_page(c)
    PROVE  SafeStep(c)
<1> DEFINE pos == tx[c].pos
           rec == jrnl.recs[pos]
           stale == rec.cksum # jrnl.cksumInit
<1>0. /\ CacheSound(c) /\ JournalSound /\ eState \in [Conn -> EState]
      /\ pc \in [Conn -> PC] /\ tx \in [Conn -> TxType] /\ tx[c] \in TxType
      /\ cache \in [Conn -> Pages] /\ cache[c] \in Pages /\ DiskOK
  BY SafeOf
<1>n. /\ Len(jrnl.recs) \in Nat /\ jrnl.nRec \in Nat /\ Len(dbf) \in Nat
      /\ pos \in Nat /\ tx[c].n \in Nat /\ jrnl.mxPg \in Nat
      /\ Records(c) \in Nat
  BY Sizes
<1>1. pc[c] = "play" /\ jrnl' = jrnl /\ pos <= tx[c].n
  BY DEF pager_playback_one_page
<1>2. /\ eState[c] \in {"OPEN", "WRITER_CACHEMOD", "WRITER_DBMOD"}
      /\ eState[c] = "OPEN" => Records(c) = 0
      /\ eState[c] # "OPEN" => HasJournal(c) /\ RecordsSound(c)
      /\ eState[c] = "WRITER_CACHEMOD" <=> ~PlaysToFile(c)
      /\ eState[c] = "WRITER_DBMOD" => jrnl.nRec = Records(c)
  BY <1>1, PlayState DEF PlaysToFile, isHot
<1>3. /\ PlaySound(c) /\ pos \in 1 .. Len(jrnl.recs)
      /\ rec \in JournalRecord /\ tx[c].dbSize = jrnl.mxPg
      /\ Len(dbf) = tx[c].dbSize
      /\ PlaysToFile(c) => /\ pos \in 1 .. jrnl.nRec /\ ~stale
                           /\ rec.pg <= tx[c].dbSize
      /\ ~PlaysToFile(c) => /\ pos > Records(c) => stale
                            /\ pos <= Records(c) =>
                                   /\ ~stale /\ rec.pg <= tx[c].dbSize
                                   /\ rec.data = dbf[rec.pg]
  BY <1>1, NextRecord
<1>4. rec.pg \in Page /\ rec.pg \in Nat /\ rec.data \in Content
  BY <1>3 DEF JournalRecord, Page
<1>5. CASE /\ stale /\ pc' = [pc EXCEPT ![c] = "end"]
           /\ UNCHANGED <<dbf, eState, cache, tx>>
  <2>1. /\ eState[c] = "WRITER_CACHEMOD" /\ pos > Records(c)
        /\ pc'[c] = "end"
    BY <1>0, <1>n, <1>2, <1>3, <1>5
  <2>2. Waiting(c) = {}
    BY <1>n, <2>1 DEF Waiting
  <2>3. Agrees(cache[c], dbf, {})' /\ tx'[c].dbSize = Len(dbf')
    BY <1>3, <1>5, <2>2 DEF PlaySound
  <2>4. JournalSound'
    BY <1>0, <1>1, <1>5 DEF JournalSound
  <2>5. RecordsSound(c)'
    BY <1>1, <1>2, <1>5, <2>1 DEF RecordsSound, Records
  <2> QED
    BY <1>5, <2>1, <2>3, <2>4, <2>5
       DEF SafeStep, CacheSound, PlaysToFile, isHot, DbMod
<1>6. CASE /\ rec.pg > tx[c].dbSize /\ tx' = [tx EXCEPT ![c].pos = @ + 1]
           /\ UNCHANGED <<dbf, eState, cache, pc>>
  <2> DEFINE next == pos + 1
  <2>1. ~PlaysToFile(c) /\ pos > Records(c)
    BY <1>n, <1>3, <1>4, <1>6
  <2>a. eState[c] = "WRITER_CACHEMOD"
    BY <1>2, <2>1
  <2>2. tx' = [tx EXCEPT ![c].pos = next] /\ next > Records(c)
        /\ next \in Nat
    BY <1>n, <1>6, <2>1
  <2> HIDE DEF next
  <2>3. /\ tx'[c].dbSize = tx[c].dbSize /\ tx'[c].inJournal = tx[c].inJournal
        /\ tx'[c].dbOrigSize = tx[c].dbOrigSize /\ tx'[c].n = tx[c].n
        /\ tx'[c].pos = next
    BY <1>0, <2>2 DEF TxType
  <2>4. Records(c)' = Records(c)
    BY <2>3 DEF Records
  <2>5. Waiting(c) = {} /\ Waiting(c)' = {}
    BY <1>n, <2>1, <2>2, <2>3, <2>4 DEF Waiting
  <2>6. PlaySound(c)'
    BY <1>1, <1>3, <1>6, <2>1, <2>a, <2>3, <2>5
       DEF PlaySound, PlaysToFile, isHot, DbMod
  <2>7. JournalSound'
    BY <1>0, <1>1, <1>6 DEF JournalSound
  <2>8. RecordsSound(c)'
    BY <1>1, <1>2, <1>6, <2>a, <2>3, <2>4 DEF RecordsSound
  <2> QED
    BY <1>1, <1>6, <2>a, <2>6, <2>7, <2>8 DEF SafeStep, CacheSound
<1>7. CASE /\ ~stale /\ rec.pg <= tx[c].dbSize
           /\ dbf' = (IF PlaysToFile(c) THEN PutPage(rec.pg, rec.data)
                      ELSE dbf)
           /\ tx' = [tx EXCEPT ![c].pos = @ + 1, ![c].dirty = @ \ {rec.pg}]
           /\ cache' = (IF cache[c][rec.pg] # NotCached
                        THEN [cache EXCEPT ![c][rec.pg] = rec.data]
                        ELSE cache)
           /\ UNCHANGED <<eState, pc>>
  <2> DEFINE next == pos + 1
             p == rec.pg
             data == rec.data
             left == tx[c].dirty \ {p}
  <2>1. /\ tx' = [tx EXCEPT ![c].pos = next, ![c].dirty = left]
        /\ next \in Nat /\ p \in Page /\ data \in Content
        /\ dbf' = (IF PlaysToFile(c) THEN PutPage(p, data) ELSE dbf)
        /\ cache' = (IF cache[c][p] # NotCached
                     THEN [cache EXCEPT ![c][p] = data] ELSE cache)
        /\ p <= Len(dbf) /\ p \in Nat
    BY <1>n, <1>3, <1>4, <1>7
  <2>2. ~PlaysToFile(c) => pos <= Records(c) /\ data = dbf[p]
    BY <1>n, <1>3, <1>7
  <2> HIDE DEF next, p, data, left
  <2>3. /\ tx'[c].dbSize = tx[c].dbSize /\ tx'[c].inJournal = tx[c].inJournal
        /\ tx'[c].dbOrigSize = tx[c].dbOrigSize /\ tx'[c].n = tx[c].n
        /\ tx'[c].pos = next
    BY <1>0, <2>1 DEF TxType
  <2>4. Records(c)' = Records(c)
    BY <2>3 DEF Records
  <2>5. /\ Len(dbf') = Len(dbf)
        /\ \A q \in 1 .. Len(dbf) : dbf'[q] = IF q = p THEN data ELSE dbf[q]
    <3>1. CASE PlaysToFile(c)
      <4>1. p <= Len(dbf) + 1 /\ dbf' = PutPage(p, data)
        BY <1>n, <2>1, <3>1
      <4>2. /\ Len(dbf') = IF p <= Len(dbf) THEN Len(dbf) ELSE p
            /\ \A q \in 1 .. Len(dbf') :
                   dbf'[q] = IF q = p THEN data ELSE dbf[q]
        BY <1>0, <2>1, <4>1, PutEffect
      <4>3. Len(dbf') = Len(dbf)
        BY <2>1, <4>2
      <4> QED  BY <4>2, <4>3
    <3>2. CASE ~PlaysToFile(c)
      BY <2>1, <2>2, <3>2
    <3> QED  BY <3>1, <3>2
  <2>6. \A q \in Page : cache'[c][q] = IF q = p /\ cache[c][q] # NotCached
                                       THEN data ELSE cache[c][q]
    <3>1. CASE cache[c][p] # NotCached
      BY <1>0, <2>1, <3>1 DEF Pages
    <3>2. CASE cache[c][p] = NotCached
      BY <2>1, <3>2
    <3> QED  BY <3>1, <3>2
  <2>7. \A q \in Waiting(c) : q = p \/ q \in Waiting(c)'
    <3> SUFFICES ASSUME NEW q \in Waiting(c), q # p PROVE q \in Waiting(c)'
      OBVIOUS
    <3>1. PICK i \in pos .. Records(c) : q = jrnl.recs[i].pg
      BY DEF Waiting
    <3>2. i # pos
      BY <3>1 DEF p
    <3>3. i \in next .. Records(c)
      BY <1>n, <3>1, <3>2 DEF next
    <3> QED  BY <1>1, <2>3, <2>4, <3>1, <3>3 DEF Waiting
  <2>8. Agrees(cache'[c], dbf', Waiting(c)')
    <3> SUFFICES ASSUME NEW q \in Page \ Waiting(c)',
                        cache'[c][q] # NotCached, q <= Len(dbf)
                 PROVE  cache'[c][q] = dbf'[q]
      BY <2>5 DEF Agrees
    <3>1. q \in 1 .. Len(dbf)
      BY <1>n DEF Page
    <3>2. CASE q = p
      BY <2>5, <2>6, <3>1, <3>2
    <3>3. CASE q # p
      <4>1. q \notin Waiting(c) /\ cache'[c][q] = cache[c][q]
        BY <2>6, <2>7, <3>3
      <4>2. cache[c][q] = dbf[q]
        BY <1>3, <4>1 DEF PlaySound, Agrees
      <4> QED  BY <2>5, <3>1, <3>3, <4>1, <4>2
    <3> QED  BY <3>2, <3>3
  <2>9. ASSUME PlaysToFile(c)
        PROVE  Restored(tx[c].pos - 1)' /\ jrnl'.hdr = "valid"
    <3>1. Restored(pos - 1) /\ jrnl.hdr = "valid" /\ pos \in 1 .. jrnl.nRec
      BY <1>3, <2>9 DEF PlaySound
    <3>2. ASSUME NEW i \in 1 .. jrnl.nRec, i <= pos
          PROVE  dbf'[jrnl.recs[i].pg] = jrnl.recs[i].data
      <4>1. jrnl.recs[i].pg \in 1 .. Len(dbf)
        <5>1. i \in 1 .. Len(jrnl.recs)
          BY <1>n, Sizes
        <5>2. jrnl.recs[i] \in JournalRecord
          BY <5>1, Sizes
        <5>3. jrnl.recs[i].pg <= Len(dbf)
          BY <1>0, <1>3 DEF JournalSound
        <5> QED  BY <1>n, <5>2, <5>3 DEF JournalRecord, Page
      <4>2. CASE i = pos
        BY <2>5, <4>1, <4>2 DEF p, data
      <4>3. CASE i # pos
        <5>1. i <= pos - 1
          BY <1>n, <3>2, <4>3
        <5>2. jrnl.recs[i].pg # p
          BY <1>0, <3>1, <4>3 DEF JournalSound, p
        <5>3. dbf[jrnl.recs[i].pg] = jrnl.recs[i].data
          BY <3>1, <5>1 DEF Restored
        <5> QED  BY <2>5, <4>1, <5>2, <5>3
      <4> QED  BY <4>2, <4>3
    <3>3. \A i \in 1 .. jrnl.nRec : i <= next - 1 => i <= pos
      BY <1>n DEF next
    <3>4. Len(dbf') = jrnl'.mxPg
      BY <1>1, <1>3, <2>5
    <3> QED  BY <1>1, <2>3, <3>1, <3>2, <3>3, <3>4 DEF Restored
  <2>10. PlaySound(c)'
    <3>1. PlaysToFile(c)' = PlaysToFile(c) /\ isHot(c)' = isHot(c)
      BY <1>7 DEF PlaysToFile, isHot
    <3>2. isHot(c) => cache'[c] = EmptyCache
      <4> SUFFICES ASSUME isHot(c) PROVE cache'[c] = EmptyCache
        OBVIOUS
      <4>1. cache[c] = EmptyCache
        BY <1>n, <1>1, <1>3 DEF PlaySound
      <4>2. cache[c][p] = NotCached
        BY <2>1, <4>1 DEF EmptyCache
      <4> QED  BY <2>1, <4>1, <4>2
    <3>3. tx'[c].n = IF PlaysToFile(c)' THEN jrnl'.nRec ELSE Len(jrnl'.recs)
      BY <1>1, <1>3, <2>3, <3>1 DEF PlaySound
    <3>4. tx'[c].dbSize = jrnl'.mxPg
      BY <1>1, <1>3, <2>3
    <3> QED  BY <2>8, <2>9, <3>1, <3>2, <3>3, <3>4 DEF PlaySound
  <2>11. JournalSound'
    BY <1>0, <1>1, <2>5 DEF JournalSound
  <2>12. HasJournal(c)' => RecordsSound(c)'
    <3> SUFFICES ASSUME HasJournal(c)' PROVE RecordsSound(c)'
      OBVIOUS
    <3>1. RecordsSound(c) /\ eState[c] # "OPEN"
      BY <1>2, <1>7 DEF HasJournal, CacheMod
    <3>2. eState[c] = "WRITER_CACHEMOD" => dbf' = dbf
      BY <1>2, <2>1
    <3>3. /\ eState'[c] = eState[c] /\ jrnl' = jrnl
          /\ tx'[c].inJournal = tx[c].inJournal
          /\ tx'[c].dbOrigSize = tx[c].dbOrigSize
      BY <1>1, <1>7, <2>3
    <3>4. CASE eState[c] = "WRITER_CACHEMOD"
      BY <2>4, <3>1, <3>2, <3>3, <3>4 DEF RecordsSound
    <3>5. CASE eState[c] # "WRITER_CACHEMOD"
      BY <2>4, <3>1, <3>3, <3>5 DEF RecordsSound
    <3> QED  BY <3>4, <3>5
  <2>13. eState'[c] = "OPEN" => Agrees(cache'[c], dbf', {})
    <3> SUFFICES ASSUME eState[c] = "OPEN" PROVE Agrees(cache'[c], dbf', {})
      BY <1>7
    <3>1. Waiting(c)' = {}
      BY <1>n, <1>2, <1>3, <2>3, <2>4 DEF Waiting, next
    <3> QED  BY <2>8, <3>1
  <2> QED
    BY <1>1, <1>2, <1>7, <2>10, <2>11, <2>12, <2>13
       DEF SafeStep, CacheSound, Writer, CacheMod
<1>8. CASE /\ rec.pg <= tx[c].dbSize /\ PlaysToFile(c)
           /\ dbf' \in {dbf, PutPage(rec.pg, Garbage)} /\ ToError(c)
  <2>1. eState'[c] = "ERROR" /\ pc'[c] = "idle"
    BY <1>0, <1>8 DEF ToError, Goto
  <2>2. Len(dbf') = Len(dbf)
    <3>1. CASE dbf' = dbf
      BY <3>1
    <3>2. CASE dbf' = PutPage(rec.pg, Garbage)
      <4>0. Garbage \in Content
        BY PagerAssumption DEF Content, Garbage
      <4>1. rec.pg <= Len(dbf) /\ rec.pg <= Len(dbf) + 1
        BY <1>n, <1>3, <1>4, <1>8
      <4> HIDE DEF rec
      <4>2. Len(dbf') = IF rec.pg <= Len(dbf) THEN Len(dbf) ELSE rec.pg
        BY <1>0, <1>4, <3>2, <4>0, <4>1, PutEffect
      <4> QED  BY <4>1, <4>2
    <3> QED  BY <1>8, <3>1, <3>2
  <2>3. JournalSound'
    BY <1>0, <1>1, <2>2 DEF JournalSound
  <2> QED
    BY <2>1, <2>3 DEF SafeStep, CacheSound, HasJournal, Writer, CacheMod
<1>9. ~Fault("read")
  BY DEF Fault
<1> QED
  BY <1>5, <1>6, <1>7, <1>8, <1>9 DEF pager_playback_one_page, Goto

(* The last record is back: nothing waits any more.                        *)
LEMMA PlayedSafe ==
    ASSUME SafeInv, "read" \notin FaultKinds, NEW c \in Conn,
           PlaybackDone(c)
    PROVE  SafeStep(c)
<1>0. /\ CacheSound(c) /\ JournalSound /\ eState \in [Conn -> EState]
      /\ pc \in [Conn -> PC]
  BY SafeOf
<1>n. /\ Len(jrnl.recs) \in Nat /\ jrnl.nRec \in Nat /\ Len(dbf) \in Nat
      /\ tx[c].pos \in Nat /\ tx[c].n \in Nat /\ jrnl.mxPg \in Nat
      /\ Records(c) \in Nat
      /\ HasJournal(c) => Records(c) <= Len(jrnl.recs)
  BY Sizes
<1>1. /\ pc[c] = "play" /\ tx[c].pos > tx[c].n /\ pc'[c] = "end"
      /\ UNCHANGED <<dbf, jrnl, eState, cache, tx>>
  BY <1>0 DEF PlaybackDone, Fault, diskVars, Goto
<1>2. /\ eState[c] \in {"OPEN", "WRITER_CACHEMOD", "WRITER_DBMOD"}
      /\ eState[c] = "OPEN" => Records(c) = 0
      /\ eState[c] # "OPEN" => HasJournal(c) /\ RecordsSound(c)
      /\ eState[c] = "WRITER_CACHEMOD" =>
             ~PlaysToFile(c) /\ jrnl.mxPg = Len(dbf)
      /\ eState[c] = "WRITER_DBMOD" =>
             PlaysToFile(c) /\ jrnl.nRec = Records(c)
  BY <1>1, PlayState
<1>3. PlaySound(c)
  BY <1>0, <1>1 DEF CacheSound
<1>4. Agrees(cache[c], dbf, {})
  <2>1. CASE eState[c] = "OPEN"
    BY <1>0, <2>1 DEF CacheSound
  <2>2. CASE eState[c] # "OPEN"
    <3>1. tx[c].pos > Records(c)
      BY <1>n, <1>1, <1>2, <1>3, <2>2 DEF PlaySound
    <3>2. Waiting(c) = {}
      BY <1>n, <3>1 DEF Waiting
    <3> QED  BY <1>3, <3>2 DEF PlaySound
  <2> QED  BY <2>1, <2>2
<1>5. PlaysToFile(c) => Restored(jrnl.nRec)
  BY <1>n, <1>1, <1>3 DEF PlaySound, Restored
<1>6. tx[c].dbSize = Len(dbf)
  BY <1>2, <1>3, <1>5 DEF PlaySound, Restored, PlaysToFile, isHot
<1>7. JournalSound'
  BY <1>0, <1>1 DEF JournalSound
<1>8. eState[c] # "OPEN" => RecordsSound(c)'
  BY <1>1, <1>2 DEF RecordsSound, Records
<1>9. /\ Agrees(cache'[c], dbf', {}) /\ tx'[c].dbSize = Len(dbf')
      /\ PlaysToFile(c)' => Restored(jrnl.nRec)'
  BY <1>1, <1>4, <1>5, <1>6 DEF PlaysToFile, isHot, Restored
<1> QED
  BY <1>n, <1>1, <1>2, <1>7, <1>8, <1>9
     DEF SafeStep, CacheSound, HasJournal, CacheMod

(* The journal goes, and the pages that are no longer in the database with *)
(* it.                                                                     *)
LEMMA FinalizeSafe ==
    ASSUME SafeInv, NEW c \in Conn, FinalizeJournal(c)
    PROVE  SafeStep(c)
<1>0. /\ CacheSound(c) /\ JournalSound /\ eState \in [Conn -> EState]
      /\ pc \in [Conn -> PC] /\ tx \in [Conn -> TxType] /\ tx[c] \in TxType
      /\ cache \in [Conn -> Pages] /\ eState[c] \in EState
      /\ Matches(eState[c], pc[c], eLock[c])
  BY SafeOf
<1>n. Len(dbf) \in Nat /\ tx[c].dbSize \in Nat
  BY Sizes
<1>1. /\ pc[c] = "end" /\ pc'[c] = "unlock"
      /\ UNCHANGED <<dbf, eState>> /\ jrnl' \in {jrnl, NoJournal}
      /\ eState[c] \in {"OPEN"} \cup Writer
  BY <1>0 DEF FinalizeJournal, Goto, Matches
<1>2. tx'[c].dbSize = tx[c].dbSize /\ tx'[c].dbOrigSize = tx[c].dbOrigSize
  BY <1>0 DEF FinalizeJournal, TxType
<1>3. \A p \in Page : cache'[c][p] = IF p > tx[c].dbSize THEN NotCached
                                     ELSE cache[c][p]
  BY <1>0 DEF FinalizeJournal
<1>4. JournalSound'
  <2>1. CASE jrnl' = jrnl
    BY <1>0, <1>1, <2>1 DEF JournalSound
  <2>2. CASE jrnl' = NoJournal
    <3>1. jrnl'.hdr = "absent" /\ jrnl'.nRec = 0
      BY <2>2 DEF NoJournal
    <3> QED  BY <3>1 DEF JournalSound
  <2> QED  BY <1>1, <2>1, <2>2
<1>5. Agrees(cache'[c], dbf', {})
  <2>1. Agrees(cache[c], dbf, {})
    BY <1>0, <1>1 DEF CacheSound
  <2> QED  BY <1>1, <1>3, <2>1 DEF Agrees
<1>6. /\ eState[c] \in Writer => tx[c].dbSize = Len(dbf)
      /\ eState[c] = "OPEN" =>
             tx[c].dbSize <= Len(dbf) \/ Within(cache[c], Len(dbf))
      /\ eState[c] = "WRITER_LOCKED" => tx[c].dbOrigSize = Len(dbf)
  BY <1>0, <1>1 DEF CacheSound
<1>7. Within(cache'[c], Len(dbf'))
  <2> SUFFICES ASSUME NEW p \in Page, cache'[c][p] # NotCached
               PROVE  p <= Len(dbf)
    BY <1>1 DEF Within
  <2>1. p \in Nat /\ p <= tx[c].dbSize /\ cache[c][p] # NotCached
    BY <1>n, <1>3 DEF Page
  <2>2. tx[c].dbSize <= Len(dbf) \/ Within(cache[c], Len(dbf))
    BY <1>n, <1>1, <1>6
  <2> QED  BY <1>n, <2>1, <2>2 DEF Within
<1> QED
  BY <1>1, <1>2, <1>4, <1>5, <1>6, <1>7
     DEF SafeStep, CacheSound, HasJournal, Writer, CacheMod

LEMMA SafeSteps ==
    ASSUME SafeInv, "read" \notin FaultKinds, NEW c \in Conn,
           PagerStep(c) \/ Finish(c) \/ Work(c) \/ Crash(c)
    PROVE  SafeStep(c)
BY QuietSafe, ReadSafe, HeaderSafe, WriteSafe, SyncSafe, PagelistSafe,
   PhaseOneSafe, PlaybackSafe, RecordSafe, PlayedSafe, FinalizeSafe
   DEF PagerStep, Finish, Work

LEMMA SafeNext ==
    ASSUME Steady, SafeInv, [Next]_vars
    PROVE  SafeInv'
<1>0. TypeInv /\ TypeInv' /\ OwnInv
  BY TypeNext DEF SafeInv, OwnInv
<1>1. CASE Next
  <2>1. PICK c \in Conn : PagerStep(c) \/ Finish(c) \/ Work(c) \/ Crash(c)
    BY <1>1 DEF Next
  <2>2. StepOK(c)
    BY <1>0, <2>1, StepTypes
  <2>3. Vfs = "os_verix" => NoneLeft(c) /\ NoneLeft(c)'
    BY <1>0, <2>1, <2>2, NoneLeftStep DEF SafeInv, Steady
  <2>4. ForeignOK(c)'
    BY <1>0, <2>1, <2>2, <2>3, OwnStep DEF Steady, NoneLeft
  <2>5. JournalSound' /\ CacheSound(c)' /\ (HasJournal(c) => RecordsSound(c))'
    BY <2>1, SafeSteps DEF SafeStep, Steady
  <2>6. \A d \in Conn : d = c
    BY DEF Steady, Alone
  <2> QED  BY <1>0, <2>3, <2>4, <2>5, <2>6 DEF SafeInv, OwnInv
<1>2. CASE UNCHANGED vars
  <2>1. UNCHANGED <<dbf, jrnl, eState, pc, cache, tx>>
    BY <1>2 DEF vars
  <2>2. JournalSound' = JournalSound
    BY <2>1 DEF JournalSound
  <2>3. ASSUME NEW c \in Conn
        PROVE  /\ ForeignOK(c)' = ForeignOK(c) /\ NoneLeft(c)' = NoneLeft(c)
               /\ HasJournal(c)' = HasJournal(c)
               /\ RecordsSound(c)' = RecordsSound(c)
               /\ CacheSound(c)' = CacheSound(c)
    <3>1. HasJournal(c)' = HasJournal(c) /\ Records(c)' = Records(c)
      BY <2>1 DEF HasJournal, Records
    <3>2. ForeignOK(c)' = ForeignOK(c) /\ NoneLeft(c)' = NoneLeft(c)
      BY <2>1, <3>1 DEF ForeignOK, NoneLeft
    <3>3. RecordsSound(c)' = RecordsSound(c)
      BY <2>1, <3>1 DEF RecordsSound
    <3>4. /\ WorkSound(c)' = WorkSound(c) /\ PagesSound(c)' = PagesSound(c)
          /\ Waiting(c)' = Waiting(c) /\ PlaysToFile(c)' = PlaysToFile(c)
          /\ isHot(c)' = isHot(c)
      BY <2>1, <3>1
         DEF WorkSound, PagesSound, Waiting, PlaysToFile, isHot
    <3>5. PlaySound(c)' = PlaySound(c)
      BY <2>1, <3>4 DEF PlaySound, Restored
    <3>6. CacheSound(c)' = CacheSound(c)
      BY <2>1, <3>4, <3>5 DEF CacheSound, Restored
    <3> QED  BY <3>1, <3>2, <3>3, <3>6
  <2> QED  BY <1>0, <2>2, <2>3 DEF SafeInv, OwnInv
<1> QED  BY <1>1, <1>2

LEMMA SafeInit == Init => SafeInv
<1> SUFFICES ASSUME Init PROVE SafeInv
  OBVIOUS
<1>1. OwnInv
  BY TypeInit DEF OwnInv, ForeignOK, HasJournal, Init, CacheMod
<1>2. /\ jrnl = NoJournal /\ eState = [c \in Conn |-> "OPEN"]
      /\ pc = [c \in Conn |-> "idle"] /\ cache = [c \in Conn |-> EmptyCache]
  BY DEF Init
<1>3. JournalSound
  <2>1. jrnl.hdr = "absent" /\ jrnl.nRec = 0
    BY <1>2 DEF NoJournal
  <2> QED  BY <2>1 DEF JournalSound
<1>4. ASSUME NEW c \in Conn
      PROVE  CacheSound(c) /\ ~HasJournal(c) /\ NoneLeft(c)
  <2>1. eState[c] = "OPEN" /\ pc[c] = "idle" /\ cache[c] = EmptyCache
    BY <1>2
  <2>2. Agrees(EmptyCache, dbf, {}) /\ Within(EmptyCache, Len(dbf))
    BY DEF Agrees, Within, EmptyCache
  <2> QED
    BY <2>1, <2>2 DEF CacheSound, HasJournal, NoneLeft, Writer, CacheMod
<1> QED  BY <1>1, <1>3, <1>4 DEF SafeInv

-----------------------------------------------------------------------------
(* The database that a file and a journal stand for, as Committed has it.  *)
PageIn(file, p) == IF p <= Len(file) THEN file[p] ELSE 0

RecordsOf(j, p) == {i \in 1 .. j.nRec : j.recs[i].pg = p}

Plain(file) == [p \in 2 .. Len(file) |-> file[p]]

Value(file, j) ==
    IF j.hdr = "valid"
    THEN [p \in 2 .. j.mxPg |->
             IF RecordsOf(j, p) = {} THEN PageIn(file, p)
             ELSE j.recs[CHOOSE i \in RecordsOf(j, p) : TRUE].data]
    ELSE Plain(file)

LEMMA CommittedValue ==
    Committed = Value(dbf, jrnl) /\ Committed' = Value(dbf', jrnl')
BY DEF Committed, Original, PageOnDisk, Value, Plain, RecordsOf, PageIn

(* The journal undoes every change of the pages that it has a record of.   *)
LEMMA ValueKept ==
    ASSUME NEW f, NEW g, NEW j, j.hdr = "valid",
           \A p \in 2 .. j.mxPg :
               RecordsOf(j, p) = {} => PageIn(f, p) = PageIn(g, p)
    PROVE  Value(f, j) = Value(g, j)
BY DEF Value

(* A journal whose records are all in the file again may go.               *)
LEMMA ValuePlain ==
    ASSUME NEW f, NEW j, Len(f) \in Nat,
           \/ j.hdr # "valid"
           \/ /\ j.mxPg = Len(f)
              /\ \A i \in 1 .. j.nRec : j.recs[i].data = f[j.recs[i].pg]
    PROVE  Value(f, j) = Plain(f)
<1>1. CASE j.hdr # "valid"
  BY <1>1 DEF Value
<1>2. CASE /\ j.hdr = "valid" /\ j.mxPg = Len(f)
           /\ \A i \in 1 .. j.nRec : j.recs[i].data = f[j.recs[i].pg]
  <2>1. ASSUME NEW p \in 2 .. Len(f)
        PROVE  (IF RecordsOf(j, p) = {} THEN PageIn(f, p)
                ELSE j.recs[CHOOSE i \in RecordsOf(j, p) : TRUE].data) = f[p]
    <3>1. CASE RecordsOf(j, p) = {}
      BY <3>1 DEF PageIn
    <3>2. CASE RecordsOf(j, p) # {}
      <4> DEFINE i == CHOOSE k \in RecordsOf(j, p) : TRUE
      <4>1. i \in RecordsOf(j, p)
        BY <3>2
      <4>2. i \in 1 .. j.nRec /\ j.recs[i].pg = p
        BY <4>1 DEF RecordsOf
      <4> HIDE DEF i
      <4>3. j.recs[i].data = f[p]
        BY <1>2, <4>2
      <4> QED  BY <3>2, <4>3 DEF i
    <3> QED  BY <3>1, <3>2
  <2> QED  BY <1>2, <2>1 DEF Value, Plain
<1> QED  BY <1>1, <1>2

(* What a step may do to the database that the files stand for.            *)
CommitStep(c) ==
    \/ Committed' = Committed
    \/ eState[c] = "WRITER_FINISHED" /\ pc[c] = "end"
    \/ jrnl.hdr = "valid" /\ eState[c] \notin CacheMod /\ ~isHot(c)

(* Before the commit writes pages, the journal undoes nothing.             *)
LEMMA UnwrittenPlain ==
    ASSUME SafeInv, NEW c \in Conn, HasJournal(c),
           eState[c] = "WRITER_CACHEMOD"
    PROVE  Committed = Plain(dbf)
<1>1. RecordsSound(c)
  BY SafeOf
<1>2. jrnl.mxPg = Len(dbf) /\ jrnl.nRec = 0 /\ Len(dbf) \in Nat
  BY <1>1, Sizes DEF RecordsSound
<1>3. \A i \in 1 .. jrnl.nRec : jrnl.recs[i].data = dbf[jrnl.recs[i].pg]
  BY <1>2
<1> QED  BY <1>2, <1>3, ValuePlain, CommittedValue

(* The steps that change the journal.                                      *)
LEMMA JournalStep ==
    ASSUME SafeInv, SafeInv', NEW c \in Conn,
           \/ pager_open_journal(c) \/ writeJournalHdr(c) \/ syncJournal(c)
           \/ pager_incr_changecounter(c) \/ \E p \in Page : WritePage(c, p)
    PROVE  CommitStep(c)
<1>0. /\ TypeInv /\ eState \in [Conn -> EState] /\ pc \in [Conn -> PC]
      /\ Matches(eState[c], pc[c], eLock[c]) /\ jrnl \in JournalType
      /\ Len(dbf) \in Nat
  BY SafeOf, Sizes
<1>1. CASE pager_open_journal(c) \/ writeJournalHdr(c)
  <2>1. /\ dbf' = dbf /\ eState[c] = "WRITER_LOCKED"
        /\ jrnl' = jrnl \/ jrnl'.hdr # "valid"
    <3>1. CASE pager_open_journal(c)
      <4>1. jrnl' = jrnl \/ jrnl' = [NoJournal EXCEPT !.hdr = "empty"]
        BY <3>1 DEF pager_open_journal
      <4>2. [NoJournal EXCEPT !.hdr = "empty"].hdr = "empty"
        BY DEF NoJournal
      <4> QED  BY <3>1, <4>1, <4>2 DEF pager_open_journal
    <3>2. CASE writeJournalHdr(c)
      <4>1. \/ jrnl' = jrnl
            \/ \E init :
                   jrnl' = [hdr |-> "zeroed", nRec |-> 0, cksumInit |-> init,
                            mxPg |-> tx[c].dbOrigSize, recs |-> jrnl.recs]
            \/ jrnl' = [jrnl EXCEPT !.hdr = "zeroed", !.nRec = 0]
        BY <3>2 DEF writeJournalHdr
      <4>2. jrnl' = jrnl \/ jrnl'.hdr = "zeroed"
        <5>1. [jrnl EXCEPT !.hdr = "zeroed", !.nRec = 0].hdr = "zeroed"
          BY <1>0 DEF JournalType
        <5>2. \A init, m, r :
                  [hdr |-> "zeroed", nRec |-> 0, cksumInit |-> init,
                   mxPg |-> m, recs |-> r].hdr = "zeroed"
          OBVIOUS
        <5> QED  BY <4>1, <5>1, <5>2
      <4> QED  BY <1>0, <3>2, <4>2 DEF writeJournalHdr, Matches
    <3> QED  BY <1>1, <3>1, <3>2
  <2>2. CASE jrnl.hdr = "valid"
    BY <2>1, <2>2 DEF CommitStep, CacheMod, isHot
  <2>3. CASE jrnl.hdr # "valid"
    <3>1. Value(dbf, jrnl) = Plain(dbf) /\ Value(dbf', jrnl') = Plain(dbf)
      BY <2>1, <2>3 DEF Value
    <3> QED  BY <3>1, CommittedValue DEF CommitStep
  <2> QED  BY <2>2, <2>3
<1>2. CASE pager_incr_changecounter(c) \/ \E p \in Page : WritePage(c, p)
  <2>1. /\ HasJournal(c) /\ eState[c] = "WRITER_CACHEMOD"
        /\ dbf' = dbf
    BY <1>0, <1>2, PageWrites
  <2>2. RecordsSound(c)
    BY <2>1, SafeOf
  <2>3. jrnl'.mxPg = jrnl.mxPg /\ jrnl'.nRec = jrnl.nRec
    <3>1. PICK p, content, next :
              /\ p \in Page /\ pager_write(c, p, content, next)
              /\ p <= tx[c].dbOrigSize => cache[c][p] # NotCached
      BY <1>0, <1>2, PageWrites
    <3> QED  BY <1>0, <2>1, <3>1, WriteEffect
  <2>4. jrnl.mxPg = Len(dbf) /\ jrnl.nRec = 0
    BY <2>1, <2>2 DEF RecordsSound
  <2>5. Committed = Plain(dbf)
    BY <2>1, UnwrittenPlain
  <2>6. /\ jrnl'.mxPg = Len(dbf') /\ Len(dbf') \in Nat
        /\ \A i \in 1 .. jrnl'.nRec :
               jrnl'.recs[i].data = dbf'[jrnl'.recs[i].pg]
    BY <1>0, <2>1, <2>3, <2>4
  <2>7. Value(dbf', jrnl') = Plain(dbf')
    BY <2>6, ValuePlain
  <2> QED  BY <2>1, <2>5, <2>7, CommittedValue DEF CommitStep
<1>3. CASE syncJournal(c)
  <2>1. /\ HasJournal(c) /\ eState[c] = "WRITER_CACHEMOD" /\ dbf' = dbf
    BY <1>0, <1>3 DEF syncJournal, HasJournal, CacheMod, Matches
  <2>2. RecordsSound(c)
    BY <2>1, SafeOf
  <2>3. /\ jrnl'.mxPg = jrnl.mxPg /\ jrnl'.recs = jrnl.recs
        /\ jrnl'.nRec \in {jrnl.nRec, Records(c)}
    BY <1>0, <1>3 DEF syncJournal, JournalType, Records
  <2>4. /\ jrnl.mxPg = Len(dbf) /\ jrnl.nRec = 0
        /\ \A i \in 1 .. Records(c) :
               jrnl.recs[i].data = dbf[jrnl.recs[i].pg]
    BY <2>1, <2>2 DEF RecordsSound
  <2>5. Committed = Plain(dbf)
    BY <2>1, UnwrittenPlain
  <2>6. /\ jrnl'.mxPg = Len(dbf') /\ Len(dbf') \in Nat
        /\ \A i \in 1 .. jrnl'.nRec :
               jrnl'.recs[i].data = dbf'[jrnl'.recs[i].pg]
    BY <1>0, <2>1, <2>3, <2>4
  <2>7. Value(dbf', jrnl') = Plain(dbf')
    BY <2>6, ValuePlain
  <2> QED  BY <2>1, <2>5, <2>7, CommittedValue DEF CommitStep
<1> QED  BY <1>1, <1>2, <1>3

(* The steps that change the file.                                         *)
LEMMA FileStep ==
    ASSUME SafeInv, "read" \notin FaultKinds, NEW c \in Conn,
           \/ pager_write_pagelist(c) \/ pager_playback(c)
           \/ pager_playback_one_page(c)
    PROVE  CommitStep(c)
<1>0. /\ JournalSound /\ DiskOK
  BY SafeOf
<1>n. /\ Len(dbf) \in Nat /\ jrnl.mxPg \in Nat /\ jrnl.nRec \in Nat
      /\ \A q \in 1 .. Len(dbf) : dbf[q] \in Content
  BY Sizes
<1>1. jrnl' = jrnl
  BY DEF pager_write_pagelist, pager_playback, pager_playback_one_page
<1>2. CASE dbf' = dbf
  BY <1>1, <1>2, CommittedValue DEF CommitStep
<1>3. CASE /\ jrnl.hdr = "valid"
           /\ \A p \in 2 .. jrnl.mxPg :
                  RecordsOf(jrnl, p) = {} => PageIn(dbf, p) = PageIn(dbf', p)
  BY <1>1, <1>3, ValueKept, CommittedValue DEF CommitStep
<1>4. ASSUME NEW p \in Page, NEW content \in Content,
             dbf' = PutPage(p, content), p <= Len(dbf) + 1,
             jrnl.hdr = "valid",
             p <= jrnl.mxPg => RecordsOf(jrnl, p) # {}
      PROVE  CommitStep(c)
  <2>1. /\ Len(dbf') \in Nat /\ Len(dbf) <= Len(dbf')
        /\ \A q \in 1 .. Len(dbf') :
               dbf'[q] = IF q = p THEN content ELSE dbf[q]
    BY <1>0, <1>4, PutEffect
  <2>2. jrnl.mxPg <= Len(dbf)
    BY <1>0, <1>4 DEF JournalSound
  <2>3. ASSUME NEW q \in 2 .. jrnl.mxPg, RecordsOf(jrnl, q) = {}
        PROVE  PageIn(dbf, q) = PageIn(dbf', q)
    <3>1. q # p /\ q <= Len(dbf) /\ q <= Len(dbf') /\ q \in 1 .. Len(dbf')
      BY <1>n, <1>4, <2>1, <2>2, <2>3
    <3> QED  BY <2>1, <3>1 DEF PageIn
  <2> QED  BY <1>3, <1>4, <2>3
<1>5. CASE pager_write_pagelist(c)
  <2> DEFINE p == NextPage(c)
  <2>1. /\ pc[c] = "pages" /\ tx[c].todo # {}
        /\ \/ dbf' = PutPage(p, cache[c][p])
           \/ dbf' \in {dbf, PutPage(p, Garbage)}
    BY <1>5 DEF pager_write_pagelist, NextPage
  <2>2. /\ p \in tx[c].todo /\ p \in Page /\ cache[c][p] \in Content
        /\ p <= Len(dbf) + 1 /\ PagesSound(c) /\ RecordsSound(c)
        /\ eState[c] = "WRITER_DBMOD" /\ jrnl.hdr = "valid"
        /\ jrnl.mxPg = tx[c].dbOrigSize
    BY <2>1, NextPageFacts
  <2>3. Garbage \in Content
    BY PagerAssumption DEF Content, Garbage
  <2> HIDE DEF p
  <2>4. p <= jrnl.mxPg => RecordsOf(jrnl, p) # {}
    <3> SUFFICES ASSUME p <= jrnl.mxPg PROVE RecordsOf(jrnl, p) # {}
      OBVIOUS
    <3>1. p \in tx[c].inJournal
      BY <2>2 DEF PagesSound
    <3>2. PICK i \in 1 .. Records(c) : jrnl.recs[i].pg = p
      BY <2>2, <3>1 DEF RecordsSound
    <3>3. jrnl.nRec = Records(c)
      BY <2>2 DEF RecordsSound, DbMod
    <3>4. i \in RecordsOf(jrnl, p)
      BY <3>2, <3>3 DEF RecordsOf
    <3> QED  BY <3>4
  <2> DEFINE x == cache[c][p]
  <2>5. /\ x \in Content
        /\ dbf' = dbf \/ dbf' = PutPage(p, x) \/ dbf' = PutPage(p, Garbage)
    BY <2>1, <2>2
  <2> HIDE DEF x
  <2> QED  BY <1>2, <1>4, <2>2, <2>3, <2>4, <2>5
<1>6. CASE pager_playback(c)
  <2>1. CASE /\ dbf' = SubSeq(dbf, 1, jrnl.mxPg) /\ jrnl.hdr = "valid"
             /\ Len(dbf) > jrnl.mxPg
    <3>1. \A i \in 1 .. jrnl.mxPg : dbf[i] \in Content
      BY <1>n, <2>1
    <3>2. /\ Len(dbf') = jrnl.mxPg
          /\ \A i \in 1 .. jrnl.mxPg : dbf'[i] = dbf[i]
      BY <1>n, <2>1, <3>1, SubSeqProperties
    <3>3. ASSUME NEW q \in 2 .. jrnl.mxPg
          PROVE  PageIn(dbf, q) = PageIn(dbf', q)
      <4>1. q <= Len(dbf) /\ q <= Len(dbf') /\ q \in 1 .. jrnl.mxPg
        BY <1>n, <2>1, <3>2
      <4> QED  BY <3>2, <4>1 DEF PageIn
    <3> QED  BY <1>3, <2>1, <3>3
  <2> QED  BY <1>2, <1>6, <2>1 DEF pager_playback
<1>7. CASE pager_playback_one_page(c)
  <2> DEFINE p == jrnl.recs[tx[c].pos].pg
             x == jrnl.recs[tx[c].pos].data
  <2>1. pc[c] = "play" /\ tx[c].pos <= tx[c].n
    BY <1>7 DEF pager_playback_one_page
  <2>2. CASE ~PlaysToFile(c)
    <3>1. dbf' = dbf
      BY <1>7, <2>2 DEF pager_playback_one_page
    <3> QED  BY <1>2, <3>1
  <2>3. CASE PlaysToFile(c)
    <3>1. /\ PlaySound(c) /\ jrnl.recs[tx[c].pos] \in JournalRecord
          /\ tx[c].pos \in 1 .. jrnl.nRec
          /\ p <= tx[c].dbSize /\ Len(dbf) = tx[c].dbSize
      BY <2>1, <2>3, NextRecord
    <3>2. jrnl.hdr = "valid"
      BY <2>3, <3>1 DEF PlaySound
    <3>3. tx[c].pos \in RecordsOf(jrnl, p)
      BY <3>1 DEF RecordsOf
    <3>4. /\ p \in Page /\ x \in Content /\ Garbage \in Content
      BY <3>1, PagerAssumption DEF JournalRecord, Content, Garbage
    <3>5. p <= Len(dbf) + 1
      BY <1>n, <3>1, <3>4 DEF Page
    <3>6. dbf' = dbf \/ dbf' = PutPage(p, x) \/ dbf' = PutPage(p, Garbage)
      BY <1>7 DEF pager_playback_one_page
    <3> HIDE DEF p, x
    <3> QED  BY <1>2, <1>4, <3>2, <3>3, <3>4, <3>5, <3>6
  <2> QED  BY <2>2, <2>3
<1> QED  BY <1>5, <1>6, <1>7

(* The journal is deleted, or the deletion fails.                          *)
LEMMA DeleteStep ==
    ASSUME SafeInv, NEW c \in Conn, FinalizeJournal(c)
    PROVE  CommitStep(c)
<1>0. /\ CacheSound(c) /\ eState[c] \in EState
      /\ Matches(eState[c], pc[c], eLock[c])
      /\ HasJournal(c) => RecordsSound(c)
  BY SafeOf
<1>1. pc[c] = "end" /\ dbf' = dbf /\ jrnl' \in {jrnl, NoJournal}
  BY DEF FinalizeJournal
<1>2. CASE jrnl' = jrnl
  BY <1>1, <1>2, CommittedValue DEF CommitStep
<1>3. ASSUME jrnl' = NoJournal, Value(dbf, jrnl) = Plain(dbf)
      PROVE  CommitStep(c)
  <2>1. jrnl'.hdr = "absent"
    BY <1>3 DEF NoJournal
  <2>2. Value(dbf', jrnl') = Plain(dbf)
    BY <1>1, <2>1 DEF Value
  <2> QED  BY <1>3, <2>2, CommittedValue DEF CommitStep
<1>4. CASE jrnl' = NoJournal
  <2>1. CASE jrnl.hdr # "valid"
    BY <1>3, <1>4, <2>1 DEF Value
  <2>2. CASE jrnl.hdr = "valid" /\ PlaysToFile(c)
             /\ eState[c] # "WRITER_FINISHED"
    <3>1. Restored(jrnl.nRec)
      BY <1>0, <1>1, <2>2 DEF CacheSound
    <3>2. /\ jrnl.mxPg = Len(dbf) /\ Len(dbf) \in Nat
          /\ \A i \in 1 .. jrnl.nRec :
                 jrnl.recs[i].data = dbf[jrnl.recs[i].pg]
      BY <3>1, Sizes DEF Restored
    <3> QED  BY <1>3, <1>4, <3>2, ValuePlain
  <2>3. CASE eState[c] = "WRITER_CACHEMOD"
    <3>1. HasJournal(c)
      BY <1>1, <2>3 DEF HasJournal, CacheMod
    <3> QED  BY <1>3, <1>4, <2>3, <3>1, UnwrittenPlain, CommittedValue
  <2>4. CASE eState[c] = "WRITER_LOCKED" /\ jrnl.hdr = "valid"
    BY <2>4 DEF CommitStep, CacheMod, isHot
  <2>5. CASE eState[c] = "WRITER_FINISHED"
    BY <1>1, <2>5 DEF CommitStep
  <2>6. eState[c] \in {"OPEN"} \cup Writer
    BY <1>0, <1>1 DEF Matches
  <2> QED
    BY <2>1, <2>2, <2>3, <2>4, <2>5, <2>6
       DEF Writer, CacheMod, DbMod, PlaysToFile, isHot
<1> QED  BY <1>1, <1>2, <1>4

(* The other steps leave both files alone.                                 *)
LEMMA CommittedStep ==
    ASSUME SafeInv, SafeInv', "read" \notin FaultKinds, NEW c \in Conn,
           PagerStep(c) \/ Finish(c) \/ Work(c) \/ Crash(c)
    PROVE  CommitStep(c)
<1>1. CASE UNCHANGED diskVars
  BY <1>1, CommittedValue DEF diskVars, CommitStep
<1> QED
  BY <1>1, JournalStep, FileStep, DeleteStep
     DEF PagerStep, Finish, Work, hasHotJournal, HotLock, HotOpen,
         CheckVersion, CommitPhaseOneDone, PlaybackDone, EndTransaction,
         KeepReading, CommitNoChange, Rollback, pager_unlock, SharedLock,
         BeginWrite, BeginBusy, readDbPage, Crash

(* Whatever write, deletion or unlock fails and wherever a process ends,   *)
(* the database that file and journal stand for changes in one step only,  *)
(* the deletion of the journal at the end of a commit, or by the fate of a *)
(* journal that was left behind.  The connection is alone, since one that  *)
(* has lost its lock to a probe or at the end of a hot-journal rollback    *)
(* would go on from the half-written file of another; and reads do not     *)
(* fail, since pager_playback takes a failed read for the end of the       *)
(* journal.                                                                *)
THEOREM CommitIsAtomic ==
    ASSUME Steady
    PROVE  Spec => ChangesOnlyAtCommit
<1> DEFINE Atomic ==
        Committed' # Committed =>
            \/ \E c \in Conn : eState[c] = "WRITER_FINISHED" /\ pc[c] = "end"
            \/ Orphan
<1>1. Init => SafeInv
  BY SafeInit
<1>2. SafeInv /\ [Next]_vars => SafeInv'
  BY SafeNext
<1>3. SafeInv /\ SafeInv' /\ [Next]_vars => [Atomic]_vars
  <2> SUFFICES ASSUME SafeInv, SafeInv', Next PROVE Atomic
    OBVIOUS
  <2>1. PICK c \in Conn : PagerStep(c) \/ Finish(c) \/ Work(c) \/ Crash(c)
    BY DEF Next
  <2>2. CommitStep(c)
    BY <2>1, CommittedStep DEF Steady
  <2>3. \A d \in Conn : d = c
    BY DEF Steady, Alone
  <2> QED  BY <2>2, <2>3 DEF CommitStep, Orphan
<1> QED  BY <1>1, <1>2, <1>3, PTL DEF Spec, ChangesOnlyAtCommit

(* The same invariant says of the cache of a connection that is alone that *)
(* no failed write, rollback or commit leaves it with content that the     *)
(* file does not have: pager_unlock, FinalizeJournal and the playback      *)
(* forget what they cannot restore.                                        *)
THEOREM CacheSurvivesFaults ==
    ASSUME Steady
    PROVE  Spec => []CacheCurrent
<1>1. Init => SafeInv
  BY SafeInit
<1>2. SafeInv /\ [Next]_vars => SafeInv'
  BY SafeNext
<1>3. SafeInv => CacheCurrent
  <2> SUFFICES ASSUME SafeInv, NEW c \in Conn, NEW p \in Page,
                      eState[c] = "READER", pc[c] = "idle",
                      cache[c][p] # NotCached
               PROVE  p <= Len(dbf) /\ cache[c][p] = dbf[p]
    BY DEF CacheCurrent
  <2>1. Agrees(cache[c], dbf, {}) /\ Within(cache[c], Len(dbf))
    BY SafeOf DEF CacheSound
  <2> QED  BY <2>1 DEF Agrees, Within
<1> QED  BY <1>1, <1>2, <1>3, PTL DEF Spec
-----------------------------------------------------------------------------
(* Over os_verix.c a connection that is alone implements TxnDb with every  *)
(* fault, since no journal is overlooked.                                  *)
Recovering == Alone /\ Vfs = "os_verix"

LEMMA RecoveringSteady == Recovering => Steady
BY OldVfsAssumption DEF Recovering, Steady

(* Nothing but a commit changes the database: no journal is left behind    *)
(* that another transaction could write over.                              *)
LEMMA DbKept ==
    ASSUME Recovering, SafeInv, SafeInv', NEW c \in Conn,
           PagerStep(c) \/ Finish(c) \/ Work(c) \/ Crash(c),
           ~(eState[c] = "WRITER_FINISHED" /\ pc[c] = "end")
    PROVE  Committed' = Committed
<1>1. CommitStep(c)
  BY CommittedStep, RecoveringSteady DEF Steady
<1>2. CASE jrnl.hdr = "valid" /\ eState[c] \notin CacheMod /\ ~isHot(c)
  <2>1. eState[c] \in {"READER", "ERROR", "WRITER_LOCKED"} /\ NoneLeft(c)
    BY <1>2, SafeOf DEF EState, Writer, isHot, SafeInv, Recovering
  <2>2. eState[c] = "ERROR"
    BY <1>2, <2>1 DEF NoneLeft, NoJournal
  <2>3. pager_unlock(c) \/ Crash(c)
    <3>1. pc[c] = "idle"
      BY <2>2, SafeOf DEF Matches, PC, Writer, CacheMod
    <3> QED
      BY <2>2, <3>1
         DEF PagerStep, Finish, Work, hasHotJournal, HotLock, HotOpen,
             CheckVersion, writeJournalHdr, syncJournal, pager_write_pagelist,
             CommitPhaseOneDone, pager_playback, pager_playback_one_page,
             PlaybackDone, FinalizeJournal, EndTransaction, KeepReading,
             pager_incr_changecounter, CommitNoChange, Rollback, SharedLock,
             BeginWrite, BeginBusy, pager_open_journal, readDbPage, WritePage,
             Writer, CacheMod
  <2>4. UNCHANGED diskVars
    BY <2>3 DEF pager_unlock, Crash
  <2> QED  BY <2>4, CommittedSame DEF diskVars
<1> QED  BY <1>1, <1>2 DEF CommitStep

(* A transaction ends without effect, or there was none.                   *)
LEMMA EndsTxn ==
    ASSUME NEW c \in Conn, ~InTransaction(c)', Committed' = Committed
    PROVE  TxnStep(c)
<1>1. CASE InTransaction(c)
  BY <1>1, ModeView DEF TxnStep
<1>2. CASE ~InTransaction(c)
  BY <1>2, NoTxn
<1> QED  BY <1>1, <1>2

(* Whoever has a clean cache sees the file.                                *)
LEMMA CleanView ==
    ASSUME NEW pages, NEW file, Len(file) \in Nat, Len(file) <= MaxPage,
           Agrees(pages, file, {})
    PROVE  [p \in 2 .. Len(file) |->
               IF pages[p] # NotCached THEN pages[p] ELSE PageIn(file, p)]
           = Plain(file)
<1>1. ASSUME NEW p \in 2 .. Len(file)
      PROVE  (IF pages[p] # NotCached THEN pages[p] ELSE PageIn(file, p))
             = file[p]
  <2>1. p \in Page \ {} /\ p <= Len(file)
    BY PagerAssumption DEF Page
  <2> QED  BY <2>1 DEF Agrees, PageIn
<1> QED  BY <1>1 DEF Plain

(* A read transaction begins, by a new one or by a statement that goes on. *)
LEMMA BeginsReading ==
    ASSUME Recovering, SafeInv, SafeInv', NEW c \in Conn,
           CheckVersion(c) \/ KeepReading(c), Committed' = Committed
    PROVE  TxnStep(c)
<1>1. /\ ~InTransaction(c) /\ eState'[c] = "READER" /\ pc'[c] = "idle"
  BY SafeOf DEF CheckVersion, KeepReading, InTransaction, Matches, Goto,
     Writer, CacheMod
<1>2. InTransaction(c)' /\ Mode(c) = "none" /\ Mode(c)' = "read"
  BY <1>1, ModeView DEF InTransaction, Mode
<1>3. NoneLeft(c)' /\ CacheSound(c)' /\ TypeInv'
  BY DEF SafeInv, Recovering, OwnInv
<1>4. /\ jrnl' = NoJournal /\ tx'[c].dbSize = Len(dbf')
      /\ Agrees(cache'[c], dbf', {})
      /\ Len(dbf') \in Nat /\ Len(dbf') <= MaxPage
  BY <1>1, <1>3, PagerAssumption
     DEF NoneLeft, CacheSound, TypeInv, DiskOK, Page
<1>5. View(c)' = [p \in 2 .. Len(dbf') |->
                     IF cache'[c][p] # NotCached THEN cache'[c][p]
                     ELSE PageIn(dbf', p)]
  BY <1>2, <1>4 DEF View, PageOnDisk, PageIn
<1>6. View(c)' = Plain(dbf')
  BY <1>4, <1>5, CleanView
<1>7. Committed' = Plain(dbf')
  BY <1>4, CommittedValue DEF Value, NoJournal
<1> QED  BY <1>2, <1>6, <1>7 DEF TxnStep

(* A reader that begins to write sees the committed database.              *)
LEMMA BeginsWriting ==
    ASSUME Recovering, SafeInv, NEW c \in Conn, BeginWrite(c),
           Committed' = Committed
    PROVE  TxnStep(c)
<1>1. /\ pc[c] = "idle" /\ eState[c] = "READER"
      /\ UNCHANGED <<dbf, jrnl, pc, cache>>
      /\ tx'[c].dbSize = tx[c].dbSize
      /\ eState'[c] = "WRITER_LOCKED"
  BY SafeOf DEF BeginWrite, diskVars, TxType
<1>2. /\ InTransaction(c) /\ InTransaction(c)'
      /\ Mode(c) = "read" /\ Mode(c)' = "write"
  BY <1>1 DEF InTransaction, Mode, Writer
<1>3. /\ jrnl = NoJournal /\ tx[c].dbSize = Len(dbf)
      /\ Agrees(cache[c], dbf, {}) /\ Len(dbf) \in Nat /\ Len(dbf) <= MaxPage
  BY <1>1, SafeOf, Sizes DEF NoneLeft, CacheSound, SafeInv, Recovering
<1>4. View(c) = [p \in 2 .. Len(dbf) |->
                    IF cache[c][p] # NotCached THEN cache[c][p]
                    ELSE PageIn(dbf, p)]
  BY <1>2, <1>3 DEF View, PageOnDisk, PageIn
<1>5. View(c) = Plain(dbf)
  BY <1>3, <1>4, CleanView
<1>6. Committed = Plain(dbf)
  BY <1>3, CommittedValue DEF Value, NoJournal
<1>7. View(c)' = View(c)
  BY <1>1, <1>2 DEF View, PageOnDisk
<1>8. \A d \in Conn : Mode(d) # "write"
  BY <1>2 DEF Recovering, Alone
<1> QED  BY <1>2, <1>5, <1>6, <1>7, <1>8 DEF TxnStep

(* A page that is fetched is what the transaction saw before.              *)
LEMMA FetchesPage ==
    ASSUME Recovering, SafeInv, NEW c \in Conn, NEW p \in Page,
           readDbPage(c, p), Committed' = Committed
    PROVE  TxnStep(c)
<1>1. /\ pc[c] = "idle" /\ UNCHANGED <<dbf, jrnl, eState, pc, tx>>
      /\ cache[c][p] = NotCached
      /\ cache' = [cache EXCEPT ![c][p] = PageOnDisk(p)]
  BY RecoveringSteady DEF readDbPage, diskVars, Fault, Steady
<1>2. \A q \in Page : cache'[c][q] = IF q = p THEN PageOnDisk(p)
                                     ELSE cache[c][q]
  BY <1>1, SafeOf DEF Pages
<1>3. Mode(c)' = Mode(c) /\ (InTransaction(c)' <=> InTransaction(c))
  BY <1>1 DEF Mode, InTransaction
<1>4. \A q \in 2 .. tx[c].dbSize : q \in Page
  BY Sizes DEF Page
<1>5. /\ \A q : PageOnDisk(q)' = PageOnDisk(q)
      /\ tx'[c].dbSize = tx[c].dbSize
  BY <1>1 DEF PageOnDisk
<1>6. \A q \in 2 .. tx[c].dbSize :
          (IF cache'[c][q] # NotCached THEN cache'[c][q] ELSE PageOnDisk(q)')
          = (IF cache[c][q] # NotCached THEN cache[c][q] ELSE PageOnDisk(q))
  BY <1>1, <1>2, <1>4, <1>5
<1>7. View(c)' = View(c)
  BY <1>3, <1>5, <1>6 DEF View
<1> QED  BY <1>3, <1>7 DEF TxnStep

(* The journal's header, its sync and the end of phase one change nothing  *)
(* that the transaction sees, even if they fail.                           *)
LEMMA KeepsView ==
    ASSUME SafeInv, NEW c \in Conn,
           \/ pager_open_journal(c) \/ writeJournalHdr(c)
           \/ syncJournal(c) \/ CommitPhaseOneDone(c),
           Committed' = Committed
    PROVE  TxnStep(c)
<1>1. /\ eState \in [Conn -> EState] /\ pc \in [Conn -> PC]
      /\ tx \in [Conn -> TxType] /\ tx[c] \in TxType
      /\ Matches(eState[c], pc[c], eLock[c])
  BY SafeOf
<1>2. /\ UNCHANGED <<dbf, cache>>
      /\ eState[c] \in Writer /\ eState'[c] \in Writer
  BY <1>1 DEF pager_open_journal, writeJournalHdr, syncJournal,
     CommitPhaseOneDone, diskVars, Matches, Writer, CacheMod
<1>3. tx'[c].dbSize = tx[c].dbSize
  BY <1>1 DEF pager_open_journal, writeJournalHdr, syncJournal,
     CommitPhaseOneDone, TxType
<1>4. /\ pc[c] \in {"idle", "jhdr", "sync", "pages"}
      /\ \/ pc'[c] \in {"jhdr", "jpage", "pages", "err"}
         \/ pc'[c] = "end" /\ eState'[c] = "WRITER_FINISHED"
  BY <1>1 DEF pager_open_journal, writeJournalHdr, syncJournal,
     CommitPhaseOneDone, Goto
<1>5. InTransaction(c) /\ InTransaction(c)'
  BY <1>2, <1>4 DEF InTransaction
<1>6. \A q : PageOnDisk(q)' = PageOnDisk(q)
  BY <1>2 DEF PageOnDisk
<1> QED  BY <1>2, <1>3, <1>5, <1>6, StillWriting

(* A page change is a write of the transaction; page 1 is not one of the   *)
(* pages it sees, and a change that fails is none.                         *)
LEMMA ChangesPage ==
    ASSUME SafeInv, NEW c \in Conn,
           pager_incr_changecounter(c) \/ \E p \in Page : WritePage(c, p),
           Committed' = Committed
    PROVE  TxnStep(c)
<1>1. /\ eState[c] = "WRITER_CACHEMOD" /\ pc[c] \in {"idle", "jpage"}
      /\ UNCHANGED <<dbf, eState>>
  BY SafeOf, PageWrites
<1>2. PICK p, content, next :
          /\ p \in Page /\ pager_write(c, p, content, next)
          /\ \/ p = 1 /\ next = "sync"
             \/ next = "idle" /\ Writable(c, p)
  BY SafeOf, PageWrites
<1>3. /\ pc \in [Conn -> PC] /\ tx \in [Conn -> TxType] /\ tx[c] \in TxType
      /\ cache \in [Conn -> Pages] /\ cache[c] \in Pages
      /\ p \in Nat /\ tx[c].dbSize \in Nat /\ tx[c].dbSize <= MaxPage
      /\ MaxPage \in Nat
  BY <1>2, SafeOf, Sizes DEF Page
<1>4. WorkSound(c) /\ tx[c].dbSize >= 1
  BY <1>1, SafeOf DEF CacheSound, TxOK, Writer, CacheMod
<1>5. pc'[c] \in {"sync", "idle", "err"}
  BY <1>2, <1>3 DEF pager_write, Goto
<1>6. /\ InTransaction(c) /\ InTransaction(c)'
      /\ Mode(c) = "write" /\ Mode(c)' = "write"
  BY <1>1, <1>5 DEF InTransaction, Mode, Writer, CacheMod
<1>7. \A q : PageOnDisk(q)' = PageOnDisk(q)
  BY <1>1 DEF PageOnDisk
<1>8. CASE cache' = cache /\ tx'[c].dbSize = tx[c].dbSize
  BY <1>1, <1>6, <1>7, <1>8, StillWriting DEF Writer, CacheMod
<1> DEFINE size == IF p > tx[c].dbSize THEN p ELSE tx[c].dbSize
<1>9. CASE /\ cache' = [cache EXCEPT ![c][p] = content]
           /\ tx'[c].dbSize = size
  <2>1. \A q \in Page : cache'[c][q] = IF q = p THEN content
                                       ELSE cache[c][q]
    BY <1>2, <1>3, <1>9 DEF Pages
  <2>2. DOMAIN View(c) = 2 .. tx[c].dbSize /\ DOMAIN View(c)' = 2 .. size
    BY <1>6, <1>9 DEF View
  <2>3. ASSUME NEW q \in 2 .. tx[c].dbSize, q # p
        PROVE  View(c)'[q] = View(c)[q]
    <3>1. q \in Page /\ q \in 2 .. size
      BY <1>3 DEF Page
    <3>2. cache'[c][q] = cache[c][q] /\ PageOnDisk(q)' = PageOnDisk(q)
      BY <1>7, <2>1, <2>3, <3>1
    <3> HIDE DEF size
    <3> QED  BY <1>6, <1>9, <3>1, <3>2 DEF View
  <2>4. CASE p = 1
    <3>1. size = tx[c].dbSize
      BY <1>3, <1>4, <2>4
    <3>2. \A q \in 2 .. tx[c].dbSize : q # p /\ q \in Page
      BY <1>3, <2>4 DEF Page
    <3>3. \A q \in 2 .. tx[c].dbSize : cache'[c][q] = cache[c][q]
      BY <2>1, <3>2
    <3> HIDE DEF size
    <3> QED
      BY <1>1, <1>6, <1>7, <1>9, <3>1, <3>3, StillWriting
         DEF Writer, CacheMod
  <2>5. CASE p > 1 /\ Writable(c, p)
    <3>1. p <= tx[c].dbSize + 1
      BY <1>2, <1>3, <1>4, <2>5 DEF Writable, WorkSound, Within
    <3>2. /\ p \in 2 .. size
          /\ 2 .. size \in {2 .. tx[c].dbSize, (2 .. tx[c].dbSize) \cup {p}}
      <4>1. CASE p <= tx[c].dbSize
        BY <1>3, <2>5, <4>1
      <4>2. CASE p > tx[c].dbSize
        <5>1. p = tx[c].dbSize + 1 /\ size = p
          BY <1>3, <3>1, <4>2
        <5> QED  BY <1>3, <2>5, <5>1
      <4> QED  BY <1>3, <4>1, <4>2
    <3> HIDE DEF size
    <3> QED  BY <1>6, <2>2, <2>3, <3>2 DEF TxnStep
  <2> QED  BY <1>2, <2>4, <2>5 DEF Writable
<1>10. \/ /\ cache' = [cache EXCEPT ![c][p] = content]
          /\ tx'[c].dbSize = size
       \/ cache' = cache /\ tx'[c].dbSize = tx[c].dbSize
  <2>1. CASE /\ cache' = [cache EXCEPT ![c][p] = content]
             /\ tx' = [tx EXCEPT
                          ![c].inJournal = IF NeedsRecord(c, p)
                                           THEN @ \cup {p} ELSE @,
                          ![c].dirty = @ \cup {p},
                          ![c].dbSize = IF p > @ THEN p ELSE @]
    <3> DEFINE own == IF NeedsRecord(c, p) THEN tx[c].inJournal \cup {p}
                      ELSE tx[c].inJournal
               dirty == tx[c].dirty \cup {p}
    <3>1. tx' = [tx EXCEPT ![c].inJournal = own, ![c].dirty = dirty,
                           ![c].dbSize = size]
      BY <2>1
    <3> HIDE DEF own, dirty, size
    <3>2. tx'[c].dbSize = size
      BY <1>3, <3>1 DEF TxType
    <3> QED  BY <2>1, <3>2
  <2>2. CASE cache' = cache /\ tx' = [tx EXCEPT ![c].dirty = @ \cup {p}]
    BY <1>3, <2>2 DEF TxType
  <2> QED  BY <1>2, <2>1, <2>2 DEF pager_write
<1> QED  BY <1>8, <1>9, <1>10

(* A page write of the commit, or a failed one: the transaction sees the   *)
(* page in its cache.                                                      *)
LEMMA WritesFile ==
    ASSUME SafeInv, NEW c \in Conn, pager_write_pagelist(c),
           Committed' = Committed
    PROVE  TxnStep(c)
<1> DEFINE p == NextPage(c)
<1>1. /\ pc[c] = "pages" /\ tx[c].todo # {} /\ UNCHANGED <<cache, eState>>
      /\ dbf' \in {dbf, PutPage(p, cache[c][p]), PutPage(p, Garbage)}
      /\ pc'[c] \in {"pages", "err"} /\ tx'[c].dbSize = tx[c].dbSize
  BY SafeOf DEF pager_write_pagelist, NextPage, Goto, TxType
<1>2. /\ p \in tx[c].todo /\ p \in Page /\ cache[c][p] \in Content
      /\ p <= Len(dbf) + 1 /\ eState[c] = "WRITER_DBMOD"
      /\ cache[c][p] # NotCached
  BY <1>1, NextPageFacts, SafeOf DEF TxOK
<1>3. Garbage \in Content /\ DiskOK
  BY PagerAssumption, SafeOf DEF Content, Garbage
<1> HIDE DEF p
<1>4. ASSUME NEW q \in Nat, q >= 1, q # p
      PROVE  PageOnDisk(q)' = PageOnDisk(q)
  <2>1. CASE dbf' = dbf
    BY <2>1 DEF PageOnDisk
  <2>2. ASSUME NEW x \in Content, dbf' = PutPage(p, x)
        PROVE  PageOnDisk(q)' = PageOnDisk(q)
    <3>1. /\ Len(dbf) \in Nat /\ Len(dbf') \in Nat /\ p \in Nat
          /\ Len(dbf') = IF p <= Len(dbf) THEN Len(dbf) ELSE p
          /\ \A k \in 1 .. Len(dbf') : dbf'[k] = IF k = p THEN x ELSE dbf[k]
      BY <1>2, <1>3, <2>2, PutEffect DEF Page
    <3>2. q <= Len(dbf') <=> q <= Len(dbf)
      BY <1>2, <1>4, <3>1
    <3>3. q <= Len(dbf') => dbf'[q] = dbf[q]
      BY <1>4, <3>1
    <3> QED  BY <3>2, <3>3 DEF PageOnDisk
  <2> DEFINE y == cache[c][p]
  <2>3. y \in Content /\ dbf' \in {dbf, PutPage(p, y), PutPage(p, Garbage)}
    BY <1>1, <1>2 DEF p
  <2> HIDE DEF y
  <2> QED  BY <1>3, <2>1, <2>2, <2>3
<1>5. InTransaction(c) /\ InTransaction(c)'
  BY <1>1, <1>2 DEF InTransaction, Writer, CacheMod
<1>6. \A q \in 2 .. tx[c].dbSize :
          (IF cache'[c][q] # NotCached THEN cache'[c][q] ELSE PageOnDisk(q)')
          = (IF cache[c][q] # NotCached THEN cache[c][q] ELSE PageOnDisk(q))
  <2>1. \A q \in 2 .. tx[c].dbSize : q \in Nat /\ q >= 1
    BY Sizes
  <2> QED  BY <1>1, <1>2, <1>4, <2>1
<1> QED  BY <1>1, <1>2, <1>5, <1>6, StillWriting DEF Writer, CacheMod

(* The steps before, between and after transactions, and those that give   *)
(* one up: a rollback, a failure and the end of the process among them.    *)
LEMMA OutsideTxn ==
    ASSUME SafeInv, NEW c \in Conn, Committed' = Committed,
           \/ SharedLock(c) \/ hasHotJournal(c) \/ HotLock(c) \/ HotOpen(c)
           \/ BeginBusy(c) \/ CommitNoChange(c) \/ Rollback(c)
           \/ pager_playback(c) \/ pager_playback_one_page(c)
           \/ PlaybackDone(c) \/ EndTransaction(c) \/ pager_unlock(c)
           \/ Crash(c)
    PROVE  TxnStep(c)
<1>1. /\ eState \in [Conn -> EState] /\ pc \in [Conn -> PC]
      /\ Matches(eState[c], pc[c], eLock[c])
      /\ eState[c] = "WRITER_FINISHED" => pc[c] \in {"end", "unlock"}
  BY SafeOf DEF CacheSound
<1>2. CASE SharedLock(c) \/ hasHotJournal(c) \/ HotLock(c) \/ HotOpen(c)
  <2>1. eState'[c] = "OPEN"
    BY <1>1, <1>2 DEF SharedLock, hasHotJournal, HotLock, HotOpen, Matches
  <2> QED  BY <2>1, EndsTxn DEF InTransaction, Writer, CacheMod
<1>3. CASE BeginBusy(c) \/ CommitNoChange(c) \/ Rollback(c)
  <2>1. \/ pc'[c] \in {"failed", "playback"}
        \/ pc'[c] = "end" /\ eState'[c] = "WRITER_LOCKED"
    BY <1>1, <1>3 DEF BeginBusy, CommitNoChange, Rollback, Goto
  <2> QED  BY <2>1, EndsTxn DEF InTransaction
<1>4. CASE \/ pager_playback(c) \/ pager_playback_one_page(c)
           \/ PlaybackDone(c)
  <2>1. eState[c] # "WRITER_FINISHED" /\ pc[c] \in {"playback", "play"}
    BY <1>1, <1>4
       DEF pager_playback, pager_playback_one_page, PlaybackDone
  <2>2. \/ pc'[c] \in {"play", "end"} /\ eState' = eState
        \/ eState'[c] = "ERROR"
    BY <1>1, <1>4
       DEF pager_playback, pager_playback_one_page, PlaybackDone, Goto,
           ToError
  <2> QED  BY <2>1, <2>2, EndsTxn DEF InTransaction, Writer, CacheMod
<1>5. CASE EndTransaction(c)
  <2>1. pc'[c] = "done" \/ eState'[c] \in {"OPEN", "ERROR"}
    BY <1>1, <1>5 DEF EndTransaction, Goto, ToError
  <2> QED  BY <2>1, EndsTxn DEF InTransaction, Writer, CacheMod
<1>6. CASE pager_unlock(c) \/ Crash(c)
  <2>1. eState'[c] = "OPEN"
    BY <1>1, <1>6 DEF pager_unlock, Crash
  <2> QED  BY <2>1, EndsTxn DEF InTransaction, Writer, CacheMod
<1> QED  BY <1>2, <1>3, <1>4, <1>5, <1>6

(* The deletion of the journal puts what the writer saw in the place of    *)
(* the database, and a deletion that fails leaves the database as it was.  *)
LEMMA DeletesJournal ==
    ASSUME Recovering, SafeInv, SafeInv', NEW c \in Conn, FinalizeJournal(c)
    PROVE  TxnStep(c)
<1>1. /\ pc[c] = "end" /\ pc'[c] = "unlock" /\ UNCHANGED <<dbf, eState>>
  BY SafeOf DEF FinalizeJournal, Goto
<1>2. ~InTransaction(c)'
  BY <1>1 DEF InTransaction
<1>3. CASE eState[c] # "WRITER_FINISHED"
  <2>1. Committed' = Committed
    BY <1>3, DbKept DEF PagerStep
  <2> QED  BY <1>2, <2>1, EndsTxn
<1>4. CASE eState[c] = "WRITER_FINISHED" /\ jrnl' = jrnl
  BY <1>1, <1>2, <1>4, CommittedSame, EndsTxn
<1>5. CASE eState[c] = "WRITER_FINISHED" /\ jrnl' # jrnl
  <2>1. jrnl' = NoJournal
    BY <1>5 DEF FinalizeJournal
  <2>2. InTransaction(c) /\ Mode(c) = "write" /\ Mode(c)' = "none"
    BY <1>1, <1>2, <1>5 DEF InTransaction, Mode, Writer, CacheMod
  <2>3. /\ tx[c].dbSize = Len(dbf) /\ Agrees(cache[c], dbf, {})
        /\ Len(dbf) \in Nat /\ Len(dbf) <= MaxPage
    BY <1>1, <1>5, SafeOf, Sizes DEF CacheSound, Writer, CacheMod
  <2>4. View(c) = [p \in 2 .. Len(dbf) |->
                      IF cache[c][p] # NotCached THEN cache[c][p]
                      ELSE PageIn(dbf, p)]
    BY <2>2, <2>3 DEF View, PageOnDisk, PageIn
  <2>5. View(c) = Plain(dbf)
    BY <2>3, <2>4, CleanView
  <2>6. Committed' = Plain(dbf)
    BY <1>1, <2>1, CommittedValue DEF Value, NoJournal
  <2> QED  BY <2>2, <2>5, <2>6 DEF TxnStep
<1> QED  BY <1>3, <1>4, <1>5

LEMMA RecoveringStep ==
    ASSUME Recovering, SafeInv, SafeInv', [Next]_vars
    PROVE  [Txn!TxnNext]_(Txn!txnVars)
<1>1. CASE Next
  <2>1. PICK c \in Conn : PagerStep(c) \/ Finish(c) \/ Work(c) \/ Crash(c)
    BY <1>1 DEF Next
  <2>2. ASSUME ~FinalizeJournal(c), ~EndTransaction(c), ~Crash(c)
        PROVE  ~(eState[c] = "WRITER_FINISHED" /\ pc[c] = "end")
    BY <2>1, <2>2
       DEF PagerStep, Finish, Work, hasHotJournal, HotLock, HotOpen,
           CheckVersion, writeJournalHdr, syncJournal,
           pager_write_pagelist, CommitPhaseOneDone, pager_playback,
           pager_playback_one_page, PlaybackDone, KeepReading,
           pager_incr_changecounter, CommitNoChange, Rollback,
           pager_unlock, SharedLock, BeginWrite, BeginBusy,
           pager_open_journal, readDbPage, WritePage
  <2>3. ~FinalizeJournal(c) => Committed' = Committed
    <3>1. CASE EndTransaction(c) \/ Crash(c)
      <4>1. UNCHANGED diskVars
        BY <3>1 DEF EndTransaction, Crash
      <4> QED  BY <4>1, CommittedSame DEF diskVars
    <3> QED  BY <2>1, <2>2, <3>1, DbKept
  <2>4. TxnStep(c)
    <3>1. CASE PagerStep(c)
      BY <2>3, <3>1, DeletesJournal, OutsideTxn, BeginsReading, KeepsView,
         WritesFile DEF PagerStep
    <3>2. CASE Finish(c) /\ ~FinalizeJournal(c)
      BY <2>3, <3>2, OutsideTxn, ChangesPage DEF Finish
    <3>3. CASE Work(c) /\ ~FinalizeJournal(c)
      BY <2>3, <3>3, OutsideTxn, BeginsWriting, KeepsView, FetchesPage,
         ChangesPage DEF Work
    <3>4. CASE FinalizeJournal(c)
      BY <3>4, DeletesJournal
    <3>5. CASE Crash(c) /\ ~FinalizeJournal(c)
      BY <2>3, <3>5, OutsideTxn
    <3> QED  BY <2>1, <3>1, <3>2, <3>3, <3>4, <3>5
  <2>5. \A d \in Conn \ {c} : FALSE
    BY DEF Recovering, Alone
  <2> QED  BY <2>4, <2>5, TxnStepRefines
<1>2. CASE UNCHANGED vars
  <2>1. UNCHANGED <<dbf, jrnl, eState, pc, cache, tx>>
    BY <1>2 DEF vars
  <2>2. Committed' = Committed
    BY <2>1, CommittedSame
  <2>3. \A c \in Conn : Mode(c)' = Mode(c) /\ View(c)' = View(c)
    BY <2>1 DEF Mode, View, InTransaction, PageOnDisk
  <2> QED  BY <2>2, <2>3 DEF Txn!txnVars
<1> QED  BY <1>1, <1>2

(* Over os_verix.c the pager of a connection that is alone implements      *)
(* TxnDb whatever write or deletion fails and wherever the process ends:   *)
(* no transaction is applied in part, and one that has begun to write the  *)
(* file is undone before the next begins.  verix.c is left out because its *)
(* probe makes hasHotJournal overlook the journal of a dead process.       *)
THEOREM RecoveryIsSerializable ==
    ASSUME Recovering
    PROVE  Spec => Serializable
<1>1. Init => SafeInv
  BY SafeInit
<1>2. SafeInv /\ [Next]_vars => SafeInv'
  BY SafeNext, RecoveringSteady
<1>3. Init => Txn!TxnInit
  <2> SUFFICES ASSUME Init PROVE Txn!TxnInit
    OBVIOUS
  <2>1. \A c \in Conn : Mode(c) = "none"
    BY DEF Init, Mode, InTransaction, Writer, CacheMod
  <2>2. \A c \in Conn : View(c) = [p \in {} |-> 0]
    BY <2>1, ModeView
  <2> QED  BY <2>1, <2>2 DEF Txn!TxnInit, Txn!NoView
<1>4. SafeInv /\ SafeInv' /\ [Next]_vars => [Txn!TxnNext]_(Txn!txnVars)
  BY RecoveringStep
<1> QED
  BY <1>1, <1>2, <1>3, <1>4, PTL DEF Spec, Serializable, Txn!TxnSpec
=============================================================================

--------------------------- MODULE MasterJournal ---------------------------
(***************************************************************************)
(* The commit of a transaction on several attached databases.  vdbeCommit  *)
(* writes a master journal with the names of the databases' journals, puts *)
(* its name at the end of each of these, and commits by deleting it: a     *)
(* journal that names a master journal which does not exist is not played  *)
(* back.  The process may end at any point, and each database is recovered *)
(* on its own, by whoever reads it next, so that recoveries of the several *)
(* databases run side by side and beside new transactions.                 *)
(*                                                                         *)
(* A database file is represented by the transaction whose version it      *)
(* holds.  The locks that keep two processes from writing to, or           *)
(* recovering, one database at the same time are in Pager.tla; journals    *)
(* are deleted at the end of a transaction (journal_mode=DELETE).          *)
(*                                                                         *)
(* The name of a master journal is random.  It stands here for the         *)
(* transaction, so that no two transactions draw the same name.            *)
(***************************************************************************)
CONSTANTS
    Db,     \* the database files
    Txn,    \* the transactions
    NoTxn,  \* no transaction, no master journal; the version at the start
    Mixed,  \* a file of which some pages have been written
    NoDb

ASSUME MasterJournalAssumption ==
    NoTxn \notin Txn /\ Mixed \notin Txn /\ Mixed # NoTxn /\ NoDb \notin Db

VARIABLES
    file,   \* the version that each database file holds, or Mixed
    has,    \* the databases that have a journal file
    orig,   \* the version that a journal brings back
    hdr,    \* the databases whose journal has a complete header: magic, nRec
    ref,    \* the master journal whose name is at the end of each journal
    exists, \* the master journal files
    names,  \* the databases whose journals a master journal file lists
    txn,    \* the transaction of the writing connection
    parts,  \* the databases it has written to
    used,   \* the transactions there have been
    wpc,    \* where the writing connection is in vdbeCommit
    at,     \* the database that is in sqlite3PagerCommitPhaseOne
    todo,   \* the databases that the current loop of vdbeCommit has ahead
    rb,     \* where pager_playback is, for each database
    zMaster,\* the name that pager_playback has read
    child   \* the names that pager_delmaster has yet to look at

dbVars == <<file, has, orig, hdr, ref>>
masterVars == <<exists, names>>
writerVars == <<txn, parts, used, wpc, at, todo>>
rbVars == <<rb, zMaster, child>>
vars == <<dbVars, masterVars, writerVars, rbVars>>

Init ==
    /\ file = [d \in Db |-> NoTxn]
    /\ has = {} /\ orig = [d \in Db |-> NoTxn] /\ hdr = {}
    /\ ref = [d \in Db |-> NoTxn]
    /\ exists = {} /\ names = [t \in Txn |-> {}]
    /\ txn = NoTxn /\ parts = {} /\ used = {} /\ wpc = "idle" /\ at = NoDb
    /\ todo = {}
    /\ rb = [d \in Db |-> "none"] /\ zMaster = [d \in Db |-> NoTxn]
    /\ child = [d \in Db |-> {}]

DeleteJournal(d) ==
    /\ has' = has \ {d} /\ hdr' = hdr \ {d}
    /\ orig' = [orig EXCEPT ![d] = NoTxn] /\ ref' = [ref EXCEPT ![d] = NoTxn]

\* hasHotJournal: the journal does not begin with zero bytes.
Hot(d) == d \in has /\ d \in hdr

-----------------------------------------------------------------------------
(* A transaction writes to its databases.                                  *)

Begin(t) ==
    /\ wpc = "idle" /\ t \notin used
    /\ txn' = t /\ used' = used \cup {t} /\ wpc' = "work"
    /\ UNCHANGED <<dbVars, masterVars, parts, at, todo, rbVars>>

\* Mutant: a writer begins beside a hot journal that nobody has played back.
pager_open_journalUnrecovered(d) ==
    /\ wpc = "work" /\ d \notin parts /\ rb[d] = "none"
    /\ parts' = parts \cup {d}
    /\ has' = has \cup {d} /\ hdr' = hdr \ {d}
    /\ orig' = [orig EXCEPT ![d] = file[d]]
    /\ ref' \in {ref, [ref EXCEPT ![d] = NoTxn]}
    /\ UNCHANGED <<file, masterVars, txn, used, wpc, at, todo, rbVars>>

\* The first write to a database, which has been recovered: its journal is
\* opened.  (It may be opened while a pager_delmaster for the database still
\* runs, to which a journal without a name is the same as none.)  Where a
\* journal that is not hot has been left, the first header goes over its
\* beginning, and the name of a master journal may still be at its end.
pager_open_journal(d) ==
    /\ wpc = "work" /\ d \notin parts /\ rb[d] = "none" /\ ~Hot(d)
    /\ parts' = parts \cup {d}
    /\ has' = has \cup {d} /\ hdr' = hdr \ {d}
    /\ orig' = [orig EXCEPT ![d] = file[d]]
    /\ ref' \in {ref, [ref EXCEPT ![d] = NoTxn]}
    /\ UNCHANGED <<file, masterVars, txn, used, wpc, at, todo, rbVars>>

\* A full cache makes the pager write a page before the commit: the journal
\* is synced, and the file changes.
pagerStress(d) ==
    /\ wpc = "work" /\ d \in parts
    /\ hdr' = hdr \cup {d}
    /\ \/ UNCHANGED file
       \/ file' = [file EXCEPT ![d] = Mixed]
    /\ UNCHANGED <<has, orig, ref, masterVars, writerVars, rbVars>>

-----------------------------------------------------------------------------
(* vdbeCommit.                                                             *)

\* One database needs no master journal.
Simple == \A c, d \in parts : c = d

StartCommit ==
    /\ wpc = "work" /\ parts # {}
    /\ todo' = parts
    /\ wpc' = IF Simple THEN "phase1" ELSE "create"
    /\ UNCHANGED <<dbVars, masterVars, txn, parts, used, at, rbVars>>

CreateMaster ==
    /\ wpc = "create"
    /\ exists' = exists \cup {txn}
    /\ wpc' = "names"
    /\ UNCHANGED <<dbVars, names, txn, parts, used, at, todo, rbVars>>

WriteName(d) ==
    /\ wpc = "names" /\ d \in todo
    /\ names' = [names EXCEPT ![txn] = @ \cup {d}]
    /\ todo' = todo \ {d}
    /\ UNCHANGED <<dbVars, exists, txn, parts, used, wpc, at, rbVars>>

NamesWritten ==
    /\ wpc = "names" /\ todo = {}
    /\ wpc' = "phase1" /\ todo' = parts
    /\ UNCHANGED <<dbVars, masterVars, txn, parts, used, at, rbVars>>

\* sqlite3PagerCommitPhaseOne: first the name of the master journal goes to
\* the end of the journal, which is cut there.  Before it is complete there
\* is an older name, or none.
writeMasterJournal(d) ==
    /\ wpc = "phase1" /\ d \in todo
    /\ \/ /\ ~Simple /\ ref[d] # NoTxn
          /\ ref' = [ref EXCEPT ![d] = NoTxn]
          /\ UNCHANGED <<at, wpc>>
       \/ /\ ref' = IF Simple THEN ref ELSE [ref EXCEPT ![d] = txn]
          /\ at' = d /\ wpc' = "sync"
    /\ UNCHANGED <<file, has, orig, hdr, masterVars, txn, parts, used, todo,
                   rbVars>>

syncJournal ==
    /\ wpc = "sync"
    /\ hdr' = hdr \cup {at}
    /\ wpc' = "pages"
    /\ UNCHANGED <<file, has, orig, ref, masterVars, txn, parts, used, at,
                   todo, rbVars>>

\* Some of the dirty pages have been written, or all of them.
pager_write_pagelist ==
    /\ wpc = "pages"
    /\ \/ file' = [file EXCEPT ![at] = Mixed] /\ UNCHANGED <<wpc, at, todo>>
       \/ /\ file' = [file EXCEPT ![at] = txn]
          /\ todo' = todo \ {at} /\ at' = NoDb
          /\ wpc' = "phase1"
    /\ UNCHANGED <<has, orig, hdr, ref, masterVars, txn, parts, used, rbVars>>

PhaseOneDone ==
    /\ wpc = "phase1" /\ todo = {}
    /\ todo' = parts
    /\ wpc' = IF Simple THEN "finish" ELSE "delete"
    /\ UNCHANGED <<dbVars, masterVars, txn, parts, used, at, rbVars>>

\* "Delete the master journal file.  This commits the transaction."
DeleteMaster ==
    /\ wpc = "delete"
    /\ exists' = exists \ {txn}
    /\ wpc' = "phase2"
    /\ UNCHANGED <<dbVars, names, txn, parts, used, at, todo, rbVars>>

\* sqlite3PagerCommitPhaseTwo deletes the journal.  An error is of no concern
\* after the deletion of the master journal; "finish" is the phase of the
\* simple case, where this is the commit.
CommitPhaseTwo(d) ==
    /\ wpc \in {"finish", "phase2"} /\ d \in todo
    /\ DeleteJournal(d)
    /\ todo' = todo \ {d}
    /\ wpc' = "phase2"
    /\ UNCHANGED <<file, masterVars, txn, parts, used, at, rbVars>>

PhaseTwoFails(d) ==
    /\ wpc = "phase2" /\ d \in todo
    /\ todo' = todo \ {d}
    /\ UNCHANGED <<dbVars, masterVars, txn, parts, used, wpc, at, rbVars>>

NoWriter ==
    /\ txn' = NoTxn /\ parts' = {} /\ wpc' = "idle" /\ at' = NoDb
    /\ todo' = {}
    /\ UNCHANGED used

CommitDone ==
    /\ wpc = "phase2" /\ todo = {}
    /\ NoWriter
    /\ UNCHANGED <<dbVars, masterVars, rbVars>>

Uncommitted ==
    {"work", "create", "names", "phase1", "sync", "pages", "delete"}

\* ROLLBACK, or any of the steps above fails: sqlite3RollbackAll rolls back
\* every database.  The master journal is deleted if its names could not be
\* written, and left alone otherwise.
RollbackAll ==
    /\ wpc \in Uncommitted
    /\ exists' = IF wpc = "names" THEN exists \ {txn} ELSE exists
    /\ rb' = [d \in Db |-> IF d \in parts THEN "start" ELSE rb[d]]
    /\ NoWriter
    /\ UNCHANGED <<dbVars, names, zMaster, child>>

\* The process ends, or the deletion of the only journal fails.
Crash ==
    /\ wpc # "idle"
    /\ NoWriter
    /\ UNCHANGED <<dbVars, masterVars, rbVars>>

-----------------------------------------------------------------------------
(* pager_playback, for a rollback or for a hot journal.                    *)

PlaybackReturns(d) ==
    /\ rb' = [rb EXCEPT ![d] = "none"]
    /\ zMaster' = [zMaster EXCEPT ![d] = NoTxn]
    /\ child' = [child EXCEPT ![d] = {}]

\* Whoever reads database d next finds its journal.
HotJournal(d) ==
    /\ d \notin parts /\ rb[d] = "none" /\ Hot(d)
    /\ rb' = [rb EXCEPT ![d] = "start"]
    /\ UNCHANGED <<dbVars, masterVars, writerVars, zMaster, child>>

\* Is the master journal still there?
readMasterJournal(d) ==
    /\ rb[d] = "start"
    /\ zMaster' = [zMaster EXCEPT ![d] = ref[d]]
    /\ rb' = [rb EXCEPT ![d] = IF ref[d] \in exists \cup {NoTxn} THEN "play"
                               ELSE "end"]
    /\ UNCHANGED <<dbVars, masterVars, writerVars, child>>

\* The records are written back.  A journal without a complete header, which
\* only a rollback comes to, has none that the file needs.
Playback(d) ==
    /\ rb[d] = "play"
    /\ \/ /\ d \in hdr
          /\ file' = [file EXCEPT ![d] = Mixed]
          /\ UNCHANGED rb
       \/ /\ file' = IF d \in hdr THEN [file EXCEPT ![d] = orig[d]] ELSE file
          /\ rb' = [rb EXCEPT ![d] = "end"]
    /\ UNCHANGED <<has, orig, hdr, ref, masterVars, writerVars, zMaster,
                   child>>

\* pager_end_transaction deletes the journal.  If there is a master journal,
\* it may have to be deleted as well.
EndPlayback(d) ==
    /\ rb[d] = "end"
    /\ DeleteJournal(d)
    /\ rb' = [rb EXCEPT ![d] = IF zMaster[d] = NoTxn THEN "none" ELSE "open"]
    /\ UNCHANGED <<file, masterVars, writerVars, zMaster, child>>

\* pager_delmaster reads the names of the journals in the master journal.  It
\* is not called, or fails, if there is none.
OpenMaster(d) ==
    /\ rb[d] = "open"
    /\ IF zMaster[d] \in exists
       THEN /\ child' = [child EXCEPT ![d] = names[zMaster[d]]]
            /\ rb' = [rb EXCEPT ![d] = "child"]
            /\ UNCHANGED zMaster
       ELSE PlaybackReturns(d)
    /\ UNCHANGED <<dbVars, masterVars, writerVars>>

\* Mutant: the journals that the master journal lists are not looked at.
CheckChildSkipped(d, c) ==
    /\ rb[d] = "child" /\ c \in child[d]
    /\ child' = [child EXCEPT ![d] = @ \ {c}]
    /\ UNCHANGED <<dbVars, masterVars, writerVars, rb, zMaster>>

\* A journal that names this master journal still needs it.
CheckChild(d, c) ==
    /\ rb[d] = "child" /\ c \in child[d]
    /\ IF c \in has /\ ref[c] = zMaster[d]
       THEN PlaybackReturns(d)
       ELSE child' = [child EXCEPT ![d] = @ \ {c}] /\ UNCHANGED <<rb, zMaster>>
    /\ UNCHANGED <<dbVars, masterVars, writerVars>>

pager_delmaster(d) ==
    /\ rb[d] = "child" /\ child[d] = {}
    /\ exists' = exists \ {zMaster[d]}
    /\ PlaybackReturns(d)
    /\ UNCHANGED <<dbVars, names, writerVars>>

\* A step fails, or the process that recovers d ends.
PlaybackFails(d) ==
    /\ rb[d] # "none"
    /\ PlaybackReturns(d)
    /\ UNCHANGED <<dbVars, masterVars, writerVars>>

-----------------------------------------------------------------------------
Next ==
    \/ \E t \in Txn : Begin(t)
    \/ \E d \in Db :
           \/ pager_open_journal(d) \/ pagerStress(d) \/ WriteName(d)
           \/ writeMasterJournal(d) \/ CommitPhaseTwo(d) \/ PhaseTwoFails(d)
           \/ HotJournal(d) \/ readMasterJournal(d) \/ Playback(d)
           \/ EndPlayback(d) \/ OpenMaster(d) \/ pager_delmaster(d)
           \/ PlaybackFails(d)
           \/ \E c \in Db : CheckChild(d, c)
    \/ StartCommit \/ CreateMaster \/ NamesWritten \/ syncJournal
    \/ pager_write_pagelist \/ PhaseOneDone \/ DeleteMaster \/ CommitDone
    \/ RollbackAll \/ Crash

Spec == Init /\ [][Next]_vars

-----------------------------------------------------------------------------
(* Properties.                                                             *)

Version == Txn \cup {NoTxn}

(* The ranges of the variables.  Those of orig, exists and hdr say       *)
(* something of the code: no journal is begun over a half-written file, so *)
(* that each gives a whole version back; only a transaction that has begun *)
(* has a master journal; and only a journal file that is there has a       *)
(* header.                                                                 *)
TypeOK ==
    /\ file \in [Db -> Version \cup {Mixed}]
    /\ has \subseteq Db /\ orig \in [Db -> Version] /\ hdr \subseteq has
    /\ ref \in [Db -> Version]
    /\ exists \subseteq used /\ names \in [Txn -> SUBSET Db]
    /\ txn \in Version /\ parts \subseteq Db /\ used \subseteq Txn
    /\ wpc \in Uncommitted \cup {"idle", "finish", "phase2"}
    /\ at \in Db \cup {NoDb} /\ todo \subseteq parts
    /\ rb \in [Db -> {"none", "start", "play", "end", "open", "child"}]
    /\ zMaster \in [Db -> Version] /\ child \in [Db -> SUBSET Db]

\* The version that database d stands for: the one that its journal brings
\* back, if it is hot and its master journal exists.
Value(d) ==
    IF Hot(d) /\ ref[d] \in exists \cup {NoTxn} THEN orig[d] ELSE file[d]

Atomic == INSTANCE AtomicDbs WITH
              db <- [d \in Db |-> Value(d)],
              txn <- IF wpc = "phase2" THEN NoTxn ELSE txn,
              parts <- IF wpc = "phase2" THEN {} ELSE parts

(* A transaction takes effect in all of its databases at once or in none,  *)
(* wherever the process ends, whatever fails, and in whatever order the    *)
(* databases are recovered.                                                *)
AllOrNothing == Atomic!AtomicSpec
=============================================================================

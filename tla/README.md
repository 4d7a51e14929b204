# Verification of the Verix port of SQLite

This directory holds TLA+ specifications of the part of the repository that
makes SQLite run on Verifone Verix terminals, and of the part of SQLite whose
correctness rests on it. The port is two files, `src/verix/verix.c` (for
SQLite 3.8.11) and its ancestor `src/sqlite/3.5.9/os_verix.c` (for 3.5.9).
Everything SQLite promises about transactions is the work of its pager, which
calls the port for every lock, read, write and delete. So the central question
is: what is left of SQLite's guarantees when the pager runs over a file lock
with a single level, a `write` that may be short, and a RESERVED probe and a
`read` that do not report what they found?

## 1. Inventory

| Component | State | Operations | Correct if |
|---|---|---|---|
| Lock methods of the VFS (`verix.c:259-313`, `os_verix.c:195-233`) | one OS lock per file, owned by a handle | `xLock`, `xUnlock`, `xCheckReservedLock` | a pager that believes in RESERVED or EXCLUSIVE owns the file |
| The pager's lock level (`sqlite3.c:43167-43207`) | `Pager.eLock` | `pagerLockDb`, `pagerUnlockDb` | the level never claims more than the OS lock gives |
| Pager, rollback-journal mode (`sqlite3.c:42400-48470`; 3.5.9 `pager.c`) | `eState`, the page cache, the change counter last seen, sizes, dirty pages, the journal file | read transaction, write transaction, journal, commit, rollback, hot-journal recovery, error state | transactions are atomic and isolated; the file is written only under the lock; a left journal is rolled back |
| Savepoints, sub-journal, cache spill, journal segments (`sqlite3.c:43105-43545`, `45347-45450`, `46150-46557`, `47736-47950`, `48564-48686`) | `aSavepoint`, the sub-journal, `pInJournal`, dirty and need-sync pages, the journal as a file of headers and records | savepoint, release, rollback to, write a page and its sector, spill, sync, playback, kept journals (PERSIST) | ROLLBACK TO restores the view of the savepoint; a spilled or half-committed transaction can always be undone; records of older transactions are never used |
| Master journals (`vdbeCommit`, `sqlite3.c:67252-67487`; `pager_delmaster`, `44496-44585`) | the master journal file with the names of the journals; its name at the end of each journal | commit on several databases, rollback, recovery of each database by itself | a transaction takes effect in all of its databases or in none |
| File methods (`verix.c:78-253, 382-500`; `os_verix.c`) | handle, file name, temporary flag, position | `xOpen`, `xClose`, `xRead`, `xWrite`, `xTruncate`, `xFileSize`, `xDelete`, `xAccess` | a write leaves exactly its bytes, a read returns exactly the file's bytes, temporary files go away |
| Clock (`verix.c:577-612`) | none | `xCurrentTime` | it returns the Julian day number of the moment; days are numbered without gap or jump |
| Randomness, sleep, path names, last error | `last_errno`, for messages | `xRandomness`, `xSleep`, `xFullPathname`, `xGetLastError` | seeds differ between journals |
| B-tree layer | cursors and pages | begins and ends transactions, reads and changes pages | (only its use of the pager is of interest here) |
| VFS registration, licence check, log utility, tests, makefiles | none that matters to the database | | |
| SQL compiler, virtual machine, WAL, other OS layers, extensions, the 3.6.14 copies | | | SQLite as imported |

**How the parts interact.** The b-tree layer calls the pager; the pager calls
the VFS; the VFS makes system calls. Connections never call each other. They
meet only at three places: the OS lock of the database file, the database
file, and the journal file next to it. There are no threads or callbacks inside
a connection, but between any two VFS calls of one connection another one can
run, the process can end, and each call can fail.

**What is hard here.**

- *Interleaving.* All lock levels are the same system call, `unlock` drops
  the lock whatever level it is asked for, and the RESERVED probe unlocks the
  caller's own handle. The pager was written for a VFS that does none of this.
- *Process ends and recovery.* The journal protects a commit only if journal
  records, journal header, database pages and journal deletion happen in that
  order, and if the next connection finds the journal hot.
- *Partial failure.* Every call of a commit or of the rollback that follows
  it can fail: the pager then is in ERROR state, perhaps with a lock level it
  no longer knows, with a journal it could not delete.
- *Staleness.* A connection keeps its page cache between transactions, and
  only the change counter in page 1 says whether it is still good.
- *Long sequences.* Which contents go to the sub-journal, and which headers and
  records of a journal count, depends on the whole history of savepoints,
  spills, segments and older transactions in the same file.
- *Several files.* A transaction on attached databases has one moment of commit
  and several journals, which different processes recover independently.
- *Loops.* `verixWrite` repeats short writes until every byte is taken.

`PROJECT.json` lists the hazards, each at its line with the properties that
cover it, or the reason why none does.

## 2. Modules

    VerixLock  <--extends--  Pager  --implements-->  TxnDb
                               ^                     VerixLock!LockSpec
                               |
                         Pager_proofs <-- PagerTypes_proofs
                                             ^   ^
                         PagerIsolation_proofs   PagerFaults_proofs

    Savepoint  --implements-->  NestedTxn
        ^
    Savepoint_proofs

    MasterJournal  --implements-->  AtomicDbs
        ^
    MasterJournal_proofs

    VerixFile <-- VerixFile_proofs      VerixClock <-- VerixClock_proofs

### VerixLock.tla: the lock

`owner` is the operating system's lock, `eLock[c]` the level that the pager of
connection `c` believes in. One operator per VFS method (`verixLock`,
`verixUnlock`, `verixCheckReservedLock`) and per pager wrapper (`pagerLockDb`,
`pagerUnlockDb`), including what the wrappers do after a failed system call:
`eLock` follows the request even then, and in ERROR state becomes
`UNKNOWN_LOCK`. `LockSpec` is what a pager may do with the lock: ask for a level,
go down to SHARED or to nothing, probe while it has at most SHARED, fail, and
die. It is the abstract specification that `Pager` implements.

### Pager.tla: the pager

Every action is *one VFS call and the changes of the `Pager` object around
it*, so that another connection, a fault or the end of the process can come
between any two calls. `pc[c]` is the place inside a pager function. Three
actions merge two calls:

- `BeginWrite` takes RESERVED and, if `exFlag` is set, EXCLUSIVE, and
  `syncJournal` takes EXCLUSIVE and writes `nRec`. In both the connection owns
  the file before the second call, and on Verix the second lock is the same
  system call on a file it has already: it changes `eLock` only. A process that
  ends in between leaves the files of one that ended before the action.
- `CheckVersion` reads the change counter and then asks for the size of the
  file. Where contents are checked, either the connection owns the file at that
  place (`ControlOK` of the isolation proof) or there is no other connection;
  the properties of `faults` do not depend on what is read.

In a playback two reads that fail one after the other, of a record and then of
the name of the master journal, count as one fault.

| Code | Actions |
|---|---|
| `sqlite3PagerSharedLock` | `SharedLock`, `hasHotJournal`, `HotLock`, `HotOpen`, `CheckVersion` |
| `readDbPage` | `readDbPage` |
| `sqlite3PagerBegin`, `sqlite3BtreeBeginTrans` | `BeginWrite`, `BeginBusy` |
| `pager_write`, `pager_open_journal`, `writeJournalHdr` | `WritePage`, `pager_open_journal`, `writeJournalHdr` |
| `sqlite3PagerCommitPhaseOne` | `CommitNoChange`, `pager_incr_changecounter`, `syncJournal`, `pager_write_pagelist`, `CommitPhaseOneDone` |
| `sqlite3PagerRollback`, `pager_playback` | `Rollback`, `pager_playback`, `pager_playback_one_page`, `PlaybackDone` |
| `pager_end_transaction`, `pager_unlock` | `FinalizeJournal`, `EndTransaction`, `KeepReading`, `pager_unlock` |
| (the process ends and starts again) | `Crash` |

Data. Page 1 holds the change counter, every other page a count of its
changes, so a change that is lost, repeated or half done shows. A page whose
write failed half-way is `Garbage`. The journal is its header (state, `nRec`,
`cksumInit`, original size) and its records (page, old content, checksum); a
checksum is modelled by the seed it was computed with, because the seed is
what tells a record of this transaction from one that an older journal left
in the same file. A torn record has a checksum that matches nothing.

`Vfs` chooses the port. With `"verix"` the probe always reports a lock. With
`"os_verix"` it reports what `lock()` said, and the branches that differ in
3.5.9 (a journal that disappeared is SQLITE_BUSY; every journal that nobody
holds a lock for is hot) are taken. The steps between are those of 3.8.11 for
both, so a run over `"os_verix"` is about that VFS under this pager, with the
two differences above. The 3.5.9 pager has neither UNKNOWN_LOCK nor the same
handling of failed reads, and therefore `OldVfsAssumption` allows read and
unlock faults for `"verix"` only.

### TxnDb.tla: what SQLite promises

An abstract database with atomic, isolated transactions: a committed content,
and for every connection a mode and a view. `Pager!Serializable` is `TxnSpec`
under this mapping: the committed database is the database file or, while a
complete journal exists, the file with the journal's records put back; the view
of a transaction is its cache over the file; a connection has a transaction
from the version check until the journal is gone or its rollback begins.

### Savepoint.tla and NestedTxn.tla: inside one write transaction

One connection, which `Pager` shows to be alone in its write transaction. Here
the journal is a file of units, headers and records at their offsets, because
the questions are about offsets: where a savepoint's records begin, where a
header of the next segment goes, what an older transaction left behind the
current end. Every action is at most one write to a file that survives the
process.

| Code | Actions |
|---|---|
| `sqlite3PagerBegin`, `sqlite3PagerOpenSavepoint`, `sqlite3PagerSavepoint` | `sqlite3PagerBegin`, `sqlite3PagerOpenSavepoint`, `ReleaseSavepoint`, `RollbackTo` |
| `sqlite3PagerWrite`, `pagerWriteLargeSector`, `pager_write`, `subjournalPage` | `WritePage`, `pager_open_journal`, `pager_write` (one page of the sector per step) |
| `pagerStress`, `syncJournal`, `writeJournalHdr`, `pager_write_pagelist` | `pagerStress`, `zeroNextHdr`, `writeNRec`, `writeNextHdr`, `writeSpilled` |
| `sqlite3PagerCommitPhaseOne`, `Two`, `pager_end_transaction` | `Commit`, `zeroNextHdr`, `writeNRec`, `pager_write_pagelist`, `CommitPhaseOneDone`, `pager_end_transaction`, `truncateFile` |
| `sqlite3PagerRollback`, `pager_playback`, `pagerPlaybackSavepoint`, `pager_playback_one_page` | `sqlite3PagerRollback`, `readJournalHdr`, `playMain`, `playSub`, `RolledBackTo` |
| `hasHotJournal` and recovery | `HotJournal`, then the same playback |
| the page cache | `readDbPage`, `Recycle` |

A page's content is the number of the change it comes from and the size of the
database at that time, which in page 1 is the size field of the header. A
checksum is modelled by its seed: `Own`, `Other` (an older transaction) or
`Torn`. A write at an offset beyond the end of a file fails, as `lseek` does on
Verix. `setup` is one of the instances that a run tries: sector size, pages per
sector, size of the database, journal mode, and bounds.

`NestedTxn` is the promise: a committed database, a view, and a stack of saved
views; ROLLBACK TO makes the view that of the savepoint, commit makes the
database the view, and everything else leaves both alone. The mapping takes as
the database what a playback of the journal, if it is hot, would make of the
file.

`HotJournal` finds every hot journal, as `hasHotJournal` does over a probe that
reports what it found. Over verix.c it finds none (finding 1), and what
`Transactional` and `NoPageLost` say of a process end is then true of the
journal that is left, not of what the next reader sees. At `journalHdr`
`readJournalHdr` skips the magic number (finding 4). The model then takes any
older header for one, but not the middle of an older record: of that the code
would read a seed, too, and the next record would fail its checksum.

Two facts about Verix matter here. The default sector size (4096,
`sqlite3.c:10632`) is larger than the default page (1024), so
`pagerWriteLargeSector` is the usual path. And `verixRead` reports every failure
as a short read, so the probe for a header in `syncJournal` cannot fail.

### MasterJournal.tla and AtomicDbs.tla: a commit on several databases

A database file is represented by the transaction whose version it holds
(`Mixed` while pages are being written), a journal by the version it brings
back, whether its header is complete (`hdr`) and the master journal it names
(`ref`). One connection goes through `vdbeCommit`: the actions from
`StartCommit` to `CommitDone` are its steps, `RollbackAll` is what any failure
leads to, `Crash` can happen anywhere. For every database `rb` is a recovery or
a rollback in progress, with the steps of `pager_playback` and
`pager_delmaster`: these run side by side, and beside the next transactions.
`AtomicDbs` is the promise: the versions of a transaction's databases change at
once or not at all. The mapping takes as a database's value the version its
journal brings back, if it is hot and names no master journal or an existing
one, and else the version in the file.

The module has hot journals recovered, as `sqlite3PagerSharedLock` does.
Over verix.c, where they are not found (finding 1), a process end in the middle
of such a commit leaves each database as it is.

### VerixFile.tla: the file methods

One process with several `sqlite3_file` objects. `disk` maps names to byte
sequences and `f` holds the `verixFile` structures. `verixWrite` is the only
method with more than one changing system call, so it has a step per `write()`;
the others are one step each. `vfs` says which of the two VFS files is used.
Temporary names come from `read_ticks()`; the
`strcpy` from a null `zName` in `verix.c:442` either copies whatever lies
there (`Junk`) or ends the process.

### VerixClock.tla: the clock

The conversion of `verixCurrentTime` with C's division, run over a calendar:
`ClockTick` goes on to the next of the times of day in `Times` or to the next
day, `verixCurrentTime` is a reading. The history variable `read` holds the
Julian day, counted by a table of months, and the time of day of the last
reading; `prNow` is what that reading returned. Two properties come from this:
`JulianDayNumber` says what the comment of the function says, and is violated
(finding 5); `DaysCounted` says what is left of it, a statement about two
readings that a function with the right century and time of day has too. It is
a theorem (`ClockDays`) and not a run of its own; with `LastYear = 99` and
`DaysCounted` as PROPERTY in `MC_JulianDay.cfg`, TLC agrees (1.2 million states).

`MC_Pager`, `MC_Savepoint`, `MC_MasterJournal`, `MC_File` and `MC_Clock`
instantiate the modules for TLC: they add symmetries, the setups and the times
of day to try; everything else is given by the `.cfg` files. Operators under a
comment `Mutant:` are faulty variants of the definition that follows them;
`PROJECT.json` says which property finds which of them.

### What is assumed of the operating system

Verix is not in the repository. These assumptions come from how the code uses
its calls, and are marked external in the map:

- `lock(h,0,0)` fails if another handle has the file and succeeds for the
  handle that has it already (the pager relies on that on its way up);
- `unlock` releases only the caller's lock, and the end of a process closes
  its handles and drops its locks;
- `lseek` past the end of a file fails; `_remove` of a file that a handle
  refers to fails;
- a write that returned is in the file. `verixSync` does nothing, so nothing
  is said about a power failure.

## 3. Runs

| Run | Instance | Checks | Result |
|---|---|---|---|
| `isolation` | verix, 2 connections, no faults, one statement at a time, fairness | `CacheCurrent`, `Serializable`, `ReadUnderLock`, `LockReleased` | holds, 34 thousand states |
| `faults` | verix, 2 connections, overlapping statements, any 2 faults of 5 kinds | `StateMatchesLock`, `ReservedIsOwned`, `TypeOK`, `WriteUnderLock`, `LockProtocol` | holds, 2 million states |
| `atomic` | verix, 1 connection, fresh seeds, 3 faults (no failed reads) | `OnlyOwnRecords`, `ChangesOnlyAtCommit` | holds, 1.5 million states |
| `recovery` | os_verix, 1 connection, 3 faults | `LeftJournalRolledBack`, `Serializable` | holds, 32 thousand states |
| `savepoint` | one connection, 7 setups: 2 savepoints, or 1 failed write or process end; sectors of 1 or 2 units and 1 or 2 pages; pages added out of order; a kept journal | `TypeOK`, `NoPageLost`, `Transactional` | holds, 1.3 million states |
| `master` | 3 databases, 2 transactions, any number of failures and process ends, symmetry | `TypeOK`, `AllOrNothing` | holds, 417 thousand states |
| `file_io` | both VFS files, 2 objects, one name, 2 ticks, short writes, 1 failing call, fairness | `FileTypeOK`, `WriteExact`, `ReadExact`, `WriteReturns`, `TempRemoved` | holds, 229 thousand states |
| `hot_journal` | verix, 1 connection, 1 process end | `LeftJournalRolledBack` | violated |
| `shared_lock` | verix, overlapping statements | `ReadUnderLock` | violated |
| `read_error` | verix, 1 failed write and 1 failed read | `ChangesOnlyAtCommit` | violated |
| `persist` | PERSIST, 3 pages, two transactions, 1 failed write | `OnlyOwnRecords` | violated |
| `julian_day` | the year 2000, four times of day | `JulianDayNumber` | violated |

What the passing runs show:

- **isolation.** Without faults, and if a connection runs one statement at a
  time, the level-blind lock is *stronger* than SQLite's: a reader keeps every
  other connection out. The pager then refines `TxnDb`. The change counter does
  its work: a cache that is kept is never stale. A reader or a writer cannot
  keep the file for ever.
- **faults.** Whatever fails, the assertions of `assert_pager_state` hold at
  every VFS call, and the database file is written only by the owner of its
  lock. This is also where the parts of the inductive invariant of section 4
  are checked.
- **atomic.** No single page write, failed write, failed delete or process end
  changes the database that file and journal *together* stand for; only the
  deletion of the journal at the end of a commit does. The exception is a
  journal that a dead transaction left (`Orphan`): verix.c never rolls it back,
  and the next writer reuses the file. A rollback over such a reused file stops
  at the first foreign record.
- **recovery.** With a probe that reports what it found, a journal that a dead
  or failed transaction left is played back before anything is read, and with
  that transactions are atomic for any three faults. This is checked for one
  connection, and it is not true of two: at the end of a hot-journal rollback
  the connection goes down to SHARED, which drops the only lock, and the probe
  drops it too. Two connections can then both be readers, one of them starts to
  write and dies, and the other goes on reading with its journal in place.
  Even so, two connections that find the same hot journal never play it back at
  the same time: that is the theorem `PagerWriteUnderLock`, for both VFS files.
- **savepoint.** Whatever is spilled, evicted, saved, released, undone, failing
  or ended in between, the view after ROLLBACK TO is exactly that of the
  savepoint, ROLLBACK and recovery give the committed database, and only the
  end of the journal commits. This includes the writes that Verix refuses
  because they begin beyond the end of a file: a page spilled before its
  predecessor, a second journal header after records that do not fill their
  sector. The transaction then fails, and is undone. `NoPageLost` says it of
  sizes: pages that the file does not have yet are dirty, a transaction ends with
  a complete file, and a hot journal gives back a size that the file has.
- **master.** A process may end anywhere, any call may fail, the databases may
  be recovered in any order and at the same time, and a new transaction may
  begin on databases that have been recovered while others have not: every
  transaction is in all of its databases or in none. That also covers
  synchronous=FULL, where `writeMasterJournal` goes on to the next sector
  boundary, which Verix cannot seek to: such commits fail, but cleanly.
- **file_io.** Short writes are put together without a gap; of a read past the
  end verix.c fills the rest of the buffer with zeros, os_verix.c returns only
  the bytes of the file; os_verix.c removes a temporary file when its last
  handle closes, also if two got one name.

**Bounds.** Two pages (the header page and one other) plus one that can be
appended are the least at which a commit writes several pages and a rollback
truncates. Two changes per page and two commits let a cache become stale, and
let a journal of one transaction survive into the next. Two connections are the
least that can race; the theorems of section 4 about the lock, the pager's state
and isolation cover any number of connections and pages. Three
faults allow a failed commit, a failed rollback and a process end in one behaviour. Four
seeds are enough that `FreshNonce` never blocks a writer. File lengths
up to 2 and writes up to 2 bytes include short writes, overlapping writes and
reads that begin or end beyond the end of the file. In `savepoint`, four or five
page changes are enough for a page to be changed before and after a savepoint
and after a spill, and for a journal of several segments; a sector of one unit
makes every segment end at a sector boundary, so that a next header can be
written at all, one of two units makes the gap. In its PERSIST setup the page
writes of a commit do not fail, because of finding 4. Three databases are the
least at which one recovery can still need the master journal while two others
decide about it; two transactions let one begin on what the other left. The
theorem `AtomicCommit` covers any number. Connections are exchanged
by symmetry, and so are databases and transactions, only where no liveness is
checked.

**Fairness.** `FairSpec` assumes that a process that is inside a pager function
goes on (`WF` of `PagerStep`), and that an application ends the transaction it
started (`WF` of `Finish`, and of the page change for which the journal was
opened). Nothing is assumed of a connection that gets SQLITE_BUSY, and nothing
strong. `FileFairSpec` assumes that `write()` does not return 0 for ever; the
loop has no other guard against it.

Deadlock is checked in every run but `savepoint`, `persist` and `master`, which
stop when their changes or transactions are used up.

### What the code does otherwise than its comments say

1. *The hot journal is never found* (`hot_journal`). `verix.c:288` overwrites
   the answer of the probe with 1, so `hasHotJournal` takes every journal for
   that of a live writer, and a database that a process left half-written is
   read as it is.
2. *SHARED is no lock after a commit* (`shared_lock`). `verixUnlock` ignores
   the level, so a statement that goes on after a commit of its own connection
   reads without a lock. The same call ends a hot-journal rollback.
3. *A failed read is a short read* (`read_error`). `verix.c:135`; during a
   rollback the pager takes it for the end of the journal, deletes the journal
   and keeps half of the transaction.
4. *An older transaction's header counts after all* (`persist`). In
   journal_mode=PERSIST `syncJournal` puts a zero byte over a header that lies
   behind the records, "to prevent it from being recognized" (`sqlite3.c:46184`),
   and sets `journalHdr` to that place. If a page write of the commit fails then,
   the rollback's `readJournalHdr` does not compare the magic number of a header
   at `journalHdr` (`sqlite3.c:43599`), accepts the older header and puts the
   older transaction's pages into the cache, as clean pages. The records must
   end at a sector boundary for this.
5. *Neither century nor time of day* (`julian_day`). `verix.c:603` puts a
   two-digit year into the calendar formula, so every result is 730485 days too
   small, and `verix.c:607` divides ints, so that hours, minutes and seconds
   contribute nothing (lemma `NoFraction`), although the function is to "write
   the current time and date as a Julian Day number" (`verix.c:573-574`).
6. Not part of a run, but visible with the same models: with verix.c temporary
   files stay, because the invented name is not kept (`verix.c:442`;
   `TempRemoved` without its first conjunct); if seeds repeat, as
   `rand()` without `srand` does after a restart, `OnlyOwnRecords` fails
   (`MC_Atomic.cfg` with `Nonce = {1}`, `FreshNonce = FALSE`); and two temporary
   files opened in one tick are one file although SQLITE_OPEN_EXCLUSIVE was
   asked for.

## 4. Proofs

The proofs are checked by TLAPS and hold for every set of connections, every
number of pages and every bound, from the ASSUMEs of the modules and the
hypotheses that a theorem names.

**Lock** (first part of `Pager_proofs`). `LockInv == LockTypeOK /\ ReservedIsOwned` is
inductive. Three lemmas cover the three ways to touch the lock: taking it,
giving it up while going below RESERVED, and the probe. The probe is the
interesting one: it unlocks the caller's handle, and the invariant survives only
because a pager probes at SHARED or below. Theorems `LockSafety` and
`LockOneWriter`.

**Pager** (`Pager_proofs`). The invariant is
`PagerInv == LockInv /\ types of eState and pc /\ StateMatchesLock`.
Neither half is inductive alone: `LockInv` needs to know that the pager probes
only at SHARED, which `StateMatchesLock` says of the place `"hot"`; and that a
writer still has its level after the steps of others needs the lock's frame.
`StepOK(c)` sums up what one step may do: a step of `LockNext` or none, nothing
to the other connections, a matching state afterwards, and no change of the
database file except under an owned EXCLUSIVE lock. `StepKeepsInv` shows
that such a step keeps `PagerInv`; `ReadSteps`, `WorkSteps`, `CommitSteps`,
`RollbackSteps` and `EndSteps` show it of the actions, one step each, all fault
branches included. It follows that

- `PagerStateSafe`: `Spec => []StateMatchesLock`;
- `PagerImplementsLock`: `Spec => LockProtocol`, the refinement of `LockSpec`;
- `PagerWriteUnderLock`: `Spec => WriteUnderLock`, invariant (12) of the pager;
- `PagerOneWriter`: `Spec => []OneWriter`, from the refinement and `LockOneWriter`.

**Types of the pager** (`PagerTypes_proofs`). `PagerTypes` is `Spec => []TypeOK`,
under every fault. `TypeOK` alone is not inductive, because several assignments
stay in range for reasons that lie elsewhere: a page number is incremented, a
record is read by its position, a file is cut to a size taken from a journal.
`TypeInv` adds

- `DiskOK`: the files; a journal with a header gives back at least one page, so
  that a playback never truncates the database to nothing;
- `TxOK`: pages that are dirty or to be written are in the cache, a journalled
  page is one of the original ones, and a transaction that has ended has
  neither;
- `JournalOK`: the journal of a transaction has a header and at least as many
  records as the transaction counts, and a playback's last record exists.

The last speaks about a file that all connections share. It survives the steps
of the others because a journal changes only under RESERVED or EXCLUSIVE
(`TypedStep`), which `PagerInv` gives to one connection at a time.

**Isolation** (`PagerIsolation_proofs`). For any number of connections, pages
and commits, over both VFS files, and under
`Calm == FaultKinds = {} /\ ~Overlap`:

- `CacheIsCurrent`: `Spec => []CacheCurrent`;
- `ReadsAreLocked`: `Spec => ReadUnderLock`;
- `Isolation`: `Spec => Serializable`, the refinement of `TxnDb`.

`Calm` is what the run `isolation` assumes of its constants, and it cannot be
dropped: with a process end, a failed read or overlapping statements the
theorems are false, as findings 1 to 3 show. It is only about failures and about
statements of one connection; how connections interleave is free. The inductive
invariant `IsoInv` has, for every connection,

- `ControlOK`: where it can be when nothing fails, that it owns the lock wherever
  it looks at the file, and has a journal open only where it writes one;
- `CacheOK`: how cache and file relate. Between transactions this is `Stale`:
  the cache is that of its version, the version is not newer than the file's,
  and if the two are equal the cache is the file. In a transaction only
  dirty pages differ from the file (`WorkingOK`), in a commit only those not
  yet written (`PagesOK`), in a rollback only those with a record still to be
  read (`PlayOK`), and at the end none (`EndOK`);
- `FilesOK`: the records of the journal are those of the transaction, one for
  each journalled page, with the content the file had when it began.

The heart is `Stale` under the commit of another connection. Between two page
writes the file is of no version at all, and a cache with the file's counter
would pass the check although it is not the file's content. It is kept true by
the order of `pager_write_pagelist`: page 1 comes first, and from then on every
other cache has an older counter (last conjunct of `PagesOK`). The lemmas from
`IsoRead` to `IsoEnd` show, action by action, that `IsoStep` holds, and
`IsoStepKeepsInv` that this is enough. For the refinement
`TxnStep(c)` (in `PagerTypes_proofs`, since the proofs about faults use it too)
says which step of `TxnDb` an action is: the version check begins a
transaction, a page change is a write, the deletion of the journal commits, the
start of a rollback or of the last unlock ends it, and everything else,
the page writes of a commit among it, stutters. That the page writes do is the
point of `RecordsOK`: the file with the records put back remains the committed
database until the journal is gone.

**Faults** (`PagerFaults_proofs`). What the journal is worth when calls fail and
processes end, for any number of pages, commits and faults:

- `OwnRecordsOnly`: `FreshNonce` implies `Spec => OnlyOwnRecords`, for any number
  of connections, both VFS files and every kind of fault. The invariant `OwnInv`
  adds to `TypeInv` that behind the records of the transaction no record in the
  file has the checksum of the current header (`ForeignOK`). `FreshNonce` is
  needed: a journal that could not be deleted is reused, and if `verixRandomness`
  repeats a seed, its old records pass for new ones;
- `NoJournalLeft`: one connection over os_verix.c (`Alone`) implies
  `Spec => []LeftJournalRolledBack`, under every fault. The invariant `NoneLeft`
  follows the open journal: whoever reads or holds RESERVED without a
  journal of its own has none beside the database, and every path from an open journal to a
  successful unlock deletes it. With verix.c this is false (finding 1), and with
  a second connection too, because a hot-journal rollback ends with the
  lock given up (finding 2);
- `CommitIsAtomic`: `Steady` implies `Spec => ChangesOnlyAtCommit`;
- `CacheSurvivesFaults`: `Steady` implies `Spec => []CacheCurrent`, with
  overlapping statements too;
- `RecoveryIsSerializable`: `Recovering` implies `Spec => Serializable`, with
  overlapping statements too.

`Steady` is: one connection, no failing reads, and `FreshNonce` or os_verix.c.
Writes, deletions and unlocks may fail, and the process may end anywhere. Each
part is needed because of the code. A playback takes a failed read for the end of
the journal (finding 3). With a second connection `ChangesOnlyAtCommit` is false
over both VFS files, as TLC shows with two connections in the configurations of
`atomic` and `recovery`: a connection whose lock the probe for a hot journal (verix.c) or the end of a
hot-journal rollback (finding 2) has given up checks the size and counter of
the file beside a writer; when that writer dies in the middle of its commit, the
first one begins a transaction of its own on what is left. And without
fresh seeds old records pass for new ones, as above. Note that
`ChangesOnlyAtCommit` excuses the fate of a journal left behind (`Orphan`), which
verix.c does not roll back; for os_verix.c `NoJournalLeft` says what becomes of it.

The inductive invariant `SafeInv` has, beside `OwnInv` and, for os_verix.c,
`NoneLeft`,

- `JournalSound`: the journal as a later process finds it, whoever left it: only
  a valid header counts records, they have its checksum, name pages within the
  original size, and no page twice;
- `RecordsSound`: the journal of a transaction has one record for each
  journalled page, and until the first page is written to the file its content
  is that of the file;
- `CacheSound`: how cache and file relate at each place, the failed ones included.
  In a transaction they differ at most in the journalled pages (`WorkSound`), in
  a commit in those still to be written (`PagesSound`), in a playback in
  those whose record is still to be read (`PlaySound`), and where a transaction
  has ended, however it did, nowhere.

`IsoInv` could not be reused: it speaks of versions, and a failed commit leaves
file and cache in states of no version. `SafeInv` relates the cache to the bytes
of the file instead. The step from it to `CommitIsAtomic` reads `Committed` as a
function of file and journal (`Value`): `JournalStep` shows that appending a
record, or completing the header, before any page is written leaves it as it was, `FileStep` that writing a page does if the page is journalled or beyond the
original size, and playing a record back does in any case, and `DeleteStep` that
a rollback deletes the journal only when the file already is what the journal
stands for.

`RecoveryIsSerializable` is the whole of what SQLite promises, for the
connection that can have it: under `Recovering`, one connection over
os_verix.c, `TxnDb` is implemented although writes and deletions fail and
the process ends anywhere. Over verix.c it is false even for one
connection, because a journal is left where it is and the half-written file is
read (finding 1), and with a second connection finding 2 refutes it. The proof
adds nothing to `SafeInv` but a conjunct of `NoneLeft` (a connection at
WRITER_LOCKED meets no complete journal): with it the exception of
`ChangesOnlyAtCommit` never applies (`DbKept`), so that every step but the
deletion of the journal leaves the database of `TxnDb` alone. The other half is
the view. `BeginsReading` and `DeletesJournal` use that there the cache agrees
with the whole file and no journal is left, so the reader sees what is committed,
and what the writer saw becomes the database; `ChangesPage` and `WritesFile`
show that a page write, complete or torn, is of a page that the transaction has
in its cache; `OutsideTxn` covers what ends a transaction without effect.

**Savepoints** (`Savepoint_proofs`). `SaveTypes` is `Spec => []TypeOK` and
`PagesKept` is `Spec => []NoPageLost`, for any number of pages, writes, faults and
set-ups that `SavepointAssumption` admits: DELETE and PERSIST mode, sectors of
any number of pages, a journal left by an older transaction. Neither is
inductive, because every playback takes its page numbers and sizes from a file
that a failed, dead or older transaction may have left, and because what ROLLBACK
TO takes away must not have been needed. The invariant `SaveInv` consists of

- `Typed` and `FlagsOK`: the shape of journal, sub-journal and savepoints, and
  which flags are clear when a transaction has ended;
- `ControlOK`: with which state and operation the pager is at each step
  (`Places`);
- `JournalOK`: a journal beside a file of n pages either is not hot or gives back
  a size that is not zero and at most n, and has no record of a page beyond
  that size (`Left`); a transaction's own journal begins with a header of its
  original size (`Mine`); a kept journal of PERSIST mode has no record beyond the
  database that the next transaction starts from;
- `SizeOK` and `WorkOK`: the file has not lost a page of the original
  database, and every page between the end of the file and `dbSize` is dirty
  (`Covered`), in a commit still to be written, so that the file never gets a
  hole and has all of its pages when the transaction ends;
- `SavesOK`: the savepoints are nested in size, too, and none is smaller than
  the original database, so that ROLLBACK TO never drops an original page.

What holds it together is that the size in the first header bounds everything
else in the journal: a playback that cuts the file to that size leaves a journal
that is a `Left` one of the shorter file, so that it may end there and begin
again. After a commit the file is cut only when the journal is no longer hot. The
lemmas `SyncSafe` (what the steps of `syncJournal` have in common), `FileGrows`
(a page written to the file), `FailsSafe`, `DeadSafe` and `IoErrorSafe` (a failed write and the end of the process at any step) are shared
by the actions; one lemma for each action follows, and `SaveNext` puts them
together. `SaveInv` was model-checked on the set-ups of the run `savepoint`
before it was proved.

**File methods** (`VerixFile_proofs`). For both VFS files, any set of
`sqlite3_file` objects and names, any lengths and faults: `FileTypeCorrect`,
`WriteCorrect`, `ReadCorrect` and `TemporaryFilesGo` are `FileSpec` implies
`[]FileTypeOK`, `[]WriteExact`, `[]ReadExact` and `TempRemoved`. The
invariant `FileInv` adds to these that a handle refers to an existing file, that
os_verix.c keeps the name of what it has open (`HandlesInv`), and that a write
under way has its position where offset and bytes written say (`CallInv`). The
lemma under `WriteCorrect` is `OverwriteTwice`: writing a part of the buffer and
then the next part behind it is writing both at once, whether or not the file
grows in between.

**Master journals** (`MasterJournal_proofs`). `AtomicCommit` is
`Spec => AllOrNothing`, the refinement of `AtomicDbs`, for any sets of databases
and transactions. `AllOrNothing` says nothing by itself about where the versions
are, so the invariant `IInv` has, beside `TypeOK`:

- `WriterInv`: which databases the writing connection has in each phase, that
  they have a journal before the commit, and that none of them is being played
  back;
- `MasterInv`: the master journal exists from its creation to the commit, lists
  every database of the transaction before a journal names it, and is named by
  no journal outside the transaction;
- `PhaseInv`: the databases that have passed phase one hold the new version,
  with a complete header and the name of the master journal;
- `JournalInv`: a journal without a complete header belongs to an unchanged
  file, a file without a journal is not `Mixed`, and a name of a master
  journal that does not exist is that of the version in the file, a committed
  one;
- `PlaybackInv`: while records are played back the master journal they depend on
  exists, after that the file is restored, and the names that `pager_delmaster`
  has looked at name another master journal or none.

The last is the heart of it: a playback decides on the existence of the master
journal once and acts later, while the commit, and `pager_delmaster` of the
other databases, delete such files. `InitInv`, `StepInv` (one step per action)
and `StepAtomic` (each action is a step of `AtomicDbs` or a stutter) are the
lemmas. `TypeCorrect` is `Spec => []TypeOK`.

**Clock** (`VerixClock_proofs`). `ClockDays` is `ClockSpec => DaysCounted`, for
any two readings on days of 2000 to 2099, any bound on the days between them and
any times of day (`ClockAssumption`). The difference of two readings is right to
the day, and no reading is smaller than an earlier one, although each by itself
is wrong (finding 5). The invariant `ClockInv` says that the last reading is the
Julian day of its date less `MissingDays`, and that this date is not after that
of the clock. `CalendarExact` compares the formula with the count of days by a
table, for all years and months; `DayAfterDay` shows that this count goes up by
one from each day to the next, over the ends of months and years; `NoFraction`
shows that the time of day contributes nothing.

Only model-checked:

- `Transactional` of `Savepoint`, the refinement of `NestedTxn`: what a
  transaction sees after ROLLBACK TO, and what a recovery gives back, is the
  result of folding a journal of several segments into the file, and that a
  fold over records gives what it should needs induction over the journal,
  which is out of the prover's reach;
- liveness (`LockReleased`, `WriteReturns`), which is beyond the prover.

## 5. Not modelled

- In `Savepoint`: pages the b-tree layer does not want written
  (PGHDR_DONT_WRITE) and with them the growth of a file in `pager_truncate`;
  `sqlite3PagerTruncateImage` (auto-vacuum); spills while a large sector is
  being journalled; transactions on a file that a process left longer than its
  header says; failing deletions of the journal (these are in `Pager`); changes
  of the journal mode between transactions.
- In `MasterJournal`: kept journals; two transactions that draw the same random
  name (after 100 collisions the code deletes the existing file);
  databases that a transaction opened for writing but did not write; temporary
  databases, virtual tables and the commit hook.
- Journal modes TRUNCATE, MEMORY, OFF and WAL, exclusive locking mode, the
  creation of an empty database, shared cache, the busy handler with
  `verixSleep`, power failure (`verixSync` does nothing), lengths of file names,
  `last_errno` (it is only formatted into a message that nothing in SQLite asks
  for), the byte before the buffer that `verixRead` clears after a failed
  `read()`, registration, the licence check (its call is commented out),
  logging, and everything above the pager but `vdbeCommit`.
- The rest of the repository's lines is SQLite itself, in four versions: parser,
  code generator, virtual machine, b-tree, full-text search, other operating
  systems. They are imported unchanged and do not depend on the port; of 3.6.14
  nothing is modelled, and of 3.5.9 the VFS and the branches of the pager in
  which it differs.

## 6. Plan

Done: the lock, the pager's transactions over both ports with faults and process
ends, savepoints, spills and journal segments, master journals, the file
methods, the clock; theorems about the lock, the pager's state, types,
isolation and behaviour under faults, the types inside a transaction with
savepoints, the commit on several databases, the file methods and the clock.

Next, in this order:

1. Table locks and the BTS_PENDING flag of shared-cache mode
   (`sqlite3.c:53745-53937`): no writer beside a reader of the same table, and
   a waiting writer that is never forgotten.
2. The busy handler with `verixSleep`: retries and their end.
3. `Pager` over `VerixFile`: the page-level file operations as the byte-level
   methods, with short reads and errors derived instead of assumed.

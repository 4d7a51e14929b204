----------------------------- MODULE VerixFile -----------------------------
(***************************************************************************)
(* The file methods of the verix VFS: what xOpen, xClose, xRead, xWrite,   *)
(* xTruncate, xFileSize, xDelete and xAccess do with the files of the      *)
(* terminal, for one process that has several sqlite3_file objects.        *)
(* Locks are in VerixLock.tla.                                             *)
(*                                                                         *)
(* A file is the sequence of its bytes and `disk' maps the names of the    *)
(* existing files to them.  Only verixWrite makes more than one system     *)
(* call that changes a file, so it is the only method with steps between   *)
(* its call and its return.                                                *)
(***************************************************************************)
EXTENDS Integers, Sequences

CONSTANTS
    File,       \* sqlite3_file objects
    Name,       \* file names that SQLite passes
    NULL,       \* no name
    Junk,       \* whatever strcpy finds at address 0
    Byte,       \* the values of a byte; 0 is one
    MaxLen,     \* bound: length of a file
    MaxAmt,     \* bound: length of a read or write
    MaxTick,    \* bound: read_ticks()
    Ports,      \* "verix" (verix.c), "os_verix" (3.5.9) or both
    OpenKinds,  \* what is opened: a subset of {"db", "hot", "temp"}
    FaultKinds, \* which system calls may fail
    MaxFaults   \* bound: how often

\* The names that SQLite passes and those made up for temporary files.
TempName(t) == <<"tmp", t>>
AllNames == Name \cup {TempName(t) : t \in 0 .. MaxTick}

ASSUME FileAssumption ==
    /\ NULL \notin AllNames /\ Junk \notin AllNames \cup {NULL}
    /\ 0 \in Byte /\ Byte \subseteq 0 .. 255
    /\ MaxLen \in Nat /\ MaxAmt \in Nat /\ MaxTick \in Nat /\ MaxFaults \in Nat
    /\ Ports \subseteq {"verix", "os_verix"}
    /\ OpenKinds \subseteq {"db", "hot", "temp"}
    /\ FaultKinds \subseteq {"open", "close", "read", "write", "remove", "size"}

VARIABLES
    vfs,        \* one of Ports
    disk,       \* the files that exist, by name
    f,          \* the verixFile structures
    ticks,      \* read_ticks()
    call,       \* the verixWrite that is under way, or NoCall
    ret,        \* what the last method returned
    faults      \* how many system calls have failed

fileVars == <<vfs, disk, f, ticks, call, ret, faults>>

Bytes == UNION {[1 .. n -> Byte] : n \in 0 .. MaxLen}

\* h is the file that the handle refers to, NULL if there is none.
NoFile == [h |-> NULL, filename |-> NULL, temporary |-> FALSE, pos |-> 0]
NoCall == [id |-> NULL]
NoRet == [op |-> "none", rc |-> "OK"]

FileInit ==
    /\ vfs \in Ports
    /\ disk = [n \in {} |-> <<>>]
    /\ f = [id \in File |-> NoFile]
    /\ ticks = 0
    /\ call = NoCall
    /\ ret = NoRet
    /\ faults = 0

-----------------------------------------------------------------------------
(* The operating system.                                                   *)

FileFault(kind) ==
    /\ kind \in FaultKinds
    /\ faults < MaxFaults
    /\ faults' = faults + 1

Exists(n) == n \in DOMAIN disk

\* The directory with n holding s, and without n.
WithFile(n, s) ==
    [m \in DOMAIN disk \cup {n} |-> IF m = n THEN s ELSE disk[m]]
Without(n) == [m \in DOMAIN disk \ {n} |-> disk[m]]

\* A file that some handle refers to cannot be removed.
Removable(n, handles) ==
    Exists(n) /\ \A id \in handles : f[id].h # n

\* lseek finds no position beyond the end of the file.
Seekable(id, off) == off <= Len(disk[f[id].h])

\* The file s after b was written at position pos.
Overwrite(s, pos, b) ==
    [i \in 1 .. (IF pos + Len(b) > Len(s) THEN pos + Len(b) ELSE Len(s)) |->
        IF i \in pos + 1 .. pos + Len(b) THEN b[i - pos] ELSE s[i]]

Tick ==
    /\ ticks < MaxTick
    /\ ticks' = ticks + 1
    /\ UNCHANGED <<disk, f, call, ret, faults>>

-----------------------------------------------------------------------------
(* The methods.                                                            *)

Ready == call = NoCall
Open(id) == Ready /\ f[id].h # NULL

\* A method returns.  The errno that verix.c saves for verixGetLastError is
\* left out: nothing in SQLite reads it.
Return(op, id, rc, val) ==
    ret' = [op |-> op, id |-> id, rc |-> rc, val |-> val]

Flags(kind) ==
    CASE kind = "db" -> {"READWRITE", "CREATE"}
      [] kind = "hot" -> {"READWRITE"}
      [] kind = "temp" -> {"READWRITE", "CREATE", "EXCLUSIVE", "DELETEONCLOSE"}

\* The file that is opened: verix.c is given no name for a temporary file and
\* makes one up, 3.5.9 is given one that verixGetTempname made up.
verixGetTempname == TempName(ticks)

\* Of the flags only CREATE and DELETEONCLOSE have an effect here.
openable(n, flags) == Exists(n) \/ "CREATE" \in flags

opened(id, n, filename, flags) ==
    /\ disk' = IF Exists(n) THEN disk ELSE WithFile(n, <<>>)
    /\ f' = [f EXCEPT ![id] =
                [h |-> n, filename |-> filename, pos |-> 0,
                 temporary |-> "DELETEONCLOSE" \in flags]]
    /\ Return("open", id, "OK", NULL)

\* The 3.5.9 method, and what verix.c does with a name.
verixOpenNamed(id, zName, flags) ==
    /\ Ready /\ f[id].h = NULL
    /\ \/ /\ openable(zName, flags)
          /\ opened(id, zName, zName, flags)
          /\ UNCHANGED faults
       \/ /\ \/ ~openable(zName, flags) /\ UNCHANGED faults
             \/ FileFault("open")
          /\ Return("open", id, "CANTOPEN", NULL)
          /\ UNCHANGED <<disk, f>>
    /\ UNCHANGED <<ticks, call>>

\* verix.c without a name.  The file is opened under the invented name, and
\* then strcpy(pFile->filename, zName) reads from a null pointer: either it
\* copies what lies there, or the process is ended.
verixOpenTemp(id, flags) ==
    /\ Ready /\ f[id].h = NULL
    /\ LET filename == TempName(ticks)
       IN  \/ opened(id, filename, Junk, flags) /\ UNCHANGED faults
           \/ /\ disk' = IF Exists(filename) THEN disk
                         ELSE WithFile(filename, <<>>)
              /\ f' = [i \in File |-> NoFile]
              /\ ret' = NoRet
              /\ UNCHANGED faults
           \/ /\ FileFault("open")
              /\ Return("open", id, "CANTOPEN", NULL)
              /\ UNCHANGED <<disk, f>>
    /\ UNCHANGED <<ticks, call>>

verixOpen(id) ==
    \E kind \in OpenKinds :
        IF kind # "temp"
        THEN \E zName \in Name : verixOpenNamed(id, zName, Flags(kind))
        ELSE IF vfs = "verix" THEN verixOpenTemp(id, Flags(kind))
        ELSE verixOpenNamed(id, verixGetTempname, Flags(kind))

\* Mutant: a temporary file is closed like any other.
verixCloseOnly(id) ==
    /\ Open(id)
    /\ f' = [f EXCEPT ![id] = NoFile]
    /\ Return("close", id, "OK", NULL)
    /\ UNCHANGED <<disk, ticks, call, faults>>

\* SQLite drops the object whatever xClose returns.
verixClose(id) ==
    /\ Open(id)
    /\ f' = [f EXCEPT ![id] = NoFile]
    /\ LET n == f[id].filename
       IN  \/ /\ ~f[id].temporary
              /\ Return("close", id, "OK", NULL)
              /\ UNCHANGED <<disk, faults>>
           \/ /\ f[id].temporary /\ Removable(n, File \ {id})
              /\ disk' = Without(n)
              /\ Return("close", id, "OK", NULL)
              /\ UNCHANGED faults
           \/ /\ \/ /\ f[id].temporary /\ ~Removable(n, File \ {id})
                    /\ UNCHANGED faults
                 \/ FileFault("close")
              /\ Return("close", id, "IOERR", NULL)
              /\ UNCHANGED disk
    /\ UNCHANGED <<ticks, call>>

\* The bytes that a read at off finds, and the same followed by zeros.
Found(s, off, amt) ==
    SubSeq(s, off + 1, IF off + amt < Len(s) THEN off + amt ELSE Len(s))
ZeroFilled(b, amt) ==
    [i \in 1 .. amt |-> IF i <= Len(b) THEN b[i] ELSE 0]

\* The rest of the buffer keeps what was in it, here a 1.
NotFilled(b, amt) ==
    [i \in 1 .. amt |-> IF i <= Len(b) THEN b[i] ELSE 1]

\* memset in verix.c; os_verix.c leaves the rest of the buffer alone.
Buffer(b, amt) ==
    IF vfs = "verix" THEN ZeroFilled(b, amt) ELSE NotFilled(b, amt)

\* A failed lseek reads as a short read of nothing in verix.c, as an error
\* in os_verix.c; a failed read() is a short read in both.
verixRead(id, off, amt) ==
    /\ Open(id)
    /\ LET s == disk[f[id].h]
           b == Found(s, off, amt)
           answer(bytes) ==
               [off |-> off, amt |-> amt, data |-> Buffer(bytes, amt)]
           noSeek == IF vfs = "verix" THEN "SHORT_READ" ELSE "IOERR_READ"
       IN  \/ /\ Seekable(id, off)
              /\ f' = [f EXCEPT ![id].pos = off + Len(b)]
              /\ Return("read", id, IF Len(b) = amt THEN "OK"
                                    ELSE "SHORT_READ", answer(b))
              /\ UNCHANGED faults
           \/ /\ ~Seekable(id, off)
              /\ Return("read", id, noSeek, answer(<<>>))
              /\ UNCHANGED <<f, faults>>
           \/ /\ FileFault("read")
              /\ Return("failedRead", id, "SHORT_READ", answer(<<>>))
              /\ f' = [f EXCEPT ![id].pos = IF Seekable(id, off) THEN off
                                            ELSE @]
    /\ UNCHANGED <<disk, ticks, call>>

\* Mutant: the seek is left out.
verixWriteUnseeked(id, off, buf) ==
    /\ Open(id) /\ Seekable(id, off)
    /\ call' = [id |-> id, off |-> off, buf |-> buf, done |-> 0,
                before |-> disk[f[id].h]]
    /\ ret' = NoRet
    /\ UNCHANGED <<disk, f, ticks, faults>>

verixWrite(id, off, buf) ==
    /\ Open(id)
    /\ \/ /\ Seekable(id, off)
          /\ f' = [f EXCEPT ![id].pos = off]
          /\ call' = [id |-> id, off |-> off, buf |-> buf, done |-> 0,
                      before |-> disk[f[id].h]]
          /\ ret' = NoRet
          /\ UNCHANGED faults
       \/ /\ ~Seekable(id, off)
          /\ Return("write", id, "IOERR_WRITE", NULL)
          /\ UNCHANGED <<f, call, faults>>
    /\ UNCHANGED <<disk, ticks>>

\* Mutant: amt is not counted down.
verixWriteLoopUncounted ==
    /\ call # NoCall
    /\ LET n == f[call.id].h
       IN  /\ disk' = [disk EXCEPT ![n] =
                          Overwrite(@, call.off, call.buf)]
           /\ f' = [f EXCEPT ![call.id].pos = call.off]
    /\ UNCHANGED <<ticks, call, ret, faults>>

\* Mutant: the loop goes on until amt is below zero.
verixWriteLoopPastEnd ==
    /\ call # NoCall
    /\ \E w \in 0 .. Len(call.buf) - call.done :
           LET id == call.id
               b == SubSeq(call.buf, call.done + 1, call.done + w)
           IN  /\ disk' = [disk EXCEPT ![f[id].h] =
                              Overwrite(@, f[id].pos, b)]
               /\ f' = [f EXCEPT ![id].pos = @ + w]
               /\ call' = [call EXCEPT !.done = @ + w]
    /\ UNCHANGED <<ticks, ret, faults>>

\* One write() of the loop: it takes w bytes, perhaps fewer than are left and
\* perhaps none, or fails.
verixWriteLoop ==
    /\ call # NoCall
    /\ \/ \E w \in 0 .. Len(call.buf) - call.done :
              LET id == call.id
                  b == SubSeq(call.buf, call.done + 1, call.done + w)
              IN  /\ disk' = [disk EXCEPT ![f[id].h] =
                                 Overwrite(@, f[id].pos, b)]
                  /\ f' = [f EXCEPT ![id].pos = @ + w]
                  /\ IF call.done + w = Len(call.buf)
                     THEN /\ call' = NoCall
                          /\ Return("write", id, "OK",
                                 Overwrite(call.before, call.off, call.buf))
                     ELSE /\ call' = [call EXCEPT !.done = @ + w]
                          /\ UNCHANGED ret
                  /\ UNCHANGED faults
       \/ /\ FileFault("write")
          /\ call' = NoCall
          /\ Return("write", call.id, "IOERR_WRITE", NULL)
          /\ UNCHANGED <<disk, f>>
    /\ UNCHANGED ticks

\* lseek and delete_ of the bytes that follow; a file cannot be made longer.
verixTruncate(id, nByte) ==
    /\ Open(id)
    /\ \/ /\ Seekable(id, nByte)
          /\ disk' = [disk EXCEPT ![f[id].h] = SubSeq(@, 1, nByte)]
          /\ f' = [f EXCEPT ![id].pos = nByte]
          /\ Return("truncate", id, "OK", NULL)
          /\ UNCHANGED faults
       \/ /\ \/ ~Seekable(id, nByte) /\ UNCHANGED <<f, faults>>
             \/ FileFault("size") /\ UNCHANGED f
             \/ /\ Seekable(id, nByte)
                /\ FileFault("write")
                /\ f' = [f EXCEPT ![id].pos = nByte]
          /\ Return("truncate", id, "IOERR_TRUNCATE", NULL)
          /\ UNCHANGED disk
    /\ UNCHANGED <<ticks, call>>

\* The size comes from the directory, by the name in the verixFile.
verixFileSize(id) ==
    /\ Open(id)
    /\ LET n == f[id].filename
       IN  \/ /\ Exists(n)
              /\ Return("size", id, "OK", Len(disk[n]))
              /\ UNCHANGED faults
           \/ /\ \/ ~Exists(n) /\ UNCHANGED faults
                 \/ FileFault("size")
              /\ Return("size", id, "IOERR_FSTAT", 0)
    /\ UNCHANGED <<disk, f, ticks, call>>

verixDelete(zFilename) ==
    /\ Ready
    /\ \/ /\ Removable(zFilename, File)
          /\ disk' = Without(zFilename)
          /\ Return("delete", NULL, "OK", zFilename)
          /\ UNCHANGED faults
       \/ /\ ~Exists(zFilename)
          /\ Return("delete", NULL,
                    IF vfs = "verix" THEN "IOERR_DELETE_NOENT"
                    ELSE "IOERR_DELETE", zFilename)
          /\ UNCHANGED <<disk, faults>>
       \/ /\ Exists(zFilename)
          /\ \/ ~Removable(zFilename, File) /\ UNCHANGED faults
             \/ FileFault("remove")
          /\ Return("delete", NULL, "IOERR_DELETE", zFilename)
          /\ UNCHANGED disk
    /\ UNCHANGED <<f, ticks, call>>

verixAccess(zFilename) ==
    /\ Ready
    /\ Return("access", NULL, "OK", Exists(zFilename))
    /\ UNCHANGED <<disk, f, ticks, call, faults>>

-----------------------------------------------------------------------------
Amounts == 1 .. MaxAmt
Buffers == UNION {[1 .. n -> Byte \ {0}] : n \in Amounts}

FileNext ==
    /\ UNCHANGED vfs
    /\ \/ \E id \in File :
              \/ verixOpen(id) \/ verixClose(id) \/ verixFileSize(id)
              \/ \E off \in 0 .. MaxLen, amt \in Amounts :
                     verixRead(id, off, amt)
              \/ \E off \in 0 .. MaxLen, buf \in Buffers :
                     off + Len(buf) <= MaxLen /\ verixWrite(id, off, buf)
              \/ \E nByte \in 0 .. MaxLen : verixTruncate(id, nByte)
       \/ verixWriteLoop
       \/ \E n \in Name : verixDelete(n) \/ verixAccess(n)
       \/ Tick

FileSpec == FileInit /\ [][FileNext]_fileVars

\* Fairness: the process goes on, and write() does not return 0 for ever.
FileFairSpec ==
    FileSpec /\ WF_fileVars(verixWriteLoop /\ call' # call /\ UNCHANGED vfs)

-----------------------------------------------------------------------------
(* Properties.                                                             *)

FileTypeOK ==
    /\ vfs \in Ports
    /\ DOMAIN disk \subseteq AllNames
    /\ \A n \in DOMAIN disk : disk[n] \in Bytes
    /\ \A id \in File :
           /\ f[id].h \in DOMAIN disk \cup {NULL}
           /\ f[id].filename \in AllNames \cup {NULL, Junk}
           /\ f[id].pos \in 0 .. MaxLen
    /\ ticks \in 0 .. MaxTick
    /\ faults \in 0 .. MaxFaults
    /\ call # NoCall => call.id \in File /\ call.done < Len(call.buf)

(* The loop of verixWrite: after any number of short writes the file is    *)
(* what it was before the call, with the first `done' bytes of the buffer  *)
(* over it, and nothing else.  So SQLITE_OK means that all bytes are at    *)
(* their offset, and a failure that a prefix of them is.                   *)
WriteExact ==
    /\ call # NoCall =>
           disk[f[call.id].h] =
               Overwrite(call.before, call.off, SubSeq(call.buf, 1, call.done))
    /\ ret.op = "write" /\ ret.rc = "OK" => disk[f[ret.id].h] = ret.val

(* What the sqlite3_io_methods documentation asks of xRead, as long as     *)
(* read() itself does not fail: the bytes of the file at that offset,      *)
(* SQLITE_OK only if there are enough, and with verix.c zeros in the rest  *)
(* of the buffer after a short read.                                       *)
ReadExact ==
    ret.op = "read" /\ ret.rc \in {"OK", "SHORT_READ"} =>
        LET s == disk[f[ret.id].h]
        IN  /\ \A i \in 1 .. ret.val.amt :
                   IF ret.val.off + i <= Len(s)
                   THEN ret.val.data[i] = s[ret.val.off + i]
                   ELSE vfs = "verix" => ret.val.data[i] = 0
            /\ ret.rc = "OK" <=> ret.val.off + ret.val.amt <= Len(s)

(* SQLITE_OPEN_DELETEONCLOSE: a temporary file is deleted when it is       *)
(* closed, unless a system call fails.  Two that are opened in one tick    *)
(* share a name; then the last to close removes it.  This is about         *)
(* os_verix.c; verix.c does not keep the name of the file.                 *)
TempRemoved ==
    [][\A id \in File :
           /\ vfs = "os_verix"
           /\ f[id].temporary /\ f'[id].h = NULL
           /\ ret'.op = "close" /\ faults' = faults
           /\ \A other \in File \ {id} : f[other].h # f[id].h
           => f[id].h \notin DOMAIN disk']_fileVars

(* A write ends, although the loop only stops when every byte is taken or  *)
(* write() fails.                                                          *)
WriteReturns == call # NoCall ~> call = NoCall
=============================================================================

-------------------------- MODULE VerixFile_proofs --------------------------
(***************************************************************************)
(* The file methods for any number of files, file lengths and faults.      *)
(***************************************************************************)
EXTENDS VerixFile, SequenceTheorems, TLAPS

USE FileAssumption

Handle ==
    [h : AllNames \cup {NULL}, filename : AllNames \cup {NULL, Junk},
     temporary : BOOLEAN, pos : 0 .. MaxLen]

\* The files and the verixFile structures fit together.
HandlesInv ==
    /\ vfs \in Ports
    /\ disk \in [DOMAIN disk -> Bytes] /\ DOMAIN disk \subseteq AllNames
    /\ f \in [File -> Handle]
    /\ \A id \in File :
           /\ f[id].h \in DOMAIN disk \cup {NULL}
           /\ f[id].h = NULL => ~f[id].temporary
           /\ vfs = "os_verix" => f[id].filename = f[id].h
    /\ ticks \in 0 .. MaxTick /\ faults \in 0 .. MaxFaults

\* A call of verixWrite that is under way has its file open, is where the
\* file's position says, and has not returned anything.
CallInv ==
    call # NoCall =>
        /\ call.id \in File /\ f[call.id].h \in DOMAIN disk
        /\ call.before \in Seq(Byte) /\ call.buf \in Seq(Byte)
        /\ call.off \in 0 .. Len(call.before) /\ Len(call.before) <= MaxLen
        /\ call.off + Len(call.buf) <= MaxLen
        /\ call.done \in Nat /\ call.done < Len(call.buf)
        /\ f[call.id].pos = call.off + call.done
        /\ ret = NoRet

FileInv == HandlesInv /\ CallInv /\ WriteExact /\ ReadExact

-----------------------------------------------------------------------------
(* Bytes are the sequences of bytes of bounded length.                     *)
LEMMA BytesDef ==
    ASSUME NEW s
    PROVE  s \in Bytes <=> s \in Seq(Byte) /\ Len(s) <= MaxLen
<1>1. ASSUME s \in Bytes
      PROVE  s \in Seq(Byte) /\ Len(s) <= MaxLen
  <2>1. PICK n \in 0 .. MaxLen : s \in [1 .. n -> Byte]
    BY <1>1 DEF Bytes
  <2>2. s \in Seq(Byte)
    BY <2>1, IsASeq
  <2> QED  BY <2>1, <2>2, LenProperties
<1>2. ASSUME s \in Seq(Byte), Len(s) <= MaxLen
      PROVE  s \in Bytes
  <2>1. s \in [1 .. Len(s) -> Byte] /\ Len(s) \in 0 .. MaxLen
    BY <1>2, LenProperties
  <2> QED  BY <2>1 DEF Bytes
<1> QED  BY <1>1, <1>2

(* What a write of n bytes at a position inside a file of k bytes, or at   *)
(* its end, makes of the file.                                             *)
LEMMA OverwriteEffect ==
    ASSUME NEW s \in Seq(Byte), NEW b \in Seq(Byte), NEW pos \in 0 .. Len(s)
    PROVE  /\ Overwrite(s, pos, b) \in Seq(Byte)
           /\ Len(Overwrite(s, pos, b)) =
                  IF pos + Len(b) > Len(s) THEN pos + Len(b) ELSE Len(s)
           /\ \A i \in 1 .. Len(b) : Overwrite(s, pos, b)[pos + i] = b[i]
           /\ \A i \in 1 .. Len(s) :
                  i <= pos \/ i > pos + Len(b)
                  => Overwrite(s, pos, b)[i] = s[i]
<1> DEFINE k == Len(s)
           n == Len(b)
           m == IF pos + n > k THEN pos + n ELSE k
<1>0. k \in Nat /\ n \in Nat /\ m \in Nat /\ pos \in 0 .. k
  BY LenProperties
<1>m. m = IF pos + n > k THEN pos + n ELSE k
  OBVIOUS
<1>o. Overwrite(s, pos, b) =
        [i \in 1 .. m |-> IF i \in pos + 1 .. pos + n THEN b[i - pos]
                         ELSE s[i]]
  BY DEF Overwrite
<1>e. /\ \A i \in 1 .. n : b[i] \in Byte
      /\ \A i \in 1 .. k : s[i] \in Byte
  BY ElementOfSeq
<1> HIDE DEF k, n, m
<1> DEFINE val(i) == IF i \in pos + 1 .. pos + n THEN b[i - pos] ELSE s[i]
<1>1. ASSUME NEW i \in 1 .. m
      PROVE  val(i) \in Byte
  <2>1. CASE i \in pos + 1 .. pos + n
    <3>1. i - pos \in 1 .. n
      BY <1>0, <2>1
    <3> QED  BY <2>1, <3>1, <1>e
  <2>2. CASE i \notin pos + 1 .. pos + n
    <3>1. i \in 1 .. k
      BY <1>0, <1>m, <2>2
    <3> QED  BY <2>2, <3>1, <1>e
  <2> QED  BY <2>1, <2>2
<1>2. Overwrite(s, pos, b) = [i \in 1 .. m |-> val(i)]
  BY <1>o
<1> HIDE DEF val
<1>3. Overwrite(s, pos, b) \in [1 .. m -> Byte]
  BY <1>1, <1>2
<1>4. Overwrite(s, pos, b) \in Seq(Byte) /\ Len(Overwrite(s, pos, b)) = m
  BY <1>0, <1>3, IsASeq, LenProperties
<1>5. ASSUME NEW i \in 1 .. n
      PROVE  Overwrite(s, pos, b)[pos + i] = b[i]
  <2>1. pos + i \in 1 .. m /\ pos + i \in pos + 1 .. pos + n
    BY <1>0, <1>m
  <2>2. pos + i - pos = i
    BY <1>0
  <2> QED  BY <1>2, <2>1, <2>2 DEF val
<1>6. ASSUME NEW i \in 1 .. k, i <= pos \/ i > pos + n
      PROVE  Overwrite(s, pos, b)[i] = s[i]
  <2>1. i \in 1 .. m /\ i \notin pos + 1 .. pos + n
    BY <1>0, <1>m, <1>6
  <2> QED  BY <1>2, <2>1 DEF val
<1>7. Len(Overwrite(s, pos, b)) = IF pos + n > k THEN pos + n ELSE k
  BY <1>4, <1>m
<1> QED  BY <1>4, <1>5, <1>6, <1>7 DEF k, n

(* The loop invariant of verixWrite: what the first d bytes and then the   *)
(* next w bytes make of a file, the first d + w bytes make of it.          *)
LEMMA OverwriteTwice ==
    ASSUME NEW s \in Seq(Byte), NEW b \in Seq(Byte),
           NEW k \in Nat, k = Len(s), NEW off \in 0 .. k,
           NEW d \in Nat, NEW w \in Nat, d + w <= Len(b)
    PROVE  Overwrite(Overwrite(s, off, SubSeq(b, 1, d)), off + d,
                     SubSeq(b, d + 1, d + w))
           = Overwrite(s, off, SubSeq(b, 1, d + w))
<1> DEFINE b1 == SubSeq(b, 1, d)
           b2 == SubSeq(b, d + 1, d + w)
           b3 == SubSeq(b, 1, d + w)
           m == off + d
           s1 == Overwrite(s, off, b1)
           s2 == Overwrite(s1, m, b2)
           s3 == Overwrite(s, off, b3)
           k1 == IF m > k THEN m ELSE k
           k2 == IF m + w > k THEN m + w ELSE k
<1>0. Len(b) \in Nat /\ m \in Nat /\ k1 \in Nat /\ k2 \in Nat
  BY LenProperties
<1>1. /\ b1 \in Seq(Byte) /\ Len(b1) = d /\ \A i \in 1 .. d : b1[i] = b[i]
  BY <1>0, SubSeqProperties
<1>2. /\ b2 \in Seq(Byte) /\ Len(b2) = w
      /\ \A i \in 1 .. w : b2[i] = b[d + i]
  BY <1>0, SubSeqProperties
<1>3. /\ b3 \in Seq(Byte) /\ Len(b3) = d + w
      /\ \A i \in 1 .. d + w : b3[i] = b[i]
  BY <1>0, SubSeqProperties
<1>a. k1 = IF off + d > k THEN off + d ELSE k
  OBVIOUS
<1>b. k2 = IF m + w > k1 THEN m + w ELSE k1
  OBVIOUS
<1>c. k2 = IF off + (d + w) > k THEN off + (d + w) ELSE k
  OBVIOUS
<1>d. m = off + d /\ m \in 0 .. k1
  OBVIOUS
<1> HIDE DEF b1, b2, b3, s1, s2, s3, k1, k2, m
<1>4. /\ s1 \in Seq(Byte) /\ Len(s1) = k1
      /\ \A i \in 1 .. d : s1[off + i] = b1[i]
      /\ \A i \in 1 .. k : i <= off \/ i > off + d => s1[i] = s[i]
  <2>1. b1 \in Seq(Byte) /\ d = Len(b1) /\ k1 \in Nat
    BY <1>0, <1>1
  <2> QED  BY <1>a, <2>1, OverwriteEffect DEF s1
<1>5. /\ s2 \in Seq(Byte) /\ Len(s2) = k2
      /\ \A i \in 1 .. w : s2[m + i] = b2[i]
      /\ \A i \in 1 .. k1 : i <= m \/ i > m + w => s2[i] = s1[i]
  <2>1. /\ s1 \in Seq(Byte) /\ b2 \in Seq(Byte) /\ k1 = Len(s1)
        /\ w = Len(b2) /\ k1 \in Nat /\ k2 \in Nat
    BY <1>0, <1>2, <1>4
  <2> QED  BY <1>b, <1>d, <2>1, OverwriteEffect, SMTT(20) DEF s2
<1>6. /\ s3 \in Seq(Byte) /\ Len(s3) = k2
      /\ \A i \in 1 .. d + w : s3[off + i] = b3[i]
      /\ \A i \in 1 .. k : i <= off \/ i > off + (d + w) => s3[i] = s[i]
  <2> DEFINE n == d + w
  <2>1. n \in Nat /\ n = Len(b3) /\ k2 = IF off + n > k THEN off + n ELSE k
    BY <1>3, <1>c
  <2> HIDE DEF n
  <2>2. /\ s3 \in Seq(Byte) /\ Len(s3) = k2
        /\ \A i \in 1 .. n : s3[off + i] = b3[i]
        /\ \A i \in 1 .. k : i <= off \/ i > off + n => s3[i] = s[i]
    <3>1. b3 \in Seq(Byte) /\ k2 \in Nat
      BY <1>0, <1>3
    <3>2. n = Len(b3)
      BY <2>1
    <3>3. /\ s3 \in Seq(Byte)
          /\ Len(s3) = IF off + n > k THEN off + n ELSE k
          /\ \A i \in 1 .. n : s3[off + i] = b3[i]
          /\ \A i \in 1 .. k : i <= off \/ i > off + n => s3[i] = s[i]
      BY <3>1, <3>2, OverwriteEffect DEF s3
    <3> QED  BY <2>1, <3>3
  <2> QED  BY <2>2 DEF n
<1>7. ASSUME NEW i \in 1 .. k2
      PROVE  s2[i] = s3[i]
  <2>1. CASE i > off /\ i <= m
    <3>1. PICK q \in 1 .. d : i = off + q
      <4>1. i - off \in 1 .. d /\ i = off + (i - off)
        BY <1>d, <2>1
      <4> QED  BY <4>1
    <3>2. i \in 1 .. k1
      BY <1>0, <1>d, <2>1
    <3>3. s2[i] = s1[i]
      BY <1>5, <2>1, <3>2
    <3>4. s1[i] = b[q]
      BY <1>1, <1>4, <3>1
    <3>5. s3[i] = b[q]
      BY <1>3, <1>6, <3>1
    <3> QED  BY <3>3, <3>4, <3>5
  <2>2. CASE i > m /\ i <= m + w
    <3>1. PICK q \in 1 .. w : i = m + q
      <4>1. i - m \in 1 .. w /\ i = m + (i - m)
        BY <1>0, <1>d, <2>2
      <4> QED  BY <4>1
    <3>2. s2[i] = b[d + q]
      BY <1>2, <1>5, <3>1
    <3>3. i = off + (d + q) /\ d + q \in 1 .. d + w
      BY <1>d, <3>1
    <3>4. s3[i] = b[d + q]
      BY <1>3, <1>6, <3>3
    <3> QED  BY <3>2, <3>4
  <2>3. CASE i <= off \/ i > m + w
    <3>1. i \in 1 .. k /\ i \in 1 .. k1 /\ (i <= m \/ i > m + w)
      BY <1>0, <1>c, <1>d, <2>3 DEF k1
    <3>2. s2[i] = s1[i]
      BY <1>5, <3>1
    <3>3. s1[i] = s[i]
      BY <1>4, <1>d, <2>3, <3>1
    <3>4. s3[i] = s[i]
      BY <1>6, <1>d, <2>3, <3>1
    <3> QED  BY <3>2, <3>3, <3>4
  <2> QED  BY <1>0, <1>d, <2>1, <2>2, <2>3
<1>8. s2 = s3
  BY <1>5, <1>6, <1>7, SeqEqual
<1> QED  BY <1>8 DEF s2, s1, s3, b1, b2, b3, m

(* Nothing written, nothing changed.                                       *)
LEMMA OverwriteNothing ==
    ASSUME NEW s \in Seq(Byte), NEW b \in Seq(Byte), NEW off \in 0 .. Len(s)
    PROVE  Overwrite(s, off, SubSeq(b, 1, 0)) = s
<1> DEFINE e == SubSeq(b, 1, 0)
<1>1. e \in Seq(Byte) /\ Len(e) = 0 /\ Len(s) \in Nat
  BY SubSeqProperties, LenProperties
<1> HIDE DEF e
<1>2. /\ Overwrite(s, off, e) \in Seq(Byte)
      /\ Len(Overwrite(s, off, e)) =
             IF off + Len(e) > Len(s) THEN off + Len(e) ELSE Len(s)
      /\ \A i \in 1 .. Len(s) :
             i <= off \/ i > off + Len(e) => Overwrite(s, off, e)[i] = s[i]
  <2>1. e \in Seq(Byte)
    BY <1>1
  <2> QED  BY <2>1, OverwriteEffect
<1>3. Len(Overwrite(s, off, e)) = Len(s)
  BY <1>1, <1>2
<1>4. ASSUME NEW i \in 1 .. Len(s)
      PROVE  Overwrite(s, off, e)[i] = s[i]
  <2>1. i <= off \/ i > off + Len(e)
    BY <1>1
  <2> QED  BY <1>2, <2>1
<1>5. Overwrite(s, off, e) = s
  BY <1>2, <1>3, <1>4, SeqEqual
<1> QED  BY <1>5 DEF e

-----------------------------------------------------------------------------
(* Steps that leave the handles consistent: a position moves ...           *)
LEMMA MovePos ==
    ASSUME HandlesInv, NEW id \in File, NEW q \in 0 .. MaxLen,
           f' = [f EXCEPT ![id].pos = q] \/ f' = f,
           disk' \in [DOMAIN disk -> Bytes], vfs' = vfs,
           ticks' = ticks, faults' \in 0 .. MaxFaults
    PROVE  HandlesInv'
<1>1. DOMAIN disk' = DOMAIN disk
  OBVIOUS
<1>2. f' \in [File -> Handle]
  BY DEF HandlesInv, Handle
<1>3. \A k \in File : /\ f'[k].h = f[k].h /\ f'[k].filename = f[k].filename
                      /\ f'[k].temporary = f[k].temporary
  BY DEF HandlesInv, Handle
<1> QED  BY <1>1, <1>2, <1>3 DEF HandlesInv

(* ... a handle is closed, and perhaps a file removed that no other handle *)
(* refers to ...                                                           *)
LEMMA CloseHandle ==
    ASSUME HandlesInv, NEW id \in File, NEW n,
           f' = [f EXCEPT ![id] = NoFile],
           disk' = disk \/ (disk' = Without(n) /\ Removable(n, File \ {id})),
           vfs' = vfs, ticks' = ticks, faults' \in 0 .. MaxFaults
    PROVE  HandlesInv'
<1>1. NoFile \in Handle /\ NoFile.h = NULL /\ ~NoFile.temporary
      /\ NoFile.filename = NULL
  BY DEF NoFile, Handle
<1>2. f' \in [File -> Handle]
  BY <1>1 DEF HandlesInv
<1>3. /\ disk' \in [DOMAIN disk' -> Bytes] /\ DOMAIN disk' \subseteq DOMAIN disk
      /\ \A k \in File \ {id} :
             f[k].h \in DOMAIN disk => f[k].h \in DOMAIN disk'
  BY DEF Without, Removable, HandlesInv
<1>4. \A k \in File : f'[k] = IF k = id THEN NoFile ELSE f[k]
  BY DEF HandlesInv
<1> QED  BY <1>1, <1>2, <1>3, <1>4 DEF HandlesInv

(* A file that did not exist is empty.                                     *)
LEMMA NewFile ==
    ASSUME HandlesInv, NEW n \in AllNames,
           disk' = IF Exists(n) THEN disk ELSE WithFile(n, <<>>)
    PROVE  /\ disk' \in [DOMAIN disk' -> Bytes]
           /\ DOMAIN disk \subseteq DOMAIN disk'
           /\ n \in DOMAIN disk' /\ DOMAIN disk' \subseteq AllNames
<1>1. <<>> \in Bytes
  <2>1. <<>> \in Seq(Byte) /\ Len(<<>>) <= MaxLen
    OBVIOUS
  <2> QED  BY <2>1, BytesDef
<1>2. CASE Exists(n)
  BY <1>2 DEF Exists, HandlesInv
<1>3. CASE ~Exists(n)
  <2>1. disk' = [m \in DOMAIN disk \cup {n} |->
                   IF m = n THEN <<>> ELSE disk[m]]
    BY <1>3 DEF WithFile
  <2>2. \A m \in DOMAIN disk : disk[m] \in Bytes
    BY DEF HandlesInv
  <2> QED  BY <1>1, <2>1, <2>2 DEF HandlesInv
<1> QED  BY <1>2, <1>3

(* ... or a handle is opened on a file that exists then.                   *)
LEMMA OpenHandle ==
    ASSUME HandlesInv, NEW id \in File, NEW n \in AllNames,
           NEW filename \in AllNames \cup {Junk}, NEW flags,
           opened(id, n, filename, flags),
           vfs = "os_verix" => filename = n,
           vfs' = vfs, ticks' = ticks, faults' \in 0 .. MaxFaults
    PROVE  HandlesInv'
<1> DEFINE new == [h |-> n, filename |-> filename, pos |-> 0,
                   temporary |-> "DELETEONCLOSE" \in flags]
<1>1. f' = [f EXCEPT ![id] = new]
  BY DEF opened
<1>2. new \in Handle /\ new.h = n /\ new.filename = filename
  BY DEF Handle
<1> HIDE DEF new
<1>4. /\ disk' \in [DOMAIN disk' -> Bytes] /\ DOMAIN disk \subseteq DOMAIN disk'
      /\ n \in DOMAIN disk' /\ DOMAIN disk' \subseteq AllNames
  BY NewFile DEF opened
<1>5. n # NULL
  OBVIOUS
<1>6. f' \in [File -> Handle]
  BY <1>1, <1>2 DEF HandlesInv
<1>7. \A k \in File : f'[k] = IF k = id THEN new ELSE f[k]
  BY <1>1 DEF HandlesInv
<1> QED  BY <1>2, <1>4, <1>5, <1>6, <1>7 DEF HandlesInv

-----------------------------------------------------------------------------
(* A step that neither begins nor ends a read or write.                    *)
LEMMA OtherMethod ==
    ASSUME Ready, call' = call, ret'.op \notin {"read", "write"}
    PROVE  CallInv' /\ WriteExact' /\ ReadExact'
BY DEF Ready, CallInv, WriteExact, ReadExact

MaybeFault == faults' = faults \/ (faults < MaxFaults /\ faults' = faults + 1)

(* A system call fails at most MaxFaults times.                            *)
LEMMA FaultBound ==
    ASSUME HandlesInv, MaybeFault
    PROVE  faults' \in 0 .. MaxFaults
BY DEF HandlesInv, MaybeFault

(* xOpen, with and without a name.                                         *)
LEMMA OpenStep ==
    ASSUME FileInv, NEW id \in File, verixOpen(id), vfs' = vfs
    PROVE  FileInv'
<1>1. ASSUME NEW n \in AllNames, NEW flags, verixOpenNamed(id, n, flags)
      PROVE  FileInv'
  <2>1. /\ Ready /\ call' = call /\ ticks' = ticks
        /\ ret'.op \notin {"read", "write"}
        /\ MaybeFault
    BY <1>1 DEF verixOpenNamed, opened, Return, MaybeFault, FileFault
  <2>2. faults' \in 0 .. MaxFaults
    BY <2>1, FaultBound DEF FileInv
  <2>3. CASE opened(id, n, n, flags)
    BY <2>1, <2>2, <2>3, OpenHandle, OtherMethod DEF FileInv
  <2>4. CASE UNCHANGED <<disk, f>>
    BY <2>1, <2>2, <2>4, OtherMethod DEF FileInv, HandlesInv
  <2> QED  BY <1>1, <2>3, <2>4 DEF verixOpenNamed
<1>2. ASSUME NEW flags, vfs = "verix", verixOpenTemp(id, flags)
      PROVE  FileInv'
  <2> DEFINE n == TempName(ticks)
  <2>1. /\ Ready /\ call' = call /\ ticks' = ticks
        /\ ret'.op \notin {"read", "write"}
        /\ MaybeFault
    BY <1>2 DEF verixOpenTemp, opened, Return, NoRet, MaybeFault, FileFault
  <2>2. faults' \in 0 .. MaxFaults
    BY <2>1, FaultBound DEF FileInv
  <2>3. n \in AllNames
    BY DEF AllNames, FileInv, HandlesInv
  <2> HIDE DEF n
  <2>4. CASE opened(id, n, Junk, flags)
    BY <1>2, <2>1, <2>2, <2>3, <2>4, OpenHandle, OtherMethod DEF FileInv
  <2>5. CASE UNCHANGED <<disk, f>>
    BY <2>1, <2>2, <2>5, OtherMethod DEF FileInv, HandlesInv
  <2>6. CASE /\ disk' = IF Exists(n) THEN disk ELSE WithFile(n, <<>>)
             /\ f' = [i \in File |-> NoFile]
    <3>1. /\ disk' \in [DOMAIN disk' -> Bytes]
          /\ DOMAIN disk' \subseteq AllNames
      BY <2>3, <2>6, NewFile DEF FileInv, HandlesInv
    <3>2. NoFile \in Handle /\ NoFile.h = NULL /\ ~NoFile.temporary
          /\ NoFile.filename = NULL
      BY DEF NoFile, Handle
    <3>3. HandlesInv'
      BY <2>1, <2>2, <2>6, <3>1, <3>2 DEF FileInv, HandlesInv
    <3> QED  BY <2>1, <3>3, OtherMethod DEF FileInv
  <2> QED  BY <1>2, <2>4, <2>5, <2>6 DEF verixOpenTemp, n
<1>3. verixGetTempname \in AllNames
  BY DEF FileInv, HandlesInv, verixGetTempname, AllNames
<1>4. Name \subseteq AllNames
  BY DEF AllNames
<1> QED  BY <1>1, <1>2, <1>3, <1>4 DEF verixOpen

(* xClose: the file of a handle that is still open is never removed.       *)
LEMMA CloseStep ==
    ASSUME FileInv, NEW id \in File, verixClose(id), vfs' = vfs
    PROVE  FileInv'
<1>1. /\ Ready /\ call' = call /\ ticks' = ticks
      /\ ret'.op \notin {"read", "write"}
      /\ MaybeFault
      /\ f' = [f EXCEPT ![id] = NoFile]
      /\ \/ disk' = disk
         \/ /\ disk' = Without(f[id].filename)
            /\ Removable(f[id].filename, File \ {id})
  BY DEF verixClose, Return, Open, MaybeFault, FileFault
<1>2. HandlesInv'
  BY <1>1, FaultBound, CloseHandle DEF FileInv
<1> QED  BY <1>1, <1>2, OtherMethod DEF FileInv

(* xFileSize, xDelete, xAccess and the passage of time.                    *)
LEMMA DirectorySteps ==
    ASSUME FileInv, vfs' = vfs,
           \/ \E id \in File : verixFileSize(id)
           \/ \E n \in Name : verixDelete(n) \/ verixAccess(n)
           \/ Tick
    PROVE  FileInv'
<1>1. ASSUME NEW id \in File, verixFileSize(id)
      PROVE  FileInv'
  <2>1. /\ Ready /\ call' = call /\ UNCHANGED <<disk, f, ticks>>
        /\ ret'.op \notin {"read", "write"}
        /\ MaybeFault
    BY <1>1 DEF verixFileSize, Return, Open, MaybeFault, FileFault
  <2>2. HandlesInv'
    BY <2>1, FaultBound DEF FileInv, HandlesInv
  <2> QED  BY <2>1, <2>2, OtherMethod DEF FileInv
<1>2. ASSUME NEW n \in Name, verixDelete(n)
      PROVE  FileInv'
  <2>1. /\ Ready /\ call' = call /\ UNCHANGED <<f, ticks>>
        /\ ret'.op \notin {"read", "write"}
        /\ MaybeFault
        /\ disk' = disk \/ (disk' = Without(n) /\ Removable(n, File))
    BY <1>2 DEF verixDelete, Return, MaybeFault, FileFault
  <2>2. /\ disk' \in [DOMAIN disk' -> Bytes]
        /\ DOMAIN disk' \subseteq DOMAIN disk
        /\ \A k \in File : f[k].h \in DOMAIN disk => f[k].h \in DOMAIN disk'
    BY <2>1 DEF Without, Removable, FileInv, HandlesInv
  <2>3. HandlesInv'
    BY <2>1, <2>2, FaultBound DEF FileInv, HandlesInv
  <2> QED  BY <2>1, <2>3, OtherMethod DEF FileInv
<1>3. ASSUME NEW n \in Name, verixAccess(n)
      PROVE  FileInv'
  <2>1. /\ Ready /\ call' = call /\ UNCHANGED <<disk, f, ticks, faults>>
        /\ ret'.op \notin {"read", "write"}
    BY <1>3 DEF verixAccess, Return
  <2> QED  BY <2>1, OtherMethod DEF FileInv, HandlesInv
<1>4. CASE Tick
  BY <1>4 DEF Tick, FileInv, HandlesInv, CallInv, WriteExact, ReadExact
<1> QED  BY <1>1, <1>2, <1>3, <1>4

(* A file that is open exists.                                             *)
LEMMA OpenFile ==
    ASSUME HandlesInv, NEW id \in File, f[id].h # NULL
    PROVE  /\ f[id].h \in DOMAIN disk
           /\ disk[f[id].h] \in Seq(Byte)
           /\ Len(disk[f[id].h]) \in 0 .. MaxLen
<1>1. f[id].h \in DOMAIN disk /\ disk[f[id].h] \in Bytes
  BY DEF HandlesInv
<1>2. disk[f[id].h] \in Seq(Byte) /\ Len(disk[f[id].h]) <= MaxLen
  BY <1>1, BytesDef
<1> QED  BY <1>1, <1>2, LenProperties

(* xTruncate.                                                              *)
LEMMA TruncateStep ==
    ASSUME FileInv, NEW id \in File, NEW nByte \in 0 .. MaxLen,
           verixTruncate(id, nByte), vfs' = vfs
    PROVE  FileInv'
<1>1. /\ Ready /\ call' = call /\ ticks' = ticks /\ f[id].h # NULL
      /\ ret'.op \notin {"read", "write"} /\ MaybeFault
      /\ f' = f \/ f' = [f EXCEPT ![id].pos = nByte]
      /\ \/ disk' = disk
         \/ /\ Seekable(id, nByte)
            /\ disk' = [disk EXCEPT ![f[id].h] = SubSeq(@, 1, nByte)]
  BY DEF verixTruncate, Return, Open, MaybeFault, FileFault
<1> DEFINE s == disk[f[id].h]
<1>2. /\ f[id].h \in DOMAIN disk /\ s \in Seq(Byte) /\ Len(s) \in 0 .. MaxLen
  BY <1>1, OpenFile DEF FileInv
<1>3. ASSUME Seekable(id, nByte)
      PROVE  SubSeq(s, 1, nByte) \in Bytes
  <2>1. nByte <= Len(s)
    BY <1>3 DEF Seekable
  <2>2. SubSeq(s, 1, nByte) \in Seq(Byte) /\ Len(SubSeq(s, 1, nByte)) = nByte
    BY <1>2, <2>1, SubSeqProperties
  <2>3. Len(SubSeq(s, 1, nByte)) <= MaxLen
    BY <2>2
  <2> QED  BY <2>2, <2>3, BytesDef
<1>4. disk' \in [DOMAIN disk -> Bytes]
  <2>1. CASE disk' = disk
    BY <2>1 DEF FileInv, HandlesInv
  <2>2. CASE /\ Seekable(id, nByte)
             /\ disk' = [disk EXCEPT ![f[id].h] = SubSeq(@, 1, nByte)]
    BY <1>2, <1>3, <2>2 DEF FileInv, HandlesInv
  <2> QED  BY <1>1, <2>1, <2>2
<1>5. HandlesInv'
  BY <1>1, <1>4, FaultBound, MovePos DEF FileInv
<1> QED  BY <1>1, <1>5, OtherMethod DEF FileInv

(* What lies in the file at an offset up to its end.                       *)
LEMMA FoundBytes ==
    ASSUME NEW s \in Seq(Byte), NEW off \in 0 .. Len(s), NEW amt \in Nat
    PROVE  /\ Len(Found(s, off, amt)) =
                  IF off + amt < Len(s) THEN amt ELSE Len(s) - off
           /\ \A i \in 1 .. Len(Found(s, off, amt)) :
                  Found(s, off, amt)[i] = s[off + i]
<1> DEFINE k == Len(s)
           e == IF off + amt < k THEN off + amt ELSE k
<1>1. k \in Nat /\ off \in 0 .. k
  BY LenProperties
<1>2. e \in Nat /\ off <= e /\ e <= k
      /\ e - off = IF off + amt < k THEN amt ELSE k - off
  BY <1>1
<1>3. Found(s, off, amt) = SubSeq(s, off + 1, e)
  BY DEF Found
<1> HIDE DEF e
<1>4. /\ Len(SubSeq(s, off + 1, e)) = e - off
      /\ \A i \in 1 .. e - off : SubSeq(s, off + 1, e)[i] = s[off + i]
  BY <1>1, <1>2, SubSeqProperties
<1> QED  BY <1>2, <1>3, <1>4

(* xRead returns what the file holds.                                      *)
LEMMA ReadStep ==
    ASSUME FileInv, NEW id \in File, NEW off \in 0 .. MaxLen,
           NEW amt \in Amounts, verixRead(id, off, amt), vfs' = vfs
    PROVE  FileInv'
<1> DEFINE s == disk[f[id].h]
           b == Found(s, off, amt)
           answer(bytes) ==
               [off |-> off, amt |-> amt, data |-> Buffer(bytes, amt)]
<1>1. /\ Ready /\ call' = call /\ ticks' = ticks /\ f[id].h # NULL
      /\ disk' = disk /\ MaybeFault
  BY DEF verixRead, Open, MaybeFault, FileFault
<1>2. /\ f[id].h \in DOMAIN disk /\ s \in Seq(Byte) /\ Len(s) \in 0 .. MaxLen
  BY <1>1, OpenFile DEF FileInv
<1>3. amt \in Nat /\ off \in Nat
  BY DEF Amounts
<1>4. CallInv'
  BY <1>1 DEF CallInv, Ready
<1>5. disk' \in [DOMAIN disk -> Bytes]
  BY <1>1 DEF FileInv, HandlesInv
<1>6. CASE /\ Seekable(id, off)
           /\ f' = [f EXCEPT ![id].pos = off + Len(b)]
           /\ Return("read", id, IF Len(b) = amt THEN "OK"
                                 ELSE "SHORT_READ", answer(b))
  <2>1. off \in 0 .. Len(s)
    BY <1>2, <1>6 DEF Seekable
  <2>2. /\ Len(b) = IF off + amt < Len(s) THEN amt ELSE Len(s) - off
        /\ \A i \in 1 .. Len(b) : b[i] = s[off + i]
    BY <1>2, <1>3, <2>1, FoundBytes
  <2> HIDE DEF b
  <2>3. Len(b) \in Nat /\ off + Len(b) \in 0 .. MaxLen
    BY <1>2, <1>3, <2>1, <2>2
  <2>4. HandlesInv'
    BY <1>1, <1>5, <1>6, <2>3, FaultBound, MovePos DEF FileInv
  <2>5. f'[id].h = f[id].h
    BY <1>6 DEF FileInv, HandlesInv, Handle
  <2>6. ReadExact'
    <3>1. /\ ret'.id = id /\ ret'.val = answer(b)
          /\ ret'.rc = IF Len(b) = amt THEN "OK" ELSE "SHORT_READ"
      BY <1>6 DEF Return
    <3>2. disk'[f'[id].h] = s
      BY <1>1, <2>5
    <3>3. ASSUME NEW i \in 1 .. amt
          PROVE  IF off + i <= Len(s) THEN Buffer(b, amt)[i] = s[off + i]
                 ELSE vfs = "verix" => Buffer(b, amt)[i] = 0
      <4>1. i <= Len(b) <=> off + i <= Len(s)
        BY <1>2, <1>3, <2>1, <2>2
      <4>2. Buffer(b, amt)[i] =
                IF i <= Len(b) THEN b[i]
                ELSE IF vfs = "verix" THEN 0 ELSE 1
        BY DEF Buffer, ZeroFilled, NotFilled
      <4>3. CASE i <= Len(b)
        <5>1. i \in 1 .. Len(b)
          BY <2>3, <4>3
        <5> QED  BY <2>2, <4>1, <4>2, <4>3, <5>1
      <4>4. CASE ~(i <= Len(b))
        BY <4>1, <4>2, <4>4
      <4> QED  BY <4>3, <4>4
    <3>4. ret'.rc = "OK" <=> off + amt <= Len(s)
      BY <1>2, <1>3, <2>1, <2>2, <3>1
    <3>5. ret'.val.off = off /\ ret'.val.amt = amt
          /\ ret'.val.data = Buffer(b, amt)
      BY <3>1
    <3> QED  BY <1>1, <3>1, <3>2, <3>3, <3>4, <3>5 DEF ReadExact
  <2>7. WriteExact'
    BY <1>1, <1>6 DEF WriteExact, Return, Ready
  <2> QED  BY <1>4, <2>4, <2>6, <2>7 DEF FileInv
<1>7. CASE /\ ~Seekable(id, off)
           /\ Return("read", id, IF vfs = "verix" THEN "SHORT_READ"
                                 ELSE "IOERR_READ", answer(<<>>))
           /\ f' = f
  <2>1. HandlesInv'
    BY <1>1, <1>7, FaultBound DEF FileInv, HandlesInv
  <2>2. ReadExact'
    <3>1. ret'.id = id /\ ret'.val = answer(<<>>)
          /\ ret'.rc = IF vfs = "verix" THEN "SHORT_READ" ELSE "IOERR_READ"
      BY <1>7 DEF Return
    <3>2. ret'.val.off = off /\ ret'.val.amt = amt
          /\ ret'.val.data = Buffer(<<>>, amt)
      BY <3>1
    <3>3. disk'[f'[id].h] = s /\ Len(s) < off
      BY <1>1, <1>2, <1>3, <1>7 DEF Seekable
    <3>4. ASSUME vfs = "verix", NEW i \in 1 .. amt
          PROVE  Buffer(<<>>, amt)[i] = 0 /\ ~(off + i <= Len(s))
      <4>1. ~(i <= Len(<<>>))
        BY <1>3
      <4> QED  BY <1>2, <1>3, <3>3, <3>4, <4>1 DEF Buffer, ZeroFilled
    <3>5. ~(off + amt <= Len(s))
      BY <1>2, <1>3, <3>3
    <3> QED  BY <1>1, <3>1, <3>2, <3>3, <3>4, <3>5 DEF ReadExact
  <2>3. WriteExact'
    BY <1>1, <1>7 DEF WriteExact, Return, Ready
  <2> QED  BY <1>4, <2>1, <2>2, <2>3 DEF FileInv
<1>8. CASE /\ Return("failedRead", id, "SHORT_READ", answer(<<>>))
           /\ f' = [f EXCEPT ![id].pos = IF Seekable(id, off) THEN off
                                         ELSE @]
  <2>1. f[id].pos \in 0 .. MaxLen
    BY DEF FileInv, HandlesInv, Handle
  <2> DEFINE q == IF Seekable(id, off) THEN off ELSE f[id].pos
  <2>2. q \in 0 .. MaxLen /\ f' = [f EXCEPT ![id].pos = q]
    BY <1>8, <2>1
  <2> HIDE DEF q
  <2>3. HandlesInv'
    BY <1>1, <1>5, <2>2, FaultBound, MovePos DEF FileInv
  <2>4. ret'.op \notin {"read", "write"}
    BY <1>8 DEF Return
  <2> QED  BY <1>1, <2>3, <2>4, OtherMethod DEF FileInv
<1> HIDE DEF answer, b
<1> QED  BY <1>6, <1>7, <1>8 DEF verixRead, answer, b

(* xWrite up to its loop.                                                  *)
LEMMA WriteStep ==
    ASSUME FileInv, NEW id \in File, NEW off \in 0 .. MaxLen,
           NEW buf \in Buffers, off + Len(buf) <= MaxLen,
           verixWrite(id, off, buf), vfs' = vfs
    PROVE  FileInv'
<1> DEFINE s == disk[f[id].h]
<1>1. /\ Ready /\ ticks' = ticks /\ f[id].h # NULL /\ disk' = disk
      /\ faults' = faults
  BY DEF verixWrite, Open
<1>2. /\ f[id].h \in DOMAIN disk /\ s \in Seq(Byte) /\ Len(s) \in 0 .. MaxLen
  BY <1>1, OpenFile DEF FileInv
<1>3. disk' \in [DOMAIN disk -> Bytes] /\ faults' \in 0 .. MaxFaults
  BY <1>1 DEF FileInv, HandlesInv
<1>4. buf \in Seq(Byte) /\ Len(buf) \in Nat /\ 0 < Len(buf)
  <2>1. PICK n \in Amounts : buf \in [1 .. n -> Byte \ {0}]
    BY DEF Buffers
  <2>2. n \in Nat \ {0} /\ buf \in [1 .. n -> Byte]
    BY <2>1 DEF Amounts
  <2>3. buf \in Seq(Byte) /\ Len(buf) = n
    BY <2>2, IsASeq, LenProperties
  <2> QED  BY <2>2, <2>3
<1>5. CASE /\ Seekable(id, off)
           /\ f' = [f EXCEPT ![id].pos = off]
           /\ call' = [id |-> id, off |-> off, buf |-> buf, done |-> 0,
                       before |-> s]
           /\ ret' = NoRet
  <2>1. HandlesInv'
    BY <1>1, <1>3, <1>5, MovePos DEF FileInv
  <2>2. f'[id].h = f[id].h /\ f'[id].pos = off
    BY <1>5 DEF FileInv, HandlesInv, Handle
  <2>3. off \in 0 .. Len(s)
    BY <1>2, <1>5 DEF Seekable
  <2>4. CallInv'
    BY <1>1, <1>2, <1>4, <1>5, <2>2, <2>3 DEF CallInv
  <2>5. WriteExact'
    <3>1. Overwrite(s, off, SubSeq(buf, 1, 0)) = s
      BY <1>2, <1>4, <2>3, OverwriteNothing
    <3>2. disk'[f'[call'.id].h] = s
      BY <1>1, <1>5, <2>2
    <3>3. call'.before = s /\ call'.off = off /\ call'.buf = buf
          /\ call'.done = 0
      BY <1>5
    <3> QED  BY <1>5, <3>1, <3>2, <3>3 DEF WriteExact, NoRet
  <2>6. ReadExact'
    BY <1>5 DEF ReadExact, NoRet
  <2> QED  BY <2>1, <2>4, <2>5, <2>6 DEF FileInv
<1>6. CASE /\ Return("write", id, "IOERR_WRITE", NULL)
           /\ UNCHANGED <<f, call>>
  <2>1. HandlesInv'
    BY <1>1, <1>6 DEF FileInv, HandlesInv
  <2>2. CallInv' /\ WriteExact' /\ ReadExact'
    BY <1>1, <1>6 DEF CallInv, WriteExact, ReadExact, Ready, Return
  <2> QED  BY <2>1, <2>2 DEF FileInv
<1> QED  BY <1>5, <1>6 DEF verixWrite

(* One write() of the loop.                                                *)
LEMMA LoopStep ==
    ASSUME FileInv, verixWriteLoop, vfs' = vfs
    PROVE  FileInv'
<1> DEFINE id == call.id
           s == disk[f[id].h]
<1>1. call # NoCall /\ ticks' = ticks /\ MaybeFault
  BY DEF verixWriteLoop, MaybeFault, FileFault
<1>2. /\ id \in File /\ f[id].h \in DOMAIN disk
      /\ call.before \in Seq(Byte) /\ call.buf \in Seq(Byte)
      /\ call.off \in 0 .. Len(call.before) /\ Len(call.before) <= MaxLen
      /\ call.off + Len(call.buf) <= MaxLen
      /\ call.done \in Nat /\ call.done < Len(call.buf)
      /\ f[id].pos = call.off + call.done
      /\ ret = NoRet
      /\ s = Overwrite(call.before, call.off, SubSeq(call.buf, 1, call.done))
  BY <1>1 DEF FileInv, CallInv, WriteExact
<1>3. s \in Seq(Byte) /\ Len(s) \in 0 .. MaxLen
  <2>1. f[id].h # NULL
    BY <1>2 DEF FileInv, HandlesInv
  <2> QED  BY <1>2, <2>1, OpenFile DEF FileInv
<1>4. CASE /\ call' = NoCall
           /\ Return("write", call.id, "IOERR_WRITE", NULL)
           /\ UNCHANGED <<disk, f>>
  <2>1. HandlesInv'
    BY <1>1, <1>4, FaultBound DEF FileInv, HandlesInv
  <2>2. CallInv' /\ WriteExact' /\ ReadExact'
    BY <1>4 DEF CallInv, WriteExact, ReadExact, Return
  <2> QED  BY <2>1, <2>2 DEF FileInv
<1>5. ASSUME NEW w \in 0 .. Len(call.buf) - call.done,
             disk' = [disk EXCEPT ![f[id].h] =
                         Overwrite(@, f[id].pos,
                             SubSeq(call.buf, call.done + 1, call.done + w))],
             f' = [f EXCEPT ![id].pos = @ + w],
             IF call.done + w = Len(call.buf)
             THEN /\ call' = NoCall
                  /\ Return("write", id, "OK",
                            Overwrite(call.before, call.off, call.buf))
             ELSE /\ call' = [call EXCEPT !.done = @ + w]
                  /\ UNCHANGED ret
      PROVE  FileInv'
  <2> DEFINE off == call.off
             buf == call.buf
             d == call.done
             before == call.before
             k == Len(before)
             after == Overwrite(before, off, SubSeq(buf, 1, d + w))
  <2>1. /\ Len(buf) \in Nat /\ k \in Nat /\ w \in Nat /\ d + w <= Len(buf)
        /\ d \in Nat /\ off \in 0 .. k /\ off \in Nat
    BY <1>2, LenProperties
  <2>2. Overwrite(s, off + d, SubSeq(buf, d + 1, d + w)) = after
    BY <1>2, <2>1, OverwriteTwice
  <2>3. disk' = [disk EXCEPT ![f[id].h] = after]
    BY <1>2, <1>5, <2>2
  <2>4. /\ SubSeq(buf, 1, d + w) \in Seq(Byte)
        /\ Len(SubSeq(buf, 1, d + w)) = d + w
    BY <1>2, <2>1, SubSeqProperties
  <2>5. after \in Bytes
    <3> DEFINE b3 == SubSeq(buf, 1, d + w)
    <3>1. b3 \in Seq(Byte) /\ Len(b3) = d + w
      BY <2>4
    <3> HIDE DEF b3
    <3>2. /\ after \in Seq(Byte)
          /\ Len(after) = IF off + Len(b3) > k THEN off + Len(b3) ELSE k
      <4>1. before \in Seq(Byte) /\ off \in 0 .. Len(before)
        BY <1>2
      <4> QED  BY <3>1, <4>1, OverwriteEffect DEF b3
    <3> HIDE DEF after
    <3>3. Len(after) <= MaxLen
      BY <1>2, <2>1, <3>1, <3>2
    <3> QED  BY <3>2, <3>3, BytesDef
  <2> HIDE DEF after
  <2>6. disk' \in [DOMAIN disk -> Bytes] /\ disk'[f[id].h] = after
    BY <1>2, <2>3, <2>5 DEF FileInv, HandlesInv
  <2>7. off + d + w \in 0 .. MaxLen /\ f' = [f EXCEPT ![id].pos = off + d + w]
    <3>1. off + d + w \in 0 .. MaxLen
      BY <1>2, <2>1, SMTT(20)
    <3>2. f[id].pos + w = off + d + w
      BY <1>2
    <3> QED  BY <1>5, <3>1, <3>2
  <2>8. HandlesInv'
    BY <1>1, <1>2, <2>6, <2>7, FaultBound, MovePos DEF FileInv
  <2>9. f'[id].h = f[id].h /\ f'[id].pos = off + d + w
    BY <1>2, <2>7 DEF FileInv, HandlesInv, Handle
  <2>10. CASE d + w = Len(buf)
    <3>1. /\ call' = NoCall /\ ret'.op = "write" /\ ret'.id = id
          /\ ret'.val = Overwrite(before, off, buf)
      BY <1>5, <2>10 DEF Return
    <3>2. SubSeq(buf, 1, d + w) = buf
      BY <1>2, <2>10, SubSeqFull
    <3>3. WriteExact'
      BY <2>6, <2>9, <3>1, <3>2 DEF WriteExact, after
    <3> QED  BY <2>8, <3>1, <3>3 DEF FileInv, CallInv, ReadExact
  <2>11. CASE d + w # Len(buf)
    <3>1. call' = [call EXCEPT !.done = d + w] /\ ret' = NoRet
      BY <1>2, <1>5, <2>11
    <3>2. /\ call'.id = id /\ call'.off = off /\ call'.buf = buf
          /\ call'.before = before
      BY <3>1
    <3>3. call' # NoCall => call'.done = d + w
      BY <3>1
    <3>4. d + w < Len(buf) /\ d + w \in Nat
      BY <2>1, <2>11
    <3>5. CallInv'
      BY <1>2, <2>1, <2>6, <2>9, <3>1, <3>2, <3>3, <3>4 DEF CallInv
    <3>6. WriteExact'
      BY <2>6, <2>9, <3>1, <3>2, <3>3 DEF WriteExact, NoRet, after
    <3> QED  BY <2>8, <3>1, <3>5, <3>6 DEF FileInv, ReadExact, NoRet
  <2> QED  BY <2>10, <2>11
<1> QED  BY <1>4, <1>5 DEF verixWriteLoop

-----------------------------------------------------------------------------
(* Nothing is open at the start ...                                        *)
LEMMA FileInitInv == FileInit => FileInv
<1> SUFFICES ASSUME FileInit PROVE FileInv
  OBVIOUS
<1>1. NoFile \in Handle /\ NoFile.h = NULL /\ ~NoFile.temporary
      /\ NoFile.filename = NULL
  BY DEF NoFile, Handle
<1>2. HandlesInv
  BY <1>1 DEF FileInit, HandlesInv
<1> QED
  BY <1>2 DEF FileInit, FileInv, CallInv, WriteExact, ReadExact, NoRet

(* ... and every method keeps the invariant.                               *)
LEMMA FileNextInv == FileInv /\ [FileNext]_fileVars => FileInv'
<1> SUFFICES ASSUME FileInv, [FileNext]_fileVars PROVE FileInv'
  OBVIOUS
<1>1. CASE UNCHANGED fileVars
  BY <1>1 DEF fileVars, FileInv, HandlesInv, CallInv, WriteExact, ReadExact
<1>2. CASE FileNext
  <2>1. vfs' = vfs
    BY <1>2 DEF FileNext
  <2>2. CASE \E id \in File : verixOpen(id) \/ verixClose(id)
    BY <2>1, <2>2, OpenStep, CloseStep
  <2>3. CASE \/ \E id \in File : verixFileSize(id)
             \/ \E n \in Name : verixDelete(n) \/ verixAccess(n)
             \/ Tick
    BY <2>1, <2>3, DirectorySteps
  <2>4. CASE \E id \in File, off \in 0 .. MaxLen, amt \in Amounts :
                 verixRead(id, off, amt)
    BY <2>1, <2>4, ReadStep
  <2>5. CASE \E id \in File, off \in 0 .. MaxLen, buf \in Buffers :
                 off + Len(buf) <= MaxLen /\ verixWrite(id, off, buf)
    BY <2>1, <2>5, WriteStep
  <2>6. CASE \E id \in File, nByte \in 0 .. MaxLen : verixTruncate(id, nByte)
    BY <2>1, <2>6, TruncateStep
  <2>7. CASE verixWriteLoop
    BY <2>1, <2>7, LoopStep
  <2> QED  BY <1>2, <2>2, <2>3, <2>4, <2>5, <2>6, <2>7 DEF FileNext
<1> QED  BY <1>1, <1>2

(* Handles refer to files that exist, positions and files stay in their    *)
(* bounds, and a write in its loop still has bytes to write.               *)
THEOREM FileTypeCorrect == FileSpec => []FileTypeOK
<1>1. FileInv => FileTypeOK
  <2> SUFFICES ASSUME FileInv PROVE FileTypeOK
    OBVIOUS
  <2>1. \A n \in DOMAIN disk : disk[n] \in Bytes
    BY DEF FileInv, HandlesInv
  <2>2. \A id \in File : /\ f[id].filename \in AllNames \cup {NULL, Junk}
                         /\ f[id].pos \in 0 .. MaxLen
    BY DEF FileInv, HandlesInv, Handle
  <2> QED  BY <2>1, <2>2 DEF FileInv, HandlesInv, CallInv, FileTypeOK
<1> QED  BY <1>1, FileInitInv, FileNextInv, PTL DEF FileSpec

(* verixWrite, however its bytes are split over calls of write(): the file *)
(* always is the old one with a prefix of the buffer over it, and with all *)
(* of the buffer when SQLITE_OK is returned.                               *)
THEOREM WriteCorrect == FileSpec => []WriteExact
<1>1. FileInv => WriteExact
  BY DEF FileInv
<1> QED  BY <1>1, FileInitInv, FileNextInv, PTL DEF FileSpec

(* verixRead gives the bytes of the file, SQLITE_OK if and only if there   *)
(* are enough of them, and in verix.c zeros for those that are missing.    *)
THEOREM ReadCorrect == FileSpec => []ReadExact
<1>1. FileInv => ReadExact
  BY DEF FileInv
<1> QED  BY <1>1, FileInitInv, FileNextInv, PTL DEF FileSpec

(* With os_verix.c a temporary file is gone when its last handle is closed *)
(* and no system call failed.                                              *)
THEOREM TemporaryFilesGo == FileSpec => TempRemoved
<1> DEFINE Gone(id) ==
      /\ vfs = "os_verix"
      /\ f[id].temporary /\ f'[id].h = NULL
      /\ ret'.op = "close" /\ faults' = faults
      /\ \A other \in File \ {id} : f[other].h # f[id].h
      => f[id].h \notin DOMAIN disk'
<1>1. FileInv /\ [FileNext]_fileVars => [\A id \in File : Gone(id)]_fileVars
  <2> SUFFICES ASSUME FileInv, FileNext, NEW id \in File,
                      vfs = "os_verix", f[id].temporary, f'[id].h = NULL,
                      ret'.op = "close", faults' = faults,
                      \A other \in File \ {id} : f[other].h # f[id].h
               PROVE  f[id].h \notin DOMAIN disk'
    OBVIOUS
  <2>1. /\ f[id].h \in DOMAIN disk /\ f[id].filename = f[id].h
        /\ f[id].h # NULL
    BY DEF FileInv, HandlesInv
  <2>2. f' # f
    BY <2>1
  <2>3. \E k \in File : verixClose(k)
    <3>1. ASSUME NEW k \in File, verixOpen(k) PROVE FALSE
      <4>1. ret'.op # "close"
        BY <3>1 DEF verixOpen, verixOpenNamed, verixOpenTemp, opened, Return,
                    NoRet
      <4> QED  BY <4>1
    <3>2. ASSUME NEW k \in File, NEW off \in 0 .. MaxLen, NEW amt \in Amounts,
                 verixRead(k, off, amt)
          PROVE  FALSE
      <4>1. \/ \E rc, val : Return("read", k, rc, val)
            \/ \E rc, val : Return("failedRead", k, rc, val)
        BY <3>2, Zenon DEF verixRead
      <4> QED  BY <4>1 DEF Return
    <3>3. ASSUME NEW k \in File, NEW off \in 0 .. MaxLen, NEW buf \in Buffers,
                 verixWrite(k, off, buf)
          PROVE  FALSE
      BY <3>3 DEF verixWrite, Return, NoRet
    <3>4. ASSUME NEW k \in File, NEW nByte \in 0 .. MaxLen,
                 verixTruncate(k, nByte)
          PROVE  FALSE
      <4>1. ret'.op # "close"
        BY <3>4 DEF verixTruncate, Return
      <4> QED  BY <4>1
    <3>5. ASSUME verixWriteLoop PROVE FALSE
      <4>1. call # NoCall
        BY <3>5 DEF verixWriteLoop
      <4>2. ret.op # "close"
        BY <4>1 DEF FileInv, CallInv, NoRet
      <4>3. \/ ret' = ret
            \/ \E id1, rc, val : Return("write", id1, rc, val)
        BY <3>5, Zenon DEF verixWriteLoop
      <4> QED  BY <4>2, <4>3 DEF Return
    <3>6. ASSUME \/ \E k \in File : verixFileSize(k)
                 \/ \E n \in Name : verixDelete(n) \/ verixAccess(n)
                 \/ Tick
          PROVE  FALSE
      <4>1. f' = f
        BY <3>6 DEF verixFileSize, verixDelete, verixAccess, Tick
      <4> QED  BY <2>2, <4>1
    <3> QED  BY <3>1, <3>2, <3>3, <3>4, <3>5, <3>6 DEF FileNext
  <2>4. PICK k \in File : verixClose(k)
    BY <2>3
  <2>5. k = id
    <3>1. f' = [f EXCEPT ![k] = NoFile]
      BY <2>4 DEF verixClose
    <3> QED  BY <2>1, <3>1 DEF FileInv, HandlesInv
  <2>6. Removable(f[id].filename, File \ {id})
    BY <2>1 DEF Removable, Exists
  <2>7. faults \in Nat
    BY DEF FileInv, HandlesInv
  <2>8. disk' = Without(f[id].filename)
    BY <2>4, <2>5, <2>6, <2>7 DEF verixClose, FileFault
  <2> QED  BY <2>1, <2>8 DEF Without
<1> QED  BY <1>1, FileInitInv, FileNextInv, PTL DEF FileSpec, TempRemoved
=============================================================================

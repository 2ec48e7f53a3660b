--------------------------- MODULE FsAtomicProofs ---------------------------
(***************************************************************************)
(* FsAtomic for any writers and any contents: its type invariant, what the *)
(* temporaries hold at every stage, and, when every writer flushes, that   *)
(* the path only ever names complete files and the detailed writes         *)
(* implement AtomicFile.                                                   *)
(***************************************************************************)
EXTENDS FsAtomic, TLAPS

\* What each stage may rely on about the temporary it was handed.
Prepared(w) ==
    /\ pc[w] \in {"protect", "flush", "close", "replace"} => temp[w].data = arg[w]
    /\ pc[w] \in {"flush", "close", "replace"} => temp[w].mode = "asked"
    /\ pc[w] \in {"close", "replace"} /\ w \notin Unflushed => temp[w].flushed = TRUE
    /\ pc[w] = "create" => temp[w] = NoFile
    /\ pc[w] = "idle" /\ outcome[w] # "killed" => temp[w] = NoFile

TempInv == TypeOK /\ \A w \in Writers : Prepared(w)

\* A file a power loss cannot damage.
Durable(f) == f = NoFile \/ (f.data \in Contents /\ f.flushed = TRUE /\ f.mode = "asked")

DiskInv == link \in onDisk /\ \A f \in onDisk : Durable(f)

LEMMA NoFileIsFile == NoFile \in File
BY DEF NoFile, File

LEMMA TempInvInit == Init => TempInv
<1> SUFFICES ASSUME Init PROVE TempInv
  OBVIOUS
<1>1. \A d \in Contents : Whole(d) \in File
  BY DEF Whole, File
<1>2. TypeOK
  BY <1>1, NoFileIsFile DEF Init, TypeOK
<1> QED
  BY <1>2 DEF Init, TempInv, Prepared

\* One step of one writer changes that writer's variables only.
LEMMA WriterStep ==
  ASSUME TempInv, NEW w \in Writers,
         \/ \E d \in Contents : Call(w, d)
         \/ CreateTemp(w) \/ Write(w) \/ Chmod(w) \/ Sync(w) \/ Close(w)
         \/ Rename(w) \/ Fail(w) \/ Kill(w)
  PROVE  TempInv'
<1> USE DEF TempInv, TypeOK, Advance, Stages
<1>1. CASE \E d \in Contents : Call(w, d)
  BY <1>1, NoFileIsFile DEF Call, Prepared
<1>2. CASE CreateTemp(w)
  <2>1. temp' \in [Writers -> File]
    BY <1>2 DEF CreateTemp, File
  <2> QED
    BY <1>2, <2>1 DEF CreateTemp, Prepared
<1>3. CASE Write(w)
  <2>1. temp' \in [Writers -> File]
    BY <1>3 DEF Write, File
  <2> QED
    BY <1>3, <2>1 DEF Write, Prepared
<1>4. CASE Chmod(w)
  <2>1. temp' \in [Writers -> File] /\ temp'[w].data = arg[w] /\ temp'[w].mode = "asked"
    BY <1>4 DEF Chmod, File, Prepared
  <2> QED
    BY <1>4, <2>1 DEF Chmod, Prepared
<1>5. CASE Sync(w)
  <2>1. /\ temp' \in [Writers -> File] /\ temp'[w].data = arg[w]
        /\ temp'[w].mode = "asked" /\ temp'[w].flushed = TRUE
    BY <1>5 DEF Sync, File, Prepared
  <2> QED
    BY <1>5, <2>1 DEF Sync, Prepared
<1>6. CASE Close(w)
  BY <1>6 DEF Close, Prepared
<1>7. CASE Rename(w)
  BY <1>7, NoFileIsFile DEF Rename, Prepared
<1>8. CASE Fail(w)
  BY <1>8, NoFileIsFile DEF Fail, Prepared
<1>9. CASE Kill(w)
  BY <1>9 DEF Kill, Prepared
<1> QED
  BY <1>1, <1>2, <1>3, <1>4, <1>5, <1>6, <1>7, <1>8, <1>9

LEMMA MachineStep ==
  ASSUME TempInv, Writeback \/ PowerLoss
  PROVE  TempInv'
<1> USE DEF TempInv, TypeOK
<1>1. CASE Writeback
  <2>1. link' \in File
    BY <1>1 DEF Writeback, File
  <2> QED
    BY <1>1, <2>1 DEF Writeback, Prepared
<1>2. CASE PowerLoss
  <2>1. \A f \in File : AfterLoss(f) \subseteq File
    BY DEF AfterLoss, File
  <2>2. link' \in File /\ onDisk' \subseteq File
    BY <1>2, <2>1 DEF PowerLoss
  <2> QED
    BY <1>2, <2>2 DEF PowerLoss, Prepared
<1> QED
  BY <1>1, <1>2

THEOREM TempInvariant == Spec => []TempInv
<1>1. TempInv /\ [Next]_vars => TempInv'
  <2> SUFFICES ASSUME TempInv, [Next]_vars PROVE TempInv'
    OBVIOUS
  <2>1. CASE Next
    BY <2>1, WriterStep, MachineStep DEF Next
  <2>2. CASE UNCHANGED vars
    BY <2>2 DEF vars, TempInv, TypeOK, Prepared
  <2> QED
    BY <2>1, <2>2
<1> QED
  BY <1>1, TempInvInit, PTL DEF Spec

\* Every variable keeps its type, for any writers and contents.
THEOREM TypeCorrect == Spec => []TypeOK
<1>1. TempInv => TypeOK
  BY DEF TempInv
<1> QED
  BY <1>1, TempInvariant, PTL

\* A returned error and a completed rename leave no temporary behind, flushed
\* or not.
THEOREM NoLitter == Spec => []ErrorsLeaveNoTemporary
<1>1. TempInv => ErrorsLeaveNoTemporary
  BY DEF TempInv, Prepared, ErrorsLeaveNoTemporary
<1> QED
  BY <1>1, TempInvariant, PTL

-----------------------------------------------------------------------------
\* From here on every writer flushes, as all callers of internal/fsatomic do.

LEMMA DurableFlushed ==
  ASSUME NEW f \in File, Durable(f)
  PROVE  /\ f.flushed = TRUE
         /\ f.data # Torn
         /\ f.data \in Contents \cup {Missing}
         /\ [f EXCEPT !.flushed = TRUE] = f
         /\ AfterLoss(f) = {f}
<1>1. f.flushed = TRUE /\ f.data # Torn /\ f.data \in Contents \cup {Missing}
  BY ContentsAreWhole DEF Durable, NoFile
<1>2. [f EXCEPT !.flushed = TRUE] = f
  BY <1>1 DEF File
<1> QED
  BY <1>1, <1>2 DEF AfterLoss

LEMMA DiskInvStep ==
  ASSUME Unflushed = {}, TempInv, DiskInv, [Next]_vars
  PROVE  DiskInv'
<1>1. CASE \E w \in Writers : Rename(w)
  <2> PICK w \in Writers : Rename(w)
    BY <1>1
  <2>1. pc[w] = "replace"
    BY DEF Rename, Advance
  <2>2. temp[w].data \in Contents /\ temp[w].flushed = TRUE /\ temp[w].mode = "asked"
    BY <2>1 DEF TempInv, TypeOK, Prepared
  <2>3. link' = temp[w] /\ onDisk' = onDisk \cup {temp[w]}
    BY DEF Rename
  <2>4. Durable(temp[w])
    BY <2>2 DEF Durable
  <2> QED
    BY <2>3, <2>4 DEF DiskInv, Durable
<1>2. CASE Writeback
  <2>1. [link EXCEPT !.flushed = TRUE] = link
    BY DurableFlushed DEF DiskInv, TempInv, TypeOK
  <2> QED
    BY <1>2, <2>1 DEF Writeback, DiskInv, Durable
<1>3. CASE PowerLoss
  <2>1. PICK f \in onDisk : link' \in AfterLoss(f) /\ onDisk' = {link'}
    BY <1>3 DEF PowerLoss
  <2>2. f \in File /\ Durable(f)
    BY DEF DiskInv, TempInv, TypeOK
  <2>3. AfterLoss(f) = {f}
    BY <2>2, DurableFlushed
  <2>4. link' = f
    BY <2>1, <2>3
  <2> QED
    BY <2>1, <2>2, <2>4 DEF DiskInv, Durable
<1>4. ASSUME UNCHANGED <<link, onDisk>> PROVE DiskInv'
  BY <1>4 DEF DiskInv, Durable
<1>5. CASE UNCHANGED vars
  BY <1>4, <1>5 DEF vars
<1>6. CASE \E w \in Writers :
             \/ \E d \in Contents : Call(w, d)
             \/ CreateTemp(w) \/ Write(w) \/ Chmod(w) \/ Sync(w) \/ Close(w)
             \/ Fail(w) \/ Kill(w)
  BY <1>4, <1>6 DEF Call, CreateTemp, Write, Chmod, Sync, Close, Fail, Kill
<1> QED
  BY <1>1, <1>2, <1>3, <1>5, <1>6 DEF Next

THEOREM DiskInvariant ==
  ASSUME Unflushed = {}
  PROVE  Spec => [](TempInv /\ DiskInv)
<1>1. Init => DiskInv
  BY DEF Init, DiskInv, Durable, Whole
<1>2. TempInv /\ DiskInv /\ [Next]_vars => DiskInv'
  BY DiskInvStep
<1> QED
  BY <1>1, <1>2, TempInvariant, PTL DEF Spec

\* A reader never observes a half-written file, nor one at the mode of the
\* temporary, whatever fails, dies or loses power.
THEOREM ReadersSeeWholeFiles ==
  ASSUME Unflushed = {}
  PROVE  Spec => []NeverTorn
<1>1. TempInv /\ DiskInv => NeverTorn
  BY DEF DiskInv, Durable, NeverTorn
<1> QED
  BY <1>1, DiskInvariant, PTL

\* No power loss can leave the path with an empty or partial file.
THEOREM PowerLossIsSafe ==
  ASSUME Unflushed = {}
  PROVE  Spec => []CrashSafe
<1>1. TempInv /\ DiskInv => CrashSafe
  BY DurableFlushed DEF TempInv, TypeOK, DiskInv, CrashSafe
<1> QED
  BY <1>1, DiskInvariant, PTL

-----------------------------------------------------------------------------
LEMMA InitRefines ==
  ASSUME Init PROVE Abs!Init
<1>1. CASE link = NoFile
  BY <1>1 DEF Init, Abs!Init, NoFile
<1>2. CASE \E d \in Contents : link = Whole(d)
  BY <1>2 DEF Init, Abs!Init, Whole
<1> QED
  BY <1>1, <1>2 DEF Init

LEMMA StepRefines ==
  ASSUME Unflushed = {}, TempInv, DiskInv, [Next]_vars
  PROVE  [Abs!Next]_(Abs!vars)
<1> DEFINE fallback == {f.data : f \in onDisk}
<1>1. CASE \E w \in Writers : Rename(w)
  <2> PICK w \in Writers : Rename(w)
    BY <1>1
  <2>1. temp[w].data \in Contents
    BY DEF Rename, Advance, TempInv, TypeOK, Prepared
  <2>2. link' = temp[w] /\ onDisk' = onDisk \cup {temp[w]}
    BY DEF Rename
  <2>3. fallback' = fallback \cup {temp[w].data}
    BY <2>2
  <2>4. \E d \in Contents : Abs!Replace(d)
    BY <2>1, <2>2, <2>3 DEF Abs!Replace
  <2>5. Abs!Next
    BY <2>4 DEF Abs!Next
  <2> QED
    BY <2>5
<1>2. CASE Writeback
  <2>1. link' = link /\ onDisk' = {link}
    BY <1>2, DurableFlushed DEF Writeback, DiskInv, TempInv, TypeOK
  <2>2. Abs!Settle
    BY <2>1 DEF Abs!Settle
  <2> QED
    BY <2>2 DEF Abs!Next
<1>3. CASE PowerLoss
  <2>1. PICK f \in onDisk : link' \in AfterLoss(f) /\ onDisk' = {link'}
    BY <1>3 DEF PowerLoss
  <2>2. AfterLoss(f) = {f}
    BY DurableFlushed DEF DiskInv, TempInv, TypeOK
  <2>3. link' = f
    BY <2>1, <2>2
  <2>4. Abs!PowerLoss
    BY <2>1, <2>3 DEF Abs!PowerLoss
  <2> QED
    BY <2>4 DEF Abs!Next
<1>4. ASSUME UNCHANGED <<link, onDisk>> PROVE UNCHANGED Abs!vars
  BY <1>4 DEF Abs!vars
<1>5. CASE UNCHANGED vars
  BY <1>4, <1>5 DEF vars
<1>6. CASE \E w \in Writers :
             \/ \E d \in Contents : Call(w, d)
             \/ CreateTemp(w) \/ Write(w) \/ Chmod(w) \/ Sync(w) \/ Close(w)
             \/ Fail(w) \/ Kill(w)
  BY <1>4, <1>6 DEF Call, CreateTemp, Write, Chmod, Sync, Close, Fail, Kill
<1> QED
  BY <1>1, <1>2, <1>3, <1>5, <1>6 DEF Next

\* The staged writes implement the one-step replacement of AtomicFile.
THEOREM ImplementsAtomicFile ==
  ASSUME Unflushed = {}
  PROVE  Spec => RefinesAtomicFile
<1>1. Init => Abs!Init
  BY InitRefines
<1>2. TempInv /\ DiskInv /\ [Next]_vars => [Abs!Next]_(Abs!vars)
  BY StepRefines
<1> QED
  BY <1>1, <1>2, DiskInvariant, PTL DEF Spec, RefinesAtomicFile, Abs!Spec
=============================================================================

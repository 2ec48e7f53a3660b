-------------------------- MODULE ConfigStoreProofs --------------------------
(***************************************************************************)
(* ConfigStore for any number of launcher processes, workspaces and        *)
(* contents: the type invariant, that every trust record is of bytes a     *)
(* launcher wrote to that path, and that a migration loses no bytes. For   *)
(* one launcher after another: what is honoured was saved, the newest save *)
(* is trusted, and an update changes one key.                              *)
(***************************************************************************)
EXTENDS ConfigStore, SequenceTheorems, TLAPS

\* Removing an element leaves a sequence over the same set, not longer.
LEMMA WithoutType ==
  ASSUME NEW S, NEW s \in Seq(S), NEW e
  PROVE  Without(s, e) \in Seq(S)
<1>1. CASE ~Contains(s, e)
  BY <1>1 DEF Without
<1>2. CASE Contains(s, e)
  <2> DEFINE k == CHOOSE i \in DOMAIN s : s[i] = e
  <2>1. /\ Len(s) \in Nat
        /\ DOMAIN s = 1..Len(s)
    BY LenProperties
  <2>2. k \in 1..Len(s)
    BY <1>2, <2>1 DEF Contains
  <2> HIDE DEF k
  <2>3. \A i \in 1..Len(s) : s[i] \in S
    BY ElementOfSeq
  <2>4. SubSeq(s, 1, k-1) \in Seq(S)
    BY <2>1, <2>2, <2>3, SubSeqProperties
  <2>5. SubSeq(s, k+1, Len(s)) \in Seq(S)
    BY <2>1, <2>2, <2>3, SubSeqProperties
  <2>6. RemoveAt(s, k) \in Seq(S)
    BY <2>4, <2>5, ConcatProperties DEF RemoveAt
  <2> QED
    BY <1>2, <2>6 DEF Without, k
<1> QED
  BY <1>1, <1>2

\* Taking a part of a sequence.
LEMMA PartType ==
  ASSUME NEW S, NEW s \in Seq(S), NEW m \in Int, NEW n \in Int, 1 <= m, n <= Len(s)
  PROVE  SubSeq(s, m, n) \in Seq(S)
<1>1. Len(s) \in Nat
  BY LenProperties
<1>2. \A i \in m..n : s[i] \in S
  BY <1>1, ElementOfSeq
<1> QED
  BY <1>2, SubSeqProperties

\* The written list has the rows read and the new one, and no other.
LEMMA RecordedType ==
  ASSUME NEW S, NEW s \in Seq(S), NEW r \in S
  PROVE  Recorded(s, r) \in Seq(S)
<1> DEFINE all == Append(Without(s, r), r)
<1>1. all \in Seq(S)
  BY WithoutType, AppendProperties
<1> HIDE DEF all
<1>2. Len(all) \in Nat
  BY <1>1, LenProperties
<1>3. Len(all) > TrustMax => SubSeq(all, Len(all) - TrustMax + 1, Len(all)) \in Seq(S)
  BY <1>1, <1>2, PartType, CapsArePositive
<1> QED
  BY <1>1, <1>3 DEF Recorded, all

LEMMA TouchType ==
  ASSUME NEW S, NEW s \in Seq(S), NEW a \in S
  PROVE  Touch(s, a) \in Seq(S)
<1> DEFINE all == <<a>> \o Without(s, a)
<1>1. <<a>> \in Seq(S)
  OBVIOUS
<1>2. all \in Seq(S)
  BY <1>1, WithoutType, ConcatProperties
<1> HIDE DEF all
<1>3. Len(all) > RecentMax => SubSeq(all, 1, RecentMax) \in Seq(S)
  BY <1>2, PartType, CapsArePositive, LenProperties
<1> QED
  BY <1>2, <1>3 DEF Touch, all

LEMMA RowsType ==
  ASSUME NEW d \in Doc PROVE Rows(d) \subseteq Row
BY RangeOfSeq DEF Doc, Rows

LEMMA EmptyDocType == EmptyDoc \in Doc /\ Rows(EmptyDoc) = {}
<1>1. << >> \in Seq(Row) /\ << >> \in Seq(Agents)
  BY EmptySeq
<1>2. Range(<< >>) = {}
  BY DEF Range
<1> QED
  BY <1>1, <1>2 DEF EmptyDoc, Doc, Rows

LEMMA OnDiskType ==
  ASSUME TypeOK, NEW w \in Workspaces
  PROVE  /\ ReadPath(w) \in Paths
         /\ OnDisk(w) \in Row \cup {NoRow}
         /\ OnDisk(w) # NoRow => OnDisk(w) = [path |-> ReadPath(w), hash |-> file[ReadPath(w)]]
<1>1. ReadPath(w) \in Paths
  BY DEF ReadPath, Paths
<1> QED
  BY <1>1 DEF OnDisk, Row, TypeOK

LEMMA TypeInit ==
  ASSUME Init PROVE TypeOK
<1>1. \A r \in Row : <<r>> \in Seq(Row)
  OBVIOUS
<1>2. doc \in Doc
  <2>1. PICK rows \in {<<>>} \cup {<<r>> : r \in Row} :
             doc = [EmptyDoc EXCEPT !.trusted = rows]
    BY DEF Init
  <2>2. rows \in Seq(Row)
    BY <1>1, <2>1, EmptySeq
  <2>3. EmptyDoc \in Doc
    BY EmptyDocType
  <2> QED
    BY <2>1, <2>2, <2>3 DEF Doc
<1>3. saved \subseteq Row
  BY <1>2, RowsType DEF Init
<1>4. bak \in [Workspaces -> [1..Backups -> Contents \cup {None}]]
  BY DEF Init
<1>5. slot \in [Procs -> 0..Backups]
  BY BackupsIsNat DEF Init
<1> QED
  BY <1>2, <1>3, <1>4, <1>5, EmptyDocType DEF Init, TypeOK, Steps

LEMMA CatalogType ==
  ASSUME TypeOK, NEW p \in Procs, NEW n \in Names, PutName(p, n) \/ DeleteName(p, n)
  PROVE  TypeOK'
<1>1. /\ mem[p] \in Doc
      /\ mem[p].names \cup {n} \subseteq Names
      /\ mem[p].names \ {n} \subseteq Names
  BY DEF TypeOK, Doc
<1>2. /\ [mem[p] EXCEPT !.names = @ \cup {n}] \in Doc
      /\ [mem[p] EXCEPT !.names = @ \ {n}] \in Doc
  BY <1>1 DEF Doc
<1>3. /\ mem' = [mem EXCEPT ![p] = mem'[p]]
      /\ mem'[p] \in Doc
      /\ doc' \in {doc, mem'[p]}
  BY <1>2 DEF PutName, DeleteName, TypeOK
<1>4. mem' \in [Procs -> Doc] /\ doc' \in Doc
  BY <1>3 DEF TypeOK
<1>5. pc' \in [Procs -> Steps]
  BY DEF PutName, DeleteName, Advance, TypeOK, Steps
<1> QED
  BY <1>4, <1>5 DEF PutName, DeleteName, TypeOK, work

LEMMA ForgetType ==
  ASSUME TypeOK, NEW p \in Procs, Forget(p)
  PROVE  /\ slot' \in [Procs -> 0..Backups]
         /\ row' \in [Procs -> Row \cup {NoRow}]
         /\ buf' \in [Procs -> Doc]
         /\ want' \in [Procs -> Contents]
BY EmptyDocType, BackupsIsNat DEF TypeOK, Forget

LEMMA UpdateType ==
  ASSUME TypeOK, NEW p \in Procs, WriteRecent(p) \/ WriteTrusted(p)
  PROVE  TypeOK'
<1>1. buf[p] \in Doc /\ mem[p] \in Doc
  BY DEF TypeOK
<1>2. doc' \in Doc
  <2>1. CASE WriteRecent(p)
    BY <1>1, <2>1 DEF WriteRecent, Doc
  <2>2. CASE WriteTrusted(p)
    <3>1. row[p] \in Row
      BY <2>2 DEF WriteTrusted, TypeOK
    <3>2. Recorded(buf[p].trusted, row[p]) \in Seq(Row)
      BY <1>1, <3>1, RecordedType DEF Doc
    <3> QED
      BY <1>1, <2>2, <3>2 DEF WriteTrusted, Doc
  <2> QED
    BY <2>1, <2>2
<1>3. Forget(p) /\ pc' \in [Procs -> Steps] /\ newest' \in Row \cup {NoRow}
  BY DEF WriteRecent, WriteTrusted, Advance, TypeOK, Steps
<1> QED
  BY <1>2, <1>3, ForgetType DEF WriteRecent, WriteTrusted, TypeOK

LEMMA ProcessType ==
  ASSUME TypeOK, NEW p \in Procs, Process(p)
  PROVE  TypeOK'
<1> USE DEF Advance, work, disk
<1>1. CASE Start(p)
  BY <1>1 DEF Start, TypeOK, Steps
<1>2. CASE \E n \in Names : PutName(p, n) \/ DeleteName(p, n)
  BY <1>2, CatalogType
<1>3. CASE \E w \in Workspaces : LoadLocal(p, w)
  BY <1>3, OnDiskType DEF LoadLocal, TypeOK, Steps
<1>4. CASE CheckTrust(p)
  BY <1>4 DEF CheckTrust, TypeOK, Steps
<1>5. CASE \E c \in Contents : Save(p, c)
  BY <1>5 DEF Save, TypeOK, Steps
<1>6. CASE WriteLocal(p)
  <2>1. <<ws[p], "current">> \in Paths /\ want[p] \in Contents
    BY DEF Paths, TypeOK
  <2>2. [path |-> <<ws[p], "current">>, hash |-> want[p]] \in Row
    BY <2>1 DEF Row
  <2> QED
    BY <1>6, <2>1, <2>2 DEF WriteLocal, TypeOK, Steps
<1>7. CASE NothingToMigrate(p)
  BY <1>7 DEF NothingToMigrate, TypeOK, Steps
<1>8. CASE PickBackup(p)
  BY <1>8, BackupsIsNat DEF PickBackup, TypeOK, Steps
<1>9. CASE MoveLegacy(p)
  <2>1. <<ws[p], "legacy">> \in Paths /\ ws[p] \in Workspaces
    BY DEF Paths, TypeOK
  <2>2. file[<<ws[p], "legacy">>] \in Contents
    BY <1>9, <2>1 DEF MoveLegacy, TypeOK
  <2>3. bak' \in [Workspaces -> [1..Backups -> Contents \cup {None}]]
    BY <1>9, <2>1, <2>2 DEF MoveLegacy, TypeOK
  <2>4. file' \in [Paths -> Contents \cup {None}]
    BY <1>9, <2>1 DEF MoveLegacy, TypeOK
  <2> QED
    BY <1>9, <2>3, <2>4 DEF MoveLegacy, TypeOK, Steps
<1>10. CASE HashLocal(p)
  <2>1. OnDisk(ws[p]) \in Row \cup {NoRow}
    BY OnDiskType DEF TypeOK
  <2> QED
    BY <1>10, <2>1 DEF HashLocal, TypeOK, Steps
<1>11. CASE ReadDoc(p)
  BY <1>11 DEF ReadDoc, TypeOK, Steps
<1>12. CASE WriteRecent(p) \/ WriteTrusted(p)
  BY <1>12, UpdateType
<1>13. CASE Fail(p)
  BY <1>13, ForgetType DEF Fail, TypeOK, Steps
<1>14. CASE Stop(p)
  BY <1>14, ForgetType, EmptyDocType DEF Stop, TypeOK, Steps
<1>15. CASE \E a \in Agents : Remember(p, a)
  <2> PICK a \in Agents : Remember(p, a)
    BY <1>15
  <2>1. mem[p] \in Doc
    BY DEF TypeOK
  <2>2. Touch(mem[p].recent, a) \in Seq(Agents)
    BY <2>1, TouchType DEF Doc
  <2>3. [mem[p] EXCEPT !.recent = Touch(@, a)] \in Doc
    BY <2>1, <2>2 DEF Doc
  <2>4. mem' \in [Procs -> Doc]
    BY <2>3 DEF Remember, TypeOK
  <2> QED
    BY <2>4 DEF Remember, TypeOK, Steps
<1> QED
  BY <1>1, <1>2, <1>3, <1>4, <1>5, <1>6, <1>7, <1>8, <1>9, <1>10, <1>11,
     <1>12, <1>13, <1>14, <1>15 DEF Process

LEMMA TypeStep ==
  ASSUME TypeOK, [Next]_vars
  PROVE  TypeOK'
<1>1. CASE \E p \in Procs : Process(p)
  BY <1>1, ProcessType
<1>2. CASE \E path \in Paths, c \in Edits : Edit(path, c)
  BY <1>2, EditsAreContents DEF Edit, TypeOK, work
<1>3. CASE UNCHANGED vars
  BY <1>3 DEF vars, TypeOK, work, disk
<1> QED
  BY <1>1, <1>2, <1>3 DEF Next

\* Every variable keeps its type, for any processes, workspaces and bounds.
THEOREM TypeCorrect == Spec => []TypeOK
<1>1. Init => TypeOK
  BY TypeInit
<1>2. TypeOK /\ [Next]_vars => TypeOK'
  BY TypeStep
<1> QED
  BY <1>1, <1>2, PTL DEF Spec

-----------------------------------------------------------------------------
(***************************************************************************)
(* Provenance. The trust rows of the file, of every loaded copy and of     *)
(* every document about to be written are of launcher-written bytes; so is *)
(* the row being added; and from its write to its hash, a saving process   *)
(* finds launcher-written bytes at the path it saved to, its own or those  *)
(* of a process saving at the same time.                                   *)
(***************************************************************************)
Written(w) == /\ file[<<w, "current">>] # None
              /\ [path |-> <<w, "current">>, hash |-> file[<<w, "current">>]] \in saved

Provenance ==
    /\ Rows(doc) \subseteq saved
    /\ \A p \in Procs :
         /\ Rows(mem[p]) \subseteq saved
         /\ Rows(buf[p]) \subseteq saved
         /\ row[p] # NoRow => row[p] \in saved
         /\ pc[p] \in {"probe", "move", "hash"} => Written(ws[p])

LEMMA RecordedRows ==
  ASSUME NEW S, NEW s \in Seq(Row), NEW r \in S, Range(s) \subseteq S
  PROVE  Range(Recorded(s, r)) \subseteq S
<1>1. s \in Seq(Range(s))
  BY SeqOfRange
<1>2. s \in Seq(S)
  BY <1>1, SeqMonotonic
<1> QED
  BY <1>2, RecordedType, RangeOfSeq

LEMMA ForgetRows ==
  ASSUME TypeOK, Provenance, NEW p \in Procs, Forget(p)
  PROVE  \A q \in Procs : /\ Rows(buf'[q]) \subseteq saved
                          /\ row'[q] # NoRow => row'[q] \in saved
BY EmptyDocType DEF TypeOK, Provenance, Forget

\* The steps that touch neither the trust rows nor the workspace files.
LEMMA QuietStep ==
  ASSUME TypeOK, Provenance, NEW p \in Procs,
         \/ \E w \in Workspaces : LoadLocal(p, w)
         \/ CheckTrust(p) \/ NothingToMigrate(p) \/ PickBackup(p)
         \/ \E c \in Contents : Save(p, c)
  PROVE  Provenance'
<1> USE DEF Advance, disk, work, TypeOK, Provenance, Written
<1>1. CASE \E w \in Workspaces : LoadLocal(p, w)
  BY <1>1, ZenonT(30) DEF LoadLocal
<1>2. CASE CheckTrust(p)
  BY <1>2 DEF CheckTrust
<1>3. CASE NothingToMigrate(p)
  BY <1>3 DEF NothingToMigrate
<1>4. CASE PickBackup(p)
  BY <1>4 DEF PickBackup
<1>5. CASE \E c \in Contents : Save(p, c)
  BY <1>5 DEF Save
<1> QED
  BY <1>1, <1>2, <1>3, <1>4, <1>5

\* Loaded copies: read, changed in other keys, written back or dropped.
LEMMA CopyStep ==
  ASSUME TypeOK, Provenance, NEW p \in Procs,
         \/ Start(p) \/ Stop(p) \/ ReadDoc(p) \/ Fail(p)
         \/ \E n \in Names : PutName(p, n) \/ DeleteName(p, n)
         \/ \E a \in Agents : Remember(p, a)
  PROVE  Provenance'
<1> USE DEF Advance, disk, work
<1>1. CASE Start(p)
  BY <1>1 DEF Start, TypeOK, Provenance, Written
<1>2. CASE Stop(p)
  <2>1. \A q \in Procs : Rows(mem'[q]) \subseteq saved
    BY <1>2, EmptyDocType DEF Stop, TypeOK, Provenance
  <2> QED
    BY <1>2, <2>1, ForgetRows DEF Stop, TypeOK, Provenance, Written
<1>3. CASE ReadDoc(p)
  BY <1>3 DEF ReadDoc, TypeOK, Provenance, Written
<1>4. CASE Fail(p)
  BY <1>4, ForgetRows DEF Fail, TypeOK, Provenance, Written
<1>5. CASE \E n \in Names : PutName(p, n) \/ DeleteName(p, n)
  <2>1. mem'[p].trusted = mem[p].trusted /\ doc' \in {doc, mem'[p]}
    BY <1>5 DEF PutName, DeleteName, TypeOK, Doc
  <2>2. \A q \in Procs : q # p => mem'[q] = mem[q]
    BY <1>5 DEF PutName, DeleteName, TypeOK
  <2>3. Rows(doc') \subseteq saved /\ \A q \in Procs : Rows(mem'[q]) \subseteq saved
    BY <2>1, <2>2 DEF Provenance, Rows
  <2> QED
    BY <1>5, <2>3 DEF PutName, DeleteName, TypeOK, Provenance, Written
<1>6. CASE \E a \in Agents : Remember(p, a)
  <2>1. \A q \in Procs : mem'[q].trusted = mem[q].trusted
    BY <1>6 DEF Remember, TypeOK, Doc
  <2>2. \A q \in Procs : Rows(mem'[q]) \subseteq saved
    BY <2>1 DEF Provenance, Rows
  <2> QED
    BY <1>6, <2>2, ZenonT(30) DEF Remember, TypeOK, Provenance, Written
<1> QED
  BY <1>1, <1>2, <1>3, <1>4, <1>5, <1>6

\* The new workspace file: what any saver of this workspace will hash is
\* now the content this process wrote.
LEMMA WriteLocalStep ==
  ASSUME TypeOK, Provenance, NEW p \in Procs, WriteLocal(p)
  PROVE  Provenance'
<1> DEFINE path == <<ws[p], "current">>
<1>1. path \in Paths /\ want[p] \in Contents
  BY DEF Paths, TypeOK
<1>2. saved \subseteq saved' /\ [path |-> path, hash |-> want[p]] \in saved'
  BY DEF WriteLocal
<1>3. file'[path] = want[p]
  BY <1>1 DEF WriteLocal, TypeOK
<1>4. ASSUME NEW q \in Procs, pc'[q] \in {"probe", "move", "hash"}
      PROVE  Written(ws[q])'
  <2>1. CASE ws[q] = ws[p]
    BY <1>1, <1>2, <1>3, <2>1, NoneIsNoContent DEF WriteLocal, Written
  <2>2. CASE ws[q] # ws[p]
    <3>1. q # p /\ pc[q] \in {"probe", "move", "hash"}
      BY <1>4, <2>2 DEF WriteLocal, Advance, TypeOK
    <3>2. Written(ws[q])
      BY <3>1 DEF Provenance
    <3>3. <<ws[q], "current">> # path /\ <<ws[q], "current">> \in Paths
      BY <2>2 DEF Paths, TypeOK
    <3>4. file'[<<ws[q], "current">>] = file[<<ws[q], "current">>]
      BY <3>3 DEF WriteLocal, TypeOK
    <3> QED
      BY <1>2, <3>2, <3>4 DEF WriteLocal, Written
  <2> QED
    BY <2>1, <2>2
<1> QED
  BY <1>2, <1>4 DEF WriteLocal, work, Provenance

LEMMA MoveLegacyStep ==
  ASSUME TypeOK, Provenance, NEW p \in Procs, MoveLegacy(p)
  PROVE  Provenance'
<1>1. \A w \in Workspaces : file'[<<w, "current">>] = file[<<w, "current">>]
  BY DEF MoveLegacy, TypeOK, Paths
<1>2. \A q \in Procs : pc'[q] \in {"probe", "move", "hash"}
                          => pc[q] \in {"probe", "move", "hash"}
  BY DEF MoveLegacy, Advance, TypeOK
<1>3. \A w \in Workspaces : Written(w) => Written(w)'
  BY <1>1 DEF MoveLegacy, Written
<1>4. UNCHANGED <<doc, mem, ws, buf, row, saved>>
  BY DEF MoveLegacy, work
<1>5. \A q \in Procs : ws[q] \in Workspaces
  BY DEF TypeOK
<1> QED
  BY <1>2, <1>3, <1>4, <1>5 DEF Provenance

LEMMA HashStep ==
  ASSUME TypeOK, Provenance, NEW p \in Procs, HashLocal(p)
  PROVE  Provenance'
<1>1. ws[p] \in Workspaces /\ Written(ws[p])
  BY DEF HashLocal, Advance, TypeOK, Provenance
<1>2. OnDisk(ws[p]) \in saved
  BY <1>1 DEF OnDisk, ReadPath, Written
<1> QED
  BY <1>2 DEF HashLocal, Advance, disk, TypeOK, Provenance, Written

LEMMA UpdateStep ==
  ASSUME TypeOK, Provenance, NEW p \in Procs, WriteRecent(p) \/ WriteTrusted(p)
  PROVE  Provenance'
<1>1. buf[p] \in Doc /\ Rows(buf[p]) \subseteq saved
  BY DEF TypeOK, Provenance
<1>2. Rows(doc') \subseteq saved
  <2>1. CASE WriteRecent(p)
    BY <1>1, <2>1 DEF WriteRecent, Doc, Rows
  <2>2. CASE WriteTrusted(p)
    <3>1. row[p] \in saved
      BY <2>2 DEF WriteTrusted, Provenance
    <3>2. buf[p].trusted \in Seq(Row) /\ Range(buf[p].trusted) \subseteq saved
      BY <1>1 DEF Doc, Rows
    <3>3. Range(Recorded(buf[p].trusted, row[p])) \subseteq saved
      BY <3>1, <3>2, RecordedRows
    <3>4. doc'.trusted = Recorded(buf[p].trusted, row[p])
      BY <1>1, <2>2 DEF WriteTrusted, Doc
    <3> QED
      BY <3>3, <3>4 DEF Rows
  <2> QED
    BY <2>1, <2>2
<1>3. Forget(p) /\ UNCHANGED <<file, mem, ws, saved>>
  BY DEF WriteRecent, WriteTrusted
<1>4. \A q \in Procs : pc'[q] \in {"probe", "move", "hash"}
                          => pc[q] \in {"probe", "move", "hash"}
  BY DEF WriteRecent, WriteTrusted, Advance, TypeOK
<1> QED
  BY <1>2, <1>3, <1>4, ForgetRows DEF TypeOK, Provenance, Written

\* An editor that keeps off a workspace between a save's write and its hash.
LEMMA EditStep ==
  ASSUME EditableAt \cap {"probe", "move", "hash"} = {},
         TypeOK, Provenance, NEW path \in Paths, NEW c \in Edits, Edit(path, c)
  PROVE  Provenance'
<1>1. ASSUME NEW q \in Procs, pc'[q] \in {"probe", "move", "hash"}
      PROVE  Written(ws[q])'
  <2>1. pc[q] \in {"probe", "move", "hash"} /\ ws[q] # path[1]
    BY <1>1 DEF Edit
  <2>2. <<ws[q], "current">> # path /\ <<ws[q], "current">> \in Paths
    BY <2>1 DEF Paths, TypeOK
  <2>3. file'[<<ws[q], "current">>] = file[<<ws[q], "current">>]
    BY <2>2 DEF Edit, TypeOK
  <2> QED
    BY <2>1, <2>3 DEF Edit, Provenance, Written
<1> QED
  BY <1>1 DEF Edit, work, Provenance

LEMMA ProvenanceInit == Init => Provenance
<1>1. Init => \A p \in Procs : Rows(mem[p]) = {} /\ Rows(buf[p]) = {}
  BY EmptyDocType DEF Init
<1> QED
  BY <1>1 DEF Init, Provenance

LEMMA ProvenanceStep ==
  ASSUME EditableAt \cap {"probe", "move", "hash"} = {}, TypeOK, Provenance, [Next]_vars
  PROVE  Provenance'
<1>1. ASSUME NEW p \in Procs, Process(p) PROVE Provenance'
  BY <1>1, QuietStep, CopyStep, WriteLocalStep, MoveLegacyStep, HashStep, UpdateStep
     DEF Process
<1>2. CASE \E path \in Paths, c \in Edits : Edit(path, c)
  BY <1>2, EditStep
<1>3. CASE UNCHANGED vars
  BY <1>3 DEF vars, disk, work, Provenance, Written
<1> QED
  BY <1>1, <1>2, <1>3 DEF Next

\* Every trust record is of bytes a launcher wrote to that very path, with any
\* number of launchers saving, failing and dying at the same time, as long as
\* nobody else changes a workspace file between a save's write and its hash.
THEOREM TrustIsProvenance ==
  ASSUME EditableAt \cap {"probe", "move", "hash"} = {}
  PROVE  Spec => []TrustOnlySaved
<1>1. TypeOK /\ Provenance /\ [Next]_vars => Provenance'
  BY ProvenanceStep
<1>2. Provenance => TrustOnlySaved
  BY DEF Provenance, TrustOnlySaved
<1> QED
  BY <1>1, <1>2, ProvenanceInit, TypeCorrect, PTL DEF Spec

-----------------------------------------------------------------------------
(***************************************************************************)
(* Backups. A process that has chosen a backup name finds it free for as   *)
(* long as the legacy file is there: who moves that file takes it from     *)
(* every other process.                                                    *)
(***************************************************************************)
FreeFor(p) ==
    /\ slot[p] \in 1..Backups
    /\ file[<<ws[p], "legacy">>] # None => bak[ws[p]][slot[p]] = None
ChosenIsFree == \A p \in Procs : pc[p] = "move" => FreeFor(p)

\* What any step but the move itself leaves of a backup and of a legacy file.
LEMMA LegacyStays ==
  ASSUME "move" \notin EditableAt, TypeOK, NEW q \in Procs, pc[q] = "move", pc'[q] = "move",
         [Next]_vars, \A p \in Procs : ~MoveLegacy(p)
  PROVE  /\ slot'[q] = slot[q] /\ ws'[q] = ws[q] /\ bak' = bak
         /\ file'[<<ws[q], "legacy">>] = file[<<ws[q], "legacy">>]
<1> USE DEF Advance, disk, work
<1>1. ASSUME NEW p \in Procs, Process(p)
      PROVE  /\ slot'[q] = slot[q] /\ ws'[q] = ws[q] /\ bak' = bak
             /\ file'[<<ws[q], "legacy">>] = file[<<ws[q], "legacy">>]
  <2>1. CASE Start(p) \/ CheckTrust(p) \/ NothingToMigrate(p) \/ HashLocal(p) \/ ReadDoc(p)
    BY <2>1 DEF Start, CheckTrust, NothingToMigrate, HashLocal, ReadDoc
  <2>2. CASE WriteLocal(p)
    <3>1. <<ws[q], "legacy">> # <<ws[p], "current">> /\ <<ws[q], "legacy">> \in Paths
      BY DEF TypeOK, Paths
    <3> QED
      BY <2>2, <3>1 DEF WriteLocal, TypeOK
  <2>3. CASE PickBackup(p)
    BY <2>3 DEF PickBackup, TypeOK
  <2>4. CASE WriteRecent(p) \/ WriteTrusted(p)
    <3>1. p # q
      BY <2>4 DEF WriteRecent, WriteTrusted
    <3> QED
      BY <2>4, <3>1 DEF WriteRecent, WriteTrusted, Forget, TypeOK
  <2>5. CASE Fail(p)
    BY <2>5 DEF Fail, Forget, TypeOK
  <2>6. CASE Stop(p)
    BY <2>6 DEF Stop, Forget, TypeOK
  <2>7. CASE \E n \in Names : PutName(p, n) \/ DeleteName(p, n)
    BY <2>7 DEF PutName, DeleteName
  <2>8. CASE \E w \in Workspaces : LoadLocal(p, w)
    BY <2>8 DEF LoadLocal, TypeOK
  <2>9. CASE \E c \in Contents : Save(p, c)
    BY <2>9 DEF Save
  <2>10. CASE \E a \in Agents : Remember(p, a)
    BY <2>10 DEF Remember
  <2> QED
    BY <1>1, <2>1, <2>2, <2>3, <2>4, <2>5, <2>6, <2>7, <2>8, <2>9, <2>10 DEF Process
<1>2. CASE \E path \in Paths, c \in Edits : Edit(path, c)
  <2> PICK path \in Paths, c \in Edits : Edit(path, c)
    BY <1>2
  <2>1. <<ws[q], "legacy">> # path /\ <<ws[q], "legacy">> \in Paths
    BY DEF Edit, TypeOK, Paths
  <2> QED
    BY <2>1 DEF Edit, TypeOK
<1>3. CASE UNCHANGED vars
  BY <1>3 DEF vars
<1> QED
  BY <1>1, <1>2, <1>3 DEF Next

\* Who is about to move a legacy file chose the name itself.
LEMMA WhoMoves ==
  ASSUME TypeOK, NEW q \in Procs, pc[q] # "move", pc'[q] = "move", [Next]_vars
  PROVE  PickBackup(q)
<1> USE DEF Advance
<1>1. ASSUME NEW p \in Procs, Process(p)
      PROVE  PickBackup(q)
  <2>1. q = p
    BY <1>1 DEF TypeOK, Process, Start, CheckTrust, WriteLocal, NothingToMigrate, PickBackup,
                MoveLegacy, HashLocal, ReadDoc, WriteRecent, WriteTrusted, Fail, Stop, PutName,
                DeleteName, LoadLocal, Save, Remember
  <2> QED
    BY <1>1, <2>1 DEF TypeOK, Process, Start, CheckTrust, WriteLocal, NothingToMigrate,
                MoveLegacy, HashLocal, ReadDoc, WriteRecent, WriteTrusted, Fail, Stop, PutName,
                DeleteName, LoadLocal, Save, Remember
<1>2. CASE \E path \in Paths, c \in Edits : Edit(path, c)
  BY <1>2 DEF Edit
<1>3. CASE UNCHANGED vars
  BY <1>3 DEF vars
<1> QED
  BY <1>1, <1>2, <1>3 DEF Next

\* A move changes one backup, which was free, and takes its legacy file away.
LEMMA MoveTakes ==
  ASSUME TypeOK, ChosenIsFree, NEW p \in Procs, MoveLegacy(p)
  PROVE  /\ \A w \in Workspaces, i \in 1..Backups : bak[w][i] # None => bak'[w][i] = bak[w][i]
         /\ \A w \in Workspaces : w # ws[p] => /\ bak'[w] = bak[w]
                                               /\ file'[<<w, "legacy">>] = file[<<w, "legacy">>]
         /\ bak'[ws[p]][slot[p]] = file[<<ws[p], "legacy">>] /\ slot[p] \in 1..Backups
         /\ file'[<<ws[p], "legacy">>] = None
         /\ ws' = ws /\ slot' = slot /\ \A q \in Procs : pc'[q] # pc[q] => q = p
<1>1. ws[p] \in Workspaces /\ FreeFor(p) /\ file[<<ws[p], "legacy">>] # None
  BY DEF MoveLegacy, Advance, TypeOK, ChosenIsFree
<1>2. slot[p] \in 1..Backups /\ bak[ws[p]][slot[p]] = None
  BY <1>1 DEF FreeFor
<1>3. /\ bak' = [bak EXCEPT ![ws[p]][slot[p]] = file[<<ws[p], "legacy">>]]
      /\ file' = [file EXCEPT ![<<ws[p], "legacy">>] = None]
      /\ ws' = ws /\ slot' = slot /\ pc' = [pc EXCEPT ![p] = "hash"]
  BY DEF MoveLegacy, Advance, work
<1>4. \A w \in Workspaces : bak[w] \in [1..Backups -> Contents \cup {None}] /\ <<w, "legacy">> \in Paths
  BY DEF TypeOK, Paths
<1>5. \A w \in Workspaces, i \in 1..Backups :
         bak'[w][i] = IF w = ws[p] /\ i = slot[p] THEN file[<<ws[p], "legacy">>] ELSE bak[w][i]
  BY <1>1, <1>2, <1>3, <1>4 DEF TypeOK
<1>6. \A w \in Workspaces : w # ws[p] => /\ bak'[w] = bak[w]
                                         /\ file'[<<w, "legacy">>] = file[<<w, "legacy">>]
  BY <1>1, <1>3, <1>4 DEF TypeOK
<1>7. file'[<<ws[p], "legacy">>] = None /\ \A q \in Procs : pc'[q] # pc[q] => q = p
  BY <1>1, <1>3, <1>4 DEF TypeOK
<1> QED
  BY <1>1, <1>2, <1>3, <1>5, <1>6, <1>7

LEMMA ChosenIsFreeStep ==
  ASSUME "move" \notin EditableAt, TypeOK, ChosenIsFree, [Next]_vars
  PROVE  ChosenIsFree'
<1> SUFFICES ASSUME NEW q \in Procs, pc'[q] = "move"
             PROVE  FreeFor(q)'
  BY DEF ChosenIsFree
<1>1. CASE pc[q] # "move"
  <2>1. PickBackup(q)
    BY <1>1, WhoMoves
  <2> QED
    BY <2>1 DEF PickBackup, disk, TypeOK, FreeFor
<1>2. CASE pc[q] = "move"
  <2>1. FreeFor(q) /\ ws[q] \in Workspaces
    BY <1>2 DEF ChosenIsFree, TypeOK
  <2>2. CASE \A p \in Procs : ~MoveLegacy(p)
    <3>1. /\ slot'[q] = slot[q] /\ ws'[q] = ws[q] /\ bak' = bak
          /\ file'[<<ws[q], "legacy">>] = file[<<ws[q], "legacy">>]
      BY <1>2, <2>2, LegacyStays
    <3> QED
      BY <2>1, <3>1 DEF FreeFor
  <2>3. ASSUME NEW p \in Procs, MoveLegacy(p)
        PROVE  FreeFor(q)'
    <3>1. CASE ws[q] = ws[p]
      BY <2>1, <2>3, <3>1, MoveTakes DEF FreeFor
    <3>2. CASE ws[q] # ws[p]
      BY <2>1, <2>3, <3>2, MoveTakes, ZenonT(30) DEF FreeFor
    <3> QED
      BY <3>1, <3>2
  <2> QED
    BY <2>2, <2>3
<1> QED
  BY <1>1, <1>2

\* Nothing but a move touches a backup, or ends the probing for one.
LEMMA OnlyMoves ==
  ASSUME TypeOK, [Next]_vars, \A p \in Procs : ~MoveLegacy(p)
  PROVE  bak' = bak /\ \A q \in Procs : ~(pc[q] = "move" /\ pc'[q] = "hash")
<1> USE DEF Advance, disk, work
<1>1. ASSUME NEW p \in Procs, Process(p)
      PROVE  bak' = bak /\ \A q \in Procs : ~(pc[q] = "move" /\ pc'[q] = "hash")
  BY <1>1 DEF TypeOK, Process, Start, CheckTrust, WriteLocal, NothingToMigrate, PickBackup,
              HashLocal, ReadDoc, WriteRecent, WriteTrusted, Fail, Stop, PutName,
              DeleteName, LoadLocal, Save, Remember
<1>2. CASE \E path \in Paths, c \in Edits : Edit(path, c)
  BY <1>2 DEF Edit
<1>3. CASE UNCHANGED vars
  BY <1>3 DEF vars
<1> QED
  BY <1>1, <1>2, <1>3 DEF Next

LegacyKept ==
    \A w \in Workspaces :
      /\ \A i \in 1..Backups : bak[w][i] # None => bak'[w][i] = bak[w][i]
      /\ LET old == file[<<w, "legacy">>] IN
         (\E p \in Procs : pc[p] = "move" /\ pc'[p] = "hash" /\ ws[p] = w)
         => old = file'[<<w, "legacy">>] \/ \E i \in 1..Backups : bak'[w][i] = old

LEMMA LegacyKeptStep ==
  ASSUME TypeOK, ChosenIsFree, [Next]_vars
  PROVE  LegacyKept
<1>1. CASE \A p \in Procs : ~MoveLegacy(p)
  BY <1>1, OnlyMoves DEF LegacyKept
<1>2. ASSUME NEW p \in Procs, MoveLegacy(p)
      PROVE  LegacyKept
  <2> SUFFICES ASSUME NEW w \in Workspaces
               PROVE  /\ \A i \in 1..Backups : bak[w][i] # None => bak'[w][i] = bak[w][i]
                      /\ (\E q \in Procs : pc[q] = "move" /\ pc'[q] = "hash" /\ ws[q] = w)
                         => \E i \in 1..Backups : bak'[w][i] = file[<<w, "legacy">>]
    BY DEF LegacyKept
  <2>1. \A i \in 1..Backups : bak[w][i] # None => bak'[w][i] = bak[w][i]
    BY <1>2, MoveTakes
  <2>2. ASSUME NEW q \in Procs, pc[q] = "move", pc'[q] = "hash", ws[q] = w
        PROVE  \E i \in 1..Backups : bak'[w][i] = file[<<w, "legacy">>]
    <3>1. q = p
      BY <1>2, <2>2, MoveTakes
    <3> QED
      BY <1>2, <2>2, <3>1, MoveTakes
  <2> QED
    BY <2>1, <2>2
<1> QED
  BY <1>1, <1>2

\* Moving a legacy workspace file aside never costs its bytes or those of an
\* earlier backup, with any number of launchers migrating the same workspace
\* at once (nextLegacyBackupPath picks the name some steps before the rename),
\* as long as nobody else creates a legacy file between the two.
THEOREM MigrationKeepsBytes ==
  ASSUME "move" \notin EditableAt
  PROVE  Spec => LegacyRecoverable
<1>1. Init => ChosenIsFree
  BY DEF Init, ChosenIsFree
<1>2. TypeOK /\ ChosenIsFree /\ [Next]_vars => ChosenIsFree'
  BY ChosenIsFreeStep
<1>3. TypeOK /\ ChosenIsFree /\ [Next]_vars => [LegacyKept]_vars
  BY LegacyKeptStep
<1>4. Spec => [][LegacyKept]_vars
  BY <1>1, <1>2, <1>3, TypeCorrect, PTL DEF Spec
<1> QED
  BY <1>4 DEF LegacyRecoverable, LegacyKept

-----------------------------------------------------------------------------
(***************************************************************************)
(* A launcher alone. While no other process is there, the document that an *)
(* update has read is still the one on disk when it is written, and the    *)
(* workspace file loaded is the one whose trust is looked up.              *)
(***************************************************************************)
Alone == \A p, q \in Procs : p = q

ReadIsCurrent == \A p \in Procs : pc[p] = "record" => buf[p] = doc
LoadedIsCurrent ==
    \A p \in Procs :
      /\ pc[p] = "loaded" => got[p] = OnDisk(ws[p])
      /\ honoured[p] => got[p] \in saved /\ pc[p] \notin {"off", "global", "loaded"}

LEMMA AloneInit == Init => ReadIsCurrent /\ LoadedIsCurrent
BY DEF Init, ReadIsCurrent, LoadedIsCurrent

LEMMA ReadStep ==
  ASSUME Alone, TypeOK, ReadIsCurrent, [Next]_vars
  PROVE  ReadIsCurrent'
<1> USE DEF Advance, disk, work
<1>1. ASSUME NEW p \in Procs, Process(p)
      PROVE  ReadIsCurrent'
  <2> SUFFICES pc'[p] = "record" => buf'[p] = doc'
    BY DEF Alone, ReadIsCurrent
  <2>1. CASE ReadDoc(p)
    BY <2>1 DEF ReadDoc, TypeOK
  <2>2. CASE ~ReadDoc(p)
    <3>1. pc'[p] # "record"
      BY <1>1, <2>2 DEF TypeOK, Process, Start, CheckTrust, WriteLocal, NothingToMigrate,
            PickBackup, MoveLegacy, HashLocal, WriteRecent, WriteTrusted, Fail, Stop, PutName,
            DeleteName, LoadLocal, Save, Remember
    <3> QED
      BY <3>1
  <2> QED
    BY <2>1, <2>2
<1>2. CASE \E path \in Paths, c \in Edits : Edit(path, c)
  BY <1>2 DEF Edit, ReadIsCurrent
<1>3. CASE UNCHANGED vars
  BY <1>3 DEF vars, ReadIsCurrent
<1> QED
  BY <1>1, <1>2, <1>3 DEF Next

LEMMA LoadedProcess ==
  ASSUME Alone, TypeOK, Provenance, LoadedIsCurrent, NEW p \in Procs, Process(p)
  PROVE  LoadedIsCurrent'
<1> USE DEF Advance, disk, work
<1>0. /\ pc[p] = "loaded" => got[p] = OnDisk(ws[p])
      /\ honoured[p] => got[p] \in saved /\ pc[p] \notin {"off", "global", "loaded"}
  BY DEF LoadedIsCurrent
<1> SUFFICES /\ pc'[p] = "loaded" => got'[p] = OnDisk(ws[p])'
             /\ honoured'[p] => got'[p] \in saved' /\ pc'[p] \notin {"off", "global", "loaded"}
  BY DEF Alone, LoadedIsCurrent
<1>1. CASE Start(p) \/ (\E c \in Contents : Save(p, c)) \/ (\E a \in Agents : Remember(p, a))
  BY <1>0, <1>1 DEF Start, Save, Remember, TypeOK
<1>2. CASE \E n \in Names : PutName(p, n) \/ DeleteName(p, n)
  BY <1>0, <1>2 DEF PutName, DeleteName, TypeOK
<1>3. CASE \E w \in Workspaces : LoadLocal(p, w)
  BY <1>0, <1>3 DEF LoadLocal, TypeOK, OnDisk, ReadPath
<1>4. CASE CheckTrust(p)
  <2>1. honoured'[p] => got[p] \in Rows(mem[p])
    BY <1>0, <1>4 DEF CheckTrust, TypeOK
  <2> QED
    BY <1>4, <2>1 DEF CheckTrust, TypeOK, Provenance
<1>5. CASE WriteLocal(p) \/ NothingToMigrate(p) \/ PickBackup(p) \/ MoveLegacy(p) \/ HashLocal(p)
  BY <1>0, <1>5 DEF WriteLocal, NothingToMigrate, PickBackup, MoveLegacy, HashLocal, TypeOK
<1>6. CASE ReadDoc(p)
  BY <1>0, <1>6 DEF ReadDoc, TypeOK
<1>7. CASE WriteRecent(p) \/ WriteTrusted(p) \/ Fail(p)
  BY <1>0, <1>7 DEF WriteRecent, WriteTrusted, Fail, TypeOK
<1>8. CASE Stop(p)
  BY <1>0, <1>8 DEF Stop, TypeOK
<1> QED
  BY <1>1, <1>2, <1>3, <1>4, <1>5, <1>6, <1>7, <1>8 DEF Process

LEMMA LoadedStep ==
  ASSUME Alone, "loaded" \notin EditableAt, TypeOK, Provenance, LoadedIsCurrent, [Next]_vars
  PROVE  LoadedIsCurrent'
<1>1. ASSUME NEW p \in Procs, Process(p)
      PROVE  LoadedIsCurrent'
  BY <1>1, LoadedProcess
<1>2. ASSUME NEW path \in Paths, NEW c \in Edits, Edit(path, c)
      PROVE  LoadedIsCurrent'
  <2>1. ASSUME NEW p \in Procs, pc[p] = "loaded"
        PROVE  OnDisk(ws[p])' = OnDisk(ws[p])
    <3>1. ws[p] # path[1] /\ ws[p] \in Workspaces
      BY <1>2, <2>1 DEF Edit, TypeOK
    <3>2. file'[<<ws[p], "current">>] = file[<<ws[p], "current">>]
      BY <1>2, <3>1 DEF Edit, TypeOK, Paths
    <3>3. file'[<<ws[p], "legacy">>] = file[<<ws[p], "legacy">>]
      BY <1>2, <3>1 DEF Edit, TypeOK, Paths
    <3> QED
      BY <1>2, <3>2, <3>3 DEF Edit, OnDisk, ReadPath
  <2> QED
    BY <1>2, <2>1 DEF Edit, LoadedIsCurrent, work
<1>3. CASE UNCHANGED vars
  <2>1. \A p \in Procs : OnDisk(ws[p])' = OnDisk(ws[p])
    BY <1>3 DEF vars, disk, OnDisk, ReadPath
  <2> QED
    BY <1>3, <2>1 DEF vars, disk, work, LoadedIsCurrent
<1> QED
  BY <1>1, <1>2, <1>3 DEF Next

\* The record being added is in the list, however full it was.
LEMMA RecordedHas ==
  ASSUME NEW s \in Seq(Row), NEW r \in Row
  PROVE  r \in Range(Recorded(s, r))
<1> DEFINE w == Without(s, r)
           all == Append(w, r)
           n == Len(all)
<1>1. w \in Seq(Row)
  BY WithoutType
<1> HIDE DEF w
<1>2. all \in Seq(Row) /\ n \in Nat \ {0} /\ all[n] = r
  BY <1>1, AppendProperties, LenProperties
<1> HIDE DEF all
<1>3. CASE n > TrustMax
  <2> DEFINE last == SubSeq(all, n - TrustMax + 1, n)
  <2>1. TrustMax \in Nat /\ TrustMax >= 1
    BY CapsArePositive
  <2>2. n - TrustMax + 1 \in 1..n
    BY <1>2, <1>3, <2>1
  <2>3. \A i \in (n - TrustMax + 1)..n : all[i] \in Row
    BY <1>2, <2>2, ElementOfSeq
  <2> DEFINE m == n - TrustMax + 1
  <2>4. Len(last) = TrustMax /\ last \in Seq(Row) /\ last[TrustMax] = all[n]
    <3>1. m \in Nat /\ n \in Nat /\ m \in 1..n /\ n - m + 1 = TrustMax
          /\ TrustMax \in 1..(n - m + 1) /\ m + TrustMax - 1 = n
      BY <1>2, <2>1, <2>2
    <3>2. \A i \in m..n : all[i] \in Row
      BY <2>3
    <3>3. last = SubSeq(all, m, n)
      OBVIOUS
    <3>a. m <= n /\ m \in Int /\ n \in Int
      BY <3>1
    <3> HIDE DEF m, n, last
    <3>4. last \in Seq(Row) /\ Len(last) = n - m + 1
      BY <3>a, <3>2, <3>3, SubSeqProperties
    <3>5. \A i \in 1..(n - m + 1) : last[i] = all[m + i - 1]
      BY <3>a, <3>2, <3>3, SubSeqProperties
    <3>6. last[TrustMax] = all[m + TrustMax - 1]
      BY <3>1, <3>5
    <3> QED
      BY <3>1, <3>4, <3>6
  <2>5. Recorded(s, r) = last
    BY <1>3 DEF Recorded, w, all
  <2> HIDE DEF last
  <2>6. DOMAIN last = 1..TrustMax
    BY <2>4, LenProperties
  <2>7. TrustMax \in DOMAIN last
    BY <2>1, <2>6
  <2> QED
    BY <1>2, <2>4, <2>5, <2>7 DEF Range
<1>4. CASE ~(n > TrustMax)
  <2>1. Recorded(s, r) = all
    BY <1>4 DEF Recorded, w, all
  <2>2. n \in DOMAIN all
    BY <1>2, LenProperties
  <2> QED
    BY <1>2, <2>1, <2>2 DEF Range
<1> QED
  BY <1>3, <1>4

\* Without names to store, the loaded catalog is never written back.
LEMMA NewestStep ==
  ASSUME Alone, Names = {}, TypeOK, ReadIsCurrent, NewestSaveTrusted, [Next]_vars
  PROVE  NewestSaveTrusted'
<1> USE DEF Advance, disk, work
<1>1. ASSUME NEW p \in Procs, Process(p)
      PROVE  NewestSaveTrusted'
  <2>1. CASE WriteRecent(p)
    <3>1. buf[p] = doc /\ doc \in Doc
      BY <2>1 DEF WriteRecent, ReadIsCurrent, TypeOK
    <3>2. doc'.trusted = doc.trusted
      BY <2>1, <3>1 DEF WriteRecent, Doc
    <3> QED
      BY <2>1, <3>2 DEF WriteRecent, NewestSaveTrusted, Rows
  <2>2. CASE WriteTrusted(p)
    <3>1. buf[p] \in Doc /\ row[p] \in Row
      BY <2>2 DEF WriteTrusted, TypeOK
    <3>2. buf[p].trusted \in Seq(Row) /\ doc'.trusted = Recorded(buf[p].trusted, row[p])
      BY <2>2, <3>1 DEF WriteTrusted, Doc
    <3>3. row[p] \in Range(doc'.trusted)
      BY <3>1, <3>2, RecordedHas
    <3> QED
      BY <2>2, <3>3 DEF WriteTrusted, NewestSaveTrusted, Rows
  <2>3. CASE Start(p) \/ CheckTrust(p) \/ WriteLocal(p) \/ NothingToMigrate(p) \/ PickBackup(p)
    BY <2>3 DEF Start, CheckTrust, WriteLocal, NothingToMigrate, PickBackup, NewestSaveTrusted
  <2>4. CASE MoveLegacy(p) \/ HashLocal(p) \/ ReadDoc(p) \/ Fail(p) \/ Stop(p)
    BY <2>4 DEF MoveLegacy, HashLocal, ReadDoc, Fail, Stop, NewestSaveTrusted
  <2>5. CASE \/ \E w \in Workspaces : LoadLocal(p, w)
             \/ \E c \in Contents : Save(p, c)
             \/ \E a \in Agents : Remember(p, a)
    BY <2>5 DEF LoadLocal, Save, Remember, NewestSaveTrusted
  <2> QED
    BY <1>1, <2>1, <2>2, <2>3, <2>4, <2>5 DEF Process
<1>2. CASE \E path \in Paths, c \in Edits : Edit(path, c)
  BY <1>2 DEF Edit, NewestSaveTrusted
<1>3. CASE UNCHANGED vars
  BY <1>3 DEF vars, NewestSaveTrusted
<1> QED
  BY <1>1, <1>2, <1>3 DEF Next

OneKey ==
    \A p \in Procs : pc[p] = "record" /\ pc'[p] # "record" =>
        \/ doc' = [doc EXCEPT !.recent = doc'.recent]
        \/ doc' = [doc EXCEPT !.trusted = doc'.trusted]

LEMMA OneKeyStep ==
  ASSUME Alone, TypeOK, ReadIsCurrent, [Next]_vars
  PROVE  OneKey
<1> SUFFICES ASSUME NEW p \in Procs, pc[p] = "record", pc'[p] # "record"
             PROVE  \/ doc' = [doc EXCEPT !.recent = doc'.recent]
                    \/ doc' = [doc EXCEPT !.trusted = doc'.trusted]
  BY DEF OneKey
<1> USE DEF Advance, disk, work
<1>1. doc' # doc => \E q \in Procs : Process(q)
  BY DEF Next, Edit, vars
<1>2. ASSUME NEW q \in Procs, Process(q)
      PROVE  WriteRecent(p) \/ WriteTrusted(p) \/ Fail(p) \/ Stop(p)
  <2>1. q = p
    BY DEF Alone
  <2> QED
    BY <1>2, <2>1 DEF Process, Start, CheckTrust, WriteLocal, NothingToMigrate, PickBackup,
          MoveLegacy, HashLocal, ReadDoc, PutName, DeleteName, LoadLocal, Save, Remember
<1>3. doc = [trusted |-> doc.trusted, recent |-> doc.recent, names |-> doc.names]
  BY DEF TypeOK, Doc
<1>4. CASE WriteRecent(p)
  <2>1. doc' = [doc EXCEPT !.recent = mem[p].recent]
    BY <1>4 DEF WriteRecent, ReadIsCurrent
  <2> QED
    BY <1>3, <2>1
<1>5. CASE WriteTrusted(p)
  <2>1. doc' = [doc EXCEPT !.trusted = Recorded(doc.trusted, row[p])]
    BY <1>5 DEF WriteTrusted, ReadIsCurrent
  <2> QED
    BY <1>3, <2>1
<1>6. doc' = doc => doc' = [doc EXCEPT !.recent = doc'.recent]
  BY <1>3
<1>7. (Fail(p) \/ Stop(p)) => doc' = doc
  BY DEF Fail, Stop
<1>8. CASE doc' = doc
  BY <1>6, <1>8
<1>9. CASE doc' # doc
  <2>1. PICK q \in Procs : Process(q)
    BY <1>1, <1>9
  <2>2. WriteRecent(p) \/ WriteTrusted(p)
    BY <1>2, <1>7, <1>9, <2>1
  <2> QED
    BY <1>4, <1>5, <2>2
<1> QED
  BY <1>8, <1>9

\* A launcher alone, on a workspace that nobody else changes while it loads and
\* saves: the workspace file it honours as the operator's own is one that a
\* launcher wrote there, although it is read twice, for its values and for its
\* hash (LoadLocal, LocalConfigTrusted).
THEOREM HonouredIsSaved ==
  ASSUME \A p, q \in Procs : p = q,
         EditableAt \cap {"loaded", "probe", "move", "hash"} = {}
  PROVE  Spec => []HonouredWasSaved
<1>1. Alone /\ "loaded" \notin EditableAt /\ EditableAt \cap {"probe", "move", "hash"} = {}
  BY DEF Alone
<1>2. TypeOK /\ Provenance /\ [Next]_vars => Provenance'
  BY <1>1, ProvenanceStep
<1>3. TypeOK /\ Provenance /\ LoadedIsCurrent /\ [Next]_vars => LoadedIsCurrent'
  BY <1>1, LoadedStep
<1>4. LoadedIsCurrent => HonouredWasSaved
  BY DEF LoadedIsCurrent, HonouredWasSaved
<1> QED
  BY <1>2, <1>3, <1>4, ProvenanceInit, AloneInit, TypeCorrect, PTL DEF Spec

\* A launcher alone that stores no profile and no agent keeps the trust record
\* of the selection it saved last, however many records there are: the oldest
\* ones make room (RecordTrustedLocalConfig). With a profile to store, the
\* loaded catalog is written back whole and the record is lost.
THEOREM NewestSaveIsTrusted ==
  ASSUME \A p, q \in Procs : p = q, Names = {}
  PROVE  Spec => []NewestSaveTrusted
<1>1. Alone
  BY DEF Alone
<1>2. TypeOK /\ ReadIsCurrent /\ [Next]_vars => ReadIsCurrent'
  BY <1>1, ReadStep
<1>3. TypeOK /\ ReadIsCurrent /\ NewestSaveTrusted /\ [Next]_vars => NewestSaveTrusted'
  BY <1>1, NewestStep
<1>4. Init => NewestSaveTrusted
  BY DEF Init, NewestSaveTrusted
<1> QED
  BY <1>2, <1>3, <1>4, AloneInit, TypeCorrect, PTL DEF Spec

\* A launcher alone changes one key of the global file at a time, although it
\* reads the file and writes it in two steps (SaveRecentAgents,
\* RecordTrustedLocalConfig).
THEOREM UpdatesTouchOneKey ==
  ASSUME \A p, q \in Procs : p = q
  PROVE  Spec => OneKeyPerUpdate
<1>1. Alone
  BY DEF Alone
<1>2. TypeOK /\ ReadIsCurrent /\ [Next]_vars => ReadIsCurrent'
  BY <1>1, ReadStep
<1>3. TypeOK /\ ReadIsCurrent /\ [Next]_vars => [OneKey]_vars
  BY <1>1, OneKeyStep
<1>4. Spec => [][OneKey]_vars
  BY <1>2, <1>3, AloneInit, TypeCorrect, PTL DEF Spec
<1> QED
  BY <1>4 DEF OneKeyPerUpdate, OneKey
=============================================================================

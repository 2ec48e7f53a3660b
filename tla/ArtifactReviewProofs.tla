------------------------ MODULE ArtifactReviewProofs ------------------------
(***************************************************************************)
(* What holds of ArtifactReview for any number of launchers, files and     *)
(* selections: its types, and that hand-written bytes survive every        *)
(* launcher nobody told to replace them, as long as nobody writes a file   *)
(* between its last inspection and the launcher's last write. What holds   *)
(* of one launcher after another, for any files and selections: decisions  *)
(* stick, approvals are kept, and a stack has its own policy.              *)
(***************************************************************************)
EXTENDS ArtifactReview, TLAPS

USE DEF Go

LEMMA ContentFacts ==
    /\ Files = {Plain[i] : i \in DOMAIN Plain} \cup {Compose}
    /\ Plain \in Seq(Files) /\ Plain \o <<Compose>> \in Seq(Files)
    /\ Compose \in Files
    /\ NotRead \in [Files -> Contents \cup {Missing, Unread}]
    /\ NotAsked \in Files \X (Contents \cup {Missing})
    /\ NoLedger \in Ledgers
    /\ Selections \subseteq Contents /\ Hands \subseteq Contents
  BY PlainIsASequence DEF Files, NotRead, NotAsked, NoLedger, Ledgers, Contents

LEMMA ApprovalType ==
    ASSUME NEW l \in Ledgers, NEW f \in Files
    PROVE  Approval(l, f) \in Pairs \cup {NoApproval}
  BY DEF Approval, Ledgers

LEMMA ApproveType ==
    ASSUME NEW l \in Ledgers, NEW f \in Files, NEW r \in Pairs \cup {NoApproval}
    PROVE  Approve(l, f, r) \in Ledgers
  BY ApprovalType DEF Approve, Ledgers

\* A launcher that records an approval does so for the file whose turn it is.
Busy == \A p \in Procs : pc[p] \in {"approve", "record"} => todo[p] # <<>>

LEMMA InitType == Init => TypeOK /\ Busy
<1> SUFFICES ASSUME Init PROVE TypeOK /\ Busy
  OBVIOUS
<1>1. ledger \in Ledgers
  <2>1. PICK flat \in (Hands \X Selections) \cup {NoApproval} : ledger = [NoLedger EXCEPT !.flat = flat]
    BY DEF Init
  <2>2. flat \in Pairs \cup {NoApproval}
    BY DEF Pairs, Contents
  <2>3. ledger = [by |-> [f \in Files |-> NoApproval], flat |-> flat]
    BY <2>1 DEF NoLedger
  <2> QED BY <2>2, <2>3 DEF Ledgers
<1>2. sel \in [Procs -> Selections]
  BY DEF Init
<1>3. Busy
  BY DEF Init, Busy
<1> QED BY <1>1, <1>2, <1>3, ContentFacts DEF Init, TypeOK, Steps, Choices, Contents

\* What a process forgets when it ends leaves every type as it is.
LEMMA EndType ==
    ASSUME TypeOK, NEW p \in Procs, NEW how \in {"ok", "conflict", "error", "killed"},
           End(p, how), UNCHANGED files
    PROVE  TypeOK'
<1>1. pc' \in [Procs -> Steps] /\ choice' \in [Procs -> Choices]
      /\ outcome' \in [Procs -> {"none", "ok", "conflict", "error", "killed"}]
  BY DEF End, TypeOK, Steps, Choices
<1>2. asked' \in [Procs -> Files \X (Contents \cup {Missing})]
      /\ review' \in [Procs -> [Files -> Contents \cup {Missing, Unread}]]
  BY ContentFacts DEF End, TypeOK
<1>3. changed' \in [Procs -> SUBSET Files] /\ todo' \in [Procs -> Seq(Files)]
  BY DEF End, TypeOK
<1>4. pair' \in [Procs -> Pairs \cup {NoApproval}] /\ buf' \in [Procs -> Ledgers]
  BY ContentFacts DEF End, TypeOK
<1>5. shown' \in [Procs -> SUBSET (Files \X (Contents \cup {Missing}) \X Selections)]
  BY DEF End, TypeOK
<1> QED BY <1>1, <1>2, <1>3, <1>4, <1>5 DEF End, TypeOK, files, call

LEMMA ShowType ==
    ASSUME TypeOK, NEW p \in Procs, NEW f \in Files, NEW step \in Steps, Show(p, f),
           pc' = [pc EXCEPT ![p] = step]
    PROVE  TypeOK'
<1>1. disk[f] \in Contents \cup {Missing} /\ sel[p] \in Selections
  BY DEF TypeOK
<1>2. asked' \in [Procs -> Files \X (Contents \cup {Missing})]
  BY <1>1 DEF Show, TypeOK
<1>3. shown' \in [Procs -> SUBSET (Files \X (Contents \cup {Missing}) \X Selections)]
  BY <1>1 DEF Show, TypeOK
<1>4. pc' \in [Procs -> Steps]
  BY DEF TypeOK
<1> QED BY <1>2, <1>3, <1>4 DEF Show, TypeOK, files, call, seen

LEMMA BusyStep == TypeOK /\ Busy /\ [Next]_vars => Busy'
<1> SUFFICES ASSUME TypeOK, Busy, [Next]_vars, NEW q \in Procs,
                    pc'[q] \in {"approve", "record"}
             PROVE  todo'[q] # <<>>
  BY DEF Busy
<1>0. pc \in [Procs -> Steps] /\ todo \in [Procs -> Seq(Files)]
  BY DEF TypeOK
<1>1. pc[q] = pc'[q] /\ todo'[q] = todo[q] => todo'[q] # <<>>
  BY DEF Busy
<1>2. CASE UNCHANGED vars
  BY <1>1, <1>2 DEF vars, seen
<1>3. ASSUME NEW f \in Files, NEW c \in Hands \cup {Missing}, Edit(f, c)
      PROVE  todo'[q] # <<>>
  BY <1>1, <1>3 DEF Edit, seen
<1>4. ASSUME NEW p \in Procs, Process(p) PROVE todo'[q] # <<>>
  <2>1. CASE Start(p) \/ ReviewCompose(p) \/ Run(p) \/ Dismiss(p) \/ AskCompose(p)
             \/ ComposeResolved(p) \/ AskPlain(p) \/ PlainResolved(p)
    BY <1>0, <1>1, <2>1 DEF Start, ReviewCompose, Run, Dismiss, AskCompose, ComposeResolved,
       AskPlain, PlainResolved, Show, AfterCompose, seen
  <2>2. CASE RefuseCompose(p) \/ RefusePlain(p) \/ GiveUp(p) \/ Finish(p) \/ Kill(p)
    BY <1>0, <1>1, <2>2 DEF RefuseCompose, RefusePlain, GiveUp, Finish, Kill, End
  <2>3. CASE Inspect(p) \/ InspectCompose(p)
    BY <1>0, <1>1, <2>3 DEF Inspect, InspectCompose
  <2>4. CASE ReadLedger(p)
    BY <1>0, <1>1, <2>4 DEF ReadLedger, seen, Busy
  <2>5. CASE WriteLedger(p)
    BY <1>0, <1>1, <2>5 DEF WriteLedger
  <2>6. ASSUME NEW s \in Selections, Reselect(p, s) PROVE todo'[q] # <<>>
    BY <1>0, <1>1, <2>6 DEF Reselect, seen
  <2>7. ASSUME NEW c \in {"keep", "replace"}, Accept(p, c) \/ Answer(p, c)
        PROVE  todo'[q] # <<>>
    BY <1>0, <1>1, <2>7 DEF Accept, Answer, seen
  <2>8. ASSUME NEW f \in Files, Write(p, f) \/ Keep(p, f) PROVE todo'[q] # <<>>
    BY <1>0, <1>1, <2>8 DEF Write, Keep, Turn, seen
  <2>9. ASSUME NEW f \in Files, Unchanged(p, f) PROVE todo'[q] # <<>>
    BY <1>0, <1>1, <2>9 DEF Unchanged
  <2>10. ASSUME NEW f \in Files, Conflict(p, f) PROVE todo'[q] # <<>>
    BY <1>0, <1>1, <2>10 DEF Conflict, End
  <2> QED BY <1>4, <2>1, <2>2, <2>3, <2>4, <2>5, <2>6, <2>7, <2>8, <2>9, <2>10 DEF Process
<1> QED BY <1>2, <1>3, <1>4 DEF Next

LEMMA TypeStep == TypeOK /\ Busy /\ [Next]_vars => TypeOK'
<1> SUFFICES ASSUME TypeOK, Busy, [Next]_vars PROVE TypeOK'
  OBVIOUS
<1> USE ContentFacts DEF Steps
<1>0. CASE UNCHANGED vars
  BY <1>0 DEF vars, TypeOK, files, call, seen
<1>1. ASSUME NEW f \in Files, NEW c \in Hands \cup {Missing}, Edit(f, c) PROVE TypeOK'
  BY <1>1 DEF Edit, TypeOK, call, seen, Contents
<1>2. ASSUME NEW p \in Procs, Process(p) PROVE TypeOK'
  <2>1. CASE Start(p)
    <3>1. pc' \in [Procs -> Steps]
      BY <2>1 DEF Start, TypeOK
    <3>2. entry' \in [Procs -> {"generate", "compose", "tui"}] /\ tty' \in [Procs -> BOOLEAN]
      <4>1. PICK e \in Entries :
              /\ entry' = [entry EXCEPT ![p] = e]
              /\ \E t \in (IF e = "tui" THEN {TRUE} ELSE BOOLEAN) : tty' = [tty EXCEPT ![p] = t]
        BY <2>1 DEF Start
      <4>2. PICK t \in BOOLEAN : tty' = [tty EXCEPT ![p] = t]
        BY <4>1
      <4> QED BY <4>1, <4>2, EntriesAreCommands DEF TypeOK
    <3>3. sel' \in [Procs -> Selections] /\ stack' \in [Procs -> BOOLEAN]
      BY <2>1 DEF Start, TypeOK
    <3>4. choice' \in [Procs -> Choices] /\ flag' \in [Procs -> Choices]
      BY <2>1, DecisionsAreChoices DEF Start, TypeOK
    <3>5. outcome' \in [Procs -> {"none", "ok", "conflict", "error", "killed"}]
      BY <2>1 DEF Start, TypeOK
    <3> QED BY <2>1, <3>1, <3>2, <3>3, <3>4, <3>5 DEF Start, TypeOK, files, seen
  <2>2. ASSUME NEW s \in Selections, Reselect(p, s) PROVE TypeOK'
    BY <2>2, ZenonT(30) DEF Reselect, TypeOK, files, seen
  <2>3. CASE ReviewCompose(p)
    BY <2>3, ShowType DEF ReviewCompose
  <2>4. CASE AskCompose(p)
    BY <2>4, ShowType DEF AskCompose
  <2>5. CASE AskPlain(p)
    <3>1. PICK i \in DOMAIN Plain : FirstConflict(p, i) /\ Show(p, Plain[i])
      BY <2>5 DEF AskPlain
    <3>2. Plain[i] \in Files
      BY DEF Files
    <3> QED BY <2>5, <3>1, <3>2, ShowType DEF AskPlain
  <2>6. CASE Run(p) \/ Dismiss(p) \/ ComposeResolved(p) \/ PlainResolved(p)
    <3>0. pc \in [Procs -> Steps]
      BY DEF TypeOK
    <3>1. pc' \in [Procs -> Steps]
      BY <2>6, <3>0 DEF Run, Dismiss, ComposeResolved, PlainResolved, AfterCompose
    <3>2. UNCHANGED <<files, call, choice, asked, seen, pair, buf, outcome, shown>>
      BY <2>6 DEF Run, Dismiss, ComposeResolved, PlainResolved
    <3> QED BY <3>1, <3>2 DEF TypeOK, files, call, seen
  <2>7. ASSUME NEW c \in {"keep", "replace"}, Accept(p, c) \/ Answer(p, c) PROVE TypeOK'
    <3>0. pc \in [Procs -> Steps] /\ choice \in [Procs -> Choices]
      BY DEF TypeOK
    <3>1. pc' \in [Procs -> Steps] /\ choice' \in [Procs -> Choices]
      BY <2>7, <3>0 DEF Accept, Answer, Choices
    <3>2. UNCHANGED <<files, call, asked, seen, pair, buf, outcome, shown>>
      BY <2>7 DEF Accept, Answer
    <3> QED BY <3>1, <3>2 DEF TypeOK, files, call, seen
  <2>8. CASE RefuseCompose(p) \/ RefusePlain(p) \/ GiveUp(p) \/ Finish(p) \/ Kill(p)
    BY <2>8, EndType DEF RefuseCompose, RefusePlain, GiveUp, Finish, Kill
  <2>9. ASSUME NEW f \in Files, Conflict(p, f) PROVE TypeOK'
    BY <2>9, EndType DEF Conflict
  <2>10. CASE Inspect(p)
    <3>1. todo' \in [Procs -> Seq(Files)]
      <4>0. Plain \o <<>> \in Seq(Files)
        OBVIOUS
      <4>1. Plain \o (IF stack[p] THEN <<Compose>> ELSE <<>>) \in Seq(Files)
        <5>1. CASE stack[p]
          BY <5>1
        <5>2. CASE ~stack[p]
          BY <4>0, <5>2
        <5> QED BY <5>1, <5>2
      <4> QED BY <2>10, <4>1 DEF Inspect, TypeOK
    <3>2. review' \in [Procs -> [Files -> Contents \cup {Missing, Unread}]]
      BY <2>10 DEF Inspect, TypeOK
    <3>3. changed' \in [Procs -> SUBSET Files]
      BY <2>10 DEF Inspect, TypeOK
    <3> QED BY <2>10, <3>1, <3>2, <3>3 DEF Inspect, TypeOK, files, call
  <2>11. CASE InspectCompose(p)
    <3>1. review' \in [Procs -> [Files -> Contents \cup {Missing, Unread}]]
      BY <2>11, ZenonT(30) DEF InspectCompose, TypeOK
    <3>2. changed' \in [Procs -> SUBSET Files]
      BY <2>11 DEF InspectCompose, TypeOK
    <3> QED BY <2>11, <3>1, <3>2 DEF InspectCompose, TypeOK, call
  <2>12. ASSUME NEW f \in Files, Write(p, f) PROVE TypeOK'
    <3>1. sel[p] \in Selections /\ <<sel[p], sel[p]>> \in Pairs
      BY DEF TypeOK, Pairs, Contents
    <3> QED BY <2>12, <3>1 DEF Write, TypeOK, call, seen
  <2>13. ASSUME NEW f \in Files, Keep(p, f) PROVE TypeOK'
    <3>a. review \in [Procs -> [Files -> Contents \cup {Missing, Unread}]]
      BY DEF TypeOK
    <3>b. review[p] \in [Files -> Contents \cup {Missing, Unread}]
      BY <3>a
    <3>0. review[p][f] \in Contents \cup {Missing, Unread}
      BY <3>b, Zenon
    <3>1. review[p][f] \in Contents
      BY <2>13, <3>0 DEF Keep, Turn, Replaceable
    <3>2. <<review[p][f], sel[p]>> \in Pairs
      BY <3>1 DEF TypeOK, Pairs
    <3> QED BY <2>13, <3>2 DEF Keep, TypeOK, files, call, seen
  <2>14. ASSUME NEW f \in Files, Unchanged(p, f) PROVE TypeOK'
    <3>0. todo[p] \in Seq(Files) /\ todo[p] # <<>>
      BY <2>14 DEF Unchanged, Turn, TypeOK
    <3>1. Tail(todo[p]) \in Seq(Files)
      BY <3>0
    <3> QED BY <2>14, <3>1 DEF Unchanged, TypeOK, files, call
  <2>15. CASE ReadLedger(p)
    BY <2>15 DEF ReadLedger, TypeOK, files, call, seen
  <2>16. CASE WriteLedger(p)
    <3>1. todo[p] \in Seq(Files) /\ todo[p] # <<>>
      BY <2>16 DEF WriteLedger, Busy, TypeOK
    <3>2. Tail(todo[p]) \in Seq(Files) /\ Head(todo[p]) \in Files
      BY <3>1
    <3>3. ledger' \in Ledgers
      BY <2>16, <3>2, ApproveType DEF WriteLedger, TypeOK
    <3>4. todo' \in [Procs -> Seq(Files)]
      BY <2>16, <3>2 DEF WriteLedger, TypeOK
    <3> QED BY <2>16, <3>3, <3>4 DEF WriteLedger, TypeOK, call
  <2> QED BY <1>2, <2>1, <2>2, <2>3, <2>4, <2>5, <2>6, <2>7, <2>8, <2>9, <2>10, <2>11,
             <2>12, <2>13, <2>14, <2>15, <2>16 DEF Process
<1> QED BY <1>0, <1>1, <1>2 DEF Next

\* Every variable of the review stays in its type.
THEOREM TypeCorrect == Spec => []TypeOK
<1>1. TypeOK /\ Busy /\ [Next]_vars => (TypeOK /\ Busy)'
  BY TypeStep, BusyStep
<1> QED BY <1>1, InitType, PTL DEF Spec

-----------------------------------------------------------------------------
\* While a launcher is materializing, a file its inspection found missing has
\* at most been written by other launchers since.
Fresh == \A p \in Procs, f \in Files :
            pc[p] \in {"apply", "approve", "record"} /\ review[p][f] = Missing
            => disk[f] \notin Hands

LEMMA FreshStep ==
    ASSUME EditableAt \cap {"apply", "approve", "record"} = {}
    PROVE  TypeOK /\ Fresh /\ [Next]_vars => Fresh'
<1> SUFFICES ASSUME TypeOK, Fresh, [Next]_vars, NEW q \in Procs, NEW g \in Files,
                    pc'[q] \in {"apply", "approve", "record"}, review'[q][g] = Missing
             PROVE  disk'[g] \notin Hands
  BY DEF Fresh
<1>0. /\ pc \in [Procs -> Steps]
      /\ disk \in [Files -> Contents \cup {Missing}]
      /\ review \in [Procs -> [Files -> Contents \cup {Missing, Unread}]]
      /\ sel \in [Procs -> Selections]
  BY DEF TypeOK
<1>m. Missing \notin Hands /\ Unread # Missing
  BY MarkersAreNoContents DEF Contents
<1>1. pc[q] \in {"apply", "approve", "record"} /\ review'[q] = review[q]
      /\ (disk'[g] = disk[g] \/ disk'[g] \in Selections) => disk'[g] \notin Hands
  BY HandsAreNotRendered DEF Fresh
<1>2. CASE UNCHANGED vars
  BY <1>1, <1>2 DEF vars, files, seen
<1>3. ASSUME NEW f \in Files, NEW c \in Hands \cup {Missing}, Edit(f, c)
      PROVE  disk'[g] \notin Hands
  BY <1>3 DEF Edit
<1>4. ASSUME NEW p \in Procs, Process(p) PROVE disk'[g] \notin Hands
  <2>1. CASE Start(p) \/ ReviewCompose(p) \/ Run(p) \/ Dismiss(p) \/ AskCompose(p)
             \/ ComposeResolved(p) \/ AskPlain(p) \/ PlainResolved(p)
    BY <1>0, <1>1, <2>1 DEF Start, ReviewCompose, Run, Dismiss, AskCompose, ComposeResolved,
       AskPlain, PlainResolved, Show, AfterCompose, seen, files
  <2>2. CASE RefuseCompose(p) \/ RefusePlain(p) \/ GiveUp(p) \/ Finish(p) \/ Kill(p)
    BY <1>0, <1>1, <2>2 DEF RefuseCompose, RefusePlain, GiveUp, Finish, Kill, End, files
  <2>3. CASE Inspect(p)
    <3>1. CASE q = p
      <4>1. g = Compose => review'[q][g] = Unread
        BY <1>0, <2>3, <3>1 DEF Inspect
      <4>2. g # Compose => review'[q][g] = disk[g]
        BY <1>0, <2>3, <3>1 DEF Inspect
      <4> QED BY <4>1, <4>2, <1>m, <2>3 DEF Inspect, files
    <3>2. CASE q # p
      BY <1>0, <1>1, <2>3, <3>2 DEF Inspect, files
    <3> QED BY <3>1, <3>2
  <2>4. CASE InspectCompose(p)
    <3>1. CASE q = p /\ g = Compose
      BY <1>0, <1>m, <2>4, <3>1 DEF InspectCompose
    <3>2. CASE ~(q = p /\ g = Compose)
      <4>1. review'[q][g] = review[q][g] /\ pc'[q] = pc[q] /\ disk' = disk
        BY <1>0, <2>4, <3>2 DEF InspectCompose
      <4> QED BY <4>1 DEF Fresh
    <3> QED BY <3>1, <3>2
  <2>5. CASE ReadLedger(p) \/ WriteLedger(p)
    BY <1>0, <1>1, <2>5 DEF ReadLedger, WriteLedger, seen, files
  <2>6. ASSUME NEW s \in Selections, Reselect(p, s) PROVE disk'[g] \notin Hands
    BY <1>0, <1>1, <2>6 DEF Reselect, seen, files
  <2>7. ASSUME NEW c \in {"keep", "replace"}, Accept(p, c) \/ Answer(p, c)
        PROVE  disk'[g] \notin Hands
    BY <1>0, <1>1, <2>7 DEF Accept, Answer, seen, files
  <2>8. ASSUME NEW f \in Files, Write(p, f) PROVE disk'[g] \notin Hands
    <3>1. disk'[g] = disk[g] \/ disk'[g] \in Selections
      BY <1>0, <2>8 DEF Write
    <3>2. pc[q] \in {"apply", "approve", "record"} /\ review'[q] = review[q]
      BY <1>0, <2>8 DEF Write, seen
    <3> QED BY <1>1, <3>1, <3>2
  <2>9. ASSUME NEW f \in Files, Keep(p, f) \/ Unchanged(p, f) PROVE disk'[g] \notin Hands
    BY <1>0, <1>1, <2>9 DEF Keep, Unchanged, seen, files
  <2>10. ASSUME NEW f \in Files, Conflict(p, f) PROVE disk'[g] \notin Hands
    BY <1>0, <1>1, <2>10 DEF Conflict, End, files
  <2> QED BY <1>4, <2>1, <2>2, <2>3, <2>4, <2>5, <2>6, <2>7, <2>8, <2>9, <2>10 DEF Process
<1> QED BY <1>2, <1>3, <1>4 DEF Next

\* A step that replaces hand-written bytes is a Write of a launcher whose
\* decision is to replace.
LEMMA OnlyReplaceReplaces ==
    ASSUME TypeOK, Fresh, [Next]_vars, NEW p \in Procs, NEW f \in Files,
           Replaces(p, f), disk[f] \in Hands
    PROVE  choice[p] = "replace"
<1>0. pc \in [Procs -> Steps] /\ disk \in [Files -> Contents \cup {Missing}]
      /\ pc[p] = "apply" /\ pc'[p] = "approve" /\ disk'[f] # disk[f]
  BY DEF TypeOK, Replaces
<1>1. ~UNCHANGED vars
  BY <1>0 DEF vars
<1>2. ASSUME NEW g \in Files, NEW c \in Hands \cup {Missing}, Edit(g, c) PROVE FALSE
  BY <1>0, <1>2 DEF Edit
<1>3. ASSUME NEW q \in Procs, Process(q) PROVE choice[p] = "replace"
  <2>1. ASSUME NEW g \in Files, Write(q, g) PROVE choice[p] = "replace"
    <3>1. q = p /\ g = f
      BY <1>0, <2>1 DEF Write
    <3>2. review[p][f] # Missing
      BY <1>0 DEF Fresh
    <3> QED BY <2>1, <3>1, <3>2 DEF Write, Replaceable
  <2>2. ASSUME ~\E g \in Files : Write(q, g) PROVE disk' = disk
    BY <1>3, <2>2 DEF Process, Start, ReviewCompose, Run, Dismiss, AskCompose, RefuseCompose,
       ComposeResolved, AskPlain, RefusePlain, PlainResolved, GiveUp, Inspect,
       InspectCompose, ReadLedger, WriteLedger, Finish, Kill, Reselect, Accept, Answer,
       Keep, Unchanged, Conflict, Show, files
  <2> QED BY <1>0, <2>1, <2>2
<1> QED BY <1>1, <1>2, <1>3 DEF Next

\* As long as nobody writes a project file between a launcher's inspection and
\* its last write, hand-written bytes are only replaced by a launcher told to.
THEOREM HandEditsAreSafe ==
    ASSUME EditableAt \cap {"apply", "approve", "record"} = {}
    PROVE  Spec => HandEditsSurvive
<1> DEFINE Inv == TypeOK /\ Busy /\ Fresh
<1>1. Init => Inv
  BY InitType DEF Init, Fresh
<1>2. Inv /\ [Next]_vars => Inv'
  BY TypeStep, BusyStep, FreshStep
<1>3. Inv /\ [Next]_vars =>
        [\A p \in Procs, f \in Files :
            Replaces(p, f) /\ disk[f] \in Hands => choice[p] = "replace"]_vars
  BY OnlyReplaceReplaces
<1> QED BY <1>1, <1>2, <1>3, PTL DEF Spec, HandEditsSurvive

-----------------------------------------------------------------------------
(***************************************************************************)
(* A launcher alone. While it materializes the files, each one it is done  *)
(* with is as rendered or approved as it is, each one still to do is what  *)
(* the inspection found, and the approval it is about to record is of the  *)
(* bytes on disk.                                                          *)
(***************************************************************************)
Alone == \A p, q \in Procs : p = q
Working == {"apply", "approve", "record"}

Todo(p) == {todo[p][i] : i \in DOMAIN todo[p]}
Done(p, f) == disk[f] # Missing /\ ~InConflict(f, sel[p])
Inspected(p, f) == review[p][f] = disk[f] /\ (f \in changed[p] <=> InConflict(f, sel[p]))

Recording(p) ==
    LET f == Head(todo[p]) IN
    /\ todo[p] # <<>> /\ review[p][f] # Unread
    /\ disk[f] # Missing /\ pair[p] = <<disk[f], sel[p]>>
Materializing(p) ==
    /\ \A i, j \in DOMAIN todo[p] : todo[p][i] = todo[p][j] => i = j
    /\ \A f \in Scope(p) \ Todo(p) : Done(p, f)
    /\ \A f \in Todo(p) :
          review[p][f] # Unread /\ (f = Head(todo[p]) => pc[p] = "apply") => Inspected(p, f)
    /\ stack[p] => policy = sel[p] \/ (Compose \in Todo(p) /\ review[p][Compose] = Unread)
    /\ review[p][Compose] = Unread => Compose \notin changed[p]
    /\ pc[p] \in {"approve", "record"} => Recording(p)
    /\ pc[p] = "record" => buf[p] = ledger
AloneInv == \A p \in Procs : pc[p] \in Working => Materializing(p)

\* The rest of a list without repetitions has all of its files but the first.
LEMMA TailFiles ==
  ASSUME NEW s \in Seq(Files), s # <<>>,
         \A i, j \in DOMAIN s : s[i] = s[j] => i = j
  PROVE  /\ \A i, j \in DOMAIN Tail(s) : Tail(s)[i] = Tail(s)[j] => i = j
         /\ {Tail(s)[i] : i \in DOMAIN Tail(s)} = {s[i] : i \in DOMAIN s} \ {Head(s)}
         /\ Head(s) \in {s[i] : i \in DOMAIN s} /\ Head(s) \in Files
<1>1. /\ Len(s) \in Nat \ {0} /\ DOMAIN s = 1..Len(s) /\ Head(s) = s[1]
      /\ Tail(s) \in Seq(Files) /\ Len(Tail(s)) = Len(s) - 1
      /\ \A i \in 1..(Len(s) - 1) : Tail(s)[i] = s[i + 1]
  OBVIOUS
<1>2. DOMAIN Tail(s) = 1..(Len(s) - 1)
  BY <1>1
<1> DEFINE t == Tail(s)  n == Len(s)
<1> HIDE DEF t, n
<1>3. /\ n \in Nat \ {0} /\ DOMAIN s = 1..n /\ DOMAIN t = 1..(n - 1)
      /\ \A i \in 1..(n - 1) : t[i] = s[i + 1]
  BY <1>1, <1>2 DEF t, n
<1>4. \A i, j \in DOMAIN t : t[i] = t[j] => i = j
  BY <1>3, SMTT(30)
<1>5. {t[i] : i \in DOMAIN t} \subseteq {s[i] : i \in DOMAIN s} \ {s[1]}
  BY <1>3
<1>6. \A i \in DOMAIN s : s[i] # s[1] => i - 1 \in DOMAIN t /\ s[i] = t[i - 1]
  BY <1>3
<1>7. {s[i] : i \in DOMAIN s} \ {s[1]} \subseteq {t[i] : i \in DOMAIN t}
  BY <1>6
<1>8. s[1] \in {s[i] : i \in DOMAIN s} /\ s[1] \in Files
  BY <1>1
<1> QED
  BY <1>1, <1>4, <1>5, <1>7, <1>8 DEF t

\* A launcher starts with every file in its scope to do.
LEMMA AllFiles ==
  ASSUME NEW last \in {<<>>, <<Compose>>}
  PROVE  LET s == Plain \o last
         IN  /\ \A i, j \in DOMAIN s : s[i] = s[j] => i = j
             /\ {s[i] : i \in DOMAIN s} = (Files \ {Compose}) \cup {c \in {Compose} : last # <<>>}
<1>1. /\ Len(Plain) \in Nat /\ DOMAIN Plain = 1..Len(Plain)
      /\ \A i \in 1..Len(Plain) : Plain[i] \in Files \ {Compose}
  BY PlainIsASequence
<1>2. Files \ {Compose} = {Plain[i] : i \in DOMAIN Plain}
  BY <1>1 DEF Files
<1>3. CASE last = <<>>
  <2>1. Plain \o last = Plain
    BY <1>3, PlainIsASequence
  <2> QED
    BY <1>2, <1>3, <2>1, PlainNamesDiffer
<1>4. CASE last = <<Compose>>
  <2> DEFINE s == Plain \o <<Compose>>
             n == Len(Plain)
  <2>1. /\ Len(s) = n + 1 /\ DOMAIN s = 1..(n + 1) /\ s[n + 1] = Compose
        /\ \A i \in 1..n : s[i] = Plain[i]
    BY PlainIsASequence
  <2> HIDE DEF s, n
  <2>2. n \in Nat /\ DOMAIN Plain = 1..n /\ \A i \in 1..n : Plain[i] \in Files \ {Compose}
    BY <1>1 DEF n
  <2>3. \A i, j \in DOMAIN s : s[i] = s[j] => i = j
    BY <2>1, <2>2, PlainNamesDiffer
  <2>4. {s[i] : i \in DOMAIN s} = {Plain[i] : i \in DOMAIN Plain} \cup {Compose}
    <3>1. \A i \in DOMAIN s : s[i] = Compose \/ (i \in DOMAIN Plain /\ s[i] = Plain[i])
      BY <2>1, <2>2
    <3>2. \A i \in DOMAIN Plain : i \in DOMAIN s /\ s[i] = Plain[i]
      BY <2>1, <2>2
    <3>3. n + 1 \in DOMAIN s
      BY <2>1, <2>2
    <3> QED
      BY <2>1, <3>1, <3>2, <3>3
  <2>5. last # <<>>
    BY <1>4
  <2> QED
    BY <1>2, <1>4, <2>3, <2>4, <2>5 DEF s
<1> QED
  BY <1>3, <1>4

\* Approving a file as it is settles it, and nothing else.
LEMMA ApproveSettles ==
  ASSUME NEW l \in Ledgers, NEW f \in Files, NEW r \in Pairs
  PROVE  /\ Approval(Approve(l, f, r), f) = r
         /\ \A g \in Files \ {f} : Approval(Approve(l, f, r), g) = Approval(l, g)
<1>1. r # NoApproval
  BY MarkersAreNoContents
<1> QED
  BY <1>1 DEF Approval, Approve

LEMMA InspectStep ==
  ASSUME TypeOK, NEW p \in Procs, Inspect(p)
  PROVE  Materializing(p)'
<1> DEFINE last == IF stack[p] THEN <<Compose>> ELSE <<>>
<1>1. last \in {<<>>, <<Compose>>} /\ (last # <<>> <=> stack[p])
  OBVIOUS
<1>2. /\ todo'[p] = Plain \o last /\ pc'[p] = "apply"
      /\ disk' = disk /\ ledger' = ledger /\ sel' = sel /\ stack' = stack
      /\ \A f \in Files : review'[p][f] = IF f = Compose THEN Unread ELSE disk[f]
      /\ changed'[p] = {f \in Files \ {Compose} : InConflict(f, sel[p])}
  BY DEF Inspect, TypeOK, files, call
<1> HIDE DEF last
<1>3. /\ \A i, j \in DOMAIN todo'[p] : todo'[p][i] = todo'[p][j] => i = j
      /\ Todo(p)' = (Files \ {Compose}) \cup {c \in {Compose} : stack[p]}
  <2> DEFINE s == Plain \o last
  <2>1. /\ \A i, j \in DOMAIN s : s[i] = s[j] => i = j
        /\ {s[i] : i \in DOMAIN s} = (Files \ {Compose}) \cup {c \in {Compose} : last # <<>>}
    BY <1>1, AllFiles
  <2>2. Todo(p)' = {todo'[p][i] : i \in DOMAIN todo'[p]}
    BY DEF Todo
  <2>3. todo'[p] = s
    BY <1>2
  <2> HIDE DEF s
  <2>4. \A i, j \in DOMAIN todo'[p] : todo'[p][i] = todo'[p][j] => i = j
    BY <2>1, <2>3
  <2>5. {c \in {Compose} : last # <<>>} = {c \in {Compose} : stack[p]}
    BY <1>1
  <2> QED
    BY <2>1, <2>2, <2>3, <2>4, <2>5
<1>4. Scope(p)' = Todo(p)'
  BY <1>2, <1>3, ContentFacts DEF Scope
<1>5. \A f \in Files : InConflict(f, sel[p])' <=> InConflict(f, sel[p])
  BY <1>2 DEF InConflict
<1>6. \A f \in Files \ {Compose} : Inspected(p, f)'
  BY <1>2, <1>5 DEF Inspected
<1>7. review'[p][Compose] = Unread /\ Compose \notin changed'[p]
  BY <1>2, ContentFacts
<1>8. \A f \in Todo(p)' : review'[p][f] # Unread => Inspected(p, f)'
  BY <1>3, <1>6, <1>7
<1>9. stack'[p] => Compose \in Todo(p)'
  BY <1>2, <1>3
<1> QED
  BY <1>2, <1>3, <1>4, <1>7, <1>8, <1>9 DEF Materializing

LEMMA InspectComposeStep ==
  ASSUME TypeOK, NEW p \in Procs, Materializing(p), InspectCompose(p)
  PROVE  Materializing(p)'
<1>1. /\ todo' = todo /\ pc'[p] = "apply" /\ pc[p] = "apply"
      /\ disk' = disk /\ ledger' = ledger /\ sel' = sel /\ stack' = stack
      /\ \A f \in Files : review'[p][f] = IF f = Compose THEN disk[f] ELSE review[p][f]
      /\ changed'[p] = changed[p] \cup {f \in {Compose} : InConflict(f, sel[p])}
      /\ policy' = sel[p] /\ review[p][Compose] = Unread
  BY DEF InspectCompose, TypeOK, call
<1>2. \A f \in Files : /\ InConflict(f, sel[p])' <=> InConflict(f, sel[p])
                       /\ Done(p, f)' <=> Done(p, f)
  BY <1>1 DEF InConflict, Done
<1>3. Compose \notin changed[p] /\ Compose \in Files /\ disk[Compose] # Unread
  BY <1>1, ContentFacts, MarkersAreNoContents DEF Materializing, TypeOK
<1>4. Inspected(p, Compose)'
  BY <1>1, <1>2, <1>3 DEF Inspected
<1>5. \A f \in Files \ {Compose} : Inspected(p, f) => Inspected(p, f)'
  BY <1>1, <1>2 DEF Inspected
<1>6. Todo(p)' = Todo(p) /\ Scope(p)' = Scope(p) /\ Todo(p) \subseteq Files /\ Scope(p) \subseteq Files
  <2>1. Todo(p) \subseteq Files
    BY DEF Todo, TypeOK
  <2> QED
    BY <1>1, <2>1 DEF Todo, Scope
<1>7. \A f \in Todo(p) : review'[p][f] # Unread => Inspected(p, f)'
  <2> SUFFICES ASSUME NEW f \in Todo(p), review'[p][f] # Unread, f # Compose PROVE Inspected(p, f)'
    BY <1>4
  <2>1. f \in Files /\ review[p][f] # Unread
    BY <1>1, <1>6
  <2>2. Inspected(p, f)
    BY <1>1, <2>1 DEF Materializing
  <2> QED
    BY <1>5, <2>1, <2>2
<1>8. review'[p][Compose] # Unread
  BY <1>1, <1>3
<1>9. \A f \in Scope(p) \ Todo(p) : Done(p, f)'
  BY <1>2, <1>6 DEF Materializing
<1> QED
  BY <1>1, <1>6, <1>7, <1>8, <1>9 DEF Materializing

LEMMA WriteStep ==
  ASSUME TypeOK, NEW p \in Procs, Materializing(p), NEW f \in Files, Write(p, f)
  PROVE  Materializing(p)'
<1>1. /\ todo' = todo /\ review' = review /\ changed' = changed /\ pc'[p] = "approve"
      /\ pc[p] = "apply" /\ ledger' = ledger /\ policy' = policy /\ sel' = sel /\ stack' = stack
      /\ todo[p] # <<>> /\ f = Head(todo[p]) /\ review[p][f] # Unread
      /\ disk'[f] = sel[p] /\ \A g \in Files \ {f} : disk'[g] = disk[g]
      /\ pair'[p] = <<sel[p], sel[p]>>
  BY DEF Write, Turn, TypeOK, call, seen
<1>2. sel[p] # Missing
  BY MarkersAreNoContents, ContentFacts DEF TypeOK
<1>3. \A g \in Files \ {f} : /\ InConflict(g, sel[p])' <=> InConflict(g, sel[p])
                             /\ Done(p, g)' <=> Done(p, g)
                             /\ Inspected(p, g)' <=> Inspected(p, g)
  BY <1>1 DEF InConflict, Done, Inspected
<1>4. Recording(p)'
  BY <1>1, <1>2 DEF Recording
<1>5. /\ Todo(p)' = Todo(p) /\ Scope(p)' = Scope(p) /\ f \in Todo(p)
      /\ Todo(p) \subseteq Files /\ Scope(p) \subseteq Files
  <2>1. todo[p] \in Seq(Files) /\ \A i, j \in DOMAIN todo[p] : todo[p][i] = todo[p][j] => i = j
    BY DEF TypeOK, Materializing
  <2>2. f \in Todo(p)
    BY <1>1, <2>1, TailFiles DEF Todo
  <2> QED
    BY <1>1, <2>1, <2>2 DEF Todo, Scope
<1>6. \A g \in Scope(p) \ Todo(p) : Done(p, g)'
  BY <1>3, <1>5 DEF Materializing
<1>7. \A g \in Todo(p) : g # f /\ review[p][g] # Unread => Inspected(p, g)'
  BY <1>1, <1>3, <1>5 DEF Materializing
<1> QED
  BY <1>1, <1>4, <1>5, <1>6, <1>7 DEF Materializing

LEMMA KeepStep ==
  ASSUME TypeOK, NEW p \in Procs, Materializing(p), NEW f \in Files, Keep(p, f)
  PROVE  Materializing(p)'
<1>1. /\ todo' = todo /\ review' = review /\ changed' = changed /\ pc'[p] = "approve"
      /\ pc[p] = "apply" /\ ledger' = ledger /\ policy' = policy /\ sel' = sel /\ stack' = stack
      /\ disk' = disk
      /\ todo[p] # <<>> /\ f = Head(todo[p]) /\ review[p][f] # Unread /\ review[p][f] # Missing
      /\ pair'[p] = <<review[p][f], sel[p]>>
  BY DEF Keep, Turn, Replaceable, TypeOK, call, seen, files
<1>2. \A g \in Files : /\ Done(p, g)' <=> Done(p, g)
                       /\ Inspected(p, g)' <=> Inspected(p, g)
  BY <1>1 DEF InConflict, Done, Inspected
<1>3. /\ Todo(p)' = Todo(p) /\ Scope(p)' = Scope(p) /\ f \in Todo(p)
      /\ Todo(p) \subseteq Files /\ Scope(p) \subseteq Files
  <2>1. todo[p] \in Seq(Files) /\ \A i, j \in DOMAIN todo[p] : todo[p][i] = todo[p][j] => i = j
    BY DEF TypeOK, Materializing
  <2>2. f \in Todo(p)
    BY <1>1, <2>1, TailFiles DEF Todo
  <2> QED
    BY <1>1, <2>1, <2>2 DEF Todo, Scope
<1>4. review[p][f] = disk[f]
  BY <1>1, <1>3 DEF Materializing, Inspected
<1>5. Recording(p)'
  BY <1>1, <1>4 DEF Recording
<1>6. \A g \in Scope(p) \ Todo(p) : Done(p, g)'
  BY <1>2, <1>3 DEF Materializing
<1>7. \A g \in Todo(p) : g # f /\ review[p][g] # Unread => Inspected(p, g)'
  BY <1>1, <1>2, <1>3 DEF Materializing
<1> QED
  BY <1>1, <1>3, <1>5, <1>6, <1>7 DEF Materializing

LEMMA TodoAdvances ==
  ASSUME NEW p, todo[p] \in Seq(Files), todo[p] # <<>>, todo'[p] = Tail(todo[p]),
         \A i, j \in DOMAIN todo[p] : todo[p][i] = todo[p][j] => i = j
  PROVE  /\ \A i, j \in DOMAIN todo'[p] : todo'[p][i] = todo'[p][j] => i = j
         /\ Todo(p)' = Todo(p) \ {Head(todo[p])} /\ Head(todo[p]) \in Todo(p)
<1>1. /\ \A i, j \in DOMAIN Tail(todo[p]) : Tail(todo[p])[i] = Tail(todo[p])[j] => i = j
      /\ {Tail(todo[p])[i] : i \in DOMAIN Tail(todo[p])}
            = {todo[p][i] : i \in DOMAIN todo[p]} \ {Head(todo[p])}
      /\ Head(todo[p]) \in {todo[p][i] : i \in DOMAIN todo[p]}
  BY TailFiles
<1>2. Todo(p)' = {Tail(todo[p])[i] : i \in DOMAIN Tail(todo[p])}
  BY DEF Todo
<1>3. \A i, j \in DOMAIN todo'[p] : todo'[p][i] = todo'[p][j] => i = j
  BY <1>1
<1> QED
  BY <1>1, <1>2, <1>3 DEF Todo

LEMMA UnchangedStep ==
  ASSUME TypeOK, NEW p \in Procs, Materializing(p), NEW f \in Files, Unchanged(p, f)
  PROVE  Materializing(p)'
<1>1. /\ todo'[p] = Tail(todo[p]) /\ review' = review /\ changed' = changed /\ pc'[p] = "apply"
      /\ pc[p] = "apply" /\ disk' = disk /\ ledger' = ledger /\ policy' = policy /\ sel' = sel
      /\ stack' = stack
      /\ todo[p] # <<>> /\ f = Head(todo[p]) /\ review[p][f] # Unread /\ review[p][f] # Missing
      /\ f \notin changed[p]
  BY DEF Unchanged, Turn, Replaceable, TypeOK, call, files
<1>2. \A g \in Files : /\ Done(p, g)' <=> Done(p, g)
                       /\ Inspected(p, g)' <=> Inspected(p, g)
  BY <1>1 DEF InConflict, Done, Inspected
<1>3. todo[p] \in Seq(Files) /\ \A i, j \in DOMAIN todo[p] : todo[p][i] = todo[p][j] => i = j
  BY DEF TypeOK, Materializing
<1>4. /\ \A i, j \in DOMAIN todo'[p] : todo'[p][i] = todo'[p][j] => i = j
      /\ Todo(p)' = Todo(p) \ {f} /\ f \in Todo(p)
  BY <1>1, <1>3, TodoAdvances
<1>0. Todo(p) \subseteq Files /\ Scope(p)' = Scope(p) /\ Scope(p) \subseteq Files
  BY <1>1, <1>3 DEF Todo, Scope
<1>5. Done(p, f)
  <2>1. Inspected(p, f)
    BY <1>1, <1>0, <1>4 DEF Materializing
  <2> QED
    BY <1>1, <2>1 DEF Inspected, Done
<1>6. \A g \in Scope(p) \ Todo(p)' : Done(p, g)'
  BY <1>2, <1>0, <1>4, <1>5 DEF Materializing
<1>7. \A g \in Todo(p)' : review[p][g] # Unread => Inspected(p, g)'
  BY <1>1, <1>2, <1>0, <1>4 DEF Materializing
<1>8. stack[p] => policy = sel[p] \/ (Compose \in Todo(p)' /\ review[p][Compose] = Unread)
  BY <1>1, <1>0, <1>4 DEF Materializing
<1> QED
  BY <1>1, <1>0, <1>4, <1>6, <1>7, <1>8 DEF Materializing

LEMMA WriteLedgerStep ==
  ASSUME TypeOK, NEW p \in Procs, Materializing(p), WriteLedger(p)
  PROVE  Materializing(p)'
<1> PICK f : f = Head(todo[p])
  OBVIOUS
<1>1. /\ todo'[p] = Tail(todo[p]) /\ review' = review /\ changed' = changed /\ pc'[p] = "apply"
      /\ pc[p] = "record" /\ disk' = disk /\ policy' = policy /\ sel' = sel /\ stack' = stack
      /\ ledger' = Approve(buf[p], f, pair[p])
  BY DEF WriteLedger, TypeOK, call
<1>2. /\ buf[p] = ledger /\ Recording(p)
      /\ \A i, j \in DOMAIN todo[p] : todo[p][i] = todo[p][j] => i = j
  BY <1>1 DEF Materializing
<1>3. todo[p] # <<>> /\ review[p][f] # Unread /\ disk[f] # Missing /\ pair[p] = <<disk[f], sel[p]>>
  BY <1>2 DEF Recording
<1>4. todo[p] \in Seq(Files) /\ ledger \in Ledgers
  BY DEF TypeOK
<1>5. /\ \A i, j \in DOMAIN todo'[p] : todo'[p][i] = todo'[p][j] => i = j
      /\ Todo(p)' = Todo(p) \ {f} /\ f \in Todo(p) /\ f \in Files
      /\ Todo(p) \subseteq Files /\ Scope(p)' = Scope(p) /\ Scope(p) \subseteq Files
  <2>1. /\ \A i, j \in DOMAIN todo'[p] : todo'[p][i] = todo'[p][j] => i = j
        /\ Todo(p)' = Todo(p) \ {f} /\ f \in Todo(p)
    BY <1>1, <1>2, <1>3, <1>4, TodoAdvances
  <2> QED
    BY <1>1, <1>4, <2>1, SMTT(30) DEF Todo, Scope
<1>6. pair[p] \in Pairs
  BY <1>3, <1>5 DEF TypeOK, Pairs, Contents
<1>7. /\ Approval(ledger', f) = <<disk[f], sel[p]>>
      /\ \A g \in Files \ {f} : Approval(ledger', g) = Approval(ledger, g)
  BY <1>1, <1>2, <1>3, <1>4, <1>5, <1>6, ApproveSettles
<1>8. Done(p, f)'
  BY <1>1, <1>3, <1>7 DEF Done, InConflict
<1>9. \A g \in Files \ {f} : /\ Done(p, g)' <=> Done(p, g)
                             /\ Inspected(p, g)' <=> Inspected(p, g)
  BY <1>1, <1>7 DEF InConflict, Done, Inspected
<1>10. \A g \in Scope(p) \ Todo(p)' : Done(p, g)'
  BY <1>5, <1>8, <1>9 DEF Materializing
<1>11. \A g \in Todo(p)' : review[p][g] # Unread => Inspected(p, g)'
  BY <1>5, <1>9 DEF Materializing
<1>12. stack[p] => policy = sel[p] \/ (Compose \in Todo(p)' /\ review[p][Compose] = Unread)
  BY <1>3, <1>5 DEF Materializing
<1>13. review[p][Compose] = Unread => Compose \notin changed[p]
  BY DEF Materializing
<1> QED
  BY <1>1, <1>5, <1>10, <1>11, <1>12, <1>13 DEF Materializing

LEMMA ReadLedgerStep ==
  ASSUME TypeOK, NEW p \in Procs, Materializing(p), ReadLedger(p)
  PROVE  Materializing(p)'
<1>1. /\ todo' = todo /\ review' = review /\ changed' = changed /\ pc'[p] = "record"
      /\ pc[p] = "approve" /\ disk' = disk /\ ledger' = ledger /\ policy' = policy /\ sel' = sel
      /\ stack' = stack /\ pair' = pair /\ buf'[p] = ledger
  BY DEF ReadLedger, TypeOK, call, files, seen
<1>2. \A g \in Files : /\ Done(p, g)' <=> Done(p, g)
                       /\ Inspected(p, g)' <=> Inspected(p, g)
  BY <1>1 DEF InConflict, Done, Inspected
<1>3. Todo(p)' = Todo(p) /\ Scope(p)' = Scope(p) /\ Todo(p) \subseteq Files /\ Scope(p) \subseteq Files
  <2>1. Todo(p) \subseteq Files
    BY DEF Todo, TypeOK
  <2> QED
    BY <1>1, <2>1 DEF Todo, Scope
<1>4. Recording(p)'
  BY <1>1 DEF Materializing, Recording
<1>5. \A g \in Scope(p) \ Todo(p) : Done(p, g)'
  BY <1>2, <1>3 DEF Materializing
<1>6. \A g \in Todo(p) : g # Head(todo[p]) /\ review[p][g] # Unread => Inspected(p, g)'
  BY <1>1, <1>2, <1>3 DEF Materializing
<1> QED
  BY <1>1, <1>3, <1>4, <1>5, <1>6 DEF Materializing

LEMMA AloneStep ==
  ASSUME Alone, EditableAt \cap Working = {}, TypeOK, AloneInv, [Next]_vars
  PROVE  AloneInv'
<1> SUFFICES ASSUME NEW p \in Procs, pc'[p] \in Working PROVE Materializing(p)'
  BY DEF AloneInv
<1>0. pc \in [Procs -> Steps]
  BY DEF TypeOK
<1>1. CASE UNCHANGED vars
  <2>1. Materializing(p)
    BY <1>1 DEF vars, AloneInv
  <2> QED
    BY <1>1, <2>1 DEF vars, files, call, seen, Materializing, Recording, Inspected, Done, InConflict,
       Todo, Scope
<1>2. ASSUME NEW f \in Files, NEW c \in Hands \cup {Missing}, Edit(f, c) PROVE FALSE
  BY <1>2 DEF Edit
<1>3. CASE Process(p)
  <2>1. CASE Inspect(p)
    BY <2>1, InspectStep
  <2>2. CASE InspectCompose(p) \/ ReadLedger(p) \/ WriteLedger(p)
    <3>1. Materializing(p)
      BY <2>2 DEF InspectCompose, ReadLedger, WriteLedger, Working, AloneInv
    <3> QED
      BY <2>2, <3>1, InspectComposeStep, ReadLedgerStep, WriteLedgerStep
  <2>3. ASSUME NEW f \in Files, Write(p, f) \/ Keep(p, f) \/ Unchanged(p, f)
        PROVE  Materializing(p)'
    <3>1. Materializing(p)
      BY <2>3 DEF Write, Keep, Unchanged, Working, AloneInv
    <3> QED
      BY <2>3, <3>1, WriteStep, KeepStep, UnchangedStep
  <2>4. CASE Start(p) \/ ReviewCompose(p) \/ Run(p) \/ Dismiss(p) \/ AskCompose(p)
             \/ ComposeResolved(p) \/ AskPlain(p) \/ PlainResolved(p)
    <3>1. pc'[p] \notin Working
      BY <1>0, <2>4 DEF Start, ReviewCompose, Run, Dismiss, AskCompose, ComposeResolved, AskPlain,
         PlainResolved, AfterCompose, Working
    <3> QED
      BY <3>1
  <2>5. CASE RefuseCompose(p) \/ RefusePlain(p) \/ GiveUp(p) \/ Finish(p) \/ Kill(p)
             \/ \E f \in Files : Conflict(p, f)
    BY <1>0, <2>5 DEF RefuseCompose, RefusePlain, GiveUp, Finish, Kill, Conflict, End, Working
  <2>6. CASE \/ \E s \in Selections : Reselect(p, s)
             \/ \E c \in {"keep", "replace"} : Accept(p, c) \/ Answer(p, c)
    BY <1>0, <2>6 DEF Reselect, Accept, Answer, Working
  <2> QED
    BY <1>3, <2>1, <2>2, <2>3, <2>4, <2>5, <2>6 DEF Process
<1> QED
  BY <1>1, <1>2, <1>3 DEF Next, Alone

\* The invariant of a launcher alone.
ReviewInv == TypeOK /\ Busy /\ AloneInv

LEMMA ReviewInvariant ==
  ASSUME Alone, EditableAt \cap Working = {}
  PROVE  Spec => []ReviewInv
<1>1. Init => ReviewInv
  <2>1. Init => AloneInv
    BY DEF Init, AloneInv, Working
  <2> QED
    BY <2>1, InitType DEF ReviewInv
<1>2. ReviewInv /\ [Next]_vars => ReviewInv'
  BY TypeStep, BusyStep, AloneStep DEF ReviewInv
<1> QED
  BY <1>1, <1>2, PTL DEF Spec

\* A launcher that ends well has finished its list.
LEMMA SuccessIsAFinish ==
  ASSUME TypeOK, [Next]_vars, NEW p \in Procs, Succeeds(p)
  PROVE  pc[p] \in Working /\ todo[p] = <<>>
<1>0. /\ pc \in [Procs -> Steps] /\ pc[p] # "off" /\ pc'[p] = "off" /\ outcome'[p] = "ok"
      /\ outcome \in [Procs -> {"none", "ok", "conflict", "error", "killed"}]
  BY DEF TypeOK, Succeeds
<1>1. ~UNCHANGED vars
  BY <1>0 DEF vars
<1>2. ~\E f \in Files, c \in Hands \cup {Missing} : Edit(f, c)
  BY <1>0 DEF Edit
<1>3. PICK q \in Procs : Process(q)
  BY <1>1, <1>2 DEF Next
<1>4. Finish(p)
  <2>1. CASE Finish(q)
    BY <1>0, <2>1 DEF Finish, End
  <2>2. CASE RefuseCompose(q) \/ RefusePlain(q) \/ GiveUp(q) \/ Kill(q)
             \/ \E f \in Files : Conflict(q, f)
    BY <1>0, <2>2 DEF RefuseCompose, RefusePlain, GiveUp, Kill, Conflict, End
  <2>3. CASE Start(q) \/ ReviewCompose(q) \/ Run(q) \/ Dismiss(q) \/ AskCompose(q)
             \/ ComposeResolved(q) \/ AskPlain(q) \/ PlainResolved(q) \/ Inspect(q)
             \/ InspectCompose(q) \/ ReadLedger(q) \/ WriteLedger(q)
    BY <1>0, <2>3 DEF Start, ReviewCompose, Run, Dismiss, AskCompose, ComposeResolved, AskPlain,
       PlainResolved, AfterCompose, Inspect, InspectCompose, ReadLedger, WriteLedger
  <2>4. CASE \/ \E s \in Selections : Reselect(q, s)
             \/ \E c \in {"keep", "replace"} : Accept(q, c) \/ Answer(q, c)
             \/ \E f \in Files : Write(q, f) \/ Keep(q, f) \/ Unchanged(q, f)
    BY <1>0, <2>4 DEF Reselect, Accept, Answer, Write, Keep, Unchanged
  <2> QED
    BY <1>3, <2>1, <2>2, <2>3, <2>4 DEF Process
<1> QED
  BY <1>4 DEF Finish, Working

\* Of a launcher alone, and an editor that leaves the files alone while it
\* materializes them: after a run that went through, the next one for the same
\* selection asks nothing.
THEOREM DecisionsAreKept ==
  ASSUME Alone, EditableAt \cap Working = {}
  PROVE  Spec => DecisionsHold
<1>1. ReviewInv /\ [Next]_vars =>
        [\A p \in Procs : Succeeds(p) =>
            \A f \in Scope(p) : ~InConflict(f, sel[p]) /\ disk[f] # Missing]_vars
  <2> SUFFICES ASSUME ReviewInv, [Next]_vars, NEW p \in Procs, Succeeds(p), NEW f \in Scope(p)
               PROVE  ~InConflict(f, sel[p]) /\ disk[f] # Missing
    OBVIOUS
  <2>1. Materializing(p) /\ todo[p] = <<>>
    BY SuccessIsAFinish DEF ReviewInv, AloneInv
  <2>2. f \in Scope(p) \ Todo(p)
    BY <2>1 DEF Todo
  <2> QED
    BY <2>1, <2>2 DEF Materializing, Done
<1>2. Spec => [][\A p \in Procs : Succeeds(p) =>
                    \A f \in Scope(p) : ~InConflict(f, sel[p]) /\ disk[f] # Missing]_vars
  BY <1>1, ReviewInvariant, PTL DEF Spec
<1> QED
  BY <1>2 DEF DecisionsHold

\* Of a launcher alone, the ledger it is about to write is the one on disk.
LedgerIsCurrent == \A p \in Procs : pc[p] = "record" => buf[p] = ledger

LEMMA LedgerStep ==
  ASSUME Alone, TypeOK, LedgerIsCurrent, [Next]_vars
  PROVE  LedgerIsCurrent'
<1> SUFFICES ASSUME NEW p \in Procs, pc'[p] = "record" PROVE buf'[p] = ledger'
  BY DEF LedgerIsCurrent
<1>0. pc \in [Procs -> Steps] /\ buf \in [Procs -> Ledgers]
  BY DEF TypeOK
<1>1. CASE UNCHANGED vars
  BY <1>1 DEF vars, files, LedgerIsCurrent
<1>2. ASSUME NEW f \in Files, NEW c \in Hands \cup {Missing}, Edit(f, c)
      PROVE  buf'[p] = ledger'
  BY <1>2 DEF Edit, LedgerIsCurrent
<1>3. CASE Process(p)
  <2>1. CASE ReadLedger(p)
    BY <1>0, <2>1 DEF ReadLedger, files
  <2>2. CASE Start(p) \/ ReviewCompose(p) \/ Run(p) \/ Dismiss(p) \/ AskCompose(p)
             \/ ComposeResolved(p) \/ AskPlain(p) \/ PlainResolved(p)
             \/ Inspect(p) \/ InspectCompose(p) \/ WriteLedger(p)
    BY <1>0, <2>2 DEF Start, ReviewCompose, Run, Dismiss, AskCompose, ComposeResolved, AskPlain,
       PlainResolved, AfterCompose, Inspect, InspectCompose, WriteLedger
  <2>3. CASE RefuseCompose(p) \/ RefusePlain(p) \/ GiveUp(p) \/ Finish(p) \/ Kill(p)
             \/ \E f \in Files : Conflict(p, f)
    BY <1>0, <2>3 DEF RefuseCompose, RefusePlain, GiveUp, Finish, Kill, Conflict, End
  <2>4. CASE \/ \E s \in Selections : Reselect(p, s)
             \/ \E c \in {"keep", "replace"} : Accept(p, c) \/ Answer(p, c)
             \/ \E f \in Files : Write(p, f) \/ Keep(p, f) \/ Unchanged(p, f)
    BY <1>0, <2>4 DEF Reselect, Accept, Answer, Write, Keep, Unchanged
  <2> QED
    BY <1>3, <2>1, <2>2, <2>3, <2>4 DEF Process
<1> QED
  BY <1>1, <1>2, <1>3 DEF Next, Alone

LEMMA OnlyWriteLedgerWrites ==
  ASSUME [Next]_vars, ledger' # ledger
  PROVE  \E p \in Procs : WriteLedger(p)
<1>1. ~UNCHANGED vars /\ ~\E g \in Files, c \in Hands \cup {Missing} : Edit(g, c)
  BY DEF vars, files, Edit
<1>2. PICK p \in Procs : Process(p)
  BY <1>1 DEF Next
<1>3. ~(\/ Start(p) \/ ReviewCompose(p) \/ Run(p) \/ Dismiss(p) \/ AskCompose(p)
        \/ RefuseCompose(p) \/ ComposeResolved(p) \/ AskPlain(p) \/ RefusePlain(p)
        \/ PlainResolved(p) \/ GiveUp(p) \/ Inspect(p) \/ InspectCompose(p) \/ ReadLedger(p)
        \/ Finish(p) \/ Kill(p))
  BY DEF files, Start, ReviewCompose, Run, Dismiss, AskCompose, RefuseCompose, ComposeResolved,
     AskPlain, RefusePlain, PlainResolved, GiveUp, Inspect, InspectCompose, ReadLedger, Finish,
     Kill, Show
<1>4. ~(\/ \E s \in Selections : Reselect(p, s)
        \/ \E c \in {"keep", "replace"} : Accept(p, c) \/ Answer(p, c)
        \/ \E g \in Files : Write(p, g) \/ Keep(p, g) \/ Unchanged(p, g) \/ Conflict(p, g))
  BY DEF files, Reselect, Accept, Answer, Write, Keep, Unchanged, Conflict
<1> QED
  BY <1>2, <1>3, <1>4 DEF Process

\* Of a launcher alone: recording one file's approval leaves the approvals of
\* the others, the legacy entry's included, what they were, whoever edits the
\* files meanwhile.
THEOREM ApprovalsAreSavedOneByOne ==
  ASSUME Alone
  PROVE  Spec => OneApprovalPerSave
<1> DEFINE Inv == TypeOK /\ Busy /\ LedgerIsCurrent
<1>1. Init => Inv
  <2>1. Init => LedgerIsCurrent
    BY DEF Init, LedgerIsCurrent
  <2> QED
    BY <2>1, InitType
<1>2. Inv /\ [Next]_vars => Inv'
  BY TypeStep, BusyStep, LedgerStep
<1>3. Inv /\ [Next]_vars =>
        [\A f \in Files : Approval(ledger', f) # Approval(ledger, f) =>
            \E p \in Procs : pc[p] = "record" /\ f = Head(todo[p])]_vars
  <2> SUFFICES ASSUME Inv, [Next]_vars, NEW f \in Files,
                      Approval(ledger', f) # Approval(ledger, f)
               PROVE  \E p \in Procs : pc[p] = "record" /\ f = Head(todo[p])
    OBVIOUS
  <2>1. PICK p \in Procs : WriteLedger(p)
    BY OnlyWriteLedgerWrites
  <2>2. pc[p] = "record" /\ ledger' = Approve(ledger, Head(todo[p]), pair[p])
    BY <2>1 DEF WriteLedger, LedgerIsCurrent
  <2>3. Approval(ledger', f) = IF f = Head(todo[p]) THEN pair[p] ELSE Approval(ledger, f)
    BY <2>2, Zenon DEF Approval, Approve
  <2> QED
    BY <2>2, <2>3
<1>4. Spec => [][\A f \in Files : Approval(ledger', f) # Approval(ledger, f) =>
                    \E p \in Procs : pc[p] = "record" /\ f = Head(todo[p])]_vars
  BY <1>1, <1>2, <1>3, PTL DEF Spec
<1> QED
  BY <1>4 DEF OneApprovalPerSave

\* A stack being materialized has its policy, or the Compose file, which will
\* bring it, is still to be inspected; no file is done before its inspection.
PolicyIsDue == \A p \in Procs :
    /\ pc[p] \in Working /\ stack[p] =>
          policy = sel[p] \/ (Compose \in Todo(p) /\ review[p][Compose] = Unread)
    /\ pc[p] = "approve" \/ pc[p] = "record" => review[p][Head(todo[p])] # Unread

LEMMA FirstIsDone ==
  ASSUME TypeOK, NEW p \in Procs, todo[p] # <<>>, todo'[p] = Tail(todo[p])
  PROVE  Head(todo[p]) \in Files /\ \A f \in Todo(p) \ {Head(todo[p])} : f \in Todo(p)'
<1> DEFINE s == todo[p]
<1>1. s \in Seq(Files)
  BY DEF TypeOK
<1>2. /\ Len(s) \in Nat \ {0} /\ DOMAIN s = 1..Len(s) /\ Head(s) = s[1] /\ s[1] \in Files
      /\ Tail(s) \in Seq(Files) /\ Len(Tail(s)) = Len(s) - 1
      /\ \A i \in 1..(Len(s) - 1) : Tail(s)[i] = s[i + 1]
  BY <1>1
<1>3. DOMAIN Tail(s) = 1..(Len(s) - 1)
  BY <1>2
<1> DEFINE t == Tail(s)  n == Len(s)
<1>4. /\ n \in Nat \ {0} /\ DOMAIN s = 1..n /\ DOMAIN t = 1..(n - 1) /\ Head(s) = s[1]
      /\ \A i \in 1..(n - 1) : t[i] = s[i + 1]
  BY <1>2, <1>3
<1>5. Todo(p) = {s[i] : i \in DOMAIN s} /\ Todo(p)' = {t[i] : i \in DOMAIN t}
  BY DEF Todo
<1> HIDE DEF s, t, n
<1>6. \A i \in DOMAIN s : s[i] # s[1] => i - 1 \in DOMAIN t /\ s[i] = t[i - 1]
  BY <1>4
<1>7. Todo(p) \ {Head(s)} \subseteq Todo(p)'
  BY <1>4, <1>5, <1>6
<1> QED
  BY <1>2, <1>7 DEF s

LEMMA PolicyStep ==
  ASSUME Alone, TypeOK, Busy, PolicyIsDue, [Next]_vars
  PROVE  PolicyIsDue'
<1> SUFFICES ASSUME NEW p \in Procs
             PROVE  /\ pc'[p] \in Working /\ stack'[p] =>
                          \/ policy' = sel'[p]
                          \/ Compose \in Todo(p)' /\ review'[p][Compose] = Unread
                    /\ pc'[p] = "approve" \/ pc'[p] = "record" => review'[p][Head(todo'[p])] # Unread
  BY DEF PolicyIsDue
<1> DEFINE Held == /\ pc[p] \in Working /\ stack[p] =>
                        policy = sel[p] \/ (Compose \in Todo(p) /\ review[p][Compose] = Unread)
                   /\ pc[p] = "approve" \/ pc[p] = "record" => review[p][Head(todo[p])] # Unread
<1>0. pc \in [Procs -> Steps] /\ Held /\ Compose \in Files
  BY ContentFacts DEF TypeOK, PolicyIsDue
<1>1. CASE UNCHANGED vars
  BY <1>0, <1>1 DEF vars, files, call, seen, Todo
<1>2. ASSUME NEW f \in Files, NEW c \in Hands \cup {Missing}, Edit(f, c)
      PROVE  Held'
  BY <1>0, <1>2 DEF Edit, call, seen, Todo
<1>3. CASE Process(p)
  <2>1. CASE Inspect(p)
    <3>1. /\ todo'[p] = Plain \o (IF stack[p] THEN <<Compose>> ELSE <<>>)
          /\ review'[p][Compose] = Unread /\ pc'[p] = "apply" /\ stack' = stack
      BY <1>0, <2>1 DEF Inspect, TypeOK, call
    <3>2. ASSUME stack[p] PROVE Compose \in Todo(p)'
      <4>1. todo'[p] = Plain \o <<Compose>> /\ Plain \in Seq(Files)
        BY <3>1, <3>2, ContentFacts
      <4>2. {(Plain \o <<Compose>>)[i] : i \in DOMAIN (Plain \o <<Compose>>)}
              = (Files \ {Compose}) \cup {c \in {Compose} : <<Compose>> # <<>>}
        BY AllFiles
      <4>3. <<Compose>> # <<>>
        OBVIOUS
      <4> QED
        BY <4>1, <4>2, <4>3 DEF Todo
    <3> QED
      BY <3>1, <3>2
  <2>2. CASE InspectCompose(p)
    BY <1>0, <2>2 DEF InspectCompose, TypeOK, call
  <2>3. ASSUME NEW f \in Files, Write(p, f) \/ Keep(p, f)
        PROVE  Held'
    BY <1>0, <2>3 DEF Write, Keep, Turn, TypeOK, call, seen, files, Todo, Working
  <2>4. ASSUME NEW f \in Files, Unchanged(p, f)
        PROVE  Held'
    <3>1. /\ todo[p] # <<>> /\ todo'[p] = Tail(todo[p]) /\ f = Head(todo[p])
          /\ review' = review /\ review[p][f] # Unread /\ pc[p] = "apply" /\ pc'[p] = "apply"
          /\ stack' = stack /\ sel' = sel /\ policy' = policy
      BY <1>0, <2>4 DEF Unchanged, Turn, TypeOK, call, files
    <3> QED
      BY <1>0, <3>1, FirstIsDone DEF Working
  <2>5. CASE WriteLedger(p)
    <3>1. /\ todo[p] # <<>> /\ todo'[p] = Tail(todo[p])
          /\ review' = review /\ pc[p] = "record" /\ pc'[p] = "apply"
          /\ stack' = stack /\ sel' = sel /\ policy' = policy
      BY <1>0, <2>5 DEF WriteLedger, Busy, TypeOK, call
    <3> QED
      BY <1>0, <3>1, FirstIsDone DEF Working
  <2>6. CASE ReadLedger(p)
    BY <1>0, <2>6 DEF ReadLedger, call, seen, files, Todo, Working
  <2>7. CASE Start(p) \/ ReviewCompose(p) \/ Run(p) \/ Dismiss(p) \/ AskCompose(p)
             \/ ComposeResolved(p) \/ AskPlain(p) \/ PlainResolved(p)
    <3>1. pc'[p] \notin Working
      BY <1>0, <2>7 DEF Start, ReviewCompose, Run, Dismiss, AskCompose, ComposeResolved, AskPlain,
         PlainResolved, AfterCompose, Working
    <3> QED
      BY <3>1 DEF Working
  <2>8. CASE RefuseCompose(p) \/ RefusePlain(p) \/ GiveUp(p) \/ Finish(p) \/ Kill(p)
             \/ \E f \in Files : Conflict(p, f)
    BY <1>0, <2>8 DEF RefuseCompose, RefusePlain, GiveUp, Finish, Kill, Conflict, End, Working
  <2>9. CASE \/ \E s \in Selections : Reselect(p, s)
             \/ \E c \in {"keep", "replace"} : Accept(p, c) \/ Answer(p, c)
    BY <1>0, <2>9 DEF Reselect, Accept, Answer, Working
  <2> QED
    BY <1>3, <2>1, <2>2, <2>3, <2>4, <2>5, <2>6, <2>7, <2>8, <2>9 DEF Process
<1> QED
  BY <1>1, <1>2, <1>3 DEF Next, Alone

\* Of a launcher alone: a stack that starts runs under the policy of its own
\* selection, also when the operator kept an older Compose file, whoever edits
\* the files meanwhile.
THEOREM PolicyFollowsSelection ==
  ASSUME Alone
  PROVE  Spec => PolicyIsCurrent
<1> DEFINE Inv == TypeOK /\ Busy /\ PolicyIsDue
<1>1. Init => Inv
  <2>1. Init => PolicyIsDue
    BY DEF Init, PolicyIsDue, Working
  <2> QED
    BY <2>1, InitType
<1>2. Inv /\ [Next]_vars => Inv'
  BY TypeStep, BusyStep, PolicyStep
<1>3. Inv /\ [Next]_vars =>
        [\A p \in Procs : Succeeds(p) /\ stack[p] => policy = sel[p]]_vars
  <2> SUFFICES ASSUME Inv, [Next]_vars, NEW p \in Procs, Succeeds(p), stack[p]
               PROVE  policy = sel[p]
    OBVIOUS
  <2>1. pc[p] \in Working /\ todo[p] = <<>>
    BY SuccessIsAFinish
  <2>2. Compose \notin Todo(p)
    BY <2>1 DEF Todo
  <2> QED
    BY <2>1, <2>2 DEF PolicyIsDue
<1>4. Spec => [][\A p \in Procs : Succeeds(p) /\ stack[p] => policy = sel[p]]_vars
  BY <1>1, <1>2, <1>3, PTL DEF Spec
<1> QED
  BY <1>4 DEF PolicyIsCurrent
=============================================================================

--------------------------- MODULE ArtifactReview ---------------------------
(***************************************************************************)
(* The generated project files and the operator's decisions about them     *)
(* (cmd/ai-launcher: compose_update.go, container_flow.go; the review key  *)
(* of the TUI). A launcher renders the files from its selection, compares  *)
(* them with the project's copies, asks once, and applies the answer to    *)
(* every file, recording an approved pair of hashes per file in a ledger   *)
(* that it reads and rewrites whole.                                       *)
(*                                                                         *)
(* The rendering of a file is identified with the selection it came from.  *)
(* Reading a file together with its approval is one step; each atomic      *)
(* write (FsAtomic) is one step.                                           *)
(***************************************************************************)
EXTENDS Naturals, Sequences

CONSTANTS Procs,
          Plain,       \* the plain artifacts in the order they are reviewed
          Compose,     \* docker-compose.yaml
          Selections, Hands, \* contents: rendered, and written by hand
          Missing, Unread, NoApproval,
          Decisions,   \* the values of --compose-update in use
          Entries,     \* the commands in use: "generate", "compose", "tui"
          EditableAt   \* someone edits files while every launcher is at these steps

Files == {Plain[i] : i \in DOMAIN Plain} \cup {Compose}
Contents == Selections \cup Hands
Pairs == Contents \X Selections
Choices == {"prompt", "keep", "replace"}

ASSUME PlainIsASequence == Plain \in Seq(Files \ {Compose})
ASSUME PlainNamesDiffer == \A i, j \in DOMAIN Plain : Plain[i] = Plain[j] => i = j
ASSUME HandsAreNotRendered == Hands \cap Selections = {}
ASSUME MarkersAreNoContents == {Missing, Unread} \cap Contents = {} /\ Missing # Unread
                               /\ NoApproval \notin Pairs
ASSUME DecisionsAreChoices == Decisions \subseteq Choices
ASSUME EntriesAreCommands == Entries \subseteq {"generate", "compose", "tui"}

\* The approval ledger: one entry per file, and the flat legacy entry.
Ledgers == [by : [Files -> Pairs \cup {NoApproval}], flat : Pairs \cup {NoApproval}]

Steps == {"off", "tui", "review", "compose", "plain", "ask", "inspect", "apply",
          "approve", "record"}

VARIABLES disk,        \* the project's copies
          policy,      \* the selection the egress policy files are of
          ledger,
          pc,
          sel,         \* per process: the selection
          stack,       \* it has services and the docker backend
          entry, tty,  \* the command; whether it runs on a terminal
          choice,      \* the decision so far
          asked,       \* the file whose diff is shown, and the content in it
          review,      \* what the inspection found in each file
          changed,     \* the files it found in conflict
          todo,        \* the files still to materialize
          pair,        \* the approval to record
          buf,         \* the ledger being changed
          outcome,
          flag,        \* history: the decision the command line gave
          shown        \* history: the diffs shown to the operator

files == <<disk, policy, ledger>>
call == <<sel, stack, entry, tty, flag>>
seen == <<review, changed, todo>>
vars == <<files, pc, call, choice, asked, seen, pair, buf, outcome, shown>>

TypeOK ==
    /\ disk \in [Files -> Contents \cup {Missing}]
    /\ policy \in Selections \cup {Missing}
    /\ ledger \in Ledgers
    /\ pc \in [Procs -> Steps]
    /\ sel \in [Procs -> Selections]
    /\ stack \in [Procs -> BOOLEAN] /\ tty \in [Procs -> BOOLEAN]
    /\ entry \in [Procs -> {"generate", "compose", "tui"}]
    /\ choice \in [Procs -> Choices] /\ flag \in [Procs -> Choices]
    /\ asked \in [Procs -> Files \X (Contents \cup {Missing})]
    /\ review \in [Procs -> [Files -> Contents \cup {Missing, Unread}]]
    /\ changed \in [Procs -> SUBSET Files]
    /\ todo \in [Procs -> Seq(Files)]
    /\ pair \in [Procs -> Pairs \cup {NoApproval}]
    /\ buf \in [Procs -> Ledgers]
    /\ outcome \in [Procs -> {"none", "ok", "conflict", "error", "killed"}]
    /\ shown \in [Procs -> SUBSET (Files \X (Contents \cup {Missing}) \X Selections)]

NoLedger == [by |-> [f \in Files |-> NoApproval], flat |-> NoApproval]
NotRead == [f \in Files |-> Unread]
NotAsked == <<Compose, Missing>>

\* loadComposeApproval.
Approval(l, f) == IF f = Compose /\ l.by[f] = NoApproval THEN l.flat ELSE l.by[f]

\* Mutant: the ledger is written with one entry.
Approve_Alone(l, f, p) ==
    [by |-> [g \in Files |-> IF g = f THEN p ELSE NoApproval], flat |-> NoApproval]

\* Mutant: the legacy entry is dropped instead of moved.
Approve_DropsFlat(l, f, p) == [by |-> [l.by EXCEPT ![f] = p], flat |-> NoApproval]

\* saveComposeApproval, on the ledger it read.
Approve(l, f, p) ==
    [by |-> [g \in Files |-> IF g = f THEN p ELSE Approval(l, g)], flat |-> NoApproval]

\* inspectGeneratedArtifact: a copy that is neither missing, nor as rendered,
\* nor approved for this rendering is in conflict.
InConflict(f, s) == disk[f] \notin {Missing, s} /\ Approval(ledger, f) # <<disk[f], s>>

Init ==
    /\ disk \in [Files -> Hands \cup {Missing}]
    /\ policy = Missing
    /\ \E flat \in (Hands \X Selections) \cup {NoApproval} : ledger = [NoLedger EXCEPT !.flat = flat]
    /\ pc = [p \in Procs |-> "off"]
    /\ \E s \in Selections : sel = [p \in Procs |-> s]
    /\ stack = [p \in Procs |-> FALSE] /\ tty = [p \in Procs |-> FALSE]
    /\ entry = [p \in Procs |-> "generate"]
    /\ choice = [p \in Procs |-> "prompt"] /\ flag = choice
    /\ asked = [p \in Procs |-> NotAsked]
    /\ review = [p \in Procs |-> NotRead]
    /\ changed = [p \in Procs |-> {}]
    /\ todo = [p \in Procs |-> <<>>]
    /\ pair = [p \in Procs |-> NoApproval]
    /\ buf = [p \in Procs |-> NoLedger]
    /\ outcome = [p \in Procs |-> "none"]
    /\ shown = [p \in Procs |-> {}]

Go(p, from, to) == pc[p] = from /\ pc' = [pc EXCEPT ![p] = to]

\* The process is done; what it had in memory is gone.
End(p, how) ==
    /\ pc' = [pc EXCEPT ![p] = "off"]
    /\ outcome' = [outcome EXCEPT ![p] = how]
    /\ choice' = [choice EXCEPT ![p] = "prompt"]
    /\ asked' = [asked EXCEPT ![p] = NotAsked]
    /\ review' = [review EXCEPT ![p] = NotRead]
    /\ changed' = [changed EXCEPT ![p] = {}]
    /\ todo' = [todo EXCEPT ![p] = <<>>]
    /\ pair' = [pair EXCEPT ![p] = NoApproval]
    /\ buf' = [buf EXCEPT ![p] = NoLedger]
    /\ shown' = [shown EXCEPT ![p] = {}]
    /\ UNCHANGED call

\* generate, --save or compose up, or the TUI, with a --compose-update flag.
Start(p) ==
    /\ \E e \in Entries : /\ Go(p, "off", IF e = "tui" THEN "tui" ELSE "compose")
                          /\ entry' = [entry EXCEPT ![p] = e]
                          /\ \E t \in (IF e = "tui" THEN {TRUE} ELSE BOOLEAN) :
                                tty' = [tty EXCEPT ![p] = t]
    /\ \E s \in Selections : sel' = [sel EXCEPT ![p] = s]
    /\ \E b \in BOOLEAN : stack' = [stack EXCEPT ![p] = b]
    /\ \E d \in Decisions : choice' = [choice EXCEPT ![p] = d] /\ flag' = [flag EXCEPT ![p] = d]
    /\ outcome' = [outcome EXCEPT ![p] = "none"]
    /\ UNCHANGED <<files, asked, seen, pair, buf, shown>>

\* The operator changes the selection in the TUI, its services included.
Reselect(p, s) ==
    /\ Go(p, "tui", "tui")
    /\ sel' = [sel EXCEPT ![p] = s]
    /\ \E b \in BOOLEAN : stack' = [stack EXCEPT ![p] = b]
    /\ UNCHANGED <<files, entry, tty, flag, choice, asked, seen, pair, buf, outcome, shown>>

\* The diff of f is on the screen.
Show(p, f) ==
    /\ asked' = [asked EXCEPT ![p] = <<f, disk[f]>>]
    /\ shown' = [shown EXCEPT ![p] = @ \cup {<<f, disk[f], sel[p]>>}]
    /\ UNCHANGED <<files, call, choice, seen, pair, buf, outcome>>

Undecided(p, f) == choice[p] = "prompt" /\ InConflict(f, sel[p])

\* confirmRun, of a stack: the ReviewCompose hook shows the conflict, unless
\* a decision was made before.
ReviewCompose(p) ==
    /\ Go(p, "tui", "review")
    /\ stack[p] /\ Undecided(p, Compose)
    /\ Show(p, Compose)

Run(p) ==
    /\ Go(p, "tui", "compose")
    /\ stack[p] /\ ~Undecided(p, Compose)
    /\ UNCHANGED <<files, call, choice, asked, seen, pair, buf, outcome, shown>>

\* acceptComposeReview: the decision stays made also when confirmRun then finds
\* that it cannot run the selection.
Accept(p, c) ==
    /\ Go(p, "review", "compose") \/ Go(p, "review", "tui")
    /\ choice' = [choice EXCEPT ![p] = c]
    /\ UNCHANGED <<files, call, asked, seen, pair, buf, outcome, shown>>

Dismiss(p) ==
    /\ Go(p, "review", "tui")
    /\ UNCHANGED <<files, call, choice, asked, seen, pair, buf, outcome, shown>>

\* resolveComposeUpdate; only generate then goes on to the plain artifacts.
AfterCompose(p) == IF entry[p] = "generate" THEN "plain" ELSE "inspect"

AskCompose(p) ==
    /\ tty[p] /\ stack[p] /\ Undecided(p, Compose)
    /\ Go(p, "compose", "ask")
    /\ Show(p, Compose)

RefuseCompose(p) ==
    /\ pc[p] = "compose"
    /\ ~tty[p] /\ stack[p] /\ Undecided(p, Compose)
    /\ End(p, "conflict")
    /\ UNCHANGED files

ComposeResolved(p) ==
    /\ Go(p, "compose", AfterCompose(p))
    /\ ~stack[p] \/ ~Undecided(p, Compose)
    /\ UNCHANGED <<files, call, choice, asked, seen, pair, buf, outcome, shown>>

\* resolveContainerArtifactsUpdate: the first plain artifact in conflict.
FirstConflict(p, i) ==
    /\ i \in DOMAIN Plain /\ Undecided(p, Plain[i])
    /\ \A j \in DOMAIN Plain : j < i => ~Undecided(p, Plain[j])

AskPlain(p) ==
    /\ tty[p] /\ Go(p, "plain", "ask")
    /\ \E i \in DOMAIN Plain : FirstConflict(p, i) /\ Show(p, Plain[i])

RefusePlain(p) ==
    /\ ~tty[p] /\ pc[p] = "plain"
    /\ \E i \in DOMAIN Plain : FirstConflict(p, i)
    /\ End(p, "conflict")
    /\ UNCHANGED files

PlainResolved(p) ==
    /\ Go(p, "plain", "inspect")
    /\ \A i \in DOMAIN Plain : ~Undecided(p, Plain[i])
    /\ UNCHANGED <<files, call, choice, asked, seen, pair, buf, outcome, shown>>

\* promptComposeUpdate: m, s or q.
Answer(p, c) ==
    /\ Go(p, "ask", "inspect")
    /\ choice' = [choice EXCEPT ![p] = c]
    /\ UNCHANGED <<files, call, asked, seen, pair, buf, outcome, shown>>

\* q at the prompt or in the TUI, or a pre-flight, build or runtime error.
GiveUp(p) ==
    /\ pc[p] \in {"ask", "tui", "inspect", "apply", "approve", "record"}
    /\ End(p, "error")
    /\ UNCHANGED files

\* materializeContainerArtifactsWithChoice, ensureComposeArtifacts: every plain
\* artifact is inspected again before the first is written.
Inspect(p) ==
    /\ Go(p, "inspect", "apply")
    /\ review' = [review EXCEPT ![p] = [f \in Files |-> IF f = Compose THEN Unread ELSE disk[f]]]
    /\ changed' = [changed EXCEPT ![p] = {f \in Files \ {Compose} : InConflict(f, sel[p])}]
    /\ todo' = [todo EXCEPT ![p] = Plain \o IF stack[p] THEN <<Compose>> ELSE <<>>]
    /\ UNCHANGED <<files, call, choice, asked, pair, buf, outcome, shown>>

\* Mutant: the policy files go with the Compose file.
InspectCompose_KeepsPolicy(p) ==
    /\ Go(p, "apply", "apply")
    /\ todo[p] = <<Compose>> /\ review[p][Compose] = Unread
    /\ review' = [review EXCEPT ![p][Compose] = disk[Compose]]
    /\ changed' = [changed EXCEPT ![p] = @ \cup {f \in {Compose} : InConflict(f, sel[p])}]
    /\ policy' = IF disk[Compose] \in {Missing, sel[p]} THEN sel[p] ELSE policy
    /\ UNCHANGED <<disk, ledger, call, choice, asked, todo, pair, buf, outcome, shown>>

\* materializeComposeIfNeeded inspects the Compose file when its turn has come,
\* and regenerates the policy files whatever it finds.
InspectCompose(p) ==
    /\ Go(p, "apply", "apply")
    /\ todo[p] = <<Compose>> /\ review[p][Compose] = Unread
    /\ review' = [review EXCEPT ![p][Compose] = disk[Compose]]
    /\ changed' = [changed EXCEPT ![p] = @ \cup {f \in {Compose} : InConflict(f, sel[p])}]
    /\ policy' = sel[p]
    /\ UNCHANGED <<disk, ledger, call, choice, asked, todo, pair, buf, outcome, shown>>

\* The file whose turn it is, once it has been inspected.
Turn(p, f) == todo[p] # <<>> /\ f = Head(todo[p]) /\ review[p][f] # Unread

\* Mutant: no answer means replace.
Replaceable_Unasked(p, f) ==
    review[p][f] = Missing \/ (choice[p] # "keep" /\ review[p][f] # sel[p])

Replaceable(p, f) ==
    review[p][f] = Missing \/ (choice[p] = "replace" /\ review[p][f] # sel[p])

Write(p, f) ==
    /\ Go(p, "apply", "approve")
    /\ Turn(p, f) /\ Replaceable(p, f)
    /\ disk' = [disk EXCEPT ![f] = sel[p]]
    /\ pair' = [pair EXCEPT ![p] = <<sel[p], sel[p]>>]
    /\ UNCHANGED <<policy, ledger, call, choice, asked, seen, buf, outcome, shown>>

\* Mutant: the two hashes change places.
Keep_Swapped(p, f) ==
    /\ Go(p, "apply", "approve")
    /\ Turn(p, f) /\ ~Replaceable(p, f)
    /\ f \in changed[p] /\ choice[p] = "keep"
    /\ pair' = [pair EXCEPT ![p] = <<sel[p], review[p][f]>>]
    /\ UNCHANGED <<files, call, choice, asked, seen, buf, outcome, shown>>

Keep(p, f) ==
    /\ Go(p, "apply", "approve")
    /\ Turn(p, f) /\ ~Replaceable(p, f)
    /\ f \in changed[p] /\ choice[p] = "keep"
    /\ pair' = [pair EXCEPT ![p] = <<review[p][f], sel[p]>>]
    /\ UNCHANGED <<files, call, choice, asked, seen, buf, outcome, shown>>

Unchanged(p, f) ==
    /\ Go(p, "apply", "apply")
    /\ Turn(p, f) /\ ~Replaceable(p, f)
    /\ f \notin changed[p]
    /\ todo' = [todo EXCEPT ![p] = Tail(@)]
    /\ UNCHANGED <<files, call, choice, asked, review, changed, pair, buf, outcome, shown>>

Conflict(p, f) ==
    /\ pc[p] = "apply"
    /\ Turn(p, f) /\ ~Replaceable(p, f)
    /\ f \in changed[p] /\ choice[p] = "prompt"
    /\ End(p, "conflict")
    /\ UNCHANGED files

ReadLedger(p) ==
    /\ Go(p, "approve", "record")
    /\ buf' = [buf EXCEPT ![p] = ledger]
    /\ UNCHANGED <<files, call, choice, asked, seen, pair, outcome, shown>>

WriteLedger(p) ==
    /\ Go(p, "record", "apply")
    /\ ledger' = Approve(buf[p], Head(todo[p]), pair[p])
    /\ todo' = [todo EXCEPT ![p] = Tail(@)]
    /\ pair' = [pair EXCEPT ![p] = NoApproval]
    /\ buf' = [buf EXCEPT ![p] = NoLedger]
    /\ UNCHANGED <<disk, policy, call, choice, asked, review, changed, outcome, shown>>

Finish(p) ==
    /\ pc[p] = "apply" /\ todo[p] = <<>>
    /\ End(p, "ok")
    /\ UNCHANGED files

Kill(p) ==
    /\ pc[p] # "off"
    /\ End(p, "killed")
    /\ UNCHANGED files

\* Someone edits or removes a project file.
Edit(f, c) ==
    /\ \A p \in Procs : pc[p] \in EditableAt
    /\ disk[f] # c
    /\ disk' = [disk EXCEPT ![f] = c]
    /\ UNCHANGED <<policy, ledger, pc, call, choice, asked, seen, pair, buf, outcome, shown>>

Process(p) ==
    \/ Start(p) \/ ReviewCompose(p) \/ Run(p) \/ Dismiss(p)
    \/ AskCompose(p) \/ RefuseCompose(p) \/ ComposeResolved(p)
    \/ AskPlain(p) \/ RefusePlain(p) \/ PlainResolved(p) \/ GiveUp(p)
    \/ Inspect(p) \/ InspectCompose(p) \/ ReadLedger(p) \/ WriteLedger(p)
    \/ Finish(p) \/ Kill(p)
    \/ \E s \in Selections : Reselect(p, s)
    \/ \E c \in {"keep", "replace"} : Accept(p, c) \/ Answer(p, c)
    \/ \E f \in Files : Write(p, f) \/ Keep(p, f) \/ Unchanged(p, f) \/ Conflict(p, f)

Next == \/ \E p \in Procs : Process(p)
        \/ \E f \in Files, c \in Hands \cup {Missing} : Edit(f, c)

Spec == Init /\ [][Next]_vars

\* A launcher replaces the existing content of f.
Replaces(p, f) == /\ pc[p] = "apply" /\ pc'[p] = "approve"
                  /\ disk[f] # Missing /\ disk'[f] # disk[f]
Succeeds(p) == pc[p] # "off" /\ pc'[p] = "off" /\ outcome'[p] = "ok"
Scope(p) == Files \ (IF stack[p] THEN {} ELSE {Compose})

-----------------------------------------------------------------------------
\* Bytes somebody wrote by hand are not overwritten by a launcher nobody told to
\* replace them ("a changed file is never silently replaced",
\* compose_update.go:170), also when it is killed and started again.
HandEditsSurvive ==
    [][\A p \in Procs, f \in Files :
          Replaces(p, f) /\ disk[f] \in Hands => choice[p] = "replace"]_vars

\* After a run that went through, the next one for the same selection asks
\* nothing: each file is as rendered or approved as it is ("not questioned again
\* until either the file or the generated selection changes", README.md:231).
DecisionsHold ==
    [][\A p \in Procs : Succeeds(p) =>
          \A f \in Scope(p) : ~InConflict(f, sel[p]) /\ disk[f] # Missing]_vars

\* Recording one file's approval leaves the approvals of the others, the legacy
\* entry's included, what they were (saveComposeApproval, compose_update.go:364).
OneApprovalPerSave ==
    [][\A f \in Files : Approval(ledger', f) # Approval(ledger, f) =>
          \E p \in Procs : pc[p] = "record" /\ f = Head(todo[p])]_vars

\* A stack that starts runs under the policy of its own selection, also when the
\* operator kept an older Compose file (compose_update.go:193).
PolicyIsCurrent ==
    [][\A p \in Procs : Succeeds(p) /\ stack[p] => policy = sel[p]]_vars

\* "Before replacing an existing artifact, the launcher ... shows a diff"
\* (ARCHITECTURE.md:391), unless the command line said replace.
ShownBeforeReplaced ==
    [][\A p \in Procs, f \in Files : Replaces(p, f) /\ flag[p] = "prompt" =>
          <<f, disk[f], sel[p]>> \in shown[p]]_vars

\* The generated files "are refreshed without this Compose customization step"
\* (README.md:241, launch_flow.go:171): a file only launchers wrote never stops a launch with
\* "has local changes".
GeneratedNeverConflicts ==
    [][\A p \in Procs, f \in Files : Conflict(p, f) => disk[f] \in Hands]_vars
=============================================================================

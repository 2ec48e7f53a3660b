--------------------------- MODULE ExecutionProofs ---------------------------
(***************************************************************************)
(* Execution for any versions of the launcher and any number of signals:   *)
(* what a session, its preparation and its stack leave behind, and what    *)
(* counts as a success.                                                    *)
(***************************************************************************)
EXTENDS Execution, TLAPS

PreparationStep ==
    \/ CheckRuntime \/ ProbeImage \/ BuildLauncherLinux \/ InstallConfig
    \/ EnsureImage \/ PrepareBuildContext \/ RunBuild \/ PlanOverlays
AgentStep == Replace \/ RunAgent \/ AgentReturned \/ DockerCleanup
StackStep == CheckStack \/ StackComesUp \/ ComposeEnds \/ StartDown \/ ComposeDown
WorldStep ==
    \/ \E t \in Versions : OtherBuilds(t) \/ RemoveImage(t)
    \/ \E v \in Versions : Upgrade(v)

-----------------------------------------------------------------------------
(* Types. *)

LEMMA PtyIdleType == PtyIdle => PtyTypeOK
BY DEF PtyIdle, PtyTypeOK, Session, Alive, Results

LEMMA PtyResetType == PtyReset => PtyTypeOK'
BY DEF PtyReset, PtyTypeOK, Session, Alive, Results

LEMMA PtyStepType ==
  ASSUME PtyTypeOK, PtyStep
  PROVE  PtyTypeOK'
<1> USE DEF PtyTypeOK, Session, Alive, Results
<1>1. CASE MainStep
  <2>1. CASE Refuse \/ Start \/ CopyOutput \/ CopyEnds
    BY <2>1 DEF Refuse, Return, Start, CopyOutput, CopyEnds
  <2>2. CASE CloseMaster
    <3>1. realCopyErr' \in BOOLEAN
      BY <2>2, Zenon DEF CloseMaster
    <3>2. UNCHANGED <<child, helper, unread, ctx, watcher, host, copyErr, reaped, result>>
          /\ main' = "kill" /\ ptmx' = "closed"
      BY <2>2 DEF CloseMaster
    <3> QED
      BY <3>1, <3>2
  <2>4. CASE KillOnFailure
    BY <2>4 DEF KillOnFailure, KillGroup
  <2>5. CASE Reap
    BY <2>5 DEF Reap
  <2>3. CASE ReturnResult
    BY <2>3 DEF ReturnResult, Return, Leave
  <2> QED
    BY <1>1, <2>1, <2>2, <2>3, <2>4, <2>5 DEF MainStep
<1>2. CASE WatcherStep
  BY <1>2 DEF WatcherStep, WatcherCloses, WatcherKills, KillGroup
<1>3. CASE AgentWrites \/ AgentMoves
  BY <1>3 DEF AgentWrites, AgentMoves
<1> QED
  BY <1>1, <1>2, <1>3 DEF PtyStep

LEMMA TypeInit == Init => TypeOK
<1> SUFFICES ASSUME Init PROVE TypeOK
  OBVIOUS
<1>1. PtyTypeOK
  BY PtyIdleType DEF Init
<1>2. images \in [Versions -> Launchers \cup {None}] /\ signals \in 0..MaxSignals
  BY SignalsAreCounted DEF Init
<1>3. req \in Requests
  BY DEF Init
<1> QED
  BY <1>1, <1>2, <1>3 DEF Init, TypeOK, Phases, Windows, Outcomes, Tags

LEMMA LauncherMade ==
  ASSUME TypeOK, NEW at \in BuildHosts
  PROVE  /\ LinuxLauncher(at) \in Launchers
         /\ LinuxLauncher(at).source = "copy" => LinuxLauncher(at).version = exe
<1>1. at.checkout \in Versions \cup {None} /\ exe \in Versions /\ running \in Versions
  BY BuildHostsAreHosts DEF Hosts, TypeOK
<1> QED
  BY <1>1 DEF LinuxLauncher, Launchers

LEMMA PreparationType ==
  ASSUME TypeOK, PreparationStep
  PROVE  TypeOK'
<1> USE DEF TypeOK, prep, world, still, stackVars, signalVars, Go, End, Phases, Windows,
            Outcomes, Results, Tags
<1>1. CASE CheckRuntime \/ InstallConfig
  BY <1>1, ZenonT(30) DEF CheckRuntime, InstallConfig, Abandon, ptyVars, PtyTypeOK
<1>5. CASE BuildLauncherLinux
  <2>1. binary' \in Launchers \cup {None}
    BY <1>5, LauncherMade DEF BuildLauncherLinux
  <2>2. phase' \in Phases /\ outcome' \in Outcomes
    BY <1>5 DEF BuildLauncherLinux
  <2>3. temp' \subseteq {"launcher", "context", "overlay"}
    BY <1>5 DEF BuildLauncherLinux
  <2>4. UNCHANGED <<ptyVars, still, tag, world>>
    BY <1>5, Zenon DEF BuildLauncherLinux
  <2>5. PtyTypeOK'
    BY <2>4 DEF ptyVars, PtyTypeOK
  <2> QED
    BY <2>1, <2>2, <2>3, <2>4, <2>5
<1>2. CASE ProbeImage \/ EnsureImage
  <2>1. phase' \in Phases /\ outcome' = outcome
    BY <1>2, Zenon DEF ProbeImage, EnsureImage
  <2>2. CommandOver /\ UNCHANGED <<still, prep, world>>
    BY <1>2, Zenon DEF ProbeImage, EnsureImage
  <2>3. PtyTypeOK'
    BY <2>2 DEF CommandOver, PtyTypeOK
  <2> QED
    BY <2>1, <2>2, <2>3
<1>3. CASE PrepareBuildContext \/ PlanOverlays
  BY <1>3 DEF PrepareBuildContext, PlanOverlays, Abandon, ptyVars, PtyTypeOK
<1>4. CASE RunBuild
  <2>1. phase' \in Phases /\ outcome' \in Outcomes
    BY <1>4 DEF RunBuild, Abandon
  <2>2. images' \in [Versions -> Launchers \cup {None}]
    BY <1>4 DEF RunBuild, Abandon
  <2>3. temp' \subseteq {"launcher", "context", "overlay"}
    BY <1>4 DEF RunBuild, Abandon
  <2>4. CommandOver /\ UNCHANGED <<still, tag, binary, exe, stack>>
    BY <1>4, Zenon DEF RunBuild
  <2>5. PtyTypeOK'
    BY <2>4 DEF CommandOver, PtyTypeOK
  <2> QED
    BY <2>1, <2>2, <2>3, <2>4, <2>5
<1> QED
  BY <1>1, <1>2, <1>3, <1>4, <1>5 DEF PreparationStep

LEMMA AgentType ==
  ASSUME TypeOK, AgentStep
  PROVE  TypeOK'
<1> USE DEF TypeOK, prep, world, still, stackVars, signalVars, Go, End, Phases, Windows,
            Outcomes, Results
<1>1. CASE Replace
  <2>1. phase' \in {"off", "cleanup"} /\ outcome' \in {"replaced", outcome}
    BY <1>1 DEF Replace
  <2>2. PtyTypeOK'
    BY <1>1 DEF Replace, PtyTypeOK
  <2> QED
    BY <1>1, <2>1, <2>2 DEF Replace
<1>2. CASE RunAgent \/ AgentReturned
  BY <1>2 DEF RunAgent, AgentReturned, ptyVars, PtyTypeOK
<1>3. CASE DockerCleanup
  BY <1>3, PtyResetType DEF DockerCleanup, PtyTypeOK
<1> QED
  BY <1>1, <1>2, <1>3 DEF AgentStep

LEMMA StackType ==
  ASSUME TypeOK, StackStep
  PROVE  TypeOK'
<1> USE DEF TypeOK, prep, world, still, stackVars, signalVars, Go, End, Phases, Windows,
            Outcomes, Results
<1>1. CASE CheckStack \/ StackComesUp \/ StartDown
  BY <1>1 DEF CheckStack, StackComesUp, StartDown, ptyVars, PtyTypeOK
<1>2. CASE ComposeEnds
  <2>1. runErr' \in Results /\ phase' \in Phases /\ outcome' \in Outcomes
    BY <1>2 DEF ComposeEnds, CommandResults
  <2>2. PtyTypeOK'
    BY <1>2 DEF ComposeEnds, CommandOver, PtyTypeOK
  <2> QED
    BY <1>2, <2>1, <2>2 DEF ComposeEnds
<1>3. CASE ComposeDown
  <2>1. down' \in Results /\ phase' \in Phases /\ outcome' \in Outcomes /\ stack' \in {"up", "down"}
    BY <1>3 DEF ComposeDown, CommandResults
  <2>2. PtyTypeOK'
    BY <1>3 DEF ComposeDown, CommandOver, PtyTypeOK
  <2> QED
    BY <1>3, <2>1, <2>2 DEF ComposeDown
<1> QED
  BY <1>1, <1>2, <1>3 DEF StackStep

LEMMA InterruptionType ==
  ASSUME TypeOK, Signal \/ Die
  PROVE  TypeOK'
<1> USE DEF TypeOK, prep, world, still, stackVars, signalVars, End, Phases, Outcomes
<1>1. CASE Die
  BY <1>1, PtyResetType DEF Die
<1>2. CASE Signal
  <2>1. signals' \in 0..MaxSignals
    BY <1>2, SignalsAreCounted DEF Signal
  <2>2. heard' \in BOOLEAN
    BY <1>2, Zenon DEF Signal
  <2>3. phase' \in Phases /\ outcome' \in Outcomes
    BY <1>2 DEF Signal
  <2>4. PtyTypeOK'
    BY <1>2, PtyResetType DEF Signal, PtyTypeOK
  <2> QED
    BY <1>2, <2>1, <2>2, <2>3, <2>4 DEF Signal
<1> QED
  BY <1>1, <1>2

LEMMA BeginType ==
  ASSUME TypeOK, NEW r \in Requests, Begin(r)
  PROVE  TypeOK'
<1>1. phase' \in Phases
  BY DEF Begin, Phases, Requests
<1>2. stack' \in {"up", "down"}
  BY DEF Begin
<1>3. PtyTypeOK'
  BY DEF Begin, TypeOK, PtyTypeOK, ptyVars
<1>4. signals' \in 0..MaxSignals
  BY SignalsAreCounted DEF Begin
<1>5. tag' \in Tags /\ temp' = {} /\ outcome' \in Outcomes
  BY DEF Begin, Tags, Outcomes
<1> QED
  BY <1>1, <1>2, <1>3, <1>4, <1>5 DEF Begin, TypeOK

LEMMA WorldType ==
  ASSUME TypeOK, WorldStep
  PROVE  TypeOK'
<1> USE DEF TypeOK, PtyTypeOK, ptyVars, prep, still, stackVars, signalVars
<1>1. CASE \E t \in Versions : OtherBuilds(t)
  <2>1. PICK t \in Versions : OtherBuilds(t)
    BY <1>1
  <2>2. [version |-> t, source |-> "copy"] \in Launchers
    BY DEF Launchers
  <2>3. images' \in [Versions -> Launchers \cup {None}]
    BY <2>1, <2>2 DEF OtherBuilds
  <2> QED
    BY <2>1, <2>3 DEF OtherBuilds
<1>2. CASE \E t \in Versions : RemoveImage(t)
  BY <1>2 DEF RemoveImage
<1>3. CASE \E v \in Versions : Upgrade(v)
  BY <1>3 DEF Upgrade
<1> QED
  BY <1>1, <1>2, <1>3 DEF WorldStep

LEMMA PtyFrame ==
  ASSUME PtyMain \/ PtyWatcher \/ PtyAgent
  PROVE  PtyStep /\ UNCHANGED <<phase, outcome, still, prep, world>>
BY DEF PtyMain, PtyWatcher, PtyAgent, Pty, PtyStep

\* What a step of the system is.
LEMMA StepCases ==
  ASSUME [Next]_vars
  PROVE  \/ \E r \in Requests : Begin(r)
         \/ PreparationStep \/ AgentStep \/ StackStep
         \/ PtyMain \/ PtyWatcher \/ PtyAgent
         \/ Signal \/ Die
         \/ WorldStep
         \/ UNCHANGED vars
BY DEF Next, PreparationStep, AgentStep, StackStep, WorldStep

LEMMA TypeStep ==
  ASSUME TypeOK, [Next]_vars
  PROVE  TypeOK'
<1>1. CASE PtyMain \/ PtyWatcher \/ PtyAgent
  <2>1. PtyTypeOK'
    BY <1>1, PtyFrame, PtyStepType DEF TypeOK
  <2> QED
    BY <1>1, <2>1, PtyFrame DEF TypeOK, still, prep, world, stackVars, signalVars
<1>2. CASE UNCHANGED vars
  BY <1>2 DEF vars, TypeOK, PtyTypeOK, ptyVars, prep, world
<1> QED
  BY <1>1, <1>2, StepCases, BeginType, PreparationType, AgentType, StackType,
     InterruptionType, WorldType

\* Every variable keeps its type, for any versions and any number of signals.
THEOREM TypeCorrect == Spec => []TypeOK
<1>1. TypeOK /\ [Next]_vars => TypeOK'
  BY TypeStep
<1> QED
  BY <1>1, TypeInit, PTL DEF Spec

-----------------------------------------------------------------------------
(***************************************************************************)
(* The session on the terminal. What it leaves behind is decided steps     *)
(* before it returns: a copy that ended with EIO leaves nobody who could   *)
(* write, start a helper or hold the terminal again; a copy that failed    *)
(* has the group killed before the agent is waited for; and "reaped" is    *)
(* never undone.                                                           *)
(***************************************************************************)
Unstarted == child = "none" /\ helper = "none" /\ host = "cooked" /\ watcher = "off"

SessionInv ==
    /\ main = "off" => Unstarted
    /\ main \in {"off", "copy"} => copyErr = "none"
    /\ copyErr = "eio" => ~unread /\ ~SlaveHeld
    /\ main \in {"kill", "wait", "judge"} /\ ctx = "live" => (realCopyErr <=> copyErr # "eio")
    /\ main \in {"wait", "judge", "returned"} /\ realCopyErr =>
          child \notin Alive /\ helper # "attached"
    /\ main = "judge" => reaped /\ child \notin Alive
    /\ main = "returned" /\ child # "none" =>
          /\ reaped /\ child \notin Alive /\ host = "cooked"
          /\ result = "error" => realCopyErr
    /\ main = "returned" /\ result = "ok" => child = "ok" /\ copyErr = "eio"

\* There is a session only while it runs or is cleaned up after.
Idle == phase \notin {"pty", "cleanup"} => main = "off"

LEMMA SessionFrame ==
  ASSUME SessionInv, main = "off" \/ ctx' \in {ctx, "cancelled"},
         main # "off" => result' = result,
         UNCHANGED <<main, child, helper, unread, watcher, host, copyErr, realCopyErr, reaped>>
  PROVE  SessionInv'
BY DEF SessionInv, Unstarted, SlaveHeld, Alive

LEMMA SessionReset == PtyReset => SessionInv'
BY DEF PtyReset, SessionInv, Unstarted, SlaveHeld, Alive

LEMMA MainKeepsSession ==
  ASSUME PtyTypeOK, SessionInv, MainStep
  PROVE  SessionInv'
<1> USE DEF PtyTypeOK, SessionInv, Unstarted, SlaveHeld, Alive
<1>1. CASE Refuse
  BY <1>1 DEF Refuse, Return
<1>2. CASE Start
  BY <1>2 DEF Start
<1>3. CASE CopyOutput
  BY <1>3 DEF CopyOutput
<1>4. CASE CopyEnds
  BY <1>4 DEF CopyEnds
<1>5. CASE CloseMaster
  BY <1>5 DEF CloseMaster
<1>6. CASE KillOnFailure
  BY <1>6 DEF KillOnFailure, KillGroup
<1>7. CASE Reap
  BY <1>7 DEF Reap
<1>8. CASE ReturnResult
  BY <1>8 DEF ReturnResult, Return, Leave
<1> QED
  BY <1>1, <1>2, <1>3, <1>4, <1>5, <1>6, <1>7, <1>8 DEF MainStep

\* The watcher ends what is alive; agents and helpers end on their own, or begin
\* while the agent is at its terminal.
LEMMA OthersKeepSession ==
  ASSUME PtyTypeOK, SessionInv, WatcherStep \/ AgentWrites \/ AgentMoves
  PROVE  SessionInv'
<1> USE DEF PtyTypeOK, SessionInv, Unstarted, SlaveHeld, Alive
<1>1. CASE WatcherCloses
  BY <1>1 DEF WatcherCloses
<1>2. CASE WatcherKills
  BY <1>2 DEF WatcherKills, KillGroup
<1>3. CASE AgentWrites
  BY <1>3 DEF AgentWrites
<1>4. CASE AgentMoves
  BY <1>4 DEF AgentMoves
<1> QED
  BY <1>1, <1>2, <1>3, <1>4 DEF WatcherStep

LEMMA SessionStep ==
  ASSUME TypeOK, SessionInv, Idle, [Next]_vars
  PROVE  SessionInv' /\ Idle'
<1> USE DEF ptyVars, Go, End, Idle
<1>1. CASE \E r \in Requests : Begin(r)
  <2>1. phase = "off" /\ UNCHANGED ptyVars
    BY <1>1 DEF Begin
  <2> QED
    BY <2>1, SessionFrame
<1>2. CASE PreparationStep
  <2>1. phase \notin {"pty", "cleanup"} /\ main' = main
    BY <1>2 DEF PreparationStep, CheckRuntime, ProbeImage, BuildLauncherLinux, InstallConfig,
                EnsureImage, PrepareBuildContext, RunBuild, PlanOverlays, CommandOver
  <2>2. CommandOver \/ UNCHANGED ptyVars
    BY <1>2 DEF PreparationStep, CheckRuntime, ProbeImage, BuildLauncherLinux, InstallConfig,
                EnsureImage, PrepareBuildContext, RunBuild, PlanOverlays
  <2> QED
    BY <2>1, <2>2, SessionFrame DEF CommandOver
<1>3. CASE AgentStep
  <2>1. CASE Replace
    BY <2>1, SessionFrame DEF Replace
  <2>2. CASE RunAgent \/ AgentReturned
    BY <2>2, SessionFrame DEF RunAgent, AgentReturned
  <2>3. CASE DockerCleanup
    BY <2>3, SessionReset DEF DockerCleanup, PtyReset
  <2> QED
    BY <1>3, <2>1, <2>2, <2>3 DEF AgentStep
<1>4. CASE StackStep
  <2>1. phase \notin {"pty", "cleanup"}
    BY <1>4 DEF StackStep, CheckStack, StackComesUp, ComposeEnds, StartDown, ComposeDown
  <2>2. CommandOver \/ UNCHANGED ptyVars
    BY <1>4 DEF StackStep, CheckStack, StackComesUp, ComposeEnds, StartDown, ComposeDown
  <2> QED
    BY <2>1, <2>2, SessionFrame DEF CommandOver
<1>5. CASE PtyMain \/ PtyWatcher \/ PtyAgent
  <2>1. phase \in {"pty", "cleanup"} /\ phase' = phase
    BY <1>5 DEF PtyMain, PtyWatcher, PtyAgent, Pty
  <2>2. SessionInv'
    BY <1>5, MainKeepsSession, OthersKeepSession DEF PtyMain, PtyWatcher, PtyAgent, Pty, TypeOK
  <2> QED
    BY <2>1, <2>2
<1>6. CASE Signal
  <2>1. CASE phase \in Windows
    BY <1>6, <2>1, SessionFrame DEF Signal
  <2>2. CASE phase \notin Windows
    BY <1>6, <2>2, SessionReset DEF Signal, PtyReset
  <2> QED
    BY <2>1, <2>2
<1>7. CASE Die
  BY <1>7, SessionReset DEF Die, PtyReset
<1>8. CASE WorldStep
  BY <1>8, SessionFrame DEF WorldStep, OtherBuilds, RemoveImage, Upgrade
<1>9. CASE UNCHANGED vars
  BY <1>9, SessionFrame DEF vars
<1> QED
  BY <1>1, <1>2, <1>3, <1>4, <1>5, <1>6, <1>7, <1>8, <1>9, StepCases

LEMMA SessionAlways == Spec => [](SessionInv /\ Idle)
<1>1. Init => SessionInv /\ Idle
  BY DEF Init, PtyIdle, SessionInv, Unstarted, SlaveHeld, Alive, Idle
<1>2. TypeOK /\ (SessionInv /\ Idle) /\ [Next]_vars => (SessionInv /\ Idle)'
  BY SessionStep
<1> QED
  BY <1>1, <1>2, TypeCorrect, PTL DEF Spec

\* However a session ends, by itself, by a signal or by a broken output, its
\* agent is reaped, the operator's terminal is usable, and after a failed copy
\* nothing of the agent's group runs on.
THEOREM SessionsLeaveNobody == Spec => []NoOrphan
<1>1. SessionInv => NoOrphan
  BY DEF SessionInv, NoOrphan
<1> QED
  BY <1>1, SessionAlways, PTL

-----------------------------------------------------------------------------
\* A signal that was caught is not forgotten before it has been the result:
\* the context stays cancelled until the command or the agent it interrupts
\* has ended, and their ends say so.
HeardInv ==
    heard =>
      /\ phase \in {"build", "pty", "cleanup", "compose", "between", "down", "off"}
      /\ phase \in {"build", "compose"} => ctx = "cancelled"
      /\ phase = "pty" => IF main = "returned" THEN result # "ok" ELSE ctx = "cancelled"
      /\ phase = "cleanup" => result # "ok"
      /\ phase \in {"between", "down"} => runErr # "ok" \/ (phase = "down" /\ ctx = "cancelled")
      /\ phase = "off" => outcome # "ok"

LEMMA HeardByPreparation ==
  ASSUME HeardInv, PreparationStep
  PROVE  HeardInv'
<1> USE DEF HeardInv, Go, End, Abandon, CommandOver, still, signalVars, stackVars
<1>1. CASE CheckRuntime \/ ProbeImage \/ BuildLauncherLinux \/ InstallConfig
  BY <1>1 DEF CheckRuntime, ProbeImage, BuildLauncherLinux, InstallConfig
<1>2. CASE EnsureImage \/ PrepareBuildContext \/ PlanOverlays
  BY <1>2 DEF EnsureImage, PrepareBuildContext, PlanOverlays
<1>3. CASE RunBuild
  BY <1>3 DEF RunBuild
<1> QED
  BY <1>1, <1>2, <1>3 DEF PreparationStep

LEMMA HeardByAgent ==
  ASSUME HeardInv, AgentStep
  PROVE  HeardInv'
<1> USE DEF HeardInv, Go, End, still, signalVars, stackVars
<1>1. CASE Replace
  BY <1>1 DEF Replace
<1>2. CASE RunAgent \/ AgentReturned
  BY <1>2 DEF RunAgent, AgentReturned, ptyVars
<1>3. CASE DockerCleanup
  BY <1>3 DEF DockerCleanup
<1> QED
  BY <1>1, <1>2, <1>3 DEF AgentStep

LEMMA HeardByStack ==
  ASSUME TypeOK, HeardInv, StackStep
  PROVE  HeardInv'
<1> USE DEF HeardInv, Go, End, CommandOver, still, signalVars, stackVars
<1>1. CASE CheckStack \/ StackComesUp \/ StartDown
  BY <1>1 DEF CheckStack, StackComesUp, StartDown, ptyVars
<1>2. CASE ComposeEnds
  <2> SUFFICES ASSUME heard PROVE HeardInv'
    BY <1>2 DEF ComposeEnds
  <2>1. ctx = "cancelled" /\ phase = "compose"
    BY <1>2 DEF ComposeEnds
  <2>2. runErr' \in {"failed", "cancelled"}
    BY <1>2, <2>1 DEF ComposeEnds, CommandResults
  <2> QED
    BY <1>2, <2>2 DEF ComposeEnds
<1>3. CASE ComposeDown
  BY <1>3 DEF ComposeDown, CommandResults
<1> QED
  BY <1>1, <1>2, <1>3 DEF StackStep

\* A result that is given while the context is cancelled is never "ok".
LEMMA HeardBySession ==
  ASSUME HeardInv, PtyMain \/ PtyWatcher \/ PtyAgent
  PROVE  HeardInv'
<1> USE DEF HeardInv, Pty, still, signalVars, stackVars
<1>1. CASE PtyMain
  <2>1. MainStep => main # "returned" /\ ctx' = ctx
    BY DEF MainStep, Refuse, Start, CopyOutput, CopyEnds, CloseMaster, KillOnFailure, Reap,
           ReturnResult
  <2>2. MainStep => main' # "returned" \/ (ctx = "cancelled" => result' = "cancelled")
    BY DEF MainStep, Refuse, Return, Start, CopyOutput, CopyEnds, CloseMaster, KillOnFailure,
           Reap, ReturnResult
  <2> QED
    BY <1>1, <2>1, <2>2 DEF PtyMain
<1>2. CASE PtyWatcher
  BY <1>2 DEF PtyWatcher, WatcherStep, WatcherCloses, WatcherKills
<1>3. CASE PtyAgent
  BY <1>3 DEF PtyAgent, AgentWrites, AgentMoves
<1> QED
  BY <1>1, <1>2, <1>3

LEMMA HeardStep ==
  ASSUME TypeOK, HeardInv, [Next]_vars
  PROVE  HeardInv'
<1> USE DEF HeardInv
<1>1. CASE \E r \in Requests : Begin(r)
  BY <1>1 DEF Begin
<1>2. CASE Signal
  <2>1. CASE phase \in Windows
    <3>1. ctx' = "cancelled" /\ UNCHANGED <<phase, outcome, runErr, result, main>>
      BY <1>2, <2>1 DEF Signal, stackVars
    <3>2. heard' => heard \/ Ends
      BY <1>2, <2>1 DEF Signal
    <3>3. Ends => phase \notin {"probe", "ensure"} /\ (phase = "pty" => main # "returned")
      BY DEF Ends
    <3> QED
      BY <2>1, <3>1, <3>2, <3>3 DEF Windows
  <2>2. CASE phase \notin Windows
    BY <1>2, <2>2 DEF Signal, End
  <2> QED
    BY <2>1, <2>2
<1>3. CASE Die
  BY <1>3 DEF Die, End
<1>4. CASE WorldStep
  BY <1>4 DEF WorldStep, OtherBuilds, RemoveImage, Upgrade, ptyVars, still, signalVars, stackVars
<1>5. CASE UNCHANGED vars
  BY <1>5 DEF vars, ptyVars
<1> QED
  BY <1>1, <1>2, <1>3, <1>4, <1>5, StepCases, HeardByPreparation, HeardByAgent, HeardByStack,
     HeardBySession

LEMMA HeardAlways == Spec => []HeardInv
<1>1. Init => HeardInv
  BY DEF Init, HeardInv
<1>2. TypeOK /\ HeardInv /\ [Next]_vars => HeardInv'
  BY HeardStep
<1> QED
  BY <1>1, <1>2, TypeCorrect, PTL DEF Spec

\* No launch that a signal has interrupted, and no session whose output was not
\* passed on to its end, counts as a success.
THEOREM SuccessIsHonest == Spec => []SuccessIsTheAgents
<1>1. SessionInv /\ HeardInv => SuccessIsTheAgents
  BY DEF SessionInv, HeardInv, SuccessIsTheAgents
<1> QED
  BY <1>1, SessionAlways, HeardAlways, PTL

-----------------------------------------------------------------------------
\* Where no temporary file has been made yet, or all of them are gone.
TempInv ==
    /\ phase \in {"check", "probe", "launcher", "stack", "compose", "between", "down"} => temp = {}
    /\ NothingLeftBehind

LEMMA TempStep ==
  ASSUME TypeOK, TempInv, [Next]_vars
  PROVE  TempInv'
<1> USE DEF TempInv, NothingLeftBehind, Go, End, Abandon, still, prep, world
<1>1. CASE \E r \in Requests : Begin(r)
  BY <1>1 DEF Begin
<1>2. CASE PreparationStep
  <2>1. CASE CheckRuntime \/ ProbeImage \/ BuildLauncherLinux \/ InstallConfig
    BY <1>2, <2>1 DEF CheckRuntime, ProbeImage, BuildLauncherLinux, InstallConfig
  <2>2. CASE EnsureImage \/ PrepareBuildContext \/ RunBuild \/ PlanOverlays
    BY <1>2, <2>2 DEF EnsureImage, PrepareBuildContext, RunBuild, PlanOverlays
  <2> QED
    BY <1>2, <2>1, <2>2 DEF PreparationStep
<1>3. CASE AgentStep
  BY <1>3 DEF AgentStep, Replace, RunAgent, AgentReturned, DockerCleanup
<1>4. CASE StackStep
  BY <1>4 DEF StackStep, CheckStack, StackComesUp, ComposeEnds, StartDown, ComposeDown
<1>5. CASE PtyMain \/ PtyWatcher \/ PtyAgent
  BY <1>5, PtyFrame
<1>6. CASE Signal \/ Die
  BY <1>6 DEF Signal, Die
<1>7. CASE WorldStep
  BY <1>7 DEF WorldStep, OtherBuilds, RemoveImage, Upgrade
<1>8. CASE UNCHANGED vars
  BY <1>8 DEF vars
<1> QED
  BY <1>1, <1>2, <1>3, <1>4, <1>5, <1>6, <1>7, <1>8, StepCases

\* A launch that ends without being killed, and without becoming its agent,
\* leaves no temporary file: no token of a rewritten configuration, no build
\* context, no Linux launcher.
THEOREM TemporariesRemoved == Spec => []NothingLeftBehind
<1>1. Init => TempInv
  BY DEF Init, TempInv, NothingLeftBehind
<1>2. TypeOK /\ TempInv /\ [Next]_vars => TempInv'
  BY TempStep
<1>3. TempInv => NothingLeftBehind
  BY DEF TempInv
<1> QED
  BY <1>1, <1>2, <1>3, TypeCorrect, PTL DEF Spec

-----------------------------------------------------------------------------
\* A stack's run is recorded before its teardown begins.
StackInv ==
    /\ phase \in {"stack", "compose", "between", "down"} => req.kind = "stack"
    /\ req.kind = "stack" => phase \in {"stack", "compose", "between", "down", "off"}
    /\ phase \in {"stack", "compose"} => runErr = "none"
    /\ phase \in {"between", "down"} => runErr # "none"
    /\ StackTornDown

LEMMA StackSteps ==
  ASSUME TypeOK, StackInv, StackStep
  PROVE  StackInv'
<1> USE DEF StackInv, StackTornDown, Go, End, still, prep, world, stackVars
<1>1. CASE CheckStack \/ StackComesUp \/ StartDown
  BY <1>1 DEF CheckStack, StackComesUp, StartDown
<1>2. CASE ComposeEnds
  <2>1. runErr' # "none"
    BY <1>2 DEF ComposeEnds, CommandResults
  <2>2. UNCHANGED req /\ phase = "compose"
    BY <1>2 DEF ComposeEnds
  <2>3. req.interactive => phase' = "between"
    BY <1>2 DEF ComposeEnds
  <2>4. ~req.interactive => phase' = "off"
    BY <1>2 DEF ComposeEnds
  <2> QED
    BY <2>1, <2>2, <2>3, <2>4
<1>3. CASE ComposeDown
  <2>1. PICK d \in CommandResults :
           /\ down' = d
           /\ stack' \in IF d = "ok" THEN {"down"} ELSE {stack, "down"}
           /\ phase' = "off" /\ outcome' = IF runErr # "ok" THEN runErr ELSE d
    BY <1>3 DEF ComposeDown
  <2>2. d # "none" /\ (d # "ok" => outcome' # "ok") /\ (d = "ok" => stack' = "down")
    BY <2>1 DEF CommandResults
  <2>3. UNCHANGED <<req, runErr>> /\ phase = "down"
    BY <1>3 DEF ComposeDown
  <2> QED
    BY <2>1, <2>2, <2>3
<1> QED
  BY <1>1, <1>2, <1>3 DEF StackStep

LEMMA StackInvStep ==
  ASSUME TypeOK, StackInv, [Next]_vars
  PROVE  StackInv'
<1> USE DEF StackInv, StackTornDown, Go, End, Abandon, still, prep, world, stackVars
<1>1. CASE \E r \in Requests : Begin(r)
  BY <1>1 DEF Begin, Requests
<1>2. CASE PreparationStep
  <2>1. phase \notin {"stack", "compose", "between", "down", "off"}
        /\ phase' \notin {"stack", "compose", "between", "down"}
    BY <1>2 DEF PreparationStep, CheckRuntime, ProbeImage, BuildLauncherLinux, InstallConfig,
                EnsureImage, PrepareBuildContext, RunBuild, PlanOverlays
  <2>2. UNCHANGED <<req, runErr>>
    BY <1>2 DEF PreparationStep, CheckRuntime, ProbeImage, BuildLauncherLinux, InstallConfig,
                EnsureImage, PrepareBuildContext, RunBuild, PlanOverlays
  <2> QED
    BY <2>1, <2>2
<1>3. CASE AgentStep
  BY <1>3 DEF AgentStep, Replace, RunAgent, AgentReturned, DockerCleanup
<1>4. CASE PtyMain \/ PtyWatcher \/ PtyAgent
  BY <1>4, PtyFrame
<1>5. CASE Signal
  <2>1. UNCHANGED <<req, runErr, down, stack>>
    BY <1>5 DEF Signal
  <2>2. (phase' = "off" /\ outcome' = "killed") \/ UNCHANGED <<phase, outcome>>
    BY <1>5 DEF Signal
  <2> QED
    BY <2>1, <2>2
<1>6. CASE Die
  BY <1>6 DEF Die
<1>7. CASE WorldStep
  BY <1>7 DEF WorldStep, OtherBuilds, RemoveImage, Upgrade
<1>8. CASE UNCHANGED vars
  BY <1>8 DEF vars
<1> QED
  BY <1>1, <1>2, <1>3, <1>4, <1>5, <1>6, <1>7, <1>8, StepCases, StackSteps

\* An interactive service stack is down when its launch ends, however it ran, or
\* taking it down has failed and the launch does not count as a success.
THEOREM StacksComeDown == Spec => []StackTornDown
<1>1. Init => StackInv
  BY DEF Init, StackInv, StackTornDown
<1>2. TypeOK /\ StackInv /\ [Next]_vars => StackInv'
  BY StackInvStep
<1>3. StackInv => StackTornDown
  BY DEF StackInv
<1> QED
  BY <1>1, <1>2, <1>3, TypeCorrect, PTL DEF Spec

-----------------------------------------------------------------------------
\* A copy of the executable that goes into an image is not older than the tag says.
ImageInv ==
    /\ phase = "check" => binary = None
    /\ tag \in Versions => tag <= exe
    /\ tag \in Versions /\ binary # None /\ binary.source = "copy" => tag <= binary.version
    /\ "launcher" \in temp => binary # None
    /\ phase \notin {"off", "check"} /\ tag \in Versions => req.launcher
    /\ phase = "build" /\ tag \in Versions => binary # None
    /\ CopiedImageIsCurrent

LEMMA ImageByPreparation ==
  ASSUME TypeOK, ImageInv, PreparationStep
  PROVE  ImageInv'
<1> USE VersionsAreNumbers, NamesDiffer
    DEF ImageInv, CopiedImageIsCurrent, TypeOK, Go, End, Abandon, still, prep, world
<1>1. CASE CheckRuntime
  BY <1>1 DEF CheckRuntime, Tags
<1>2. CASE ProbeImage \/ InstallConfig \/ EnsureImage
  BY <1>2 DEF ProbeImage, InstallConfig, EnsureImage
<1>3. CASE BuildLauncherLinux
  <2>1. UNCHANGED <<exe, tag, images, req>> /\ phase' # "build"
    BY <1>3 DEF BuildLauncherLinux
  <2>2. CASE UNCHANGED <<binary, temp>> /\ phase' = "off"
    BY <2>1, <2>2
  <2>3. CASE phase' = "config" /\ \E at \in BuildHosts : binary' = LinuxLauncher(at)
    <3>1. PICK at \in BuildHosts : binary' = LinuxLauncher(at)
      BY <2>3
    <3>2. binary' # None
      BY <3>1, LauncherMade
    <3>3. binary'.source = "copy" => binary'.version = exe
      BY <3>1, LauncherMade
    <3> QED
      BY <1>3, <2>1, <2>3, <3>2, <3>3 DEF BuildLauncherLinux
  <2> QED
    BY <1>3, <2>2, <2>3 DEF BuildLauncherLinux
<1>4. CASE PrepareBuildContext
  BY <1>4 DEF PrepareBuildContext
<1>5. CASE RunBuild
  BY <1>5 DEF RunBuild, Tags
<1>6. CASE PlanOverlays
  BY <1>6 DEF PlanOverlays
<1> QED
  BY <1>1, <1>2, <1>3, <1>4, <1>5, <1>6 DEF PreparationStep

LEMMA ImageStep ==
  ASSUME TypeOK, ImageInv, [Next]_vars
  PROVE  ImageInv'
<1> USE VersionsAreNumbers, NamesDiffer
    DEF ImageInv, CopiedImageIsCurrent, Go, End, still, prep, world
<1>1. CASE \E r \in Requests : Begin(r)
  BY <1>1 DEF Begin
<1>2. CASE AgentStep
  BY <1>2 DEF AgentStep, Replace, RunAgent, AgentReturned, DockerCleanup
<1>3. CASE StackStep
  BY <1>3 DEF StackStep, CheckStack, StackComesUp, ComposeEnds, StartDown, ComposeDown
<1>4. CASE PtyMain \/ PtyWatcher \/ PtyAgent
  BY <1>4, PtyFrame
<1>5. CASE Signal \/ Die
  BY <1>5 DEF Signal, Die
<1>6. CASE \E t \in Versions : OtherBuilds(t) \/ RemoveImage(t)
  BY <1>6 DEF OtherBuilds, RemoveImage, TypeOK
<1>7. CASE \E v \in Versions : Upgrade(v)
  <2>1. exe \in Nat /\ exe' \in Nat /\ exe' > exe
    BY <1>7 DEF Upgrade, TypeOK
  <2>2. UNCHANGED <<phase, req, tag, binary, temp, images>>
    BY <1>7 DEF Upgrade
  <2>3. tag \in Versions => tag \in Nat /\ tag <= exe'
    BY <2>1
  <2> QED
    BY <2>2, <2>3
<1>8. CASE UNCHANGED vars
  BY <1>8 DEF vars
<1> QED
  BY <1>1, <1>2, <1>3, <1>4, <1>5, <1>6, <1>7, <1>8, StepCases, ImageByPreparation DEF WorldStep

\* An image whose tag names a launcher does not hold an older copy of the
\* executable, whatever is upgraded, built or removed while it is made, and
\* whatever else images are made from.
THEOREM CopiesAreCurrent == Spec => []CopiedImageIsCurrent
<1>1. Init => ImageInv
  BY NamesDiffer DEF Init, ImageInv, CopiedImageIsCurrent
<1>2. TypeOK /\ ImageInv /\ [Next]_vars => ImageInv'
  BY ImageStep
<1>3. ImageInv => CopiedImageIsCurrent
  BY DEF ImageInv
<1> QED
  BY <1>1, <1>2, <1>3, TypeCorrect, PTL DEF Spec
=============================================================================

------------------------------- MODULE Execution -------------------------------
(***************************************************************************)
(* From a confirmed selection to the end of its run: the preparation of a  *)
(* container image (prepareDockerIfNeeded, EnsureImage), the overlays, the *)
(* agent on its terminal (PtySession) or in the place of the launcher      *)
(* (ReplaceWithEnv), and the service stack with its teardown               *)
(* (runComposeSession, runRuntimeCommand).                                 *)
(*                                                                         *)
(* SIGINT and SIGTERM cancel a context only while a NotifyContext is in    *)
(* force (Windows); at any other time they end the launcher where it is.   *)
(* Meanwhile other launchers build and remove images, and one of them may  *)
(* upgrade the launcher's own executable.                                  *)
(***************************************************************************)
EXTENDS PtySession, Naturals

CONSTANTS Versions,    \* of the launcher
          BuildHosts,  \* what a build of the Linux launcher may find: see Hosts
          MaxSignals,
          Bare,        \* the tags that name no launcher
          None

ASSUME VersionsAreNumbers == Versions \subseteq Nat
ASSUME SignalsAreCounted == MaxSignals \in Nat

\* linux: the launcher runs on Linux and finds its own executable. checkout: the
\* version of the source that GO_SRC_PATH, the embedded path or the working
\* directory leads to, if one of them does.
Hosts == [linux : BOOLEAN, checkout : Versions \cup {None}]
ASSUME BuildHostsAreHosts == BuildHosts \subseteq Hosts

Tags == Versions \cup {Bare}
Launchers == [version : Versions, source : {"checkout", "copy", "release"}]
ASSUME NamesDiffer ==
    Bare \notin Versions /\ Bare # None /\ None \notin Versions /\ None \notin Launchers

VARIABLES phase,       \* where the launch is; "off" between launches
          req,         \* what is launched
          exe,         \* the version of the executable on disk
          running,     \* the version of this process
          tag,         \* the image this launch looks for
          binary,      \* the Linux launcher it has made, or None
          images,      \* the launcher that the image of each tag holds
          temp,        \* its temporary files
          stack,       \* the containers of the service stack
          runErr,      \* how the stack's run ended
          down,        \* how its teardown ended
          signals,
          heard,       \* history: a signal was caught while something it ends ran
          outcome      \* how the last launch ended

prep == <<tag, binary, temp>>
world == <<exe, images, stack>>
vars == <<ptyVars, phase, req, running, prep, world, runErr, down, signals, heard, outcome>>

\* A plain agent, one in a container, a service stack. cli: there were
\* arguments, so the agent takes the launcher's place; launcher: the image
\* holds a launcher; gateway: loopback addresses in configurations are rewritten.
Requests == [kind : {"plain", "docker", "stack"}, cli : BOOLEAN, interactive : BOOLEAN,
             launcher : BOOLEAN, gateway : BOOLEAN]
Launchable(r) ==
    /\ r.kind # "docker" => ~r.launcher /\ ~r.gateway
    /\ r.kind # "stack" => r.interactive
    /\ r.kind = "stack" => ~r.cli

Windows == {"probe", "ensure", "build", "pty", "compose", "down"}
Phases == Windows \cup {"off", "check", "launcher", "config", "context", "overlay",
                        "execute", "cleanup", "stack", "between"}
Outcomes == Results \cup {"none", "killed", "replaced"}

TypeOK ==
    /\ PtyTypeOK
    /\ phase \in Phases
    /\ req \in Requests
    /\ exe \in Versions /\ running \in Versions
    /\ tag \in Tags /\ binary \in Launchers \cup {None}
    /\ images \in [Versions -> Launchers \cup {None}]
    /\ temp \subseteq {"launcher", "context", "overlay"}
    /\ stack \in {"up", "down"}
    /\ runErr \in Results \cup {"none"} /\ down \in Results \cup {"none"}
    /\ signals \in 0..MaxSignals
    /\ heard \in BOOLEAN
    /\ outcome \in Outcomes

Init ==
    /\ PtyIdle
    /\ phase = "off" /\ outcome = "none"
    /\ req \in {r \in Requests : Launchable(r)}
    /\ exe \in Versions /\ running = exe
    /\ tag = Bare /\ binary = None /\ temp = {}
    /\ images = [t \in Versions |-> None]
    /\ stack = "down"
    /\ runErr = "none" /\ down = "none"
    /\ signals = 0 /\ heard = FALSE

\* A process starts, and its operator confirms a selection. An earlier session
\* may have left a stack behind.
Begin(r) ==
    /\ phase = "off" /\ Launchable(r)
    /\ req' = r /\ running' = exe
    /\ phase' = CASE r.kind = "plain" -> "execute" [] r.kind = "docker" -> "check"
                  [] r.kind = "stack" -> "stack"
    /\ stack' \in IF r.kind = "stack" THEN {"up", "down"} ELSE {"down"}
    /\ tag' = Bare /\ binary' = None /\ temp' = {}
    /\ runErr' = "none" /\ down' = "none"
    /\ signals' = 0 /\ heard' = FALSE /\ outcome' = "none"
    /\ UNCHANGED <<ptyVars, exe, images>>

Go(p) == phase' = p /\ UNCHANGED outcome
End(how) == phase' = "off" /\ outcome' = how

\* A command of the container runtime has run, under a context of its own.
CommandOver == ctx' = "live" /\ UNCHANGED <<main, child, helper, unread, ptmx, watcher,
                                            host, copyErr, realCopyErr, reaped, result>>
stackVars == <<runErr, down>>
signalVars == <<signals, heard>>
still == <<req, running, stackVars, signalVars>>

\* The selection, the runtime and the daemon are good, and the tag is made: with
\* the hash of the executable, unless it cannot be read.
CheckRuntime ==
    /\ phase = "check"
    /\ \/ End("error") /\ UNCHANGED tag
       \/ /\ Go("probe")
          /\ tag' \in IF req.launcher THEN {exe, Bare} ELSE {Bare}
    /\ UNCHANGED <<ptyVars, still, binary, temp, world>>

\* image inspect: any failure of it, an interrupt too, is a miss. Images that
\* name no launcher come and go.
Inspected(hit) == hit => ctx = "live" /\ (tag \in Versions => images[tag] # None)

ProbeImage ==
    /\ phase = "probe"
    /\ \E hit \in BOOLEAN :
          Inspected(hit) /\ Go(IF req.launcher /\ ~hit THEN "launcher" ELSE "config")
    /\ CommandOver
    /\ UNCHANGED <<still, prep, world>>

\* Mutant: the copy is of the launcher that is running.
LinuxLauncher_Running(at) ==
    IF at.checkout # None THEN [version |-> at.checkout, source |-> "checkout"]
    ELSE [version |-> running, source |-> IF at.linux THEN "copy" ELSE "release"]

\* The Linux launcher: compiled from a checkout; without one a copy of the
\* executable on disk; or the verified release of the version that is running.
LinuxLauncher(at) ==
    IF at.checkout # None THEN [version |-> at.checkout, source |-> "checkout"]
    ELSE IF at.linux THEN [version |-> exe, source |-> "copy"]
    ELSE [version |-> running, source |-> "release"]

\* A checkout that does not compile is an error: nothing else is tried.
BuildLauncherLinux ==
    /\ phase = "launcher"
    /\ \/ End("error") /\ UNCHANGED <<binary, temp>>
       \/ /\ Go("config")
          /\ \E at \in BuildHosts : binary' = LinuxLauncher(at)
          /\ temp' = temp \cup {"launcher"}
    /\ UNCHANGED <<ptyVars, still, tag, world>>

\* An error of the preparation runs its deferred removals.
Abandon == End("error") /\ temp' = {}

InstallConfig ==
    /\ phase = "config"
    /\ \/ Abandon
       \/ Go("ensure") /\ UNCHANGED temp
    /\ UNCHANGED <<ptyVars, still, tag, binary, world>>

\* EnsureImage asks again.
EnsureImage ==
    /\ phase = "ensure"
    /\ \E hit \in BOOLEAN : Inspected(hit) /\ Go(IF hit THEN "overlay" ELSE "context")
    /\ CommandOver
    /\ UNCHANGED <<still, prep, world>>

\* An image that needs a launcher is not built without one.
PrepareBuildContext ==
    /\ phase = "context"
    /\ \/ Abandon
       \/ /\ req.launcher => "launcher" \in temp
          /\ Go("build")
          /\ temp' = temp \cup {"context"}
    /\ UNCHANGED <<ptyVars, still, tag, binary, world>>

\* An interrupted build fails, whatever the daemon made of it.
RunBuild ==
    /\ phase = "build"
    /\ \/ /\ ctx = "live"
          /\ images' = IF tag = Bare THEN images ELSE [images EXCEPT ![tag] = binary]
          /\ Go("overlay") /\ temp' = temp \ {"context"}
       \/ /\ Abandon
          /\ UNCHANGED images
    /\ CommandOver
    /\ UNCHANGED <<still, tag, binary, exe, stack>>

\* The overlays hold rewritten configurations, tokens included. The preparation
\* ends, removes its launcher and needs no more of what it knew.
PlanOverlays ==
    /\ phase = "overlay"
    /\ \/ Abandon
       \/ Go("execute") /\ temp' = IF req.gateway THEN {"overlay"} ELSE {}
    /\ tag' = Bare /\ binary' = None
    /\ UNCHANGED <<ptyVars, still, world>>

\* Mutant: a launcher that cannot become its agent has no error for it.
Replace_NoError ==
    /\ phase = "execute" /\ req.cli
    /\ (End("replaced") \/ Go("cleanup"))
    /\ result' = IF phase' = "cleanup" THEN "replaced" ELSE result
    /\ UNCHANGED <<main, child, helper, unread, ptmx, ctx, watcher, host, copyErr,
                   realCopyErr, reaped, still, prep, world>>

\* Started with arguments, the launcher becomes the agent; its memory of what
\* there is to clean up ends with it.
Replace ==
    /\ phase = "execute" /\ req.cli
    /\ (End("replaced") \/ Go("cleanup"))
    /\ result' = IF phase' = "cleanup" THEN "error" ELSE result
    /\ UNCHANGED <<main, child, helper, unread, ptmx, ctx, watcher, host, copyErr,
                   realCopyErr, reaped, still, prep, world>>

RunAgent ==
    /\ phase = "execute" /\ ~req.cli
    /\ Go("pty")
    /\ UNCHANGED <<ptyVars, still, prep, world>>

AgentReturned ==
    /\ phase = "pty" /\ main = "returned"
    /\ Go("cleanup")
    /\ UNCHANGED <<ptyVars, still, prep, world>>

\* Mutant: overlays are removed when the agent succeeded.
DockerCleanup_OnSuccess ==
    /\ phase = "cleanup"
    /\ End(result) /\ PtyReset
    /\ temp' = IF result = "ok" THEN {} ELSE temp
    /\ UNCHANGED <<still, tag, binary, world>>

DockerCleanup ==
    /\ phase = "cleanup"
    /\ End(result) /\ PtyReset
    /\ temp' = {}
    /\ UNCHANGED <<still, tag, binary, world>>

-----------------------------------------------------------------------------
\* launchCompose, once its artifacts are on disk.
CheckStack ==
    /\ phase = "stack"
    /\ End("error") \/ Go("compose")
    /\ UNCHANGED <<ptyVars, still, prep, world>>

StackComesUp ==
    /\ phase = "compose" /\ stack = "down"
    /\ stack' = "up"
    /\ UNCHANGED <<ptyVars, phase, outcome, still, prep, exe, images>>

\* What runRuntimeCommand makes of its child: an interrupt is passed on, the
\* child has a grace period, and it never counts as a success.
CommandResults == IF ctx = "live" THEN {"ok", "failed", "error"} ELSE {"failed", "cancelled"}

\* Mutant: an interrupted session leaves at once.
ComposeEnds_NoTeardown ==
    /\ phase = "compose"
    /\ \E r \in CommandResults :
          /\ runErr' = r
          /\ IF req.interactive /\ ctx = "live" THEN Go("between") ELSE End(r)
    /\ CommandOver
    /\ UNCHANGED <<req, running, down, signalVars, prep, world>>

ComposeEnds ==
    /\ phase = "compose"
    /\ \E r \in CommandResults :
          /\ runErr' = r
          /\ IF req.interactive THEN Go("between") ELSE End(r)
    /\ CommandOver
    /\ UNCHANGED <<req, running, down, signalVars, prep, world>>

StartDown ==
    /\ phase = "between"
    /\ Go("down")
    /\ UNCHANGED <<ptyVars, still, prep, world>>

\* The stack is taken down however the run ended; the run's error goes first.
ComposeDown ==
    /\ phase = "down"
    /\ \E d \in CommandResults :
          /\ down' = d
          /\ stack' \in IF d = "ok" THEN {"down"} ELSE {stack, "down"}
          /\ End(IF runErr # "ok" THEN runErr ELSE d)
    /\ CommandOver
    /\ UNCHANGED <<req, running, runErr, signalVars, prep, exe, images>>

-----------------------------------------------------------------------------
Ends == phase \notin {"probe", "ensure"} /\ (phase = "pty" => main # "returned")

\* SIGINT or SIGTERM. A second one in the same window changes nothing.
Signal ==
    /\ phase # "off" /\ signals < MaxSignals
    /\ signals' = signals + 1
    /\ IF phase \in Windows
       THEN /\ ctx' = "cancelled"
            /\ heard' = (heard \/ Ends)
            /\ UNCHANGED <<phase, outcome, main, child, helper, unread, ptmx, watcher, host,
                            copyErr, realCopyErr, reaped, result>>
       ELSE End("killed") /\ PtyReset /\ UNCHANGED heard
    /\ UNCHANGED <<req, running, stackVars, prep, world>>

\* The process is killed.
Die ==
    /\ phase # "off"
    /\ End("killed") /\ PtyReset
    /\ UNCHANGED <<still, prep, world>>

\* Other launchers, copied while nothing is upgraded, and whoever prunes images.
OtherBuilds(t) ==
    /\ images[t] = None
    /\ images' = [images EXCEPT ![t] = [version |-> t, source |-> "copy"]]
    /\ UNCHANGED <<ptyVars, phase, outcome, still, prep, exe, stack>>

RemoveImage(t) ==
    /\ images[t] # None
    /\ images' = [images EXCEPT ![t] = None]
    /\ UNCHANGED <<ptyVars, phase, outcome, still, prep, exe, stack>>

Upgrade(v) ==
    /\ v > exe
    /\ exe' = v
    /\ UNCHANGED <<ptyVars, phase, outcome, still, prep, images, stack>>

Pty(step) == step /\ UNCHANGED <<phase, outcome, still, prep, world>>

PtyMain == phase = "pty" /\ Pty(MainStep)
PtyWatcher == phase \in {"pty", "cleanup"} /\ Pty(WatcherStep)
PtyAgent == phase = "pty" /\ Pty(AgentWrites \/ AgentMoves)

Next ==
    \/ \E r \in Requests : Begin(r)
    \/ CheckRuntime \/ ProbeImage \/ BuildLauncherLinux \/ InstallConfig
    \/ EnsureImage \/ PrepareBuildContext \/ RunBuild \/ PlanOverlays
    \/ Replace \/ RunAgent \/ AgentReturned \/ DockerCleanup
    \/ CheckStack \/ StackComesUp \/ ComposeEnds \/ StartDown \/ ComposeDown
    \/ PtyMain \/ PtyWatcher \/ PtyAgent
    \/ Signal \/ Die
    \/ \E t \in Versions : OtherBuilds(t) \/ RemoveImage(t)
    \/ \E v \in Versions : Upgrade(v)

\* Both goroutines run on. Nothing is assumed of agents, helpers and commands.
Spec ==
    /\ Init /\ [][Next]_vars
    /\ WF_vars(PtyMain) /\ WF_vars(PtyWatcher)

-----------------------------------------------------------------------------
\* "Context cancel closes the PTY and SIGKILLs the whole group so a descendant
\* holding the slave cannot pin io.Copy forever" (executor.go:30-32): a signal
\* caught during the session ends it, whatever agent and helper do.
CancelEndsSession ==
    (phase = "pty" /\ main \in Session /\ ctx = "cancelled")
        ~> (phase # "pty" \/ main = "returned")

\* Without a signal the session ends once nobody holds the terminal and the
\* agent has gone (executor.go:80-92).
AgentEndsSession ==
    (phase = "pty" /\ main \in Session /\ ~SlaveHeld /\ child \notin Alive)
        ~> (phase # "pty" \/ main = "returned")

\* "Every post-start return path reaps the child" (executor.go:32-33), and after
\* a failed copy nothing of its group runs on.
NoOrphan ==
    main = "returned" /\ child # "none" =>
        /\ reaped /\ child \notin Alive
        /\ host = "cooked"
        /\ result = "error" => helper # "attached"

\* A launch ends well only if its agent did by itself, all of whose output was
\* passed on, and if no signal was caught while the agent, the build or the
\* stack ran.
SuccessIsTheAgents ==
    /\ main = "returned" /\ result = "ok" => child = "ok" /\ copyErr = "eio" /\ ~unread
    /\ phase = "off" /\ outcome = "ok" => ~heard

\* "The overlay copies may carry tokens ...: remove the whole temp dir after the
\* container exits, success or failure" (execution.go:194-195): for agents
\* that do not take the launcher's place and launchers that are not killed.
\* Build context and Linux launcher go the same way.
NothingLeftBehind ==
    phase = "off" /\ outcome \notin {"none", "killed", "replaced"} => temp = {}

\* The overlay cleanup is invoked "whether the run succeeded or failed" and
\* "can never be skipped by an early return" (execution.go:22-25).
OverlaysRemoved == phase = "off" /\ outcome \notin {"none", "killed"} => "overlay" \notin temp

\* "The interactive one-shot always stops the dependency stack afterwards -
\* including when the agent run failed or was interrupted" (launch_flow.go:186-188):
\* it is down, or taking it down was tried, failed and is not called a success.
StackTornDown ==
    phase = "off" /\ req.kind = "stack" /\ req.interactive /\ runErr # "none"
        /\ outcome # "killed" =>
      stack = "down" \/ (down \notin {"none", "ok"} /\ outcome # "ok")

\* An upgraded launcher does not run in an image that an older one built
\* (launcher_binary.go:25-30), where that image was given a copy of the
\* executable: the tag is of the executable when the launch began to look, the
\* copy of the one at the end of it, and upgrades only go forward.
CopiedImageIsCurrent ==
    \A t \in Versions :
        images[t] # None /\ images[t].source = "copy" => images[t].version >= t

\* "Hashing the host executable is enough: the Linux build is produced from the
\* same source" (launcher_binary.go:31-33), where no checkout is compiled. Not so
\* for the release, which is of the version that is running while the hash is of
\* the executable on disk.
UpgradesReachTheImage ==
    \A t \in Versions :
        images[t] # None /\ images[t].source # "checkout" => images[t].version >= t
=============================================================================

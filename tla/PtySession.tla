------------------------------ MODULE PtySession ------------------------------
(***************************************************************************)
(* PTYExecutor.RunWithEnv: the agent on a pseudo-terminal, the goroutine   *)
(* that copies its output and reaps it (main), and the goroutine that      *)
(* waits for the context to end (watcher).                                 *)
(*                                                                         *)
(* The agent may start a helper that holds the terminal too: attached in   *)
(* its process group, or escaped into a session of its own, where no kill  *)
(* of the group reaches it. Output is "unread" or not; the copy of stdin   *)
(* and window sizes have no state that matters here.                       *)
(***************************************************************************)
VARIABLES main,      \* where RunWithEnv is
          child,     \* the agent; detached: it runs without the terminal
          helper,
          unread,    \* there is output nobody has read
          ptmx,      \* the master side: "open" or "closed"
          ctx,       \* the context: "live" or "cancelled"
          watcher,   \* watchContextCancel
          host,      \* the operator's terminal: "cooked" or "raw"
          copyErr,   \* how the copy ended
          realCopyErr,
          reaped,
          result

ptyVars == <<main, child, helper, unread, ptmx, ctx, watcher, host, copyErr,
             realCopyErr, reaped, result>>

Results == {"ok", "failed", "cancelled", "error"}
Alive == {"running", "detached"}
Session == {"copy", "close", "kill", "wait", "judge"}

PtyTypeOK ==
    /\ main \in Session \cup {"off", "returned"}
    /\ child \in Alive \cup {"none", "ok", "failed", "killed"}
    /\ helper \in {"none", "attached", "escaped", "gone"}
    /\ unread \in BOOLEAN
    /\ ptmx \in {"open", "closed"}
    /\ ctx \in {"live", "cancelled"}
    /\ watcher \in {"off", "waiting", "killing", "done"}
    /\ host \in {"cooked", "raw"}
    /\ copyErr \in {"none", "eio", "closed", "write"}
    /\ realCopyErr \in BOOLEAN /\ reaped \in BOOLEAN
    /\ result \in Results \cup {"none"}

\* The values before a run.
PtyIdle ==
    /\ main = "off" /\ child = "none" /\ helper = "none" /\ unread = FALSE
    /\ ptmx = "closed" /\ ctx = "live" /\ watcher = "off" /\ host = "cooked"
    /\ copyErr = "none" /\ realCopyErr = FALSE /\ reaped = FALSE
    /\ result = "none"

PtyReset ==
    /\ main' = "off" /\ child' = "none" /\ helper' = "none" /\ unread' = FALSE
    /\ ptmx' = "closed" /\ ctx' = "live" /\ watcher' = "off" /\ host' = "cooked"
    /\ copyErr' = "none" /\ realCopyErr' = FALSE /\ reaped' = FALSE
    /\ result' = "none"

SlaveHeld == child = "running" \/ helper \in {"attached", "escaped"}

Return(r) == main' = "returned" /\ result' = r

\* A context that has ended already, or a command that does not start.
Refuse ==
    /\ main = "off"
    /\ Return(IF ctx = "cancelled" THEN "cancelled" ELSE "error")
    /\ UNCHANGED <<child, helper, unread, ptmx, ctx, watcher, host, copyErr, realCopyErr, reaped>>

\* pty.Start, watchContextCancel, prepareHostTTY: the host terminal becomes raw
\* if stdin is one and lets itself be switched.
Start ==
    /\ main = "off" /\ ctx = "live"
    /\ main' = "copy" /\ child' = "running" /\ ptmx' = "open" /\ watcher' = "waiting"
    /\ host' \in {"cooked", "raw"}
    /\ UNCHANGED <<helper, unread, ctx, copyErr, realCopyErr, reaped, result>>

\* io.Copy: output is passed on ...
CopyOutput ==
    /\ main = "copy" /\ ptmx = "open" /\ unread
    /\ unread' = FALSE
    /\ UNCHANGED <<main, child, helper, ptmx, ctx, watcher, host, copyErr, realCopyErr,
                   reaped, result>>

\* Mutant: EIO is taken for a pause.
CopyEnds_EioRetried ==
    /\ main = "copy"
    /\ \/ ptmx = "closed" /\ copyErr' = "closed"
       \/ ptmx = "open" /\ unread /\ copyErr' = "write"
    /\ main' = "close"
    /\ UNCHANGED <<child, helper, unread, ptmx, ctx, watcher, host, realCopyErr, reaped, result>>

\* ... until nobody holds the terminal, the master is closed or out fails.
CopyEnds ==
    /\ main = "copy"
    /\ \/ ptmx = "open" /\ ~unread /\ ~SlaveHeld /\ copyErr' = "eio"
       \/ ptmx = "closed" /\ copyErr' = "closed"
       \/ ptmx = "open" /\ unread /\ copyErr' = "write"
    /\ main' = "close"
    /\ UNCHANGED <<child, helper, unread, ptmx, ctx, watcher, host, realCopyErr, reaped, result>>

\* The master is closed, then the copy error is judged: EOF and EIO are none.
CloseMaster ==
    /\ main = "close"
    /\ ptmx' = "closed"
    /\ realCopyErr' = (copyErr # "eio" /\ ctx = "live")
    /\ main' = "kill"
    /\ UNCHANGED <<child, helper, unread, ctx, watcher, host, copyErr, reaped, result>>

\* killProcessGroup: the agent and what stayed in its group.
KillGroup ==
    /\ child' = IF child \in Alive THEN "killed" ELSE child
    /\ helper' = IF helper = "attached" THEN "gone" ELSE helper

\* Mutant: the group is only killed when the context has ended.
KillOnFailure_CancelOnly ==
    /\ main = "kill"
    /\ IF ctx = "cancelled" THEN KillGroup ELSE UNCHANGED <<child, helper>>
    /\ main' = "wait"
    /\ UNCHANGED <<unread, ptmx, ctx, watcher, host, copyErr, realCopyErr, reaped, result>>

KillOnFailure ==
    /\ main = "kill"
    /\ IF ctx = "cancelled" \/ realCopyErr THEN KillGroup ELSE UNCHANGED <<child, helper>>
    /\ main' = "wait"
    /\ UNCHANGED <<unread, ptmx, ctx, watcher, host, copyErr, realCopyErr, reaped, result>>

\* cmd.Wait.
Reap ==
    /\ main = "wait" /\ child \notin Alive
    /\ reaped' = TRUE
    /\ main' = "judge"
    /\ UNCHANGED <<child, helper, unread, ptmx, ctx, watcher, host, copyErr, realCopyErr, result>>

\* The deferred calls restore the terminal and stop the watcher; one that the
\* end of the context has woken goes on.
Leave ==
    /\ host' = "cooked"
    /\ watcher' = IF watcher = "waiting" /\ ctx = "live" THEN "done" ELSE watcher

\* Mutant: the agent's status is looked at first.
ReturnResult_StatusFirst ==
    /\ main = "judge"
    /\ Return(CASE child = "ok" -> "ok"
                [] ctx = "cancelled" -> "cancelled"
                [] realCopyErr -> "error"
                [] OTHER -> "failed")
    /\ Leave
    /\ UNCHANGED <<child, helper, unread, ptmx, ctx, copyErr, realCopyErr, reaped>>

\* The end of the context goes before the copy error, that before the status.
ReturnResult ==
    /\ main = "judge"
    /\ Return(CASE ctx = "cancelled" -> "cancelled"
                [] ctx = "live" /\ realCopyErr -> "error"
                [] ctx = "live" /\ ~realCopyErr /\ child = "ok" -> "ok"
                [] OTHER -> "failed")
    /\ Leave
    /\ UNCHANGED <<child, helper, unread, ptmx, ctx, copyErr, realCopyErr, reaped>>

\* Mutant: the watcher kills, and leaves the master open.
WatcherCloses_KillOnly ==
    /\ watcher = "waiting" /\ ctx = "cancelled"
    /\ watcher' = "killing"
    /\ UNCHANGED <<main, child, helper, unread, ptmx, ctx, host, copyErr, realCopyErr, reaped, result>>

\* The watcher closes the master, then kills the group.
WatcherCloses ==
    /\ watcher = "waiting" /\ ctx = "cancelled"
    /\ ptmx' = "closed"
    /\ watcher' = "killing"
    /\ UNCHANGED <<main, child, helper, unread, ctx, host, copyErr, realCopyErr, reaped, result>>

WatcherKills ==
    /\ watcher = "killing"
    /\ KillGroup
    /\ watcher' = "done"
    /\ UNCHANGED <<main, unread, ptmx, ctx, host, copyErr, realCopyErr, reaped, result>>

-----------------------------------------------------------------------------
\* The agent and its helper do as they like; nothing obliges them to end.
AgentWrites ==
    /\ SlaveHeld /\ ptmx = "open" /\ ~unread
    /\ unread' = TRUE
    /\ UNCHANGED <<main, child, helper, ptmx, ctx, watcher, host, copyErr, realCopyErr,
                   reaped, result>>

AgentMoves ==
    /\ \/ child = "running" /\ helper = "none" /\ helper' \in {"attached", "escaped"}
          /\ UNCHANGED child
       \/ child = "running" /\ child' = "detached" /\ UNCHANGED helper
       \/ child \in Alive /\ child' \in {"ok", "failed"} /\ UNCHANGED helper
       \/ helper \in {"attached", "escaped"} /\ helper' = "gone" /\ UNCHANGED child
    /\ UNCHANGED <<main, unread, ptmx, ctx, watcher, host, copyErr, realCopyErr, reaped, result>>

MainStep ==
    \/ Refuse \/ Start \/ CopyOutput \/ CopyEnds \/ CloseMaster \/ KillOnFailure
    \/ Reap \/ ReturnResult
WatcherStep == WatcherCloses \/ WatcherKills
PtyStep == MainStep \/ WatcherStep \/ AgentWrites \/ AgentMoves
=============================================================================

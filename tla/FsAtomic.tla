------------------------------ MODULE FsAtomic ------------------------------
(***************************************************************************)
(* internal/fsatomic: WriteTemp and WriteFile, stage by stage, run by      *)
(* several processes on one path, with every stage allowed to fail, with   *)
(* processes killed between two stages and with power losses.              *)
(*                                                                         *)
(* The writers in Unflushed are the generated-artifact writers             *)
(* (container.writeMaterializedArtifact, main.writeGeneratedArtifact and   *)
(* the write half of main.saveComposeApproval): the same stages without    *)
(* the Sync.                                                               *)
(*                                                                         *)
(* os.CreateTemp picks a random name that no file has; names are assumed   *)
(* never to be reused, so each writer's temporary is its own.              *)
(***************************************************************************)
CONSTANTS Writers, Unflushed, Contents,
          Missing,    \* the path does not exist
          Torn        \* an empty or partial content

ASSUME UnflushedAreWriters == Unflushed \subseteq Writers
ASSUME ContentsAreWhole == Missing \notin Contents /\ Torn \notin Contents
                           /\ Missing # Torn

VARIABLES link,       \* the file the path names in the running system
          onDisk,     \* the files it may name after a power loss
          temp,       \* each writer's temporary file
          pc,         \* the stage each writer's call is about to run
          arg,        \* the data of the call
          outcome     \* how the last call of each writer ended

vars == <<link, onDisk, temp, pc, arg, outcome>>

\* A file: its data as a reader sees them, whether they have been flushed,
\* and whether its mode is the one CreateTemp chose or the caller's.
File == [data : Contents \cup {Missing, Torn}, flushed : BOOLEAN,
         mode : {"created", "asked"}]

NoFile == [data |-> Missing, flushed |-> TRUE, mode |-> "asked"]
Whole(d) == [data |-> d, flushed |-> TRUE, mode |-> "asked"]

Stages == {"create", "write", "protect", "flush", "close", "replace"}

TypeOK == /\ link \in File
          /\ onDisk \subseteq File
          /\ temp \in [Writers -> File]
          /\ pc \in [Writers -> Stages \cup {"idle"}]
          /\ arg \in [Writers -> Contents]
          /\ outcome \in [Writers -> {"none", "ok", "error", "killed"}]

Init == /\ link \in {NoFile} \cup {Whole(d) : d \in Contents}
        /\ onDisk = {link}
        /\ temp = [w \in Writers |-> NoFile]
        /\ pc = [w \in Writers |-> "idle"]
        /\ arg \in [Writers -> Contents]
        /\ outcome = [w \in Writers |-> "none"]

Advance(w, from, to) == pc[w] = from /\ pc' = [pc EXCEPT ![w] = to]

\* A process calls WriteFile(path, d, mode, pattern). What a killed process
\* left behind keeps its name and is nobody's temporary from now on.
Call(w, d) ==
    /\ Advance(w, "idle", "create")
    /\ temp' = [temp EXCEPT ![w] = NoFile]
    /\ arg' = [arg EXCEPT ![w] = d]
    /\ outcome' = [outcome EXCEPT ![w] = "none"]
    /\ UNCHANGED <<link, onDisk>>

\* CreateTemp succeeds: an empty file under a fresh name beside path.
CreateTemp(w) ==
    /\ Advance(w, "create", "write")
    /\ temp' = [temp EXCEPT ![w] = [data |-> Torn, flushed |-> FALSE, mode |-> "created"]]
    /\ UNCHANGED <<link, onDisk, arg, outcome>>

\* Mutant: a short write goes unnoticed.
Write_Short(w) ==
    /\ Advance(w, "write", "protect")
    /\ UNCHANGED <<link, onDisk, temp, arg, outcome>>

Write(w) ==
    /\ Advance(w, "write", "protect")
    /\ temp' = [temp EXCEPT ![w].data = arg[w]]
    /\ UNCHANGED <<link, onDisk, arg, outcome>>

\* Mutant: the mode is left for later.
Chmod_Skipped(w) ==
    /\ Advance(w, "protect", "flush")
    /\ UNCHANGED <<link, onDisk, temp, arg, outcome>>

\* Mutant: nobody flushes.
Chmod_NoSync(w) ==
    /\ Advance(w, "protect", "close")
    /\ temp' = [temp EXCEPT ![w].mode = "asked"]
    /\ UNCHANGED <<link, onDisk, arg, outcome>>

Chmod(w) ==
    /\ Advance(w, "protect", IF w \in Unflushed THEN "close" ELSE "flush")
    /\ temp' = [temp EXCEPT ![w].mode = "asked"]
    /\ UNCHANGED <<link, onDisk, arg, outcome>>

Sync(w) ==
    /\ Advance(w, "flush", "close")
    /\ temp' = [temp EXCEPT ![w].flushed = TRUE]
    /\ UNCHANGED <<link, onDisk, arg, outcome>>

Close(w) ==
    /\ Advance(w, "close", "replace")
    /\ UNCHANGED <<link, onDisk, temp, arg, outcome>>

\* WriteFile's rename: the path names the temporary's file from now on; the
\* deferred Remove then finds no file of the temporary's name.
Rename(w) ==
    /\ Advance(w, "replace", "idle")
    /\ link' = temp[w]
    /\ onDisk' = onDisk \cup {temp[w]}
    /\ temp' = [temp EXCEPT ![w] = NoFile]
    /\ outcome' = [outcome EXCEPT ![w] = "ok"]
    /\ UNCHANGED arg

\* Mutant: an early return without the deferred Remove.
Fail_KeepsTemp(w) ==
    /\ pc[w] \in Stages
    /\ pc' = [pc EXCEPT ![w] = "idle"]
    /\ outcome' = [outcome EXCEPT ![w] = "error"]
    /\ UNCHANGED <<link, onDisk, temp, arg>>

\* Mutant: the call never comes back.
Fail_Hangs(w) ==
    /\ pc[w] \in Stages
    /\ pc' = [pc EXCEPT ![w] = "stuck"]
    /\ temp' = [temp EXCEPT ![w] = NoFile]
    /\ UNCHANGED <<link, onDisk, arg, outcome>>

\* Any stage may fail: the temporary is removed and the error is returned.
Fail(w) ==
    /\ pc[w] \in Stages
    /\ pc' = [pc EXCEPT ![w] = "idle"]
    /\ temp' = [temp EXCEPT ![w] = NoFile]
    /\ outcome' = [outcome EXCEPT ![w] = "error"]
    /\ UNCHANGED <<link, onDisk, arg>>

\* The process dies inside the call; no deferred function runs and the
\* temporary stays where it is.
Kill(w) ==
    /\ pc[w] \in Stages
    /\ pc' = [pc EXCEPT ![w] = "idle"]
    /\ outcome' = [outcome EXCEPT ![w] = "killed"]
    /\ UNCHANGED <<link, onDisk, temp, arg>>

\* The kernel writes everything back.
Writeback ==
    /\ link' = [link EXCEPT !.flushed = TRUE]
    /\ onDisk' = {link'}
    /\ UNCHANGED <<temp, pc, arg, outcome>>

\* After a power loss the path names one of the files whose rename may have
\* reached the disk; data that were never flushed may be lost.
AfterLoss(f) == {[f EXCEPT !.flushed = TRUE]}
                \cup (IF f.flushed THEN {} ELSE {[f EXCEPT !.flushed = TRUE, !.data = Torn]})

PowerLoss ==
    /\ \E f \in onDisk : link' \in AfterLoss(f)
    /\ onDisk' = {link'}
    /\ pc' = [w \in Writers |-> "idle"]
    /\ outcome' = [w \in Writers |-> IF pc[w] = "idle" THEN outcome[w] ELSE "killed"]
    /\ UNCHANGED <<temp, arg>>

Next == \/ \E w \in Writers :
             \/ \E d \in Contents : Call(w, d)
             \/ CreateTemp(w) \/ Write(w) \/ Chmod(w) \/ Sync(w) \/ Close(w)
             \/ Rename(w) \/ Fail(w) \/ Kill(w)
        \/ Writeback
        \/ PowerLoss

Spec == Init /\ [][Next]_vars

-----------------------------------------------------------------------------
\* Whoever opens the path finds no file or one complete content, readable at
\* the caller's mode: "a reader never observes a half-written file"
\* (fsatomic.go:1) and the chmod-before-rename of fsatomic.go:78.
NeverTorn == link = NoFile \/ (link.data \in Contents /\ link.mode = "asked")

\* A power loss leaves the old or the new content, never the "empty file where
\* the old one used to be" of fsatomic.go:86: every file the path may name
\* after a restart is flushed and complete.
CrashSafe == \A f \in onDisk : f.flushed /\ f.data # Torn

\* Only a process that died leaves a temporary behind: on any returned error,
\* and after a rename, it is gone (fsatomic.go:59).
ErrorsLeaveNoTemporary ==
    \A w \in Writers : pc[w] = "idle" /\ temp[w] # NoFile => outcome[w] = "killed"

\* Concurrent calls, failures, kills and power losses together look like whole
\* contents replaced one at a time.
Abs == INSTANCE AtomicFile WITH content <- link.data,
                                fallback <- {f.data : f \in onDisk}
RefinesAtomicFile == Abs!Spec
=============================================================================

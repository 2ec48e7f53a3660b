---------------------------- MODULE LaunchSession ----------------------------
(***************************************************************************)
(* One launcher session after another in one workspace: what reaches the   *)
(* options block of the workspace file (cmd/ai-launcher: launch,           *)
(* confirmSelection, launchSingle; internal/tui: loadProfile).             *)
(*                                                                         *)
(* In a TUI session the operator edits a selection, loads and saves        *)
(* profiles and runs it; running autosaves, a failed run re-opens the TUI, *)
(* and a 409 of the memory server arms a recovery workstream for the retry.*)
(* A CLI session saves or runs once. Where the selection comes from and    *)
(* whether the file is trusted is ConfigStore's business.                  *)
(***************************************************************************)
CONSTANTS Toggles,     \* the options nothing here tells apart
          Composed,    \* those that start a service stack (docker and services)
          Normal,      \* what the start makes of those it reads
          Forces,      \* the values of force_unlock
          Names,       \* profiles
          None         \* no options block, no profile loaded

ASSUME ComposedAreToggles == Composed \subseteq Toggles
ASSUME NormalIsNormal ==
    Normal \in [Toggles -> Toggles] /\ \A t \in Toggles : Normal[Normal[t]] = Normal[t]
ASSUME ForcesAreBooleans == Forces \subseteq BOOLEAN

\* What optionsFromLaunch projects; new is the New workstream name: none, one
\* the operator typed, or recovery-<time>.
Options == [rest : Toggles, force : Forces, new : {"off", "own", "recovery"}]

ASSUME NoneIsNoOptions == None \notin Options

VARIABLES file,        \* the options block of the workspace file
          base,        \* r.local.Options: as loaded when the session began, and normalised
          sel,         \* r.launchConfig, and the TUI model's copy of it
          profileSelection, \* what the last profile load of this screen produced
          profiles,    \* the options block of each profile
          autoArmedNew,
          phase,       \* "off", "cli", "screen", "run"
          outcome,     \* how the last session ended
          lastLoaded,  \* history: the last profile load of the session
          kept,        \* history: the last autosave kept the file's options
          lost         \* history: a save of this session failed

session == <<base, sel, profileSelection, autoArmedNew>>
history == <<lastLoaded, kept, lost>>
vars == <<file, session, profiles, phase, outcome, history>>

TypeOK ==
    /\ file \in Options /\ base \in Options /\ sel \in Options
    /\ profileSelection \in Options \cup {None}
    /\ profiles \in [Names -> Options \cup {None}]
    /\ autoArmedNew \in BOOLEAN
    /\ phase \in {"off", "cli", "screen", "run"}
    /\ outcome \in {"none", "ok", "error", "killed"}
    /\ lastLoaded \in Options \cup {None}
    /\ kept \in BOOLEAN /\ lost \in BOOLEAN

\* Services turn the container on and the jail off, and an agent without memory
\* or yolo loses the option.
Normalized(o) == [o EXCEPT !.rest = Normal[@]]

Init ==
    /\ file \in {o \in Options : o.new # "recovery"}
    /\ base = Normalized(file) /\ sel = base
    /\ profileSelection = None
    /\ profiles \in [Names -> {o \in Options : o.new # "recovery"} \cup {None}]
    /\ autoArmedNew = FALSE
    /\ phase = "off" /\ outcome = "none"
    /\ lastLoaded = None
    /\ kept = FALSE /\ lost = FALSE

\* A save of the options block o, which may fail and leave the file as it is.
Save(o) ==
    \/ file' = o /\ lost' = lost
    \/ file' = file /\ lost' = TRUE

\* run: a session begins; without arguments it is a TUI session.
Begin ==
    /\ phase = "off"
    /\ phase' \in {"cli", "screen"}
    /\ base' = Normalized(file) /\ sel' = base'
    /\ profileSelection' = None /\ autoArmedNew' = FALSE
    /\ outcome' = "none"
    /\ lastLoaded' = None
    /\ kept' = FALSE /\ lost' = FALSE
    /\ UNCHANGED <<file, profiles>>

End(how) == phase' = "off" /\ outcome' = how

\* A CLI session with --save saves the flags' selection, normalised, and ends.
CliSave(o) ==
    /\ phase = "cli" /\ Normalized(o) = o
    /\ o.new # "recovery" \/ o.new = sel.new
    /\ sel' = o
    /\ Save(o)
    /\ End(IF lost' THEN "error" ELSE "ok")
    /\ UNCHANGED <<base, profileSelection, profiles, autoArmedNew, lastLoaded, kept>>

\* ... without it, it runs the selection once and saves nothing.
CliRun(o) ==
    /\ phase = "cli" /\ Normalized(o) = o
    /\ o.new # "recovery" \/ o.new = sel.new
    /\ sel' = o
    /\ \E how \in {"ok", "error"} : End(how)
    /\ kept' = TRUE
    /\ UNCHANGED <<file, base, profileSelection, profiles, autoArmedNew, lastLoaded,
                   lost>>

\* The operator changes the selection by hand.
Edit(o) ==
    /\ phase = "screen"
    /\ o # sel
    /\ o.new # "recovery" \/ o.new = sel.new
    /\ sel' = o
    /\ UNCHANGED <<file, base, profileSelection, profiles, autoArmedNew, phase, outcome, history>>

\* Mutant: a profile without an options block is read as having one.
LoadProfile_NoBlock(n) ==
    /\ phase = "screen"
    /\ sel' = profiles[n]
    /\ profileSelection' = sel'
    /\ lastLoaded' = sel'
    /\ UNCHANGED <<file, base, profiles, autoArmedNew, phase, outcome, kept, lost>>

\* loadProfile: the profile's options replace the selection's, but for
\* force_unlock, and the ProfileLoaded hook takes a snapshot.
LoadProfile(n) ==
    /\ phase = "screen"
    /\ sel' = IF profiles[n] = None THEN sel ELSE [profiles[n] EXCEPT !.force = sel.force]
    /\ profileSelection' = sel'
    /\ lastLoaded' = sel'
    /\ UNCHANGED <<file, base, profiles, autoArmedNew, phase, outcome, kept, lost>>

\* Ctrl+P.
SaveProfile(n) ==
    /\ phase = "screen"
    /\ profiles' = [profiles EXCEPT ![n] = sel]
    /\ UNCHANGED <<file, session, phase, outcome, history>>

\* Ctrl+S.
SaveLocal ==
    /\ phase = "screen"
    /\ Save(sel)
    /\ UNCHANGED <<session, profiles, phase, outcome, lastLoaded, kept>>

\* r: the selection is confirmed and autosaved, best effort; a profile loaded
\* on this screen and not edited leaves the options block as the session began.
KeepOptions == profileSelection # None /\ profileSelection = sel

\* Mutant: the autosave writes the selection the session began with.
Confirm_SavesBase ==
    /\ phase = "screen"
    /\ Save(base)
    /\ phase' = "run"
    /\ kept' = KeepOptions
    /\ UNCHANGED <<session, profiles, outcome, lastLoaded>>

Confirm ==
    /\ phase = "screen"
    /\ Save(IF KeepOptions THEN base ELSE sel)
    /\ phase' = "run"
    /\ kept' = KeepOptions
    /\ UNCHANGED <<session, profiles, outcome, lastLoaded>>

\* q: ErrCancelled.
Quit ==
    /\ phase = "screen"
    /\ End("error")
    /\ UNCHANGED <<file, session, profiles, history>>

\* launchCompose: it runs once and the session ends either way.
LaunchCompose ==
    /\ phase = "run"
    /\ sel.rest \in Composed
    /\ \E how \in {"ok", "error"} : End(how)
    /\ UNCHANGED <<file, session, profiles, history>>

\* Mutant: the recovery name is taken out of the selection only.
Succeed_Unsaved ==
    /\ phase = "run"
    /\ sel.rest \notin Composed
    /\ sel' = IF autoArmedNew THEN [sel EXCEPT !.new = "off"] ELSE sel
    /\ End("ok")
    /\ UNCHANGED <<file, base, profileSelection, profiles, autoArmedNew, history>>

\* launchSingle, when the agent ran to its end: a name armed for recovery is
\* taken out again, of the selection and of the file.
Succeed ==
    /\ phase = "run"
    /\ sel.rest \notin Composed
    /\ IF autoArmedNew /\ sel.new # "off"
       THEN sel' = [sel EXCEPT !.new = "off"] /\ Save(sel')
       ELSE UNCHANGED <<sel, file, lost>>
    /\ End("ok")
    /\ UNCHANGED <<base, profileSelection, profiles, autoArmedNew, lastLoaded, kept>>

\* launchSingle, when pre-flight or the container preparation refuses.
Refuse ==
    /\ phase = "run"
    /\ sel.rest \notin Composed
    /\ End("error")
    /\ UNCHANGED <<file, session, profiles, history>>

\* launchSingle, when the agent failed: the screen is opened again with the
\* selection that failed. A 409 arms a recovery name if there is no name yet.
Fail ==
    /\ phase = "run"
    /\ sel.rest \notin Composed
    /\ phase' = "screen"
    /\ profileSelection' = None
    /\ \/ UNCHANGED <<sel, autoArmedNew>>
       \/ /\ sel.new = "off"
          /\ sel' = [sel EXCEPT !.new = "recovery"]
          /\ autoArmedNew' = TRUE
    /\ UNCHANGED <<file, base, profiles, outcome, history>>

\* The process dies.
Kill ==
    /\ phase # "off"
    /\ End("killed")
    /\ UNCHANGED <<file, session, profiles, history>>

Next ==
    \/ Begin
    \/ \E o \in Options : CliSave(o) \/ CliRun(o) \/ Edit(o)
    \/ \E n \in Names : LoadProfile(n) \/ SaveProfile(n)
    \/ SaveLocal \/ Confirm \/ Quit
    \/ LaunchCompose \/ Succeed \/ Refuse \/ Fail \/ Kill

Spec == Init /\ [][Next]_vars

Confirmed == phase = "screen" /\ phase' = "run"
Succeeded == phase = "off" /\ outcome = "ok"

-----------------------------------------------------------------------------
\* The session that armed a recovery name leaves none in the file once its
\* agent ran to the end (launch_flow.go:62), unless the file had one already,
\* a save failed or a service stack ran.
RecoveryClearedOnSuccess ==
    /\ Succeeded /\ autoArmedNew /\ ~lost
    /\ base.new # "recovery" /\ sel.rest \notin Composed
    => file.new # "recovery"

\* "Running with r also autosaves, so the next open restores it" (README:768):
\* what ran last is in the file, but for unedited profiles and failed saves.
LastRunRestored == Succeeded /\ ~kept /\ ~lost => file = sel

\* "The autosave keeps the file's own options block whenever the launch matches"
\* the selection a profile load produced (ARCHITECTURE.md:104-106), for a file that
\* the start did not change and nothing of this session has. Not so once a run has
\* failed: the screen that is opened again knows of no profile.
UneditedProfileKeepsFile ==
    [][Confirmed /\ lastLoaded # None /\ lastLoaded = sel /\ file = base => file' = file]_vars

\* "keepOptions leaves the file's existing options block alone"
\* (persistence_helpers.go:17). Not so: it writes the block the session began with,
\* which the start has normalised and a Ctrl+S may have replaced since.
KeptOptionsAreTheFiles == [][Confirmed /\ KeepOptions => file' = file]_vars
=============================================================================

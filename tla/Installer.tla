-------------------------------- MODULE Installer --------------------------------
(***************************************************************************)
(* --install and --upgrade of one catalog entry: a GitHub release          *)
(* (installOne, Install) or a script behind an HTTPS address               *)
(* (InstallSource), one installer at a time, which may be killed anywhere. *)
(*                                                                         *)
(* There are two places: "home" is the configured target (~/.local/bin),   *)
(* "system" a directory of PATH that may hold the command too. A place has *)
(* a file or Nothing, and a row of the install state, which is keyed by    *)
(* the target.                                                             *)
(***************************************************************************)
EXTENDS SourceHealth, Naturals

CONSTANTS MaxRelease,       \* releases, and versions of a source script, are 1..MaxRelease
          ScriptShapes,     \* the <<text, saying>> of the scripts that are published
          Nothing           \* no file, no row

ASSUME MaxReleaseIsPositive == MaxRelease \in Nat \ {0}
ASSUME ShapesAreScripts ==
    ScriptShapes \subseteq (Texts \ {"native"}) \X Sayings

Places == {"home", "system"}
Numbers == 0..MaxRelease
Files == [text : Texts, says : Sayings, from : {"user", "script", "product", "release", "damaged"},
          n : Numbers]
NoFile == [text |-> "native", says |-> "nothing", from |-> "damaged", n |-> 0]
Rows == [kind : {"release", "wrapper", "installer"}, at : Places, of : Files]

ASSUME NothingIsNothing == Nothing \notin Files /\ Nothing \notin Rows

Script(shape, n) == [text |-> shape[1], says |-> shape[2], from |-> "script", n |-> n]
Release(n) == [text |-> "native", says |-> "version", from |-> "release", n |-> n]
Damaged(n) == [text |-> "native", says |-> "nothing", from |-> "damaged", n |-> n]
UserCommand == [text |-> "native", says |-> "version", from |-> "user", n |-> 0]
Product(text, says, n) == [text |-> text, says |-> says, from |-> "product", n |-> n]

VARIABLES recipe,      \* the catalog entry
          latest,      \* the release, or the script, that is published now
          disk,        \* the file in each place
          rows,        \* the install state
          step,        \* where the installer is
          place,       \* the target
          data,        \* what it has resolved or downloaded
          loaded,      \* the state as it has read it
          previous,    \* backupFile
          record,      \* what it will put into the state
          status,      \* and report
          found,       \* history: the home file at the start
          strayed,     \* history: a vendor's command was found outside its target
          outcome      \* "none" while it runs

world == <<disk, rows>>
local == <<loaded, previous, record, status>>
installVars == <<recipe, latest, world, step, place, data, local, found, strayed, outcome>>

Recipes == [way : {"release", "source"}, sums : {"api", "asset", "body", "none"},
            allowUnverified : BOOLEAN, configured : BOOLEAN, force : BOOLEAN]

Steps == {"off", "resolve", "load", "download", "write", "save",
          "fetch", "existing", "store", "probe", "clear", "run", "judge",
          "reload", "record"}

InstallTypeOK ==
    /\ recipe \in Recipes
    /\ latest \in Files
    /\ disk \in [Places -> Files \cup {Nothing}]
    /\ rows \in [Places -> Rows \cup {Nothing}]
    /\ step \in Steps /\ place \in Places
    /\ data \in Files \cup {Nothing}
    /\ loaded \in [Places -> Rows \cup {Nothing}]
    /\ previous \in Files \cup {Nothing}
    /\ record \in Rows \cup {Nothing}
    /\ status \in {"none", "installed", "current"}
    /\ found \in Files \cup {Nothing} /\ strayed \in BOOLEAN
    /\ outcome \in {"none", "installed", "current", "failed", "unrecorded", "killed"}

NoRows == [p \in Places |-> Nothing]

Forget == loaded' = NoRows /\ previous' = Nothing /\ record' = Nothing /\ status' = "none"

InstallIdle ==
    /\ step = "off" /\ place = "home" /\ data = Nothing /\ loaded = NoRows
    /\ previous = Nothing /\ record = Nothing /\ status = "none"
    /\ found = Nothing /\ strayed = FALSE /\ outcome = "none"
    /\ rows = NoRows

InstallInit ==
    /\ InstallIdle
    /\ recipe \in {r \in Recipes : r.way = "source" => r.sums = "none" /\ r.configured}
    /\ latest \in IF recipe.way = "release" THEN {Release(1)}
                  ELSE {Script(s, 1) : s \in ScriptShapes}
    /\ disk \in [Places -> {Nothing, UserCommand}]

\* The publisher moves on.
Publish ==
    /\ latest.n < MaxRelease
    /\ latest' \in IF recipe.way = "release" THEN {Release(latest.n + 1)}
                   ELSE {Script(s, latest.n + 1) : s \in ScriptShapes}
    /\ UNCHANGED <<recipe, world, step, place, data, local, found, strayed, outcome>>

To(next) == step' = next /\ UNCHANGED outcome
Done(how) == step' = "off" /\ outcome' = how

Executable(p) == disk[p] # Nothing

\* installOne: an entry without a path follows the command that is on PATH. A
\* source entry must allow that nothing vouches for it.
InstallOne(force) ==
    /\ step = "off"
    /\ recipe' = [recipe EXCEPT !.force = force]
    /\ found' = disk["home"]
    /\ outcome' = "none" /\ UNCHANGED strayed
    /\ IF recipe.way = "release"
       THEN /\ step' = "resolve"
            /\ place' = IF ~recipe.configured /\ Executable("system") THEN "system" ELSE "home"
       ELSE recipe.allowUnverified /\ step' = "fetch" /\ place' = "home"
    /\ UNCHANGED <<latest, world, data, local>>

\* An error before anything is in place, and one of the state file after.
Fail(at) ==
    /\ step = at
    /\ Done(IF at \in {"save", "reload", "record"} THEN "unrecorded" ELSE "failed")
    /\ Forget
    /\ UNCHANGED <<recipe, latest, world, place, data, found, strayed>>

\* Between two runs the operator removes a command.
Uninstall(p) ==
    /\ step = "off" /\ disk[p] # Nothing
    /\ disk' = [disk EXCEPT ![p] = Nothing]
    /\ outcome' = "none"
    /\ UNCHANGED <<recipe, latest, rows, step, place, data, local, found, strayed>>

-----------------------------------------------------------------------------
(* Releases. *)

ResolveInstall ==
    /\ step = "resolve"
    /\ data' = latest /\ To("load")
    /\ UNCHANGED <<recipe, latest, world, place, local, found, strayed>>

\* Mutant: any row and any executable are current.
InstallIsCurrent_AnyTag(state) ==
    ~recipe.force /\ Executable(place) /\ state[place] # Nothing

InstallIsCurrent(state) ==
    /\ ~recipe.force /\ Executable(place)
    /\ state[place] # Nothing
    /\ state[place].kind = "release" /\ state[place].of = data

\* The state is read before the download and written back after it.
LoadState ==
    /\ step = "load"
    /\ IF InstallIsCurrent(rows) THEN Done("current") /\ Forget
       ELSE To("download") /\ loaded' = rows /\ UNCHANGED <<previous, record, status>>
    /\ UNCHANGED <<recipe, latest, world, place, data, found, strayed>>

\* The digest of the API, else the checksum asset, else the release notes, else
\* the entry's word that nothing is needed.
VerifyChecksum(intact) ==
    IF recipe.sums = "none" THEN recipe.allowUnverified ELSE intact

DownloadVerifiedBinary ==
    /\ step = "download"
    /\ \E intact \in BOOLEAN :
          /\ VerifyChecksum(intact)
          /\ data' = IF intact THEN data ELSE Damaged(data.n)
    /\ To("write")
    /\ UNCHANGED <<recipe, latest, world, place, local, found, strayed>>

\* installFile; the state file names the release that was resolved.
InstallRelease ==
    /\ step = "write"
    /\ disk' = [disk EXCEPT ![place] = data]
    /\ record' = [kind |-> "release", at |-> place, of |-> Release(data.n)]
    /\ To("save")
    /\ UNCHANGED <<recipe, latest, rows, place, data, loaded, previous, status, found, strayed>>

\* A command found in a directory that is not the operator's to write: once more,
\* in the home directory.
RetryAtHome ==
    /\ step = "write" /\ place = "system" /\ ~recipe.configured
    /\ place' = "home" /\ loaded' = NoRows
    /\ To("resolve")
    /\ UNCHANGED <<recipe, latest, world, data, previous, record, status, found, strayed>>

SaveState ==
    /\ step = "save"
    /\ rows' = [loaded EXCEPT ![place] = record]
    /\ Done("installed") /\ Forget
    /\ UNCHANGED <<recipe, latest, disk, place, data, found, strayed>>

-----------------------------------------------------------------------------
(* Source scripts: the target is home. *)

Fetch ==
    /\ step = "fetch"
    /\ data' = latest
    /\ To(IF recipe.force THEN "store" ELSE "existing")
    /\ UNCHANGED <<recipe, latest, world, place, local, found, strayed>>

Probes(file) == {ClassifyProbe(file.says, ok) : ok \in BOOLEAN}

Record(kind, at, reported) ==
    /\ record' = [kind |-> kind, at |-> at, of |-> data]
    /\ status' = reported
    /\ step' = "reload"
    /\ UNCHANGED <<loaded, previous, outcome>>

\* existingSourceResult: a file that is current and answers is left alone.
ExistingSourceResult ==
    /\ step = "existing"
    /\ LET row == rows["home"]
           verdict == IF disk["home"] = Nothing THEN "nothing"
                      ELSE DecideExisting(disk["home"], data,
                              IF row = Nothing THEN "" ELSE row.kind,
                              IF row = Nothing THEN NoFile ELSE row.of)
       IN  \/ /\ verdict \in {"current-wrapper", "current-produced"}
              /\ Probes(disk["home"]) \cap {"healthy", "silent"} # {}
              /\ Record(IF verdict = "current-wrapper" THEN "wrapper" ELSE "installer",
                        "home", "current")
           \/ /\ verdict \in {"current-wrapper", "current-produced"} =>
                    Probes(disk["home"]) \ {"healthy", "silent"} # {}
              /\ To("store") /\ UNCHANGED local
    /\ UNCHANGED <<recipe, latest, world, place, data, found, strayed>>

\* A script without the marks of an installer becomes the command ...
StoreWrapper ==
    /\ step = "store"
    /\ IF LooksLikeInstaller(data) THEN To("clear") /\ UNCHANGED disk
       ELSE To("probe") /\ disk' = [disk EXCEPT !["home"] = data]
    /\ UNCHANGED <<recipe, latest, rows, place, data, local, found, strayed>>

\* ... if it answers like one; if it answers like an installer it is run.
ProbeWrapper ==
    /\ step = "probe"
    /\ \E verdict \in Probes(data) :
          \/ verdict \in {"healthy", "silent"} /\ Record("wrapper", "home", "installed")
          \/ verdict = "installer-like" /\ To("clear") /\ UNCHANGED local
          \/ verdict = "failed" /\ Done("failed") /\ Forget
    /\ UNCHANGED <<recipe, latest, world, place, data, found, strayed>>

\* backupFile, removeStaleInstallerScript: only a script is ever removed.
ClearTarget ==
    /\ step = "clear"
    /\ previous' = disk["home"]
    /\ LET stale == /\ disk["home"] # Nothing /\ IsScript(disk["home"])
                    /\ disk["home"] = data \/ LooksLikeInstaller(disk["home"])
       IN  disk' = IF stale THEN [disk EXCEPT !["home"] = Nothing] ELSE disk
    /\ To("run")
    /\ UNCHANGED <<recipe, latest, rows, place, data, loaded, record, status, found, strayed>>

\* Mutant: what was there before is forgotten.
Restore_Nothing == disk' = [disk EXCEPT !["home"] = Nothing]

Restore == disk' = [disk EXCEPT !["home"] = previous]

\* The script could not be staged.
StageFails ==
    /\ step = "run"
    /\ Restore /\ Done("failed") /\ Forget
    /\ UNCHANGED <<recipe, latest, rows, place, data, found, strayed>>

\* The vendor's program: it puts an executable, or a script, in one of the places,
\* good or bad, or does nothing. Its exit status says nothing.
RunInstaller ==
    /\ step = "run"
    /\ \/ \E p \in Places, text \in Texts, says \in {"version", "nothing"} :
             disk' = [disk EXCEPT ![p] = Product(text, says, data.n)]
       \/ UNCHANGED disk
    /\ To("judge")
    /\ UNCHANGED <<recipe, latest, rows, place, data, local, found, strayed>>

\* resolveInstalledCommand: the target if it holds something new, else the command
\* on PATH, which may be the target again.
Resolved ==
    IF /\ Executable("home") /\ disk["home"] # data
       /\ previous = Nothing \/ disk["home"] # previous
    THEN {"home"}
    ELSE {p \in Places : /\ Executable(p) /\ disk[p] # data
                         /\ previous = Nothing \/ p # "home"}

JudgeProduct ==
    /\ step = "judge"
    /\ \/ Resolved = {} /\ Restore /\ Done("failed") /\ Forget /\ UNCHANGED strayed
       \/ \E p \in Resolved : \E verdict \in Probes(disk[p]) :
             IF verdict \in {"installer-like", "failed"}
             THEN Restore /\ Done("failed") /\ Forget /\ UNCHANGED strayed
             ELSE /\ Record("installer", p, "installed") /\ UNCHANGED disk
                  /\ strayed' = (strayed \/ p = "system")
    /\ UNCHANGED <<recipe, latest, rows, place, data, found>>

\* finishSource reads the state anew.
ReloadState ==
    /\ step = "reload"
    /\ loaded' = rows /\ To("record")
    /\ UNCHANGED <<recipe, latest, world, place, data, previous, record, status, found, strayed>>

FinishSource ==
    /\ step = "record"
    /\ rows' = [loaded EXCEPT !["home"] = record]
    /\ Done(status) /\ Forget
    /\ UNCHANGED <<recipe, latest, disk, place, data, found, strayed>>

-----------------------------------------------------------------------------
Killed ==
    /\ step # "off"
    /\ Done("killed") /\ Forget
    /\ UNCHANGED <<recipe, latest, world, place, data, found, strayed>>

InstallNext ==
    \/ Publish
    \/ \E p \in Places : Uninstall(p)
    \/ \E force \in BOOLEAN : InstallOne(force)
    \/ \E s \in {"resolve", "load", "download", "write", "save",
                 "fetch", "store", "reload", "record"} : Fail(s)
    \/ ResolveInstall \/ LoadState \/ DownloadVerifiedBinary \/ InstallRelease
    \/ RetryAtHome \/ SaveState
    \/ Fetch \/ ExistingSourceResult \/ StoreWrapper \/ ProbeWrapper \/ ClearTarget
    \/ StageFails \/ RunInstaller \/ JudgeProduct \/ ReloadState \/ FinishSource
    \/ Killed

InstallSpec == InstallInit /\ [][InstallNext]_installVars

-----------------------------------------------------------------------------
\* "An installer answer, or no runnable executable, fails the install and restores
\* the bytes that were replaced" (design-decisions.md:502-503).
FailureRestores ==
    step = "off" /\ outcome = "failed" => disk["home"] = found

\* The same for a script with the marks of an installer, and for releases: a
\* failure at any step leaves the command that was there.
RecognizedFailureRestores ==
    (data # Nothing => LooksLikeInstaller(data) \/ data.from # "script") => FailureRestores

Answers(file) == file # Nothing /\ file.from # "damaged" /\ file.says \in {"version", "nothing"}

\* A success is never an installer script in the place of its command, the failure
\* that InstallSource is built against (source.go:60-76).
SuccessIsACommand ==
    step = "off" /\ outcome \in {"installed", "current"} /\ recipe.way = "source" =>
        LET row == rows["home"]
        IN  /\ row # Nothing /\ Answers(disk[row.at])
            /\ disk[row.at].from = "script" => ~LooksLikeInstaller(disk[row.at])

\* "Calling that current is how an update is lost" (sourcehealth.go:130-132): a
\* script that is reported as current is this recipe's, or was produced by it.
CurrentIsThisRecipe ==
    step = "off" /\ outcome = "current" /\ recipe.way = "source" /\ IsScript(disk["home"]) =>
        disk["home"].n = data.n

\* What is reported is what is there, kills at every step of earlier runs
\* included: the release with that tag, unless nothing vouches for it, and the
\* script of this recipe, as long as vendors put their command at the target.
ReportIsTrue ==
    /\ step = "off" /\ outcome \in {"installed", "current"} /\ recipe.way = "release" =>
          \/ disk[place] = Release(data.n)
          \/ recipe.sums = "none" /\ recipe.allowUnverified
    /\ ~strayed => CurrentIsThisRecipe
=============================================================================

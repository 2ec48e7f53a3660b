------------------------------ MODULE SourceHealth ------------------------------
(***************************************************************************)
(* internal/sourcehealth: what a file is, judged by its text, by the       *)
(* launcher's record of it and by its answer to --version.                 *)
(*                                                                         *)
(* A file is a record: its text ("plain" script, script with the marks of  *)
(* an "installer", "native" executable), what it says when asked for its   *)
(* version, and where it comes from. A digest is the file itself.          *)
(***************************************************************************)
Texts == {"plain", "installer", "native"}
Sayings == {"version", "marker", "usage", "nothing"}
Verdicts == {"nothing", "current-wrapper", "current-produced", "installer-residue",
             "recipe-changed"}

LooksLikeInstaller(file) == file.text = "installer"
IsScript(file) == file.text # "native"

\* A file that is there, against the script its recipe has now.
DecideExisting(stored, recipe, recordedKind, recordedDigest) ==
    CASE LooksLikeInstaller(stored) -> "installer-residue"
      [] stored = recipe /\ ~LooksLikeInstaller(stored) -> "current-wrapper"
      [] /\ stored # recipe /\ ~LooksLikeInstaller(stored)
         /\ \/ recordedKind = "installer" /\ recordedDigest = recipe
            \/ ~IsScript(stored) /\ LooksLikeInstaller(recipe) -> "current-produced"
      [] OTHER -> "recipe-changed"

\* Mutant: whoever exits well is a command.
ClassifyProbe_TrustsExit(says, exitOK) ==
    CASE says = "version" -> "healthy"
      [] says # "version" /\ exitOK -> "silent"
      [] OTHER -> "failed"

\* An installer's phrases count most, then a version, whatever the exit status.
ClassifyProbe(says, exitOK) ==
    CASE says \in {"marker", "usage"} -> "installer-like"
      [] says = "version" -> "healthy"
      [] says = "nothing" -> IF exitOK THEN "silent" ELSE "failed"
=============================================================================

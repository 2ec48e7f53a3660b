--------------------------- MODULE MCLaunchSession ---------------------------
(***************************************************************************)
(* LaunchSession for TLC.                                                  *)
(***************************************************************************)
EXTENDS LaunchSession

\* Loose lists services but does not turn the container on, which the start does.
CONSTANTS Loose, Stack

MCNormal == [t \in Toggles |-> IF t = Loose THEN Stack ELSE t]

\* The history lastLoaded tells no two states apart for the properties that do
\* not mention it.
SessionView == <<file, session, profiles, phase, outcome, kept, lost>>
=============================================================================

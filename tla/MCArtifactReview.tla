-------------------------- MODULE MCArtifactReview --------------------------
(***************************************************************************)
(* ArtifactReview for TLC.                                                 *)
(***************************************************************************)
EXTENDS ArtifactReview, TLC

CONSTANTS dockerfile, gitignore

OnePlain == <<dockerfile>>
TwoPlain == <<dockerfile, gitignore>>

AnyEntry == {"generate", "compose", "tui"}
AnyDecision == {"prompt", "keep", "replace"}
OnlyPrompt == {"prompt"}
OnlyGenerate == {"generate"}
OnlyTui == {"tui"}

\* An editor that never writes while a launcher has files inspected.
WhileWaiting == {"off", "tui", "review", "ask", "compose", "plain"}
Never == {}

Symmetry == Permutations(Selections) \cup Permutations(Procs) \cup Permutations(Hands)

\* What a step may still depend on: the diffs shown, the flag and the outcome are
\* history, and a process that is off, or past its questions, has forgotten more.
Relevant(p) ==
    [live |-> IF pc[p] = "off" THEN <<>> ELSE <<sel[p], stack[p], choice[p]>>,
     cli  |-> IF pc[p] \in {"compose", "plain"} THEN <<entry[p], tty[p]>> ELSE <<>>,
     work |-> <<review[p], changed[p], todo[p], pair[p], buf[p]>>]
ReviewView == <<files, pc, [p \in Procs |-> Relevant(p)]>>
=============================================================================

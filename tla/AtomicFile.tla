----------------------------- MODULE AtomicFile -----------------------------
(***************************************************************************)
(* What internal/fsatomic promises about one path: whoever opens the path  *)
(* finds nothing or one complete content that some caller asked for, and a *)
(* power loss can only take the path back to an earlier complete content.  *)
(***************************************************************************)
CONSTANTS Contents,   \* the contents callers write
          Missing     \* the path does not exist

VARIABLES content,    \* what an open of the path returns
          fallback    \* what the path may hold again after a power loss

vars == <<content, fallback>>

Init == /\ content \in Contents \cup {Missing}
        /\ fallback = {content}

\* A successful WriteFile: one indivisible change of the whole content.
Replace(d) == /\ content' = d
              /\ fallback' = fallback \cup {d}

\* The directory reaches the disk on its own: WriteFile does not sync it.
Settle == /\ fallback' = {content}
          /\ UNCHANGED content

PowerLoss == /\ content' \in fallback
             /\ fallback' = {content'}

Next == (\E d \in Contents : Replace(d)) \/ Settle \/ PowerLoss

Spec == Init /\ [][Next]_vars
=============================================================================

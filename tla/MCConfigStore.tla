--------------------------- MODULE MCConfigStore ---------------------------
(***************************************************************************)
(* ConfigStore for TLC: one workspace, two contents, lists of two entries. *)
(***************************************************************************)
EXTENDS ConfigStore

\* An editor that never touches a workspace while a launcher is at work there.
OffOnly == {"off", "global"}

\* Processes and contents are interchangeable.
Symmetry == Permutations(Procs) \cup Permutations(Contents) \cup Permutations(Agents)

\* What a process has finished with, and the histories TrustOnlySaved does not
\* mention, do not tell two states of the store apart.
StoreView == <<doc, file, bak, pc, slot, row, buf, saved,
               [p \in Procs |-> IF pc[p] = "write" THEN want[p] ELSE None],
               [p \in Procs |-> IF pc[p] = "off" THEN EmptyDoc ELSE mem[p]]>>
=============================================================================

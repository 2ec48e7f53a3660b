-------------------------------- MODULE MCTools --------------------------------
(***************************************************************************)
(* The three machines that install things, Installer, MemoryWiring and     *)
(* SelfUpdate, side by side for TLC: a behaviour is one of them.           *)
(***************************************************************************)
EXTENDS Installer, MemoryWiring, SelfUpdate

CONSTANT Parts

VARIABLE part

vars == <<part, installVars, wiringVars, updateVars>>

Shapes == {<<"plain", "version">>, <<"plain", "marker">>, <<"plain", "nothing">>,
           <<"installer", "marker">>}

\* The cores 1 and 2 are those of v0.9.0 and v0.10.0, and v0.9 does not parse: the
\* texts sort as v0.10.0, v0.9, v0.9.0, each before its suffixed ones.
MCTextRank == [t \in Tags |-> 10 * (CASE t[1] = 2 -> 0 [] t[1] = 0 -> 1 [] t[1] = 1 -> 2) + t[2]]
MCFlagged == {t \in Tags : t[2] # 0}

NoInstaller ==
    /\ InstallIdle
    /\ recipe = [way |-> "release", sums |-> "api", allowUnverified |-> FALSE,
                 configured |-> TRUE, force |-> FALSE]
    /\ latest = Release(1) /\ disk = [p \in Places |-> Nothing]

Init ==
    /\ part \in Parts
    /\ IF part = "install" THEN InstallInit ELSE NoInstaller
    /\ IF part = "wire" THEN WiringInit ELSE WiringIdle
    /\ IF part = "update" THEN UpdateInit ELSE UpdateIdle

Next ==
    \/ part = "install" /\ InstallNext /\ UNCHANGED <<part, wiringVars, updateVars>>
    \/ part = "wire" /\ WiringNext /\ UNCHANGED <<part, installVars, updateVars>>
    \/ part = "update" /\ UpdateNext /\ UNCHANGED <<part, installVars, wiringVars>>

Spec == Init /\ [][Next]_vars

\* The variables of each machine hold values of their types.
TypeOK == InstallTypeOK /\ WiringTypeOK /\ UpdateTypeOK
=============================================================================

----------------------------- MODULE MCExecution -----------------------------
(***************************************************************************)
(* Execution for TLC, in two parts. Sessions of every kind, with signals,  *)
(* whose images are filled from the executable: what an image holds        *)
(* changes no step. And images, filled on every host a build may meet, for *)
(* launches that become the container's client.                            *)
(***************************************************************************)
EXTENDS Execution

VARIABLE part

MCBuildHosts == Hosts

Copies == [version : Versions, source : {"copy"}]
OfImages(r) == r.kind = "docker" /\ r.launcher /\ r.cli /\ ~r.gateway

MCInit ==
    /\ Init
    /\ part \in {"sessions", "images"}
    /\ part = "images" => OfImages(req)

MCNext ==
    /\ Next
    /\ IF part = "sessions" THEN binary' \in Copies \cup {None}
       ELSE OfImages(req') /\ signals' = 0
    /\ UNCHANGED part

MCSpec ==
    /\ MCInit /\ [][MCNext]_<<vars, part>>
    /\ WF_vars(PtyMain) /\ WF_vars(PtyWatcher)
=============================================================================

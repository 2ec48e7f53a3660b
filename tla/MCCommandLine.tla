----------------------------- MODULE MCCommandLine -----------------------------
(***************************************************************************)
(* From the workspace file to the command that runs, in two parts that     *)
(* stand side by side: Selection with a catalog of three agents (one has   *)
(* an alias, one a path) and one unknown to it, files and command lines a  *)
(* few lines long; Preflight with every pair of settings on twelve         *)
(* installations, every single fault of a value or of the host, and two    *)
(* edits on the screen.                                                    *)
(***************************************************************************)
EXTENDS Selection, Preflight, FiniteSetsExt

VARIABLE part

\* "plain" is found on the path as plain-cli, one of its aliases; "pathed" has
\* a path of its own.
MCEntryOf == [w \in Known |-> IF w = "plain-cli" THEN "plain" ELSE w]
MCResolvedCommand ==
    [e \in Known |-> CASE e = "plain" -> "plain-cli" [] e = "pathed" -> "/opt/pathed" [] OTHER -> e]

MCRequires == [id \in PermissionIDs |-> IF id = "jail" THEN {} ELSE {"jail"}]

Lines == {"agent: plain", "agent: pathed", "agent: unknown", "ssh: true", "network: false",
          "mounts: work", "mounts: secrets", "form: scalar", "form: absent",
          "jail: false", "memory: false", "yolo", "docker", "services", "deps",
          "tmux", "fresh", "forceUnlock", "memoryTuning", "workspace", "project",
          "workstream", "newWorkstream", "containerEnv", "jailFlags", "extraArgs", "params"}

Written(lines) ==
    [agent |-> IF "agent: unknown" \in lines THEN "unknown"
               ELSE IF "agent: plain" \in lines THEN "plain"
               ELSE IF "agent: pathed" \in lines THEN "pathed" ELSE "claude",
     permissions |-> [id \in PermissionIDs |->
                         IF id = "ssh" /\ "ssh: true" \in lines THEN "on"
                         ELSE IF id = "network" /\ "network: false" \in lines THEN "off"
                         ELSE "unset"],
     mounts |-> (IF "mounts: work" \in lines THEN {"work"} ELSE {})
                \cup (IF "mounts: secrets" \in lines THEN {"secrets"} ELSE {}),
     form |-> IF "form: absent" \in lines THEN "absent"
              ELSE IF "form: scalar" \in lines THEN "scalar" ELSE "list",
     on |-> IF "form: absent" \in lines THEN {} ELSE lines \cap Options,
     off |-> IF "form: absent" \in lines THEN {}
             ELSE (IF "jail: false" \in lines THEN {"jail"} ELSE {})
                  \cup (IF "memory: false" \in lines THEN {"memory"} ELSE {})]

\* Every line alone, and those whose effect another one changes.
MCDocuments ==
    {Written({l}) : l \in Lines \ {"mounts: work", "agent: plain"}}
    \cup {Written({"form: scalar", l}) : l \in {"fresh", "memoryTuning", "extraArgs"}}
    \cup {Written({"docker", l}) : l \in {"jail: false", "deps", "mounts: secrets"}}
    \cup {Written({"tmux", "services"}), Written({"agent: plain", "yolo"})}

\* Those that a profile or Windows changes: the others add one option to them.
Interacting ==
    {Written({l}) : l \in {"agent: pathed", "ssh: true", "network: false", "mounts: secrets",
                           "form: absent", "jail: false", "memory: false", "yolo", "services",
                           "memoryTuning"}}
    \cup {Written({"docker", "deps"}), Written({"tmux", "services"}),
          Written({"form: scalar", "memoryTuning"})}

\* A checkout changes the agent, leaves the sandbox, or asks for something.
MCRewrites ==
    {Written({l}) : l \in {"agent: unknown", "agent: pathed", "jail: false", "docker", "yolo",
                           "mounts: secrets", "ssh: true"}}

MCProfiles ==
    {None,
     [NoProfile EXCEPT !.options = {"memory", "docker", "limits", "memoryTuning", "yolo"}],
     [NoProfile EXCEPT !.agent = "plain", !.permissions = Unanswered, !.mounts = {"secrets"}]}

MCHosts == {[os |-> "linux", runtime |-> TRUE], [os |-> "windows", runtime |-> FALSE]}

MCFlags == {"agent", "no-jail", "sandbox", "docker-backend", "docker-backend=false",
            "runtime", "host-gateway", "resource", "service", "no-memory", "fresh",
            "force-unlock", "yolo", "no-yolo", "new", "workstream", "workspace", "project", "extra-args", "param", "mount", "ssh",
            "no-network", "profile", "no-local-config", "positional", "save",
            "save-profile"}

\* What a profile has parts for, and what it leaves out.
Stored == {"agent", "ssh", "mount", "yolo", "docker-backend", "no-jail", "fresh"}

\* Every flag alone, with a flag that saves or changes the layers, and with
\* the flag that inverts it.
Layers == {"save", "profile"}
MCCommandLines ==
    {{"bare"}, {"no-color"}}
    \cup {{flag} : flag \in MCFlags} \cup {{layer, flag} : layer \in Layers, flag \in MCFlags \ {"save-profile"}}
    \cup {{"save-profile", flag} : flag \in Stored}
    \cup {{"no-local-config", flag} : flag \in {"save", "save-profile", "profile", "agent",
                                               "docker-backend", "host-gateway", "ssh"}}
    \cup {{"no-jail", "sandbox"}, {"docker-backend", "docker-backend=false"}, {"yolo", "no-yolo"},
          {"agent", "yolo"}, {"resource", "service"}, {"docker-backend", "mount"},
          {"service", "no-jail"}, {"agent", "ssh"}, {"resource", "docker-backend=false"},
          {"host-gateway", "docker-backend=false"}, {"host-gateway", "docker-backend"}}

\* The name of the agent's harness, the variables it needs.
MCHarnessMinVersion == [h \in RunHarnesses |-> IF h = "copilot" THEN 3000 ELSE 0]
MCVendorKeys ==
    [h \in Harnesses \cup {Nobody} |->
        CASE h = "claude" -> {"ANTHROPIC_API_KEY"} [] h = "copilot" -> {"GH_TOKEN"} [] OTHER -> {}]

Chosen(agent, settings) ==
    [agent |-> agent, set |-> settings, jailVersion |-> 0, memoryVersion |-> 0,
     contract |-> "unprobed", jailEnv |-> {"nil"}]
Ordinary == Settings \ {"useJail", "useDocker", "useMemory"}
Chains == {{}, {"useJail"}, {"useMemory"}, {"useJail", "useMemory"}, {"useDocker", "useMemory"}}

\* A tri-state flag is on or off, never both.
Pairs == {{s, t} : s \in Ordinary, t \in Ordinary}
         \ {{"dockerOn", "dockerOff"}, {"networkOn", "networkOff"}}
MCStarts ==
    {Chosen(a, chain \cup pair) : a \in RunHarnesses, chain \in Chains, pair \in Pairs}
    \cup {Chosen("cursor", chain \cup {s}) : chain \in Chains, s \in Ordinary}

On(os, jail, memory, wrong) == [os |-> os, jail |-> jail, memory |-> memory, wrong |-> wrong]
Installations ==
    {On("linux", 1200, 2600, {}), On("linux", 1201, 3300, {}), On("linux", 2000, 1250, {}),
     On("linux", 2050, 2500, {}), On("linux", 2090, 2502, {}), On("darwin", 2110, 2600, {}),
     On("linux", 3001, 3300, {}), On("linux", 3000, 1250, {"memory-probe"}),
     On("linux", 3000, 3300, {"jail-probe"}),
     On("linux", 3001, 3300, {"jail-probe"}), On("linux", 1201, 2600, {"jail-probe"}),
     On("windows", 0, 3300, {"no-ai-jail"})}

\* Where the screen is edited: jail and memory of three generations, and Windows.
EditedOn == {w \in Installations : w.jail \in {0, 2050, 3001} /\ "jail-probe" \notin w.wrong}

\* What can be wrong, one at a time, with current versions.
Faults ==
    {"no-agent", "no-ai-jail", "no-ai-memory", "no-bwrap", "no-runtime", "image-selection",
     "no-image-agent", "project-dir", "no-socket", "allow-host", "allow-private-host",
     "plain-http-server", "server-not-listed", "secret", "no-env-from-file",
     "loose-env-from-file", "forward-port", "too-many-ports", "no-env-file", "external-volume",
     "home-is-the-project", "linked-project-config", "global-config-in-project",
     "relative-store", "store-in-project", "linked-store", "relative-request-file", "no-request-file",
     "linked-request-file", "irregular-request-file", "writable-request-file",
     "foreign-request-file", "request-file-in-project", "no-mount", "no-home",
     "read-only-home-mount", "scope-is-a-path"}
MCWorlds == Installations \cup {On("linux", 3100, 3300, {fault}) : fault \in Faults}

\* Faults meet single settings and the few pairs that go together.
Together == {{"mounts", "permission-gh"}, {"allowHosts", "secrets"}, {"allowHosts", "forwardPorts"}}
Extras == cfg.set \cap Ordinary

\* The selection part: Windows matters to the jail alone, so profiles are
\* left to the other host.
SelectionPart ==
    /\ SelectionInit
    /\ host.os = "windows" => profile = None /\ file.agent = "claude"
    /\ host.os = "windows" \/ profile # None => file \in Interacting
    /\ cfg = Chosen("claude", {}) /\ world = On("linux", 3001, 3300, {})
    /\ stage = "idle" /\ issues = {} /\ argv = NoCommand /\ edits = 0

PreflightPart ==
    /\ PreflightInit
    /\ world.wrong \subseteq Faults /\ world.wrong # {}
          => cfg.agent = "claude" /\ (Cardinality(Extras) = 1 \/ Extras \in Together)
    /\ world.os = "windows" => "useJail" \notin cfg.set
    /\ edits = IF cfg.agent = "claude" /\ Cardinality(Extras) = 1 /\ world \in EditedOn
               THEN MaxEdits ELSE 0
    /\ file = Written({}) /\ blessed = None /\ profile = None
    /\ host = [os |-> "linux", runtime |-> TRUE]
    /\ asked = {} /\ outcome = "none" /\ launch = None /\ spent = TRUE
    /\ saved = None /\ unsaved = FALSE

Init ==
    \/ part = "selection" /\ SelectionPart
    \/ part = "preflight" /\ PreflightPart
Next ==
    \/ part = "selection" /\ SelectionNext /\ UNCHANGED <<part, preflightVars>>
    \/ part = "preflight" /\ PreflightNext /\ UNCHANGED <<part, selectionVars>>

Spec == Init /\ [][Next]_<<part, selectionVars, preflightVars>>
TypeOK == SelectionTypeOK /\ PreflightTypeOK
=============================================================================

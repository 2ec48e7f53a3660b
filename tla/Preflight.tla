------------------------------- MODULE Preflight -------------------------------
(***************************************************************************)
(* From a selection to the command that runs (internal/launcher:           *)
(* ResolveHostBinaries, Validate, Build; internal/tui: the edits of the    *)
(* screen, confirmRun).                                                    *)
(*                                                                         *)
(* A selection is the set of its settings that are on; a list or a value   *)
(* is a setting that is on when it is not empty. What can be wrong about a *)
(* value or about the host it names is in world.wrong. A version is a      *)
(* number, 2.11.0 being 2110, and 0 one the probe could not tell.          *)
(***************************************************************************)
EXTENDS Naturals

CONSTANTS Harnesses,        \* agents of the catalog
          Nobody,           \* the agent of "Continue last session"
          RunHarnesses,     \* those ai-memory run accepts ...
          HarnessMinVersion,\* ... and since when
          MemoryAgents, YoloAgents,
          JailHarnesses,    \* those ai-jail knows by name
          ApiAgents,        \* those it knows the API host of
          VendorKeys,       \* environment variables an agent needs and the host has
          Starts, Worlds, MaxEdits

ASSUME HarnessAssumption ==
    /\ Nobody \notin Harnesses
    /\ RunHarnesses \subseteq Harnesses /\ JailHarnesses \subseteq Harnesses
    /\ ApiAgents \subseteq JailHarnesses /\ MemoryAgents \subseteq RunHarnesses
    /\ YoloAgents \subseteq Harnesses
    /\ HarnessMinVersion \in [RunHarnesses -> Nat] /\ MaxEdits \in Nat

\* Settings of the jail, each with the flag that carries it.
JailFlagOf ==
    [allowHosts |-> "--allow-host", allowPrivateHosts |-> "--allow-private-host",
     networkOn |-> "--network", networkOff |-> "--no-network",
     dockerOn |-> "--docker", dockerOff |-> "--no-docker",
     agentState |-> "--agent-state", lockdown |-> "--lockdown", gpuOff |-> "--no-gpu",
     x11 |-> "--x11", auditLog |-> "--audit-log", toolchains |-> "--toolchains",
     audio |-> "--audio", macosChromium |-> "--macos-chromium",
     statusBarStyle |-> "--status-bar", allowTCPPorts |-> "--allow-tcp-port",
     forwardPorts |-> "--forward-port", secrets |-> "--secret",
     envFromFiles |-> "--env-from-file", requestFile |-> "--request-file"]
JailFlags == DOMAIN JailFlagOf

\* Settings that ai-memory run carries, before or after the harness.
MemoryFlagOf ==
    [scopes |-> "--workspace", workstream |-> "--workstream", newWorkstream |-> "--new",
     memoryProfile |-> "--profile", memoryEnvFile |-> "--env-file",
     memoryJail |-> "--jail", fresh |-> "--fresh", forceUnlock |-> "--force-unlock",
     noExitPrompt |-> "--no-exit-prompt"]

\* What the agent itself is given.
NativeFlagOf == [params |-> "--param", yolo |-> "--yolo", extraArgs |-> "extra"]

Backends == {"useJail", "useDocker", "useMemory", "continue"}
ContainerSettings == {"services", "networkInternal", "allowedDomains"}
Settings == Backends \cup ContainerSettings \cup JailFlags \cup DOMAIN MemoryFlagOf
            \cup {"autowire", "undeclaredParam", "mounts", "permission-ssh", "permission-gpu",
                  "permission-gh", "permission-docker", "permission-network"}
            \cup DOMAIN NativeFlagOf

\* LaunchConfig. Of the two states of a flag at most one is given.
EnvNames == (UNION {VendorKeys[h] : h \in Harnesses \cup {Nobody}}) \cup {"AI_MEMORY", "nil"}
LaunchConfigs ==
    [agent : Harnesses \cup {Nobody}, set : SUBSET Settings, jailVersion : Nat,
     memoryVersion : Nat, contract : {"unprobed", "none", "full"}, jailEnv : SUBSET EnvNames]
Exclusive(c) ==
    ~({"networkOn", "networkOff"} \subseteq c.set) /\ ~({"dockerOn", "dockerOff"} \subseteq c.set)

\* A launch starts with nothing probed; what is installed has a version.
ASSUME StartsAssumption ==
    \A c \in Starts : /\ c \in LaunchConfigs /\ Exclusive(c)
                      /\ c.jailVersion = 0 /\ c.memoryVersion = 0 /\ c.contract = "unprobed"
ASSUME WorldsAssumption == \A w \in Worlds : w.jail \in Nat /\ w.memory \in Nat \ {0}

VARIABLES cfg,       \* LaunchConfig: [agent, set, jailVersion, memoryVersion, contract, jailEnv]
          world,     \* the host: [os, jail, memory, wrong]
          stage,     \* "idle", "start", "screen", "refused", "failed", "running"
          issues,    \* what the last confirmation was told
          argv,      \* the command that runs, or NoCommand
          edits      \* changes the operator still makes on the screen (a bound)

preflightVars == <<cfg, world, stage, issues, argv, edits>>

NoCommand == [outer |-> "none", jail |-> {}, env |-> {}, pre |-> {}, harness |-> Nobody, post |-> {}]
When(condition, what) == IF condition THEN {what} ELSE {}
Wrong(what) == what \in world.wrong
-----------------------------------------------------------------------------
\* Probing the host.

\* --version and capabilities --json: "none" is an ai-jail without the contract.
DetectJailVersion == IF Wrong("no-ai-jail") \/ Wrong("jail-probe") THEN 0 ELSE world.jail
DetectMemoryVersion == IF Wrong("no-ai-memory") \/ Wrong("memory-probe") THEN 0 ELSE world.memory
ProbeJailContract ==
    IF Wrong("no-ai-jail") THEN "unprobed" ELSE IF world.jail >= 3001 THEN "full" ELSE "none"

\* What is inherited and what the launcher owns: without ai-memory its
\* variables are taken out.
Environment(c) ==
    (UNION {VendorKeys[h] : h \in Harnesses}) \cup When("useMemory" \in c.set, "AI_MEMORY")

\* The variables of the environment that the sandbox must be given by name.
JailEnvPassthrough(c) ==
    (When("useMemory" \in c.set, "AI_MEMORY") \cup VendorKeys[c.agent]) \cap Environment(c)

\* What is known already is not asked again.
ResolveHostBinaries(c) ==
    LET jailed == "useJail" \in c.set IN
    [c EXCEPT
        !.jailVersion = IF jailed /\ @ = 0 THEN DetectJailVersion ELSE @,
        !.contract = IF jailed /\ @ = "unprobed" THEN ProbeJailContract ELSE @,
        !.memoryVersion = IF "useMemory" \in c.set /\ @ = 0 THEN DetectMemoryVersion ELSE @,
        !.jailEnv = IF jailed /\ @ = {"nil"} THEN JailEnvPassthrough(c) ELSE @]

\* A version the probe could not tell supports nothing that has a floor.
jailSupports(c, floor) == c.jailVersion >= floor
memorySupports(c, floor) == c.memoryVersion >= floor

launchSupports(c) == IF c.contract = "unprobed" THEN jailSupports(c, 3001) ELSE c.contract = "full"
jailAtLeast3(c) == jailSupports(c, 3000) \/ c.contract = "full"

ValidHosts(c) == "allowHosts" \in c.set /\ ~Wrong("allow-host")
ValidPrivateHosts(c) == "allowPrivateHosts" \in c.set /\ ~Wrong("allow-private-host")

filteredEgress(c) ==
    /\ "networkOn" \notin c.set
    /\ \/ jailSupports(c, 2000) /\ ValidHosts(c)
       \/ jailSupports(c, 2110) /\ ValidPrivateHosts(c)

unrestrictedNetwork(c) ==
    ~filteredEgress(c) /\ c.set \cap {"networkOn", "permission-network"} # {}
-----------------------------------------------------------------------------
\* Pre-flight: one operator per group of issues, each the set of its codes.

agentIssues(c) ==
    When("continue" \notin c.set /\ "useDocker" \notin c.set /\ Wrong("no-agent"), "agent-not-found")

jailIssues(c) ==
    IF "useJail" \notin c.set
    THEN When(c.set \cap JailFlags # {}, "jail-options-without-jail")
    ELSE IF world.os = "windows" THEN {"jail-unsupported-windows"}
    ELSE IF Wrong("no-ai-jail") THEN {"jail-not-found"}
    ELSE When(world.os = "linux" /\ Wrong("no-bwrap"), "bwrap-not-found")

dockerIssues(c) ==
    IF Wrong("no-runtime") THEN {"docker-not-found"}
    ELSE IF Wrong("image-selection") THEN {"docker-selection-invalid"}
    ELSE IF Wrong("no-image-agent") THEN {"docker-no-agent"}
    ELSE IF Wrong("project-dir") THEN {"docker-project-dir-not-absolute"}
    ELSE When("permission-docker" \in c.set /\ Wrong("no-socket"), "container-socket-unavailable")

allowTCPPortIssues(c) ==
    When({"useJail", "allowTCPPorts"} \subseteq c.set, "allow-tcp-ports-unsupported")

\* The filtering proxy answers plain HTTP with 405.
allowHostMemoryIssues(c) ==
    IF "useMemory" \notin c.set THEN {}
    ELSE IF Wrong("plain-http-server") THEN {"allow-host-memory-needs-https"}
    ELSE When(Wrong("server-not-listed"), "allow-host-omits-memory-server")

allowHostFloorIssues(c) ==
    When("allowHosts" \in c.set /\ ~jailSupports(c, 2000), "allow-host-requires-ai-jail-2")
    \cup When("allowPrivateHosts" \in c.set /\ ~jailSupports(c, 2110),
              "allow-private-host-requires-ai-jail-2-11")

allowHostIssues(c) ==
    IF c.set \cap {"allowHosts", "allowPrivateHosts"} = {} THEN {}
    ELSE IF "allowHosts" \in c.set /\ ~ValidHosts(c) THEN {"allow-host-invalid"}
    ELSE IF "allowPrivateHosts" \in c.set /\ ~ValidPrivateHosts(c) THEN {"allow-private-host-invalid"}
    ELSE IF "useJail" \notin c.set THEN When("useDocker" \in c.set, "allow-host-without-jail")
    ELSE IF "networkOn" \in c.set THEN {"allow-host-conflicts-with-network"}
    ELSE IF allowHostFloorIssues(c) # {} THEN allowHostFloorIssues(c)
    ELSE allowHostMemoryIssues(c)

agentStateIssues(c) ==
    When({"useJail", "agentState"} \subseteq c.set /\ ~jailSupports(c, 2060),
         "agent-state-requires-ai-jail-2-6")

\* The toggles that an ai-jail older than their floor does not know.
ToggleFloor == [auditLog |-> 2000, toolchains |-> 2050, audio |-> 2090, macosChromium |-> 2120]
toggleFloorCode ==
    [auditLog |-> "jail-toggles-require-ai-jail-2", toolchains |-> "jail-toggles-require-ai-jail-2-5",
     audio |-> "jail-toggles-require-ai-jail-2-9",
     macosChromium |-> "jail-toggles-require-ai-jail-2-12"]
jailToggleFloorIssues(c) ==
    {toggleFloorCode[t] : t \in {t \in c.set \cap DOMAIN ToggleFloor :
                                    "useJail" \in c.set /\ ~jailSupports(c, ToggleFloor[t])}}

secretsIssues(c) ==
    IF ~({"useJail", "secrets"} \subseteq c.set) THEN {}
    ELSE IF ~jailSupports(c, 2020) THEN {"secrets-require-ai-jail-2-2"}
    ELSE IF ~filteredEgress(c) THEN {"secrets-require-filtered-egress"}
    ELSE When(Wrong("secret"), "secret-invalid")

envFromFileIssues(c) ==
    IF ~({"useJail", "envFromFiles"} \subseteq c.set) THEN {}
    ELSE IF ~jailSupports(c, 2000) THEN {"env-from-files-require-ai-jail-2"}
    ELSE IF Wrong("no-env-from-file") THEN {"env-from-file-not-found"}
    ELSE When(Wrong("loose-env-from-file"), "env-from-file-not-locked-down")

forwardPortIssues(c) ==
    IF ~({"useJail", "forwardPorts"} \subseteq c.set) THEN {}
    ELSE IF ~jailSupports(c, 2090) THEN {"forward-ports-require-ai-jail-2-9"}
    ELSE IF unrestrictedNetwork(c) THEN {"forward-ports-conflict-with-network"}
    ELSE IF Wrong("forward-port") THEN {"forward-port-invalid"}
    ELSE When(Wrong("too-many-ports"), "forward-ports-too-many")

lockdownNetworkIssues(c) ==
    When({"useJail", "lockdown"} \subseteq c.set /\ unrestrictedNetwork(c) /\ jailSupports(c, 2062),
         "lockdown-forces-offline")

\* What comes before the harness is lost on an ai-jail older than 2.9.0.
preHarnessJailIssue(c) ==
    When("useJail" \in c.set /\ ~jailSupports(c, 2090), "memory-run-flag-requires-ai-jail-2-9")

memoryProfileIssues_NoJailFloor(c) ==
    IF "memoryProfile" \notin c.set THEN {}
    ELSE When(~memorySupports(c, 2600), "memory-profile-requires-ai-memory-2-6")
memoryProfileIssues(c) ==
    IF "memoryProfile" \notin c.set THEN {}
    ELSE IF ~memorySupports(c, 2600) THEN {"memory-profile-requires-ai-memory-2-6"}
    ELSE preHarnessJailIssue(c)

memoryEnvFileIssues(c) ==
    IF "memoryEnvFile" \notin c.set THEN {}
    ELSE IF ~memorySupports(c, 2500) THEN {"memory-env-file-requires-ai-memory-2-5"}
    ELSE preHarnessJailIssue(c) \cup When(Wrong("no-env-file"), "memory-env-file-not-found")

memoryJailIssues(c) ==
    IF "memoryJail" \notin c.set THEN {}
    ELSE When(~memorySupports(c, 2502), "memory-jail-requires-ai-memory-2-5-2")
         \cup When("useJail" \in c.set, "memory-jail-with-launcher-jail")
         \cup When("useDocker" \in c.set /\ "useJail" \notin c.set, "memory-jail-in-container")

forceUnlockIssues(c) ==
    When("forceUnlock" \in c.set /\ ~memorySupports(c, 2600),
         "memory-force-unlock-requires-ai-memory-2-6")

memoryExitPromptIssues(c) ==
    When("noExitPrompt" \in c.set /\ ~memorySupports(c, 3300),
         "memory-exit-prompt-requires-ai-memory-3-3")

memoryRunFlagIssues(c) ==
    IF "useMemory" \notin c.set THEN {}
    ELSE memoryProfileIssues(c) \cup memoryEnvFileIssues(c) \cup memoryJailIssues(c)
         \cup forceUnlockIssues(c) \cup memoryExitPromptIssues(c)

containerNetworkInternalIssues(c) ==
    IF ~({"useDocker", "networkInternal"} \subseteq c.set) THEN {}
    ELSE IF "services" \notin c.set THEN {"internal-network-requires-compose"}
    ELSE IF "allowedDomains" \in c.set THEN {"internal-network-restricts-agent"}
    ELSE {"internal-network-blocks-agent"}

containerNetworkAllowedDomainsIssues(c) ==
    When({"useDocker", "allowedDomains"} \subseteq c.set /\ "networkInternal" \notin c.set,
         "container-network-allowed-domains-without-internal-network")

jailMemoryVolumeIssues(c) ==
    When({"useJail", "useMemory"} \subseteq c.set /\ Wrong("external-volume"),
         "jail-memory-external-volume")

\* ai-jail reads no configuration through a symbolic link, and none that the
\* sandbox could write.
jailConfigSymlinkIssues(c) ==
    IF "useJail" \notin c.set THEN {}
    ELSE IF Wrong("home-is-the-project") THEN {"jail-home-as-project"}
    ELSE IF Wrong("linked-project-config") THEN {"jail-project-config-symlink"}
    ELSE When(Wrong("global-config-in-project"), "jail-global-config-inside-project")

jailStoreIssues(c) ==
    IF "useJail" \notin c.set \/ ~jailAtLeast3(c) THEN {}
    ELSE IF Wrong("relative-store") THEN {"jail-xdg-store-invalid"}
    ELSE IF Wrong("store-in-project") THEN {"jail-xdg-store-inside-project"}
    ELSE When(Wrong("linked-store"), "jail-xdg-store-symlink")

\* Absolute, a regular file of the user's own, not writable by others, not in
\* the project.
inspectRequestFile ==
    world.wrong \cap {"relative-request-file", "no-request-file", "linked-request-file",
                      "irregular-request-file", "writable-request-file",
                      "foreign-request-file", "request-file-in-project"}
requestFileIssues(c) ==
    IF ~({"useJail", "requestFile"} \subseteq c.set) THEN {}
    ELSE IF ~launchSupports(c)
         THEN {IF c.contract # "unprobed" THEN "request-file-unsupported"
               ELSE "request-file-requires-ai-jail-3-0-1"}
    ELSE When(inspectRequestFile # {}, "request-file-rejected")

memoryHarnessIssues(c) ==
    IF "continue" \in c.set THEN {}
    ELSE IF c.agent \notin RunHarnesses THEN {"memory-harness-unsupported"}
    ELSE When(c.memoryVersion # 0 /\ ~memorySupports(c, HarnessMinVersion[c.agent]),
              "memory-harness-version")

mountIssues(c) == When("mounts" \in c.set /\ Wrong("no-mount"), "mount-not-found")

permissionIssues(c) ==
    When({"permission-ssh", "permission-gh", "permission-docker", "permission-gpu"} \cap c.set # {}
            /\ {"useJail", "useDocker"} \cap c.set = {}, "permission-without-jail")

\* A read-only mount of the home directory covers ~/.config/gh.
permissionMountIssues(c) ==
    IF ~({"useJail", "permission-gh"} \subseteq c.set) THEN {}
    ELSE IF Wrong("no-home") THEN {"permission-mount-without-home"}
    ELSE When("mounts" \in c.set /\ Wrong("read-only-home-mount"), "permission-mount-downgraded")

paramIssues(c) ==
    IF "continue" \in c.set THEN {}
    ELSE When("undeclaredParam" \in c.set, "param-not-declared")
         \cup When("params" \in c.set, "catalog-flag-param")

continueIssues(c) ==
    When("continue" \in c.set /\ {"extraArgs", "params"} \cap c.set # {},
         "continue-ignores-harness-input")
freshIssues(c) == When({"fresh", "continue"} \subseteq c.set, "fresh-with-continue")

memoryScopePathIssues(c) ==
    When({"useMemory", "scopes"} \subseteq c.set /\ Wrong("scope-is-a-path"),
         "memory-scope-looks-like-a-path")

jailVersionIssues(c) ==
    IF "useJail" \notin c.set \/ c.jailVersion = 0 THEN {}
    ELSE IF ~jailSupports(c, 1201) THEN {"jail-version-too-old"}
    ELSE When(~jailSupports(c, 2130), "jail-advisory")
         \cup When(jailSupports(c, 3100), "jail-version-untested")

memoryAdvisoryIssues(c) ==
    When("useMemory" \in c.set /\ c.memoryVersion # 0 /\ ~memorySupports(c, 3210), "memory-advisory")

Validate(c) ==
    agentIssues(c)
    \cup (IF "useDocker" \in c.set THEN dockerIssues(c)
          ELSE jailIssues(c) \cup jailConfigSymlinkIssues(c) \cup jailStoreIssues(c)
               \cup requestFileIssues(c))
    \cup allowTCPPortIssues(c) \cup allowHostIssues(c) \cup agentStateIssues(c)
    \cup jailToggleFloorIssues(c) \cup forwardPortIssues(c) \cup memoryRunFlagIssues(c)
    \cup lockdownNetworkIssues(c) \cup secretsIssues(c) \cup envFromFileIssues(c)
    \cup containerNetworkInternalIssues(c) \cup containerNetworkAllowedDomainsIssues(c)
    \cup jailMemoryVolumeIssues(c)
    \cup (IF "useMemory" \in c.set
          THEN When(Wrong("no-ai-memory"), "memory-not-found") \cup memoryHarnessIssues(c) ELSE {})
    \cup mountIssues(c) \cup permissionIssues(c) \cup permissionMountIssues(c) \cup paramIssues(c)
    \cup continueIssues(c) \cup freshIssues(c) \cup memoryScopePathIssues(c)
    \cup jailVersionIssues(c) \cup memoryAdvisoryIssues(c)

\* The issues that do not refuse the launch.
Warnings ==
    {"jail-unsupported-windows", "jail-options-without-jail", "container-socket-unavailable",
     "allow-host-without-jail", "lockdown-forces-offline", "memory-jail-with-launcher-jail",
     "memory-jail-in-container", "internal-network-restricts-agent",
     "internal-network-blocks-agent", "jail-memory-external-volume", "permission-mount-without-home",
     "permission-mount-downgraded", "catalog-flag-param", "continue-ignores-harness-input",
     "memory-scope-looks-like-a-path", "jail-advisory", "jail-version-untested", "memory-advisory"}
    \cup When(world.os = "windows", "permission-without-jail")
-----------------------------------------------------------------------------
\* Building the command.

\* Unrestricted network for the permission is, on an ai-jail 3 and for an agent
\* whose API host it knows, filtered access to that host. An explicit
\* network: true is passed on whatever the agent.
networkDecision(c) ==
    IF filteredEgress(c) THEN {"--no-network"}
    ELSE IF {"networkOn", "networkOff"} \cap c.set # {}
         THEN {IF "networkOn" \in c.set THEN "--network" ELSE "--no-network"}
    ELSE IF "permission-network" \notin c.set THEN {"--no-network"}
    ELSE IF jailAtLeast3(c) /\ c.agent \in ApiAgents THEN {"--no-network", "--allow-host"}
    ELSE {"--network"}

dockerDecision(c) ==
    IF {"dockerOn", "dockerOff"} \cap c.set # {}
    THEN {IF "dockerOn" \in c.set THEN "--docker" ELSE "--no-docker"}
    ELSE {IF "permission-docker" \in c.set THEN "--docker" ELSE "--no-docker"}

agentStateDecision(c) ==
    IF ~jailSupports(c, 2060) THEN {}
    ELSE {IF "lockdown" \in c.set THEN "--no-agent-state" ELSE "--agent-state"}

\* Flags that a floor holds back are left out; --allow-tcp-port never is.
FlagFloor ==
    [lockdown |-> 0, gpuOff |-> 0, x11 |-> 0, statusBarStyle |-> 0, allowTCPPorts |-> 0,
     auditLog |-> 2000, envFromFiles |-> 2000, secrets |-> 2020, toolchains |-> 2050,
     audio |-> 2090, forwardPorts |-> 2090, macosChromium |-> 2120]
appendJailFlags(c) ==
    {JailFlagOf[f] : f \in {f \in c.set \cap DOMAIN FlagFloor : jailSupports(c, FlagFloor[f])}}

appendAllowHosts(c) ==
    IF "networkOn" \in c.set THEN {}
    ELSE When(jailSupports(c, 2000) /\ ValidHosts(c), "--allow-host")
         \cup When(jailSupports(c, 2110) /\ ValidPrivateHosts(c), "--allow-private-host")

appendPermissionArgs(c) ==
    When("permission-ssh" \in c.set, "--ssh")
    \cup When("permission-gpu" \in c.set /\ "gpuOff" \notin c.set, "--gpu")
    \cup When("permission-gh" \in c.set /\ ~Wrong("no-home")
                 /\ ~("mounts" \in c.set /\ Wrong("read-only-home-mount")), "--rw-map-gh")

jailContractArgs(c) ==
    When("continue" \notin c.set /\ launchSupports(c) /\ c.agent \in JailHarnesses, "--harness")
    \cup When("requestFile" \in c.set /\ launchSupports(c), "--request-file")

appendJailArgs(c) ==
    IF "useJail" \notin c.set THEN {}
    ELSE jailContractArgs(c) \cup networkDecision(c) \cup dockerDecision(c)
         \cup agentStateDecision(c) \cup appendJailFlags(c) \cup appendAllowHosts(c)
         \cup appendPermissionArgs(c) \cup When("mounts" \in c.set, "--rw-map")

appendMemoryScope(c) ==
    When("scopes" \in c.set, "--workspace")
    \cup (IF "newWorkstream" \in c.set THEN {"--new"}
          ELSE When("workstream" \in c.set, "--workstream"))

\* With an ai-jail older than 2.9.0 nothing else may come before the harness.
appendMemoryRunOptions(c) ==
    LET preHarnessJailOK == "useJail" \in c.set => jailSupports(c, 2090) IN
    When("memoryProfile" \in c.set /\ memorySupports(c, 2600) /\ preHarnessJailOK, "--profile")
    \cup When("memoryEnvFile" \in c.set /\ memorySupports(c, 2500) /\ preHarnessJailOK, "--env-file")
    \cup When("memoryJail" \in c.set /\ memorySupports(c, 2502)
                 /\ {"useJail", "useDocker"} \cap c.set = {}, "--jail")

appendForceUnlock(c) ==
    When({"useMemory", "forceUnlock"} \subseteq c.set /\ memorySupports(c, 2600), "--force-unlock")
appendNoExitPrompt(c) ==
    When({"useMemory", "noExitPrompt"} \subseteq c.set /\ memorySupports(c, 3300), "--no-exit-prompt")
disableMemoryAutowire(c) ==
    "useMemory" \in c.set /\ "autowire" \notin c.set /\ memorySupports(c, 2300)

appendDeclaredParams(c) == When("params" \in c.set, "--param")
appendYoloFlag(c) == When("yolo" \in c.set /\ c.agent \in YoloAgents, "--yolo")
appendNative(c) ==
    appendDeclaredParams(c) \cup appendYoloFlag(c) \cup When("extraArgs" \in c.set, "extra")

memoryChain(c) == IF "useJail" \in c.set THEN "ai-jail" ELSE "ai-memory"

\* A resumed session has no harness: all flags are ai-memory's.
buildContinue(c) ==
    [outer |-> memoryChain(c), jail |-> appendJailArgs(c),
     env |-> IF "useJail" \in c.set THEN c.jailEnv ELSE {}, harness |-> Nobody, pre |-> {},
     post |-> appendMemoryScope(c) \cup appendForceUnlock(c) \cup appendNoExitPrompt(c)
              \cup appendYoloFlag(c)]

\* What the container is given of the home directory and of the host.
permissionHomeMount(c) ==
    IF Wrong("no-home") THEN {}
    ELSE When("permission-gh" \in c.set, "--volume-gh")
         \cup When("permission-ssh" \in c.set, "--volume-ssh")
applyContainerMemory(c) ==
    When(disableMemoryAutowire(c), "AI_MEMORY_RUN_AUTOWIRE=false")
    \cup When("useMemory" \in c.set /\ memorySupports(c, 2600), "AI_MEMORY_RUN_REQUIRE_SERVER=true")

buildDockerRun(c) ==
    [outer |-> "docker",
     jail |-> permissionHomeMount(c) \cup When("permission-docker" \in c.set, "--volume-docker-sock"),
     env |-> applyContainerMemory(c), pre |-> {}, harness |-> c.agent,
     post |-> appendForceUnlock(c) \cup appendNoExitPrompt(c) \cup appendNative(c)]

Build(c) ==
    IF "continue" \in c.set THEN buildContinue(c)
    ELSE IF "useDocker" \in c.set THEN buildDockerRun(c)
    ELSE [outer |-> IF "useJail" \notin c.set /\ "useMemory" \notin c.set THEN "agent"
                    ELSE memoryChain(c),
          jail |-> appendJailArgs(c),
          env |-> IF "useJail" \in c.set THEN c.jailEnv ELSE {},
          harness |-> c.agent,
          pre |-> IF "useMemory" \in c.set
                  THEN appendMemoryScope(c) \cup appendMemoryRunOptions(c) ELSE {},
          post |-> appendNative(c) \cup appendForceUnlock(c) \cup appendNoExitPrompt(c)
                   \cup (IF "useMemory" \in c.set
                         THEN When("fresh" \in c.set, "--fresh")
                              \cup When(disableMemoryAutowire(c), "--no-autowire")
                         ELSE {})]

\* Build fails; the TUI shows the error, the command line ends with it.
BuildFails(c) ==
    \/ "continue" \in c.set /\ "useMemory" \notin c.set
    \/ "continue" \notin c.set /\ c.agent = Nobody
    \/ /\ "useDocker" \in c.set /\ "continue" \notin c.set
       /\ Wrong("project-dir") \/ Wrong("image-selection")
-----------------------------------------------------------------------------
\* The screen.

PreflightInit ==
    /\ cfg \in Starts /\ world \in Worlds
    /\ stage = "start" /\ issues = {} /\ argv = NoCommand /\ edits \in 0..MaxEdits

\* finalizeLaunchConfig, before the screen opens and before a one-shot launch.
Finalize ==
    /\ stage = "start" /\ stage' = "screen"
    /\ cfg' = ResolveHostBinaries(cfg)
    /\ UNCHANGED <<world, issues, argv, edits>>

Edited(c) ==
    /\ stage \in {"screen", "refused", "failed"} /\ edits > 0
    /\ edits' = edits - 1 /\ stage' = "screen"
    /\ cfg' = c /\ issues' = {}
    /\ UNCHANGED <<world, argv>>

Flipped(c, setting) ==
    [c EXCEPT !.set = IF setting \in @ THEN @ \ {setting} ELSE @ \cup {setting}]

\* An agent that cannot run under ai-memory, or has no --yolo, turns them off.
syncForAgent(c) ==
    [c EXCEPT !.set = @ \ (When(c.agent \notin MemoryAgents, "useMemory")
                           \cup When(c.agent \notin YoloAgents, "yolo"))]
SelectAgent(a) ==
    Edited(syncForAgent([cfg EXCEPT !.agent = a, !.set = @ \ {"continue"}]))
SelectContinue_RowZero ==
    Edited([cfg EXCEPT !.agent = "Continue-last-session", !.set = @ \cup {"continue"}])
SelectContinue == Edited([cfg EXCEPT !.agent = Nobody, !.set = @ \cup {"continue"}])

\* The rows of the options section.
ToggleOption ==
    \/ world.os # "windows" /\ Edited(Flipped(cfg, "useJail"))
    \/ Edited(Flipped(cfg, "useMemory"))
    \/ cfg.agent \in YoloAgents /\ Edited(Flipped(cfg, "yolo"))
    \/ "useMemory" \in cfg.set /\ Edited(Flipped(cfg, "fresh"))

\* The container replaces the jail; without it the jail is back.
ToggleContainer ==
    \/ /\ "useDocker" \in cfg.set
       /\ Edited([cfg EXCEPT !.set = (@ \ {"useDocker"}) \cup {"useJail"}])
    \/ /\ "useDocker" \notin cfg.set /\ ~Wrong("no-runtime")
       /\ Edited([cfg EXCEPT !.set = (@ \ {"useJail"}) \cup {"useDocker"}])

TogglePermission == world.os # "windows" /\ Edited(Flipped(cfg, "permission-network"))

\* confirmRun, and the one-shot launch: resolve, build, check, run.
Confirm ==
    /\ stage = "screen"
    /\ LET c == ResolveHostBinaries(cfg)
           found == Validate(c)
       IN /\ cfg' = c
          /\ \/ BuildFails(c) /\ stage' = "failed" /\ UNCHANGED <<issues, argv>>
             \/ /\ ~BuildFails(c) /\ issues' = found
                /\ IF found \subseteq Warnings
                   THEN stage' = "running" /\ argv' = Build(c)
                   ELSE stage' = "refused" /\ UNCHANGED argv
    /\ UNCHANGED <<world, edits>>

PreflightNext ==
    \/ Finalize
    \/ \E a \in Harnesses : SelectAgent(a)
    \/ SelectContinue
    \/ ToggleOption
    \/ ToggleContainer
    \/ TogglePermission
    \/ Confirm

PreflightSpec == PreflightInit /\ [][PreflightNext]_preflightVars
-----------------------------------------------------------------------------
\* What the two programs are known to accept (their versions, from the floors
\* and the comments of internal/config and internal/launcher).
JailSince ==
    [f \in {"--allow-host", "--audit-log", "--env-from-file", "--secret", "--toolchains",
            "--agent-state", "--no-agent-state", "--audio", "--forward-port",
            "--allow-private-host", "--macos-chromium", "--harness", "--request-file"} |->
        CASE f \in {"--allow-host", "--audit-log", "--env-from-file"} -> 2000
          [] f = "--secret" -> 2020
          [] f = "--toolchains" -> 2050
          [] f \in {"--agent-state", "--no-agent-state"} -> 2060
          [] f \in {"--audio", "--forward-port"} -> 2090
          [] f = "--allow-private-host" -> 2110
          [] f = "--macos-chromium" -> 2120
          [] OTHER -> 3001]
JailAcceptsFlags(a) ==
    /\ \A f \in a.jail \cap DOMAIN JailSince : world.jail >= JailSince[f]
    /\ "--allow-tcp-port" \notin a.jail
    /\ "--network" \in a.jail
          => a.jail \cap {"--no-network", "--allow-host", "--allow-private-host", "--forward-port"} = {}
    /\ "--secret" \in a.jail => a.jail \cap {"--allow-host", "--allow-private-host"} # {}
    /\ "--harness" \in a.jail => a.harness \in JailHarnesses
    /\ world.jail < 2090 => a.pre \subseteq {"--workspace", "--workstream", "--new"}

\* ai-jail 3 adds the API host of an agent it knows to the allowed hosts, and
\* refuses unrestricted network beside them.
JailAcceptsNetwork(a) ==
    world.jail >= 3000 /\ a.harness \in ApiAgents => "--network" \notin a.jail
JailAccepts(a) == JailAcceptsFlags(a) /\ JailAcceptsNetwork(a)

MemorySince ==
    [f \in {"--no-autowire", "--env-file", "--jail", "--profile", "--force-unlock",
            "--no-exit-prompt"} |->
        CASE f = "--no-autowire" -> 2300
          [] f = "--env-file" -> 2500
          [] f = "--jail" -> 2502
          [] f = "--no-exit-prompt" -> 3300
          [] OTHER -> 2600]
MemoryAccepts(a) ==
    /\ \A f \in (a.pre \cup a.post) \cap DOMAIN MemorySince : world.memory >= MemorySince[f]
    /\ a.harness # Nobody /\ ~Wrong("memory-probe")
          => a.harness \in RunHarnesses /\ world.memory >= HarnessMinVersion[a.harness]
-----------------------------------------------------------------------------
(***************************************************************************)
(* Properties.                                                             *)
(***************************************************************************)

PreflightTypeOK ==
    /\ cfg \in LaunchConfigs
    /\ stage \in {"idle", "start", "screen", "refused", "failed", "running"} /\ edits \in 0..MaxEdits
    /\ argv.outer \in {"none", "docker", "ai-jail", "ai-memory", "agent"}

\* Settings that another one overrides by name.
Overridden(c) ==
    When("newWorkstream" \in c.set, "workstream") \cup When("lockdown" \in c.set, "agentState")
    \cup When("dockerOff" \in c.set, "permission-docker")
    \cup When("gpuOff" \in c.set, "permission-gpu")
    \cup When("networkOff" \in c.set \/ filteredEgress(c), "permission-network")

\* Settings that the operator is told of, or whose row the screen does not show.
Announced(c, found) ==
    When("memory-jail-with-launcher-jail" \in found, "memoryJail")
    \cup When(c.agent \notin YoloAgents, "yolo")

\* What each backend is to carry; the container takes what the jail and the
\* host's ai-memory would not.
Expected(c, a) ==
    IF a.outer = "docker"
    THEN {"permission-docker"} \cup When(~Wrong("no-home"), "permission-ssh") \cup DOMAIN NativeFlagOf
    ELSE (IF a.outer = "ai-jail"
          THEN JailFlags \cup {"permission-network", "permission-docker", "permission-ssh",
                               "permission-gpu"}
          ELSE {})
         \cup (IF "useMemory" \in c.set THEN DOMAIN MemoryFlagOf ELSE {}) \cup DOMAIN NativeFlagOf

Carries(a, setting) ==
    CASE setting \in DOMAIN JailFlagOf -> JailFlagOf[setting] \in a.jail
      [] setting \in DOMAIN MemoryFlagOf -> MemoryFlagOf[setting] \in a.pre \cup a.post
      [] setting = "permission-network" -> a.jail \cap {"--network", "--allow-host"} # {}
      [] setting = "permission-docker" -> a.jail \cap {"--docker", "--volume-docker-sock"} # {}
      [] setting = "permission-ssh" -> a.jail \cap {"--ssh", "--volume-ssh"} # {}
      [] setting = "permission-gpu" -> "--gpu" \in a.jail
      [] OTHER -> NativeFlagOf[setting] \in a.post

CarriesAll(c, a, found) ==
    \A s \in (c.set \cap Expected(c, a)) \ (Overridden(c) \cup Announced(c, found)) : Carries(a, s)

\* Where unrestricted network reaches an ai-jail 3 that refuses it: the operator
\* asked for it by name, or the launcher could not tell that it is an ai-jail 3.
NetworkForced(c) == "networkOn" \in c.set \/ ~jailAtLeast3(c)

\* Every launch that pre-flight lets through is one that the installed ai-jail
\* and ai-memory accept (NetworkForced left out, for which see
\* ApiAgentsAreFiltered), and every jail, memory and agent option that was set
\* is part of it or named by an issue: the floors of the forty checks and the
\* ones of the command builder agree, whatever is installed and whatever was
\* changed on the screen (validation.go, build.go, argv.go, jail.go).
AcceptedIsCarriedOut ==
    stage = "running" =>
        /\ argv.outer = "ai-jail" =>
              JailAcceptsFlags(argv) /\ (NetworkForced(cfg) \/ JailAcceptsNetwork(argv))
        /\ argv.outer # "docker" /\ "useMemory" \in cfg.set => MemoryAccepts(argv)
        /\ "continue" \notin cfg.set => CarriesAll(cfg, argv, issues)

\* The sandbox is given the variables that the launched selection needs
\* (JailEnvPassthrough: "returns the environment variable names the sandbox
\* must receive"; build.go: "--dry-run shows exactly the argv a real launch
\* would run").
EnvironmentFollowsSelection ==
    stage = "running" /\ argv.outer = "ai-jail" => argv.env = JailEnvPassthrough(cfg)

\* On a known ai-jail 3 no launch that pre-flight lets through asks for
\* unrestricted network with an agent whose API host ai-jail filters
\* (jail3FiltersUnrestrictedNetwork: "must express "network on" as filtered
\* egress").
ApiAgentsAreFiltered ==
    stage = "running" /\ argv.outer = "ai-jail" /\ jailAtLeast3(cfg) => JailAccepts(argv)

\* With the container backend the agent runs in a container (build.go:
\* "UseDocker selects the docker container backend: when true, Build emits
\* docker run ... instead of ai-jail ...").
ContainerIsUsed == stage = "running" /\ "useDocker" \in cfg.set => argv.outer = "docker"
=============================================================================

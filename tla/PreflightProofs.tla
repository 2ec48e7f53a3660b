---------------------------- MODULE PreflightProofs ----------------------------
(***************************************************************************)
(* What holds of Preflight for any installed versions, any selections and  *)
(* any number of edits. The floors of the checks and those of the command  *)
(* builder are compared option by option: an Accepted configuration meets  *)
(* the floor of everything it sets (the lemmas ...Meets), and a flag is in *)
(* the command only above its floor (the lemmas ...Floor).                 *)
(***************************************************************************)
EXTENDS Preflight, TLAPS

Accepted(c) == Validate(c) \subseteq Warnings

\* The codes that refuse a launch.
LEMMA Fatal ==
    /\ "agent-state-requires-ai-jail-2-6" \notin Warnings
    /\ "jail-toggles-require-ai-jail-2" \notin Warnings
    /\ "jail-toggles-require-ai-jail-2-5" \notin Warnings
    /\ "jail-toggles-require-ai-jail-2-9" \notin Warnings
    /\ "jail-toggles-require-ai-jail-2-12" \notin Warnings
    /\ "secrets-require-ai-jail-2-2" \notin Warnings
    /\ "secrets-require-filtered-egress" \notin Warnings
    /\ "env-from-files-require-ai-jail-2" \notin Warnings
    /\ "forward-ports-require-ai-jail-2-9" \notin Warnings
    /\ "forward-ports-conflict-with-network" \notin Warnings
  BY DEF Warnings, When

LEMMA FatalHosts ==
    /\ "allow-tcp-ports-unsupported" \notin Warnings
    /\ "allow-host-invalid" \notin Warnings
    /\ "allow-private-host-invalid" \notin Warnings
    /\ "allow-host-conflicts-with-network" \notin Warnings
    /\ "allow-host-requires-ai-jail-2" \notin Warnings
    /\ "allow-private-host-requires-ai-jail-2-11" \notin Warnings
    /\ "request-file-unsupported" \notin Warnings
    /\ "request-file-requires-ai-jail-3-0-1" \notin Warnings
  BY DEF Warnings, When

LEMMA FatalMemory ==
    /\ "memory-not-found" \notin Warnings
    /\ "memory-harness-unsupported" \notin Warnings
    /\ "memory-harness-version" \notin Warnings
    /\ "memory-run-flag-requires-ai-jail-2-9" \notin Warnings
    /\ "memory-profile-requires-ai-memory-2-6" \notin Warnings
    /\ "memory-env-file-requires-ai-memory-2-5" \notin Warnings
    /\ "memory-jail-requires-ai-memory-2-5-2" \notin Warnings
    /\ "memory-force-unlock-requires-ai-memory-2-6" \notin Warnings
    /\ "memory-exit-prompt-requires-ai-memory-3-3" \notin Warnings
  BY DEF Warnings, When
-----------------------------------------------------------------------------
\* What an accepted configuration meets.

\* Each group of issues is part of what Validate reports.
LEMMA Groups ==
    ASSUME NEW c, Accepted(c)
    PROVE  /\ allowTCPPortIssues(c) \cup allowHostIssues(c) \cup agentStateIssues(c)
              \cup jailToggleFloorIssues(c) \cup forwardPortIssues(c) \cup memoryRunFlagIssues(c)
              \cup secretsIssues(c) \cup envFromFileIssues(c) \subseteq Warnings
           /\ "useDocker" \notin c.set => requestFileIssues(c) \subseteq Warnings
           /\ "useMemory" \in c.set
                 => When(Wrong("no-ai-memory"), "memory-not-found") \cup memoryHarnessIssues(c)
                    \subseteq Warnings
  BY DEF Accepted, Validate

LEMMA JailMeets ==
    ASSUME NEW c \in LaunchConfigs, Accepted(c), "useJail" \in c.set
    PROVE  /\ "agentState" \in c.set => jailSupports(c, 2060)
           /\ "auditLog" \in c.set => jailSupports(c, 2000)
           /\ "toolchains" \in c.set => jailSupports(c, 2050)
           /\ "audio" \in c.set => jailSupports(c, 2090)
           /\ "macosChromium" \in c.set => jailSupports(c, 2120)
           /\ "secrets" \in c.set => jailSupports(c, 2020) /\ filteredEgress(c)
           /\ "envFromFiles" \in c.set => jailSupports(c, 2000)
           /\ "forwardPorts" \in c.set => jailSupports(c, 2090) /\ ~unrestrictedNetwork(c)
<1>0. /\ agentStateIssues(c) \subseteq Warnings
      /\ secretsIssues(c) \subseteq Warnings
      /\ envFromFileIssues(c) \subseteq Warnings
      /\ forwardPortIssues(c) \subseteq Warnings
  BY Groups
<1>1. "agentState" \in c.set => jailSupports(c, 2060)
  BY <1>0, Fatal DEF agentStateIssues, When
<1>2. ASSUME NEW t \in DOMAIN ToggleFloor, t \in c.set, ~jailSupports(c, ToggleFloor[t])
      PROVE  toggleFloorCode[t] \in Warnings
  BY <1>2, Groups DEF jailToggleFloorIssues
<1>3. /\ "auditLog" \in c.set => jailSupports(c, 2000)
      /\ "toolchains" \in c.set => jailSupports(c, 2050)
      /\ "audio" \in c.set => jailSupports(c, 2090)
      /\ "macosChromium" \in c.set => jailSupports(c, 2120)
  BY <1>2, Fatal DEF ToggleFloor, toggleFloorCode
<1>4. "secrets" \in c.set => jailSupports(c, 2020) /\ filteredEgress(c)
  BY <1>0, Fatal DEF secretsIssues
<1>5. "envFromFiles" \in c.set => jailSupports(c, 2000)
<2>1. ASSUME "envFromFiles" \in c.set, ~jailSupports(c, 2000)
      PROVE  envFromFileIssues(c) = {"env-from-files-require-ai-jail-2"}
  BY <2>1 DEF envFromFileIssues
<2> QED BY <1>0, <2>1, Fatal
<1>6. "forwardPorts" \in c.set => jailSupports(c, 2090) /\ ~unrestrictedNetwork(c)
<2>1. ASSUME "forwardPorts" \in c.set, ~jailSupports(c, 2090)
      PROVE  forwardPortIssues(c) = {"forward-ports-require-ai-jail-2-9"}
  BY <2>1 DEF forwardPortIssues
<2>2. ASSUME "forwardPorts" \in c.set, jailSupports(c, 2090), unrestrictedNetwork(c)
      PROVE  forwardPortIssues(c) = {"forward-ports-conflict-with-network"}
  BY <2>2 DEF forwardPortIssues
<2> QED BY <1>0, <2>1, <2>2, Fatal
<1> QED BY <1>1, <1>3, <1>4, <1>5, <1>6

LEMMA HostsMeet ==
    ASSUME NEW c \in LaunchConfigs, Accepted(c), "useJail" \in c.set
    PROVE  /\ "allowTCPPorts" \notin c.set
           /\ "allowHosts" \in c.set =>
                 ValidHosts(c) /\ "networkOn" \notin c.set /\ jailSupports(c, 2000)
           /\ "allowPrivateHosts" \in c.set =>
                 ValidPrivateHosts(c) /\ "networkOn" \notin c.set /\ jailSupports(c, 2110)
           /\ "requestFile" \in c.set /\ "useDocker" \notin c.set => launchSupports(c)
<1>1. "allowTCPPorts" \notin c.set
  BY Groups, FatalHosts DEF allowTCPPortIssues, When
<1>2. "requestFile" \in c.set /\ "useDocker" \notin c.set => launchSupports(c)
  BY Groups, FatalHosts DEF requestFileIssues
<1>3. /\ "allowHosts" \in c.set => ValidHosts(c) /\ "networkOn" \notin c.set
      /\ "allowPrivateHosts" \in c.set => ValidPrivateHosts(c) /\ "networkOn" \notin c.set
  BY Groups, FatalHosts DEF allowHostIssues
<1>4. {"allowHosts", "allowPrivateHosts"} \cap c.set # {} => allowHostFloorIssues(c) \subseteq Warnings
  BY <1>3, Groups DEF allowHostIssues
<1>5. /\ "allowHosts" \in c.set => jailSupports(c, 2000)
      /\ "allowPrivateHosts" \in c.set => jailSupports(c, 2110)
  BY <1>4, FatalHosts DEF allowHostFloorIssues, When
<1> QED BY <1>1, <1>2, <1>3, <1>5

LEMMA HarnessMeets ==
    ASSUME NEW c \in LaunchConfigs, Accepted(c), "useMemory" \in c.set
    PROVE  /\ ~Wrong("no-ai-memory")
           /\ "continue" \notin c.set => c.agent \in RunHarnesses
           /\ "continue" \notin c.set /\ c.memoryVersion # 0
                 => memorySupports(c, HarnessMinVersion[c.agent])
<1>1. ~Wrong("no-ai-memory") /\ memoryHarnessIssues(c) \subseteq Warnings
  BY Groups, FatalMemory DEF When
<1>2. "continue" \notin c.set => c.agent \in RunHarnesses
  BY <1>1, FatalMemory DEF memoryHarnessIssues
<1>3. "continue" \notin c.set /\ c.memoryVersion # 0 => memorySupports(c, HarnessMinVersion[c.agent])
  BY <1>1, <1>2, FatalMemory DEF memoryHarnessIssues, When
<1> QED BY <1>1, <1>2, <1>3

LEMMA MemoryMeets ==
    ASSUME NEW c \in LaunchConfigs, Accepted(c), "useMemory" \in c.set
    PROVE  /\ "memoryProfile" \in c.set =>
                 memorySupports(c, 2600) /\ ("useJail" \in c.set => jailSupports(c, 2090))
           /\ "memoryEnvFile" \in c.set =>
                 memorySupports(c, 2500) /\ ("useJail" \in c.set => jailSupports(c, 2090))
           /\ "memoryJail" \in c.set => memorySupports(c, 2502)
           /\ "forceUnlock" \in c.set => memorySupports(c, 2600)
           /\ "noExitPrompt" \in c.set => memorySupports(c, 3300)
<1>1. /\ memoryProfileIssues(c) \subseteq Warnings
      /\ memoryEnvFileIssues(c) \subseteq Warnings
      /\ memoryJailIssues(c) \subseteq Warnings
      /\ forceUnlockIssues(c) \subseteq Warnings
      /\ memoryExitPromptIssues(c) \subseteq Warnings
  BY Groups DEF memoryRunFlagIssues
<1>2. preHarnessJailIssue(c) \subseteq Warnings => ("useJail" \in c.set => jailSupports(c, 2090))
  BY FatalMemory DEF preHarnessJailIssue, When
<1>3. "memoryProfile" \in c.set =>
         memorySupports(c, 2600) /\ ("useJail" \in c.set => jailSupports(c, 2090))
  BY <1>1, <1>2, FatalMemory DEF memoryProfileIssues
<1>4. "memoryEnvFile" \in c.set => memorySupports(c, 2500)
  <2>1. ASSUME "memoryEnvFile" \in c.set, ~memorySupports(c, 2500)
        PROVE  memoryEnvFileIssues(c) = {"memory-env-file-requires-ai-memory-2-5"}
    BY <2>1 DEF memoryEnvFileIssues
  <2> QED BY <1>1, <2>1, FatalMemory
<1>5. "memoryEnvFile" \in c.set => ("useJail" \in c.set => jailSupports(c, 2090))
  <2>1. ASSUME "memoryEnvFile" \in c.set, memorySupports(c, 2500)
        PROVE  preHarnessJailIssue(c) \subseteq memoryEnvFileIssues(c)
    BY <2>1 DEF memoryEnvFileIssues, When, Wrong
  <2> QED BY <1>1, <1>2, <1>4, <2>1
<1>6. "memoryJail" \in c.set => memorySupports(c, 2502)
  BY <1>1, FatalMemory DEF memoryJailIssues, When
<1>7. /\ "forceUnlock" \in c.set => memorySupports(c, 2600)
      /\ "noExitPrompt" \in c.set => memorySupports(c, 3300)
  BY <1>1, FatalMemory DEF forceUnlockIssues, memoryExitPromptIssues, When
<1> QED BY <1>3, <1>4, <1>5, <1>6, <1>7
-----------------------------------------------------------------------------
\* What the builder holds back.

\* A jail flag with a floor is in the command only above it.
LEMMA FlagsFloor ==
    ASSUME NEW c
    PROVE  LET flags == appendJailFlags(c) IN
           /\ "--audit-log" \in flags => jailSupports(c, 2000)
           /\ "--env-from-file" \in flags => jailSupports(c, 2000)
           /\ "--secret" \in flags => jailSupports(c, 2020) /\ "secrets" \in c.set
           /\ "--toolchains" \in flags => jailSupports(c, 2050)
           /\ "--audio" \in flags => jailSupports(c, 2090)
           /\ "--forward-port" \in flags => jailSupports(c, 2090) /\ "forwardPorts" \in c.set
           /\ "--macos-chromium" \in flags => jailSupports(c, 2120)
           /\ "--allow-tcp-port" \in flags => "allowTCPPorts" \in c.set
  BY DEF appendJailFlags, JailFlagOf, FlagFloor

\* No other flag comes from there.
LEMMA FlagsRange ==
    ASSUME NEW c, NEW f \in appendJailFlags(c)
    PROVE  f \in {"--lockdown", "--no-gpu", "--x11", "--status-bar", "--allow-tcp-port", "--audit-log",
                  "--env-from-file", "--secret", "--toolchains", "--audio", "--forward-port",
                  "--macos-chromium"}
  BY DEF appendJailFlags, JailFlagOf, FlagFloor

\* Above its floor a jail option that is set is in the command.
LEMMA FlagsCarry ==
    ASSUME NEW c, NEW o \in c.set, o \in DOMAIN FlagFloor, jailSupports(c, FlagFloor[o])
    PROVE  JailFlagOf[o] \in appendJailFlags(c)
  BY DEF appendJailFlags

LEMMA NetworkChoice ==
    ASSUME NEW c \in LaunchConfigs
    PROVE  LET n == networkDecision(c) IN
           /\ n \subseteq {"--network", "--no-network", "--allow-host"}
           /\ "--network" \in n => n = {"--network"} /\ unrestrictedNetwork(c)
           /\ "--network" \in n => NetworkForced(c) \/ c.agent \notin ApiAgents
           /\ "--allow-host" \in n => jailAtLeast3(c)
  BY DEF networkDecision, unrestrictedNetwork, NetworkForced

LEMMA HostsChoice ==
    ASSUME NEW c \in LaunchConfigs
    PROVE  LET n == appendAllowHosts(c) IN
           /\ n \subseteq {"--allow-host", "--allow-private-host"}
           /\ n # {} => filteredEgress(c)
           /\ "--allow-host" \in n => jailSupports(c, 2000)
           /\ "--allow-private-host" \in n => jailSupports(c, 2110)
           /\ filteredEgress(c) => n # {}
  BY DEF appendAllowHosts, filteredEgress, When
-----------------------------------------------------------------------------
\* What the two programs accept.

\* What is known of the host is what is installed on it.
Consistent(c) ==
    /\ c.jailVersion # 0 => c.jailVersion = world.jail
    /\ c.memoryVersion # 0 => c.memoryVersion = world.memory
    /\ c.contract = "full" => world.jail >= 3001

LEMMA Installed ==
    ASSUME NEW c \in LaunchConfigs, Consistent(c), world \in Worlds
    PROVE  /\ \A floor \in Nat \ {0} : jailSupports(c, floor) => world.jail >= floor
           /\ \A floor \in Nat \ {0} : memorySupports(c, floor) => world.memory >= floor
           /\ launchSupports(c) => world.jail >= 3001
           /\ jailAtLeast3(c) => world.jail >= 3000
           /\ world.jail \in Nat /\ world.memory \in Nat \ {0}
  BY WorldsAssumption DEF Consistent, jailSupports, memorySupports, launchSupports, jailAtLeast3,
     LaunchConfigs

LEMMA JailFloors ==
    /\ DOMAIN JailSince =
          {"--allow-host", "--audit-log", "--env-from-file", "--secret", "--toolchains",
           "--agent-state", "--no-agent-state", "--audio", "--forward-port",
           "--allow-private-host", "--macos-chromium", "--harness", "--request-file"}
    /\ JailSince["--allow-host"] = 2000 /\ JailSince["--audit-log"] = 2000
    /\ JailSince["--env-from-file"] = 2000 /\ JailSince["--secret"] = 2020
    /\ JailSince["--toolchains"] = 2050 /\ JailSince["--agent-state"] = 2060
    /\ JailSince["--no-agent-state"] = 2060 /\ JailSince["--audio"] = 2090
    /\ JailSince["--forward-port"] = 2090 /\ JailSince["--allow-private-host"] = 2110
    /\ JailSince["--macos-chromium"] = 2120 /\ JailSince["--harness"] = 3001
    /\ JailSince["--request-file"] = 3001
  BY DEF JailSince

\* Every flag of the jail is one the installed ai-jail has.
LEMMA JailFlagsKnown ==
    ASSUME NEW c \in LaunchConfigs, Consistent(c), world \in Worlds,
           NEW f \in appendJailArgs(c), f \in DOMAIN JailSince
    PROVE  world.jail >= JailSince[f]
<1>1. CASE f \in jailContractArgs(c)
  <2>1. f \in {"--harness", "--request-file"} /\ launchSupports(c)
    BY <1>1 DEF jailContractArgs, When
  <2> QED BY <2>1, JailFloors, Installed
<1>2. CASE f \in networkDecision(c)
  <2>1. f = "--allow-host" /\ jailAtLeast3(c)
    BY <1>2, NetworkChoice, JailFloors
  <2> QED BY <2>1, JailFloors, Installed
<1>3. CASE f \in dockerDecision(c) \cup appendPermissionArgs(c) \cup {"--rw-map"}
  BY <1>3, JailFloors DEF dockerDecision, appendPermissionArgs, When
<1>4. CASE f \in agentStateDecision(c)
  <2>1. f \in {"--agent-state", "--no-agent-state"} /\ jailSupports(c, 2060)
    BY <1>4 DEF agentStateDecision
  <2> QED BY <2>1, JailFloors, Installed
<1>5. CASE f \in appendJailFlags(c)
  <2>1. f \in {"--audit-log", "--env-from-file", "--secret", "--toolchains", "--audio",
               "--forward-port", "--macos-chromium"}
    BY <1>5, FlagsRange, JailFloors
  <2> QED BY <1>5, <2>1, FlagsFloor, JailFloors, Installed
<1>6. CASE f \in appendAllowHosts(c)
  BY <1>6, HostsChoice, JailFloors, Installed
<1> QED BY <1>1, <1>2, <1>3, <1>4, <1>5, <1>6 DEF appendJailArgs, When

\* What the command gives ai-jail does not contradict itself.
LEMMA JailFlagsAgree ==
    ASSUME NEW c \in LaunchConfigs, Accepted(c), "useJail" \in c.set
    PROVE  LET jail == appendJailArgs(c) IN
           /\ "--allow-tcp-port" \notin jail
           /\ "--network" \in jail
                 => jail \cap {"--no-network", "--allow-host", "--allow-private-host",
                               "--forward-port"} = {}
           /\ "--secret" \in jail => jail \cap {"--allow-host", "--allow-private-host"} # {}
           /\ "--harness" \in jail => "continue" \notin c.set /\ c.agent \in JailHarnesses
           /\ "--network" \in jail => NetworkForced(c) \/ c.agent \notin ApiAgents
<1> DEFINE others == jailContractArgs(c) \cup dockerDecision(c) \cup agentStateDecision(c)
                     \cup appendPermissionArgs(c) \cup {"--rw-map"}
           jail == appendJailArgs(c)
<1>1. others \subseteq {"--harness", "--request-file", "--docker", "--no-docker", "--agent-state",
                        "--no-agent-state", "--ssh", "--gpu", "--rw-map-gh", "--rw-map"}
  BY DEF jailContractArgs, dockerDecision, agentStateDecision, appendPermissionArgs, When
<1>2. jail \subseteq others \cup networkDecision(c) \cup appendJailFlags(c) \cup appendAllowHosts(c)
  BY DEF appendJailArgs, When
<1>3. networkDecision(c) \cup appendJailFlags(c) \cup appendAllowHosts(c) \subseteq jail
  BY DEF appendJailArgs
<1> HIDE DEF others, jail
<1>4. "--allow-tcp-port" \notin jail
  BY <1>1, <1>2, NetworkChoice, HostsChoice, FlagsFloor, HostsMeet
<1>5. ASSUME "--network" \in jail
      PROVE  jail \cap {"--no-network", "--allow-host", "--allow-private-host", "--forward-port"} = {}
  <2>1. "--network" \in networkDecision(c)
    BY <1>5, <1>1, <1>2, HostsChoice, FlagsRange
  <2>2. networkDecision(c) = {"--network"} /\ unrestrictedNetwork(c)
    BY <2>1, NetworkChoice
  <2>3. appendAllowHosts(c) = {}
    BY <2>2, HostsChoice DEF unrestrictedNetwork
  <2>4. "--forward-port" \notin appendJailFlags(c)
    BY <2>2, FlagsFloor, JailMeets
  <2> QED BY <1>1, <1>2, <2>2, <2>3, <2>4, FlagsRange
<1>6. ASSUME "--secret" \in jail
      PROVE  jail \cap {"--allow-host", "--allow-private-host"} # {}
  <2>1. "--secret" \in appendJailFlags(c)
    BY <1>6, <1>1, <1>2, HostsChoice, NetworkChoice
  <2>2. filteredEgress(c)
    BY <2>1, FlagsFloor, JailMeets
  <2> QED BY <1>3, <2>2, HostsChoice
<1>7. "--harness" \in jail => "--harness" \in jailContractArgs(c)
  <2>1. "--harness" \notin dockerDecision(c) \cup agentStateDecision(c) \cup appendPermissionArgs(c)
    BY DEF dockerDecision, agentStateDecision, appendPermissionArgs, When
  <2> QED BY <1>2, <2>1, HostsChoice, NetworkChoice, FlagsRange DEF others
<1>8. "--harness" \in jail => "continue" \notin c.set /\ c.agent \in JailHarnesses
  BY <1>7 DEF jailContractArgs, When
<1>9. "--network" \in jail => NetworkForced(c) \/ c.agent \notin ApiAgents
  BY <1>1, <1>2, HostsChoice, FlagsRange, NetworkChoice
<1> QED BY <1>4, <1>5, <1>6, <1>8, <1>9 DEF jail
LEMMA MemoryFloors ==
    /\ DOMAIN MemorySince = {"--no-autowire", "--env-file", "--jail", "--profile",
                             "--force-unlock", "--no-exit-prompt"}
    /\ MemorySince["--no-autowire"] = 2300 /\ MemorySince["--env-file"] = 2500
    /\ MemorySince["--jail"] = 2502 /\ MemorySince["--profile"] = 2600
    /\ MemorySince["--force-unlock"] = 2600 /\ MemorySince["--no-exit-prompt"] = 3300
  BY DEF MemorySince

\* What ai-memory is given before and after the harness.
MemoryFlags(c) ==
    appendMemoryScope(c) \cup appendMemoryRunOptions(c) \cup appendNative(c)
    \cup appendForceUnlock(c) \cup appendNoExitPrompt(c)
    \cup When("fresh" \in c.set, "--fresh") \cup When(disableMemoryAutowire(c), "--no-autowire")

LEMMA MemoryFlagsKnown ==
    ASSUME NEW c \in LaunchConfigs, Consistent(c), world \in Worlds,
           NEW f \in MemoryFlags(c), f \in DOMAIN MemorySince
    PROVE  world.memory >= MemorySince[f]
<1>1. f \notin appendMemoryScope(c) \cup appendNative(c) \cup When("fresh" \in c.set, "--fresh")
  BY MemoryFloors
     DEF appendMemoryScope, appendNative, appendDeclaredParams, appendYoloFlag, When
<1>2. CASE f \in appendMemoryRunOptions(c)
  <2>1. \/ f = "--profile" /\ memorySupports(c, 2600)
        \/ f = "--env-file" /\ memorySupports(c, 2500)
        \/ f = "--jail" /\ memorySupports(c, 2502)
    BY <1>2 DEF appendMemoryRunOptions, When
  <2> QED BY <2>1, MemoryFloors, Installed
<1>3. CASE f \in appendForceUnlock(c)
  <2>1. f = "--force-unlock" /\ memorySupports(c, 2600)
    BY <1>3 DEF appendForceUnlock, When
  <2> QED BY <2>1, MemoryFloors, Installed
<1>4. CASE f \in appendNoExitPrompt(c)
  <2>1. f = "--no-exit-prompt" /\ memorySupports(c, 3300)
    BY <1>4 DEF appendNoExitPrompt, When
  <2> QED BY <2>1, MemoryFloors, Installed
<1>5. CASE f \in When(disableMemoryAutowire(c), "--no-autowire")
  <2>1. f = "--no-autowire" /\ memorySupports(c, 2300)
    BY <1>5 DEF disableMemoryAutowire, When
  <2> QED BY <2>1, MemoryFloors, Installed
<1> QED BY <1>1, <1>2, <1>3, <1>4, <1>5 DEF MemoryFlags

\* Before the harness an older ai-jail is given nothing it would not know.
LEMMA PreHarness ==
    ASSUME NEW c \in LaunchConfigs, Consistent(c), world \in Worlds, "useJail" \in c.set,
           world.jail < 2090
    PROVE  appendMemoryScope(c) \cup appendMemoryRunOptions(c)
              \subseteq {"--workspace", "--workstream", "--new"}
<1>1. ~jailSupports(c, 2090)
  BY Installed
<1>2. appendMemoryRunOptions(c) = {}
  BY <1>1 DEF appendMemoryRunOptions, When
<1> QED BY <1>2 DEF appendMemoryScope, When

\* The probe of an installed ai-memory that answers is in the configuration.
Probed(c) ==
    "useMemory" \in c.set /\ ~Wrong("no-ai-memory") /\ ~Wrong("memory-probe") => c.memoryVersion # 0

LEMMA Outer ==
    ASSUME NEW c
    PROVE  /\ Build(c).outer = "docker" <=> "continue" \notin c.set /\ "useDocker" \in c.set
           /\ Build(c).outer = "ai-jail" => "useJail" \in c.set
  BY DEF Build, buildContinue, buildDockerRun, memoryChain

LEMMA JailTakesIt ==
    ASSUME NEW c \in LaunchConfigs, Consistent(c), world \in Worlds, Accepted(c),
           Build(c).outer = "ai-jail"
    PROVE  /\ JailAcceptsFlags(Build(c))
           /\ NetworkForced(c) \/ JailAcceptsNetwork(Build(c))
<1>1. "useJail" \in c.set /\ ~("continue" \notin c.set /\ "useDocker" \in c.set)
  BY Outer
<1>2. /\ Build(c).jail = appendJailArgs(c)
      /\ Build(c).harness = IF "continue" \in c.set THEN Nobody ELSE c.agent
      /\ Build(c).pre \subseteq appendMemoryScope(c) \cup appendMemoryRunOptions(c)
  BY <1>1 DEF Build, buildContinue
<1>3. \A f \in Build(c).jail \cap DOMAIN JailSince : world.jail >= JailSince[f]
  BY <1>2, JailFlagsKnown
<1>4. world.jail < 2090 => Build(c).pre \subseteq {"--workspace", "--workstream", "--new"}
  BY <1>1, <1>2, PreHarness
<1>5. JailAcceptsFlags(Build(c))
  BY <1>1, <1>2, <1>3, <1>4, JailFlagsAgree DEF JailAcceptsFlags
<1>6. Nobody \notin ApiAgents
  BY HarnessAssumption
<1>7. "--network" \in Build(c).jail => NetworkForced(c) \/ Build(c).harness \notin ApiAgents
  BY <1>1, <1>2, <1>6, JailFlagsAgree
<1> QED BY <1>5, <1>7 DEF JailAcceptsNetwork

LEMMA MemoryTakesIt ==
    ASSUME NEW c \in LaunchConfigs, Consistent(c), world \in Worlds, Accepted(c), Probed(c),
           Build(c).outer # "docker", "useMemory" \in c.set
    PROVE  MemoryAccepts(Build(c))
<1>1. ~("continue" \notin c.set /\ "useDocker" \in c.set)
  BY Outer
<1>2. Build(c).pre \cup Build(c).post \subseteq MemoryFlags(c)
  BY <1>1 DEF Build, buildContinue, MemoryFlags, appendNative, When
<1>3. \A f \in (Build(c).pre \cup Build(c).post) \cap DOMAIN MemorySince : world.memory >= MemorySince[f]
  BY <1>2, MemoryFlagsKnown
<1>4. IF "continue" \in c.set THEN Build(c).harness = Nobody ELSE Build(c).harness = c.agent
  BY <1>1 DEF Build, buildContinue
<1>5. ASSUME "continue" \notin c.set, ~Wrong("memory-probe")
      PROVE  c.agent \in RunHarnesses /\ world.memory >= HarnessMinVersion[c.agent]
  <2>1. c.agent \in RunHarnesses /\ ~Wrong("no-ai-memory")
    BY <1>5, HarnessMeets
  <2>2. c.memoryVersion = world.memory /\ c.memoryVersion # 0
    BY <1>5, <2>1 DEF Probed, Consistent
  <2>3. memorySupports(c, HarnessMinVersion[c.agent])
    BY <1>5, <2>2, HarnessMeets
  <2> QED BY <2>1, <2>2, <2>3 DEF memorySupports
<1> QED BY <1>3, <1>4, <1>5 DEF MemoryAccepts
-----------------------------------------------------------------------------
\* What was set is carried out.

LEMMA Vocabulary ==
    /\ DOMAIN JailFlagOf = JailFlags
    /\ JailFlags = DOMAIN FlagFloor \cup {"allowHosts", "allowPrivateHosts", "networkOn", "networkOff",
                       "dockerOn", "dockerOff", "agentState", "requestFile"}
    /\ DOMAIN MemoryFlagOf = {"scopes", "workstream", "newWorkstream", "memoryProfile",
                              "memoryEnvFile", "memoryJail", "fresh", "forceUnlock", "noExitPrompt"}
    /\ DOMAIN NativeFlagOf = {"params", "yolo", "extraArgs"}
  BY DEF JailFlags, JailFlagOf, FlagFloor, MemoryFlagOf, NativeFlagOf

LEMMA JailOptionsCarried ==
    ASSUME NEW c \in LaunchConfigs, Accepted(c), Exclusive(c), "useJail" \in c.set,
           "useDocker" \notin c.set,
           NEW o \in c.set, o \in JailFlags, o \notin Overridden(c)
    PROVE  JailFlagOf[o] \in appendJailArgs(c)
<1>1. ASSUME o \in DOMAIN FlagFloor
      PROVE  JailFlagOf[o] \in appendJailFlags(c)
  <2>1. jailSupports(c, FlagFloor[o])
    BY <1>1, JailMeets DEF FlagFloor, jailSupports, LaunchConfigs
  <2> QED BY <1>1, <2>1, FlagsCarry
<1>2. ASSUME o \in {"networkOn", "networkOff"}
      PROVE  JailFlagOf[o] \in networkDecision(c)
  BY <1>2 DEF networkDecision, JailFlagOf, filteredEgress, Exclusive
<1>3. ASSUME o \in {"dockerOn", "dockerOff"}
      PROVE  JailFlagOf[o] \in dockerDecision(c)
  BY <1>3 DEF dockerDecision, JailFlagOf, Exclusive
<1>4. ASSUME o = "agentState"
      PROVE  JailFlagOf[o] \in agentStateDecision(c)
  BY <1>4, JailMeets DEF agentStateDecision, JailFlagOf, Overridden, When
<1>5. ASSUME o \in {"allowHosts", "allowPrivateHosts"}
      PROVE  JailFlagOf[o] \in appendAllowHosts(c)
  BY <1>5, HostsMeet DEF appendAllowHosts, JailFlagOf, When
<1>6. ASSUME o = "requestFile"
      PROVE  JailFlagOf[o] \in jailContractArgs(c)
  BY <1>6, HostsMeet DEF jailContractArgs, JailFlagOf, When
<1> QED BY <1>1, <1>2, <1>3, <1>4, <1>5, <1>6, Vocabulary DEF appendJailArgs

LEMMA PermissionsCarried ==
    ASSUME NEW c \in LaunchConfigs, "useJail" \in c.set, NEW a, a.jail = appendJailArgs(c),
           NEW o \in c.set, o \notin Overridden(c),
           o \in {"permission-network", "permission-docker", "permission-ssh", "permission-gpu"}
    PROVE  Carries(a, o)
<1>1. networkDecision(c) \cup dockerDecision(c) \cup appendPermissionArgs(c) \subseteq a.jail
  BY DEF appendJailArgs
<1>2. o \notin DOMAIN JailFlagOf /\ o \notin DOMAIN MemoryFlagOf
  BY DEF JailFlagOf, MemoryFlagOf
<1>3. ASSUME o = "permission-network"
      PROVE  networkDecision(c) \cap {"--network", "--allow-host"} # {}
  BY <1>3 DEF networkDecision, Overridden, When
<1>4. ASSUME o = "permission-docker"
      PROVE  "--docker" \in dockerDecision(c)
  BY <1>4 DEF dockerDecision, Overridden, When
<1>5. ASSUME o \in {"permission-ssh", "permission-gpu"}
      PROVE  /\ o = "permission-ssh" => "--ssh" \in appendPermissionArgs(c)
             /\ o = "permission-gpu" => "--gpu" \in appendPermissionArgs(c)
  BY <1>5 DEF appendPermissionArgs, Overridden, When
<1> QED BY <1>1, <1>2, <1>3, <1>4, <1>5 DEF Carries

LEMMA MemoryOptionsCarried ==
    ASSUME NEW c \in LaunchConfigs, Accepted(c), "useMemory" \in c.set, "continue" \notin c.set,
           "useDocker" \notin c.set,
           NEW o \in c.set, o \in DOMAIN MemoryFlagOf,
           o \notin Overridden(c), o \notin Announced(c, Validate(c))
    PROVE  MemoryFlagOf[o] \in Build(c).pre \cup Build(c).post
<1>1. /\ Build(c).pre = appendMemoryScope(c) \cup appendMemoryRunOptions(c)
      /\ Build(c).post = appendNative(c) \cup appendForceUnlock(c) \cup appendNoExitPrompt(c)
                         \cup (When("fresh" \in c.set, "--fresh")
                               \cup When(disableMemoryAutowire(c), "--no-autowire"))
  BY DEF Build
<1>2. ASSUME o \in {"scopes", "workstream", "newWorkstream"}
      PROVE  MemoryFlagOf[o] \in appendMemoryScope(c)
  BY <1>2 DEF appendMemoryScope, MemoryFlagOf, Overridden, When
<1>3. ASSUME o \in {"memoryProfile", "memoryEnvFile"}
      PROVE  MemoryFlagOf[o] \in appendMemoryRunOptions(c)
  BY <1>3, MemoryMeets DEF appendMemoryRunOptions, MemoryFlagOf, When
<1>4. ASSUME o = "memoryJail"
      PROVE  MemoryFlagOf[o] \in appendMemoryRunOptions(c)
  <2>1. memorySupports(c, 2502)
    BY <1>4, MemoryMeets
  <2>2. "useJail" \notin c.set
    <3>1. SUFFICES ASSUME "useJail" \in c.set PROVE FALSE
      OBVIOUS
    <3>2. "memory-jail-with-launcher-jail" \in memoryJailIssues(c)
      BY <1>4, <3>1 DEF memoryJailIssues, When
    <3>3. "memory-jail-with-launcher-jail" \in Validate(c)
      BY <3>2 DEF Validate, memoryRunFlagIssues
    <3> QED BY <1>4, <3>3 DEF Announced, When
  <2> QED BY <1>4, <2>1, <2>2 DEF appendMemoryRunOptions, MemoryFlagOf, When
<1>5. ASSUME o = "forceUnlock"
      PROVE  MemoryFlagOf[o] \in appendForceUnlock(c)
  BY <1>5, MemoryMeets DEF appendForceUnlock, MemoryFlagOf, When
<1>6. ASSUME o = "noExitPrompt"
      PROVE  MemoryFlagOf[o] \in appendNoExitPrompt(c)
  BY <1>6, MemoryMeets DEF appendNoExitPrompt, MemoryFlagOf, When
<1>7. ASSUME o = "fresh"
      PROVE  MemoryFlagOf[o] \in When("fresh" \in c.set, "--fresh")
  BY <1>7 DEF MemoryFlagOf, When
<1> QED BY <1>1, <1>2, <1>3, <1>4, <1>5, <1>6, <1>7, Vocabulary

LEMMA NativeCarried ==
    ASSUME NEW c \in LaunchConfigs, NEW o \in c.set, o \in DOMAIN NativeFlagOf,
           o \notin Announced(c, Validate(c))
    PROVE  NativeFlagOf[o] \in appendNative(c)
  BY Vocabulary DEF NativeFlagOf, appendNative, appendDeclaredParams, appendYoloFlag, Announced, When
LEMMA AllCarried ==
    ASSUME NEW c \in LaunchConfigs, Accepted(c), Exclusive(c), "continue" \notin c.set
    PROVE  CarriesAll(c, Build(c), Validate(c))
<1> SUFFICES ASSUME NEW o \in c.set, o \in Expected(c, Build(c)), o \notin Overridden(c),
                    o \notin Announced(c, Validate(c))
             PROVE  Carries(Build(c), o)
  BY DEF CarriesAll
<1>1. CASE o \in DOMAIN NativeFlagOf
  <2>1. NativeFlagOf[o] \in Build(c).post
    BY <1>1, NativeCarried DEF Build, buildDockerRun
  <2>2. o \notin DOMAIN JailFlagOf /\ o \notin DOMAIN MemoryFlagOf
        /\ o \notin {"permission-network", "permission-docker", "permission-ssh", "permission-gpu"}
    BY <1>1, Vocabulary DEF FlagFloor
  <2> QED BY <2>1, <2>2 DEF Carries
<1>2. CASE "useDocker" \in c.set /\ o \notin DOMAIN NativeFlagOf
  <2>1. o = "permission-docker" \/ (o = "permission-ssh" /\ ~Wrong("no-home"))
    BY <1>2, Outer DEF Expected, When
  <2>2. Build(c).jail = permissionHomeMount(c)
                        \cup When("permission-docker" \in c.set, "--volume-docker-sock")
    BY <1>2 DEF Build, buildDockerRun
  <2>3. o \notin DOMAIN JailFlagOf /\ o \notin DOMAIN MemoryFlagOf
    BY <2>1, Vocabulary DEF FlagFloor
  <2> QED BY <2>1, <2>2, <2>3 DEF Carries, permissionHomeMount, When
<1>3. CASE "useDocker" \notin c.set /\ o \notin DOMAIN NativeFlagOf
  <2>1. Build(c).outer # "docker"
    BY <1>3, Outer
  <2>2. CASE o \in DOMAIN MemoryFlagOf
    <3>1. o \notin JailFlags
      BY <2>2, Vocabulary DEF FlagFloor
    <3>2. "useMemory" \in c.set
      BY <1>3, <2>1, <2>2, <3>1, Vocabulary DEF Expected
    <3> QED BY <1>3, <2>2, <3>1, <3>2, Vocabulary, MemoryOptionsCarried DEF Carries
  <2>3. CASE o \notin DOMAIN MemoryFlagOf
    <3>1. "useJail" \in c.set /\ (o \in JailFlags \/ o \in {"permission-network",
             "permission-docker", "permission-ssh", "permission-gpu"})
      BY <1>3, <2>1, <2>3, Outer DEF Expected
    <3>2. Build(c).jail = appendJailArgs(c)
      BY <1>3 DEF Build
    <3>3. ASSUME o \in JailFlags
          PROVE  Carries(Build(c), o)
      <4>1. JailFlagOf[o] \in Build(c).jail
        BY <1>3, <3>1, <3>2, <3>3, JailOptionsCarried
      <4>2. o \in DOMAIN JailFlagOf
        BY <3>3, Vocabulary
      <4>3. o \notin DOMAIN MemoryFlagOf
            /\ o \notin {"permission-network", "permission-docker", "permission-ssh", "permission-gpu"}
        BY <3>3, Vocabulary DEF FlagFloor
      <4> QED BY <4>1, <4>2, <4>3 DEF Carries
    <3> QED BY <3>1, <3>2, <3>3, PermissionsCarried
  <2> QED BY <2>2, <2>3
<1> QED BY <1>1, <1>2, <1>3
-----------------------------------------------------------------------------
\* The machine.

\* What is known of the host at every moment, and the claim.
PreflightInv ==
    /\ cfg \in LaunchConfigs /\ Exclusive(cfg) /\ Consistent(cfg) /\ world \in Worlds
    /\ AcceptedIsCarriedOut

LEMMA InitInv == PreflightInit => PreflightInv
  BY StartsAssumption DEF PreflightInit, PreflightInv, Consistent, AcceptedIsCarriedOut

LEMMA Replaced ==
    ASSUME NEW c \in LaunchConfigs, NEW j \in Nat, NEW k \in {"unprobed", "none", "full"},
           NEW m \in Nat, NEW e \in SUBSET EnvNames
    PROVE  [c EXCEPT !.jailVersion = j, !.contract = k, !.memoryVersion = m, !.jailEnv = e]
              \in LaunchConfigs
  BY DEF LaunchConfigs

\* Probing tells what is installed.
LEMMA Resolved ==
    ASSUME NEW c \in LaunchConfigs, Exclusive(c), Consistent(c), world \in Worlds
    PROVE  LET r == ResolveHostBinaries(c) IN
           /\ r \in LaunchConfigs /\ Exclusive(r) /\ Consistent(r) /\ Probed(r)
           /\ r.set = c.set /\ r.agent = c.agent
<1> DEFINE r == ResolveHostBinaries(c)
<1>1. /\ DetectJailVersion \in Nat /\ (DetectJailVersion # 0 => DetectJailVersion = world.jail)
      /\ DetectMemoryVersion \in Nat /\ (DetectMemoryVersion # 0 => DetectMemoryVersion = world.memory)
      /\ ~Wrong("no-ai-memory") /\ ~Wrong("memory-probe") => DetectMemoryVersion # 0
      /\ ProbeJailContract \in {"unprobed", "none", "full"}
      /\ ProbeJailContract = "full" => world.jail >= 3001
  BY WorldsAssumption DEF DetectJailVersion, DetectMemoryVersion, ProbeJailContract
<1>2. JailEnvPassthrough(c) \subseteq EnvNames
  <2>1. c.agent \in Harnesses \cup {Nobody}
    BY DEF LaunchConfigs
  <2>2. VendorKeys[c.agent] \subseteq EnvNames
    BY <2>1 DEF EnvNames
  <2>3. "AI_MEMORY" \in EnvNames
    BY DEF EnvNames
  <2>4. When("useMemory" \in c.set, "AI_MEMORY") \subseteq EnvNames
    BY <2>3 DEF When
  <2> QED BY <2>2, <2>4 DEF JailEnvPassthrough
<1>3. /\ r.set = c.set /\ r.agent = c.agent
      /\ r.jailVersion \in {c.jailVersion, DetectJailVersion}
      /\ r.memoryVersion \in {c.memoryVersion, DetectMemoryVersion}
      /\ "useMemory" \in c.set /\ c.memoryVersion = 0 => r.memoryVersion = DetectMemoryVersion
      /\ "useMemory" \in c.set /\ c.memoryVersion # 0 => r.memoryVersion # 0
      /\ r.contract \in {c.contract, ProbeJailContract}
      /\ r.jailEnv \in {c.jailEnv, JailEnvPassthrough(c)}
  BY DEF ResolveHostBinaries, LaunchConfigs
<1>4. r \in LaunchConfigs
  <2> DEFINE jailed == "useJail" \in c.set
             j == IF jailed /\ c.jailVersion = 0 THEN DetectJailVersion ELSE c.jailVersion
             k == IF jailed /\ c.contract = "unprobed" THEN ProbeJailContract ELSE c.contract
             m == IF "useMemory" \in c.set /\ c.memoryVersion = 0 THEN DetectMemoryVersion
                  ELSE c.memoryVersion
             e == IF jailed /\ c.jailEnv = {"nil"} THEN JailEnvPassthrough(c) ELSE c.jailEnv
  <2>1. j \in Nat /\ m \in Nat /\ k \in {"unprobed", "none", "full"} /\ e \in SUBSET EnvNames
    BY <1>1, <1>2 DEF LaunchConfigs
  <2>2. r = [c EXCEPT !.jailVersion = j, !.contract = k, !.memoryVersion = m, !.jailEnv = e]
    BY DEF ResolveHostBinaries
  <2> HIDE DEF r, j, k, m, e
  <2> QED BY <2>1, <2>2, Replaced
<1>5. Consistent(r)
  BY <1>1, <1>3 DEF Consistent
<1>6. Probed(r)
  BY <1>1, <1>3 DEF Probed
<1> QED BY <1>3, <1>4, <1>5, <1>6 DEF Exclusive

\* An edit leaves what was probed and starts from the screen again.
LEMMA EditKeeps ==
    ASSUME PreflightInv, NEW c \in LaunchConfigs, Exclusive(c), Edited(c),
           c.jailVersion = cfg.jailVersion, c.memoryVersion = cfg.memoryVersion,
           c.contract = cfg.contract
    PROVE  PreflightInv'
  BY DEF PreflightInv, Edited, Exclusive, Consistent, AcceptedIsCarriedOut

LEMMA Reselected ==
    ASSUME NEW c \in LaunchConfigs, Exclusive(c), NEW a \in Harnesses \cup {Nobody},
           NEW S \in SUBSET Settings,
           S \cap {"networkOn", "networkOff", "dockerOn", "dockerOff"}
              = c.set \cap {"networkOn", "networkOff", "dockerOn", "dockerOff"}
    PROVE  LET d == [c EXCEPT !.agent = a, !.set = S] IN
           /\ d \in LaunchConfigs /\ Exclusive(d)
           /\ d.jailVersion = c.jailVersion /\ d.memoryVersion = c.memoryVersion
           /\ d.contract = c.contract
<1> DEFINE d == [c EXCEPT !.agent = a, !.set = S]
<1>1. d \in LaunchConfigs /\ d.set = S
  BY DEF LaunchConfigs
<1>2. Exclusive(d)
  BY <1>1 DEF Exclusive
<1> QED BY <1>1, <1>2 DEF LaunchConfigs

\* The claim in the state after a confirmation that runs c.
LEMMA Runs ==
    ASSUME NEW c \in LaunchConfigs, Exclusive(c), Consistent(c), Probed(c), world \in Worlds,
           Accepted(c), cfg' = c, argv' = Build(c), issues' = Validate(c), UNCHANGED world
    PROVE  AcceptedIsCarriedOut'
<1> DEFINE a == Build(c)  found == Validate(c)
<1>1. /\ a.outer = "ai-jail" =>
            JailAcceptsFlags(a) /\ (NetworkForced(c) \/ JailAcceptsNetwork(a))
      /\ a.outer # "docker" /\ "useMemory" \in c.set => MemoryAccepts(a)
      /\ "continue" \notin c.set => CarriesAll(c, a, found)
  BY JailTakesIt, MemoryTakesIt, AllCarried
<1> HIDE DEF a, found
<1>2. /\ JailAcceptsFlags(argv)' <=> JailAcceptsFlags(a)
      /\ JailAcceptsNetwork(argv)' <=> JailAcceptsNetwork(a)
      /\ NetworkForced(cfg)' <=> NetworkForced(c)
  BY DEF JailAcceptsFlags, JailAcceptsNetwork, NetworkForced, jailAtLeast3, jailSupports, a
<1>3. MemoryAccepts(argv)' <=> MemoryAccepts(a)
  BY DEF MemoryAccepts, Wrong, a
<1>4. /\ Overridden(cfg)' = Overridden(c)
      /\ Expected(cfg, argv)' = Expected(c, a)
      /\ Announced(cfg, issues)' = Announced(c, found)
  <2>1. Overridden(cfg)' = Overridden(c)
    BY DEF Overridden, filteredEgress, ValidHosts, ValidPrivateHosts, Wrong, jailSupports, When
  <2>2. Expected(cfg, argv)' = Expected(c, a)
    BY DEF Expected, Wrong, When, a
  <2>3. Announced(cfg, issues)' = Announced(c, found)
    BY DEF Announced, When, found
  <2> QED BY <2>1, <2>2, <2>3
<1>5. CarriesAll(cfg, argv, issues)' <=> CarriesAll(c, a, found)
  BY <1>4 DEF CarriesAll, Carries, a
<1> QED BY <1>1, <1>2, <1>3, <1>5 DEF AcceptedIsCarriedOut, a

LEMMA Flip ==
    ASSUME PreflightInv, NEW o \in {"useJail", "useMemory", "yolo", "fresh", "permission-network"},
           Edited(Flipped(cfg, o))
    PROVE  PreflightInv'
<1> DEFINE S == IF o \in cfg.set THEN cfg.set \ {o} ELSE cfg.set \cup {o}
           d == [cfg EXCEPT !.agent = cfg.agent, !.set = S]
<1>1. cfg \in LaunchConfigs /\ Exclusive(cfg)
  BY DEF PreflightInv
<1>2. S \in SUBSET Settings
  BY <1>1 DEF LaunchConfigs, Settings, Backends, MemoryFlagOf, NativeFlagOf
<1>3. Flipped(cfg, o) = d
  BY <1>1 DEF Flipped, LaunchConfigs
<1>4. /\ d \in LaunchConfigs /\ Exclusive(d)
      /\ d.jailVersion = cfg.jailVersion /\ d.memoryVersion = cfg.memoryVersion
      /\ d.contract = cfg.contract
  <2>1. S \cap {"networkOn", "networkOff", "dockerOn", "dockerOff"}
           = cfg.set \cap {"networkOn", "networkOff", "dockerOn", "dockerOff"}
    OBVIOUS
  <2>2. cfg.agent \in Harnesses \cup {Nobody}
    BY <1>1 DEF LaunchConfigs
  <2> HIDE DEF S
  <2> QED BY <1>1, <1>2, <2>1, <2>2, Reselected
<1> HIDE DEF d
<1> QED BY <1>3, <1>4, EditKeeps

\* Another agent or none, and other backends.
LEMMA Switch ==
    ASSUME PreflightInv, NEW a \in Harnesses \cup {Nobody}, NEW S,
           S \subseteq cfg.set \cup {"useJail", "useDocker", "continue"},
           cfg.set \ {"useJail", "useDocker", "continue", "useMemory", "yolo"} \subseteq S,
           Edited([cfg EXCEPT !.agent = a, !.set = S])
    PROVE  PreflightInv'
<1>1. cfg \in LaunchConfigs /\ Exclusive(cfg)
  BY DEF PreflightInv
<1>2. S \in SUBSET Settings
  BY <1>1 DEF LaunchConfigs, Settings, Backends
<1>3. S \cap {"networkOn", "networkOff", "dockerOn", "dockerOff"}
         = cfg.set \cap {"networkOn", "networkOff", "dockerOn", "dockerOff"}
  OBVIOUS
<1> DEFINE d == [cfg EXCEPT !.agent = a, !.set = S]
<1>4. /\ d \in LaunchConfigs /\ Exclusive(d)
      /\ d.jailVersion = cfg.jailVersion /\ d.memoryVersion = cfg.memoryVersion
      /\ d.contract = cfg.contract
  BY <1>1, <1>2, <1>3, Reselected, ZenonT(30)
<1> HIDE DEF d
<1>5. Edited(d)
  BY DEF d
<1> QED BY <1>4, <1>5, EditKeeps

LEMMA InvStep == PreflightInv /\ [PreflightNext]_preflightVars => PreflightInv'
<1> SUFFICES ASSUME PreflightInv, [PreflightNext]_preflightVars
             PROVE  PreflightInv'
  OBVIOUS
<1>0. cfg \in LaunchConfigs /\ Exclusive(cfg) /\ Consistent(cfg) /\ world \in Worlds
  BY DEF PreflightInv
<1>1. CASE Finalize
  <2>1. /\ cfg' \in LaunchConfigs /\ Exclusive(cfg') /\ Consistent(ResolveHostBinaries(cfg))
        /\ cfg' = ResolveHostBinaries(cfg) /\ world' = world /\ stage' = "screen"
    BY <1>0, <1>1, Resolved DEF Finalize
  <2> QED BY <1>0, <2>1 DEF PreflightInv, Consistent, Exclusive, AcceptedIsCarriedOut
<1>2. ASSUME NEW a \in Harnesses, SelectAgent(a)
      PROVE  PreflightInv'
  <2> DEFINE b == [cfg EXCEPT !.agent = a, !.set = @ \ {"continue"}]
             S == b.set \ (When(b.agent \notin MemoryAgents, "useMemory")
                           \cup When(b.agent \notin YoloAgents, "yolo"))
  <2>1. b.set = cfg.set \ {"continue"} /\ b.agent = a
    BY <1>0 DEF LaunchConfigs
  <2>2. syncForAgent(b) = [cfg EXCEPT !.agent = a, !.set = S]
    BY <1>0, <2>1 DEF syncForAgent, LaunchConfigs
  <2>3. /\ S \subseteq cfg.set \cup {"useJail", "useDocker", "continue"}
        /\ cfg.set \ {"useJail", "useDocker", "continue", "useMemory", "yolo"} \subseteq S
    BY <2>1 DEF When
  <2>4. Edited(syncForAgent(b))
    BY <1>2 DEF SelectAgent
  <2>5. Edited([cfg EXCEPT !.agent = a, !.set = S])
    BY <2>2, <2>4
  <2> HIDE DEF S, b
  <2> QED BY <2>3, <2>5, Switch
<1>3. CASE SelectContinue
  BY <1>3, Switch DEF SelectContinue
<1>4. CASE ToggleOption
  BY <1>4, Flip DEF ToggleOption
<1>5. CASE ToggleContainer
  <2>1. ASSUME NEW S, S \subseteq cfg.set \cup {"useJail", "useDocker", "continue"},
               cfg.set \ {"useJail", "useDocker", "continue", "useMemory", "yolo"} \subseteq S,
               Edited([cfg EXCEPT !.set = S])
        PROVE  PreflightInv'
    <3>1. [cfg EXCEPT !.set = S] = [cfg EXCEPT !.agent = cfg.agent, !.set = S]
      BY <1>0 DEF LaunchConfigs
    <3>2. cfg.agent \in Harnesses \cup {Nobody}
      BY <1>0 DEF LaunchConfigs
    <3> QED BY <2>1, <3>1, <3>2, Switch
  <2>2. CASE Edited([cfg EXCEPT !.set = (@ \ {"useDocker"}) \cup {"useJail"}])
    BY <2>1, <2>2
  <2>3. CASE Edited([cfg EXCEPT !.set = (@ \ {"useJail"}) \cup {"useDocker"}])
    BY <2>1, <2>3
  <2> QED BY <1>5, <2>2, <2>3 DEF ToggleContainer
<1>6. CASE TogglePermission
  BY <1>6, Flip DEF TogglePermission
<1>7. CASE Confirm
  <2> DEFINE c == ResolveHostBinaries(cfg)
  <2>1. c \in LaunchConfigs /\ Exclusive(c) /\ Consistent(c) /\ Probed(c)
    BY <1>0, Resolved
  <2>2. cfg' = c /\ world' = world
    BY <1>7 DEF Confirm
  <2>3. AcceptedIsCarriedOut'
    <3>1. CASE stage' = "running"
      <4>1. Accepted(c) /\ argv' = Build(c) /\ issues' = Validate(c)
        BY <1>7, <3>1 DEF Confirm, Accepted
      <4> HIDE DEF c
      <4> QED BY <1>0, <2>1, <2>2, <4>1, Runs
    <3>2. CASE stage' # "running"
      BY <3>2 DEF AcceptedIsCarriedOut
    <3> QED BY <3>1, <3>2
  <2> HIDE DEF c
  <2> QED BY <1>0, <2>1, <2>2, <2>3 DEF PreflightInv, Consistent, Exclusive
<1>8. CASE UNCHANGED preflightVars
  <2>1. UNCHANGED <<cfg, world, stage, issues, argv>>
    BY <1>8 DEF preflightVars
  <2>2. AcceptedIsCarriedOut'
    BY <2>1 DEF PreflightInv, AcceptedIsCarriedOut, JailAcceptsFlags, JailAcceptsNetwork,
       NetworkForced, jailAtLeast3, jailSupports, MemoryAccepts, CarriesAll, Carries, Overridden,
       Announced, Expected, filteredEgress, ValidHosts, ValidPrivateHosts, Wrong
  <2> QED BY <1>0, <2>1, <2>2 DEF PreflightInv, Consistent, Exclusive
<1> QED BY <1>1, <1>2, <1>3, <1>4, <1>5, <1>6, <1>7, <1>8 DEF PreflightNext

\* Whatever ai-jail and ai-memory are installed, whatever is set, and whatever
\* is changed on the screen: a launch that the checks let through is one both
\* programs accept, and it carries what was set.
THEOREM AcceptedLaunches == PreflightSpec => []AcceptedIsCarriedOut
<1>1. PreflightInv => AcceptedIsCarriedOut
  BY DEF PreflightInv
<1> QED BY <1>1, InitInv, InvStep, PTL DEF PreflightSpec
=============================================================================

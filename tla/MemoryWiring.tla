------------------------------ MODULE MemoryWiring ------------------------------
(***************************************************************************)
(* wireMemoryTargets for one agent of the installation: ai-memory edits    *)
(* the agent's MCP file, then its hooks file. A file below a symbolic link *)
(* is edited as a private copy ("staged") and written back; another one is *)
(* edited where it is ("direct").                                          *)
(*                                                                         *)
(* A file is the set of its settings, Absent, or Torn; "memory" is what    *)
(* ai-memory adds. The agent edits its own files whenever it likes.        *)
(***************************************************************************)
CONSTANTS Settings, Absent, Torn

ASSUME SettingsAreTheAgents == "memory" \notin Settings

ConfigFiles == {"mcp", "hooks"}
Contents == SUBSET (Settings \cup {"memory"})

ASSUME NeitherIsAContent == Absent # Torn /\ \A content \in Contents : content \notin {Absent, Torn}

VARIABLES config,     \* the agent's files
          staging,    \* their copies below memory-staging, which outlive a run
          style,      \* how each is edited; "none": the agent wants no such file
          wiring,     \* where the run is
          file,       \* the file it is at
          wired,      \* how it ended
          seed,       \* history: the file when it was copied
          edited      \* history: the agent has changed it since

wiringVars == <<config, staging, style, wiring, file, wired, seed, edited>>

WiringTypeOK ==
    /\ config \in [ConfigFiles -> Contents \cup {Absent, Torn}]
    /\ staging \in [ConfigFiles -> Contents \cup {Absent, Torn}]
    /\ style \in [ConfigFiles -> {"staged", "direct", "none"}]
    /\ wiring \in {"off", "prepare", "run", "truncate", "publish", "remove"}
    /\ file \in ConfigFiles
    /\ wired \in {"none", "ok", "failed", "killed"}
    /\ seed \in Contents \cup {Absent, Torn}
    /\ edited \in BOOLEAN

WiringIdle ==
    /\ config = [f \in ConfigFiles |-> Absent] /\ staging = config
    /\ wiring = "off" /\ file = "mcp" /\ wired = "none" /\ seed = Absent /\ edited = FALSE
    /\ style = [f \in ConfigFiles |-> "none"]

WiringInit ==
    /\ staging = [f \in ConfigFiles |-> Absent]
    /\ wiring = "off" /\ file = "mcp" /\ wired = "none" /\ seed = Absent /\ edited = FALSE
    /\ config \in [ConfigFiles -> {Absent, Settings}]
    /\ style \in [ConfigFiles -> {"staged", "direct", "none"}]

\* Without ai-memory there is nothing to run.
WireMemoryTargets(found) ==
    /\ wiring = "off"
    /\ IF found THEN wiring' = "prepare" /\ wired' = "none"
       ELSE wired' = "failed" /\ UNCHANGED wiring
    /\ file' = "mcp"
    /\ UNCHANGED <<config, staging, style, seed, edited>>

WiringFails == wiring' = "off" /\ wired' = "failed"

\* MCP first, then the hooks.
NextFile ==
    IF file = "mcp" THEN file' = "hooks" /\ wiring' = "prepare" /\ UNCHANGED wired
    ELSE wiring' = "off" /\ wired' = "ok" /\ UNCHANGED file

SkipFile ==
    /\ wiring = "prepare" /\ style[file] = "none"
    /\ NextFile
    /\ UNCHANGED <<config, staging, style, seed, edited>>

\* Mutant: an old copy is good enough.
CopyConfigToStaging_Reused ==
    staging' = IF config[file] = Absent \/ staging[file] # Absent THEN staging
               ELSE [staging EXCEPT ![file] = config[file]]

\* A file that does not exist leaves the copy of an earlier run where it is.
CopyConfigToStaging ==
    staging' = IF config[file] = Absent THEN staging
               ELSE [staging EXCEPT ![file] = config[file]]

PrepareMemoryConfigFile ==
    /\ wiring = "prepare" /\ style[file] # "none"
    /\ \/ WiringFails /\ UNCHANGED <<staging, seed, edited>>
       \/ /\ wiring' = "run" /\ UNCHANGED wired
          /\ IF style[file] = "staged" THEN CopyConfigToStaging ELSE UNCHANGED staging
          /\ seed' = config[file] /\ edited' = FALSE
    /\ UNCHANGED <<config, style, file>>

WithMemory(content) ==
    IF content \in {Absent, Torn} THEN {"memory"} ELSE content \cup {"memory"}

\* ai-memory, for two minutes at most; a run that failed may have edited the file.
RunMemoryCommand ==
    /\ wiring = "run"
    /\ \E ok, edits \in BOOLEAN :
          /\ ok => edits
          /\ IF style[file] = "staged"
             THEN /\ staging' = IF edits THEN [staging EXCEPT ![file] = WithMemory(@)] ELSE staging
                  /\ UNCHANGED config
             ELSE /\ config' = IF edits THEN [config EXCEPT ![file] = WithMemory(@)] ELSE config
                  /\ UNCHANGED staging
          /\ CASE ~ok -> WiringFails /\ UNCHANGED file
               [] ok /\ style[file] = "staged" -> wiring' = "truncate" /\ UNCHANGED <<file, wired>>
               [] OTHER -> NextFile
    /\ UNCHANGED <<style, seed, edited>>

\* publishStagedConfig: a plain write over the agent's file, then the copy goes.
TruncateConfig ==
    /\ wiring = "truncate"
    /\ \/ WiringFails /\ UNCHANGED config
       \/ config' = [config EXCEPT ![file] = Torn] /\ wiring' = "publish" /\ UNCHANGED wired
    /\ UNCHANGED <<staging, style, file, seed, edited>>

PublishStagedConfig ==
    /\ wiring = "publish"
    /\ config' = [config EXCEPT ![file] = staging[file]]
    /\ wiring' = "remove"
    /\ UNCHANGED <<staging, style, file, wired, seed, edited>>

RemoveStaging ==
    /\ wiring = "remove"
    /\ \/ staging' = [staging EXCEPT ![file] = Absent] /\ NextFile
       \/ WiringFails /\ UNCHANGED <<staging, file>>
    /\ UNCHANGED <<config, style, seed, edited>>

WiringKilled ==
    /\ wiring # "off"
    /\ wiring' = "off" /\ wired' = "killed"
    /\ UNCHANGED <<config, staging, style, file, seed, edited>>

\* The agent writes a file anew, or removes it.
AgentEdits(f) ==
    /\ \E content \in {Absent} \cup SUBSET Settings :
          content # config[f] /\ config' = [config EXCEPT ![f] = content]
    /\ edited' = (edited \/ f = file)
    /\ UNCHANGED <<staging, style, wiring, file, wired, seed>>

WiringNext ==
    \/ \E found \in BOOLEAN : WireMemoryTargets(found)
    \/ SkipFile \/ PrepareMemoryConfigFile \/ RunMemoryCommand
    \/ TruncateConfig \/ PublishStagedConfig \/ RemoveStaging
    \/ WiringKilled
    \/ \E f \in ConfigFiles : AgentEdits(f)

WiringSpec == WiringInit /\ [][WiringNext]_wiringVars

-----------------------------------------------------------------------------
Published == wiring = "remove"
Kept(content) == IF content \in {Absent, Torn} THEN {} ELSE content

\* "A config that does not exist yet starts empty" (install.go:562-563): what is
\* published is the file as it was copied, and ai-memory's part.
StartsFromTheFile ==
    Published /\ ~edited => config[file] \in Contents /\ config[file] \subseteq Kept(seed) \cup {"memory"}

\* The agent edits its file in a copy so that an ai-memory that fails cannot spoil
\* it, whatever an earlier run has left there: until it is published the file is
\* as it was, and what is published has every setting of it and, if there was
\* one, nothing else.
WiringKeepsSettings ==
    ~edited /\ style[file] = "staged" =>
      /\ wiring \in {"run", "truncate"} => config[file] = seed
      /\ Published =>
            /\ Kept(seed) \cup {"memory"} \subseteq config[file]
            /\ seed \notin {Absent, Torn} => StartsFromTheFile
=============================================================================

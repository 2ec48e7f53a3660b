------------------------------- MODULE Selection -------------------------------
(***************************************************************************)
(* What a launch is made of (cmd/ai-launcher: run, resolveLaunchInputs,    *)
(* enforceLocalConfigTrust; internal/catalog; internal/config): built-in   *)
(* defaults, the workspace file, a named profile of the global config and  *)
(* the flags of the command line, in this order; and what --save and       *)
(* --save-profile write back.                                              *)
(*                                                                         *)
(* An options block is the set of the options that are on. An option that  *)
(* carries a value (a limit, a list, a name) is on when it has one. Two    *)
(* values of one option are not told apart.                                *)
(***************************************************************************)
EXTENDS Naturals

CONSTANTS Agents,                                       \* words that name an agent
          Known, EntryOf,      \* those of the catalog: a command, a name or an alias
          ResolvedCommand,     \* what an entry runs: its path, or an alias that is installed
          SupportMemory, SupportYolo,
          PermissionIDs, Requires, DefaultOn, Locked,   \* the permission catalog
          PermissionFlags,                              \* those a flag turns on
          Paths, Denied, DefaultMounts, AutoMounts,     \* host directories
          GlobalOptions,                                \* what the global config adds
          CommandLines, Profiles, Hosts,
          Documents, Rewrites,        \* the file at first, and as edited later
          None

ASSUME CatalogAssumption ==
    /\ SupportMemory \subseteq Known /\ SupportYolo \subseteq Known
    /\ Known \subseteq Agents /\ "claude" \in Known
    /\ EntryOf \in [Known -> Known] /\ ResolvedCommand \in [Known -> Agents]
    /\ Requires \in [PermissionIDs -> SUBSET PermissionIDs]
    /\ DefaultOn \subseteq PermissionIDs /\ Locked \subseteq PermissionIDs
    /\ "jail" \in DefaultOn
ASSUME MountsAssumption ==
    /\ Denied \subseteq Paths /\ DefaultMounts \subseteq Paths /\ AutoMounts \subseteq Paths

\* --agent names "plain", --mount shares "work"; --no-color is no permission's flag.
ASSUME FlagsAssumption ==
    /\ "plain" \in Agents /\ "work" \in Paths
    /\ PermissionFlags \subseteq PermissionIDs /\ "no-color" \notin PermissionIDs
ASSUME GlobalAssumption == GlobalOptions \subseteq {"deps"}

\* config.Options. limits: memory, cpus, pids, ports, network, service ports;
\* memoryTuning: memory_profile, memory_env_file, memory_jail and
\* memory_exit_prompt; containerEnv: container_environment.
Options == {"jail", "memory", "yolo", "docker", "limits", "services", "deps", "tmux",
            "fresh", "forceUnlock", "memoryTuning", "workspace", "project", "workstream",
            "newWorkstream", "containerEnv", "jailFlags", "extraArgs", "params"}

\* A map from permission to on or off in which a key may be missing.
Answers == [PermissionIDs -> {"on", "off", "unset"}]
Unanswered == [id \in PermissionIDs |-> "unset"]

Local == [agent : Agents, permissions : Answers, mounts : SUBSET Paths,
          options : SUBSET Options]
\* The agent of a launch is the command it runs; its entry, the catalog's.
Launch == [agent : Agents, entry : Known \cup {None}, permissions : SUBSET PermissionIDs,
           mounts : SUBSET Paths, options : SUBSET Options]

\* The workspace file as written: the options it turns on and those it denies
\* by name. A hand-written block may give extra_args as one string.
Document == [agent : Agents, permissions : Answers, mounts : SUBSET Paths,
             form : {"absent", "list", "scalar"}, on : SUBSET Options,
             off : SUBSET {"jail", "memory"}]

\* A profile leaves out the blocks that are None.
Profile == [agent : Agents \cup {None}, permissions : Answers \cup {None},
            mounts : (SUBSET Paths) \cup {None}, options : (SUBSET Options) \cup {None}]

ASSUME DocumentsAssumption ==
    /\ Documents \subseteq Document /\ Rewrites \subseteq Document
    /\ Profiles \subseteq Profile \cup {None}
ASSUME NoneAssumption ==
    /\ None \notin Agents /\ \A answers \in Answers : answers # None
    /\ \A mounts \in SUBSET Paths : mounts # None
    /\ \A options \in SUBSET Options : options # None

VARIABLES file,      \* the workspace file
          blessed,   \* the content whose hash the global config records for it
          profile,   \* the profile --profile and --save-profile name, or None
          host,      \* the operating system; whether a container runtime answers
          asked,     \* the flags of the last run; {"bare"} is the TUI without flags
          outcome,   \* how it ended; a refusal names its reason
          launch,    \* what it launched or saved, or None
          spent,     \* one run with flags of its own, or one edit (a bound)
          saved,     \* history: the selection of the last --save, or None
          unsaved    \* history: the file of the last run was not trusted

selectionVars == <<file, blessed, profile, host, asked, outcome, launch, spent, saved, unsaved>>

Reasons == {"agent", "jail", "docker", "deps", "tmux", "mounts", "permissions",
            "jailFlags", "yolo", "forceUnlock", "extraArgs", "params", "workspace", "project"}

SelectionTypeOK ==
    /\ file \in Document /\ blessed \in Document \cup {None}
    /\ profile \in Profile \cup {None}
    /\ host \in Hosts /\ asked \in CommandLines \cup {{}} /\ spent \in BOOLEAN
    /\ outcome \in {"none", "launched", "saved", "profile saved", "no profile",
                    "no runtime", "artifacts failed"} \cup Reasons
    /\ launch \in Launch \cup {None} /\ saved \in Launch \cup {None}
    /\ unsaved \in BOOLEAN
-----------------------------------------------------------------------------
\* Reading the file.

DefaultLocal ==
    [agent |-> "claude", permissions |-> Unanswered, mounts |-> {},
     options |-> {"jail", "memory"}]

\* The scalar form has a struct of its own, which lacks these fields.
ScalarForgets == {"fresh", "forceUnlock", "memoryTuning"}

applyOptionDefaults(on, off) == on \cup ({"jail", "memory"} \ off)

\* Jail and memory are on unless the document denies them by name.
UnmarshalOptions(d) ==
    applyOptionDefaults(IF d.form = "scalar" THEN d.on \ ScalarForgets ELSE d.on, d.off)

LoadLocal(d) ==
    [agent |-> d.agent, permissions |-> d.permissions, mounts |-> d.mounts,
     options |-> IF d.form = "absent" THEN DefaultLocal.options ELSE UnmarshalOptions(d)]

applyProfile(l, p) ==
    [agent |-> IF p.agent # None THEN p.agent ELSE l.agent,
     permissions |-> IF p.permissions # None THEN p.permissions ELSE l.permissions,
     mounts |-> IF p.mounts # None THEN p.mounts ELSE l.mounts,
     options |-> IF p.options # None THEN p.options ELSE l.options]

NoProfile == [agent |-> None, permissions |-> None, mounts |-> None, options |-> None]
AppliedProfile(given_) ==
    IF "profile" \in given_ /\ "no-local-config" \notin given_ THEN profile ELSE NoProfile
RawLocal(given_) == IF "no-local-config" \in given_ THEN DefaultLocal ELSE LoadLocal(file)
-----------------------------------------------------------------------------
\* The trust boundary: what the file alone decides.

hasContainerResources(o) == o \cap {"limits", "services"} # {}

\* The values the file still owns: profiles and --no-local-config take over
\* whole blocks, --agent the agent.
localTrustFrom_DockerOnly(given_) ==
    LET raw == RawLocal(given_)
        p == AppliedProfile(given_)
        optionsRaw == p.options = None /\ "no-local-config" \notin given_
    IN [agent |-> IF "agent" \in given_ \/ p.agent # None \/ "no-local-config" \in given_
                  THEN None ELSE raw.agent,
        options |-> IF optionsRaw THEN raw.options ELSE {},
        container |-> optionsRaw /\ "docker" \in raw.options,
        jail |-> optionsRaw => "jail" \in raw.options,
        mounts |-> IF p.mounts = None THEN raw.mounts ELSE {},
        permissions |-> IF p.permissions = None
                        THEN {id \in PermissionIDs : raw.permissions[id] = "on"} ELSE {}]
localTrustFrom(given_) ==
    LET raw == RawLocal(given_)
        p == AppliedProfile(given_)
        optionsRaw == p.options = None /\ "no-local-config" \notin given_
    IN [agent |-> IF "agent" \in given_ \/ p.agent # None \/ "no-local-config" \in given_
                  THEN None ELSE raw.agent,
        options |-> IF optionsRaw THEN raw.options ELSE {},
        container |-> optionsRaw /\ ("docker" \in raw.options \/ hasContainerResources(raw.options)),
        jail |-> optionsRaw => "jail" \in raw.options,
        mounts |-> IF p.mounts = None THEN raw.mounts ELSE {},
        permissions |-> IF p.permissions = None
                        THEN {id \in PermissionIDs : raw.permissions[id] = "on"} ELSE {}]

\* The gate's list of container flags: host-gateway is not on it.
containerFlagSet(given_) ==
    given_ \cap {"docker-backend", "docker-backend=false", "runtime", "resource", "service"} # {}

\* Why the gate refuses, in the order of its checks: the first reason counts.
mountConsent(trust) == trust.mounts \cap Denied = {}
permissionConsent(given_, trust) == trust.permissions \cap PermissionFlags \subseteq given_
memoryScopeConsent(scope, given_, trust) == scope \in trust.options => scope \in given_
jailFlagsConsent(given_, trust) == "jailFlags" \in trust.options => "save" \in given_
containerConsent(given_, trust) == trust.container => containerFlagSet(given_)

\* Sharing host directories with a container needs --save.
shareConsent(option, given_, trust) ==
    option \in trust.options /\ (trust.container \/ containerFlagSet(given_)) => "save" \in given_
harnessConsent(option, flags_, given_, trust) ==
    option \in trust.options => given_ \cap flags_ # {}

Refusals(given_, trust) ==
    {r \in Reasons :
        \/ r = "agent" /\ trust.agent # None /\ trust.agent \notin Known
        \/ /\ "bare" \notin given_
           /\ \/ r = "jail" /\ "jail" \in DefaultOn /\ ~trust.jail
                 /\ given_ \cap {"no-jail", "sandbox"} = {}
              \/ r = "docker" /\ ~containerConsent(given_, trust)
              \/ r \in {"deps", "tmux"} /\ ~shareConsent(r, given_, trust)
              \/ r = "mounts" /\ ~mountConsent(trust)
              \/ r = "permissions" /\ ~permissionConsent(given_, trust)
              \/ r = "jailFlags" /\ ~jailFlagsConsent(given_, trust)
              \/ r = "yolo" /\ ~harnessConsent("yolo", {"yolo"}, given_, trust)
              \/ r = "forceUnlock" /\ ~harnessConsent("forceUnlock", {"force-unlock"}, given_, trust)
              \/ r = "extraArgs" /\ ~harnessConsent("extraArgs", {"extra-args"}, given_, trust)
              \/ r = "params" /\ ~harnessConsent("params", {"param"}, given_, trust)
              \/ r \in {"workspace", "project"} /\ ~memoryScopeConsent(r, given_, trust)}

LocalConfigTrusted == file = blessed
enforceLocalConfigTrust(given_) ==
    IF LocalConfigTrusted THEN {} ELSE Refusals(given_, localTrustFrom(given_))
-----------------------------------------------------------------------------
\* Layering the flags.

\* What every option flag does to the block: the options it turns on and off.
TurnsOn(flag) ==
    CASE flag = "sandbox" -> {"jail"}
      [] flag \in {"docker-backend", "runtime", "host-gateway"} -> {"docker"}
      [] flag = "resource" -> {"limits", "docker"}
      [] flag = "service" -> {"services"}
      [] flag \in {"memory", "fresh", "yolo", "workspace", "project", "workstream"} -> {flag}
      [] flag = "new" -> {"newWorkstream"}
      [] flag = "force-unlock" -> {"forceUnlock"}
      [] flag = "extra-args" -> {"extraArgs"}
      [] flag = "param" -> {"params"}
      [] OTHER -> {}
TurnsOff(flag) ==
    CASE flag = "no-jail" -> {"jail"}
      [] flag = "docker-backend=false" -> {"docker"}
      [] flag = "no-memory" -> {"memory"}
      [] flag = "no-yolo" -> {"yolo"}
      [] OTHER -> {}

\* applyOptionFlags runs in the order of its table: a switch comes before the
\* flag that inverts it, except that --sandbox comes after --no-jail, and the
\* runtime and the gateway of the container after --docker-backend.
applyOptionFlags(given_, o) ==
    LET overruled == (IF "sandbox" \in given_ THEN {"no-jail"} ELSE {})
                     \cup (IF given_ \cap {"runtime", "host-gateway"} # {}
                           THEN {"docker-backend=false"} ELSE {})
        inverted == given_ \ overruled
    IN
    (o \cup UNION {TurnsOn(f) : f \in given_}) \ UNION {TurnsOff(f) : f \in inverted}

\* A limit on a container means a container.
applyResourceFlags(o) == IF hasContainerResources(o) THEN o \cup {"docker"} ELSE o

\* Services need the container network: they replace the jail.
withServices(o) == IF "services" \in o THEN (o \cup {"docker"}) \ {"jail"} ELSE o

\* Flag mounts replace the configured ones; without either, the catalog's
\* default mounts are used.
buildMountConfig(given_, configured) ==
    IF "mount" \in given_ THEN {"work"}
    ELSE IF configured # {} THEN configured ELSE DefaultMounts

\* What a permission requires, directly or through others.
Requirements ==
    [id \in PermissionIDs |->
        {k \in PermissionIDs :
            \A closed \in SUBSET PermissionIDs :
                /\ id \in closed /\ (\A m \in closed : Requires[m] \subseteq closed)
                => k \in closed}]
propagateRequires(on) == on \cup UNION {Requirements[id] : id \in on}

\* Defaults, then the answers, then what is locked, then what those require.
NormalizePermissions_NoDefaults(answers) ==
    propagateRequires({id \in PermissionIDs : answers[id] = "on"} \cup Locked)
NormalizePermissions(answers) ==
    propagateRequires({id \in PermissionIDs :
                          \/ answers[id] = "on"
                          \/ answers[id] = "unset" /\ id \in DefaultOn}
                      \cup Locked)

resolvePermissions(given_, answers) ==
    NormalizePermissions(
        [id \in PermissionIDs |->
            IF id = "network" /\ "no-network" \in given_ THEN "off"
            ELSE IF id \in given_ THEN "on" ELSE answers[id]])

\* The catalog entry that answers to the word runs under the command found for
\* it; a word that none answers to is itself the command.
resolveAgentSelection_AlwaysFound(word) ==
    IF word \in Known THEN [entry |-> EntryOf[word], command |-> ResolvedCommand[EntryOf[word]]]
    ELSE [entry |-> word, command |-> word]
resolveAgentSelection(word) ==
    IF word \in Known THEN [entry |-> EntryOf[word], command |-> ResolvedCommand[EntryOf[word]]]
    ELSE [entry |-> None, command |-> word]

\* A catalog agent loses what it does not support; an unknown one keeps it.
disableUnsupported(entry, o) ==
    IF entry = None THEN o
    ELSE o \ ((IF entry \in SupportMemory THEN {} ELSE {"memory"})
              \cup (IF entry \in SupportYolo THEN {} ELSE {"yolo"}))

\* The container replaces the jail.
UseJail(o) == IF "docker" \in o THEN o \ {"jail"} ELSE o

JailDependent == {id \in PermissionIDs : "jail" \in Requirements[id]}

\* ai-jail does not exist on Windows: the jail and what requires it are dropped.
ConstrainToPlatform(l) ==
    IF host.os # "windows" THEN l
    ELSE [l EXCEPT !.options = @ \ {"jail"}, !.permissions = @ \ JailDependent]

\* The jail needs the targets of the home directory's symbolic links.
applyJailAutoDetection(l) ==
    IF "jail" \in l.options THEN [l EXCEPT !.mounts = @ \cup AutoMounts] ELSE l

\* resolveLaunchInputs and the LaunchConfig of run.
Resolve(given_) ==
    LET local == applyProfile(RawLocal(given_), AppliedProfile(given_))
        status == resolveAgentSelection(IF "agent" \in given_ THEN "plain" ELSE local.agent)
        flagged == withServices(applyResourceFlags(applyOptionFlags(given_, local.options)))
        positional == IF "positional" \in given_ THEN {"extraArgs"} ELSE {}
    IN applyJailAutoDetection(ConstrainToPlatform(
        [agent |-> status.command, entry |-> status.entry,
         permissions |-> resolvePermissions(given_, local.permissions),
         mounts |-> buildMountConfig(given_, local.mounts),
         options |-> UseJail(disableUnsupported(status.entry, flagged)
                             \cup positional \cup GlobalOptions)]))
-----------------------------------------------------------------------------
\* Writing the selection back.

\* The options of the loaded block that the selection does not carry stay.
NotProjected == {"memoryTuning"}
optionsFromLaunch_NoUnlock(base, l) ==
    (base \cap NotProjected) \cup (l.options \ (NotProjected \cup {"forceUnlock"}))
optionsFromLaunch(base, l) == (base \cap NotProjected) \cup (l.options \ NotProjected)

Explicit(on) == [id \in PermissionIDs |-> IF id \in on THEN "on" ELSE "off"]

\* SaveLocal always writes the list form and both safe defaults by name; the
\* agent is the command of the launch, not the word it was found by.
saveLocalSelection(base, l) ==
    LET o == optionsFromLaunch(base, l) IN
    [agent |-> l.agent, permissions |-> Explicit(l.permissions), mounts |-> l.mounts,
     form |-> "list", on |-> o, off |-> {"jail", "memory"} \ o]

profileFromLaunch(l) ==
    [agent |-> l.agent, permissions |-> Explicit(l.permissions), mounts |-> l.mounts,
     options |-> l.options \ NotProjected]
-----------------------------------------------------------------------------
SelectionIdle ==
    /\ file \in Documents /\ blessed = None /\ profile \in Profiles /\ host \in Hosts
    /\ asked = {} /\ outcome = "none" /\ launch = None /\ spent = FALSE
    /\ saved = None /\ unsaved = FALSE

SelectionInit == SelectionIdle

\* The operator, or a checkout, rewrites the workspace file.
HandEdit(d) ==
    /\ ~spent /\ spent' = TRUE
    /\ file' = d /\ asked' = {} /\ outcome' = "none" /\ launch' = None
    /\ UNCHANGED <<blessed, profile, host, saved, unsaved>>

\* Flags that read or write selections; the others change them.
Plain(given_) == given_ \subseteq {"bare", "no-color", "save", "save-profile", "profile"}

\* The first check that refuses, in the order of enforceLocalConfigTrust.
Rank == [agent |-> 0, jail |-> 1, docker |-> 2, deps |-> 3, tmux |-> 4, mounts |-> 5,
         permissions |-> 6, jailFlags |-> 7, yolo |-> 8, forceUnlock |-> 9,
         extraArgs |-> 10, params |-> 11, workspace |-> 12, project |-> 13]
First(reasons) == CHOOSE r \in reasons : \A s \in reasons : Rank[r] <= Rank[s]

Asked(given_) ==
    /\ ~Plain(given_) => ~spent
    /\ spent' = (spent \/ ~Plain(given_))
    /\ asked' = given_ /\ unsaved' = ~LocalConfigTrusted

Ended(how, what) == outcome' = how /\ launch' = what

MissingProfile(given_) ==
    "profile" \in given_ /\ "no-local-config" \notin given_ /\ profile = None

Refuse(given_, reasons, selection) ==
    /\ \/ MissingProfile(given_) /\ Ended("no profile", None)
       \/ ~MissingProfile(given_) /\ reasons # {} /\ Ended(First(reasons), None)
       \/ /\ ~MissingProfile(given_) /\ reasons = {} /\ "docker" \in selection.options
          /\ IF "save" \in given_ THEN Ended("artifacts failed", None)   \* saveContainerArtifacts
             ELSE ~host.runtime /\ Ended("no runtime", None)
    /\ UNCHANGED <<file, blessed, profile, host, saved>>

Proceeds(given_, reasons, selection) ==
    /\ ~MissingProfile(given_) /\ reasons = {}
    /\ "docker" \in selection.options => host.runtime \/ "save" \in given_

\* One-shot command lines write the file only with --save; --save-profile
\* takes precedence over it. The bare TUI, run as it opens, saves and runs.
SaveProfile(given_, selection) ==
    /\ "save-profile" \in given_
    /\ profile' = profileFromLaunch(selection)
    /\ Ended("profile saved", selection)
    /\ UNCHANGED <<file, blessed, host, saved>>

SaveFile(given_, selection) ==
    /\ given_ \cap {"save", "bare"} # {} /\ "save-profile" \notin given_
    /\ LET base == applyProfile(RawLocal(given_), AppliedProfile(given_)).options
           written == saveLocalSelection(base, selection)
       IN file' = written /\ blessed' = written
    /\ saved' = selection
    /\ Ended(IF "bare" \in given_ THEN "launched" ELSE "saved", selection)
    /\ UNCHANGED <<profile, host>>

RunOnce(given_, selection) ==
    /\ given_ \cap {"save", "bare", "save-profile"} = {}
    /\ Ended("launched", selection)
    /\ UNCHANGED <<file, blessed, profile, host, saved>>

\* One launcher process. Without arguments it opens the TUI: {"bare"}.
Run(given_) ==
    LET reasons == enforceLocalConfigTrust(given_)
        selection == Resolve(given_)
    IN /\ Asked(given_)
       /\ \/ Refuse(given_, reasons, selection)
          \/ Proceeds(given_, reasons, selection) /\ SaveProfile(given_, selection)
          \/ Proceeds(given_, reasons, selection) /\ SaveFile(given_, selection)
          \/ Proceeds(given_, reasons, selection) /\ RunOnce(given_, selection)

SelectionNext ==
    \/ \E d \in Rewrites : outcome = "saved" /\ HandEdit(d)
    \/ \E g \in CommandLines : Run(g)

SelectionSpec == SelectionInit /\ [][SelectionNext]_selectionVars
-----------------------------------------------------------------------------
(***************************************************************************)
(* Properties.                                                             *)
(***************************************************************************)

\* No other entry of the catalog answers to the command that is saved.
Unambiguous(l) == l.agent \in Known => EntryOf[l.agent] = l.entry

\* What is left of a selection that was saved: all of it, without its entry if
\* the catalog does not know the command (the configured path of an entry).
Replay(l) == IF l.agent \in Known THEN l ELSE [l EXCEPT !.entry = None]

\* A plain start after --save launches what was saved, whichever flags, file
\* and profile the saved selection was put together from: the same command,
\* options, permissions and mounts, and the same catalog entry if the catalog
\* knows the command (saveLocalSelection, LoadLocal, resolveLaunchInputs); for
\* those it does not know see AgentIsReplayed.
SavedIsReplayed ==
    outcome = "launched" /\ asked = {"no-color"} /\ saved # None /\ file = blessed
        => (Unambiguous(saved) => launch = Replay(saved))

\* A plain start after --save runs the catalog entry that was saved
\* (resolveAgentSelection: "Preserve the original catalog command so launcher
\* internals (state directory mounts, memory harness mapping, etc.) keep
\* working").
AgentIsReplayed ==
    outcome = "launched" /\ asked = {"no-color"} /\ saved # None /\ file = blessed
        => launch.entry = saved.entry

\* A launch that no save approves, of a file that the launcher did not write.
FromUnsaved == outcome \in {"launched", "profile saved"} /\ unsaved /\ "bare" \notin asked
ProfileOptions == AppliedProfile(asked).options
Trusted == IF ProfileOptions = None THEN {} ELSE ProfileOptions

\* What a one-shot launch from such a file takes of it without a flag, a
\* profile or a default: not the agent outside the catalog, the end of the
\* sandbox, the container, the directories it shares there, denied mounts,
\* permissions with a flag, the agent's own options and the memory scopes
\* (trust.go: "the boundary is around the file, not around the user"). Left to
\* the file, for there is no such check: workstream, new_workstream, fresh, the
\* memory tuning, container_environment, and directories shared with a
\* container that only --container-host-gateway turned on.
Consents == [yolo |-> {"yolo"}, forceUnlock |-> {"force-unlock"},
             extraArgs |-> {"extra-args", "positional"}, params |-> {"param"},
             workspace |-> {"workspace"}, project |-> {"project"}, jailFlags |-> {"save"},
             docker |-> {"docker-backend", "docker-backend=false", "runtime", "host-gateway",
                         "resource", "service"}]
ConsentHolds ==
    FromUnsaved =>
        /\ \A o \in DOMAIN Consents :
              o \in launch.options =>
                  \/ asked \cap Consents[o] # {} \/ o \in Trusted
                  \/ o = "docker" /\ hasContainerResources(Trusted)
        /\ \A o \in {"deps", "tmux"} :
              {o, "docker"} \subseteq launch.options =>
                  o \in Trusted \cup GlobalOptions \/ asked \cap {"save", "host-gateway"} # {}
        /\ "jail" \notin launch.options =>
              \/ "docker" \in launch.options \/ host.os = "windows"
              \/ asked \cap {"no-jail", "sandbox"} # {} \/ ProfileOptions # None
        /\ AppliedProfile(asked).mounts = None
              => launch.mounts \cap Denied \subseteq AutoMounts \cup buildMountConfig(asked, {})
        /\ AppliedProfile(asked).permissions = None
              => launch.permissions \subseteq
                     NormalizePermissions([id \in PermissionIDs |->
                         IF id \in asked THEN "on" ELSE "unset"])
        /\ launch.entry = None => "agent" \in asked \/ AppliedProfile(asked).agent # None

\* A file the launcher did not write shares no directory with a container
\* unless the selection is saved, the global config does or a profile is
\* selected (enforceLocalConfigTrust: "an unsaved local file must not widen
\* what the container sees without the operator saving or selecting a
\* profile").
SharesAreConsented ==
    FromUnsaved =>
        \A o \in {"deps", "tmux"} :
            {o, "docker"} \subseteq launch.options =>
                o \in Trusted \cup GlobalOptions \/ "save" \in asked

\* A file the launcher did not write does not choose the memory scope of a
\* launch (enforceMemoryScopeConsent: "refuses an unsaved local config that
\* sets ai-memory workspace/project/workstream scopes").
ScopesAreConsented ==
    FromUnsaved =>
        \A scope \in {"workspace", "project", "workstream"} :
            scope \in launch.options => scope \in asked \cup Trusted
=============================================================================

----------------------------- MODULE SelectionProofs -----------------------------
(***************************************************************************)
(* Any workspace file, profile and flags, over any catalog: what was saved *)
(* is launched again if the catalog knows the command that was saved, and  *)
(* what an untrusted file brings to a launch only with consent.            *)
(***************************************************************************)
EXTENDS MCCommandLine, PreflightProofs, WellFoundedInduction, TLAPS

-----------------------------------------------------------------------------
(***************************************************************************)
(* Permissions: what they require is a closure.                            *)
(***************************************************************************)

LEMMA RequirementsClose ==
  ASSUME NEW id \in PermissionIDs
  PROVE  /\ id \in Requirements[id] /\ Requirements[id] \subseteq PermissionIDs
         /\ \A k \in Requirements[id] : Requirements[k] \subseteq Requirements[id]
<1>1. id \in Requirements[id] /\ Requirements[id] \subseteq PermissionIDs
  BY DEF Requirements
<1>2. ASSUME NEW k \in Requirements[id], NEW m \in Requirements[k]
      PROVE  m \in Requirements[id]
  <2>1. k \in PermissionIDs
    BY <1>1
  <2>2. m \in PermissionIDs
    BY <2>1 DEF Requirements
  <2>3. ASSUME NEW closed \in SUBSET PermissionIDs, id \in closed,
               \A n \in closed : Requires[n] \subseteq closed
        PROVE  m \in closed
    <3>1. k \in closed
      BY <2>3 DEF Requirements
    <3> QED
      BY <2>1, <2>3, <3>1 DEF Requirements
  <2> QED
    BY <2>2, <2>3 DEF Requirements
<1> QED
  BY <1>1, <1>2

LEMMA PropagateCloses ==
  ASSUME NEW on \in SUBSET PermissionIDs
  PROVE  /\ propagateRequires(on) \in SUBSET PermissionIDs /\ on \subseteq propagateRequires(on)
         /\ propagateRequires(propagateRequires(on)) = propagateRequires(on)
         /\ \A more \in SUBSET PermissionIDs :
               on \subseteq more => propagateRequires(on) \subseteq propagateRequires(more)
BY RequirementsClose DEF propagateRequires

\* What a launch has is what normalising it gives again.
LEMMA NormalizedTwice ==
  ASSUME NEW on \in SUBSET PermissionIDs, NEW dropped \in SUBSET PermissionIDs,
         Locked \subseteq on
  PROVE  LET kept == propagateRequires(on) \ dropped
         IN  NormalizePermissions(Explicit(kept)) \ dropped = kept
<1> DEFINE closed == propagateRequires(on)
           kept == closed \ dropped
<1>1. closed \in SUBSET PermissionIDs /\ Locked \subseteq closed /\ propagateRequires(closed) = closed
  BY PropagateCloses
<1>2. NormalizePermissions(Explicit(kept)) = propagateRequires(kept \cup Locked)
  BY <1>1 DEF NormalizePermissions, Explicit
<1> HIDE DEF closed
<1>3. propagateRequires(kept \cup Locked) \subseteq closed
  BY <1>1, PropagateCloses
<1>4. kept \subseteq propagateRequires(kept \cup Locked)
  BY <1>1, PropagateCloses
<1> QED
  BY <1>2, <1>3, <1>4 DEF closed

-----------------------------------------------------------------------------
(***************************************************************************)
(* The selection a run resolves.                                           *)
(***************************************************************************)

Merged(given) == applyProfile(RawLocal(given), AppliedProfile(given))
WordOf(given) == IF "agent" \in given THEN "plain" ELSE Merged(given).agent
AgentOf(given) == resolveAgentSelection(WordOf(given))
Flagged(given) == withServices(applyResourceFlags(applyOptionFlags(given, Merged(given).options)))
OptionsOf(given) ==
    UseJail(disableUnsupported(AgentOf(given).entry, Flagged(given))
            \cup (IF "positional" \in given THEN {"extraArgs"} ELSE {}) \cup GlobalOptions)
OffWindows == IF host.os = "windows" THEN {"jail"} ELSE {}
Dropped == IF host.os = "windows" THEN JailDependent ELSE {}

LEMMA ResolveParts ==
  ASSUME NEW given
  PROVE  LET l == Resolve(given)
         IN  /\ l.agent = AgentOf(given).command /\ l.entry = AgentOf(given).entry
             /\ l.options = OptionsOf(given) \ OffWindows
             /\ l.permissions = resolvePermissions(given, Merged(given).permissions) \ Dropped
             /\ l.mounts = buildMountConfig(given, Merged(given).mounts)
                           \cup (IF "jail" \in l.options THEN AutoMounts ELSE {})
             /\ l = [agent |-> l.agent, entry |-> l.entry, permissions |-> l.permissions,
                     mounts |-> l.mounts, options |-> l.options]
<1> DEFINE r == [agent |-> AgentOf(given).command, entry |-> AgentOf(given).entry,
                 permissions |-> resolvePermissions(given, Merged(given).permissions),
                 mounts |-> buildMountConfig(given, Merged(given).mounts),
                 options |-> OptionsOf(given)]
<1>1. Resolve(given) = applyJailAutoDetection(ConstrainToPlatform(r))
  BY DEF Resolve, Merged, AgentOf, WordOf, Flagged, OptionsOf
<1>2. ConstrainToPlatform(r) =
         [r EXCEPT !.options = @ \ OffWindows, !.permissions = @ \ Dropped]
  BY DEF ConstrainToPlatform, OffWindows, Dropped
<1>3. ConstrainToPlatform(r) =
         [agent |-> r.agent, entry |-> r.entry, permissions |-> r.permissions \ Dropped,
          mounts |-> r.mounts, options |-> r.options \ OffWindows]
  BY <1>2
<1> DEFINE c == ConstrainToPlatform(r)
<1>4. /\ c.agent = AgentOf(given).command /\ c.entry = AgentOf(given).entry
      /\ c.options = OptionsOf(given) \ OffWindows
      /\ c.permissions = resolvePermissions(given, Merged(given).permissions) \ Dropped
      /\ c.mounts = buildMountConfig(given, Merged(given).mounts)
      /\ c = [agent |-> c.agent, entry |-> c.entry, permissions |-> c.permissions,
              mounts |-> c.mounts, options |-> c.options]
  BY <1>3
<1> HIDE DEF c
<1>5. applyJailAutoDetection(c) =
         [agent |-> c.agent, entry |-> c.entry, permissions |-> c.permissions,
          mounts |-> c.mounts \cup (IF "jail" \in c.options THEN AutoMounts ELSE {}),
          options |-> c.options]
  <2>1. CASE "jail" \in c.options
    BY <1>4, <2>1 DEF applyJailAutoDetection
  <2>2. CASE "jail" \notin c.options
    BY <1>4, <2>2 DEF applyJailAutoDetection
  <2> QED
    BY <2>1, <2>2
<1> QED
  BY <1>1, <1>4, <1>5 DEF c

LEMMA MergedType ==
  ASSUME file \in Document, profile \in Profile \cup {None}, NEW given, ~MissingProfile(given)
  PROVE  Merged(given) \in Local /\ AppliedProfile(given) \in Profile
<1>1. AppliedProfile(given) \in Profile
  <2>1. NoProfile \in Profile
    BY DEF NoProfile, Profile
  <2>2. CASE "profile" \in given /\ "no-local-config" \notin given
    BY <2>2 DEF AppliedProfile, MissingProfile
  <2> QED
    BY <2>1, <2>2 DEF AppliedProfile
<1>2. DefaultLocal \in Local
  BY CatalogAssumption DEF DefaultLocal, Local, Options, Unanswered, Answers
<1>3. LoadLocal(file) \in Local
  <2>1. /\ file.agent \in Agents /\ file.permissions \in Answers /\ file.mounts \in SUBSET Paths
        /\ file.on \in SUBSET Options
    BY DEF Document
  <2>2. UnmarshalOptions(file) \in SUBSET Options
    BY <2>1 DEF UnmarshalOptions, applyOptionDefaults, Options
  <2>3. DefaultLocal.options \in SUBSET Options
    BY DEF DefaultLocal, Options
  <2> QED
    BY <2>1, <2>2, <2>3 DEF LoadLocal, Local
<1>4. RawLocal(given) \in Local
  BY <1>2, <1>3 DEF RawLocal
<1>5. \A l \in Local, p \in Profile : applyProfile(l, p) \in Local
  <2> SUFFICES ASSUME NEW l \in Local, NEW p \in Profile PROVE applyProfile(l, p) \in Local
    OBVIOUS
  <2>1. /\ p.agent \in Agents \cup {None} /\ p.permissions \in Answers \cup {None}
        /\ p.mounts \in (SUBSET Paths) \cup {None} /\ p.options \in (SUBSET Options) \cup {None}
    BY DEF Profile
  <2>2. /\ l.agent \in Agents /\ l.permissions \in Answers
        /\ l.mounts \in SUBSET Paths /\ l.options \in SUBSET Options
    BY DEF Local
  <2>3. /\ (IF p.agent # None THEN p.agent ELSE l.agent) \in Agents
        /\ (IF p.permissions # None THEN p.permissions ELSE l.permissions) \in Answers
        /\ (IF p.mounts # None THEN p.mounts ELSE l.mounts) \in SUBSET Paths
        /\ (IF p.options # None THEN p.options ELSE l.options) \in SUBSET Options
    BY <2>1, <2>2
  <2> QED
    BY <2>3 DEF applyProfile, Local
<1> QED
  BY <1>1, <1>4, <1>5 DEF Merged

LEMMA FlaggedType ==
  ASSUME NEW given, NEW o \in SUBSET Options
  PROVE  withServices(applyResourceFlags(applyOptionFlags(given, o))) \in SUBSET Options
<1>1. \A f : TurnsOn(f) \subseteq Options
  BY DEF TurnsOn, Options
<1>2. applyOptionFlags(given, o) \in SUBSET Options
  BY <1>1 DEF applyOptionFlags
<1> QED
  BY <1>2 DEF applyResourceFlags, withServices, Options

LEMMA ResolveType ==
  ASSUME file \in Document, profile \in Profile \cup {None}, NEW given, ~MissingProfile(given)
  PROVE  Resolve(given) \in Launch
<1>1. Merged(given) \in Local
  BY MergedType
<1>2. AgentOf(given).command \in Agents /\ AgentOf(given).entry \in Known \cup {None}
  <2>1. WordOf(given) \in Agents
    BY <1>1, FlagsAssumption DEF WordOf, Local
  <2> QED
    BY <2>1, CatalogAssumption DEF AgentOf, resolveAgentSelection
<1>3. Flagged(given) \in SUBSET Options
  BY <1>1, FlaggedType DEF Flagged, Local
<1>4. OptionsOf(given) \in SUBSET Options
  BY <1>3, GlobalAssumption DEF OptionsOf, UseJail, disableUnsupported, Options
<1>5. resolvePermissions(given, Merged(given).permissions) \in SUBSET PermissionIDs
  BY PropagateCloses, CatalogAssumption DEF resolvePermissions, NormalizePermissions
<1>6. buildMountConfig(given, Merged(given).mounts) \in SUBSET Paths
  BY <1>1, FlagsAssumption, MountsAssumption DEF buildMountConfig, Local
<1> QED
  BY <1>2, <1>4, <1>5, <1>6, MountsAssumption, ResolveParts DEF Launch

\* What a selection has satisfies what resolving demands.
Settled(l) ==
    /\ l.options \cap {"limits", "services"} # {} => "docker" \in l.options
    /\ "docker" \in l.options => "jail" \notin l.options
    /\ l.entry # None => /\ "memory" \in l.options => l.entry \in SupportMemory
                         /\ "yolo" \in l.options => l.entry \in SupportYolo
    /\ IF l.entry = None THEN l.agent \notin Known ELSE l.agent = ResolvedCommand[l.entry]
    /\ GlobalOptions \subseteq l.options
    /\ host.os = "windows" => "jail" \notin l.options
    /\ NormalizePermissions(Explicit(l.permissions)) \ Dropped = l.permissions
    /\ l.mounts = {} => DefaultMounts = {}
    /\ "jail" \in l.options => AutoMounts \subseteq l.mounts

LEMMA ResolveSettles ==
  ASSUME file \in Document, profile \in Profile \cup {None}, NEW given, ~MissingProfile(given)
  PROVE  /\ Settled(Resolve(given))
         /\ "memoryTuning" \in Resolve(given).options <=> "memoryTuning" \in Merged(given).options
<1> DEFINE l == Resolve(given)
           disabled == disableUnsupported(AgentOf(given).entry, Flagged(given))
<1>1. /\ l.agent = AgentOf(given).command /\ l.entry = AgentOf(given).entry
      /\ l.options = OptionsOf(given) \ OffWindows
      /\ l.permissions = resolvePermissions(given, Merged(given).permissions) \ Dropped
      /\ l.mounts = buildMountConfig(given, Merged(given).mounts)
                    \cup (IF "jail" \in l.options THEN AutoMounts ELSE {})
  BY ResolveParts
<1>2. /\ Flagged(given) \cap {"limits", "services"} # {} => "docker" \in Flagged(given)
      /\ "memoryTuning" \in Flagged(given) <=> "memoryTuning" \in Merged(given).options
  <2>1. \A f : "memoryTuning" \notin TurnsOn(f) /\ "memoryTuning" \notin TurnsOff(f)
    BY DEF TurnsOn, TurnsOff
  <2>2. "memoryTuning" \in applyOptionFlags(given, Merged(given).options)
           <=> "memoryTuning" \in Merged(given).options
    BY <2>1 DEF applyOptionFlags
  <2> QED
    BY <2>2 DEF Flagged, applyResourceFlags, withServices, hasContainerResources
<1>3. /\ disabled \cap {"limits", "services"} # {} => "docker" \in disabled
      /\ "memoryTuning" \in disabled <=> "memoryTuning" \in Merged(given).options
      /\ AgentOf(given).entry # None =>
            /\ "memory" \in disabled => AgentOf(given).entry \in SupportMemory
            /\ "yolo" \in disabled => AgentOf(given).entry \in SupportYolo
  BY <1>2 DEF disableUnsupported
<1>4. OptionsOf(given) = UseJail(disabled \cup (IF "positional" \in given THEN {"extraArgs"} ELSE {})
                                 \cup GlobalOptions)
  BY DEF OptionsOf
<1>5. /\ l.options \cap {"limits", "services"} # {} => "docker" \in l.options
      /\ "docker" \in l.options => "jail" \notin l.options
      /\ l.entry # None => /\ "memory" \in l.options => l.entry \in SupportMemory
                           /\ "yolo" \in l.options => l.entry \in SupportYolo
      /\ GlobalOptions \subseteq l.options
      /\ host.os = "windows" => "jail" \notin l.options
      /\ "memoryTuning" \in l.options <=> "memoryTuning" \in Merged(given).options
  <2> HIDE DEF disabled, l
  <2> QED
    BY <1>1, <1>3, <1>4, GlobalAssumption DEF UseJail, OffWindows
<1>6. NormalizePermissions(Explicit(l.permissions)) \ Dropped = l.permissions
  <2>1. PICK on \in SUBSET PermissionIDs :
          /\ Locked \subseteq on
          /\ resolvePermissions(given, Merged(given).permissions) = propagateRequires(on)
    BY CatalogAssumption DEF resolvePermissions, NormalizePermissions
  <2>2. Dropped \in SUBSET PermissionIDs
    BY DEF Dropped, JailDependent
  <2> QED
    BY <1>1, <2>1, <2>2, NormalizedTwice
<1>7. l.mounts = {} => DefaultMounts = {}
  BY <1>1 DEF buildMountConfig
<1>8. IF l.entry = None THEN l.agent \notin Known ELSE l.agent = ResolvedCommand[l.entry]
  <2>1. EntryOf[WordOf(given)] # None \/ WordOf(given) \notin Known
    BY CatalogAssumption, NoneAssumption
  <2> QED
    BY <1>1, <2>1 DEF AgentOf, resolveAgentSelection
<1> QED
  BY <1>1, <1>5, <1>6, <1>7, <1>8 DEF Settled

-----------------------------------------------------------------------------
(***************************************************************************)
(* What is saved is launched again.                                        *)
(***************************************************************************)

PlainStart == {"no-color"}

LEMMA PlainStartMerges ==
  Merged(PlainStart) = LoadLocal(file) /\ WordOf(PlainStart) = file.agent
<1>1. AppliedProfile(PlainStart) = NoProfile /\ RawLocal(PlainStart) = LoadLocal(file)
  BY DEF AppliedProfile, RawLocal, PlainStart
<1>2. Merged(PlainStart) = LoadLocal(file)
  BY <1>1 DEF Merged, applyProfile, NoProfile, LoadLocal
<1> QED
  BY <1>2 DEF WordOf, PlainStart, LoadLocal

\* A plain start adds no option to a settled block, and takes none away.
LEMMA PlainStartKeeps ==
  ASSUME NEW l \in Launch, Settled(l), Merged(PlainStart).options = l.options,
         AgentOf(PlainStart).entry = Replay(l).entry
  PROVE  OptionsOf(PlainStart) \ OffWindows = l.options
<1> DEFINE o == l.options
<1>1. applyOptionFlags(PlainStart, o) = o
  <2>1. TurnsOn("no-color") = {} /\ TurnsOff("no-color") = {}
    BY DEF TurnsOn, TurnsOff
  <2> QED
    BY <2>1 DEF applyOptionFlags, PlainStart
<1>2. withServices(applyResourceFlags(o)) = o
  BY DEF applyResourceFlags, withServices, hasContainerResources, Settled
<1>3. disableUnsupported(Replay(l).entry, o) = o
  <2>1. Replay(l).entry = l.entry \/ Replay(l).entry = None
    BY DEF Replay, Launch
  <2>2. disableUnsupported(l.entry, o) = o
    BY DEF disableUnsupported, Settled
  <2> QED
    BY <2>1, <2>2 DEF disableUnsupported
<1>4. UseJail(o \cup {} \cup GlobalOptions) = o
  BY DEF UseJail, Settled
<1>5. o \ OffWindows = o
  BY DEF OffWindows, Settled
<1>6. "positional" \notin PlainStart
  BY DEF PlainStart
<1> QED
  BY <1>1, <1>2, <1>3, <1>4, <1>5, <1>6 DEF OptionsOf, Flagged

\* The command of a settled selection resolves to itself, and to its entry if
\* the catalog knows it.
LEMMA AgentReplays ==
  ASSUME NEW l \in Launch, Settled(l), Unambiguous(l), WordOf(PlainStart) = l.agent
  PROVE  AgentOf(PlainStart).entry = Replay(l).entry /\ AgentOf(PlainStart).command = l.agent
<1>1. Replay(l).entry = IF l.agent \in Known THEN l.entry ELSE None
  BY DEF Replay, Launch
<1> QED
  BY <1>1 DEF AgentOf, resolveAgentSelection, Settled, Unambiguous

\* A plain start in the file that a settled selection was saved to launches it.
LEMMA Replays ==
  ASSUME NEW l \in Launch, Settled(l), Unambiguous(l), NEW base, "memoryTuning" \in l.options <=> "memoryTuning" \in base,
         file = saveLocalSelection(base, l)
  PROVE  Resolve(PlainStart) = Replay(l)
<1>1. optionsFromLaunch(base, l) = l.options
  BY DEF optionsFromLaunch, NotProjected
<1>2. /\ file.agent = l.agent /\ file.permissions = Explicit(l.permissions)
      /\ file.mounts = l.mounts /\ file.form = "list" /\ file.on = l.options
      /\ file.off = {"jail", "memory"} \ l.options
  BY <1>1 DEF saveLocalSelection
<1>3. LoadLocal(file).options = l.options
  BY <1>2 DEF LoadLocal, UnmarshalOptions, applyOptionDefaults
<1>4. /\ Merged(PlainStart).options = l.options /\ WordOf(PlainStart) = l.agent
      /\ Merged(PlainStart).permissions = Explicit(l.permissions)
      /\ Merged(PlainStart).mounts = l.mounts
  BY <1>2, <1>3, PlainStartMerges DEF LoadLocal
<1>5. OptionsOf(PlainStart) \ OffWindows = l.options
  BY <1>4, AgentReplays, PlainStartKeeps
<1>6. resolvePermissions(PlainStart, Explicit(l.permissions)) =
         NormalizePermissions(Explicit(l.permissions))
  BY FlagsAssumption DEF resolvePermissions, PlainStart, Explicit
<1>7. buildMountConfig(PlainStart, l.mounts) \cup (IF "jail" \in l.options THEN AutoMounts ELSE {})
         = l.mounts
  BY DEF buildMountConfig, PlainStart, Settled
<1>8. Replay(l) = [agent |-> l.agent, entry |-> Replay(l).entry, permissions |-> l.permissions,
                   mounts |-> l.mounts, options |-> l.options]
  BY DEF Launch, Replay
<1>9. NormalizePermissions(Explicit(l.permissions)) \ Dropped = l.permissions
  BY DEF Settled
<1> DEFINE r == Resolve(PlainStart)
<1>10. r.agent = l.agent /\ r.entry = Replay(l).entry
  BY <1>4, AgentReplays, ResolveParts
<1>11. r.options = l.options /\ r.permissions = l.permissions
  BY <1>4, <1>5, <1>6, <1>9, ResolveParts
<1>12. r.mounts = l.mounts
  BY <1>4, <1>7, <1>11, ResolveParts
<1>13. r = [agent |-> r.agent, entry |-> r.entry, permissions |-> r.permissions,
            mounts |-> r.mounts, options |-> r.options]
  BY ResolveParts
<1> HIDE DEF r
<1>14. r = Replay(l)
  BY <1>8, <1>10, <1>11, <1>12, <1>13
<1> QED
  BY <1>14 DEF r

-----------------------------------------------------------------------------
(***************************************************************************)
(* What an untrusted file decides.                                         *)
(***************************************************************************)

\* Every check has let the file pass.
Passes(given) == "bare" \notin given /\ Refusals(given, localTrustFrom(given)) = {}

LEMMA Gate ==
  ASSUME NEW given, Passes(given)
  PROVE  LET t == localTrustFrom(given)
         IN  /\ t.agent # None => t.agent \in Known
             /\ ~t.jail => given \cap {"no-jail", "sandbox"} # {}
             /\ t.container => containerFlagSet(given)
             /\ t.mounts \cap Denied = {} /\ t.permissions \cap PermissionFlags \subseteq given
             /\ "jailFlags" \in t.options => "save" \in given
             /\ "yolo" \in t.options => "yolo" \in given
             /\ "forceUnlock" \in t.options => "force-unlock" \in given
             /\ "extraArgs" \in t.options => "extra-args" \in given
             /\ "params" \in t.options => "param" \in given
             /\ "workspace" \in t.options => "workspace" \in given
             /\ "project" \in t.options => "project" \in given
             /\ \A o \in {"deps", "tmux"} :
                   o \in t.options /\ (t.container \/ containerFlagSet(given)) => "save" \in given
<1> DEFINE t == localTrustFrom(given)
<1>1. \A r \in Reasons : r \notin Refusals(given, t)
  BY DEF Passes
<1>2. "bare" \notin given /\ "jail" \in DefaultOn
  BY CatalogAssumption DEF Passes
<1> HIDE DEF t
<1>3. /\ t.agent # None => t.agent \in Known
      /\ ~t.jail => given \cap {"no-jail", "sandbox"} # {}
      /\ t.container => containerFlagSet(given)
  BY <1>1, <1>2 DEF Refusals, Reasons, containerConsent
<1>4. t.mounts \cap Denied = {} /\ t.permissions \cap PermissionFlags \subseteq given
  BY <1>1, <1>2 DEF Refusals, Reasons, mountConsent, permissionConsent
<1>5. /\ "jailFlags" \in t.options => "save" \in given
      /\ "workspace" \in t.options => "workspace" \in given
      /\ "project" \in t.options => "project" \in given
  BY <1>1, <1>2 DEF Refusals, Reasons, jailFlagsConsent, memoryScopeConsent
<1>6. /\ "yolo" \in t.options => "yolo" \in given
      /\ "forceUnlock" \in t.options => "force-unlock" \in given
      /\ "extraArgs" \in t.options => "extra-args" \in given
      /\ "params" \in t.options => "param" \in given
  BY <1>1, <1>2 DEF Refusals, Reasons, harnessConsent
<1>7. \A o \in {"deps", "tmux"} :
         o \in t.options /\ (t.container \/ containerFlagSet(given)) => "save" \in given
  BY <1>1, <1>2 DEF Refusals, Reasons, shareConsent
<1> QED
  BY <1>3, <1>4, <1>5, <1>6, <1>7 DEF t

\* An option of a launch was in a layer, or a flag of its own turned it on.
LEMMA OptionOrigin ==
  ASSUME NEW given, NEW o \in Resolve(given).options, o \notin GlobalOptions
  PROVE  LET flags == {f \in given : o \in TurnsOn(f)}
             resources == {f \in given : TurnsOn(f) \cap {"limits", "services"} # {}}
         IN  \/ o \in Merged(given).options \/ flags # {}
             \/ o = "docker" /\ (hasContainerResources(Merged(given).options) \/ resources # {})
             \/ o = "extraArgs" /\ "positional" \in given
<1> DEFINE layered == applyOptionFlags(given, Merged(given).options)
<1>1. o \in OptionsOf(given)
  BY ResolveParts
<1>2. o \in Flagged(given) \/ (o = "extraArgs" /\ "positional" \in given)
  BY <1>1 DEF OptionsOf, UseJail, disableUnsupported
<1>3. o \in Flagged(given) => o \in layered \/ (o = "docker" /\ hasContainerResources(layered))
  BY DEF Flagged, applyResourceFlags, withServices, hasContainerResources
<1>4. \A x \in layered : x \in Merged(given).options \/ \E f \in given : x \in TurnsOn(f)
  BY DEF applyOptionFlags
<1>5. ASSUME hasContainerResources(layered)
      PROVE  \/ hasContainerResources(Merged(given).options)
             \/ \E f \in given : TurnsOn(f) \cap {"limits", "services"} # {}
  <2>1. PICK x \in {"limits", "services"} : x \in layered
    BY <1>5 DEF hasContainerResources
  <2> HIDE DEF layered
  <2> QED
    BY <1>4, <2>1 DEF hasContainerResources
<1> QED
  BY <1>2, <1>3, <1>4, <1>5

LEMMA FlagsOfOptions ==
  ASSUME NEW f
  PROVE  /\ "yolo" \in TurnsOn(f) => f = "yolo"
         /\ "forceUnlock" \in TurnsOn(f) => f = "force-unlock"
         /\ "extraArgs" \in TurnsOn(f) => f = "extra-args"
         /\ "params" \in TurnsOn(f) => f = "param"
         /\ "workspace" \in TurnsOn(f) => f = "workspace"
         /\ "project" \in TurnsOn(f) => f = "project"
         /\ "deps" \notin TurnsOn(f) /\ "tmux" \notin TurnsOn(f)
         /\ "jailFlags" \notin TurnsOn(f)
         /\ "docker" \in TurnsOn(f) => f \in {"docker-backend", "runtime", "host-gateway", "resource"}
         /\ TurnsOn(f) \cap {"limits", "services"} # {} => f \in {"resource", "service"}
         /\ "jail" \in TurnsOff(f) => f = "no-jail"
BY DEF TurnsOn, TurnsOff

\* The blocks a profile leaves are the file's, unless there is none.
LEMMA LayerBlocks ==
  ASSUME file \in Document, NEW given
  PROVE  LET p == AppliedProfile(given)
             t == localTrustFrom(given)
             m == Merged(given)
         IN  /\ p.options # None => m.options = p.options
             /\ p.options = None =>
                   \/ /\ m.options = t.options /\ (t.jail <=> "jail" \in m.options)
                      /\ t.container <=> "docker" \in m.options \/ hasContainerResources(m.options)
                   \/ m.options = {"jail", "memory"}
             /\ p.mounts = None => m.mounts = t.mounts
             /\ p.permissions = None => t.permissions = {id \in PermissionIDs : m.permissions[id] = "on"}
             /\ p.agent = None /\ "agent" \notin given => m.agent = "claude" \/ t.agent = m.agent
<1> DEFINE p == AppliedProfile(given)
           raw == RawLocal(given)
<1>1. "no-local-config" \in given => raw.options = {"jail", "memory"} /\ raw.agent = "claude"
  BY DEF RawLocal, DefaultLocal
<1>2. /\ Merged(given).options = IF p.options # None THEN p.options ELSE raw.options
      /\ Merged(given).mounts = IF p.mounts # None THEN p.mounts ELSE raw.mounts
      /\ Merged(given).permissions = IF p.permissions # None THEN p.permissions ELSE raw.permissions
      /\ Merged(given).agent = IF p.agent # None THEN p.agent ELSE raw.agent
  BY DEF Merged, applyProfile
<1>3. LET t == localTrustFrom(given)
          optionsRaw == p.options = None /\ "no-local-config" \notin given
      IN  /\ t.agent = IF "agent" \in given \/ p.agent # None \/ "no-local-config" \in given
                       THEN None ELSE raw.agent
          /\ t.options = IF optionsRaw THEN raw.options ELSE {}
          /\ t.container <=> optionsRaw /\ ("docker" \in raw.options \/ hasContainerResources(raw.options))
          /\ t.jail <=> (optionsRaw => "jail" \in raw.options)
          /\ t.mounts = IF p.mounts = None THEN raw.mounts ELSE {}
          /\ t.permissions = IF p.permissions = None
                             THEN {id \in PermissionIDs : raw.permissions[id] = "on"} ELSE {}
  BY Zenon DEF localTrustFrom
<1> HIDE DEF p, raw
<1> QED
  BY <1>1, <1>2, <1>3 DEF p

\* ConsentHolds of a launch l by the flags given, with a profile p.
Consented(given, l, p) ==
    LET trusted == IF p.options = None THEN {} ELSE p.options IN
    /\ \A o \in DOMAIN Consents :
          o \in l.options =>
              \/ given \cap Consents[o] # {} \/ o \in trusted
              \/ o = "docker" /\ hasContainerResources(trusted)
    /\ \A o \in {"deps", "tmux"} :
          {o, "docker"} \subseteq l.options =>
              o \in trusted \cup GlobalOptions \/ given \cap {"save", "host-gateway"} # {}
    /\ "jail" \notin l.options =>
          \/ "docker" \in l.options \/ host.os = "windows"
          \/ given \cap {"no-jail", "sandbox"} # {} \/ p.options # None
    /\ p.mounts = None => l.mounts \cap Denied \subseteq AutoMounts \cup buildMountConfig(given, {})
    /\ p.permissions = None
          => l.permissions \subseteq
                 NormalizePermissions([id \in PermissionIDs |->
                     IF id \in given THEN "on" ELSE "unset"])
    /\ l.entry = None => "agent" \in given \/ p.agent # None

\* A permission that comes on by itself, by a flag, or that the gate let pass
\* is one that the flags and the defaults turn on.
LEMMA PermissionsConsented ==
  ASSUME NEW given, NEW answers \in Answers,
         {id \in PermissionIDs : answers[id] = "on"} \cap PermissionFlags \subseteq given,
         PermissionIDs \ PermissionFlags \subseteq DefaultOn
  PROVE  resolvePermissions(given, answers) \subseteq
            NormalizePermissions([id \in PermissionIDs |-> IF id \in given THEN "on" ELSE "unset"])
<1> DEFINE asks == [id \in PermissionIDs |->
                       IF id = "network" /\ "no-network" \in given THEN "off"
                       ELSE IF id \in given THEN "on" ELSE answers[id]]
           flags == [id \in PermissionIDs |-> IF id \in given THEN "on" ELSE "unset"]
           on(a) == {id \in PermissionIDs : a[id] = "on" \/ (a[id] = "unset" /\ id \in DefaultOn)}
                    \cup Locked
<1>1. \A id \in PermissionIDs :
         asks[id] = "on" \/ (asks[id] = "unset" /\ id \in DefaultOn) => id \in given \/ id \in DefaultOn
  OBVIOUS
<1>2. \A id \in PermissionIDs : id \in given \/ id \in DefaultOn => id \in on(flags)
  OBVIOUS
<1>3. on(asks) \subseteq on(flags) /\ on(flags) \in SUBSET PermissionIDs /\ on(asks) \in SUBSET PermissionIDs
  <2>1. on(flags) \in SUBSET PermissionIDs /\ on(asks) \in SUBSET PermissionIDs
    BY CatalogAssumption
  <2> HIDE DEF asks, flags
  <2> QED
    BY <1>1, <1>2, <2>1
<1>4. resolvePermissions(given, answers) = propagateRequires(on(asks))
  BY DEF resolvePermissions, NormalizePermissions
<1>5. NormalizePermissions(flags) = propagateRequires(on(flags))
  BY DEF NormalizePermissions
<1> HIDE DEF asks, flags, on
<1>6. resolvePermissions(given, answers) \subseteq NormalizePermissions(flags)
  BY <1>3, <1>4, <1>5, PropagateCloses
<1> QED
  BY <1>6 DEF flags

LEMMA OptionsConsented ==
  ASSUME file \in Document, NEW given, Passes(given), NEW o \in DOMAIN Consents,
         o \in Resolve(given).options
  PROVE  LET p == AppliedProfile(given)
             trusted == IF p.options = None THEN {} ELSE p.options
         IN  \/ given \cap Consents[o] # {} \/ o \in trusted
             \/ o = "docker" /\ hasContainerResources(trusted)
<1> DEFINE p == AppliedProfile(given)
           m == Merged(given)
           t == localTrustFrom(given)
<1>1. o \in {"yolo", "forceUnlock", "extraArgs", "params", "workspace", "project",
               "jailFlags", "docker"}
  BY DEF Consents
<1>2. /\ Consents["yolo"] = {"yolo"} /\ Consents["forceUnlock"] = {"force-unlock"}
      /\ Consents["extraArgs"] = {"extra-args", "positional"} /\ Consents["params"] = {"param"}
      /\ Consents["workspace"] = {"workspace"} /\ Consents["project"] = {"project"}
      /\ Consents["jailFlags"] = {"save"}
      /\ Consents["docker"] = {"docker-backend", "docker-backend=false", "runtime", "host-gateway",
                               "resource", "service"}
  BY DEF Consents
<1>3. ASSUME NEW f \in given, o \in TurnsOn(f)
      PROVE  given \cap Consents[o] # {}
  BY <1>1, <1>2, <1>3, FlagsOfOptions
<1>4. ASSUME NEW f \in given, TurnsOn(f) \cap {"limits", "services"} # {}, o = "docker"
      PROVE  given \cap Consents[o] # {}
  BY <1>2, <1>4, FlagsOfOptions
<1>5. ASSUME o = "extraArgs", "positional" \in given
      PROVE  given \cap Consents[o] # {}
  BY <1>2, <1>5
<1>6. CASE o \in m.options
  <2>1. CASE p.options # None
    BY <1>6, <2>1, LayerBlocks
  <2>2. CASE p.options = None /\ m.options = {"jail", "memory"}
    BY <1>1, <1>6, <2>2
  <2>3. CASE /\ p.options = None /\ m.options = t.options
             /\ t.container <=> "docker" \in m.options \/ hasContainerResources(m.options)
    <3>1. o = "docker" => containerFlagSet(given)
      BY <1>6, <2>3, Gate
    <3>2. CASE o = "docker"
      BY <1>2, <3>1, <3>2 DEF containerFlagSet
    <3>3. CASE o # "docker"
      <4>1. o \in t.options
        BY <1>6, <2>3
      <4>2. /\ o = "jailFlags" => "save" \in given
            /\ o = "yolo" => "yolo" \in given
            /\ o = "forceUnlock" => "force-unlock" \in given
            /\ o = "extraArgs" => "extra-args" \in given
            /\ o = "params" => "param" \in given
            /\ o = "workspace" => "workspace" \in given
            /\ o = "project" => "project" \in given
        BY <4>1, Gate
      <4> HIDE DEF t
      <4> QED
        BY <1>1, <1>2, <3>3, <4>2
    <3> QED
      BY <3>2, <3>3
  <2> QED
    BY <2>1, <2>2, <2>3, LayerBlocks
<1>7. CASE o = "docker" /\ hasContainerResources(m.options)
  <2>1. CASE p.options # None
    BY <1>7, <2>1, LayerBlocks
  <2>2. CASE p.options = None /\ m.options = {"jail", "memory"}
    BY <1>7, <2>2 DEF hasContainerResources
  <2>3. CASE /\ p.options = None
             /\ t.container <=> "docker" \in m.options \/ hasContainerResources(m.options)
    <3>1. containerFlagSet(given)
      BY <1>7, <2>3, Gate
    <3> QED
      BY <1>2, <1>7, <3>1 DEF containerFlagSet
  <2> QED
    BY <2>1, <2>2, <2>3, LayerBlocks
<1>8. o \notin GlobalOptions
  BY <1>1, GlobalAssumption
<1> HIDE DEF m, t, p
<1>9. \/ o \in m.options \/ \E f \in given : o \in TurnsOn(f)
      \/ o = "docker" /\ hasContainerResources(m.options)
      \/ o = "docker" /\ \E f \in given : TurnsOn(f) \cap {"limits", "services"} # {}
      \/ o = "extraArgs" /\ "positional" \in given
  BY <1>8, OptionOrigin DEF m
<1> QED
  BY <1>3, <1>4, <1>5, <1>6, <1>7, <1>9 DEF p

\* Shared with a container is what a save, the global config or a profile says,
\* or what comes with the flag that the gate does not count as a container's.
LEMMA SharesConsented ==
  ASSUME file \in Document, NEW given, Passes(given), NEW o \in {"deps", "tmux"},
         {o, "docker"} \subseteq Resolve(given).options, o \notin GlobalOptions,
         AppliedProfile(given).options = None
  PROVE  given \cap {"save", "host-gateway"} # {}
<1> DEFINE p == AppliedProfile(given)
           m == Merged(given)
           t == localTrustFrom(given)
           mine == {"docker-backend", "runtime", "resource", "service"}
<1>1. o \in m.options
  BY OptionOrigin, FlagsOfOptions
<1>2. /\ m.options = t.options
      /\ t.container <=> "docker" \in m.options \/ hasContainerResources(m.options)
  BY <1>1, LayerBlocks
<1>3. "docker" \notin GlobalOptions
  BY GlobalAssumption
<1>4. \/ "docker" \in m.options \/ hasContainerResources(m.options)
      \/ \E f \in given : "docker" \in TurnsOn(f) \/ TurnsOn(f) \cap {"limits", "services"} # {}
  BY <1>3, OptionOrigin
<1>5. t.container \/ \E f \in given : f \in mine \cup {"host-gateway"}
  BY <1>2, <1>4, FlagsOfOptions
<1>6. t.container \/ containerFlagSet(given) \/ "host-gateway" \in given
  BY <1>5 DEF containerFlagSet
<1>7. o \in t.options /\ (t.container \/ containerFlagSet(given)) => "save" \in given
  BY Gate
<1> QED
  BY <1>1, <1>2, <1>6, <1>7

\* Without a flag or a profile, the jail stays unless a container replaces it.
LEMMA JailConsented ==
  ASSUME file \in Document, NEW given, Passes(given), AppliedProfile(given).options = None,
         given \cap {"no-jail", "sandbox"} = {}, host.os # "windows",
         "jail" \notin Resolve(given).options
  PROVE  "docker" \in Resolve(given).options
<1> DEFINE layered == applyOptionFlags(given, Merged(given).options)
<1>1. "jail" \in Merged(given).options
  BY Gate, LayerBlocks
<1>2. "jail" \in layered
  <2>1. \A f \in given : "jail" \notin TurnsOff(f)
    BY FlagsOfOptions
  <2> QED
    BY <1>1, <2>1 DEF applyOptionFlags
<1> HIDE DEF layered
<1>3. "jail" \in Flagged(given) \/ "docker" \in Flagged(given)
  BY <1>2 DEF Flagged, withServices, applyResourceFlags, layered
<1>4. "jail" \in OptionsOf(given) \/ "docker" \in OptionsOf(given)
  BY <1>3 DEF OptionsOf, UseJail, disableUnsupported
<1> QED
  BY <1>4, ResolveParts DEF OffWindows

LEMMA LaunchConsented ==
  ASSUME file \in Document, profile \in Profile \cup {None}, NEW given, ~MissingProfile(given),
         Passes(given), PermissionIDs \ PermissionFlags \subseteq DefaultOn
  PROVE  Consented(given, Resolve(given), AppliedProfile(given))
<1> DEFINE l == Resolve(given)
           p == AppliedProfile(given)
           m == Merged(given)
           t == localTrustFrom(given)
<1>1. /\ l.entry = AgentOf(given).entry
      /\ l.permissions \subseteq resolvePermissions(given, m.permissions)
      /\ l.mounts \subseteq buildMountConfig(given, m.mounts) \cup AutoMounts
  BY ResolveParts
<1>2. ASSUME p.mounts = None
      PROVE  l.mounts \cap Denied \subseteq AutoMounts \cup buildMountConfig(given, {})
  <2>1. m.mounts \cap Denied = {}
    BY <1>2, Gate, LayerBlocks
  <2> HIDE DEF m, l
  <2> QED
    BY <1>1, <2>1 DEF buildMountConfig
<1>3. ASSUME p.permissions = None
      PROVE  l.permissions \subseteq
                NormalizePermissions([id \in PermissionIDs |-> IF id \in given THEN "on" ELSE "unset"])
  <2>1. {id \in PermissionIDs : m.permissions[id] = "on"} \cap PermissionFlags \subseteq given
    BY <1>3, Gate, LayerBlocks
  <2>2. m.permissions \in Answers
    BY MergedType DEF Local
  <2> HIDE DEF m, l
  <2> QED
    BY <1>1, <2>1, <2>2, PermissionsConsented
<1>4. l.entry = None => "agent" \in given \/ p.agent # None
  <2> SUFFICES ASSUME "agent" \notin given, p.agent = None PROVE l.entry # None
    OBVIOUS
  <2>1. m.agent \in Agents /\ WordOf(given) = m.agent
    BY MergedType DEF WordOf, Local
  <2>2. m.agent = "claude" \/ t.agent = m.agent
    BY LayerBlocks
  <2>3. t.agent # None => t.agent \in Known
    BY Gate
  <2>4. m.agent \in Known
    <3> HIDE DEF m, t, l, p
    <3> QED
      BY <2>1, <2>2, <2>3, CatalogAssumption, NoneAssumption
  <2>5. EntryOf[m.agent] # None
    BY <2>4, CatalogAssumption, NoneAssumption
  <2>6. AgentOf(given).entry = EntryOf[m.agent]
    BY <2>1, <2>4 DEF AgentOf, resolveAgentSelection
  <2> HIDE DEF m, l
  <2> QED
    BY <1>1, <2>5, <2>6
<1>5. "jail" \notin l.options =>
        \/ "docker" \in l.options \/ host.os = "windows"
        \/ given \cap {"no-jail", "sandbox"} # {} \/ p.options # None
  BY JailConsented
<1>6. \A o \in DOMAIN Consents :
         o \in l.options =>
            \/ given \cap Consents[o] # {} \/ o \in (IF p.options = None THEN {} ELSE p.options)
            \/ o = "docker" /\ hasContainerResources(IF p.options = None THEN {} ELSE p.options)
  BY OptionsConsented
<1>7. \A o \in {"deps", "tmux"} :
         {o, "docker"} \subseteq l.options =>
            \/ o \in (IF p.options = None THEN {} ELSE p.options) \cup GlobalOptions
            \/ given \cap {"save", "host-gateway"} # {}
  <2> SUFFICES ASSUME NEW o \in {"deps", "tmux"}, {o, "docker"} \subseteq l.options,
                      o \notin GlobalOptions
               PROVE  \/ o \in (IF p.options = None THEN {} ELSE p.options)
                      \/ given \cap {"save", "host-gateway"} # {}
    OBVIOUS
  <2>1. CASE p.options = None
    BY <2>1, SharesConsented
  <2>2. CASE p.options # None
    <3>1. m.options = p.options
      BY <2>2, LayerBlocks
    <3>2. o \in m.options
      BY OptionOrigin, FlagsOfOptions
    <3> QED
      BY <2>2, <3>1, <3>2
  <2> QED
    BY <2>1, <2>2
<1> HIDE DEF l, p
<1> QED
  BY <1>2, <1>3, <1>4, <1>5, <1>6, <1>7 DEF Consented, l, p

-----------------------------------------------------------------------------
(***************************************************************************)
(* Every run.                                                              *)
(***************************************************************************)

LEMMA LeastNumber ==
  ASSUME NEW S \in SUBSET Nat, S # {}
  PROVE  \E m \in S : \A k \in S : m <= k
<1> DEFINE R == {x \in Nat \X Nat : x[1] < x[2]}
<1>1. IsWellFoundedOn(R, Nat)
  BY NatLessThanWellFounded, Zenon DEF OpToRel
<1>2. \A m, k \in S : <<k, m>> \notin R => m <= k
  OBVIOUS
<1> HIDE DEF R
<1>3. \E m \in S : \A k \in S : <<k, m>> \notin R
  BY <1>1, WFMin
<1> QED
  BY <1>2, <1>3

\* The reason a refusal names is one of those it has.
LEMMA FirstIsAReason ==
  ASSUME NEW reasons \in SUBSET Reasons, reasons # {}
  PROVE  First(reasons) \in Reasons
<1>1. \A r \in Reasons : Rank[r] \in Nat
  BY DEF Reasons, Rank
<1> DEFINE ranks == {Rank[r] : r \in reasons}
<1>2. PICK m \in ranks : \A k \in ranks : m <= k
  <2>1. ranks \in SUBSET Nat /\ ranks # {}
    BY <1>1
  <2> HIDE DEF ranks
  <2> QED
    BY <2>1, LeastNumber
<1>3. PICK r \in reasons : m = Rank[r]
  BY <1>2
<1>4. \A s \in reasons : Rank[r] <= Rank[s]
  BY <1>2, <1>3
<1>5. First(reasons) \in reasons
  BY <1>4 DEF First
<1> QED
  BY <1>5

\* A plain start reads the file and the host, and no profile.
LEMMA PlainStartReads ==
  ASSUME file' = file, host' = host
  PROVE  Resolve(PlainStart)' = Resolve(PlainStart)
<1>1. AppliedProfile(PlainStart)' = AppliedProfile(PlainStart)
  BY DEF AppliedProfile, PlainStart
<1>2. RawLocal(PlainStart)' = RawLocal(PlainStart)
  BY DEF RawLocal, PlainStart
<1> QED
  BY <1>1, <1>2 DEF Resolve, ConstrainToPlatform

\* Replays, of every selection, in the state after a step.
Replayed ==
    \A l \in Launch, base \in SUBSET Options :
        /\ Settled(l) /\ Unambiguous(l)
        /\ ("memoryTuning" \in l.options <=> "memoryTuning" \in base)
        /\ file = saveLocalSelection(base, l)
        => Resolve(PlainStart) = Replay(l)

LEMMA ReplaysAlways == Replayed
BY Replays DEF Replayed

LEMMA ReplaysNext ==
  ASSUME NEW l \in Launch, NEW base \in SUBSET Options,
         "memoryTuning" \in l.options <=> "memoryTuning" \in base,
         Settled(l), Unambiguous(l), host' = host, file' = saveLocalSelection(base, l)
  PROVE  Resolve(PlainStart)' = Replay(l)
<1>1. Replayed => Replayed'
  BY ReplaysAlways, PTL
<1>2. Settled(l)'
  BY DEF Settled, Dropped
<1> QED
  BY <1>1, <1>2, ReplaysAlways DEF Replayed

\* What was saved is what a plain start in the saved file resolves to, and
\* only a saved file is edited.
SavedIsResolved ==
    /\ saved # None /\ file = blessed => (Unambiguous(saved) => Resolve(PlainStart) = Replay(saved))
    /\ outcome = "saved" => file = blessed

\* The gate asks for every permission that is not on by default.
GateIsComplete == PermissionIDs \ PermissionFlags \subseteq DefaultOn

SelectionInv ==
    SelectionTypeOK /\ SavedIsResolved /\ SavedIsReplayed /\ (GateIsComplete => ConsentHolds)

LEMMA SelectionInitially == SelectionInit => SelectionInv
<1> SUFFICES ASSUME SelectionInit PROVE SelectionInv
  OBVIOUS
<1>1. SelectionTypeOK
  BY DocumentsAssumption DEF SelectionInit, SelectionIdle, SelectionTypeOK
<1>2. SavedIsResolved /\ SavedIsReplayed /\ ConsentHolds
  BY DEF SelectionInit, SelectionIdle, SavedIsResolved, SavedIsReplayed, ConsentHolds, FromUnsaved
<1> QED
  BY <1>1, <1>2 DEF SelectionInv

LEMMA SelectionEdited ==
  ASSUME SelectionInv, NEW d \in Rewrites, outcome = "saved", HandEdit(d)
  PROVE  SelectionInv'
<1>1. SelectionTypeOK'
  <2>1. d \in Document
    BY DocumentsAssumption
  <2> QED
    BY <2>1 DEF SelectionInv, SelectionTypeOK, HandEdit
<1>2. ASSUME saved' # None, file' = blessed', Unambiguous(saved')
      PROVE  Resolve(PlainStart)' = Replay(saved')
  <2>1. file' = file
    BY <1>2 DEF SelectionInv, SavedIsResolved, HandEdit
  <2>2. Resolve(PlainStart)' = Resolve(PlainStart)
    BY <2>1, PlainStartReads DEF HandEdit
  <2> QED
    BY <1>2, <2>1, <2>2 DEF SelectionInv, SavedIsResolved, HandEdit
<1>3. outcome' = "none"
  BY DEF HandEdit
<1> QED
  BY <1>1, <1>2, <1>3 DEF SelectionInv, SavedIsResolved, SavedIsReplayed, ConsentHolds, FromUnsaved

\* What every run asks, of whom, and the reasons a trusted file gives.
LEMMA SelectionAsked ==
  ASSUME SelectionInv, NEW g \in CommandLines, Asked(g)
  PROVE  /\ asked' = g /\ asked' \in CommandLines \cup {{}}
         /\ spent' \in BOOLEAN /\ unsaved' \in BOOLEAN /\ unsaved' = (file # blessed)
         /\ enforceLocalConfigTrust(g) \in SUBSET Reasons
         /\ unsaved' /\ "bare" \notin g /\ enforceLocalConfigTrust(g) = {} => Passes(g)
<1>1. asked' = g /\ asked' \in CommandLines \cup {{}}
  BY DEF Asked
<1>2. unsaved' = (file # blessed) /\ unsaved' \in BOOLEAN
  BY Zenon DEF Asked, LocalConfigTrusted
<1>3. spent' \in BOOLEAN
  BY Zenon DEF Asked, SelectionInv, SelectionTypeOK
<1>4. enforceLocalConfigTrust(g) \in SUBSET Reasons
  BY DEF enforceLocalConfigTrust, Refusals
<1>5. unsaved' /\ "bare" \notin g /\ enforceLocalConfigTrust(g) = {} => Passes(g)
  BY <1>2 DEF enforceLocalConfigTrust, LocalConfigTrusted, Passes
<1> QED
  BY <1>1, <1>2, <1>3, <1>4, <1>5

LEMMA SelectionRefused ==
  ASSUME SelectionInv, NEW g \in CommandLines, Asked(g),
         Refuse(g, enforceLocalConfigTrust(g), Resolve(g))
  PROVE  SelectionInv'
<1> DEFINE reasons == enforceLocalConfigTrust(g)
<1>1. outcome' \in {"no profile", "artifacts failed", "no runtime"} \cup Reasons /\ launch' = None
  <2>1. reasons # {} => First(reasons) \in Reasons
    BY SelectionAsked, FirstIsAReason
  <2> HIDE DEF reasons
  <2>2. \/ Ended("no profile", None) \/ (reasons # {} /\ Ended(First(reasons), None))
        \/ Ended("artifacts failed", None) \/ Ended("no runtime", None)
    BY DEF Refuse, reasons
  <2> QED
    BY <2>1, <2>2 DEF Ended
<1>2. outcome' \notin {"launched", "profile saved", "saved"}
  BY <1>1 DEF Reasons
<1>3. /\ file' = file /\ blessed' = blessed /\ profile' = profile /\ host' = host /\ saved' = saved
  BY DEF Refuse
<1>4. SelectionTypeOK'
  BY <1>1, <1>3, SelectionAsked DEF SelectionInv, SelectionTypeOK
<1>5. Resolve(PlainStart)' = Resolve(PlainStart)
  BY <1>3, PlainStartReads
<1> QED
  BY <1>2, <1>3, <1>4, <1>5 DEF SelectionInv, SavedIsResolved, SavedIsReplayed, ConsentHolds, FromUnsaved

LEMMA SelectionRunsOnce ==
  ASSUME SelectionInv, NEW g \in CommandLines, Asked(g),
         Proceeds(g, enforceLocalConfigTrust(g), Resolve(g)), RunOnce(g, Resolve(g))
  PROVE  SelectionInv'
<1>1. /\ file' = file /\ blessed' = blessed /\ profile' = profile /\ host' = host /\ saved' = saved
      /\ outcome' = "launched" /\ launch' = Resolve(g) /\ "bare" \notin g
  BY DEF RunOnce, Ended
<1>2. file \in Document /\ profile \in Profile \cup {None}
  BY DEF SelectionInv, SelectionTypeOK
<1>3. ~MissingProfile(g) /\ enforceLocalConfigTrust(g) = {}
  BY DEF Proceeds
<1>4. Resolve(g) \in Launch
  BY <1>2, <1>3, ResolveType
<1>5. SelectionTypeOK'
  BY <1>1, <1>4, SelectionAsked DEF SelectionInv, SelectionTypeOK
<1>6. Resolve(PlainStart)' = Resolve(PlainStart)
  BY <1>1, PlainStartReads
<1>7. SavedIsResolved' /\ SavedIsReplayed'
  BY <1>1, <1>6, SelectionAsked DEF SelectionInv, SavedIsResolved, SavedIsReplayed, PlainStart
<1>8. ASSUME GateIsComplete
      PROVE  ConsentHolds'
  <2>1. unsaved' => Consented(g, Resolve(g), AppliedProfile(g))
    BY <1>1, <1>2, <1>3, <1>8, SelectionAsked, LaunchConsented DEF GateIsComplete
  <2>2. AppliedProfile(g)' = AppliedProfile(g)
    BY <1>1 DEF AppliedProfile
  <2>3. asked' = g
    BY SelectionAsked
  <2> QED
    BY <1>1, <2>1, <2>2, <2>3 DEF ConsentHolds, Consented, FromUnsaved, Trusted, ProfileOptions
<1> QED
  BY <1>5, <1>7, <1>8 DEF SelectionInv

LEMMA SelectionSavesFile ==
  ASSUME SelectionInv, NEW g \in CommandLines, Asked(g),
         Proceeds(g, enforceLocalConfigTrust(g), Resolve(g)), SaveFile(g, Resolve(g))
  PROVE  SelectionInv'
<1> DEFINE base == Merged(g).options
           l == Resolve(g)
<1>1. /\ file' = saveLocalSelection(base, l) /\ blessed' = file' /\ saved' = l /\ launch' = l
      /\ profile' = profile /\ host' = host
      /\ outcome' = IF "bare" \in g THEN "launched" ELSE "saved"
  BY DEF SaveFile, Ended, Merged
<1>2. file \in Document /\ profile \in Profile \cup {None} /\ host \in Hosts
  BY DEF SelectionInv, SelectionTypeOK
<1>3. ~MissingProfile(g)
  BY DEF Proceeds
<1>4. l \in Launch /\ base \in SUBSET Options
  BY <1>2, <1>3, ResolveType, MergedType DEF Local
<1>5. Settled(l) /\ ("memoryTuning" \in l.options <=> "memoryTuning" \in base)
  BY <1>2, <1>3, ResolveSettles
<1>6. asked' = g
  BY SelectionAsked
<1> HIDE DEF base, l
<1>7. Unambiguous(l) => Resolve(PlainStart)' = Replay(l)
  BY <1>1, <1>4, <1>5, ReplaysNext
<1>8. file' \in Document
  <2>1. optionsFromLaunch(base, l) \in SUBSET Options
    BY <1>4 DEF optionsFromLaunch, Launch
  <2>2. Explicit(l.permissions) \in Answers
    BY DEF Explicit, Answers
  <2>3. l.agent \in Agents /\ l.mounts \in SUBSET Paths
    BY <1>4 DEF Launch
  <2> QED
    BY <1>1, <2>1, <2>2, <2>3 DEF saveLocalSelection, Document
<1>9. SelectionTypeOK'
  BY <1>1, <1>2, <1>4, <1>8, SelectionAsked DEF SelectionTypeOK
<1>10. SavedIsResolved' /\ SavedIsReplayed'
  BY <1>1, <1>6, <1>7 DEF SavedIsResolved, SavedIsReplayed
<1>11. ConsentHolds'
  BY <1>1, <1>6 DEF ConsentHolds, FromUnsaved
<1> QED
  BY <1>9, <1>10, <1>11 DEF SelectionInv

LEMMA SelectionSavesProfile ==
  ASSUME SelectionInv, NEW g \in CommandLines, Asked(g),
         Proceeds(g, enforceLocalConfigTrust(g), Resolve(g)), SaveProfile(g, Resolve(g))
  PROVE  SelectionInv'
<1> DEFINE l == Resolve(g)
<1>1. /\ file' = file /\ blessed' = blessed /\ host' = host /\ saved' = saved
      /\ profile' = profileFromLaunch(l) /\ launch' = l /\ outcome' = "profile saved"
  BY DEF SaveProfile, Ended
<1>2. file \in Document /\ profile \in Profile \cup {None}
  BY DEF SelectionInv, SelectionTypeOK
<1>3. ~MissingProfile(g) /\ enforceLocalConfigTrust(g) = {}
  BY DEF Proceeds
<1>4. l \in Launch
  BY <1>2, <1>3, ResolveType
<1>5. asked' = g
  BY SelectionAsked
<1>6. GateIsComplete /\ unsaved' /\ "bare" \notin g => Consented(g, l, AppliedProfile(g))
  BY <1>2, <1>3, SelectionAsked, LaunchConsented DEF GateIsComplete
<1> HIDE DEF l
<1>7. /\ profile'.agent \in Agents /\ profile'.permissions \in Answers
      /\ profile'.mounts \in SUBSET Paths /\ profile'.options = l.options \ NotProjected
      /\ profile'.options \in SUBSET Options /\ profile' \in Profile
  BY <1>1, <1>4 DEF profileFromLaunch, Launch, Profile, Explicit, Answers
<1>8. SelectionTypeOK'
  BY <1>1, <1>4, <1>7, SelectionAsked DEF SelectionInv, SelectionTypeOK
<1>9. Resolve(PlainStart)' = Resolve(PlainStart)
  BY <1>1, PlainStartReads
<1>10. SavedIsResolved' /\ SavedIsReplayed'
  BY <1>1, <1>9 DEF SelectionInv, SavedIsResolved, SavedIsReplayed
<1>11. ASSUME GateIsComplete
       PROVE  ConsentHolds'
  <2>1. CASE "profile" \in g /\ "no-local-config" \notin g
    <3>1. AppliedProfile(g)' = profile'
      BY <2>1 DEF AppliedProfile
    <3>2. /\ profile'.agent # None /\ profile'.permissions # None
          /\ profile'.mounts # None /\ profile'.options # None
      BY <1>7, NoneAssumption
    <3>3. \A o \in DOMAIN Consents : o \in l.options => o \in profile'.options
      BY <1>7 DEF Consents, NotProjected
    <3>4. \A o \in {"deps", "tmux"} : o \in l.options => o \in profile'.options
      BY <1>7 DEF NotProjected
    <3> QED
      BY <1>1, <1>5, <3>1, <3>2, <3>3, <3>4 DEF ConsentHolds, FromUnsaved, Trusted, ProfileOptions
  <2>2. CASE ~("profile" \in g /\ "no-local-config" \notin g)
    <3>1. AppliedProfile(g)' = AppliedProfile(g)
      BY <2>2 DEF AppliedProfile
    <3> QED
      BY <1>1, <1>5, <1>6, <1>11, <3>1 DEF ConsentHolds, Consented, FromUnsaved, Trusted, ProfileOptions
  <2> QED
    BY <2>1, <2>2
<1> QED
  BY <1>8, <1>10, <1>11 DEF SelectionInv

LEMMA SelectionStep ==
  SelectionInv /\ [SelectionNext]_selectionVars => SelectionInv'
<1> SUFFICES ASSUME SelectionInv, [SelectionNext]_selectionVars PROVE SelectionInv'
  OBVIOUS
<1>1. CASE \E d \in Rewrites : outcome = "saved" /\ HandEdit(d)
  BY <1>1, SelectionEdited
<1>2. ASSUME NEW g \in CommandLines, Run(g)
      PROVE  SelectionInv'
  <2>1. Asked(g)
    BY <1>2 DEF Run
  <2>2. CASE Refuse(g, enforceLocalConfigTrust(g), Resolve(g))
    BY <2>1, <2>2, SelectionRefused
  <2>3. CASE Proceeds(g, enforceLocalConfigTrust(g), Resolve(g)) /\ SaveProfile(g, Resolve(g))
    BY <2>1, <2>3, SelectionSavesProfile
  <2>4. CASE Proceeds(g, enforceLocalConfigTrust(g), Resolve(g)) /\ SaveFile(g, Resolve(g))
    BY <2>1, <2>4, SelectionSavesFile
  <2>5. CASE Proceeds(g, enforceLocalConfigTrust(g), Resolve(g)) /\ RunOnce(g, Resolve(g))
    BY <2>1, <2>5, SelectionRunsOnce
  <2> QED
    BY <1>2, <2>2, <2>3, <2>4, <2>5 DEF Run
<1>3. CASE UNCHANGED selectionVars
  <2>1. /\ file' = file /\ blessed' = blessed /\ profile' = profile /\ host' = host /\ asked' = asked
        /\ outcome' = outcome /\ launch' = launch /\ spent' = spent /\ saved' = saved
        /\ unsaved' = unsaved
    BY <1>3 DEF selectionVars
  <2>2. Resolve(PlainStart)' = Resolve(PlainStart)
    BY <2>1, PlainStartReads
  <2>3. SelectionTypeOK' /\ SavedIsResolved' /\ SavedIsReplayed'
    <3>1. SelectionTypeOK'
      BY <2>1, ZenonT(30) DEF SelectionInv, SelectionTypeOK
    <3>2. SavedIsResolved'
      BY <2>1, <2>2, ZenonT(30) DEF SelectionInv, SavedIsResolved
    <3>3. SavedIsReplayed'
      BY <2>1, ZenonT(30) DEF SelectionInv, SavedIsReplayed
    <3> QED
      BY <3>1, <3>2, <3>3
  <2>4. AppliedProfile(asked)' = AppliedProfile(asked)
    BY <2>1 DEF AppliedProfile
  <2>5. GateIsComplete => ConsentHolds'
    BY <2>1, <2>4 DEF SelectionInv, ConsentHolds, FromUnsaved, Trusted, ProfileOptions
  <2> QED
    BY <2>3, <2>5 DEF SelectionInv
<1> QED
  BY <1>1, <1>2, <1>3 DEF SelectionNext

\* A plain start in the file that --save wrote, with whatever flags, profile and
\* hand-edited blocks it was put together from, launches what was saved: the
\* command, the permissions, the directories and the options, and the catalog
\* entry where the catalog knows the command, as it knows commands, names and
\* aliases but no configured path. No other entry may answer to the command
\* (saveLocalSelection, LoadLocal, resolveAgentSelection, resolveLaunchInputs).
THEOREM SavedRunsAgain == SelectionSpec => []SavedIsReplayed
<1>1. SelectionInv => SavedIsReplayed
  BY DEF SelectionInv
<1> QED
  BY <1>1, SelectionInitially, SelectionStep, PTL DEF SelectionSpec

\* What the gate asks consent for, no file brings to a one-shot launch without
\* it: an agent outside the catalog, the end of the sandbox, the container and
\* the directories shared with it, denied mounts, permissions, the agent's own
\* options and the two memory scopes (enforceLocalConfigTrust). Not among them
\* are the values it never looks at, which ConsentHolds names. The gate knows
\* permissions by name: where one of the catalog has no flag and is not on by
\* default, the file decides it.
THEOREM GateIsRespected ==
  ASSUME PermissionIDs \ PermissionFlags \subseteq DefaultOn
  PROVE  SelectionSpec => []ConsentHolds
<1>1. GateIsComplete
  BY DEF GateIsComplete
<1>2. SelectionInv => ConsentHolds
  BY <1>1 DEF SelectionInv
<1> QED
  BY <1>2, SelectionInitially, SelectionStep, PTL DEF SelectionSpec

-----------------------------------------------------------------------------
(***************************************************************************)
(* The two parts that a run checks side by side.                           *)
(***************************************************************************)

LEMMA BuildOuter ==
  ASSUME NEW c
  PROVE  Build(c).outer \in {"none", "docker", "ai-jail", "ai-memory", "agent"}
BY DEF Build, buildContinue, buildDockerRun, memoryChain

LEMMA PreflightTyped ==
  ASSUME PreflightTypeOK, PreflightInv, PreflightNext
  PROVE  PreflightTypeOK'
<1>1. cfg' \in LaunchConfigs
  BY InvStep DEF PreflightInv
<1>2. MaxEdits \in Nat
  BY HarnessAssumption
<1>3. CASE Finalize
  BY <1>1, <1>3 DEF Finalize, PreflightTypeOK
<1>4. ASSUME NEW c, Edited(c)
      PROVE  PreflightTypeOK'
  <2>1. edits \in 0..MaxEdits /\ edits > 0 /\ edits' = edits - 1
    BY <1>4 DEF Edited, PreflightTypeOK
  <2>2. edits' \in 0..MaxEdits
    BY <1>2, <2>1
  <2> QED
    BY <1>1, <1>4, <2>2 DEF Edited, PreflightTypeOK
<1>5. CASE Confirm
  <2>1. edits' = edits /\ stage' \in {"failed", "running", "refused"}
    BY <1>5 DEF Confirm
  <2>2. argv' = argv \/ argv' = Build(ResolveHostBinaries(cfg))
    BY <1>5 DEF Confirm
  <2> QED
    BY <1>1, <2>1, <2>2, BuildOuter DEF PreflightTypeOK
<1>6. CASE ToggleOption
  BY <1>4, <1>6 DEF ToggleOption
<1>7. CASE ToggleContainer
  BY <1>4, <1>7 DEF ToggleContainer
<1>8. CASE TogglePermission
  BY <1>4, <1>8 DEF TogglePermission
<1>9. CASE \E a \in Harnesses : SelectAgent(a)
  BY <1>4, <1>9 DEF SelectAgent
<1>10. CASE SelectContinue
  BY <1>4, <1>10 DEF SelectContinue
<1> QED
  BY <1>3, <1>5, <1>6, <1>7, <1>8, <1>9, <1>10 DEF PreflightNext

PartsInv ==
    /\ TypeOK
    /\ part = "selection" => SelectionInv
    /\ part = "preflight" => PreflightInv

LEMMA PartsInitially ==
  ASSUME "claude" \in Harnesses, [os |-> "linux", runtime |-> TRUE] \in Hosts
  PROVE  Init => PartsInv
<1> SUFFICES ASSUME Init PROVE PartsInv
  OBVIOUS
<1>1. MaxEdits \in Nat
  BY HarnessAssumption
<1>2. CASE part = "selection" /\ SelectionPart
  <2>1. SelectionInv
    BY <1>2, SelectionInitially DEF SelectionPart
  <2>2. Chosen("claude", {}) \in LaunchConfigs
    BY DEF Chosen, LaunchConfigs, EnvNames
  <2>3. PreflightTypeOK
    BY <1>1, <1>2, <2>2 DEF SelectionPart, PreflightTypeOK, NoCommand
  <2> QED
    BY <1>2, <2>1, <2>3 DEF PartsInv, TypeOK, SelectionInv
<1>3. CASE part = "preflight" /\ PreflightPart
  <2>1. PreflightInv
    BY <1>3, InitInv DEF PreflightPart
  <2>2. PreflightTypeOK
    BY <1>1, <1>3, <2>1 DEF PreflightPart, PreflightInit, PreflightTypeOK, PreflightInv, NoCommand
  <2>3. Written({}) \in Document
    <3>1. "claude" \in Agents
      BY CatalogAssumption
    <3>2. Written({}) = [agent |-> "claude",
                         permissions |-> [id \in PermissionIDs |-> "unset"], mounts |-> {},
                         form |-> "list", on |-> {}, off |-> {}]
      BY DEF Written
    <3> QED
      BY <3>1, <3>2 DEF Document, Answers
  <2>4. SelectionTypeOK
    BY <1>3, <2>3 DEF PreflightPart, SelectionTypeOK
  <2> QED
    BY <1>3, <2>1, <2>2, <2>4 DEF PartsInv, TypeOK
<1> QED
  BY <1>2, <1>3 DEF Init

LEMMA PartsStep == PartsInv /\ [Next]_<<part, selectionVars, preflightVars>> => PartsInv'
<1> SUFFICES ASSUME PartsInv, [Next]_<<part, selectionVars, preflightVars>> PROVE PartsInv'
  OBVIOUS
<1>1. ASSUME UNCHANGED preflightVars
      PROVE  PreflightTypeOK'
  BY <1>1 DEF PartsInv, TypeOK, PreflightTypeOK, preflightVars
<1>2. ASSUME UNCHANGED selectionVars
      PROVE  SelectionTypeOK'
  BY <1>2 DEF PartsInv, TypeOK, SelectionTypeOK, selectionVars
<1>3. CASE part = "selection" /\ SelectionNext /\ UNCHANGED <<part, preflightVars>>
  <2>1. SelectionInv'
    BY <1>3, SelectionStep DEF PartsInv
  <2> QED
    BY <1>1, <1>3, <2>1 DEF PartsInv, TypeOK, SelectionInv
<1>4. CASE part = "preflight" /\ PreflightNext /\ UNCHANGED <<part, selectionVars>>
  <2>1. PreflightInv'
    BY <1>4, InvStep DEF PartsInv
  <2>2. PreflightTypeOK'
    BY <1>4, PreflightTyped DEF PartsInv, TypeOK
  <2> QED
    BY <1>2, <1>4, <2>1, <2>2 DEF PartsInv, TypeOK
<1>5. CASE UNCHANGED <<part, selectionVars, preflightVars>>
  <2>1. (part' = "selection" => SelectionInv') /\ (part' = "preflight" => PreflightInv')
    BY <1>5, SelectionStep, InvStep DEF PartsInv
  <2> QED
    BY <1>1, <1>2, <1>5, <2>1 DEF PartsInv, TypeOK
<1> QED
  BY <1>3, <1>4, <1>5 DEF Next

\* Whatever is typed, edited, saved and answered, the selection is one that a
\* workspace file can hold, and the launch one that the command builder knows.
THEOREM TypeCorrect ==
  ASSUME "claude" \in Harnesses, [os |-> "linux", runtime |-> TRUE] \in Hosts
  PROVE  Spec => []TypeOK
<1>1. PartsInv => TypeOK
  BY DEF PartsInv
<1> QED
  BY <1>1, PartsInitially, PartsStep, PTL DEF Spec
=============================================================================

# ai-launcher in TLA+

ai-launcher starts coding agents in a jail, in a container or as they are. It
keeps a per-user and a per-workspace configuration, generates container
artifacts into the project, and installs and updates its own tools. This
directory holds models of the parts where several steps, several processes, an
editor, a crash or a power loss meet, and of the way from a configuration to
the command that runs; TLC checks them on small instances and
TLAPS proves the most important results for all of them.

`tlc -config X.cfg M` checks a run, `tlapm M.tla` a proof module. PROJECT.json
lists the runs, the lines of source each definition translates, the mutants
that show each property can fail, the findings, the hazards and the theorems.

## 1. The system

A launcher is one short-lived process: it parses its flags, loads the global
file (once), loads the workspace file, decides whether to trust that file,
merges profile and flags over it, lets the operator change the selection in a
terminal UI, saves it, and then runs an agent and waits for it. There is no
daemon and no lock: several launchers share the home directory, the workspace
and the container runtime only through files. That is where the hard behaviour
is.

| part | state it keeps | operations | hard behaviour | what makes it correct | model |
|---|---|---|---|---|---|
| atomic writes (`internal/fsatomic`) | one file, one temporary per call | WriteTemp, WriteFile | any stage may fail; kill; power loss; several writers | readers and restarts see whole contents only; no litter | FsAtomic |
| configuration store (`internal/config/*_storage.go`, `global.go`) | `~/.config/ai-launcher/config.yaml`, `.ai-launcher/config.yaml`, the legacy file and its backups; each process' loaded copy | LoadGlobal, SaveGlobal, SaveRecentAgents, RecordTrustedLocalConfig, LoadLocal, SaveLocalResult | read-modify-write without locks; stale copies; migration in several steps | a trust record proves provenance; one key per update; migration loses nothing | ConfigStore |
| trust boundary (`cmd/ai-launcher/trust.go`) | - | decides what an unrecorded workspace file may set | the verdict is about bytes read at another time; consent is judged on a merged selection | an untrusted file widens nothing without consent | who is trusted: ConfigStore; what is refused: Selection |
| schema, defaults, merging (`internal/config`, `launch_inputs.go`) | - | decode, default, merge, project back | precedence of four sources; a launch is saved field by field | what was saved is launched again | Selection |
| launch session (`launch_flow.go`, `persistence_helpers.go`, `profiles.go`, `tui/profile_input.go`) | the selection, the profile snapshot, the armed recovery name | confirm, autosave, load/save profile, run, retry | the loop screen - run - failure - screen; memory of one iteration used in the next | what ran is what opens next; a recovery name does not outlive its success | LaunchSession |
| screen (`internal/tui`) | the selection being edited, what was probed for it | toggles, agent rows, confirm | edits in any order; values probed for an earlier selection | what is launched is what is on the screen | Preflight (edits), LaunchSession (profiles), ArtifactReview (review) |
| pre-flight and command line (`internal/launcher`: validation, build, argv, jail) | - | ResolveHostBinaries, Validate, Build | forty checks and as many options, each with a floor written twice | what passes is accepted by the tools and carries what was set | Preflight |
| artifact review (`compose_update.go`, `container_flow.go`, `tui/selection.go`) | Dockerfile, install-config.yaml, .gitignore, docker-compose.yaml, policy files, the approval ledger | inspect, prompt, keep, replace, approve | decision taken at one time, applied at another; a shared ledger; crash between file and approval | hand edits survive; decisions stick | ArtifactReview |
| execution (`executor*.go`, `execution.go`, `launch_flow.go`) | PTY, child, copy and watcher goroutines; image, overlays, stack | prepare, run, replace, cancel, reap, tear down | cancel races the exit; signals at every step | the result is the agent's; the session ends; nothing is left behind | Execution over PtySession |
| container image, Compose and run model (`internal/container`) | image names | render, resolve services and ports | - | - | write path: FsAtomic; image preparation: Execution; rendering: not modelled |
| installer (`internal/installer`) | installed executables, state file | installOne, Install, InstallSource | kill between executable and state; a vendor's script run over the command | what is reported is what is there | Installer over SourceHealth |
| install command (`internal/cmd/install.go`) | the agents' configuration files and their staged copies | wireMemoryTargets | staged copies outlive a failed run | no setting is lost | MemoryWiring |
| self-update (`internal/selfupdate`) | the running executable | LatestTag, DownloadVerifiedBinary, replace | rename aside and roll back on Windows; order of tags | an executable is always in place; the highest version wins | SelfUpdate |
| catalog, jail policy, version probing | - | resolve, classify, merge, probe | an agent runs under another name than it is listed; links that point outside; unknown versions | - | agents and permissions: Selection; flags, floors, links: Preflight; the rest not modelled |
| printing, drawing, end-to-end test tools | - | - | - | - | not modelled |

Interactions. Every file of the configuration store is written through
`fsatomic` (the artifacts and the ledger through copies of it, without its
flush), so ConfigStore and ArtifactReview take one write as one step: that is
what `FsAtomic => AtomicFile` licenses. A workspace file is read by Selection,
whose launch is the LaunchConfig Preflight turns into a command, which
Execution runs; ArtifactReview stands between a confirmed container selection
and its run. LaunchSession decides *what* is saved, ConfigStore *how* it
reaches the files and is recorded. PtySession is a part of Execution, and
SourceHealth of Installer. The others share no variables and are not composed.

## 2. Modules

`X` is a component, `XProofs` its theorems, `MCX` its instantiation for TLC.

**AtomicFile, FsAtomic.** `link` is the file a path names in the running
system, `onDisk` those it may name after a power loss (a rename reaches the
disk when the directory is written back, which `fsatomic` does not wait for).
A file is its data, whether they are flushed and whose mode it has. Each stage
of `WriteTemp` and `WriteFile` is an action (`CreateTemp` .. `Close`,
`Rename`), any of them may fail (`Fail`), be killed (`Kill`) or lose power
(`PowerLoss`). AtomicFile is what callers rely on: contents replaced in one
step, and after a power loss an earlier whole content. Assumed: a random
temporary name is never reused, a file system that keeps file data and
directory entries apart but each of them intact.

**ConfigStore.** `doc` is the global file: its trust records, its recent
agents and the names it defines (profiles and added agents alike). `file` has
the new and the legacy workspace file, `bak` the backups. A process goes
`off - global - loaded - ready` (`Start`, `LoadLocal`, `CheckTrust`) and from
`ready` through a save (`Save`, `WriteLocal`, `PickBackup`, `MoveLegacy`,
`HashLocal`, `ReadDoc`, `WriteTrusted`) or an update of the recent agents
(`Remember`, `ReadDoc`, `WriteRecent`), or writes the catalog as a whole
(`PutName`, `DeleteName`). Every read and every write is its own step. A hash is
identified with the content. `Edit` is an editor or `git checkout`;
`EditableAt` says during which steps of a launcher it may come, which is how
the assumption of a property is made explicit. The order of operations of a
process in `ready` is left open, which is more than one session can do. Not in
the model: bare-path trust rows of schema 2.0, defaults merged into the copy on
load.

**LaunchSession.** One workspace, one session after another. An options block
is three fields: `rest` (a member of `Toggles`, standing for all the options
nothing here tells apart), `force` and the workstream name `new`. `base` is
`r.local.Options`, the file's block as the start has normalised it (`Normal`:
services turn the container on and the jail off, an agent loses memory or yolo that
it does not have), `sel` the selection, `profileSelection` the snapshot of the
last profile load, local to one screen as in the code. `Fail` is the branch
that opens the screen again and may arm a recovery name. The recovery names of
different failures are one value. Agent, permissions and mounts are saved
outside the options block and not modelled.

**ArtifactReview.** `disk` holds the plain artifacts and the Compose file,
`ledger` their approvals with the flat entry of older versions, `policy` the
selection the generated policy files are of. A rendering is identified with
the selection it came from, hence two selections never render the same file; a
file where they would is the case of a file already up to date. The three
entries (`generate`, `--save`/`compose up`, the TUI) differ in where they ask:
`ReviewCompose`/`Accept` in the TUI, `AskCompose`/`AskPlain`/`Answer` on the
command line. `Inspect` reads all plain artifacts before the first is written,
`InspectCompose` the Compose file when its turn comes, as in the code. Reading
a file and its approval is one step. Errors of any kind are `GiveUp`.

**PtySession, Execution.** PtySession is `RunWithEnv`: `main` goes `copy - close
- kill - wait - judge`, `watcher` waits for the context. The agent (`child`)
may let go of the terminal and run on; it may start a `helper` that holds the
terminal, in its process group or outside it. `host` is the operator's terminal.
Execution puts it between the preparation of an image (`CheckRuntime` ..
`PlanOverlays`) and the cleanup, beside `Replace` (the launcher becomes its
agent, which Unix does when it was started with arguments) and the service stack
(`CheckStack` .. `ComposeDown`). A signal cancels the context in the phases of
`Windows`, where a NotifyContext is in force, and ends the process in any other.
An image is the launcher it holds, its version and where it came from; a tag is
the version it is named after, or `Bare`. `BuildHosts` says what a build may find:
a checkout of some version, through `GO_SRC_PATH`, the path compiled in or the
working directory (three ways to the same `checkout`), and on Linux the
launcher's own executable; a host with neither downloads a release. `OtherBuilds`,
`RemoveImage` and `Upgrade` are the other processes.

**SourceHealth, Installer.** SourceHealth has the two verdicts, over a file's
text and what it says to `--version`, as operators. Installer is one catalog
entry, a release or a vendor's script, over two places of PATH. Its steps are
the reads and writes of the state file and of the executables, the download,
the probe and the vendor's program (`RunInstaller`, which may put anything
anywhere, or nothing). It may fail or be killed at each; the publisher moves on
at any time, the operator removes commands between runs.

**MemoryWiring.** One agent's two files. A file under a symbolic link is edited
as a staged copy and published; the publication is a plain write, so it passes
through `Torn`. Copies outlive a run that failed or was killed.

**SelfUpdate.** Tags are pairs of a core, the X.Y.Z at the front (0: there is
none, the tag does not parse), and of whatever follows it. `TextRank` is where the
text of a tag sorts, which has nothing to do with the pair; `Flagged` are the tags
published as prereleases. Releases come in any order. `CompareTags` compares cores
if both tags parse and texts otherwise; it is no order, so `SortedTags` has every
list that a sort may leave: one whose neighbours are not the wrong way round. On
Windows the swap is four steps (`WriteBeside`, `MoveAside`, `MoveIn`,
`Rollback`), elsewhere one (FsAtomic). `Recover` is the operator who finds no
executable.

**Selection.** A block of options is the set of those that are on, in the three
forms a document may give it. An agent is a word: `Known` are those of the catalog
(commands, names, aliases), `EntryOf` the entry a word finds, `ResolvedCommand` the
command that entry runs under on this machine, its configured path or an installed
alias. A launch has both, the command it runs and the entry it came from, and a save
writes the command (`resolveAgentSelection`, `saveLocalSelection`). Whether an agent
supports memory is asked of its entry. `Resolve` is the whole of `resolveLaunchInputs`:
file, profile, flags in the order of their table, resources and services,
permissions with what they require, what the agent and the platform lack.
`enforceLocalConfigTrust` is the set of reasons, of which `First` is reported.
`Run` is a process: it refuses, saves a profile, saves the file, or launches.
`PermissionFlags` are the permissions that trust.go has a flag for. `"runtime"`
stands for the flags that turn the container on and are known to the gate,
`"host-gateway"` for the two that the gate does not know.
Hashes are contents. Two values of one option are not told apart, so a flag that
replaces a list is known to have done so only for mounts.

**Preflight.** A LaunchConfig is an agent and the set of its settings that are
on, with what was probed: versions as numbers, the contract of ai-jail, the
names of environment variables (`"nil"` as long as they are not computed).
`world` is the host: the versions that are installed and everything that is
wrong. Each group of issues of `Validate` is an operator of its name, the set of
its codes; `Build` has the three backends. `Finalize`, the edits and `Confirm`
are the handlers. `JailSince` and `MemorySince` say since when the two programs
know an option; they are external, taken from the floors and comments of
`internal/config`. So is what ai-jail accepts: `JailAcceptsFlags`, and
`JailAcceptsNetwork`, that ai-jail 3 refuses `--network` with an agent whose API host
it adds to the allowed ones (jailcontract.go:401-431 and its test).

**MCTools, MCCommandLine** put several machines beside each other that share no
variable: `part` says which of them a behaviour is, the others do not move.

## 3. Runs

| run | question | bounds, and why they do |
|---|---|---|
| MCFsAtomic | is the staged write atomic, and clean? | three writers, two contents: one that renames, one caught in any stage and one to overwrite; contents are not compared otherwise |
| MCStoreAlone | does one launcher after another keep the store right, with edits between the sessions? | lists of two, three agents and up to four records (two contents at two paths), so both lists overflow; two contents and "no file" at both paths; two backups: the second migration must not take the first one's name |
| MCStoreShared | two launchers, interleaved; is a legacy file always recoverable? | one workspace, since processes in different ones share only `doc`; one backup, which both want |
| MCLaunchSession | what reaches the options block? | one profile; three selections: a plain one, a service stack, and one the start turns into a stack; `force_unlock` is off, since no step that the properties see looks at it; all workstream names; sessions and retries are unbounded |
| MCReview | does the review keep hand edits and decisions? | one launcher at a time, one plain artifact and the Compose file, two selections, two hand-written contents |
| MCExecution | does a launch end, clean up and report what happened? whose launcher is in an image? | two versions, so one upgrade, before a launch or during it; two signals (a third changes nothing a second did not); one launch after another; every host a build may meet: Linux or not, no checkout or one of any version. Two parts: sessions of every kind have their images filled from the executable, since what an image holds changes no step; images from every source are built without signals, which end a launch at most earlier than a kill does |
| MCTools | do installs, wiring and upgrades give back, keep and report? | two releases: the state can be one behind; four shapes of script, one for each way they are taken; two settings of an agent, one to keep while one goes; tags with two cores or none and up to two suffixes, three releases published in any order: two rivals and one that does not parse |
| MCCommandLine | what does a workspace file lead to? what is run of a selection? | Two parts. Selection: documents of one line and of those pairs that interact with no profile, and those a profile or Windows changes with three profiles and on Windows; each flag alone, with --save, with --profile and with the flag that inverts it, those a profile stores with --save-profile; agents with an alias, with a path, with neither and outside the catalog; one command line that changes the selection, or one edit (`spent`), with any number of plain starts around it. Preflight: every pair of settings with every chain of backends on twelve installations, below and above every floor and with failed probes, for the two agents ai-memory runs, single settings for the third; one fault at a time with current versions; two edits of the screen from single settings on three installations |

`TrustMax` and `RecentMax` are 50 and 32 in the code, 2 or 1 here; `Backups` is
the number of backup names (when all are taken, the model's save fails).
`MaxSignals`, `MaxRelease`, `MaxCore`, `MaxPre`, `MaxReleases`, `MaxEdits` and
`spent` bound what the environment or the operator does. Pairs do for Preflight
since no check or builder reads more than two settings beside the backends, which
are in every combination; AcceptedLaunches proves the property without bounds.

Symmetry: writers, processes and contents are only compared for equality, and
no run with symmetry checks liveness. The views of MCStoreShared, MCLaunchSession and MCReview
drop history variables their properties do not read and what a process has in
memory but cannot use again before setting it; a state's successors are the
same up to the view, and TLC checks action properties on every step, also those
into states it has seen. `CHECK_DEADLOCK FALSE` stands where a machine really
stops: a command that runs or was refused, a publisher that has published all.

Each property has a mutant in PROJECT.json (`F_Something` beside `F`), a
plausible mistake in the code under which TLC finds it violated.

### What is checked of whom

- MCFsAtomic: no reader and no restart finds a part of a file (`NeverTorn`,
  `CrashSafe`), no error leaves a temporary one, `FsAtomic => AtomicFile`.
- MCStoreAlone, MCStoreShared: a trust record proves that a launcher wrote those
  bytes there; the newest save is trusted; what was honoured was saved; an update
  changes one key; a backup is not replaced (MCStoreShared, the harder of the two
  for it).
- MCLaunchSession: a recovery name does not outlive its success, what ran last is
  what opens next.
- MCReview: hand edits survive, a decision is not asked for twice, approvals do
  not push each other out, a stack runs under its own policy.
- MCExecution: `CancelEndsSession` and `AgentEndsSession` (liveness); no child
  outlives its session; a success is the agent's own, with all of its output;
  nothing is left in the temporary directory; the stack is down or its teardown
  is not called a success; an image that was given a copy of the executable is not
  older than its tag (`CopiedImageIsCurrent`), beside images compiled from a checkout
  and downloaded ones.
- MCTools: a failed install gives back the command that was there
  (`RecognizedFailureRestores`), a success is never an installer in its place
  (`SuccessIsACommand`), what is reported is what is there (`ReportIsTrue`);
  `WiringKeepsSettings`; `HighestCoreWins` (of the release list, as long as every
  tag that is weighed parses: it says nothing of a list with one that does not, and
  nothing of suffixes), `ExecutableSurvives`.
- MCCommandLine: what `--save` wrote is what a plain start launches
  (`SavedIsReplayed`): the command with its options, permissions and mounts, and the
  catalog entry too where the catalog knows the command (so for a command, a name or
  an alias, not for a configured path); left out is a command that another entry
  answers to (`Unambiguous`).
  What the gate asks consent for needs its flag, profile or default in a one-shot
  launch of an untrusted file (`ConsentHolds`): an agent outside the catalog, leaving
  the sandbox, the container and the directories shared with it, denied mounts,
  permissions with a flag, yolo, force_unlock, extra arguments, parameters, jail flags,
  workspace and project. Left to the file, because the gate does not ask: workstream,
  new_workstream, fresh, the memory tuning (memory_profile, memory_env_file,
  memory_jail, memory_exit_prompt), container_environment, memory itself, and the
  directories of container_dependencies and container_tmux when only
  `--container-host-gateway` or its opposite turned the container on.
  What pre-flight lets through is accepted by the installed tools and
  carries what was set, or it is said (`AcceptedIsCarriedOut`). Left out of "accepted":
  unrestricted network that the operator declared by name (`networkOn`), or that is
  asked of an ai-jail 3 whose version could not be told (`NetworkForced`).

### What the code does otherwise than it says

A run whose name is listed here has one property, which quotes the repository,
and TLC refutes it.

| run | what happens |
|---|---|
| MCStoreStaleCatalog | Ctrl+S, then Ctrl+P: the profile save writes the catalog of start-up and drops the trust record just added (launch_flow.go:253) |
| MCReviewUnseen | one answer replaces files whose diff was not shown (container_flow.go:257) |
| MCCommandLineEnv | after the agent is changed or ai-memory turned on in the screen, the jail is given the variables of the selection the screen opened with (argv.go:292) |
| MCCommandLineContinue | "continue" with the container selected runs ai-memory on the host (build.go:171) |

The passing properties are stated so that what remains true is said exactly.
What they leave out, the code does not keep. The definitions named here are in the
modules; a property named with a run is refuted when it takes the
place of that run's properties (and of its VIEW), the others when the restriction
that is named is lifted:

- an unedited profile is run, fails, and is run again from the screen that opens:
  that screen knows of no profile, and the profile's options are written over the
  file's (`UneditedProfileKeepsFile`, MCLaunchSession; launch_flow.go:240);
- "keep the file's options" writes the block as the start has normalised it, say
  with the `docker` that the file's services imply, and after a Ctrl+S of the same
  session the block from before it (`KeptOptionsAreTheFiles`, MCLaunchSession;
  persistence_helpers.go:30, command_flow.go:70-71 and 289-295);
- the executable is upgraded while a launcher runs, which then names the image after
  the new one and fills it with the release it is itself of (`UpgradesReachTheImage`,
  MCExecution; launcher_binary.go:184 against 31-33);
- of a release list without a stable release a tag that does not parse wins over a
  version by its text, and of the prereleases of one core any may win
  (`HighestTagWins`, MCTools; selfupdate.go:426-438 against 150-152);
- an agent with a configured path is saved as that path, and the next start runs it
  as an agent the catalog does not know (`AgentIsReplayed`, MCCommandLine;
  persistence_helpers.go:26, catalog.go:87 against main.go:147-152);
- `--container-host-gateway` on an untrusted file with container_dependencies: the
  container is on and the directories are shared (`SharesAreConsented`,
  MCCommandLine; options.go:315, trust.go:159);
- the workstream of an untrusted file reaches the launch (`ScopesAreConsented`,
  MCCommandLine; trust.go:314-333);
- `jail_flags.network: true` with an API agent on ai-jail 3: pre-flight passes a
  `--network` that ai-jail refuses (`ApiAgentsAreFiltered`, MCCommandLine;
  argv.go:454 against 466-470 and jailcontract.go:423-425);
- artifacts and the approval ledger are written without the flush that
  fsatomic.go:85-87 explains: empty after a power loss (`NeverTorn` in MCFsAtomic
  with `Unflushed` not empty; build.go:265);
- two launchers that update one key of the global file each, or record an
  approval each, lose one of them: both read the document, change a part and
  write it whole (`OneKeyPerUpdate`, `OneApprovalPerSave` are checked for one
  launcher at a time; global_storage.go:171, compose_update.go:374);
- the trust record hashes what is on disk when it is made, not what the save
  wrote (`TrustOnlySaved` is checked with the editor quiet in between;
  global_storage.go:163);
- a recovery name is not cleared when the retry is a service stack
  (`RecoveryClearedOnSuccess` leaves stacks out; launch_flow.go:69), and when it
  is cleared, so is a name the operator typed after it was armed
  (launch_flow.go:105);
- the TUI's profile load does not touch `force_unlock`, which `--profile`
  replaces with the rest of the block (`LoadProfile`; profile_input.go:51-88);
- a plain generated file that only launchers wrote, for another selection,
  "has local changes" (`GeneratedNeverConflicts`, MCReview; compose_update.go:267);
- a launcher that becomes `docker run` does not remove its overlays, which may
  hold tokens (`OverlaysRemoved`, MCExecution, where `NothingLeftBehind` leaves `replaced`
  out; replace_unix.go:32 against execution.go:22-25);
- a script without the marks of an installer is written over the command before
  it is probed, and a failure then does not restore it (`FailureRestores`, MCTools;
  source.go:106 against design-decisions.md:502-503);
- a configuration file that was deleted does not start empty but from the copy a
  failed run has left (`StartsFromTheFile`, MCTools; install.go:562-563);
- a permission that the operator added to the catalog has no flag to consent
  with, and the gate leaves it to a normalisation that knows it
  (`GateIsRespected` assumes that there is none; trust.go:392);
- a file is refused over values that no launch would get: an option its
  agent does not support, mounts a flag has replaced (no property says so; trust.go against main.go:168-171).

Read in the code while modelling, and in the models as it is, without a property:

- on Windows, turning the container on and off leaves the jail on, whose row is
  not shown (tui.go:649-650), and pre-flight only warns; elsewhere jail and
  container may both be on after toggling the jail row;
- with an ai-jail 3 API agent egress is filtered by default, which
  `unrestrictedNetwork` (validation.go:978-986) and the check of the memory
  server do not know;
- `--continue` drops memory_profile and memory_env_file; the container drops
  fresh, scopes, workstream, memory_profile, env_file and jail flags: all without
  an issue;
- the scalar form of an options block forgets fresh, force_unlock and the memory
  tuning (`ScalarForgets`; schema.go:505-569); profiles do not hold the memory
  tuning (profiles.go:73-114);
- `--profile X --no-local-config` launches without the profile
  (`AppliedProfile`; launch_inputs.go:21-24), and `--docker-backend=false` does
  not stop resources or services of the file from turning the container on;
- an installer loads the state, downloads, and saves the state it loaded: two of
  them lose a row (installer.go:146; Installer is one at a time); an executable
  that someone else put at the target counts as the recorded release
  (`InstallIsCurrent`; installer.go:214).

### Fairness

Only Execution states it: weak fairness of `PtyMain` and of `PtyWatcher`, the
two goroutines of `RunWithEnv`, which the Go scheduler runs when they can run.
Nothing is assumed of agents, their helpers, the container runtime, the operator
or the image commands; that a session ends after a signal, or once nobody holds
the terminal and the agent is gone, follows without. In the other modules
nothing waits but for the operator or a program that need not answer, so they
state no fairness and no liveness.

## 4. Proofs

All theorems are for any constants that satisfy the modules' assumptions.

*FsAtomicProofs.* `TempInv` says what each writer's temporary is at each stage:
written after `Write`, protected after `Chmod`, flushed after `Sync` unless
the writer is one of `Unflushed`. Without it nothing is known of the file a
`Rename` puts in place. It gives `TypeCorrect` and `NoLitter`. `DiskInv` says
that `link` is durable and among `onDisk`, all of which are durable; it needs
`Unflushed = {}`, and a run with unflushed writers shows it must. `ReadersSeeWholeFiles`
and `PowerLossIsSafe` follow; `ImplementsAtomicFile` maps `Rename` to
`Replace`, `Writeback` to `Settle` and every other step to a stutter.

*ConfigStoreProofs.* `TypeCorrect` rests on lemmas about removing from and
cutting a sequence (`WithoutType`, `PartType`). For any number of launchers:

- `TrustIsProvenance` needs the two things a save leaves between its steps:
  `Written`, that at `probe`, `move` and `hash` the workspace's current file is
  one a launcher wrote there, and `Provenance`, that the row being recorded, the
  document being changed and every process' loaded copy hold only such rows - the
  copies because `SaveGlobal` writes them back. Assumed: nobody edits at those
  three steps.
- `MigrationKeepsBytes` needs `ChosenIsFree`: the backup name that a process has
  chosen is free until it renames, or the legacy file it would move is gone, since
  whoever took the name moved that very file. Assumed: nobody else creates a legacy file
  in between (`"move"` not in `EditableAt`).

For one launcher after another (any two processes are the same one), which the
run MCStoreAlone is too: `UpdatesTouchOneKey` and `NewestSaveIsTrusted` need
`ReadIsCurrent`, that a document read to be changed is still the one on disk; the
latter also assumes that no profile or agent is stored (`Names = {}`: the
catalog written back is the subject of MCStoreStaleCatalog). `HonouredIsSaved`
needs `LoadedIsCurrent`, that what was parsed is what is hashed, on top of
`Provenance`, and nobody editing from the load to the hash.

*LaunchSessionProofs.* `Inv` adds to the three invariants `RunSaved`, what the
file holds while an agent runs (a success is judged by the save before it), and
`CliUnarmed`, that a command-line session has no recovery name.

*ArtifactReviewProofs.* `Busy`: who records an approval has a file whose turn it
is. `Fresh`: a file the inspection found missing holds no hand-written bytes until
the launcher is done with it. From `Fresh`, a `Write` replaces hand-written
bytes only under "replace" (`HandEditsAreSafe`, for any number of launchers).
Assumed: nobody edits between inspection and last write. The other three are of
one launcher at a time. `DecisionsAreKept` needs `Materializing`: the files still
to do are listed once each; every other file in scope is as rendered or approved
as it is; a file to do that was inspected is as it was found, and in conflict
exactly if it was; the approval to be recorded is of the bytes on disk. That a
name is not listed twice is `PlainNamesDiffer`, and `ApproveSettles` says what one
approval does to all others, the legacy entry's included. The two that do not
compare files hold whoever edits them: `ApprovalsAreSavedOneByOne` needs
`LedgerIsCurrent`, `PolicyFollowsSelection` needs `PolicyIsDue` (the policy is the
selection's, or the Compose file is still to be inspected).

*PreflightProofs.* `AcceptedLaunches`: whatever passes pre-flight is carried out, with the exception of
`NetworkForced`.
Assumed of the constants: a launch starts with nothing probed and no flag in two
states at once (`StartsAssumption`), and an installed ai-memory has a version
(`WorldsAssumption`); nothing is assumed of the values of the versions, of the
faults or of the number of edits. The inductive
invariant is `PreflightInv`: besides the property, that what was probed and kept
is what the host has (`Consistent`: the versions survive the edits, and a
selection turned on later must not be judged by another host) and that the two
states of a flag stay exclusive. For one confirmation the argument meets in the
middle: from "no fatal issue" a selection meets the floor of everything it sets
(the lemmas `...Meets`); the builder puts an option into the command only above
its floor (`...Floor`), and above it the tool knows it. Where the builder decides
between options (network, hosts, docker, agent state) a lemma per decision says
which it takes.

*ExecutionProofs.* `StepCases` sorts the steps of Next; each invariant then has one
step per group. `SessionInv` says what each place of `RunWithEnv` knows of the
copy's error, the agent and its helper: an `eio` means that nobody holds the
terminal and that all output was passed on, and from `wait` on a real copy error
means that the group is dead. It gives `SessionsLeaveNobody` and, with `HeardInv`
(where a signal that was caught is remembered: the context, the run's error, the
result), `SuccessIsHonest`. `TemporariesRemoved` and `StacksComeDown` rest on which
phases can hold a temporary file or an undecided stack. `CopiesAreCurrent` follows
the launcher of an image from the executable to the tag (`ImageInv`: a tag is never
newer than the executable, a copy never older than the tag it will be stored under);
compiled and downloaded launchers go the same way and are let go by the property. The
versions are any numbers, the hosts any of `Hosts`, the signals any number.

*ToolsProofs.* The three tools, each of its own specification, and `TypeCorrect`
of all three together.

- SelfUpdate: `SwapInv` says at each step of the swap where the whole executable
  is. It gives `AnExecutableSurvives`. `UpgradesToTheHighestCore` needs of the sort
  only that neighbours are not the wrong way round: where all tags that are weighed
  parse, comparing cores is an order, so the last of the list has the highest core
  (`LastIsHighest`). No bound on the suffixes, the texts or the order of publication.
- MemoryWiring: `CopyInv` says at each step which of the two files is the copy of
  what was found (`WiringIsSafe`).
- Installer: `RestoreInv` (what a restore would put back is what was found),
  `CommandInv` and `ReleaseInv` (what is in the place at each step and in the row
  to be saved), `RecipeInv` (what a recorded script stands for), together
  `InstallInv`; for `FailedInstallsRestore`, `SourcesGiveCommands`, `ReportsAreTrue`.

*SelectionProofs.* `SavedRunsAgain`: what `Resolve` returns is `Settled` (each
demand of the resolution holds of it already), and resolving a settled launch from
its own projection gives it back, but for the entry of a command that the catalog
does not know (`Replay`); so
for the file as saved, which stays what it was as long as it is the recorded one
(`SavedIsResolved`). Permissions need that requirements are a closure: closing twice
is closing once. `GateIsRespected`: if no reason to refuse is found, what the gate
asks about comes from a flag, the profile or a default (`LaunchConsented`); a reason
that exists is found because the first of a set of ranked reasons exists. It proves
`ConsentHolds` with the exceptions that section 3 lists. Assumed: every permission of
the catalog has a flag or is on by default, which the built-in catalog satisfies
(defaults.go:116-137). `TypeCorrect` adds Preflight's part.

That a set of numbers has a least member (`LeastNumber`) is proved from
well-foundedness of the order, without induction.

Assumptions on the constants say that markers are no values (`NoTagIsNoTag`,
`NothingIsNothing`, `NeitherIsAContent`, `MarkersAreNoContents`), that the flags and
their values are in the tables (`FlagsAssumption`), and that counts are numbers,
with at least one release (`TagBounds`); that normalising twice is normalising once
(`NormalIsNormal`), that hosts, texts and tables are of their shapes
(`BuildHostsAreHosts`, `TextsAreRanked`, `CatalogAssumption`). TLC evaluates them in the
runs.

Only model-checked: the liveness of MCExecution (`CancelEndsSession`,
`AgentEndsSession`), since the prover knows neither fairness nor ENABLED. Every
invariant and action property of a passing run has its theorem. The model-checked
refutations (section 3) are not theorems either.

## 5. Not modelled

- Text: parsing, rendering, diffs, messages. Screens, cursors, text inputs.
- Compose and `docker run` rendering: service and port resolution, host gateway,
  mounts of the image: functions of a fixed catalog without state.
- Jail policy over paths: the table of sensitive paths, worktree discovery,
  agent mounts and their order in the argument vector.
- Archive extraction, the bubblewrap package, the network reports of `sources`.
- Schema 2.0 trust rows and the merge of catalog defaults on load of the global
  file; single values of options.
- Which container runtime answers, context flags and remote daemons.
- Real file-system semantics below rename, fsync and "exists".
- The Windows executor, which kills one process where Unix kills a group.

## 6. Plan

1. `ServicePlan`: the closure over service dependencies, port allocation and the
   egress policy of a stack, against a reference definition.
2. Proofs: what two launchers at once keep of the single-process results (an
   approval or a key is lost only to another's write); that ConfigStore with
   `EditableAt = {}` implements a store that saves and records in one step.
3. `LinkWalk`: the symbolic-link walk of the jail with its depth bound, as a
   recursive function over small link maps.
4. Two installers at once over one state file, with the row each loses.

------------------------------ MODULE ToolsProofs ------------------------------
(***************************************************************************)
(* Upgrades, wiring and installs for any releases, settings and scripts:   *)
(* what is in place after they have failed or been killed, and what they   *)
(* say is there.                                                           *)
(***************************************************************************)
EXTENDS MCTools, SequenceTheorems, FiniteSetTheorems, WellFoundedInduction, TLAPS

\* The least number of a set of numbers.
LEMMA LeastNumber ==
  ASSUME NEW S \in SUBSET Nat, S # {}
  PROVE  \E m \in S : \A k \in S : m <= k
<1> DEFINE R == {x \in Nat \X Nat : x[1] < x[2]}
<1>1. IsWellFoundedOn(R, Nat)
  BY NatLessThanWellFounded, Zenon DEF OpToRel
<1>2. \A m, k \in S : <<k, m>> \notin R => m <= k
  OBVIOUS
<1> HIDE DEF R
<1>3. \E m \in S : \A k \in S : <<k, m>> \notin R
  BY <1>1, WFMin
<1> QED
  BY <1>2, <1>3

-----------------------------------------------------------------------------
(***************************************************************************)
(* Upgrades.                                                               *)
(***************************************************************************)

LEMMA TagParts ==
  ASSUME NEW t \in Tags
  PROVE  t[1] \in Nat /\ t[2] \in Nat
BY TagBounds DEF Tags

LEMMA ReleaseParts ==
  ASSUME releases \in Seq(Tags)
  PROVE  /\ Len(releases) \in Nat /\ DOMAIN releases = 1..Len(releases)
         /\ \A i \in DOMAIN releases : releases[i] \in Tags
BY LenProperties, ElementOfSeq

\* A sorted list has every tag that was to be sorted, and if they all parse none
\* has a higher core than the last one: of the positions of higher cores the
\* greatest would come right before a lower core.
LEMMA LastIsHighest ==
  ASSUME releases \in Seq(Tags), NEW kept \in SUBSET DOMAIN releases, kept # {},
         NEW sorted \in SortedTags(kept)
  PROVE  /\ LastOfSorted(sorted) \in {releases[i] : i \in kept}
         /\ (\A i \in kept : Parses(releases[i]))
              => \A i \in kept : releases[i][1] <= LastOfSorted(sorted)[1]
<1> DEFINE n == Cardinality(kept)
<1>1. PICK at \in [1..n -> kept] :
         /\ sorted = [k \in DOMAIN at |-> releases[at[k]]]
         /\ \A i \in kept : \E k \in DOMAIN at : at[k] = i
         /\ \A k \in DOMAIN at : k + 1 \in DOMAIN at =>
               CompareTags(releases[at[k + 1]], releases[at[k]]) # -1
  BY DEF SortedTags
<1>2. n \in Nat
  <2>1. IsFiniteSet(1..Len(releases)) /\ kept \subseteq 1..Len(releases)
    BY ReleaseParts, FS_Interval
  <2> QED
    BY <2>1, FS_Subset, FS_CardinalityType
<1> HIDE DEF n
<1>3. DOMAIN at = 1..n /\ n \in 1..n
  <2>1. PICK i \in kept : TRUE
    OBVIOUS
  <2>2. PICK k \in 1..n : at[k] = i
    BY <1>1, <2>1
  <2> QED
    BY <1>1, <1>2, <2>2
<1>4. Len(sorted) = n /\ sorted[n] = releases[at[n]]
  <2>1. DOMAIN sorted = 1..n /\ sorted = [k \in 1..n |-> releases[at[k]]]
    BY <1>1, <1>3
  <2>2. sorted \in Seq(Tags)
    <3>1. \A k \in 1..n : releases[at[k]] \in Tags
      BY <1>1, ReleaseParts
    <3> QED
      BY <1>2, <2>1, <3>1
  <2> QED
    BY <1>2, <1>3, <2>1, <2>2, LenProperties
<1>5. LastOfSorted(sorted) = releases[at[n]] /\ at[n] \in kept
  BY <1>1, <1>3, <1>4 DEF LastOfSorted
<1>6. ASSUME \A i \in kept : Parses(releases[i])
      PROVE  \A i \in kept : releases[i][1] <= releases[at[n]][1]
  <2> DEFINE core(k) == releases[at[k]][1]
             above == {k \in 1..n : core(k) > core(n)}
             back == {n - k : k \in above}
  <2>1. \A k \in 1..n : core(k) \in Nat
    BY <1>1, ReleaseParts, TagParts
  <2>2. \A k \in 1..n : k + 1 \in 1..n => core(k) <= core(k + 1)
    <3> SUFFICES ASSUME NEW k \in 1..n, k + 1 \in 1..n PROVE core(k) <= core(k + 1)
      OBVIOUS
    <3>1. CompareTags(releases[at[k + 1]], releases[at[k]]) # -1
      BY <1>1, <1>3
    <3>2. Parses(releases[at[k + 1]]) /\ Parses(releases[at[k]])
      BY <1>1, <1>6
    <3>3. ~(core(k + 1) < core(k))
      BY <3>1, <3>2 DEF CompareTags
    <3> QED
      BY <2>1, <3>3
  <2>3. above = {}
    <3> SUFFICES ASSUME above # {} PROVE FALSE
      OBVIOUS
    <3>1. back \in SUBSET Nat /\ back # {}
      BY <1>2
    <3>2. PICK m \in back : \A b \in back : m <= b
      <4> HIDE DEF back
      <4> QED
        BY <3>1, LeastNumber
    <3>3. PICK k \in above : m = n - k
      BY <3>2
    <3>4. k \in 1..n /\ core(k) > core(n) /\ k # n
      BY <1>3, <2>1, <3>3
    <3>5. k + 1 \in 1..n
      BY <1>2, <3>4
    <3>6. core(k + 1) > core(n)
      <4>1. core(k) <= core(k + 1)
        BY <2>2, <3>4, <3>5
      <4>2. core(k) \in Nat /\ core(k + 1) \in Nat /\ core(n) \in Nat
        BY <1>3, <2>1, <3>4, <3>5
      <4> HIDE DEF core
      <4> QED
        BY <3>4, <4>1, <4>2
    <3>7. n - (k + 1) \in back
      BY <3>5, <3>6
    <3>8. n - k <= n - (k + 1)
      <4> HIDE DEF back
      <4> QED
        BY <3>2, <3>3, <3>7
    <3> QED
      BY <1>2, <3>4, <3>8
  <2> SUFFICES ASSUME NEW i \in kept PROVE releases[i][1] <= releases[at[n]][1]
    OBVIOUS
  <2>4. PICK k \in 1..n : at[k] = i
    BY <1>1, <1>3
  <2>5. ~(core(k) > core(n))
    BY <2>3
  <2> QED
    BY <1>3, <2>1, <2>4, <2>5
<1> QED
  BY <1>5, <1>6

\* Among the releases that are no prereleases the first is the one before which
\* there is none.
LEMMA FirstStable ==
  ASSUME releases \in Seq(Tags), NEW t \in Listed, Stable(t)
  PROVE  \E i \in DOMAIN releases :
            /\ i = (CHOOSE x \in DOMAIN releases :
                       /\ Stable(releases[x]) /\ \A j \in 1..(x - 1) : ~Stable(releases[j]))
            /\ Stable(releases[i]) /\ \A j \in 1..(i - 1) : ~Stable(releases[j])
<1> DEFINE all == {x \in DOMAIN releases : Stable(releases[x])}
<1>1. all \in SUBSET Nat /\ all # {} /\ DOMAIN releases = 1..Len(releases) /\ Len(releases) \in Nat
  BY ReleaseParts DEF Listed
<1>2. PICK m \in all : \A k \in all : m <= k
  <2> HIDE DEF all
  <2> QED
    BY <1>1, LeastNumber
<1>3. m \in DOMAIN releases /\ Stable(releases[m]) /\ \A j \in 1..(m - 1) : ~Stable(releases[j])
  BY <1>1, <1>2
<1> QED
  BY <1>3

\* The newest of the stable releases.
LEMMA EndpointGivesStable ==
  ASSUME UpdateTypeOK, FetchLatestFromEndpoint, \E t \in Listed : Stable(t)
  PROVE  tag' \in Tags /\ update' = "check"
<1> DEFINE first(x) == /\ Stable(releases[x]) /\ \A j \in 1..(x - 1) : ~Stable(releases[j])
<1>1. PICK i \in DOMAIN releases :
         i = (CHOOSE x \in DOMAIN releases : first(x)) /\ first(i)
  BY FirstStable DEF UpdateTypeOK
<1>2. tag' = releases[i] /\ update' = "check"
  BY <1>1 DEF FetchLatestFromEndpoint
<1> QED
  BY <1>2, ReleaseParts DEF UpdateTypeOK

\* The tag comes from the list, is stable if one there is, and has the highest
\* core if all its rivals parse.
LEMMA ListGivesHighest ==
  ASSUME UpdateTypeOK, releases # <<>>, FetchLatestFromList
  PROVE  tag' \in Tags /\ offered' \subseteq Tags /\ HighestCoreWins'
<1> DEFINE stable == {i \in DOMAIN releases : Stable(releases[i])}
           kept == IF stable # {} THEN stable ELSE DOMAIN releases
<1>1. DOMAIN releases = 1..Len(releases) /\ Len(releases) \in Nat
      /\ \A x \in DOMAIN releases : releases[x] \in Tags
  BY ReleaseParts DEF UpdateTypeOK
<1>2. DOMAIN releases # {}
  <2>1. Len(releases) \in Nat \ {0}
    BY EmptySeq DEF UpdateTypeOK
  <2> QED
    BY <1>1, <2>1
<1>3. kept \in SUBSET DOMAIN releases /\ kept # {}
  BY <1>2
<1>4. PICK sorted \in SortedTags(kept) : tag' = LastOfSorted(sorted)
  BY DEF FetchLatestFromList
<1>5. offered' = Listed
  BY DEF FetchLatestFromList
<1>6. \A i \in DOMAIN releases, j \in kept :
         i \in kept <=> (Stable(releases[i]) <=> Stable(releases[j]))
  OBVIOUS
<1>7. \A t \in Listed, j \in kept : Stable(t) => Stable(releases[j])
  BY DEF Listed
<1> HIDE DEF kept
<1>8. /\ tag' \in {releases[i] : i \in kept}
      /\ (\A i \in kept : Parses(releases[i])) => \A i \in kept : releases[i][1] <= tag'[1]
  BY <1>3, <1>4, LastIsHighest DEF UpdateTypeOK
<1>9. PICK j \in kept : tag' = releases[j]
  BY <1>8
<1>10. tag' \in Listed /\ Listed \subseteq Tags
  BY <1>1, <1>3, <1>9 DEF Listed
<1>11. Rivals' = {releases[i] : i \in kept}
  <2>1. Rivals' = {t \in Listed : Stable(t) <=> Stable(releases[j])}
    BY <1>5, <1>9 DEF Rivals, Stable
  <2> QED
    BY <1>3, <1>6, <2>1 DEF Listed
<1> QED
  BY <1>5, <1>7, <1>8, <1>9, <1>10, <1>11 DEF HighestCoreWins, Stable

\* What an upgrade has and has moved at each of its steps.
SwapInv ==
    /\ releases # <<>>
    /\ update \in {"check", "download", "swap", "aside", "in", "rollback"} => tag \in Tags
    /\ update = "swap" => archive \in Tags
    /\ update \in {"resolve", "list"} => offered = {}
    /\ update \in {"aside", "in", "rollback"} => windows
    /\ update \in {"aside", "in"} => tmp \in Tags
    /\ update \notin {"off", "in", "rollback"} => exe = runs
    /\ update \in {"in", "rollback"} => exe = NoTag /\ old = runs
    /\ update = "off" => exe # NoTag \/ (mishap /\ windows /\ old \in Tags)

UpdateInv == UpdateTypeOK /\ SwapInv /\ HighestCoreWins

LEMMA PublishKeepsInv ==
  ASSUME UpdateInv, NEW t \in Tags, PublishRelease(t)
  PROVE  UpdateInv'
<1>1. /\ Len(releases) \in Nat /\ releases \in Seq(Tags)
  BY ReleaseParts DEF UpdateInv, UpdateTypeOK
<1>2. releases' = <<t>> \o releases
  BY DEF PublishRelease
<1>3. <<t>> \in Seq(Tags) /\ Len(<<t>>) = 1
  OBVIOUS
<1>4. releases' \in Seq(Tags) /\ Len(releases') = 1 + Len(releases)
  BY <1>1, <1>2, <1>3, ConcatProperties
<1>5. releases' # <<>> /\ Len(releases') <= MaxReleases
  BY <1>1, <1>4, TagBounds, EmptySeq DEF PublishRelease
<1>6. UNCHANGED <<windows, exe, old, tmp, runs, update, tag, archive, offered, mishap, updated>>
  BY DEF PublishRelease
<1> QED
  BY <1>4, <1>5, <1>6 DEF UpdateInv, UpdateTypeOK, SwapInv, HighestCoreWins, Rivals

\* Choosing the tag.
LEMMA ResolveStep ==
  ASSUME UpdateInv, RunUpgrade \/ FetchLatestFromEndpoint \/ FetchLatestFromList
  PROVE  UpdateInv'
<1> USE DEF UpdateInv, UpdateTypeOK, SwapInv, Executables
<1>1. CASE RunUpgrade
  BY <1>1 DEF RunUpgrade, HighestCoreWins
<1>2. CASE FetchLatestFromEndpoint
  <2>1. update' = "check" => tag' \in Tags
    <3>1. CASE \E t \in Listed : Stable(t)
      BY <1>2, <3>1, EndpointGivesStable
    <3>2. CASE ~\E t \in Listed : Stable(t)
      BY <1>2, <3>2 DEF FetchLatestFromEndpoint
    <3> QED
      BY <3>1, <3>2
  <2>2. /\ UNCHANGED <<releases, windows, exe, old, tmp, runs, archive, offered, mishap, updated>>
        /\ update = "resolve" /\ update' \in {"check", "list"}
        /\ update' = "list" => tag' = tag
    BY <1>2 DEF FetchLatestFromEndpoint
  <2>3. offered = {}
    BY <2>2
  <2>4. HighestCoreWins'
    BY <2>2, <2>3 DEF HighestCoreWins
  <2> QED
    BY <2>1, <2>2, <2>3, <2>4
<1>3. CASE FetchLatestFromList
  <2>1. tag' \in Tags /\ offered' \subseteq Tags /\ HighestCoreWins'
    BY <1>3, ListGivesHighest
  <2>2. UNCHANGED <<releases, windows, exe, old, tmp, runs, archive, mishap, updated>>
        /\ update = "list" /\ update' = "check"
    BY <1>3 DEF FetchLatestFromList
  <2> QED
    BY <2>1, <2>2
<1> QED
  BY <1>1, <1>2, <1>3

\* Everything after it.
LEMMA SwapStep ==
  ASSUME UpdateInv,
         \/ \E s \in {"resolve", "list", "download", "swap"} : UpdateFails(s)
         \/ CheckVersion \/ Download \/ ReplaceExecutable \/ WriteBeside
         \/ MoveAside \/ MoveIn \/ Rollback \/ UpdateKilled \/ Recover
  PROVE  UpdateInv'
<1> USE NoTagIsNoTag
    DEF UpdateInv, UpdateTypeOK, SwapInv, HighestCoreWins, Rivals, Executables, UpdateEnds
<1>1. CASE \E s \in {"resolve", "list", "download", "swap"} : UpdateFails(s)
  BY <1>1 DEF UpdateFails
<1>2. CASE CheckVersion
  BY <1>2 DEF CheckVersion
<1>3. CASE Download
  BY <1>3 DEF Download, VerifiedArchive
<1>4. CASE ReplaceExecutable
  BY <1>4 DEF ReplaceExecutable
<1>5. CASE WriteBeside
  BY <1>5 DEF WriteBeside
<1>6. CASE MoveAside
  BY <1>6 DEF MoveAside
<1>7. CASE MoveIn
  BY <1>7 DEF MoveIn
<1>8. CASE Rollback
  BY <1>8 DEF Rollback
<1>9. CASE UpdateKilled
  BY <1>9 DEF UpdateKilled
<1>10. CASE Recover
  BY <1>10 DEF Recover
<1> QED
  BY <1>1, <1>2, <1>3, <1>4, <1>5, <1>6, <1>7, <1>8, <1>9, <1>10

LEMMA UpdateInvStep ==
  ASSUME UpdateInv, UpdateNext
  PROVE  UpdateInv'
<1>1. CASE \E t \in Tags : PublishRelease(t)
  BY <1>1, PublishKeepsInv
<1>2. CASE RunUpgrade \/ FetchLatestFromEndpoint \/ FetchLatestFromList
  BY <1>2, ResolveStep
<1>3. CASE \E s \in {"resolve", "list", "download", "swap"} : UpdateFails(s)
  BY <1>3, SwapStep
<1>4. CASE \/ CheckVersion \/ Download \/ ReplaceExecutable \/ WriteBeside
           \/ MoveAside \/ MoveIn \/ Rollback \/ UpdateKilled \/ Recover
  BY <1>4, SwapStep
<1> QED
  BY <1>1, <1>2, <1>3, <1>4 DEF UpdateNext

LEMMA UpdateStutter ==
  ASSUME UpdateInv, UNCHANGED updateVars
  PROVE  UpdateInv'
BY DEF updateVars, UpdateInv, UpdateTypeOK, SwapInv, HighestCoreWins, Rivals

LEMMA UpdateInvInit == UpdateInit => UpdateInv
<1> SUFFICES ASSUME UpdateInit PROVE UpdateInv
  OBVIOUS
<1>1. PICK t \in Tags : exe = t /\ releases = <<t>>
  BY DEF UpdateInit
<1>2. releases \in Seq(Tags) /\ Len(releases) = 1 /\ releases # <<>>
  BY <1>1
<1>4. Len(releases) <= MaxReleases
  BY <1>2, TagBounds
<1>5. UpdateTypeOK
  BY <1>1, <1>2, <1>4 DEF UpdateInit, UpdateTypeOK, Executables
<1>6. SwapInv
  BY <1>1, <1>2, NoTagIsNoTag DEF UpdateInit, SwapInv, Executables
<1>7. HighestCoreWins
  BY DEF UpdateInit, HighestCoreWins
<1> QED
  BY <1>2, <1>5, <1>6, <1>7 DEF UpdateInv

\* At every moment of every upgrade there is a whole executable, failures and
\* kills included; if a swap was cut short there is none but the one moved aside.
THEOREM AnExecutableSurvives == UpdateSpec => []ExecutableSurvives
<1>1. UpdateInv /\ [UpdateNext]_updateVars => UpdateInv'
  BY UpdateInvStep, UpdateStutter
<1>2. UpdateInv => ExecutableSurvives
  BY NoTagIsNoTag DEF UpdateInv, UpdateTypeOK, SwapInv, ExecutableSurvives, Executables
<1> QED
  BY <1>1, <1>2, UpdateInvInit, PTL DEF UpdateSpec

\* From the release list an upgrade takes a stable release if there is one, and of
\* tags that all parse one of the highest X.Y.Z: for any releases published in
\* any order, whatever sort.Slice does with tags it is told are equal.
THEOREM UpgradesToTheHighestCore == UpdateSpec => []HighestCoreWins
<1>1. UpdateInv /\ [UpdateNext]_updateVars => UpdateInv'
  BY UpdateInvStep, UpdateStutter
<1>2. UpdateInv => HighestCoreWins
  BY DEF UpdateInv
<1> QED
  BY <1>1, <1>2, UpdateInvInit, PTL DEF UpdateSpec

-----------------------------------------------------------------------------
(***************************************************************************)
(* Wiring.                                                                 *)
(***************************************************************************)

\* The file as it was copied, after ai-memory has been at it.
HasMemory(content) ==
    /\ content \in Contents /\ Kept(seed) \cup {"memory"} \subseteq content
    /\ seed \notin {Absent, Torn} => content = seed \cup {"memory"}

\* As long as the agent leaves its file alone: the copy follows it, unless there is
\* no file, and then the copy is that of an earlier run.
CopyInv ==
    ~edited /\ style[file] = "staged" =>
        /\ wiring \in {"run", "truncate"} => config[file] = seed
        /\ wiring = "run" /\ seed # Absent => staging[file] = seed
        /\ wiring \in {"truncate", "publish"} => HasMemory(staging[file])
        /\ wiring = "remove" => HasMemory(config[file])

WiringInv == WiringTypeOK /\ CopyInv

LEMMA MemoryIsAdded ==
  ASSUME NEW content \in Contents \cup {Absent, Torn}
  PROVE  /\ WithMemory(content) \in Contents
         /\ seed \in Contents \cup {Absent, Torn} /\ (seed # Absent => content = seed)
               => HasMemory(WithMemory(content))
BY NeitherIsAContent DEF WithMemory, HasMemory, Kept, Contents

LEMMA WiringInvStep ==
  ASSUME WiringInv, WiringNext
  PROVE  WiringInv'
<1> USE DEF WiringInv, WiringTypeOK, CopyInv, NextFile, WiringFails
<1> file \in ConfigFiles /\ ConfigFiles = {"mcp", "hooks"}
  BY DEF ConfigFiles
<1>1. CASE \E installed \in BOOLEAN : WireMemoryTargets(installed)
  BY <1>1 DEF WireMemoryTargets, HasMemory
<1>2. CASE SkipFile
  BY <1>2 DEF SkipFile, HasMemory
<1>3. CASE PrepareMemoryConfigFile
  BY <1>3, ZenonT(30) DEF PrepareMemoryConfigFile, CopyConfigToStaging, HasMemory
<1>4. CASE RunMemoryCommand
  <2>1. PICK ok, edits \in BOOLEAN :
          /\ ok => edits
          /\ IF style[file] = "staged"
             THEN /\ staging' = IF edits THEN [staging EXCEPT ![file] = WithMemory(@)] ELSE staging
                  /\ UNCHANGED config
             ELSE /\ config' = IF edits THEN [config EXCEPT ![file] = WithMemory(@)] ELSE config
                  /\ UNCHANGED staging
          /\ CASE ~ok -> WiringFails /\ UNCHANGED file
               [] ok /\ style[file] = "staged" -> wiring' = "truncate" /\ UNCHANGED <<file, wired>>
               [] OTHER -> NextFile
    BY <1>4 DEF RunMemoryCommand
  <2>2. wiring = "run" /\ UNCHANGED <<style, seed, edited>>
    BY <1>4 DEF RunMemoryCommand
  <2>3. CASE ~ok
    BY <2>1, <2>2, <2>3, MemoryIsAdded
  <2>4. CASE ok /\ style[file] = "staged"
    BY <2>1, <2>2, <2>4, MemoryIsAdded DEF HasMemory
  <2>5. CASE ok /\ style[file] # "staged"
    BY <2>1, <2>2, <2>5, MemoryIsAdded
  <2> QED
    BY <2>3, <2>4, <2>5
<1>5. CASE TruncateConfig
  BY <1>5 DEF TruncateConfig, HasMemory
<1>6. CASE PublishStagedConfig
  BY <1>6 DEF PublishStagedConfig, HasMemory
<1>7. CASE RemoveStaging
  BY <1>7 DEF RemoveStaging, HasMemory
<1>8. CASE WiringKilled
  BY <1>8 DEF WiringKilled, HasMemory
<1>9. CASE \E f \in ConfigFiles : AgentEdits(f)
  <2>1. PICK f \in ConfigFiles, content \in {Absent} \cup SUBSET Settings :
             config' = [config EXCEPT ![f] = content]
    BY <1>9 DEF AgentEdits
  <2>2. PICK g \in ConfigFiles : edited' = (edited \/ g = file) /\ AgentEdits(g)
    BY <1>9 DEF AgentEdits
  <2>3. UNCHANGED <<staging, style, wiring, file, wired, seed>>
    BY <1>9 DEF AgentEdits
  <2>4. edited' \in BOOLEAN /\ (edited' <=> edited \/ g = file)
    BY <2>2, Zenon
  <2>5. content \in Contents \cup {Absent, Torn}
    BY DEF Contents
  <2>6. WiringTypeOK'
    BY <2>1, <2>3, <2>4, <2>5
  <2>7. g # file => config'[file] = config[file]
    BY <2>2 DEF AgentEdits
  <2>8. CopyInv'
    BY <2>3, <2>4, <2>7 DEF HasMemory
  <2> QED
    BY <2>6, <2>8
<1> QED
  BY <1>1, <1>2, <1>3, <1>4, <1>5, <1>6, <1>7, <1>8, <1>9 DEF WiringNext

LEMMA WiringInvInit == WiringInit => WiringInv
BY DEF WiringInit, WiringInv, WiringTypeOK, CopyInv, ConfigFiles, Contents

LEMMA WiringStutter ==
  ASSUME WiringInv, UNCHANGED wiringVars
  PROVE  WiringInv'
BY DEF wiringVars, WiringInv, WiringTypeOK, CopyInv, HasMemory

\* As long as the agent leaves its file alone, ai-memory works on a copy of it: the
\* file is as it was until the copy is published, and what is published has every
\* setting of it, whatever copies earlier runs, failed or killed, have left.
THEOREM WiringIsSafe == WiringSpec => []WiringKeepsSettings
<1>1. WiringInv /\ [WiringNext]_wiringVars => WiringInv'
  BY WiringInvStep, WiringStutter
<1>2. WiringInv => WiringKeepsSettings
  BY NeitherIsAContent
     DEF WiringInv, WiringTypeOK, CopyInv, HasMemory, WiringKeepsSettings, StartsFromTheFile,
         Published, Kept
<1> QED
  BY <1>1, <1>2, WiringInvInit, PTL DEF WiringSpec
-----------------------------------------------------------------------------
(***************************************************************************)
(* Installs.                                                               *)
(***************************************************************************)

ReleaseSteps == {"resolve", "load", "download", "write", "save"}
SourceSteps == {"fetch", "existing", "store", "probe", "clear", "run", "judge", "reload", "record"}
Recipe == {Script(s, n) : s \in ScriptShapes, n \in Numbers \ {0}}
ReleasesOut == {Release(n) : n \in Numbers \ {0}}

Vouched == recipe.sums # "none" \/ ~recipe.allowUnverified

\* A run goes one of the two ways, and what it handles was published on it.
WayInv ==
    /\ step \in ReleaseSteps => recipe.way = "release"
    /\ step \in SourceSteps => recipe.way = "source"
    /\ recipe.way = "release" =>
          /\ latest \in ReleasesOut
          /\ data = Nothing \/ data \in ReleasesOut \/ data \in {Damaged(n) : n \in Numbers \ {0}}
          /\ Vouched => data \in ReleasesOut \cup {Nothing}
    /\ recipe.way = "source" => latest \in Recipe /\ data \in Recipe \cup {Nothing}
    /\ step \notin {"off", "resolve", "fetch"} => data # Nothing

\* What was at the target is still there, or is kept aside.
RestoreInv ==
    LET recognized == LooksLikeInstaller(data) \/ data.from # "script"
    IN  /\ step \in {"resolve", "load", "download", "write", "fetch", "existing", "store"} =>
              disk["home"] = found
        /\ step = "probe" => ~recognized
        /\ step = "clear" /\ recognized => disk["home"] = found
        /\ step \in {"run", "judge"} /\ recognized => previous = found

IsCommand(p) ==
    Answers(disk[p]) /\ (disk[p].from = "script" => ~LooksLikeInstaller(disk[p]))

\* No script comes into a place but by StoreWrapper, and none that looks like an
\* installer is there when its product is judged.
CommandInv ==
    recipe.way = "source" =>
        /\ \A p \in Places : disk[p] # Nothing => disk[p].from # "damaged"
        /\ previous # Nothing => previous.from # "damaged"
        /\ disk["system"] # Nothing => disk["system"].from # "script"
        /\ step = "probe" => disk["home"] = data /\ ~LooksLikeInstaller(data)
        /\ step \in {"run", "judge"} /\ disk["home"] # Nothing =>
              disk["home"].from # "script" \/ ~LooksLikeInstaller(disk["home"])
        /\ step \in {"reload", "record"} =>
              /\ record # Nothing /\ IsCommand(record.at)
              /\ status \in {"installed", "current"}

\* Releases only go up: a row never names a later one than the file it is about,
\* and both are older than what has been published, or resolved.
ReleaseInv ==
    recipe.way = "release" /\ Vouched =>
        /\ \A p \in Places :
              /\ disk[p] # Nothing => disk[p].n <= latest.n
              /\ rows[p] # Nothing =>
                    /\ rows[p].kind = "release" /\ rows[p].of = Release(rows[p].of.n)
                    /\ rows[p].of.n <= latest.n
                    /\ disk[p] # Nothing =>
                          disk[p] = Release(disk[p].n) /\ rows[p].of.n <= disk[p].n
        /\ step \in {"load", "download", "write", "save"} =>
              /\ data.n <= latest.n
              /\ \A p \in Places : /\ disk[p] # Nothing => disk[p].n <= data.n
                                   /\ rows[p] # Nothing => rows[p].of.n <= data.n
        /\ step \in {"download", "write", "save"} => loaded = rows
        /\ step = "save" => /\ disk[place] = data
                            /\ record = [kind |-> "release", at |-> place, of |-> data]
        /\ step = "off" /\ outcome \in {"installed", "current"} => disk[place] = Release(data.n)

\* A script in the place of a command whose row says it was produced.
Follows(command) ==
    command # Nothing /\ IsScript(command) /\ rows["home"] # Nothing /\ rows["home"].kind = "installer" =>
        rows["home"].of.n <= command.n

\* The same of scripts and what they produce, as long as vendors put it at home.
RecipeInv ==
    recipe.way = "source" /\ ~strayed =>
        /\ disk["home"] # Nothing => disk["home"].n <= latest.n
        /\ previous # Nothing => previous.n <= latest.n
        /\ rows["home"] # Nothing => rows["home"].of.n <= latest.n
        /\ data # Nothing => data.n <= latest.n
        /\ Follows(disk["home"])
        /\ step \in SourceSteps \ {"fetch"} /\ rows["home"] # Nothing => rows["home"].of.n <= data.n
        /\ step = "existing" /\ disk["home"] # Nothing => disk["home"].n <= data.n
        /\ step \in {"run", "judge"} => Follows(previous)
        /\ step = "run" => disk["home"] \in {previous, Nothing}
        /\ step = "judge" => \/ disk["home"] \in {previous, Nothing}
                             \/ disk["home"].n = data.n
        /\ step \in {"reload", "record"} =>
              /\ record.of = data
              /\ status = "current" => disk["home"] # Nothing
              /\ disk["home"] # Nothing /\ IsScript(disk["home"]) => disk["home"].n = data.n
        /\ step = "off" /\ outcome = "current" =>
              disk["home"] # Nothing /\ (IsScript(disk["home"]) => disk["home"].n = data.n)

InstallInv ==
    /\ InstallTypeOK /\ WayInv /\ RestoreInv /\ CommandInv /\ ReleaseInv /\ RecipeInv
    /\ RecognizedFailureRestores /\ SuccessIsACommand

LEMMA FileFacts ==
  /\ \A f \in Files : /\ f.text \in Texts /\ f.says \in Sayings /\ f.n \in Numbers
                      /\ f.from \in {"user", "script", "product", "release", "damaged"}
  /\ \A n \in Numbers : /\ Release(n) \in Files /\ Release(n).n = n /\ Release(n).from = "release"
                        /\ Damaged(n) \in Files /\ Damaged(n).n = n /\ Damaged(n).from = "damaged"
  /\ \A s \in ScriptShapes, n \in Numbers : /\ Script(s, n) \in Files /\ Script(s, n).n = n
                                            /\ Script(s, n).from = "script" /\ IsScript(Script(s, n))
  /\ \A text \in Texts, says \in Sayings, n \in Numbers :
        /\ Product(text, says, n) \in Files /\ Product(text, says, n).n = n
        /\ Product(text, says, n).from = "product"
  /\ UserCommand \in Files /\ UserCommand.from = "user" /\ UserCommand.n = 0
  /\ 0 \in Numbers /\ 1 \in Numbers \ {0} /\ Numbers \subseteq Nat
BY MaxReleaseIsPositive, ShapesAreScripts
   DEF Files, Release, Damaged, Script, Product, UserCommand, Numbers, IsScript, Texts, Sayings

LEMMA RecipeFacts ==
  ASSUME InstallTypeOK, NEW force \in BOOLEAN
  PROVE  LET r == [recipe EXCEPT !.force = force]
         IN  /\ r \in Recipes /\ r.way = recipe.way /\ r.sums = recipe.sums
             /\ r.allowUnverified = recipe.allowUnverified /\ r.configured = recipe.configured
BY DEF InstallTypeOK, Recipes

\* What is published, and what a run has of it, are files.
LEMMA PublishedFacts ==
  ASSUME InstallTypeOK, WayInv
  PROVE  /\ \A f \in ReleasesOut : f \in Files /\ f = Release(f.n) /\ f.n \in Numbers
         /\ \A f \in Recipe : /\ f \in Files /\ f.from = "script" /\ IsScript(f)
                              /\ f.n \in Numbers
         /\ latest \in Files /\ latest.n \in Numbers
         /\ recipe.way \in {"release", "source"}
BY FileFacts DEF ReleasesOut, Recipe, InstallTypeOK, Recipes

LEMMA RecordFacts ==
  ASSUME InstallTypeOK, data # Nothing,
         NEW kind \in {"wrapper", "installer"}, NEW at \in Places, NEW reported,
         Record(kind, at, reported)
  PROVE  /\ record' \in Rows /\ record' # Nothing /\ record'.at = at /\ record'.of = data
         /\ status' = reported /\ step' = "reload" /\ UNCHANGED <<loaded, previous, outcome>>
BY NothingIsNothing DEF Record, Rows, InstallTypeOK

LEMMA InstallTypeStep ==
  ASSUME InstallTypeOK, WayInv, InstallNext
  PROVE  InstallTypeOK' /\ WayInv'
<1> USE FileFacts, NothingIsNothing
    DEF InstallTypeOK, WayInv, To, Done, Forget, NoRows, local, world, Steps, ReleaseSteps,
        SourceSteps, Vouched, Places
<1>1. CASE Publish
  <2>1. latest.n + 1 \in Numbers \ {0}
    BY <1>1, PublishedFacts, MaxReleaseIsPositive DEF Publish, Numbers
  <2>2. CASE recipe.way = "release"
    BY <1>1, <2>1, <2>2 DEF Publish, ReleasesOut
  <2>3. CASE recipe.way = "source"
    BY <1>1, <2>1, <2>3 DEF Publish, Recipe
  <2> QED
    BY <2>2, <2>3, PublishedFacts
<1>2. CASE \E p \in Places : Uninstall(p)
  BY <1>2 DEF Uninstall
<1>3. CASE \E force \in BOOLEAN : InstallOne(force)
  <2>1. PICK force \in BOOLEAN : InstallOne(force)
    BY <1>3
  <2>2. /\ recipe' \in Recipes /\ recipe'.way = recipe.way /\ recipe'.sums = recipe.sums
        /\ recipe'.allowUnverified = recipe.allowUnverified
    BY <2>1, RecipeFacts DEF InstallOne
  <2>3. /\ UNCHANGED <<latest, disk, rows, data, loaded, previous, record, status, strayed>>
        /\ found' = disk["home"] /\ outcome' = "none" /\ place' \in Places
    BY <2>1 DEF InstallOne
  <2>4. \/ recipe.way = "release" /\ step' = "resolve"
        \/ recipe.way = "source" /\ step' = "fetch"
    BY <2>1, PublishedFacts DEF InstallOne
  <2>5. InstallTypeOK'
    BY <2>2, <2>3, <2>4
  <2>6. WayInv'
    BY <2>2, <2>3, <2>4, PublishedFacts
  <2> QED
    BY <2>5, <2>6
<1>4. CASE \E s \in {"resolve", "load", "download", "write", "save",
                     "fetch", "store", "reload", "record"} : Fail(s)
  BY <1>4 DEF Fail
<1>5. CASE ResolveInstall
  BY <1>5 DEF ResolveInstall
<1>6. CASE LoadState
  BY <1>6 DEF LoadState
<1>7. CASE DownloadVerifiedBinary
  <2>1. PICK intact \in BOOLEAN :
          VerifyChecksum(intact) /\ data' = IF intact THEN data ELSE Damaged(data.n)
    BY <1>7 DEF DownloadVerifiedBinary
  <2>2. /\ step = "download" /\ step' = "write"
        /\ UNCHANGED <<recipe, latest, disk, rows, place, loaded, previous, record, status,
                       found, strayed, outcome>>
    BY <1>7 DEF DownloadVerifiedBinary
  <2>3. data \in Files /\ data.n \in Numbers \ {0}
    BY <2>2, PublishedFacts DEF ReleasesOut
  <2>4. data.n \in Numbers /\ Damaged(data.n) \in {Damaged(n) : n \in Numbers \ {0}}
    BY <2>3
  <2>5. CASE intact
    BY <2>1, <2>2, <2>5
  <2>6. CASE ~intact
    <3>1. data' = Damaged(data.n) /\ Damaged(data.n) \in Files
      BY <2>1, <2>4, <2>6
    <3>2. ~Vouched
      BY <2>1, <2>6 DEF VerifyChecksum
    <3>3. InstallTypeOK'
      BY <2>2, <3>1
    <3>4. WayInv'
      <4>1. ~Vouched'
        BY <3>2, <2>2
      <4> QED
        BY <2>2, <2>4, <3>1, <4>1
    <3> QED
      BY <3>3, <3>4
  <2> QED
    BY <2>5, <2>6
<1>8. CASE InstallRelease
  BY <1>8, PublishedFacts DEF InstallRelease, Rows
<1>9. CASE RetryAtHome
  BY <1>9 DEF RetryAtHome
<1>10. CASE SaveState
  BY <1>10 DEF SaveState
<1>11. CASE Fetch
  BY <1>11 DEF Fetch
<1>12. CASE ExistingSourceResult
  <2>1. step = "existing" /\ UNCHANGED <<recipe, latest, world, place, data, found, strayed>>
    BY <1>12 DEF ExistingSourceResult
  <2>2. \/ \E kind \in {"wrapper", "installer"} : Record(kind, "home", "current")
        \/ To("store") /\ UNCHANGED local
    BY <1>12 DEF ExistingSourceResult
  <2>3. CASE To("store") /\ UNCHANGED local
    BY <2>1, <2>3
  <2>4. CASE \E kind \in {"wrapper", "installer"} : Record(kind, "home", "current")
    <3>1. /\ record' \in Rows /\ status' = "current" /\ step' = "reload"
          /\ UNCHANGED <<loaded, previous, outcome>>
      BY <2>1, <2>4, RecordFacts
    <3> QED
      BY <2>1, <3>1
  <2> QED
    BY <2>2, <2>3, <2>4
<1>13. CASE StoreWrapper
  BY <1>13 DEF StoreWrapper
<1>14. CASE ProbeWrapper
  BY <1>14 DEF ProbeWrapper, Record, Rows
<1>15. CASE ClearTarget
  BY <1>15 DEF ClearTarget
<1>16. CASE StageFails
  BY <1>16 DEF StageFails, Restore
<1>17. CASE RunInstaller
  <2>1. data.n \in Numbers
    BY <1>17, PublishedFacts DEF RunInstaller
  <2>2. \A p \in Places, text \in Texts, says \in {"version", "nothing"} :
           [disk EXCEPT ![p] = Product(text, says, data.n)] \in [Places -> Files \cup {Nothing}]
    BY <2>1 DEF Sayings
  <2>3. disk' \in [Places -> Files \cup {Nothing}]
    BY <1>17, <2>2 DEF RunInstaller
  <2> QED
    BY <1>17, <2>3 DEF RunInstaller
<1>18. CASE JudgeProduct
  <2>1. /\ step = "judge" /\ UNCHANGED <<recipe, latest, rows, place, data, found>>
        /\ \/ Restore /\ Done("failed") /\ Forget /\ UNCHANGED strayed
           \/ \E p \in Places : /\ Record("installer", p, "installed") /\ UNCHANGED disk
                                /\ strayed' = (strayed \/ p = "system")
    BY <1>18 DEF JudgeProduct, Resolved
  <2>2. CASE Restore /\ Done("failed") /\ Forget /\ UNCHANGED strayed
    BY <2>1, <2>2 DEF Restore
  <2>3. CASE \E p \in Places : /\ Record("installer", p, "installed") /\ UNCHANGED disk
                               /\ strayed' = (strayed \/ p = "system")
    <3>1. PICK p \in Places : /\ Record("installer", p, "installed") /\ UNCHANGED disk
                              /\ strayed' = (strayed \/ p = "system")
      BY <2>3
    <3>2. /\ record' \in Rows /\ status' = "installed" /\ step' = "reload"
          /\ UNCHANGED <<loaded, previous, outcome>>
      BY <2>1, <3>1, RecordFacts
    <3>3. strayed' \in BOOLEAN
      BY <3>1, Zenon
    <3> QED
      BY <2>1, <3>1, <3>2, <3>3
  <2> QED
    BY <2>1, <2>2, <2>3
<1>19. CASE ReloadState
  BY <1>19 DEF ReloadState
<1>20. CASE FinishSource
  BY <1>20 DEF FinishSource
<1>21. CASE Killed
  BY <1>21 DEF Killed
<1> QED
  BY <1>1, <1>2, <1>3, <1>4, <1>5, <1>6, <1>7, <1>8, <1>9, <1>10, <1>11, <1>12, <1>13, <1>14,
     <1>15, <1>16, <1>17, <1>18, <1>19, <1>20, <1>21 DEF InstallNext

\* Whoever removes or keeps the target aside leaves it to the failure that follows.
LEMMA RestoreStep ==
  ASSUME InstallTypeOK, WayInv, RestoreInv, RecognizedFailureRestores, InstallNext
  PROVE  RestoreInv' /\ RecognizedFailureRestores'
<1> USE DEF RestoreInv, RecognizedFailureRestores, FailureRestores, To, Done, Forget, local, world
<1>1. CASE Publish
  BY <1>1 DEF Publish
<1>2. CASE \E p \in Places : Uninstall(p)
  BY <1>2 DEF Uninstall
<1>3. CASE \E force \in BOOLEAN : InstallOne(force)
  BY <1>3 DEF InstallOne
<1>4. CASE \E s \in {"resolve", "load", "download", "write", "save",
                     "fetch", "store", "reload", "record"} : Fail(s)
  BY <1>4 DEF Fail
<1>5. CASE ResolveInstall \/ LoadState
  BY <1>5 DEF ResolveInstall, LoadState
<1>6. CASE DownloadVerifiedBinary
  BY <1>6 DEF DownloadVerifiedBinary
<1>7. CASE InstallRelease
  BY <1>7 DEF InstallRelease
<1>8. CASE RetryAtHome \/ SaveState
  BY <1>8 DEF RetryAtHome, SaveState
<1>9. CASE Fetch
  BY <1>9 DEF Fetch
<1>10. CASE ExistingSourceResult
  BY <1>10 DEF ExistingSourceResult, Record
<1>11. CASE StoreWrapper
  <2>1. data.from = "script"
    BY <1>11, PublishedFacts, NothingIsNothing
       DEF StoreWrapper, WayInv, ReleaseSteps, SourceSteps
  <2> QED
    BY <1>11, <2>1 DEF StoreWrapper
<1>12. CASE ProbeWrapper
  <2>1. data # Nothing
    BY <1>12 DEF ProbeWrapper, WayInv
  <2> QED
    BY <1>12, <2>1 DEF ProbeWrapper, Record
<1>13. CASE ClearTarget
  BY <1>13 DEF ClearTarget
<1>14. CASE StageFails
  BY <1>14 DEF StageFails, Restore, InstallTypeOK, WayInv, Places
<1>15. CASE RunInstaller
  BY <1>15 DEF RunInstaller
<1>16. CASE JudgeProduct
  <2>1. /\ step = "judge" /\ UNCHANGED <<recipe, data, found>> /\ data # Nothing
        /\ \/ Restore /\ Done("failed") /\ Forget
           \/ step' = "reload"
    BY <1>16 DEF JudgeProduct, WayInv, Record
  <2> QED
    BY <2>1 DEF Restore, InstallTypeOK, Places
<1>17. CASE ReloadState \/ FinishSource
  BY <1>17 DEF ReloadState, FinishSource, InstallTypeOK
<1>18. CASE Killed
  BY <1>18 DEF Killed
<1> QED
  BY <1>1, <1>2, <1>3, <1>4, <1>5, <1>6, <1>7, <1>8, <1>9, <1>10, <1>11, <1>12, <1>13, <1>14,
     <1>15, <1>16, <1>17, <1>18 DEF InstallNext

\* A probe that finds the file healthy, or silent, has had an answer.
LEMMA ProbeFacts ==
  ASSUME NEW f \in Files
  PROVE  /\ Probes(f) \cap {"healthy", "silent"} # {} => f.says \in {"version", "nothing"}
         /\ Probes(f) \subseteq {"healthy", "silent", "installer-like", "failed"}
BY FileFacts DEF Probes, ClassifyProbe, Sayings

LEMMA CommandStep ==
  ASSUME InstallTypeOK, WayInv, CommandInv, SuccessIsACommand, InstallNext
  PROVE  CommandInv' /\ SuccessIsACommand'
<1> USE NothingIsNothing
    DEF CommandInv, SuccessIsACommand, IsCommand, Answers, To, Done, Forget, local, world, Places,
        LooksLikeInstaller
<1>1. CASE Publish
  BY <1>1 DEF Publish
<1>2. CASE \E p \in Places : Uninstall(p)
  BY <1>2 DEF Uninstall, InstallTypeOK
<1>3. CASE \E force \in BOOLEAN : InstallOne(force)
  <2>1. PICK force \in BOOLEAN : InstallOne(force)
    BY <1>3
  <2>2. /\ recipe'.way = recipe.way /\ step' \in {"resolve", "fetch"} /\ outcome' = "none"
        /\ UNCHANGED <<disk, previous>>
    BY <2>1, RecipeFacts DEF InstallOne
  <2> QED
    BY <2>2
<1>4. CASE \E s \in {"resolve", "load", "download", "write", "save",
                     "fetch", "store", "reload", "record"} : Fail(s)
  BY <1>4 DEF Fail
<1>5. CASE ResolveInstall \/ LoadState \/ DownloadVerifiedBinary \/ InstallRelease \/ RetryAtHome
           \/ SaveState
  <2>1. recipe.way = "release" /\ recipe' = recipe
    BY <1>5 DEF ResolveInstall, LoadState, DownloadVerifiedBinary, InstallRelease, RetryAtHome,
                SaveState, WayInv, ReleaseSteps
  <2> QED
    BY <2>1
<1>6. CASE Fetch
  BY <1>6 DEF Fetch
<1>7. CASE ExistingSourceResult
  <2>1. step = "existing" /\ UNCHANGED <<recipe, latest, disk, rows, place, data, found, strayed>>
    BY <1>7 DEF ExistingSourceResult
  <2>2. \/ /\ disk["home"] # Nothing /\ ~LooksLikeInstaller(disk["home"])
           /\ Probes(disk["home"]) \cap {"healthy", "silent"} # {}
           /\ \E kind \in {"wrapper", "installer"} : Record(kind, "home", "current")
        \/ To("store") /\ UNCHANGED local
    <3>1. DecideExisting(disk["home"], data,
                         IF rows["home"] = Nothing THEN "" ELSE rows["home"].kind,
                         IF rows["home"] = Nothing THEN NoFile ELSE rows["home"].of)
             \in {"current-wrapper", "current-produced"} => ~LooksLikeInstaller(disk["home"])
      BY DEF DecideExisting
    <3> QED
      BY <1>7, <3>1 DEF ExistingSourceResult
  <2>3. CASE To("store") /\ UNCHANGED local
    BY <2>1, <2>3
  <2>4. CASE /\ disk["home"] # Nothing /\ ~LooksLikeInstaller(disk["home"])
             /\ Probes(disk["home"]) \cap {"healthy", "silent"} # {}
             /\ \E kind \in {"wrapper", "installer"} : Record(kind, "home", "current")
    <3>1. /\ record' # Nothing /\ record'.at = "home" /\ step' = "reload" /\ status' = "current"
          /\ UNCHANGED <<previous, outcome>>
      BY <2>1, <2>4, RecordFacts DEF WayInv
    <3>2. disk["home"].says \in {"version", "nothing"}
      BY <2>4, ProbeFacts DEF InstallTypeOK
    <3> QED
      BY <2>1, <2>4, <3>1, <3>2
  <2> QED
    BY <2>2, <2>3, <2>4
<1>8. CASE StoreWrapper
  <2>1. data # Nothing /\ (recipe.way = "source" => data \in Files /\ data.from = "script")
    BY <1>8, PublishedFacts DEF StoreWrapper, WayInv
  <2> QED
    BY <1>8, <2>1 DEF StoreWrapper, InstallTypeOK
<1>9. CASE ProbeWrapper
  <2>1. data \in Files /\ recipe.way = "source" /\ disk["home"] = data /\ ~LooksLikeInstaller(data)
    BY <1>9 DEF ProbeWrapper, WayInv, InstallTypeOK, SourceSteps
  <2>2. /\ step = "probe" /\ UNCHANGED <<recipe, disk, rows, data>>
        /\ \/ /\ Probes(data) \cap {"healthy", "silent"} # {}
              /\ Record("wrapper", "home", "installed")
           \/ To("clear") /\ UNCHANGED local
           \/ Done("failed") /\ Forget
    BY <1>9 DEF ProbeWrapper
  <2>3. CASE /\ Probes(data) \cap {"healthy", "silent"} # {}
             /\ Record("wrapper", "home", "installed")
    <3>1. /\ record' # Nothing /\ record'.at = "home" /\ step' = "reload" /\ status' = "installed"
          /\ UNCHANGED <<previous, outcome>>
      BY <2>1, <2>3, RecordFacts
    <3>2. data.says \in {"version", "nothing"} /\ data.from # "damaged"
      BY <2>1, <2>3, ProbeFacts
    <3> QED
      BY <2>1, <2>2, <3>1, <3>2
  <2> QED
    BY <2>2, <2>3
<1>10. CASE ClearTarget
  BY <1>10 DEF ClearTarget, IsScript, InstallTypeOK
<1>11. CASE StageFails
  BY <1>11 DEF StageFails, Restore, InstallTypeOK
<1>12. CASE RunInstaller
  <2>1. data.n \in Numbers
    BY <1>12, PublishedFacts, FileFacts DEF RunInstaller, WayInv, InstallTypeOK
  <2>2. \A text \in Texts, says \in {"version", "nothing"} :
            Product(text, says, data.n).from = "product"
    BY DEF Product
  <2>3. \/ \E p \in Places, product \in {f \in Files : f.from = "product"} :
               disk' = [disk EXCEPT ![p] = product]
        \/ UNCHANGED disk
    <3>1. \A text \in Texts, says \in {"version", "nothing"} : Product(text, says, data.n) \in Files
      BY <2>1, FileFacts DEF Sayings
    <3> HIDE DEF Places
    <3> QED
      BY <1>12, <2>2, <3>1 DEF RunInstaller
  <2> QED
    BY <1>12, <2>3 DEF RunInstaller, InstallTypeOK
<1>13. CASE JudgeProduct
  <2>1. /\ step = "judge" /\ UNCHANGED <<recipe, rows, data>>
        /\ \/ Restore /\ Done("failed") /\ Forget
           \/ \E p \in Places :
                 /\ disk[p] # Nothing /\ Probes(disk[p]) \ {"installer-like", "failed"} # {}
                 /\ Record("installer", p, "installed") /\ UNCHANGED disk
    BY <1>13 DEF JudgeProduct, Resolved, Executable
  <2>2. CASE Restore /\ Done("failed") /\ Forget
    BY <2>1, <2>2 DEF Restore, InstallTypeOK
  <2>3. CASE \E p \in Places :
                /\ disk[p] # Nothing /\ Probes(disk[p]) \ {"installer-like", "failed"} # {}
                /\ Record("installer", p, "installed") /\ UNCHANGED disk
    <3>1. PICK p \in Places :
                /\ disk[p] # Nothing /\ Probes(disk[p]) \ {"installer-like", "failed"} # {}
                /\ Record("installer", p, "installed") /\ UNCHANGED disk
      BY <2>3
    <3>2. /\ record' # Nothing /\ record'.at = p /\ step' = "reload" /\ status' = "installed"
          /\ UNCHANGED <<previous, outcome>>
      BY <2>1, <3>1, RecordFacts DEF WayInv
    <3>3. disk[p].says \in {"version", "nothing"}
      BY <3>1, ProbeFacts DEF InstallTypeOK
    <3> QED
      BY <2>1, <3>1, <3>2, <3>3
  <2> QED
    BY <2>1, <2>2, <2>3
<1>14. CASE ReloadState
  BY <1>14 DEF ReloadState
<1>15. CASE FinishSource
  BY <1>15 DEF FinishSource, InstallTypeOK
<1>16. CASE Killed
  BY <1>16 DEF Killed
<1> QED
  BY <1>1, <1>2, <1>3, <1>4, <1>5, <1>6, <1>7, <1>8, <1>9, <1>10, <1>11, <1>12, <1>13, <1>14,
     <1>15, <1>16 DEF InstallNext

LEMMA NumberFacts ==
  ASSUME InstallTypeOK, WayInv
  PROVE  /\ latest.n \in Nat /\ (data # Nothing => data.n \in Nat)
         /\ previous # Nothing => previous.n \in Nat
         /\ \A p \in Places : /\ disk[p] # Nothing => disk[p].n \in Nat
                              /\ rows[p] # Nothing => rows[p].of \in Files /\ rows[p].of.n \in Nat
<1> USE FileFacts
<1>1. latest.n \in Nat /\ (data # Nothing => data.n \in Nat) /\ (previous # Nothing => previous.n \in Nat)
  BY DEF InstallTypeOK
<1>2. ASSUME NEW p \in Places, disk[p] # Nothing PROVE disk[p].n \in Nat
  <2>1. disk[p] \in Files
    BY <1>2 DEF InstallTypeOK
  <2> QED
    BY <2>1
<1>3. ASSUME NEW p \in Places, rows[p] # Nothing PROVE rows[p].of \in Files /\ rows[p].of.n \in Nat
  <2>1. rows[p] \in Rows
    BY <1>3 DEF InstallTypeOK
  <2>2. rows[p].of \in Files
    BY <2>1 DEF Rows
  <2> QED
    BY <2>2
<1> QED
  BY <1>1, <1>2, <1>3

\* One installer at a time: the rows it has read are those it writes back.
LEMMA ReleaseStep ==
  ASSUME InstallTypeOK, WayInv, ReleaseInv, InstallNext, recipe.way = "release", Vouched
  PROVE  ReleaseInv'
<1> USE NothingIsNothing, NumberFacts
    DEF ReleaseInv, To, Done, Forget, local, world
<1>1. CASE Publish
  <2>1. latest' = Release(latest.n + 1) /\ recipe' = recipe
    BY <1>1 DEF Publish
  <2>2. latest'.n = latest.n + 1
    BY <2>1 DEF Release
  <2> QED
    <3>1. ASSUME NEW p \in Places
          PROVE  /\ disk[p] # Nothing => disk[p].n <= latest'.n
                 /\ rows[p] # Nothing => rows[p].of.n <= latest'.n
      BY <2>2
    <3>2. data # Nothing /\ data.n <= latest.n => data.n <= latest'.n
      BY <2>2
    <3>3. step # "off" /\ step \in {"load", "download", "write", "save"} => data # Nothing
      BY DEF WayInv
    <3>4. UNCHANGED <<recipe, disk, rows, step, place, data, loaded, record, outcome>>
      BY <1>1 DEF Publish
    <3> QED
      BY <3>1, <3>2, <3>3, <3>4
<1>2. CASE \E p \in Places : Uninstall(p)
  <2>1. PICK q \in Places : disk' = [disk EXCEPT ![q] = Nothing] /\ outcome' = "none"
    BY <1>2 DEF Uninstall
  <2>2. UNCHANGED <<recipe, latest, rows, step, place, data, loaded, record>> /\ step = "off"
    BY <1>2 DEF Uninstall
  <2> QED
    BY <2>1, <2>2 DEF InstallTypeOK
<1>3. CASE \E force \in BOOLEAN : InstallOne(force)
  <2>1. /\ step' = "resolve" /\ UNCHANGED <<latest, disk, rows>>
    BY <1>3 DEF InstallOne
  <2> QED
    BY <2>1
<1>4. CASE \E s \in {"resolve", "load", "download", "write", "save",
                     "fetch", "store", "reload", "record"} : Fail(s)
  BY <1>4 DEF Fail
<1>5. CASE ResolveInstall
  BY <1>5 DEF ResolveInstall
<1>6. CASE LoadState
  <2>1. CASE InstallIsCurrent(rows)
    <3>1. disk[place] # Nothing /\ rows[place] # Nothing /\ rows[place].of = data
      BY <2>1 DEF InstallIsCurrent, Executable
    <3>2. disk[place] = Release(disk[place].n) /\ disk[place].n <= data.n /\ data.n <= disk[place].n
      BY <1>6, <3>1 DEF LoadState, InstallTypeOK
    <3>3. disk[place].n = data.n
      <4>1. data # Nothing /\ place \in Places
        BY <1>6 DEF LoadState, InstallTypeOK, WayInv
      <4>2. disk[place].n \in Nat /\ data.n \in Nat
        BY <3>1, <4>1
      <4> QED
        BY <3>2, <4>2
    <3> QED
      BY <1>6, <2>1, <3>2, <3>3 DEF LoadState
  <2>2. CASE ~InstallIsCurrent(rows)
    BY <1>6, <2>2 DEF LoadState
  <2> QED
    BY <2>1, <2>2
<1>7. CASE DownloadVerifiedBinary
  <2>1. data' = data
    BY <1>7 DEF DownloadVerifiedBinary, VerifyChecksum, Vouched
  <2> QED
    BY <1>7, <2>1 DEF DownloadVerifiedBinary
<1>8. CASE InstallRelease
  <2>1. data = Release(data.n) /\ data # Nothing
    BY <1>8, PublishedFacts DEF InstallRelease, WayInv
  <2> QED
    BY <1>8, <2>1 DEF InstallRelease, InstallTypeOK
<1>9. CASE RetryAtHome
  BY <1>9 DEF RetryAtHome
<1>10. CASE SaveState
  <2>1. data = Release(data.n) /\ data # Nothing
    BY <1>10, PublishedFacts DEF SaveState, WayInv
  <2> QED
    BY <1>10, <2>1 DEF SaveState, InstallTypeOK
<1>11. CASE Fetch \/ ExistingSourceResult \/ StoreWrapper \/ ProbeWrapper \/ ClearTarget
            \/ StageFails \/ RunInstaller \/ JudgeProduct \/ ReloadState \/ FinishSource
  BY <1>11 DEF Fetch, ExistingSourceResult, StoreWrapper, ProbeWrapper, ClearTarget, StageFails,
               RunInstaller, JudgeProduct, ReloadState, FinishSource, WayInv, SourceSteps
<1>12. CASE Killed
  BY <1>12 DEF Killed
<1> QED
  BY <1>1, <1>2, <1>3, <1>4, <1>5, <1>6, <1>7, <1>8, <1>9, <1>10, <1>11, <1>12 DEF InstallNext

\* Scripts only go up too. A file that its row makes current is the script of this
\* run, or was produced by it.
LEMMA RecipeStep ==
  ASSUME InstallTypeOK, WayInv, CommandInv, RecipeInv, InstallNext,
         recipe.way = "source", ~strayed
  PROVE  RecipeInv'
<1> USE NothingIsNothing, NumberFacts
    DEF RecipeInv, Follows, To, Done, Forget, local, world
<1> "home" \in Places /\ "system" \in Places
  BY DEF Places
<1>1. CASE Publish
  <2>1. PICK s \in ScriptShapes : latest' = Script(s, latest.n + 1)
    BY <1>1 DEF Publish
  <2>2. latest'.n = latest.n + 1
    BY <2>1 DEF Script
  <2>3. UNCHANGED <<recipe, disk, rows, step, place, data, loaded, previous, record, status,
                    strayed, outcome>>
    BY <1>1 DEF Publish
  <2> QED
    BY <2>2, <2>3
<1>2. CASE \E p \in Places : Uninstall(p)
  <2>1. /\ UNCHANGED <<recipe, latest, rows, step, data, loaded, previous, record, status, strayed>>
        /\ step = "off" /\ outcome' = "none" /\ disk'["home"] \in {disk["home"], Nothing}
    BY <1>2 DEF Uninstall, InstallTypeOK
  <2> QED
    BY <2>1 DEF SourceSteps
<1>3. CASE \E force \in BOOLEAN : InstallOne(force)
  <2>1. /\ step' = "fetch" /\ outcome' = "none"
        /\ UNCHANGED <<latest, disk, rows, data, previous, strayed>>
    BY <1>3 DEF InstallOne
  <2> QED
    BY <2>1
<1>4. CASE \E s \in {"resolve", "load", "download", "write", "save",
                     "fetch", "store", "reload", "record"} : Fail(s)
  BY <1>4 DEF Fail, SourceSteps
<1>5. CASE ResolveInstall \/ LoadState \/ DownloadVerifiedBinary \/ InstallRelease \/ RetryAtHome
           \/ SaveState
  BY <1>5 DEF ResolveInstall, LoadState, DownloadVerifiedBinary, InstallRelease, RetryAtHome,
              SaveState, WayInv, ReleaseSteps
<1>6. CASE Fetch
  BY <1>6 DEF Fetch
<1>7. CASE ExistingSourceResult
  <2>1. step = "existing" /\ UNCHANGED <<recipe, latest, disk, rows, place, data, found, strayed>>
    BY <1>7 DEF ExistingSourceResult
  <2>2. CASE To("store") /\ UNCHANGED local
    BY <2>1, <2>2 DEF SourceSteps
  <2>3. CASE /\ disk["home"] # Nothing
             /\ DecideExisting(disk["home"], data,
                               IF rows["home"] = Nothing THEN "" ELSE rows["home"].kind,
                               IF rows["home"] = Nothing THEN NoFile ELSE rows["home"].of)
                   \in {"current-wrapper", "current-produced"}
             /\ \E kind \in {"wrapper", "installer"} : Record(kind, "home", "current")
    <3>1. data # Nothing /\ data.n \in Nat /\ disk["home"].n \in Nat
      BY <2>1, <2>3 DEF WayInv
    <3>2. \/ disk["home"] = data
          \/ rows["home"] # Nothing /\ rows["home"].kind = "installer" /\ rows["home"].of = data
          \/ ~IsScript(disk["home"])
      BY <2>3 DEF DecideExisting, NoFile
    <3>3. IsScript(disk["home"]) => disk["home"].n = data.n
      <4>1. disk["home"].n <= data.n
        BY <2>1, <2>3
      <4>2. ASSUME IsScript(disk["home"]), rows["home"] # Nothing, rows["home"].kind = "installer",
                   rows["home"].of = data
            PROVE  data.n <= disk["home"].n
        BY <2>3, <4>2
      <4> QED
        BY <3>1, <3>2, <4>1, <4>2
    <3>4. /\ record'.of = data /\ step' = "reload" /\ status' = "current"
          /\ UNCHANGED <<previous, outcome>>
      BY <2>1, <2>3, <3>1, RecordFacts
    <3> QED
      BY <2>1, <2>3, <3>3, <3>4 DEF SourceSteps
  <2> QED
    BY <1>7, <2>2, <2>3 DEF ExistingSourceResult
<1>8. CASE StoreWrapper
  <2>1. data # Nothing /\ data.n \in Nat
    BY <1>8 DEF StoreWrapper, WayInv
  <2>2. UNCHANGED <<recipe, latest, rows, data, previous, strayed, outcome>> /\ step = "store"
        /\ disk'["home"] \in {disk["home"], data} /\ step' \in {"clear", "probe"}
    BY <1>8 DEF StoreWrapper, InstallTypeOK
  <2> QED
    BY <2>1, <2>2 DEF SourceSteps
<1>9. CASE ProbeWrapper
  <2>1. data # Nothing /\ step = "probe" /\ disk["home"] = data
    BY <1>9 DEF ProbeWrapper, WayInv, CommandInv
  <2>2. /\ UNCHANGED <<recipe, latest, disk, rows, place, data, strayed>>
        /\ \/ Record("wrapper", "home", "installed")
           \/ To("clear") /\ UNCHANGED local
           \/ Done("failed") /\ Forget
    BY <1>9 DEF ProbeWrapper
  <2>3. CASE Record("wrapper", "home", "installed")
    <3>1. /\ record'.of = data /\ step' = "reload" /\ status' = "installed"
          /\ UNCHANGED <<previous, outcome>>
      BY <2>1, <2>3, RecordFacts
    <3> QED
      BY <2>1, <2>2, <3>1 DEF SourceSteps
  <2> QED
    BY <2>1, <2>2, <2>3 DEF SourceSteps
<1>10. CASE ClearTarget
  <2>1. /\ UNCHANGED <<recipe, latest, rows, data, strayed, outcome>>
        /\ step = "clear" /\ step' = "run" /\ previous' = disk["home"]
        /\ disk'["home"] \in {disk["home"], Nothing}
    BY <1>10 DEF ClearTarget, InstallTypeOK
  <2> QED
    BY <2>1 DEF SourceSteps
<1>11. CASE StageFails
  <2>1. /\ UNCHANGED <<recipe, latest, rows, data, strayed>>
        /\ step = "run" /\ step' = "off" /\ outcome' = "failed" /\ previous' = Nothing
        /\ disk'["home"] = previous
    BY <1>11 DEF StageFails, Restore, InstallTypeOK
  <2> QED
    BY <2>1 DEF SourceSteps
<1>12. CASE RunInstaller
  <2>1. data # Nothing /\ data.n \in Nat /\ data.n \in Numbers
    BY <1>12, FileFacts DEF RunInstaller, WayInv, InstallTypeOK
  <2>2. \A text, says : Product(text, says, data.n).n = data.n
    BY DEF Product
  <2>3. disk'["home"] = disk["home"] \/ disk'["home"].n = data.n
    BY <1>12, <2>2 DEF RunInstaller, InstallTypeOK
  <2>4. /\ UNCHANGED <<recipe, latest, rows, data, previous, strayed, outcome>>
        /\ step = "run" /\ step' = "judge"
    BY <1>12 DEF RunInstaller
  <2> QED
    BY <2>1, <2>3, <2>4 DEF SourceSteps
<1>13. CASE JudgeProduct
  <2>1. /\ step = "judge" /\ UNCHANGED <<recipe, latest, rows, place, data>> /\ data # Nothing
        /\ \/ Restore /\ Done("failed") /\ Forget
           \/ \E p \in Resolved : /\ Record("installer", p, "installed") /\ UNCHANGED disk
                                  /\ strayed' = (strayed \/ p = "system")
    BY <1>13 DEF JudgeProduct, WayInv
  <2>2. CASE Restore /\ Done("failed") /\ Forget
    BY <2>1, <2>2 DEF Restore, InstallTypeOK, SourceSteps
  <2>3. CASE \E p \in Resolved : /\ Record("installer", p, "installed") /\ UNCHANGED disk
                                 /\ strayed' = (strayed \/ p = "system")
    <3>1. PICK p \in Resolved : /\ Record("installer", p, "installed") /\ UNCHANGED disk
                                /\ strayed' = (strayed \/ p = "system")
      BY <2>3
    <3>2. p \in Places /\ (p = "home" => disk["home"] # Nothing /\ disk["home"] # previous)
      BY <3>1 DEF Resolved, Executable, Places
    <3>3. /\ record'.of = data /\ step' = "reload" /\ status' = "installed"
          /\ UNCHANGED <<previous, outcome>>
      BY <2>1, <3>1, <3>2, RecordFacts
    <3>4. p = "system" => strayed'
      BY <3>1, Zenon
    <3>5. p # "system" => disk["home"].n = data.n
      BY <2>1, <3>2 DEF Places
    <3> QED
      BY <2>1, <3>1, <3>3, <3>4, <3>5 DEF SourceSteps
  <2> QED
    BY <2>1, <2>2, <2>3
<1>14. CASE ReloadState
  BY <1>14 DEF ReloadState, SourceSteps
<1>15. CASE FinishSource
  <2>1. /\ UNCHANGED <<recipe, latest, disk, data, strayed>>
        /\ step = "record" /\ step' = "off" /\ outcome' = status /\ previous' = Nothing
        /\ rows'["home"] = record
    BY <1>15 DEF FinishSource, InstallTypeOK
  <2>2. data # Nothing /\ data.n \in Nat
    BY <2>1 DEF WayInv
  <2> QED
    BY <2>1, <2>2 DEF SourceSteps
<1>16. CASE Killed
  BY <1>16 DEF Killed, SourceSteps
<1> QED
  BY <1>1, <1>2, <1>3, <1>4, <1>5, <1>6, <1>7, <1>8, <1>9, <1>10, <1>11, <1>12, <1>13, <1>14,
     <1>15, <1>16 DEF InstallNext

LEMMA InstallInvInit == InstallInit => InstallInv
<1> SUFFICES ASSUME InstallInit PROVE InstallInv
  OBVIOUS
<1> USE FileFacts, NothingIsNothing DEF InstallInit, InstallIdle, Places, NoRows
<1>1. /\ recipe \in Recipes /\ recipe.way \in {"release", "source"}
      /\ disk["home"] \in {Nothing, UserCommand} /\ disk["system"] \in {Nothing, UserCommand}
  BY DEF Recipes
<1> DEFINE Typed == latest \in Files => InstallTypeOK
<1>0. Typed
  <2>1. disk \in [Places -> Files \cup {Nothing}] /\ rows \in [Places -> Rows \cup {Nothing}]
        /\ loaded \in [Places -> Rows \cup {Nothing}]
    OBVIOUS
  <2>2. "off" \in Steps
    BY DEF Steps
  <2> QED
    BY <1>1, <2>1, <2>2 DEF InstallTypeOK
<1>2. CASE recipe.way = "release"
  <2>1. latest = Release(1) /\ latest.n = 1
    BY <1>2
  <2>2. latest \in ReleasesOut /\ latest \in Files
    BY <2>1 DEF ReleasesOut
  <2>3. InstallTypeOK /\ WayInv
    BY <1>0, <1>2, <2>2 DEF WayInv, ReleaseSteps, SourceSteps
  <2>4. ReleaseInv
    BY <1>1, <1>2, <2>1 DEF ReleaseInv
  <2> QED
    BY <1>2, <2>3, <2>4
       DEF InstallInv, RestoreInv, CommandInv, RecipeInv, RecognizedFailureRestores,
           FailureRestores, SuccessIsACommand
<1>3. CASE recipe.way = "source"
  <2>1. PICK s \in ScriptShapes : latest = Script(s, 1)
    BY <1>3
  <2>2. latest \in Recipe /\ latest \in Files /\ latest.n = 1
    BY <2>1 DEF Recipe
  <2>3. InstallTypeOK /\ WayInv
    BY <1>0, <1>3, <2>2 DEF WayInv, ReleaseSteps, SourceSteps
  <2>4. CommandInv
    BY <1>1 DEF CommandInv
  <2>5. RecipeInv
    BY <1>1, <2>2 DEF RecipeInv, Follows, SourceSteps
  <2> QED
    BY <1>3, <2>3, <2>4, <2>5
       DEF InstallInv, RestoreInv, ReleaseInv, RecognizedFailureRestores,
           FailureRestores, SuccessIsACommand
<1> QED
  BY <1>1, <1>2, <1>3

LEMMA InstallInvStep ==
  ASSUME InstallInv, InstallNext
  PROVE  InstallInv'
<1> USE DEF InstallInv
<1>1. /\ InstallTypeOK' /\ WayInv' /\ RestoreInv' /\ RecognizedFailureRestores'
      /\ CommandInv' /\ SuccessIsACommand'
  BY InstallTypeStep, RestoreStep, CommandStep
<1>2. /\ recipe'.way = recipe.way /\ (Vouched' <=> Vouched)
      /\ strayed => strayed'
  <2>1. \/ recipe' = recipe \/ \E force \in BOOLEAN : recipe' = [recipe EXCEPT !.force = force]
    BY DEF InstallNext, Publish, Uninstall, InstallOne, Fail, ResolveInstall, LoadState,
           DownloadVerifiedBinary, InstallRelease, RetryAtHome, SaveState, Fetch,
           ExistingSourceResult, StoreWrapper, ProbeWrapper, ClearTarget, StageFails, RunInstaller,
           JudgeProduct, ReloadState, FinishSource, Killed
  <2>2. recipe'.way = recipe.way /\ (Vouched' <=> Vouched)
    BY <2>1, RecipeFacts DEF Vouched
  <2>3. strayed' = strayed \/ \E p : strayed' = (strayed \/ p = "system")
    BY DEF InstallNext, Publish, Uninstall, InstallOne, Fail, ResolveInstall, LoadState,
           DownloadVerifiedBinary, InstallRelease, RetryAtHome, SaveState, Fetch,
           ExistingSourceResult, StoreWrapper, ProbeWrapper, ClearTarget, StageFails, RunInstaller,
           JudgeProduct, ReloadState, FinishSource, Killed
  <2>4. strayed => strayed'
    BY <2>3, Zenon
  <2> QED
    BY <2>2, <2>4
<1>3. ReleaseInv'
  BY <1>2, ReleaseStep DEF ReleaseInv
<1>4. RecipeInv'
  BY <1>2, RecipeStep DEF RecipeInv
<1> QED
  BY <1>1, <1>3, <1>4

LEMMA InstallStutter ==
  ASSUME InstallInv, UNCHANGED installVars
  PROVE  InstallInv'
BY DEF installVars, world, local, InstallInv, InstallTypeOK, WayInv, Vouched, RestoreInv, CommandInv,
       IsCommand, Answers, ReleaseInv, RecipeInv, Follows, RecognizedFailureRestores,
       FailureRestores, SuccessIsACommand

LEMMA InstallInvAlways == InstallSpec => []InstallInv
<1>1. InstallInv /\ [InstallNext]_installVars => InstallInv'
  BY InstallInvStep, InstallStutter
<1> QED
  BY <1>1, InstallInvInit, PTL DEF InstallSpec

\* An install that fails leaves the command that was there, of a release always and
\* of a script if it was recognised as an installer before it was put in place.
THEOREM FailedInstallsRestore == InstallSpec => []RecognizedFailureRestores
<1>1. InstallInv => RecognizedFailureRestores
  BY DEF InstallInv
<1> QED
  BY <1>1, InstallInvAlways, PTL

\* What a recipe reports as installed, or as current, answers like a command.
THEOREM SourcesGiveCommands == InstallSpec => []SuccessIsACommand
<1>1. InstallInv => SuccessIsACommand
  BY DEF InstallInv
<1> QED
  BY <1>1, InstallInvAlways, PTL

\* After any sequence of runs, publications, removals and kills: what is reported
\* is what is in place.
THEOREM ReportsAreTrue == InstallSpec => []ReportIsTrue
<1>1. InstallInv => ReportIsTrue
  <2> SUFFICES ASSUME InstallInv PROVE ReportIsTrue
    OBVIOUS
  <2>1. ASSUME step = "off", outcome \in {"installed", "current"}, recipe.way = "release",
               recipe.sums # "none" \/ ~recipe.allowUnverified
        PROVE  disk[place] = Release(data.n)
    BY <2>1 DEF InstallInv, ReleaseInv, Vouched
  <2>2. ~strayed => CurrentIsThisRecipe
    BY DEF InstallInv, RecipeInv, CurrentIsThisRecipe
  <2> QED
    BY <2>1, <2>2 DEF ReportIsTrue
<1> QED
  BY <1>1, InstallInvAlways, PTL

-----------------------------------------------------------------------------
(***************************************************************************)
(* The three of them side by side.                                         *)
(***************************************************************************)

\* A machine that does not run stays as it is.
ToolsInv ==
    /\ IF part = "install" THEN InstallInv ELSE InstallTypeOK
    /\ IF part = "wire" THEN WiringInv ELSE WiringTypeOK
    /\ IF part = "update" THEN UpdateInv ELSE UpdateTypeOK

\* Their variables have the values of their types.
THEOREM TypeCorrect == Spec => []TypeOK
<1>1. Init => ToolsInv
  <2> SUFFICES ASSUME Init PROVE ToolsInv
    OBVIOUS
  <2>1. ASSUME part # "install" PROVE InstallTypeOK
    <3>1. NoInstaller
      BY <2>1 DEF Init
    <3>2. latest \in Files /\ recipe \in Recipes
      BY <3>1, FileFacts DEF NoInstaller, Recipes
    <3>3. disk \in [Places -> Files \cup {Nothing}] /\ rows \in [Places -> Rows \cup {Nothing}]
          /\ loaded \in [Places -> Rows \cup {Nothing}]
      BY <3>1 DEF NoInstaller, InstallIdle, NoRows
    <3> QED
      BY <3>1, <3>2, <3>3 DEF NoInstaller, InstallIdle, InstallTypeOK, Steps, Places
  <2>2. part # "wire" => WiringTypeOK
    BY DEF Init, WiringIdle, WiringTypeOK, ConfigFiles
  <2>3. ASSUME part # "update" PROVE UpdateTypeOK
    <3>1. releases = <<>> /\ releases \in Seq(Tags) /\ Len(releases) <= MaxReleases
      BY <2>3, TagBounds DEF Init, UpdateIdle
    <3>2. <<1, 0>> \in Tags
      BY TagBounds DEF Tags
    <3> QED
      BY <2>3, <3>1, <3>2 DEF Init, UpdateIdle, UpdateTypeOK, Executables
  <2> QED
    BY <2>1, <2>2, <2>3, InstallInvInit, UpdateInvInit, WiringInvInit DEF Init, ToolsInv
<1>2. ToolsInv /\ [Next]_vars => ToolsInv'
  <2> SUFFICES ASSUME ToolsInv, [Next]_vars PROVE ToolsInv'
    OBVIOUS
  <2>1. part' = part
    BY DEF Next, vars
  <2>2. \/ part = "install" /\ InstallNext
        \/ UNCHANGED installVars
    BY DEF Next, vars
  <2>3. \/ part = "wire" /\ WiringNext
        \/ UNCHANGED wiringVars
    BY DEF Next, vars
  <2>4. \/ part = "update" /\ UpdateNext
        \/ UNCHANGED updateVars
    BY DEF Next, vars
  <2>5. UNCHANGED installVars /\ InstallTypeOK => InstallTypeOK'
    BY DEF installVars, world, local, InstallTypeOK
  <2>6. UNCHANGED wiringVars /\ WiringTypeOK => WiringTypeOK'
    BY DEF wiringVars, WiringTypeOK
  <2>7. UNCHANGED updateVars /\ UpdateTypeOK => UpdateTypeOK'
    BY DEF updateVars, UpdateTypeOK
  <2>8. IF part = "install" THEN InstallInv' ELSE InstallTypeOK'
    BY <2>2, <2>5, InstallInvStep, InstallStutter DEF ToolsInv
  <2>9. IF part = "wire" THEN WiringInv' ELSE WiringTypeOK'
    BY <2>3, <2>6, WiringInvStep, WiringStutter DEF ToolsInv
  <2>10. IF part = "update" THEN UpdateInv' ELSE UpdateTypeOK'
    BY <2>4, <2>7, UpdateInvStep, UpdateStutter DEF ToolsInv
  <2> QED
    BY <2>1, <2>8, <2>9, <2>10 DEF ToolsInv
<1>3. ToolsInv => TypeOK
  BY DEF ToolsInv, TypeOK, InstallInv, WiringInv, UpdateInv
<1> QED
  BY <1>1, <1>2, <1>3, PTL DEF Spec
=============================================================================

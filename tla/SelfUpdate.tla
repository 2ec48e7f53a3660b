------------------------------- MODULE SelfUpdate -------------------------------
(***************************************************************************)
(* ai-launcher upgrade: LatestTag, DownloadVerifiedBinary and the swap of  *)
(* the running executable, in one rename (POSIX, see FsAtomic) or by       *)
(* moving the running one aside (Windows).                                 *)
(*                                                                         *)
(* A tag is a pair of its X.Y.Z core, 0 if it does not start with one, and *)
(* what follows, 0 if nothing does; its text sorts anywhere. Releases are  *)
(* published in any order and listed newest first.                         *)
(***************************************************************************)
EXTENDS Integers, Sequences, FiniteSets

CONSTANTS MaxCore, MaxPre,   \* tags have cores 0..MaxCore and suffixes 0..MaxPre
          MaxReleases,       \* so many are published
          TextRank,          \* where the text of each tag is among all of them
          Flagged,           \* the tags that are published as prereleases
          NoTag

ASSUME TagBounds == MaxCore \in Nat \ {0} /\ MaxPre \in Nat /\ MaxReleases \in Nat \ {0}

Tags == (0..MaxCore) \X (0..MaxPre)
Broken == <<-1, 0>>           \* bytes that are no executable

ASSUME TextsAreRanked == TextRank \in [Tags -> Nat]
ASSUME FlaggedAreTags == Flagged \subseteq Tags

VARIABLES releases,    \* published, newest first
          windows,
          exe, old, tmp,   \* the executable, the one moved aside, the new one beside it
          runs,        \* the version that is running
          update,      \* where the upgrade is
          tag,         \* what it resolved to
          archive,     \* what it has downloaded
          offered,     \* history: the list the tag was chosen from
          mishap,      \* history: a swap was cut short by a kill or a failed rollback
          updated      \* how it ended

updateVars == <<releases, windows, exe, old, tmp, runs, update, tag, archive, offered, mishap,
                updated>>

ASSUME NoTagIsNoTag == NoTag \notin Tags

Executables == Tags \cup {NoTag}

UpdateTypeOK ==
    /\ releases \in Seq(Tags) /\ Len(releases) <= MaxReleases
    /\ windows \in BOOLEAN
    /\ exe \in Executables /\ old \in Executables /\ tmp \in Executables
    /\ runs \in Tags
    /\ update \in {"off", "resolve", "list", "check", "download", "swap", "aside", "in", "rollback"}
    /\ tag \in Executables
    /\ archive \in Executables \cup {Broken}
    /\ offered \in SUBSET Tags
    /\ mishap \in BOOLEAN
    /\ updated \in {"none", "current", "updated", "failed", "killed"}

UpdateIdle ==
    /\ releases = <<>> /\ windows = FALSE /\ exe = <<1, 0>> /\ old = NoTag /\ tmp = NoTag
    /\ runs = exe /\ update = "off" /\ tag = NoTag /\ archive = NoTag /\ offered = {}
    /\ mishap = FALSE /\ updated = "none"

UpdateInit ==
    /\ \E t \in Tags : exe = t /\ releases = <<t>>
    /\ windows \in BOOLEAN /\ old = NoTag /\ tmp = NoTag
    /\ runs = exe /\ update = "off" /\ tag = NoTag /\ archive = NoTag /\ offered = {}
    /\ mishap = FALSE /\ updated = "none"

Stable(t) == t \notin Flagged
Listed == {releases[i] : i \in DOMAIN releases}

\* A release of an older line may follow one of a newer.
PublishRelease(t) ==
    /\ Len(releases) < MaxReleases /\ t \notin Listed
    /\ releases' = <<t>> \o releases
    /\ UNCHANGED <<windows, exe, old, tmp, runs, update, tag, archive, offered, mishap, updated>>

\* Someone starts the launcher, which upgrades itself.
RunUpgrade ==
    /\ update = "off" /\ exe # NoTag
    /\ runs' = exe /\ update' = "resolve" /\ updated' = "none"
    /\ tag' = NoTag /\ archive' = NoTag /\ offered' = {}
    /\ UNCHANGED <<releases, windows, exe, old, tmp, mishap>>

UpdateEnds(how) == update' = "off" /\ updated' = how
UpdateFails(at) ==
    /\ update = at
    /\ UpdateEnds("failed")
    /\ UNCHANGED <<releases, windows, exe, old, tmp, runs, tag, archive, offered, mishap>>

\* releases/latest: the newest one that is no prerelease; 404 if there is none.
FetchLatestFromEndpoint ==
    /\ update = "resolve"
    /\ IF \E t \in Listed : Stable(t)
       THEN /\ tag' = (LET first == CHOOSE i \in DOMAIN releases :
                                       /\ Stable(releases[i])
                                       /\ \A j \in 1..(i - 1) : ~Stable(releases[j])
                       IN  releases[first])
            /\ update' = "check"
       ELSE update' = "list" /\ UNCHANGED tag
    /\ UNCHANGED <<releases, windows, exe, old, tmp, runs, archive, offered, mishap, updated>>

\* parseTagVersion wants a core, and that is all it reads.
Parses(t) == t[1] # 0

\* compareTags: the cores of two tags that parse, the texts of any other two.
CompareTags(a, b) ==
    LET of(t) == IF Parses(a) /\ Parses(b) THEN t[1] ELSE TextRank[t]
    IN  IF of(a) < of(b) THEN -1 ELSE IF of(b) < of(a) THEN 1 ELSE 0

\* What sort.Slice may make of the releases at the positions in kept: it is not
\* stable, and where comparing is no order only neighbours are in order.
SortedTags(kept) ==
    {[k \in DOMAIN at |-> releases[at[k]]] :
        at \in {a \in [1..Cardinality(kept) -> kept] :
                  /\ \A i \in kept : \E k \in DOMAIN a : a[k] = i
                  /\ \A k \in DOMAIN a : k + 1 \in DOMAIN a =>
                        CompareTags(releases[a[k + 1]], releases[a[k]]) # -1}}

\* Mutant: the first of the sorted list.
LastOfSorted_First(sorted) == sorted[1]

LastOfSorted(sorted) == sorted[Len(sorted)]

FetchLatestFromList ==
    /\ update = "list"
    /\ LET stable == {i \in DOMAIN releases : Stable(releases[i])}
           kept == IF stable # {} THEN stable ELSE DOMAIN releases
       IN  \E sorted \in SortedTags(kept) : tag' = LastOfSorted(sorted)
    /\ offered' = Listed
    /\ update' = "check"
    /\ UNCHANGED <<releases, windows, exe, old, tmp, runs, archive, mishap, updated>>

\* SameVersion: equal, or there is an update.
CheckVersion ==
    /\ update = "check"
    /\ IF runs = tag THEN UpdateEnds("current") ELSE update' = "download" /\ UNCHANGED updated
    /\ UNCHANGED <<releases, windows, exe, old, tmp, runs, tag, archive, offered, mishap>>

\* Mutant: a release without a line for the archive is good enough.
VerifiedArchive_NoSums == archive' \in {tag, Broken}

\* The archive, then checksums.txt: what does not match it is refused.
VerifiedArchive == archive' = tag

Download ==
    /\ update = "download"
    /\ VerifiedArchive
    /\ update' = "swap"
    /\ UNCHANGED <<releases, windows, exe, old, tmp, runs, tag, offered, mishap, updated>>

ReplaceExecutable ==
    /\ update = "swap" /\ ~windows
    /\ exe' = archive
    /\ UpdateEnds("updated")
    /\ UNCHANGED <<releases, windows, old, tmp, runs, tag, archive, offered, mishap>>

\* Windows: the new file is written beside the old one.
WriteBeside ==
    /\ update = "swap" /\ windows
    /\ tmp' = archive /\ update' = "aside"
    /\ UNCHANGED <<releases, windows, exe, old, runs, tag, archive, offered, mishap, updated>>

\* An earlier .old goes, then the running executable is renamed to it.
MoveAside ==
    /\ update = "aside"
    /\ \/ old' = exe /\ exe' = NoTag /\ update' = "in" /\ UNCHANGED <<tmp, updated>>
       \/ old' = NoTag /\ tmp' = NoTag /\ UpdateEnds("failed") /\ UNCHANGED exe
    /\ UNCHANGED <<releases, windows, runs, tag, archive, offered, mishap>>

MoveIn ==
    /\ update = "in"
    /\ \/ exe' = tmp /\ tmp' = NoTag /\ UpdateEnds("updated")
       \/ update' = "rollback" /\ UNCHANGED <<exe, tmp, updated>>
    /\ UNCHANGED <<releases, windows, old, runs, tag, archive, offered, mishap>>

\* Mutant: a failed replacement just says so.
Rollback_None ==
    /\ update = "rollback"
    /\ tmp' = NoTag /\ UpdateEnds("failed")
    /\ UNCHANGED <<releases, windows, exe, old, runs, tag, archive, offered, mishap>>

\* Best effort: it may fail too.
Rollback ==
    /\ update = "rollback"
    /\ tmp' = NoTag /\ UpdateEnds("failed")
    /\ \/ exe' = old /\ old' = NoTag /\ UNCHANGED mishap
       \/ mishap' = TRUE /\ UNCHANGED <<exe, old>>
    /\ UNCHANGED <<releases, windows, runs, tag, archive, offered>>

UpdateKilled ==
    /\ update # "off"
    /\ UpdateEnds("killed")
    /\ mishap' = (mishap \/ update \in {"in", "rollback"})
    /\ UNCHANGED <<releases, windows, exe, old, tmp, runs, tag, archive, offered>>

\* The operator puts back what was moved aside.
Recover ==
    /\ update = "off" /\ exe = NoTag
    /\ exe' = old /\ old' = NoTag /\ mishap' = FALSE
    /\ UNCHANGED <<releases, windows, tmp, runs, update, tag, archive, offered, updated>>

UpdateNext ==
    \/ \E t \in Tags : PublishRelease(t)
    \/ RunUpgrade
    \/ \E s \in {"resolve", "list", "download", "swap"} : UpdateFails(s)
    \/ FetchLatestFromEndpoint \/ FetchLatestFromList \/ CheckVersion \/ Download
    \/ ReplaceExecutable \/ WriteBeside \/ MoveAside \/ MoveIn \/ Rollback
    \/ UpdateKilled \/ Recover

UpdateSpec == UpdateInit /\ [][UpdateNext]_updateVars

-----------------------------------------------------------------------------
\* The tags that compete with the one that was chosen: "prereleases are skipped
\* unless no stable release exists" (selfupdate.go:152-153).
Rivals == {t \in offered : Stable(t) <=> Stable(tag)}

\* From the release list an upgrade takes a stable release if there is one, and,
\* as long as every tag it weighs parses, one of the highest X.Y.Z.
HighestCoreWins ==
    offered # {} =>
        /\ tag \in offered
        /\ (\E t \in offered : Stable(t)) => Stable(tag)
        /\ (\A t \in Rivals : Parses(t)) => \A t \in Rivals : t[1] <= tag[1]

\* The precedence of semantic versions: a prerelease comes before its release.
Precedes(a, b) ==
    \/ a[1] < b[1]
    \/ a[1] = b[1] /\ a[2] # 0 /\ (b[2] = 0 \/ a[2] < b[2])

\* "falling back on 404 to the release list, where the highest semver tag wins"
\* (selfupdate.go:150-152). Not so: of the prereleases of one core any may win,
\* and a tag that does not parse may beat one that does.
HighestTagWins == \A t \in Rivals : Parses(t) => Parses(tag) /\ ~Precedes(tag, t)

\* There is an executable, whatever fails, and it is a whole one. Only a swap cut
\* short on Windows leaves none, and then the previous one is beside it.
ExecutableSurvives ==
    /\ exe # NoTag => exe \in Tags
    /\ update \notin {"in", "rollback"} => exe # NoTag \/ (mishap /\ windows /\ old \in Tags)
    /\ update \in {"in", "rollback"} => old = runs
=============================================================================

----------------------------- MODULE ConfigStore -----------------------------
(***************************************************************************)
(* The global and the workspace-local configuration files                  *)
(* (internal/config) as several launcher processes use them, without locks.*)
(*                                                                         *)
(* A process loads the global file once and keeps that copy (mem) until it *)
(* ends; SaveGlobal writes the copy back whole, SaveRecentAgents and       *)
(* RecordTrustedLocalConfig re-read the file and replace one key of it.    *)
(* Saving a selection writes the workspace file, moves a legacy file aside *)
(* and records path and hash of what is then on disk as trusted. Each read *)
(* and each atomic write (FsAtomic) of a file is one step.                 *)
(***************************************************************************)
EXTENDS Naturals, Sequences, SequencesExt

CONSTANTS Procs,        \* launcher processes
          Names,        \* profiles and added agents, by name
          Agents,       \* agent commands of the recently-used list
          Workspaces, Contents,
          None,         \* no file
          NoRow,        \* no trust record
          TrustMax,     \* trustedLocalConfigsMax
          RecentMax,    \* recentAgentsMax
          Backups,      \* bound: legacy backups per workspace
          Edits,        \* what an editor or git may leave in a workspace file
          EditableAt    \* ... while the processes of that workspace are at these steps

ASSUME CapsArePositive == TrustMax \in Nat \ {0} /\ RecentMax \in Nat \ {0}
ASSUME BackupsIsNat == Backups \in Nat
ASSUME EditsAreContents == Edits \subseteq Contents \cup {None}
ASSUME NoneIsNoContent == None \notin Contents

Paths == Workspaces \X {"current", "legacy"}
Row == [path : Paths, hash : Contents]
Doc == [trusted : Seq(Row), recent : Seq(Agents), names : SUBSET Names]
Steps == {"off", "global", "loaded", "ready", "write", "probe", "move", "hash",
          "read", "record"}

ASSUME NoRowIsNoRow == NoRow \notin Row
ASSUME EditableAtSteps == EditableAt \subseteq Steps

VARIABLES doc,          \* the global file
          file,         \* the workspace files, current and legacy
          bak,          \* the legacy backups
          pc, mem, ws,  \* per process: step, loaded global config, workspace
          got,          \* the workspace file as loaded
          honoured,     \* savedLocally: what LocalConfigTrusted answered
          want,         \* the content being saved
          slot,         \* the backup name chosen for the legacy file
          row,          \* the trust record being added, if any
          buf,          \* the document being changed
          saved,        \* history: what launchers wrote, and where
          newest        \* history: the trust record added last

disk == <<doc, file, bak>>
work == <<want, slot, row, buf>>
vars == <<disk, pc, mem, ws, got, honoured, work, saved, newest>>

TypeOK ==
    /\ doc \in Doc
    /\ file \in [Paths -> Contents \cup {None}]
    /\ bak \in [Workspaces -> [1..Backups -> Contents \cup {None}]]
    /\ pc \in [Procs -> Steps]
    /\ mem \in [Procs -> Doc]
    /\ ws \in [Procs -> Workspaces]
    /\ got \in [Procs -> Row \cup {NoRow}]
    /\ honoured \in [Procs -> BOOLEAN]
    /\ want \in [Procs -> Contents]
    /\ slot \in [Procs -> 0..Backups]
    /\ row \in [Procs -> Row \cup {NoRow}]
    /\ buf \in [Procs -> Doc]
    /\ saved \subseteq Row
    /\ newest \in Row \cup {NoRow}

EmptyDoc == [trusted |-> <<>>, recent |-> <<>>, names |-> {}]
Rows(d) == Range(d.trusted)

\* localConfigReadPath: the new layout first, then the legacy file.
ReadPath(w) == IF file[<<w, "current">>] = None /\ file[<<w, "legacy">>] # None
               THEN <<w, "legacy">> ELSE <<w, "current">>

\* Path and hash of the workspace file as it is on disk.
OnDisk(w) == LET path == ReadPath(w)
             IN  IF file[path] = None THEN NoRow ELSE [path |-> path, hash |-> file[path]]

\* A list that has e at most once, without it.
Without(list, e) ==
    IF Contains(list, e) THEN RemoveAt(list, CHOOSE i \in DOMAIN list : list[i] = e) ELSE list

\* TouchRecentAgent.
Touch(recent, a) ==
    LET all == <<a>> \o Without(recent, a)
    IN  IF Len(all) > RecentMax THEN SubSeq(all, 1, RecentMax) ELSE all

\* Mutant: a full list keeps its oldest rows.
Recorded_KeepsOldest(rows, r) ==
    LET all == Append(Without(rows, r), r)
    IN  IF Len(all) > TrustMax THEN SubSeq(all, 1, TrustMax) ELSE all

\* The rows RecordTrustedLocalConfig writes, given the rows it read.
Recorded(rows, r) ==
    LET all == Append(Without(rows, r), r)
    IN  IF Len(all) > TrustMax THEN SubSeq(all, Len(all) - TrustMax + 1, Len(all)) ELSE all

Init ==
    /\ \E rows \in {<<>>} \cup {<<r>> : r \in Row} :
         doc = [EmptyDoc EXCEPT !.trusted = rows]
    /\ file \in [Paths -> Contents \cup {None}]
    /\ bak = [w \in Workspaces |-> [i \in 1..Backups |-> None]]
    /\ pc = [p \in Procs |-> "off"]
    /\ mem = [p \in Procs |-> EmptyDoc]
    /\ ws \in [Procs -> Workspaces]
    /\ got = [p \in Procs |-> NoRow]
    /\ honoured = [p \in Procs |-> FALSE]
    /\ \E c \in Contents : want = [p \in Procs |-> c]
    /\ slot = [p \in Procs |-> 0]
    /\ row = [p \in Procs |-> NoRow]
    /\ buf = [p \in Procs |-> EmptyDoc]
    /\ saved = Rows(doc)
    /\ newest = NoRow

Advance(p, from, to) == pc[p] = from /\ pc' = [pc EXCEPT ![p] = to]

\* What a save or an update was working on is gone once it returns.
Forget(p) ==
    /\ slot' = [slot EXCEPT ![p] = 0]
    /\ row' = [row EXCEPT ![p] = NoRow]
    /\ buf' = [buf EXCEPT ![p] = EmptyDoc]
    /\ UNCHANGED want

\* dispatchSideCommands: LoadGlobal, once per process.
Start(p) ==
    /\ Advance(p, "off", "global")
    /\ mem' = [mem EXCEPT ![p] = doc]
    /\ UNCHANGED <<disk, ws, got, honoured, work, saved, newest>>

\* SetProfile or UpsertAgent on the loaded copy, then SaveGlobal, which may fail
\* and leave the file: a side command, which then ends, or the TUI's SaveProfile
\* hook.
PutName(p, n) ==
    /\ \/ Advance(p, "global", "off")
       \/ Advance(p, "ready", "ready")
    /\ mem' = [mem EXCEPT ![p].names = @ \cup {n}]
    /\ doc' \in {doc, mem'[p]}
    /\ UNCHANGED <<file, bak, ws, got, honoured, work, saved, newest>>

\* --delete-profile, of a profile the loaded copy has.
DeleteName(p, n) ==
    /\ Advance(p, "global", "off")
    /\ n \in mem[p].names
    /\ mem' = [mem EXCEPT ![p].names = @ \ {n}]
    /\ doc' \in {doc, mem'[p]}
    /\ UNCHANGED <<file, bak, ws, got, honoured, work, saved, newest>>

\* LoadLocal.
LoadLocal(p, w) ==
    /\ Advance(p, "global", "loaded")
    /\ ws' = [ws EXCEPT ![p] = w]
    /\ got' = [got EXCEPT ![p] = OnDisk(w)]
    /\ UNCHANGED <<disk, mem, honoured, work, saved, newest>>

\* Mutant: a path the operator saved once is trusted for good.
CheckTrust_PathOnly(p) ==
    /\ Advance(p, "loaded", "ready")
    /\ honoured' = [honoured EXCEPT ![p] =
                       \E r \in Rows(mem[p]) : r.path = ReadPath(ws[p])]
    /\ UNCHANGED <<disk, mem, ws, got, work, saved, newest>>

\* LocalConfigTrusted reads the file again and looks it up in the copy.
CheckTrust(p) ==
    /\ Advance(p, "loaded", "ready")
    /\ honoured' = [honoured EXCEPT ![p] = OnDisk(ws[p]) \in Rows(mem[p])]
    /\ UNCHANGED <<disk, mem, ws, got, work, saved, newest>>

\* --save, Ctrl+S or the autosave of a confirmed TUI selection.
Save(p, c) ==
    /\ Advance(p, "ready", "write")
    /\ want' = [want EXCEPT ![p] = c]
    /\ UNCHANGED <<disk, mem, ws, got, honoured, slot, row, buf, saved, newest>>

\* SaveLocalResult: the new-layout file is replaced atomically.
WriteLocal(p) ==
    LET path == <<ws[p], "current">> IN
    /\ Advance(p, "write", "probe")
    /\ file' = [file EXCEPT ![path] = want[p]]
    /\ saved' = saved \cup {[path |-> path, hash |-> want[p]]}
    /\ UNCHANGED <<doc, bak, mem, ws, got, honoured, work, newest>>

NothingToMigrate(p) ==
    /\ Advance(p, "probe", "hash")
    /\ file[<<ws[p], "legacy">>] = None
    /\ UNCHANGED <<disk, mem, ws, got, honoured, work, saved, newest>>

\* Mutant: there is one backup name.
PickBackup_First(p) ==
    /\ Advance(p, "probe", "move")
    /\ file[<<ws[p], "legacy">>] # None
    /\ slot' = [slot EXCEPT ![p] = 1]
    /\ UNCHANGED <<disk, mem, ws, got, honoured, want, row, buf, saved, newest>>

\* Mutant: off by one.
PickBackup_Next(p) ==
    /\ Advance(p, "probe", "move")
    /\ file[<<ws[p], "legacy">>] # None
    /\ \E i \in 1..Backups : bak[ws[p]][i] = None /\ slot' = [slot EXCEPT ![p] = i + 1]
    /\ UNCHANGED <<disk, mem, ws, got, honoured, want, row, buf, saved, newest>>

\* nextLegacyBackupPath: the first name that is free.
PickBackup(p) ==
    /\ Advance(p, "probe", "move")
    /\ file[<<ws[p], "legacy">>] # None
    /\ \E i \in 1..Backups :
         /\ bak[ws[p]][i] = None
         /\ \A j \in 1..Backups : j < i => bak[ws[p]][j] # None
         /\ slot' = [slot EXCEPT ![p] = i]
    /\ UNCHANGED <<disk, mem, ws, got, honoured, want, row, buf, saved, newest>>

\* Mutant: a migration that another process has done already is done again.
MoveLegacy_Again(p) ==
    LET path == <<ws[p], "legacy">> IN
    /\ Advance(p, "move", "hash")
    /\ bak' = [bak EXCEPT ![ws[p]][slot[p]] = file[path]]
    /\ file' = [file EXCEPT ![path] = None]
    /\ UNCHANGED <<doc, mem, ws, got, honoured, work, saved, newest>>

\* The rename onto the backup name; it replaces what is there by then.
MoveLegacy(p) ==
    LET path == <<ws[p], "legacy">> IN
    /\ Advance(p, "move", "hash")
    /\ file[path] # None
    /\ bak' = [bak EXCEPT ![ws[p]][slot[p]] = file[path]]
    /\ file' = [file EXCEPT ![path] = None]
    /\ UNCHANGED <<doc, mem, ws, got, honoured, work, saved, newest>>

\* Mutant: the file is hashed as it was loaded, before the save.
HashLocal_Loaded(p) ==
    /\ Advance(p, "hash", "read")
    /\ got[p] # NoRow
    /\ row' = [row EXCEPT ![p] = got[p]]
    /\ UNCHANGED <<disk, mem, ws, got, honoured, want, slot, buf, saved, newest>>

\* RecordTrustedLocalConfig hashes the file that is on disk now.
HashLocal(p) ==
    /\ Advance(p, "hash", "read")
    /\ OnDisk(ws[p]) # NoRow
    /\ row' = [row EXCEPT ![p] = OnDisk(ws[p])]
    /\ UNCHANGED <<disk, mem, ws, got, honoured, want, slot, buf, saved, newest>>

\* rememberRecentAgent: the list is computed on the loaded copy.
Remember(p, a) ==
    /\ Advance(p, "ready", "read")
    /\ mem' = [mem EXCEPT ![p].recent = Touch(@, a)]
    /\ row' = [row EXCEPT ![p] = NoRow]
    /\ UNCHANGED <<disk, ws, got, honoured, want, slot, buf, saved, newest>>

\* readGlobalDocument, and the read of SaveRecentAgents.
ReadDoc(p) ==
    /\ Advance(p, "read", "record")
    /\ buf' = [buf EXCEPT ![p] = doc]
    /\ UNCHANGED <<disk, mem, ws, got, honoured, want, slot, row, saved, newest>>

\* Mutant: the loaded catalog is written back with the list.
WriteRecent_Whole(p) ==
    /\ Advance(p, "record", "ready")
    /\ row[p] = NoRow
    /\ doc' = mem[p]
    /\ Forget(p)
    /\ UNCHANGED <<file, bak, mem, ws, got, honoured, saved, newest>>

WriteRecent(p) ==
    /\ Advance(p, "record", "ready")
    /\ row[p] = NoRow
    /\ doc' = [buf[p] EXCEPT !.recent = mem[p].recent]
    /\ Forget(p)
    /\ UNCHANGED <<file, bak, mem, ws, got, honoured, saved, newest>>

WriteTrusted(p) ==
    /\ Advance(p, "record", "ready")
    /\ row[p] # NoRow
    /\ doc' = [buf[p] EXCEPT !.trusted = Recorded(@, row[p])]
    /\ newest' = row[p]
    /\ Forget(p)
    /\ UNCHANGED <<file, bak, mem, ws, got, honoured, saved>>

\* A read, a write or a rename fails: the save is abandoned where it is and
\* the error goes to the operator, who is back at the selection.
Fail(p) ==
    /\ pc[p] \in {"write", "probe", "move", "hash", "read", "record"}
    /\ pc' = [pc EXCEPT ![p] = "ready"]
    /\ Forget(p)
    /\ UNCHANGED <<disk, mem, ws, got, honoured, saved, newest>>

\* The process ends, or is killed between two steps.
Stop(p) ==
    /\ pc[p] # "off"
    /\ pc' = [pc EXCEPT ![p] = "off"]
    /\ mem' = [mem EXCEPT ![p] = EmptyDoc]
    /\ got' = [got EXCEPT ![p] = NoRow]
    /\ honoured' = [honoured EXCEPT ![p] = FALSE]
    /\ Forget(p)
    /\ UNCHANGED <<disk, ws, saved, newest>>

\* Someone edits, creates or removes a workspace file.
Edit(path, c) ==
    /\ \A p \in Procs : ws[p] = path[1] => pc[p] \in EditableAt
    /\ file[path] # c
    /\ file' = [file EXCEPT ![path] = c]
    /\ UNCHANGED <<doc, bak, pc, mem, ws, got, honoured, work, saved, newest>>

Process(p) ==
    \/ Start(p) \/ CheckTrust(p) \/ WriteLocal(p) \/ NothingToMigrate(p)
    \/ PickBackup(p) \/ MoveLegacy(p) \/ HashLocal(p) \/ ReadDoc(p)
    \/ WriteRecent(p) \/ WriteTrusted(p) \/ Fail(p) \/ Stop(p)
    \/ \E n \in Names : PutName(p, n) \/ DeleteName(p, n)
    \/ \E w \in Workspaces : LoadLocal(p, w)
    \/ \E c \in Contents : Save(p, c)
    \/ \E a \in Agents : Remember(p, a)

Next == \/ \E p \in Procs : Process(p)
        \/ \E path \in Paths, c \in Edits : Edit(path, c)

Spec == Init /\ [][Next]_vars

-----------------------------------------------------------------------------
\* A trust record is a proof that a launcher wrote those bytes to that path:
\* "only the launcher can add a hash to the global config" and the hash is of
\* the file it saved (persistence_helpers.go:77).
TrustOnlySaved == Rows(doc) \subseteq saved

\* The selection saved last is trusted, whatever the process does next: "a saved
\* workspace stays saved" (ARCHITECTURE.md:131), also when the list is full.
NewestSaveTrusted == newest # NoRow => newest \in Rows(doc)

\* A workspace file the launch treats as the operator's own is one a launcher
\* wrote there (trust.go, savedLocally).
HonouredWasSaved == \A p \in Procs : honoured[p] => got[p] \in saved

\* Updating one key leaves "every other key in the file untouched"
\* (SaveRecentAgents, RecordTrustedLocalConfig).
OneKeyPerUpdate ==
    [][\A p \in Procs : pc[p] = "record" /\ pc'[p] # "record" =>
          \/ doc' = [doc EXCEPT !.recent = doc'.recent]
          \/ doc' = [doc EXCEPT !.trusted = doc'.trusted]]_vars

\* Migrating the layout loses no bytes: a legacy file goes to a backup and a
\* backup is never replaced ("moved to a recoverable .bak path").
LegacyRecoverable ==
    [][\A w \in Workspaces :
         /\ \A i \in 1..Backups : bak[w][i] # None => bak'[w][i] = bak[w][i]
         /\ LET old == file[<<w, "legacy">>] IN
            (\E p \in Procs : pc[p] = "move" /\ pc'[p] = "hash" /\ ws[p] = w)
            => old = file'[<<w, "legacy">>] \/ \E i \in 1..Backups : bak'[w][i] = old
      ]_vars
=============================================================================

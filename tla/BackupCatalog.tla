---------------------------- MODULE BackupCatalog ----------------------------
(***************************************************************************)
(* The incremental backup engine over the catalog                          *)
(* (crates/televault-backup/src/engine.rs, snapshot.rs and                 *)
(* change_detector.rs; the tables of crates/televault-db).  Every catalog  *)
(* call is a transaction of its own, so a backup is a sequence of steps    *)
(* between which another profile's backup may run, the user may edit or    *)
(* delete files, an upload or a call may fail and the process may die.     *)
(* Repairs of files and of snapshots take the same guard as the backups    *)
(* and fill storage references in (apps/desktop/src/commands/repair.rs,    *)
(* crates/televault-backup/src/repair/).                                   *)
(*                                                                         *)
(* A file is its relative path, which also determines its file_id; a       *)
(* manifest_id is the file_id and the hash of the content.  A backup and   *)
(* the snapshot it creates share an identifier.                            *)
(***************************************************************************)
EXTENDS Naturals, FiniteSets

CONSTANTS Profiles,   \* backup profiles, each with its own source directory
          Paths,      \* relative paths in those directories
          Contents,   \* file contents, as their hashes
          Backups,    \* backup runs and their snapshots
          Chunks,     \* chunks a file is cut into
          MaxEdits,   \* bound on the user's edits
          Absent,     \* no file at this path
          NoRow       \* no row in the table

ASSUME CatalogConstants ==
  /\ Chunks \in Nat \ {0}
  /\ MaxEdits \in Nat
  /\ Absent \notin [content : Contents, mtime : Nat]
  /\ NoRow \notin Contents \cup Profiles \cup Backups
  /\ \A q \in SUBSET (0..(Chunks - 1)) : NoRow # q
  /\ NoRow \notin [profile : Profiles, mtime : Nat, status : {"backed_up", "deleted"}]
  /\ NoRow \notin [scope : SUBSET (Paths \X Contents),
                   copy : {NoRow} \cup SUBSET (0..(Chunks - 1))]

VARIABLES disk,       \* the source directories
          edits,      \* edits made so far; also the clock behind mtime
          files,      \* table files, by file_id
          manifests,  \* table manifests: the chunks whose reference is filled in
          chunks,     \* table chunks: rows of each file
          versions,   \* table versions: the manifest bound to a snapshot's file
          status,     \* table snapshots
          unmarked,   \* snapshots whose last status update failed
          guard,      \* ExecutionGuard: profiles with a backup or repair in progress
          repair,     \* each profile's repair in progress
          pc, profile, plan, scanned, todo, cur, content, sent, \* each backup's thread
          up          \* the process is running

catalog == <<files, manifests, chunks, versions, status, unmarked>>
local   == <<profile, plan, scanned>>
vars    == <<disk, edits, catalog, guard, repair, pc, local, todo, cur, content, sent, up>>

FileRow == [profile : Profiles, mtime : Nat, status : {"backed_up", "deleted"}]
OnDisk  == [content : Contents, mtime : Nat]
Kind    == {"New", "Modified", "Unchanged", "Deleted", "None"}
Change  == [kind : Kind, mtime : Nat, manifest : Contents \cup {NoRow}]
Running == {"planned", "linking", "next", "record", "clear", "manifest", "upload",
            "save", "version", "deleting"}

(* The manifests a repair may write; repair_file works on the copy it read   *)
(* at its start, repair_snapshot (NoRow) reads the manifest for every chunk. *)
ChunkIndex == 0..(Chunks - 1)
Repair     == [scope : SUBSET (Paths \X Contents), copy : {NoRow} \cup SUBSET ChunkIndex]

NoChange == [kind |-> "None", mtime |-> 0, manifest |-> NoRow]

Init ==
  /\ disk \in [Profiles -> [Paths -> {Absent} \cup [content : Contents, mtime : {0}]]]
  /\ edits = 0
  /\ files = [f \in Paths |-> NoRow]
  /\ manifests = [m \in Paths \X Contents |-> NoRow]
  /\ chunks = [f \in Paths |-> 0]
  /\ versions = [b \in Backups |-> [f \in Paths |-> NoRow]]
  /\ status = [b \in Backups |-> "none"]
  /\ unmarked = {}
  /\ guard = {}
  /\ repair = [p \in Profiles |-> NoRow]
  /\ pc = [b \in Backups |-> "idle"]
  /\ profile = [b \in Backups |-> NoRow]
  /\ plan = [b \in Backups |-> [f \in Paths |-> NoChange]]
  /\ scanned = [b \in Backups |-> [f \in Paths |-> Absent]]
  /\ todo = [b \in Backups |-> {}]
  /\ cur = [b \in Backups |-> NoRow]
  /\ content = [b \in Backups |-> NoRow]
  /\ sent = [b \in Backups |-> 0]
  /\ up = TRUE

(* The user writes, touches or deletes a file.  Every write gives it a new   *)
(* modification time.                                                        *)
Edit(p, f) ==
  /\ edits < MaxEdits
  /\ edits' = edits + 1
  /\ \/ \E c \in Contents :
          disk' = [disk EXCEPT ![p][f] = [content |-> c, mtime |-> edits + 1]]
     \/ disk[p][f] # Absent /\ disk' = [disk EXCEPT ![p][f] = Absent]
  /\ UNCHANGED <<catalog, guard, repair, pc, local, todo, cur, content, sent, up>>

(* get_latest_snapshot orders by created_at, which create_snapshot writes as *)
(* a constant, and does not look at the status: any row of the profile may   *)
(* come first.                                                               *)
LatestSnapshot(p) ==
  LET rows == {b \in Backups : status[b] # "none" /\ profile[b] = p}
  IN  IF rows = {} THEN {NoRow} ELSE rows

(* What scan_directory returns: the profile's files, without those whose     *)
(* metadata or directory could not be read.  Paths are those the profile's   *)
(* rules include; a missing root fails the planning, which changes nothing.  *)
Scans(p) == {[f \in Paths |-> IF f \in seen THEN disk[p][f] ELSE Absent] :
               seen \in SUBSET Paths}

(* list_files_by_snapshot for one path: the version the snapshot binds.  It  *)
(* is joined with the one files row of the path, as that is now.             *)
PreviousVersion(base, f) == IF base = NoRow THEN NoRow ELSE versions[base][f]

(* detect_changes for one path of a scan, against the versions of `base`.    *)
DetectChange(scan, base, f) ==
  LET here == scan[f]
      prev == PreviousVersion(base, f)
      kind == IF here = Absent THEN (IF prev = NoRow THEN "None" ELSE "Deleted")
              ELSE IF prev = NoRow THEN "New"
              ELSE IF files[f].mtime = here.mtime THEN "Unchanged" ELSE "Modified"
  IN  [kind |-> kind, manifest |-> prev,
       mtime |-> IF here # Absent THEN here.mtime
                 ELSE IF prev # NoRow THEN files[f].mtime ELSE 0]

(* Mutant: a second backup of a profile is not refused. *)
TryAcquireAlways(p) == guard' = guard \cup {p}

TryAcquire(p) ==
  /\ p \notin guard
  /\ guard' = guard \cup {p}

(* start_backup takes the profile's guard or is refused, then plan_backup    *)
(* scans the directory and compares it with the latest snapshot.  One step:  *)
(* nobody else writes the rows of this profile, and an edit after the scan   *)
(* of a file is the same as one after the planning.                          *)
PlanBackup(b, p) ==
  /\ up
  /\ pc[b] = "idle"
  /\ TryAcquire(p)
  /\ profile' = [profile EXCEPT ![b] = p]
  /\ \E scan \in Scans(p), base \in LatestSnapshot(p) :
       /\ scanned' = [scanned EXCEPT ![b] = scan]
       /\ plan' = [plan EXCEPT ![b] = [f \in Paths |-> DetectChange(scan, base, f)]]
  /\ pc' = [pc EXCEPT ![b] = "planned"]
  /\ UNCHANGED <<disk, edits, repair, catalog, todo, cur, content, sent, up>>

Planned(b, kinds) == {f \in Paths : plan[b][f].kind \in kinds}

Goto(b, label) == pc' = [pc EXCEPT ![b] = label]

CreateSnapshot(b) ==
  /\ pc[b] = "planned"
  /\ Goto(b, "linking")
  /\ status' = [status EXCEPT ![b] = "BackingUp"]
  /\ todo' = [todo EXCEPT ![b] = Planned(b, {"Unchanged"})]
  /\ UNCHANGED <<disk, edits, repair, files, manifests, chunks, versions, unmarked, guard, local,
                 cur, content, sent, up>>

(* An unchanged file: a version row on the manifest of the base snapshot. *)
LinkUnchanged(b) ==
  /\ pc[b] = "linking"
  /\ \/ \E f \in todo[b] :
          /\ versions' = [versions EXCEPT ![b][f] = plan[b][f].manifest]
          /\ todo' = [todo EXCEPT ![b] = @ \ {f}]
          /\ UNCHANGED pc
     \/ /\ todo[b] = {}
        /\ todo' = [todo EXCEPT ![b] = Planned(b, {"New", "Modified"})]
        /\ Goto(b, "next")
        /\ UNCHANGED versions
  /\ UNCHANGED <<disk, edits, repair, files, manifests, chunks, status, unmarked, guard, local, cur,
                 content, sent, up>>

(* process_file reads the file into staged chunks; the manifest is named     *)
(* after the hash of what was read.                                          *)
LogicalFileHash(p, f) == disk[p][f].content

(* Mutant: files that can not be opened are passed over. *)
ProcessSkipsMissing(b) ==
  /\ pc[b] = "next"
  /\ LET there == {f \in todo[b] : disk[profile[b]][f] # Absent}
     IN  \/ \E f \in there :
              /\ cur' = [cur EXCEPT ![b] = f]
              /\ content' = [content EXCEPT ![b] = LogicalFileHash(profile[b], f)]
              /\ Goto(b, "record")
              /\ UNCHANGED todo
         \/ /\ there = {}
            /\ todo' = [todo EXCEPT ![b] = Planned(b, {"Deleted"})]
            /\ Goto(b, "deleting")
            /\ UNCHANGED <<cur, content>>
  /\ UNCHANGED <<disk, edits, repair, catalog, guard, local, sent, up>>

(* The next new or modified file is opened and read, as it is now.  The code *)
(* takes the files in the order of their paths, here they come in any order. *)
ProcessFile(b) ==
  /\ pc[b] = "next"
  /\ \/ \E f \in todo[b] :
          /\ disk[profile[b]][f] # Absent
          /\ cur' = [cur EXCEPT ![b] = f]
          /\ content' = [content EXCEPT ![b] = LogicalFileHash(profile[b], f)]
          /\ Goto(b, "record")
          /\ UNCHANGED todo
     \/ /\ todo[b] = {}
        /\ todo' = [todo EXCEPT ![b] = Planned(b, {"Deleted"})]
        /\ Goto(b, "deleting")
        /\ UNCHANGED <<cur, content>>
  /\ UNCHANGED <<disk, edits, repair, catalog, guard, local, sent, up>>

(* UPDATE of the row of a file, which keeps its profile. *)
UpdateFile(b, f, s) ==
  /\ files[f] # NoRow
  /\ files' = [files EXCEPT ![f].mtime = plan[b][f].mtime, ![f].status = s]

(* Mutant: create_file is an upsert. *)
CreateFileUpserts(b, f) ==
  files' = [files EXCEPT ![f] = [profile |-> IF @ = NoRow THEN profile[b] ELSE @.profile,
                                 mtime |-> plan[b][f].mtime, status |-> "backed_up"]]

(* INSERT, which fails when the file_id has a row. *)
CreateFile(b, f) ==
  /\ files[f] = NoRow
  /\ files' = [files EXCEPT ![f] = [profile |-> profile[b], mtime |-> plan[b][f].mtime,
                                    status |-> "backed_up"]]

(* The row takes size and time from the scan, not from what was read. *)
RecordFile(b) ==
  /\ pc[b] = "record"
  /\ \/ /\ plan[b][cur[b]].kind = "New"
        /\ CreateFile(b, cur[b])
        /\ Goto(b, "manifest")
     \/ /\ plan[b][cur[b]].kind = "Modified"
        /\ UpdateFile(b, cur[b], "backed_up")
        /\ Goto(b, "clear")
  /\ UNCHANGED <<disk, edits, repair, manifests, chunks, versions, status, unmarked, guard, local,
                 todo, cur, content, sent, up>>

DeleteChunks(b) ==
  /\ pc[b] = "clear"
  /\ chunks' = [chunks EXCEPT ![cur[b]] = 0]
  /\ Goto(b, "manifest")
  /\ UNCHANGED <<disk, edits, repair, files, manifests, versions, status, unmarked, guard, local, todo,
                 cur, content, sent, up>>

(* The first save_manifest: an upsert with every reference Pending. *)
SavePendingManifest(b) ==
  /\ pc[b] = "manifest"
  /\ manifests' = [manifests EXCEPT ![<<cur[b], content[b]>>] = {}]
  /\ sent' = [sent EXCEPT ![b] = 0]
  /\ Goto(b, "upload")
  /\ UNCHANGED <<disk, edits, repair, files, chunks, versions, status, unmarked, guard, local, todo,
                 cur, content, up>>

(* execute_staged_upload returned a reference; create_chunk inserts the row. *)
UploadChunk(b) ==
  /\ pc[b] = "upload"
  /\ chunks[cur[b]] = sent[b]
  /\ chunks' = [chunks EXCEPT ![cur[b]] = @ + 1]
  /\ sent' = [sent EXCEPT ![b] = @ + 1]
  /\ Goto(b, IF sent[b] + 1 = Chunks THEN "save" ELSE "upload")
  /\ UNCHANGED <<disk, edits, repair, files, manifests, versions, status, unmarked, guard, local, todo,
                 cur, content, up>>

(* Mutant: the manifest is not saved again after the uploads. *)
SaveForgotten(b) ==
  /\ pc[b] = "save"
  /\ Goto(b, "version")
  /\ UNCHANGED <<disk, edits, repair, catalog, guard, local, todo, cur, content, sent, up>>

(* Mutant: the manifest that comes back is taken for one still to be sent. *)
SaveAndSendAgain(b) ==
  /\ pc[b] = "save"
  /\ manifests' = [manifests EXCEPT ![<<cur[b], content[b]>>] = ChunkIndex]
  /\ Goto(b, "clear")
  /\ UNCHANGED <<disk, edits, repair, files, chunks, versions, status, unmarked, guard, local,
                 todo, cur, content, sent, up>>

SaveManifest(b) ==
  /\ pc[b] = "save"
  /\ manifests' = [manifests EXCEPT ![<<cur[b], content[b]>>] = ChunkIndex]
  /\ Goto(b, "version")
  /\ UNCHANGED <<disk, edits, repair, files, chunks, versions, status, unmarked, guard, local, todo,
                 cur, content, sent, up>>

CreateVersion(b) ==
  /\ pc[b] = "version"
  /\ versions' = [versions EXCEPT ![b][cur[b]] = content[b]]
  /\ todo' = [todo EXCEPT ![b] = @ \ {cur[b]}]
  /\ Goto(b, "next")
  /\ UNCHANGED <<disk, edits, repair, files, manifests, chunks, status, unmarked, guard, local, cur,
                 content, sent, up>>

Release(p) == guard' = guard \ {p}

(* Deleted files: the row read at planning time goes back as `deleted`, and  *)
(* an error of that call is ignored.  Then the snapshot is Completed.        *)
FinishBackup(b) ==
  /\ pc[b] = "deleting"
  /\ \/ \E f \in todo[b] :
          /\ UpdateFile(b, f, "deleted") \/ UNCHANGED files
          /\ todo' = [todo EXCEPT ![b] = @ \ {f}]
          /\ UNCHANGED <<status, pc, guard>>
     \/ /\ todo[b] = {}
        /\ status' = [status EXCEPT ![b] = "Completed"]
        /\ Goto(b, "ended")
        /\ Release(profile[b])
        /\ UNCHANGED <<files, todo>>
  /\ UNCHANGED <<disk, edits, repair, manifests, chunks, versions, unmarked, local, cur, content,
                 sent, up>>

(* A cancellation check, a failed upload, an unreadable file or a catalog    *)
(* error ends the backup: fail_snapshot, whose own error is ignored, and the *)
(* guard is dropped.  Marking deleted files can not fail the backup, only    *)
(* the last status update can.                                               *)
AbortBackup(b) ==
  /\ pc[b] \in Running
  /\ pc[b] = "deleting" => todo[b] = {}
  /\ \/ /\ status' = [status EXCEPT ![b] = IF @ = "BackingUp" THEN "Failed" ELSE @]
        /\ UNCHANGED unmarked
     \/ /\ status[b] = "BackingUp"
        /\ unmarked' = unmarked \cup {b}
        /\ UNCHANGED status
  /\ Goto(b, "ended")
  /\ Release(profile[b])
  /\ UNCHANGED <<disk, edits, repair, files, manifests, chunks, versions, local, todo, cur,
                 content, sent, up>>

Owned(p, f) == files[f] # NoRow /\ files[f].profile = p

(* repair_file and repair_snapshot take the profile's guard or are refused.  *)
BeginRepair(p) ==
  /\ up
  /\ TryAcquire(p)
  /\ \/ \E m \in Paths \X Contents :
          /\ Owned(p, m[1]) /\ manifests[m] # NoRow
          /\ repair' = [repair EXCEPT ![p] = [scope |-> {m}, copy |-> manifests[m]]]
     \/ \E b \in Backups :
          /\ status[b] # "none" /\ profile[b] = p
          /\ repair' = [repair EXCEPT ![p] =
                          [scope |-> {m \in Paths \X Contents : versions[b][m[1]] = m[2]},
                           copy |-> NoRow]]
  /\ UNCHANGED <<disk, edits, catalog, pc, local, todo, cur, content, sent, up>>

(* atomic_apply_chunk_repair, one transaction that needs the row of chunk    *)
(* `i` and that of the manifest: the reference of the chunk is replaced in   *)
(* `read`, the manifest the caller has read.                                 *)
ApplyChunkRepair(m, read, i) ==
  /\ i < chunks[m[1]]
  /\ manifests[m] # NoRow
  /\ manifests' = [manifests EXCEPT ![m] = read \cup {i}]

(* repair_single_chunk uploads one chunk from the source file again and      *)
(* applies it.  Verification decides which chunks need it: here any of them. *)
RepairChunk(p) ==
  /\ repair[p] # NoRow
  /\ \E m \in repair[p].scope, i \in ChunkIndex :
       /\ Owned(p, m[1])
       /\ disk[p][m[1]] # Absent
       /\ ApplyChunkRepair(m, IF repair[p].copy = NoRow THEN manifests[m]
                               ELSE repair[p].copy, i)
  /\ UNCHANGED <<disk, edits, files, chunks, versions, status, unmarked, guard, repair, pc,
                 local, todo, cur, content, sent, up>>

(* All candidates were tried, the repair was cancelled or its preview failed. *)
EndRepair(p) ==
  /\ repair[p] # NoRow
  /\ repair' = [repair EXCEPT ![p] = NoRow]
  /\ Release(p)
  /\ UNCHANGED <<disk, edits, catalog, pc, local, todo, cur, content, sent, up>>

Crash ==
  /\ up
  /\ up' = FALSE
  /\ pc' = [b \in Backups |-> IF pc[b] \in Running THEN "dead" ELSE pc[b]]
  /\ guard' = {}
  /\ repair' = [p \in Profiles |-> NoRow]
  /\ UNCHANGED <<disk, edits, catalog, local, todo, cur, content, sent>>

(* Mutant: startup reconciles nothing. *)
RestartOnly ==
  /\ ~up
  /\ up' = TRUE
  /\ UNCHANGED <<disk, edits, repair, catalog, guard, pc, local, todo, cur, content, sent>>

(* Mutant: startup writes a status that is not one. *)
RestartInterrupted ==
  /\ ~up
  /\ up' = TRUE
  /\ status' = [b \in Backups |-> IF status[b] = "BackingUp" THEN "interrupted" ELSE status[b]]
  /\ unmarked' = {}
  /\ UNCHANGED <<disk, edits, repair, files, manifests, chunks, versions, guard, pc, local, todo,
                 cur, content, sent>>

(* Startup: reconcile_interrupted_operations is one transaction; when it     *)
(* fails the application starts all the same.                                *)
Restart ==
  /\ ~up
  /\ up' = TRUE
  /\ \/ /\ status' = [b \in Backups |->
                       IF status[b] = "BackingUp" THEN "Failed" ELSE status[b]]
        /\ unmarked' = {}
     \/ /\ unmarked' = {b \in Backups : status[b] = "BackingUp"}
        /\ UNCHANGED status
  /\ UNCHANGED <<disk, edits, repair, files, manifests, chunks, versions, guard, pc, local, todo,
                 cur, content, sent>>

Step(b) == CreateSnapshot(b) \/ LinkUnchanged(b) \/ ProcessFile(b) \/ RecordFile(b)
             \/ DeleteChunks(b) \/ SavePendingManifest(b) \/ UploadChunk(b)
             \/ SaveManifest(b) \/ CreateVersion(b) \/ FinishBackup(b)

Next == \/ \E p \in Profiles : \/ \E f \in Paths : Edit(p, f)
                               \/ \E b \in Backups : PlanBackup(b, p)
                               \/ BeginRepair(p) \/ RepairChunk(p) \/ EndRepair(p)
        \/ \E b \in Backups : Step(b) \/ AbortBackup(b)
        \/ Crash
        \/ Restart

Spec == Init /\ [][Next]_vars

(* The thread of a running backup goes on, to its end or into an error. *)
FairSpec == Spec /\ \A b \in Backups : WF_vars(Step(b) \/ AbortBackup(b))

------------------------------------------------------------------------------

TypeOK ==
  /\ disk \in [Profiles -> [Paths -> OnDisk \cup {Absent}]]
  /\ edits \in Nat
  /\ files \in [Paths -> FileRow \cup {NoRow}]
  /\ manifests \in [Paths \X Contents -> {NoRow} \cup SUBSET ChunkIndex]
  /\ chunks \in [Paths -> Nat]
  /\ versions \in [Backups -> [Paths -> Contents \cup {NoRow}]]
  /\ status \in [Backups -> {"none", "BackingUp", "Completed", "Failed"}]
  /\ unmarked \subseteq Backups
  /\ guard \subseteq Profiles
  /\ repair \in [Profiles -> Repair \cup {NoRow}]
  /\ pc \in [Backups -> {"idle", "ended", "dead"} \cup Running]
  /\ profile \in [Backups -> Profiles \cup {NoRow}]
  /\ plan \in [Backups -> [Paths -> Change]]
  /\ scanned \in [Backups -> [Paths -> OnDisk \cup {Absent}]]
  /\ todo \in [Backups -> SUBSET Paths]
  /\ cur \in [Backups -> Paths \cup {NoRow}]
  /\ content \in [Backups -> Contents \cup {NoRow}]
  /\ sent \in [Backups -> Nat]
  /\ up \in BOOLEAN

(* Nothing else works on a profile while a backup of it runs: manual and     *)
(* scheduled backups and repairs share the ExecutionGuard.  It is held from  *)
(* planning to the last update, through every failure, and is given back     *)
(* after it, so that no profile stays locked out.                            *)
OneBackupPerProfile ==
  LET running == {b \in Backups : pc[b] \in Running}
      repaired == {p \in Profiles : repair[p] # NoRow}
  IN  /\ \A a, b \in running : profile[a] = profile[b] => a = b
      /\ \A b \in running : profile[b] \notin repaired
      /\ guard = {profile[b] : b \in running} \cup repaired

(* A snapshot is Completed only with a version for every file its scan saw,  *)
(* and for no other: no file is dropped on the way, whatever failed.         *)
CompletedCoversScan ==
  \A b \in Backups : status[b] = "Completed" =>
    \A f \in Paths : versions[b][f] = NoRow <=> scanned[b][f] = Absent

(* Snapshots never mix profiles: file_ids ignore the profile, yet a version  *)
(* in a profile's snapshot is of a file whose row belongs to that profile.   *)
OwnFilesOnly ==
  \A b \in Backups, f \in Paths :
    versions[b][f] # NoRow => files[f] # NoRow /\ files[f].profile = profile[b]

(* `b` has read `f` to upload it and has not come to its version row: it is  *)
(* at it, or it failed or died there.                                        *)
Interrupted(b, f) == cur[b] = f /\ f \in todo[b] /\ f \in Planned(b, {"New", "Modified"})

(* Two-stage manifests and deleted chunk rows are made good by the same      *)
(* backup: a version whose manifest is still Pending, or a versioned file    *)
(* that lacks chunk rows, needs a backup that was interrupted at that file.  *)
(* Repairs never add to the damage.                                          *)
DamageNeedsInterruption ==
  \A b \in Backups, f \in Paths :
    (/\ versions[b][f] # NoRow
     /\ manifests[<<f, versions[b][f]>>] # ChunkIndex \/ chunks[f] # Chunks)
    => \E a \in Backups : Interrupted(a, f)

(* A snapshot that says BackingUp while the application runs has its backup  *)
(* at work: aborts, crashes and restarts leave no such row behind, unless    *)
(* the update of its status failed.                                          *)
Reconciled ==
  up => \A b \in Backups :
          status[b] = "BackingUp" => pc[b] \in Running \/ b \in unmarked

(* Every backup that runs ends, completed or not, unless the process dies. *)
BackupsEnd ==
  \A b \in Backups : pc[b] \in Running ~> pc[b] \in {"ended", "dead"}

(* "Each unique version retains an immutable manifest row in SQLite,         *)
(* guaranteeing accurate historical recovery" (KNOWN_FAILURES.md:74): the    *)
(* manifests of a Completed snapshot keep their storage references.          *)
CompletedRestorable ==
  \A b \in Backups : status[b] = "Completed" =>
    \A f \in Paths : versions[b][f] # NoRow => manifests[<<f, versions[b][f]>>] = ChunkIndex

(* "Multi-generation incremental backups support point-in-time recovery"     *)
(* (README.md:109): a Completed snapshot links an unchanged file to the      *)
(* manifest of the content it has.                                           *)
UnchangedIsCurrent ==
  \A b \in Backups : status[b] = "Completed" =>
    \A f \in Planned(b, {"Unchanged"}) : versions[b][f] = scanned[b][f].content

(* "Cold restart recovery detects incomplete in-flight snapshots and         *)
(* recovers gracefully" (KNOWN_FAILURES.md:79): the next backup does not     *)
(* insert a file the interrupted one has already inserted.                   *)
RetryInsertsNothingTwice ==
  \A b \in Backups :
    pc[b] = "record" /\ plan[b][cur[b]].kind = "New" => files[cur[b]] = NoRow
==============================================================================

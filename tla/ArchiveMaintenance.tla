-------------------------- MODULE ArchiveMaintenance --------------------------
(***************************************************************************)
(* Maintenance of the music archive: cleanup, which removes library        *)
(* entries whose files are gone, and rebuild, which removes the entries of *)
(* unmanaged music and reads them from the files again.                    *)
(*                                                                         *)
(* A job is previewed first and executed later, one transaction for each   *)
(* entry or file.  Users go on working: what they have recorded about a    *)
(* recording protects it, and is looked up again when the job runs.        *)
(* Cleanup holds row locks on the entry and its recording while it looks;  *)
(* rebuild holds none, and its items can be imported by users as well.     *)
(*                                                                         *)
(* Every file is linked to its recording here; linking new files is what   *)
(* FlacIngest models.                                                      *)
(***************************************************************************)
EXTENDS Integers, FiniteSets

CONSTANTS
  Recording, Path, Job, Worker,
  RecordingOf,  \* the recording each file is linked to
  Scopes,       \* bound: the folders jobs are created for, as sets of paths
  MaxEvents,    \* bound: acts of users, changes on disk, deaths of workers
  None

ASSUME MaintenanceAssumption ==
  /\ IsFiniteSet(Recording)
  /\ RecordingOf \in [Path -> Recording]
  /\ Scopes \subseteq SUBSET Path
  /\ MaxEvents \in Nat
  /\ None \notin Recording \cup Job

VARIABLES
  disk,      \* files that are there
  location,  \* status of each file's location; "historical" is not current
  entry,     \* MusicLibraryEntry of each recording
  born,      \* entries created so far; the last is the identity of the newest
  managed,   \* recordings in managed music
  claimed,   \* recordings with rights claims, file derivations, duplicates...
  assessed,  \* recordings with assertions decided by a user
  edited,    \* changed after the last reading of a file
  job,       \* FlacMaintenanceJob rows
  items,     \* FlacIngestItem rows of each rebuild's own scan
  started,   \* how often each job was started (not in the program)
  late,      \* recordings something was recorded about after a job had looked
             \* at what protects them and before it was done (not in the program)
  work,      \* what a running job has in memory
  events

knowledge == <<managed, claimed, assessed>>
vars == <<disk, location, entry, born, knowledge, edited, job, items, started,
          late, work, events>>

Entry == [id : Nat, notes : BOOLEAN]
Status == {"preview", "running", "partial", "completed", "failed"}

\* plan: the entries to remove by cleanup, or the recordings to rebuild, with
\* the identity of their entry (0: none); spared: an entry of it is kept.
JobRow == [kind : {"cleanup", "rebuild"}, status : Status,
           scope : SUBSET Path, target : Recording \cup {None},
           plan : SUBSET (Recording \X Nat), spared : BOOLEAN]

\* An item of the scan can be applied, by the rebuild or by a user.
ItemStatus == {"none", "ready", "conflict", "rebuilt", "imported"}

\* files: what is left of a rebuild, or the locations a cleanup has looked at.
Work == [job : Job,
         at : {"cleanup", "remove", "delete", "scan", "rebuild", "apply"},
         entries : SUBSET (Recording \X Nat), files : SUBSET Path,
         rec : Recording \cup {None}, file : Path \cup {None},
         reset : SUBSET Recording, failed : BOOLEAN]

ASSUME NullAssumption == None \notin Entry /\ None \notin JobRow

TypeOK ==
  /\ disk \subseteq Path
  /\ location \in [Path -> {"active", "missing", "historical"}]
  /\ entry \in [Recording -> Entry \cup {None}]
  /\ born \in Nat
  /\ managed \subseteq Recording /\ claimed \subseteq Recording
  /\ assessed \subseteq Recording /\ edited \subseteq Recording
  /\ job \in [Job -> JobRow \cup {None}]
  /\ items \in [Job -> [Path -> ItemStatus]]
  /\ started \in [Job -> Nat]
  /\ late \subseteq Recording
  /\ work \in [Worker -> Work \cup {None}]
  /\ events \in 0..MaxEvents

\* Every file was imported, and some are gone since.
Init ==
  /\ disk \in SUBSET Path
  /\ location = [p \in Path |-> "active"]
  /\ born = Cardinality(Recording)
  /\ entry = CHOOSE f \in [Recording -> [id : 1..born, notes : {FALSE}]] :
               \A q, r \in Recording : q # r => f[q].id # f[r].id
  /\ managed = {} /\ claimed = {} /\ assessed = {} /\ edited = {}
  /\ job = [j \in Job |-> None]
  /\ items = [j \in Job |-> [p \in Path |-> "none"]]
  /\ started = [j \in Job |-> 0]
  /\ late = {}
  /\ work = [w \in Worker |-> None]
  /\ events = 0

-----------------------------------------------------------------------------
(* What protects a recording, and what the preview lists.                  *)

\* _protection_map
Protected(r) ==
  \/ r \in managed \cup claimed \cup assessed \cup edited
  \/ entry[r] # None /\ entry[r].notes

Files(r) == {p \in Path : RecordingOf[p] = r}

\* Current locations of a recording in a folder (_radio_rows, _within_scope).
Current(r, scope) == {p \in Files(r) \cap scope : location[p] # "historical"}
Existing(r, scope) == Current(r, scope) \cap disk
Missing(r, scope) == Current(r, scope) \ disk

\* The recordings a preview looks at.
Rows(scope, target) ==
  {r \in Recording : /\ target \in {None, r}
                     /\ scope = Path \/ Files(r) \cap scope # {}}

EntryId(r) == IF entry[r] = None THEN 0 ELSE entry[r].id

\* A targeted preview takes its recording whatever files it has.
Listed(r, scope, target) ==
  target # None \/ Missing(r, scope) # {} \/ Existing(r, scope) = {}

Removable(r, scope, target) ==
  /\ entry[r] # None
  /\ ~Protected(r)
  /\ target # None \/ Existing(r, scope) = {}

PreviewCleanup(j, scope, target) ==
  LET listed == {r \in Rows(scope, target) : Listed(r, scope, target)}
      removable == {r \in listed : Removable(r, scope, target)}
  IN
  /\ job[j] = None
  /\ job' = [job EXCEPT ![j] =
       [kind |-> "cleanup", status |-> "preview", scope |-> scope,
        target |-> target, plan |-> {<<r, EntryId(r)>> : r \in removable},
        spared |-> listed # removable]]
  /\ UNCHANGED <<disk, location, entry, born, knowledge, edited, items, started,
                 late, work, events>>

PreviewRebuild(j, scope) ==
  /\ job[j] = None
  /\ job' = [job EXCEPT ![j] =
       [kind |-> "rebuild", status |-> "preview", scope |-> scope,
        target |-> None,
        plan |-> {<<r, EntryId(r)>> :
                   r \in {q \in Rows(scope, None) :
                            ~Protected(q) /\ Existing(q, scope) # {}}},
        spared |-> FALSE]]
  /\ UNCHANGED <<disk, location, entry, born, knowledge, edited, items, started,
                 late, work, events>>

-----------------------------------------------------------------------------
(* Execution.                                                              *)

\* Mutant of Startable: the page that showed the preview is believed.
ShownToUser(j) == job[j] # None /\ job[j].status \in {"preview", "running"}

\* _start reads the row under a lock.
Startable(j) == job[j] # None /\ job[j].status = "preview"

Start(w, j) ==
  /\ work[w] = None
  /\ Startable(j)
  /\ job' = [job EXCEPT ![j].status = "running"]
  /\ started' = [started EXCEPT ![j] = @ + 1]
  /\ work' = [work EXCEPT ![w] =
       [job |-> j, at |-> IF job[j].kind = "cleanup" THEN "cleanup" ELSE "scan",
        entries |-> IF job[j].kind = "cleanup" THEN job[j].plan ELSE {},
        files |-> {}, rec |-> None, file |-> None, reset |-> {},
        failed |-> job[j].spared]]
  /\ UNCHANGED <<disk, location, entry, born, knowledge, edited, items, late, events>>

Doing(w, at) == work[w] # None /\ work[w].at = at
JobOf(w) == job[work[w].job]

\* A cleanup holds the rows of the entry and its recording until it is done.
Locked(r) ==
  \E w \in Worker : (Doing(w, "remove") \/ Doing(w, "delete")) /\ work[w].rec = r

\* Mutant of Spared: the preview has looked already.
SparedByPlan(r, id) == EntryId(r) # id

\* The entry is gone, or something protects it by now.
Spared(r, id) == EntryId(r) # id \/ Protected(r)

CleanupCheck(w, i) ==
  LET spared == Spared(i[1], i[2]) IN
  /\ Doing(w, "cleanup") /\ i \in work[w].entries
  /\ ~Locked(i[1])
  /\ work' = [work EXCEPT ![w] =
       IF spared
       THEN [work[w] EXCEPT !.entries = @ \ {i}, !.failed = TRUE]
       ELSE [work[w] EXCEPT !.entries = @ \ {i}, !.rec = i[1], !.at = "remove"]]
  /\ late' = IF spared THEN late ELSE late \ {i[1]}
  /\ UNCHANGED <<disk, location, entry, born, knowledge, edited, job, items,
                 started, events>>

\* A file of the recording is back, wherever it is.
Returned(w, r) == Existing(r, Path) # {}

\* The locations are looked at, and the disk; only then is anything deleted.
CleanupLook(w) ==
  LET r == work[w].rec IN
  /\ Doing(w, "remove")
  /\ JobOf(w).target # None \/ ~Returned(w, r)
  /\ work' = [work EXCEPT ![w].at = "delete", ![w].files = Current(r, Path)]
  /\ UNCHANGED <<disk, location, entry, born, knowledge, edited, job, items,
                 started, late, events>>

\* An entry that is kept makes the job partial.
CleanupBlocked(w) ==
  /\ Doing(w, "remove")
  /\ JobOf(w).target = None /\ Returned(w, work[w].rec)
  /\ work' = [work EXCEPT ![w].at = "cleanup", ![w].rec = None,
                          ![w].failed = TRUE]
  /\ UNCHANGED <<disk, location, entry, born, knowledge, edited, job, items,
                 started, late, events>>

\* Mutant of Marked: only the locations in the folder of the job.
MarkedInScope(w) == work[w].files \cap JobOf(w).scope

\* The locations that stop being active with the entry.
Marked(w) == work[w].files

CleanupRemove(w) ==
  /\ Doing(w, "delete")
  /\ entry' = [entry EXCEPT ![work[w].rec] = None]
  /\ location' = [p \in Path |->
       IF p \notin Marked(w) THEN location[p]
       ELSE IF JobOf(w).target # None THEN "historical" ELSE "missing"]
  /\ work' = [work EXCEPT ![w].at = "cleanup", ![w].rec = None, ![w].files = {}]
  /\ UNCHANGED <<disk, born, knowledge, edited, job, items, started, late, events>>

\* A job ends when nothing is left of it.
Finish(w) ==
  /\ work[w] # None /\ work[w].at \in {"cleanup", "rebuild"}
  /\ work[w].entries = {} /\ work[w].files = {}
  /\ job' = [job EXCEPT ![work[w].job].status =
               IF work[w].failed THEN "partial" ELSE "completed"]
  /\ work' = [work EXCEPT ![w] = None]
  /\ UNCHANGED <<disk, location, entry, born, knowledge, edited, items, started,
                 late, events>>

\* The scan of a rebuild: every file of the folder is read, and the locations
\* of files that are gone are marked (reconcile_missing_file_locations).
RebuildScan(w) ==
  /\ Doing(w, "scan")
  /\ location' = [p \in Path |->
       IF p \in JobOf(w).scope \ disk /\ location[p] # "historical"
       THEN "missing" ELSE location[p]]
  /\ items' = [items EXCEPT ![work[w].job] =
       [p \in Path |-> IF p \in JobOf(w).scope \cap disk THEN "ready" ELSE "none"]]
  /\ work' = [work EXCEPT ![w].at = "rebuild",
                          ![w].files = JobOf(w).scope \cap disk]
  /\ UNCHANGED <<disk, entry, born, knowledge, edited, job, started, late, events>>

Planned(w, r) == \E i \in JobOf(w).plan : i[1] = r

\* A file of a recording outside the plan, or one that is protected by now, is
\* skipped; a recording that was reset is not looked at again.
RebuildSkip(w, p) ==
  LET r == RecordingOf[p] IN
  /\ Doing(w, "rebuild") /\ p \in work[w].files
  /\ \/ ~Planned(w, r)
     \/ r \notin work[w].reset /\ Protected(r)
  /\ work' = [work EXCEPT ![w].files = @ \ {p}]
  /\ UNCHANGED <<disk, location, entry, born, knowledge, edited, job, items,
                 started, late, events>>

\* The items were read when the scan was done: one that a user has imported
\* since still looks as if it could be applied.
RebuildCheck(w, p) ==
  LET r == RecordingOf[p] IN
  /\ Doing(w, "rebuild") /\ p \in work[w].files
  /\ Planned(w, r)
  /\ r \in work[w].reset \/ ~Protected(r)
  /\ work' = [work EXCEPT ![w].files = @ \ {p}, ![w].file = p, ![w].at = "apply"]
  /\ late' = IF r \in work[w].reset THEN late ELSE late \ {r}
  /\ UNCHANGED <<disk, location, entry, born, knowledge, edited, job, items,
                 started, events>>

\* The scan left the file in conflict, or it could not be read.
RebuildConflict(w, p) ==
  /\ Doing(w, "rebuild") /\ p \in work[w].files
  /\ Planned(w, RecordingOf[p])
  /\ items[work[w].job][p] = "ready"
  /\ items' = [items EXCEPT ![work[w].job][p] = "conflict"]
  /\ work' = [work EXCEPT ![w].files = @ \ {p}, ![w].failed = TRUE]
  /\ UNCHANGED <<disk, location, entry, born, knowledge, edited, job, started,
                 late, events>>

\* A managed recording protects its entry from deletion in the database.
Resets(w) == RecordingOf[work[w].file] \notin work[w].reset
Refused(w) == Resets(w) /\ RecordingOf[work[w].file] \in managed

\* apply_item reads the item again under its lock (can_apply).
CanApply(w) == items[work[w].job][work[w].file] = "ready"

\* The entry after apply_item: deleted first and made again, or kept.
Reread(w, r) ==
  IF Resets(w) \/ entry[r] = None THEN [id |-> born + 1, notes |-> FALSE]
  ELSE entry[r]

\* One transaction: the entry is deleted and the file is imported.
RebuildApply(w) ==
  LET p == work[w].file
      r == RecordingOf[p] IN
  /\ Doing(w, "apply")
  /\ ~Locked(r)
  /\ CanApply(w)
  /\ p \in disk
  /\ ~Refused(w)
  /\ entry' = [entry EXCEPT ![r] = Reread(w, r)]
  /\ born' = IF Reread(w, r) = entry[r] THEN born ELSE born + 1
  /\ location' = [location EXCEPT ![p] = "active"]
  /\ edited' = edited \ {r}
  /\ items' = [items EXCEPT ![work[w].job][p] = "rebuilt"]
  /\ work' = [work EXCEPT ![w].at = "rebuild", ![w].file = None,
                          ![w].reset = @ \cup {r}]
  /\ UNCHANGED <<disk, knowledge, job, started, late, events>>

\* The entry is deleted, and apply_item returns: a user has imported the file.
\* Nothing fails, so the deletion is committed and counted as a rebuilt entry.
RebuildGone(w) ==
  LET r == RecordingOf[work[w].file] IN
  /\ Doing(w, "apply")
  /\ ~Locked(r)
  /\ ~CanApply(w)
  /\ ~Refused(w)
  /\ entry' = IF Resets(w) THEN [entry EXCEPT ![r] = None] ELSE entry
  /\ work' = [work EXCEPT ![w].at = "rebuild", ![w].file = None,
                          ![w].reset = @ \cup {r}]
  /\ UNCHANGED <<disk, location, born, knowledge, edited, job, items, started,
                 late, events>>

\* The deletion is refused, or the import is after it: all of it is undone, but
\* after a deletion the recording still counts as reset.
RebuildFails(w) ==
  LET r == RecordingOf[work[w].file] IN
  /\ Doing(w, "apply")
  /\ ~Locked(r)
  /\ Refused(w) \/ CanApply(w)
  /\ items' = [items EXCEPT ![work[w].job][work[w].file] = "conflict"]
  /\ work' = [work EXCEPT ![w].at = "rebuild", ![w].file = None,
                          ![w].failed = TRUE,
                          ![w].reset = IF Refused(w) THEN @ ELSE @ \cup {r}]
  /\ UNCHANGED <<disk, location, entry, born, knowledge, edited, job, started,
                 late, events>>

\* An error nobody foresaw ends the job.
MarkFailed(w) ==
  /\ work[w] # None
  /\ events < MaxEvents
  /\ events' = events + 1
  /\ job' = [job EXCEPT ![work[w].job].status = "failed"]
  /\ work' = [work EXCEPT ![w] = None]
  /\ UNCHANGED <<disk, location, entry, born, knowledge, edited, items, started,
                 late>>

\* The web worker dies: its job stays running.
Crash(w) ==
  /\ work[w] # None
  /\ events < MaxEvents
  /\ events' = events + 1
  /\ work' = [work EXCEPT ![w] = None]
  /\ UNCHANGED <<disk, location, entry, born, knowledge, edited, job, items,
                 started, late>>

-----------------------------------------------------------------------------
(* What goes on meanwhile.                                                 *)

Event ==
  /\ events < MaxEvents
  /\ events' = events + 1
  /\ UNCHANGED <<job, started, work>>

\* A job has looked at what protects the recording and is not done with it.
Looked(r) ==
  \/ Locked(r)
  \/ \E w \in Worker : Doing(w, "apply") /\ RecordingOf[work[w].file] = r

\* Something is recorded about a recording.
Recorded(r) ==
  /\ Event
  /\ late' = IF Looked(r) THEN late \cup {r} ELSE late
  /\ UNCHANGED items

\* A user saves the entry with or without notes.
EditEntry(r, notes) ==
  /\ Recorded(r) /\ entry[r] # None /\ ~Locked(r)
  /\ entry' = [entry EXCEPT ![r].notes = notes]
  /\ edited' = edited \cup {r}
  /\ UNCHANGED <<disk, location, born, knowledge>>

\* A rights claim, a derived file, a duplicate decision: rows that refer to the
\* recording wait for its lock.
Claim(r) ==
  /\ Recorded(r) /\ r \notin claimed /\ ~Locked(r)
  /\ claimed' = claimed \cup {r}
  /\ UNCHANGED <<disk, location, entry, born, managed, assessed, edited>>

\* The entry of a recording that is imported or managed.
WithEntry(r) ==
  /\ entry' = [entry EXCEPT ![r] =
                 IF @ = None THEN [id |-> born + 1, notes |-> FALSE] ELSE @]
  /\ born' = IF entry[r] = None THEN born + 1 ELSE born

\* The recording enters managed music through its entry, with a claim.
Manage(r) ==
  /\ Recorded(r) /\ r \notin managed /\ ~Locked(r)
  /\ WithEntry(r)
  /\ managed' = managed \cup {r}
  /\ claimed' = claimed \cup {r}
  /\ UNCHANGED <<disk, location, assessed, edited>>

\* An assertion is decided; it names the recording without a foreign key.
Assess(r) ==
  /\ Recorded(r) /\ r \notin assessed
  /\ assessed' = assessed \cup {r}
  /\ UNCHANGED <<disk, location, entry, born, managed, claimed, edited>>

\* apply_item imports a file outside any job.
Import(p) ==
  LET r == RecordingOf[p] IN
  /\ Event /\ p \in disk /\ ~Locked(r)
  /\ WithEntry(r)
  /\ location' = [location EXCEPT ![p] = "active"]
  /\ edited' = edited \ {r}
  /\ UNCHANGED <<disk, knowledge, late>>

\* ... or on the page of a rebuild's scan, while the rebuild goes through it.
ImportItem(j, p) ==
  /\ items[j][p] = "ready"
  /\ items' = [items EXCEPT ![j][p] = "imported"]
  /\ Import(p)

\* A file is taken away or comes back.
EditDisk(p) ==
  /\ Event
  /\ disk' = IF p \in disk THEN disk \ {p} ELSE disk \cup {p}
  /\ UNCHANGED <<location, entry, born, knowledge, edited, late, items>>

Preview ==
  \E j \in Job, scope \in Scopes :
    \/ \E t \in Recording \cup {None} : PreviewCleanup(j, scope, t)
    \/ PreviewRebuild(j, scope)

Execute ==
  \E w \in Worker :
    \/ \E j \in Job : Start(w, j)
    \/ work[w] # None /\ \E i \in JobOf(w).plan : CleanupCheck(w, i)
    \/ CleanupLook(w) \/ CleanupBlocked(w) \/ CleanupRemove(w)
    \/ RebuildScan(w)
    \/ \E p \in Path : RebuildSkip(w, p) \/ RebuildCheck(w, p) \/ RebuildConflict(w, p)
    \/ RebuildApply(w) \/ RebuildGone(w) \/ RebuildFails(w)
    \/ Finish(w) \/ MarkFailed(w) \/ Crash(w)

Meanwhile ==
  \/ \E r \in Recording :
       \/ \E notes \in BOOLEAN : EditEntry(r, notes)
       \/ Claim(r) \/ Manage(r) \/ Assess(r)
  \/ \E p \in Path :
       \/ Import(p) /\ UNCHANGED items
       \/ \E j \in Job : ImportItem(j, p)
       \/ EditDisk(p)

Next == Preview \/ Execute \/ Meanwhile

Spec == Init /\ [][Next]_vars

-----------------------------------------------------------------------------
(* Properties.                                                             *)

\* The recording's entry is deleted, whether or not it is made again.
Lost(r) == entry[r] # None /\ (entry'[r] = None \/ entry'[r].id # entry[r].id)

\* An entry that is deleted had nothing recorded about it that a user would
\* miss, neither when the plan was made nor since, until the job looked again:
\* no claim, edit, note, place in managed music or assessment (execute_cleanup,
\* execute_rebuild).  What is recorded between that look and the deletion is
\* lost, where no lock is held: everything but managed music by a rebuild, an
\* assessment by a cleanup.
KnowledgeIsKept ==
  [][\A r \in Recording :
       Lost(r) =>
         /\ r \notin managed
         /\ Protected(r) => r \in late
         /\ Locked(r) => r \notin claimed \cup edited /\ ~entry[r].notes]_vars

\* A file that is registered as active is in the library: no cleanup, failed
\* import or second worker leaves it without an entry (execute_cleanup,
\* execute_rebuild).  The exception is an item of a rebuild that a user imports
\* under the rebuild's hands.
ActiveFileListed ==
  \A p \in Path :
    location[p] = "active" =>
      \/ entry[RecordingOf[p]] # None
      \/ \E j \in Job, q \in Files(RecordingOf[p]) : items[j][q] = "imported"

\* A previewed plan is executed once, by one worker, also when that worker dies
\* (_start); and a cleanup that is reported as completed has removed every entry its
\* preview listed, which stay removed (execute_cleanup).
ExecutedOnce == \A j \in Job : started[j] <= 1
CompletedIsClean ==
  \A j \in Job :
    job[j] # None /\ job[j].kind = "cleanup" /\ job[j].status = "completed"
      => /\ ~job[j].spared
         /\ \A i \in job[j].plan : EntryId(i[1]) # i[2]
ExecutedOnceAndClean == ExecutedOnce /\ CompletedIsClean

=============================================================================

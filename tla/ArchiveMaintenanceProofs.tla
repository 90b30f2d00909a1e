----------------------- MODULE ArchiveMaintenanceProofs -----------------------
(***************************************************************************)
(* Theorems about ArchiveMaintenance for any recordings, files, jobs,      *)
(* workers and bound: maintenance takes no entry of which users knew       *)
(* something when it looked, leaves no active file without an entry, and   *)
(* executes what it showed once.                                           *)
(***************************************************************************)
EXTENDS ArchiveMaintenance, FiniteSetTheorems, FunctionTheorems, TLAPS

\* A worker has locked the entry of a recording.
Held(w) == Doing(w, "remove") \/ Doing(w, "delete")

\* What a worker holds while it removes an entry or reads a file.
Holding ==
  \A w \in Worker :
    /\ Held(w) => work[w].rec \in Recording
    /\ Doing(w, "apply") => work[w].file \in Path

\* The entry a cleanup is about to remove stays without anything worth keeping:
\* its row and its recording's are locked.
Unprotected ==
  \A w \in Worker :
    Held(w) =>
      LET r == work[w].rec IN
      r \notin managed \cup claimed \cup edited /\ (entry[r] # None => ~entry[r].notes)

\* A worker is about to delete the entry of a recording.
Threatens(w, r) ==
  \/ Held(w) /\ work[w].rec = r
  \/ Doing(w, "apply") /\ Resets(w) /\ RecordingOf[work[w].file] = r

\* What protects a recording by then came late.
LateOnly ==
  \A w \in Worker, r \in Recording : Threatens(w, r) /\ Protected(r) => r \in late

\* A worker's job is running, and no other worker's.
Running ==
  /\ \A w \in Worker :
       work[w] # None => JobOf(w) \in JobRow /\ JobOf(w).status = "running"
  /\ \A v, w \in Worker :
       work[v] # None /\ work[w] # None /\ work[v].job = work[w].job => v = w

\* A plan names entries by identities that were given out.
Plans ==
  /\ \A r \in Recording : entry[r] # None => entry[r].id \in 1..born
  /\ \A j \in Job :
       job[j] # None =>
         \A i \in job[j].plan : i[2] <= born /\ (job[j].kind = "cleanup" => i[2] # 0)
  /\ \A w \in Worker : work[w] # None => work[w].entries \subseteq JobOf(w).plan

\* The identity is not that of the recording's entry, and never will be again.
Gone(i) == EntryId(i[1]) # i[2]

\* A cleanup that found nothing to complain of has removed what it no longer lists.
Progress ==
  \A w \in Worker :
    work[w] # None /\ JobOf(w).kind = "cleanup" =>
      /\ work[w].at \in {"cleanup", "remove", "delete"}
      /\ JobOf(w).spared => work[w].failed
      /\ ~work[w].failed =>
           \A i \in JobOf(w).plan \ work[w].entries :
             Gone(i) \/ (work[w].at # "cleanup" /\ i[1] = work[w].rec)

\* Only the start of a job leaves its preview.
StartedOnce ==
  \A j \in Job :
    started[j] <= 1 /\ (job[j] = None \/ job[j].status = "preview" => started[j] = 0)

\* The scan of a rebuild comes first, and no item of it was touched before.
Untouched(j) == \A p \in Path : items[j][p] = "none"
Items ==
  /\ \A j \in Job : job[j] = None \/ job[j].status = "preview" => Untouched(j)
  /\ \A w \in Worker :
       /\ Doing(w, "scan") => Untouched(work[w].job)
       /\ Doing(w, "rebuild") \/ Doing(w, "apply") =>
            \A p \in work[w].files : items[work[w].job][p] \in {"ready", "imported"}
       /\ Doing(w, "apply") => /\ items[work[w].job][work[w].file] \in {"ready", "imported"}
                              /\ work[w].file \notin work[w].files

\* A cleanup deletes with the entry every location that is active.
Seen ==
  \A w \in Worker :
    Doing(w, "delete") =>
      \A p \in Files(work[w].rec) : location[p] = "active" => p \in work[w].files

\* Managed music keeps its entries (on_delete = PROTECT).
ManagedListed == \A r \in managed : entry[r] # None

MInv ==
  /\ TypeOK /\ Holding /\ Unprotected /\ LateOnly /\ Running
  /\ Plans /\ Progress /\ StartedOnce /\ CompletedIsClean
  /\ Items /\ Seen /\ ManagedListed /\ ActiveFileListed

-----------------------------------------------------------------------------
\* The disk, the entries and the locations are those of imported files.
LEMMA MInvInit == Init => MInv
<1>. SUFFICES ASSUME Init PROVE MInv
  OBVIOUS
<1>1. Cardinality(Recording) \in Nat /\ born \in Nat
  BY MaintenanceAssumption, FS_CardinalityType DEF Init
<1>. DEFINE Apart(f) == \A q, r \in Recording : q # r => f[q].id # f[r].id
<1>2. \E f \in [Recording -> [id : 1..born, notes : {FALSE}]] : Apart(f)
  <2>1. ExistsBijection(Recording, 1..born)
    BY <1>1, MaintenanceAssumption, FS_CardinalityType, Fun_ExistsBijSymmetric DEF Init
  <2>2. PICK g \in [Recording -> 1..born] : \A q, r \in Recording : q # r => g[q] # g[r]
    BY <2>1 DEF ExistsBijection, Bijection, Injection, IsInjective
  <2>. DEFINE f == [r \in Recording |-> [id |-> g[r], notes |-> FALSE]]
  <2>3. f \in [Recording -> [id : 1..born, notes : {FALSE}]] /\ Apart(f)
    BY <2>2
  <2>. HIDE DEF f, Apart
  <2>. QED
    BY <2>3
<1>3. entry \in [Recording -> [id : 1..born, notes : {FALSE}]]
  <2>1. entry = CHOOSE f \in [Recording -> [id : 1..born, notes : {FALSE}]] : Apart(f)
    BY DEF Init
  <2>. HIDE DEF Apart
  <2>. QED
    BY <1>2, <2>1
<1>4. /\ disk \subseteq Path /\ location = [p \in Path |-> "active"]
      /\ managed = {} /\ claimed = {} /\ assessed = {} /\ edited = {} /\ events = 0
      /\ job = [j \in Job |-> None] /\ started = [j \in Job |-> 0]
      /\ work = [w \in Worker |-> None] /\ late = {}
      /\ items = [j \in Job |-> [p \in Path |-> "none"]]
  BY DEF Init
<1>5. \A r \in Recording : entry[r].id \in 1..born /\ entry[r].notes = FALSE
  BY <1>3
<1>6. entry \in [Recording -> Entry]
  <2>1. 1..born \subseteq Nat /\ {FALSE} \subseteq BOOLEAN
    BY <1>1
  <2>2. [id : 1..born, notes : {FALSE}] \subseteq Entry
    BY <2>1, Zenon DEF Entry
  <2>. QED
    BY <1>3, <2>2
<1>7. TypeOK
  BY <1>1, <1>4, <1>6, MaintenanceAssumption DEF TypeOK, ItemStatus
<1>8. \A w \in Worker : work[w] = None
  BY <1>4
<1>9. \A w \in Worker, r \in Recording : ~Doing(w, "remove") /\ ~Held(w) /\ ~Threatens(w, r)
  BY <1>8 DEF Doing, Held, Threatens
<1>10. Items /\ Seen
  BY <1>4, <1>8 DEF Items, Seen, Doing, Untouched
<1>11. ActiveFileListed
  <2>1. \A r \in Recording : entry[r] # None
    BY <1>6, <1>3, NullAssumption
  <2>. QED
    BY <2>1, MaintenanceAssumption DEF ActiveFileListed
<1>12. Holding /\ Unprotected /\ LateOnly /\ Running
  <2>1. \A w \in Worker : ~Doing(w, "apply")
    BY <1>8 DEF Doing
  <2>. QED
    <3>1. \A w \in Worker : ~Held(w)
      BY <1>8 DEF Held, Doing
    <3>2. Holding /\ Unprotected
      BY <2>1, <3>1 DEF Holding, Unprotected
    <3>3. LateOnly
      BY <1>9 DEF LateOnly
    <3>4. Running
      BY <1>8 DEF Running
    <3>. QED
      BY <3>2, <3>3, <3>4
<1>13. Plans /\ Progress
  <2>1. \A j \in Job : job[j] = None
    BY <1>4
  <2>. QED
    BY <1>5, <1>8, <2>1 DEF Plans, Progress
<1>14. StartedOnce /\ CompletedIsClean /\ ManagedListed
  BY <1>4 DEF StartedOnce, CompletedIsClean, ManagedListed
<1>. QED
  BY <1>7, <1>10, <1>11, <1>12, <1>13, <1>14 DEF MInv

-----------------------------------------------------------------------------
(* What a step does to the jobs and the workers.                           *)

\* A worker goes on with its job, without a new entry in hand.
Advances(w, x) ==
  /\ work[w] # None
  /\ x \in Work /\ x.job = work[w].job /\ x.at \notin {"remove", "delete"}
  /\ x.entries \subseteq work[w].entries
  /\ x.at = "apply" =>
       \E p \in Path : RebuildCheck(w, p) /\ x.file = p /\ x.reset = work[w].reset
  /\ work[w].failed => x.failed
  /\ work[w].at \in {"cleanup", "remove", "delete"} =>
       /\ x.at = "cleanup"
       /\ ~x.failed => CleanupRemove(w) /\ x.entries = work[w].entries
  /\ work' = [work EXCEPT ![w] = x]
  /\ UNCHANGED <<job, started>>

\* A worker takes an entry of its plan in hand.
Takes(w, i) ==
  /\ Doing(w, "cleanup") /\ i \in JobOf(w).plan /\ i[1] \in Recording /\ ~Spared(i[1], i[2])
  /\ work' = [work EXCEPT ![w] = [work[w] EXCEPT !.entries = work[w].entries \ {i}, !.rec = i[1],
                                                 !.at = "remove"]]
  /\ UNCHANGED <<entry, born, managed, claimed, edited, assessed, location, items, job, started>>

\* A worker looks at the files of the entry it has in hand.
Looks(w) ==
  /\ Doing(w, "remove")
  /\ work' = [work EXCEPT ![w] = [work[w] EXCEPT !.at = "delete",
                                                 !.files = Current(work[w].rec, Path)]]
  /\ UNCHANGED <<entry, born, managed, claimed, edited, assessed, location, items, job, started>>

\* A worker leaves its job.
Quits(w) ==
  /\ work[w] # None
  /\ work' = [work EXCEPT ![w] = None]
  /\ \/ job' = job
     \/ \E s \in {"partial", "completed", "failed"} :
          /\ job' = [job EXCEPT ![work[w].job].status = s]
          /\ s = "completed" => /\ work[w].at \in {"cleanup", "rebuild"}
                                /\ work[w].entries = {} /\ ~work[w].failed
  /\ UNCHANGED <<entry, born, items, started>>

\* The steps of jobs are of these kinds.
LEMMA JobSteps ==
  ASSUME TypeOK, Holding, Running, Execute
  PROVE  \E w \in Worker :
           \/ \E j \in Job : Start(w, j)
           \/ \E i \in JobOf(w).plan : Takes(w, i)
           \/ Looks(w)
           \/ \E x \in Work : Advances(w, x)
           \/ Quits(w)
<1>. PICK w \in Worker :
       \/ \E j \in Job : Start(w, j)
       \/ work[w] # None /\ \E i \in JobOf(w).plan : CleanupCheck(w, i)
       \/ CleanupLook(w) \/ CleanupBlocked(w) \/ CleanupRemove(w)
       \/ RebuildScan(w)
       \/ \E p \in Path : RebuildSkip(w, p) \/ RebuildCheck(w, p) \/ RebuildConflict(w, p)
       \/ RebuildApply(w) \/ RebuildGone(w) \/ RebuildFails(w)
       \/ Finish(w) \/ MarkFailed(w) \/ Crash(w)
  BY DEF Execute
<1>1. ASSUME work[w] # None
      PROVE  work[w] \in Work /\ work[w].job \in Job /\ job[work[w].job] \in JobRow
  BY <1>1 DEF TypeOK, Work, Running, JobOf
<1>2. ASSUME work[w] # None, NEW i \in JobOf(w).plan, CleanupCheck(w, i)
      PROVE  (\E x \in Work : Advances(w, x)) \/ Takes(w, i)
  <2>1. i[1] \in Recording
    BY <1>1, <1>2 DEF JobOf, JobRow
  <2>2. CASE ~Spared(i[1], i[2])
    BY <1>2, <2>1, <2>2 DEF CleanupCheck, Takes, knowledge
  <2>3. CASE Spared(i[1], i[2])
    <3>. DEFINE x == [work[w] EXCEPT !.entries = work[w].entries \ {i}, !.failed = TRUE]
    <3>1. work' = [work EXCEPT ![w] = x] /\ UNCHANGED <<job, started>> /\ work[w].at = "cleanup"
      BY <1>2, <2>3 DEF CleanupCheck, Doing
    <3>2. x \in Work /\ x.job = work[w].job /\ x.at = "cleanup" /\ x.failed
          /\ x.entries \subseteq work[w].entries
      BY <1>1, <1>2, <3>1 DEF Work
    <3>. HIDE DEF x
    <3>. QED
      BY <1>2, <3>1, <3>2 DEF Advances
  <2>. QED
    BY <2>2, <2>3
<1>3. ASSUME CleanupRemove(w) PROVE \E x \in Work : Advances(w, x)
  <2>. DEFINE x == [work[w] EXCEPT !.at = "cleanup", !.rec = None, !.files = {}]
  <2>1. work' = [work EXCEPT ![w] = x] /\ UNCHANGED <<job, started>>
    BY <1>1, <1>3 DEF CleanupRemove, Doing, Work
  <2>2. /\ x \in Work /\ x.job = work[w].job /\ x.at = "cleanup" /\ x.failed = work[w].failed
        /\ x.entries = work[w].entries
    BY <1>1, <1>3 DEF Work, Doing, CleanupRemove
  <2>3. work[w] # None /\ work[w].at = "delete"
    BY <1>3 DEF Doing, CleanupRemove
  <2>. HIDE DEF x
  <2>. QED
    BY <1>3, <2>1, <2>2, <2>3 DEF Advances
<1>4. ASSUME CleanupBlocked(w) PROVE \E x \in Work : Advances(w, x)
  <2>. DEFINE x == [work[w] EXCEPT !.at = "cleanup", !.rec = None, !.failed = TRUE]
  <2>1. work' = [work EXCEPT ![w] = x] /\ UNCHANGED <<job, started>>
    BY <1>1, <1>4 DEF CleanupBlocked, Doing, Work
  <2>2. /\ x \in Work /\ x.job = work[w].job /\ x.at = "cleanup" /\ x.failed
        /\ x.entries = work[w].entries
    BY <1>1, <1>4 DEF Work, Doing, CleanupBlocked
  <2>. HIDE DEF x
  <2>. QED
    BY <1>4, <2>1, <2>2 DEF Advances, Doing, CleanupBlocked
<1>14. CleanupLook(w) => Looks(w)
  BY <1>1 DEF CleanupLook, Looks, Doing, Work, knowledge
\* The steps of a rebuild.
<1>5. ASSUME NEW x \in Work, work[w] # None, work[w].at \notin {"cleanup", "remove", "delete"},
             x.job = work[w].job, x.at \notin {"remove", "delete", "cleanup"}, x.entries = work[w].entries,
             x.at = "apply" => \E p \in Path : RebuildCheck(w, p) /\ x.file = p
                                               /\ x.reset = work[w].reset,
             work[w].failed => x.failed,
             work' = [work EXCEPT ![w] = x], UNCHANGED <<job, started>>
      PROVE  \E y \in Work : Advances(w, y)
  BY <1>5 DEF Advances
<1>6. ASSUME RebuildScan(w) PROVE \E x \in Work : Advances(w, x)
  <2>. DEFINE x == [work[w] EXCEPT !.at = "rebuild", !.files = JobOf(w).scope \cap disk]
  <2>1. x \in Work /\ work' = [work EXCEPT ![w] = x]
    BY <1>1, <1>6 DEF RebuildScan, Doing, Work, TypeOK
  <2>2. /\ x.job = work[w].job /\ x.at = "rebuild" /\ x.entries = work[w].entries
        /\ x.failed = work[w].failed
    BY <1>1, <1>6 DEF RebuildScan, Doing, Work
  <2>. HIDE DEF x
  <2>. QED
    BY <1>5, <1>6, <2>1, <2>2 DEF RebuildScan, Doing
<1>7. ASSUME NEW p \in Path, RebuildSkip(w, p) PROVE \E x \in Work : Advances(w, x)
  <2>. DEFINE x == [work[w] EXCEPT !.files = @ \ {p}]
  <2>1. x \in Work /\ work' = [work EXCEPT ![w] = x]
    BY <1>1, <1>7 DEF RebuildSkip, Doing, Work
  <2>2. /\ x.job = work[w].job /\ x.at = "rebuild" /\ x.entries = work[w].entries
        /\ x.failed = work[w].failed
    BY <1>1, <1>7 DEF RebuildSkip, Doing, Work
  <2>. HIDE DEF x
  <2>. QED
    BY <1>5, <1>7, <2>1, <2>2 DEF RebuildSkip, Doing
<1>8. ASSUME NEW p \in Path, RebuildCheck(w, p) PROVE \E x \in Work : Advances(w, x)
  <2>. DEFINE x == [work[w] EXCEPT !.files = @ \ {p}, !.file = p, !.at = "apply"]
  <2>1. x \in Work /\ work' = [work EXCEPT ![w] = x]
    BY <1>1, <1>8 DEF RebuildCheck, Doing, Work
  <2>2. /\ x.job = work[w].job /\ x.at = "apply" /\ x.entries = work[w].entries
        /\ x.failed = work[w].failed /\ x.file = p /\ x.reset = work[w].reset
    BY <1>1, <1>8 DEF RebuildCheck, Doing, Work
  <2>. HIDE DEF x
  <2>. QED
    BY <1>5, <1>8, <2>1, <2>2 DEF RebuildCheck, Doing
<1>9. ASSUME NEW p \in Path, RebuildConflict(w, p) PROVE \E x \in Work : Advances(w, x)
  <2>. DEFINE x == [work[w] EXCEPT !.files = @ \ {p}, !.failed = TRUE]
  <2>1. x \in Work /\ work' = [work EXCEPT ![w] = x]
    BY <1>1, <1>9 DEF RebuildConflict, Doing, Work
  <2>2. x.job = work[w].job /\ x.at = "rebuild" /\ x.entries = work[w].entries /\ x.failed
    BY <1>1, <1>9 DEF RebuildConflict, Doing, Work
  <2>. HIDE DEF x
  <2>. QED
    BY <1>5, <1>9, <2>1, <2>2 DEF RebuildConflict, Doing
<1>10. Doing(w, "apply") => RecordingOf[work[w].file] \in Recording
  BY MaintenanceAssumption DEF Holding
<1>11. ASSUME Doing(w, "apply"), RebuildApply(w) \/ RebuildGone(w)
       PROVE  \E x \in Work : Advances(w, x)
  <2>. DEFINE x == [work[w] EXCEPT !.at = "rebuild", !.file = None,
                                   !.reset = @ \cup {RecordingOf[work[w].file]}]
  <2>1. x \in Work /\ work' = [work EXCEPT ![w] = x]
    BY <1>1, <1>10, <1>11 DEF RebuildApply, RebuildGone, Doing, Work
  <2>2. /\ x.job = work[w].job /\ x.at = "rebuild" /\ x.entries = work[w].entries
        /\ x.failed = work[w].failed
    BY <1>1, <1>11 DEF Doing, Work
  <2>. HIDE DEF x
  <2>. QED
    BY <1>5, <1>11, <2>1, <2>2 DEF RebuildApply, RebuildGone, Doing
<1>12. ASSUME Doing(w, "apply"), RebuildFails(w) PROVE \E x \in Work : Advances(w, x)
  <2>. DEFINE r == RecordingOf[work[w].file]
              x == [work[w] EXCEPT !.at = "rebuild", !.file = None, !.failed = TRUE,
                                   !.reset = IF Refused(w) THEN @ ELSE @ \cup {r}]
  <2>1. x \in Work /\ work' = [work EXCEPT ![w] = x]
    BY <1>1, <1>10, <1>12 DEF RebuildFails, Doing, Work
  <2>2. x.job = work[w].job /\ x.at = "rebuild" /\ x.entries = work[w].entries /\ x.failed
    BY <1>1, <1>12 DEF Doing, Work
  <2>. HIDE DEF x
  <2>. QED
    BY <1>5, <1>12, <2>1, <2>2 DEF RebuildFails, Doing
<1>13. Finish(w) \/ MarkFailed(w) \/ Crash(w) => Quits(w)
  BY DEF Finish, MarkFailed, Crash, Quits
<1>15. RebuildApply(w) \/ RebuildGone(w) \/ RebuildFails(w) => Doing(w, "apply")
  BY DEF RebuildApply, RebuildGone, RebuildFails
<1>. QED
  BY <1>2, <1>3, <1>4, <1>6, <1>7, <1>8, <1>9, <1>11, <1>12, <1>13, <1>14, <1>15

\* Previews store a row under a free identity; what users do leaves jobs alone.
LEMMA PreviewSteps ==
  ASSUME TypeOK, Preview
  PROVE  \E j \in Job : \E row \in JobRow :
           /\ job[j] = None /\ job' = [job EXCEPT ![j] = row]
           /\ row.status = "preview"
           /\ \A i \in row.plan :
                /\ i[1] \in Recording /\ i[2] = EntryId(i[1])
                /\ row.kind = "cleanup" => entry[i[1]] # None
           /\ UNCHANGED <<disk, location, entry, born, knowledge, edited, items, started, late, work,
                          events>>
<1>1. ASSUME NEW j \in Job, NEW scope \in Scopes, NEW t \in Recording \cup {None},
             PreviewCleanup(j, scope, t)
      PROVE  \E row \in JobRow :
               /\ job[j] = None /\ job' = [job EXCEPT ![j] = row]
               /\ row.status = "preview"
               /\ \A i \in row.plan :
                    /\ i[1] \in Recording /\ i[2] = EntryId(i[1])
                    /\ row.kind = "cleanup" => entry[i[1]] # None
               /\ UNCHANGED <<disk, location, entry, born, knowledge, edited, items, started, late,
                              work, events>>
  <2>. DEFINE listed == {r \in Rows(scope, t) : Listed(r, scope, t)}
              removable == {r \in listed : Removable(r, scope, t)}
              plan == {<<r, EntryId(r)>> : r \in removable}
              row == [kind |-> "cleanup", status |-> "preview", scope |-> scope, target |-> t,
                      plan |-> plan, spared |-> listed # removable]
  <2>1. job[j] = None /\ job' = [job EXCEPT ![j] = row]
        /\ UNCHANGED <<disk, location, entry, born, knowledge, edited, items, started, late, work, events>>
    BY <1>1 DEF PreviewCleanup
  <2>2. \A i \in plan : /\ i[1] \in Recording /\ i[2] = EntryId(i[1])
                        /\ entry[i[1]] # None
    BY DEF Rows, Removable
  <2>3. row \in JobRow
    <3>1. \A r \in Recording : EntryId(r) \in Nat
      BY DEF EntryId, Entry, TypeOK
    <3>2. plan \in SUBSET (Recording \X Nat) /\ scope \in SUBSET Path
      BY <3>1, MaintenanceAssumption DEF Rows
    <3>. HIDE DEF plan
    <3>. QED
      BY <3>2 DEF JobRow, Status
  <2>4. row.status = "preview" /\ row.plan = plan /\ row.target = t
    OBVIOUS
  <2>. HIDE DEF row, plan
  <2>. QED
    BY <2>1, <2>2, <2>3, <2>4
<1>2. ASSUME NEW j \in Job, NEW scope \in Scopes, PreviewRebuild(j, scope)
      PROVE  \E row \in JobRow :
               /\ job[j] = None /\ job' = [job EXCEPT ![j] = row]
               /\ row.status = "preview"
               /\ \A i \in row.plan :
                    /\ i[1] \in Recording /\ i[2] = EntryId(i[1])
                    /\ row.kind = "cleanup" => entry[i[1]] # None
               /\ UNCHANGED <<disk, location, entry, born, knowledge, edited, items, started, late,
                              work, events>>
  <2>. DEFINE plan == {<<r, EntryId(r)>> : r \in {q \in Rows(scope, None) :
                                                   ~Protected(q) /\ Existing(q, scope) # {}}}
              row == [kind |-> "rebuild", status |-> "preview", scope |-> scope, target |-> None,
                      plan |-> plan, spared |-> FALSE]
  <2>1. job[j] = None /\ job' = [job EXCEPT ![j] = row]
        /\ UNCHANGED <<disk, location, entry, born, knowledge, edited, items, started, late, work, events>>
    BY <1>2 DEF PreviewRebuild
  <2>2. \A i \in plan : i[1] \in Recording /\ i[2] = EntryId(i[1])
    BY DEF Rows
  <2>3. row \in JobRow
    <3>1. \A r \in Recording : EntryId(r) \in Nat
      BY DEF EntryId, Entry, TypeOK
    <3>2. plan \in SUBSET (Recording \X Nat) /\ scope \in SUBSET Path
      BY <3>1, MaintenanceAssumption DEF Rows
    <3>. HIDE DEF plan
    <3>. QED
      BY <3>2 DEF JobRow, Status
  <2>4. row.status = "preview" /\ row.plan = plan /\ row.target = None /\ row.kind = "rebuild"
    OBVIOUS
  <2>. HIDE DEF row, plan
  <2>. QED
    BY <2>1, <2>2, <2>3, <2>4
<1>. QED
  BY <1>1, <1>2 DEF Preview

\* A step that neither previews nor executes leaves the jobs and the workers alone.
LEMMA Otherwise ==
  ASSUME [Next]_vars, ~Preview, ~Execute PROVE UNCHANGED <<job, started, work>>
  BY DEF Next, vars, Meanwhile, Event, EditEntry, Recorded, Claim, Manage, Assess, Import,
         ImportItem, EditDisk

-----------------------------------------------------------------------------
(* Types.                                                                  *)

\* The preview of a job stores a well-formed row.
LEMMA TypePreview == ASSUME TypeOK, Preview PROVE TypeOK'
  BY PreviewSteps DEF TypeOK, knowledge

\* Storing a well-formed state of a worker, and moving the status of its job.
LEMMA TypeStored ==
  ASSUME TypeOK, NEW w \in Worker,
         \/ work' = [work EXCEPT ![w] = None]
         \/ \E x \in Work : work' = [work EXCEPT ![w] = x],
         \/ job' = job
         \/ \E j \in Job, s \in Status : job[j] \in JobRow /\ job' = [job EXCEPT ![j].status = s]
  PROVE  work' \in [Worker -> Work \cup {None}] /\ job' \in [Job -> JobRow \cup {None}]
<1>1. ASSUME NEW j \in Job, NEW s \in Status, job[j] \in JobRow,
             job' = [job EXCEPT ![j].status = s]
      PROVE  job' \in [Job -> JobRow \cup {None}]
  <2>. DEFINE row == [job[j] EXCEPT !.status = s]
  <2>1. row \in JobRow
    BY <1>1 DEF JobRow
  <2>2. job' = [job EXCEPT ![j] = row]
    BY <1>1
  <2>. HIDE DEF row
  <2>. QED
    BY <2>1, <2>2 DEF TypeOK
<1>. QED
  BY <1>1 DEF TypeOK

\* Nothing is written but the rows of jobs.
Quiet == /\ UNCHANGED <<disk, location, entry, born, knowledge, edited>>
         /\ late' \subseteq late
         /\ items' = items \/ \E j \in Job, p \in Path : items' = [items EXCEPT ![j][p] = "conflict"]
         /\ events' = events \/ (events < MaxEvents /\ events' = events + 1)

\* Few steps of jobs write rows of the archive.
LEMMA RowsOfJobs ==
  ASSUME TypeOK, Holding, Execute
  PROVE  \E w \in Worker :
           \/ Quiet
           \/ CleanupRemove(w)
           \/ RebuildScan(w)
           \/ RebuildApply(w)
           \/ RebuildGone(w)
<1>0. \A w \in Worker : work[w] # None => work[w].job \in Job
  BY DEF TypeOK, Work
<1>1. ASSUME NEW w \in Worker, NEW j \in Job, Start(w, j) PROVE Quiet
  BY <1>1 DEF Start, Quiet
<1>2. ASSUME NEW w \in Worker, NEW i \in JobOf(w).plan, CleanupCheck(w, i) PROVE Quiet
  BY <1>2 DEF CleanupCheck, Quiet
<1>3. ASSUME NEW w \in Worker, CleanupLook(w) \/ CleanupBlocked(w) PROVE Quiet
  BY <1>3 DEF CleanupLook, CleanupBlocked, Quiet
<1>6. ASSUME NEW w \in Worker, RebuildFails(w) PROVE Quiet
  BY <1>0, <1>6 DEF RebuildFails, Quiet, Holding, Doing
<1>4. ASSUME NEW w \in Worker, NEW p \in Path,
             RebuildSkip(w, p) \/ RebuildCheck(w, p) \/ RebuildConflict(w, p)
      PROVE  Quiet
  BY <1>0, <1>4 DEF RebuildSkip, RebuildCheck, RebuildConflict, Quiet, Doing
<1>5. ASSUME NEW w \in Worker, Finish(w) \/ MarkFailed(w) \/ Crash(w) PROVE Quiet
  BY <1>5 DEF Finish, MarkFailed, Crash, Quiet
<1>. QED
  BY <1>1, <1>2, <1>3, <1>4, <1>5, <1>6 DEF Execute

\* Every step of a job stores well-formed rows.
LEMMA TypeExecute == ASSUME TypeOK, Holding, Running, Execute PROVE TypeOK'
<1>. DEFINE Stored == work' \in [Worker -> Work \cup {None}] /\ job' \in [Job -> JobRow \cup {None}]
<1>1. Stored
  <2>. PICK w \in Worker : \/ \E j \in Job : Start(w, j)
                           \/ \E i \in JobOf(w).plan : Takes(w, i)
                           \/ Looks(w)
                           \/ \E x \in Work : Advances(w, x)
                           \/ Quits(w)
    BY JobSteps
  <2>1. ASSUME work[w] # None
        PROVE  work[w] \in Work /\ work[w].job \in Job /\ job[work[w].job] \in JobRow
    BY <2>1 DEF TypeOK, Work, Running, JobOf
  <2>2. ASSUME NEW j \in Job, Start(w, j) PROVE Stored
    <3>. DEFINE x == [job |-> j, at |-> IF job[j].kind = "cleanup" THEN "cleanup" ELSE "scan",
                      entries |-> IF job[j].kind = "cleanup" THEN job[j].plan ELSE {},
                      files |-> {}, rec |-> None, file |-> None, reset |-> {},
                      failed |-> job[j].spared]
    <3>1. job[j] \in JobRow
      BY <2>2 DEF Start, Startable, TypeOK
    <3>2. x \in Work
      BY <3>1 DEF JobRow, Work
    <3>3. work' = [work EXCEPT ![w] = x] /\ job' = [job EXCEPT ![j].status = "running"]
      BY <2>2 DEF Start
    <3>. HIDE DEF x
    <3>. QED
      BY <3>1, <3>2, <3>3, TypeStored DEF Status
  <2>3. ASSUME NEW i \in JobOf(w).plan, Takes(w, i) PROVE Stored
    <3>. DEFINE x == [work[w] EXCEPT !.entries = work[w].entries \ {i}, !.rec = i[1], !.at = "remove"]
    <3>1. x \in Work /\ work' = [work EXCEPT ![w] = x] /\ job' = job
      BY <2>1, <2>3 DEF Takes, Doing, Work
    <3>. HIDE DEF x
    <3>. QED
      BY <3>1, TypeStored
  <2>6. CASE Looks(w)
    <3>. DEFINE x == [work[w] EXCEPT !.at = "delete", !.files = Current(work[w].rec, Path)]
    <3>1. x \in Work /\ work' = [work EXCEPT ![w] = x] /\ job' = job
      BY <2>1, <2>6 DEF Looks, Doing, Work, Current
    <3>. HIDE DEF x
    <3>. QED
      BY <3>1, TypeStored
  <2>4. ASSUME NEW x \in Work, Advances(w, x) PROVE Stored
    BY <2>4, TypeStored DEF Advances
  <2>5. CASE Quits(w)
    BY <2>1, <2>5, TypeStored DEF Quits, Status
  <2>. QED
    BY <2>2, <2>3, <2>4, <2>5, <2>6
<1>2. started' \in [Job -> Nat]
  <2>1. ASSUME NEW w \in Worker, NEW j \in Job, Start(w, j) PROVE started' \in [Job -> Nat]
    BY <2>1 DEF Start, TypeOK
  <2>. QED
    BY <2>1, JobSteps DEF Takes, Looks, Advances, Quits, TypeOK
<1>. PICK w \in Worker : \/ Quiet \/ CleanupRemove(w) \/ RebuildScan(w)
                         \/ RebuildApply(w) \/ RebuildGone(w)
  BY RowsOfJobs
<1>. DEFINE Others == /\ UNCHANGED <<disk, knowledge>> /\ edited' \subseteq edited
                      /\ late' \subseteq late /\ events' \in 0..MaxEvents
                      /\ location' \in [Path -> {"active", "missing", "historical"}]
                      /\ entry' \in [Recording -> Entry \cup {None}] /\ born' \in Nat
                      /\ items' \in [Job -> [Path -> ItemStatus]]
<1>3. ASSUME Quiet PROVE Others
  <2>1. items' \in [Job -> [Path -> ItemStatus]]
    <3>1. items \in [Job -> [Path -> ItemStatus]] /\ "conflict" \in ItemStatus
      BY DEF TypeOK, ItemStatus
    <3>2. items' = items \/ \E j \in Job, q \in Path : items' = [items EXCEPT ![j][q] = "conflict"]
      BY <1>3 DEF Quiet
    <3>. QED
      BY <3>1, <3>2
  <2>2. events' \in 0..MaxEvents
    BY <1>3, MaintenanceAssumption DEF Quiet, TypeOK
  <2>3. UNCHANGED <<disk, location, entry, born, knowledge, edited>> /\ late' \subseteq late
    BY <1>3 DEF Quiet
  <2>4. /\ location' \in [Path -> {"active", "missing", "historical"}] /\ born' \in Nat
        /\ entry' \in [Recording -> Entry \cup {None}]
    BY <2>3 DEF TypeOK
  <2>. QED
    BY <2>1, <2>2, <2>3, <2>4
<1>4. ASSUME CleanupRemove(w) PROVE Others
  BY <1>4 DEF CleanupRemove, TypeOK
<1>5. ASSUME RebuildScan(w) PROVE Others
  BY <1>5 DEF RebuildScan, TypeOK, ItemStatus
<1>6. ASSUME RebuildApply(w) PROVE Others
  <2>. DEFINE r == RecordingOf[work[w].file]
  <2>1. Reread(w, r) = entry[r] \/ Reread(w, r) = [id |-> born + 1, notes |-> FALSE]
    BY DEF Reread
  <2>2. [id |-> born + 1, notes |-> FALSE] \in Entry
    BY DEF Entry, TypeOK
  <2>3. entry' \in [Recording -> Entry \cup {None}]
    BY <1>6, <2>1, <2>2 DEF RebuildApply, TypeOK
  <2>4. items' \in [Job -> [Path -> ItemStatus]]
    BY <1>6 DEF RebuildApply, TypeOK, ItemStatus
  <2>. QED
    BY <1>6, <2>3, <2>4 DEF RebuildApply, TypeOK
<1>7. ASSUME RebuildGone(w) PROVE Others
  BY <1>7 DEF RebuildGone, TypeOK
<1>8. Others
  BY <1>3, <1>4, <1>5, <1>6, <1>7
<1>. QED
  BY <1>1, <1>2, <1>8 DEF TypeOK, knowledge

\* What users do and what happens to the disk keeps the types.
LEMMA TypeMeanwhile == ASSUME TypeOK, Meanwhile PROVE TypeOK'
<1>. USE DEF TypeOK, knowledge
<1>1. Event => events' \in 0..MaxEvents /\ UNCHANGED <<job, started, work>>
  BY MaintenanceAssumption DEF Event
<1>9. \A r \in Recording :
        Recorded(r) => Event /\ late' \subseteq Recording /\ UNCHANGED items
  BY DEF Recorded
<1>2. ASSUME NEW r \in Recording, WithEntry(r)
      PROVE  entry' \in [Recording -> Entry \cup {None}] /\ born' \in Nat
  BY <1>2 DEF WithEntry, Entry
<1>3. ASSUME NEW r \in Recording, NEW notes \in BOOLEAN, EditEntry(r, notes) PROVE TypeOK'
  <2>. DEFINE x == [entry[r] EXCEPT !.notes = notes]
  <2>1. x \in Entry /\ entry' = [entry EXCEPT ![r] = x]
    BY <1>3 DEF EditEntry, Entry
  <2>. HIDE DEF x
  <2>. QED
    BY <1>1, <1>9, <1>3, <2>1 DEF EditEntry
<1>4. ASSUME NEW r \in Recording, Claim(r) PROVE TypeOK'
  BY <1>1, <1>9, <1>4 DEF Claim
<1>5. ASSUME NEW r \in Recording, Manage(r) PROVE TypeOK'
  BY <1>1, <1>9, <1>2, <1>5 DEF Manage
<1>6. ASSUME NEW r \in Recording, Assess(r) PROVE TypeOK'
  BY <1>1, <1>9, <1>6 DEF Assess
<1>10. ASSUME NEW j \in Job, NEW p \in Path, items' = [items EXCEPT ![j][p] = "imported"]
       PROVE  items' \in [Job -> [Path -> ItemStatus]]
  BY <1>10 DEF ItemStatus
<1>7. ASSUME NEW p \in Path, Import(p),
             UNCHANGED items \/ \E j \in Job : items' = [items EXCEPT ![j][p] = "imported"]
      PROVE  TypeOK'
  <2>1. items' \in [Job -> [Path -> ItemStatus]]
    BY <1>7, <1>10
  <2>. QED
    BY <1>1, <1>2, <1>7, <2>1, MaintenanceAssumption DEF Import
<1>8. ASSUME NEW p \in Path, EditDisk(p) PROVE TypeOK'
  BY <1>1, <1>8 DEF EditDisk
<1>. QED
  BY <1>3, <1>4, <1>5, <1>6, <1>7, <1>8 DEF Meanwhile, ImportItem

\* Every step keeps the types.
LEMMA TypeNext == ASSUME TypeOK, Holding, Running, [Next]_vars PROVE TypeOK'
<1>1. CASE UNCHANGED vars
  BY <1>1 DEF vars, knowledge, TypeOK
<1>. QED
  BY <1>1, TypePreview, TypeExecute, TypeMeanwhile DEF Next

-----------------------------------------------------------------------------
(* What a step does to the entries.                                        *)

\* An entry is removed by a worker who holds it or whose file was imported by a user,
\* made anew with a fresh identity, or
\* kept under its identity; notes are changed and knowledge added only where no
\* worker holds the entry.
LEMMA EntriesWritten ==
  ASSUME TypeOK, Holding, [Next]_vars, NEW r \in Recording
  PROVE  /\ born' \in Nat /\ born <= born'
         /\ \/ entry'[r] = None /\ entry[r] = None
            \/ entry'[r] = None /\ \E w \in Worker : work[w].rec = r /\ CleanupRemove(w)
            \/ entry'[r] = None /\ \E w \in Worker : /\ RecordingOf[work[w].file] = r /\ Resets(w)
                                                    /\ RebuildGone(w)
            \/ entry[r] # None /\ entry'[r] # None /\ entry'[r].id = entry[r].id
            \/ entry'[r] # None /\ entry'[r].id = born' /\ born' = born + 1
         /\ ~Locked(r) \/ ( /\ r \in managed' => r \in managed
                            /\ r \in claimed' => r \in claimed
                            /\ r \in edited' => r \in edited
                            /\ entry'[r] \in {None, entry[r]})
<1>. DEFINE Goal == /\ born' \in Nat /\ born <= born'
                    /\ \/ entry'[r] = None /\ entry[r] = None
                       \/ entry'[r] = None /\ \E w \in Worker : work[w].rec = r /\ CleanupRemove(w)
                       \/ entry'[r] = None /\ \E w \in Worker : /\ RecordingOf[work[w].file] = r
                                                               /\ Resets(w) /\ RebuildGone(w)
                       \/ entry[r] # None /\ entry'[r] # None /\ entry'[r].id = entry[r].id
                       \/ entry'[r] # None /\ entry'[r].id = born' /\ born' = born + 1
                    /\ ~Locked(r) \/ ( /\ r \in managed' => r \in managed
                                       /\ r \in claimed' => r \in claimed
                                       /\ r \in edited' => r \in edited
                                       /\ entry'[r] \in {None, entry[r]})
<1>0. born \in Nat /\ entry \in [Recording -> Entry \cup {None}]
  BY DEF TypeOK
<1>1. CASE UNCHANGED <<entry, born, managed, claimed, edited>>
  BY <1>0, <1>1
<1>2. [id |-> born + 1, notes |-> FALSE] # None
  <2>1. [id |-> born + 1, notes |-> FALSE] \in Entry
    BY <1>0 DEF Entry
  <2>. QED
    BY <2>1, NullAssumption
<1>3. ASSUME NEW q \in Recording, ~Locked(q), WithEntry(q),
             managed' \subseteq managed \cup {q}, claimed' \subseteq claimed \cup {q},
             edited' \subseteq edited
      PROVE  Goal
  <2>. DEFINE new == [id |-> born + 1, notes |-> FALSE]
  <2>1. /\ new # None /\ new.id = born + 1
        /\ entry' = [entry EXCEPT ![q] = IF entry[q] = None THEN new ELSE entry[q]]
        /\ born' = IF entry[q] = None THEN born + 1 ELSE born
    BY <1>2, <1>3 DEF WithEntry
  <2>. HIDE DEF new
  <2>2. CASE q = r
    BY <1>0, <1>3, <2>1, <2>2
  <2>3. CASE q # r
    BY <1>0, <1>3, <2>1, <2>3
  <2>. QED
    BY <2>2, <2>3
<1>4. ASSUME NEW w \in Worker, CleanupRemove(w) PROVE Goal
  <2>1. entry' = [entry EXCEPT ![work[w].rec] = None] /\ UNCHANGED <<born, managed, claimed, edited>>
    BY <1>4 DEF CleanupRemove, knowledge
  <2>2. entry'[r] = IF r = work[w].rec THEN None ELSE entry[r]
    BY <1>0, <2>1
  <2>. QED
    BY <1>0, <1>4, <2>1, <2>2
<1>5. ASSUME NEW w \in Worker, RebuildApply(w) PROVE Goal
  BY <1>0, <1>2, <1>5, MaintenanceAssumption DEF RebuildApply, Reread, Holding, knowledge
<1>6. ASSUME NEW w \in Worker, RebuildGone(w) PROVE Goal
  <2>. DEFINE q == RecordingOf[work[w].file]
  <2>1. /\ UNCHANGED <<born, managed, claimed, edited>> /\ ~Locked(q)
        /\ entry' = IF Resets(w) THEN [entry EXCEPT ![q] = None] ELSE entry
    BY <1>6 DEF RebuildGone, knowledge
  <2>. QED
    BY <1>0, <1>6, <2>1
<1>7. ASSUME NEW q \in Recording, NEW notes \in BOOLEAN, EditEntry(q, notes) PROVE Goal
  <2>. DEFINE x == [entry[q] EXCEPT !.notes = notes]
  <2>1. /\ x \in Entry /\ x.id = entry[q].id /\ entry' = [entry EXCEPT ![q] = x]
        /\ entry[q] # None /\ ~Locked(q) /\ edited' = edited \cup {q}
        /\ UNCHANGED <<born, knowledge>>
    BY <1>0, <1>7 DEF EditEntry, Entry
  <2>2. x # None
    BY <2>1, NullAssumption
  <2>. HIDE DEF x
  <2>. QED
    BY <1>0, <2>1, <2>2 DEF knowledge
<1>8. ASSUME NEW q \in Recording, Claim(q) PROVE Goal
  BY <1>0, <1>8 DEF Claim, Recorded
<1>9. ASSUME NEW q \in Recording, Manage(q) PROVE Goal
  BY <1>3, <1>9 DEF Manage
<1>10. ASSUME NEW p \in Path, Import(p) PROVE Goal
  BY <1>3, <1>10, MaintenanceAssumption DEF Import, knowledge
<1>11. ASSUME Preview PROVE Goal
  BY <1>1, <1>11 DEF Preview, PreviewCleanup, PreviewRebuild, knowledge
<1>12. ASSUME Execute PROVE Goal
  <2>1. ASSUME NEW w \in Worker, RebuildScan(w) PROVE Goal
    BY <1>1, <2>1 DEF RebuildScan, knowledge
  <2>2. ASSUME Quiet PROVE Goal
    BY <1>1, <2>2 DEF Quiet, knowledge
  <2>. HIDE DEF Goal
  <2>. QED
    BY <1>4, <1>5, <1>6, <1>12, <2>1, <2>2, RowsOfJobs
<1>13. ASSUME Meanwhile PROVE Goal
  BY <1>1, <1>7, <1>8, <1>9, <1>10, <1>13 DEF Meanwhile, ImportItem, EditDisk, Assess, knowledge
<1>. QED
  BY <1>1, <1>11, <1>12, <1>13 DEF Next, vars, knowledge

-----------------------------------------------------------------------------
(* The inductive invariant.                                                *)

\* A worker holds what it took.
LEMMA HoldingNext == ASSUME TypeOK, Holding, Running, [Next]_vars PROVE Holding'
<1>1. CASE Preview
  BY <1>1, PreviewSteps DEF Holding, Held, Doing
<1>2. CASE Execute
  <2>. PICK w \in Worker : \/ \E j \in Job : Start(w, j)
                           \/ \E i \in JobOf(w).plan : Takes(w, i)
                           \/ Looks(w)
                           \/ \E x \in Work : Advances(w, x)
                           \/ Quits(w)
    BY <1>2, JobSteps
  <2>0. work \in [Worker -> Work \cup {None}]
    BY DEF TypeOK
  <2>1. ASSUME NEW j \in Job, Start(w, j) PROVE Holding'
    BY <2>0, <2>1 DEF Start, Holding, Held, Doing
  <2>2. ASSUME NEW i \in JobOf(w).plan, Takes(w, i) PROVE Holding'
    BY <2>0, <2>2 DEF Takes, Holding, Held, Doing, Work
  <2>3. ASSUME NEW x \in Work, Advances(w, x) PROVE Holding'
    BY <2>0, <2>3 DEF Advances, Holding, Held, Doing
  <2>4. CASE Quits(w)
    BY <2>0, <2>4 DEF Quits, Holding, Held, Doing
  <2>5. CASE Looks(w)
    BY <2>0, <2>5 DEF Looks, Holding, Held, Doing, Work
  <2>. QED
    BY <2>1, <2>2, <2>3, <2>4, <2>5
<1>. QED
  BY <1>1, <1>2, Otherwise DEF Holding, Held, Doing

\* A job keeps everything but its status.
LEMMA JobsKept ==
  ASSUME TypeOK, Holding, Running, [Next]_vars, NEW j \in Job, job[j] # None
  PROVE  /\ job'[j] \in JobRow /\ job'[j].kind = job[j].kind /\ job'[j].plan = job[j].plan
         /\ job'[j].target = job[j].target /\ job'[j].spared = job[j].spared
<1>0. job \in [Job -> JobRow \cup {None}] /\ job[j] \in JobRow
  BY DEF TypeOK
<1>. DEFINE Kept == /\ job'[j] \in JobRow /\ job'[j].kind = job[j].kind /\ job'[j].plan = job[j].plan
                    /\ job'[j].target = job[j].target /\ job'[j].spared = job[j].spared
<1>1. ASSUME NEW s \in Status, NEW k, job' = [job EXCEPT ![k].status = s] PROVE Kept
  BY <1>0, <1>1 DEF JobRow
<1>2. CASE Preview
  BY <1>0, <1>2, PreviewSteps
<1>3. CASE Execute
  <2>1. \A w \in Worker, i \in Job : Start(w, i) => job' = [job EXCEPT ![i].status = "running"]
    BY DEF Start
  <2>2. \A w \in Worker : Quits(w) =>
          job' = job \/ \E s \in Status : job' = [job EXCEPT ![work[w].job].status = s]
    BY DEF Quits, Status
  <2>3. "running" \in Status
    BY DEF Status
  <2>4. job' = job => Kept
    BY <1>0
  <2>. HIDE DEF Kept
  <2>5. Kept
    BY <1>1, <1>3, <2>1, <2>2, <2>3, <2>4, JobSteps DEF Takes, Looks, Advances
  <2>. QED
    BY <2>5 DEF Kept
<1>. QED
  BY <1>0, <1>2, <1>3, Otherwise

\* An entry in hand was in hand before, or is taken now.
LEMMA InHand ==
  ASSUME TypeOK, Holding, Running, [Next]_vars, NEW v \in Worker, Held(v)'
  PROVE  \/ /\ Held(v) /\ work'[v].rec = work[v].rec
            /\ Doing(v, "delete")' => work'[v] = work[v] \/ Looks(v)
         \/ /\ Doing(v, "remove")'
            /\ \E i \in JobOf(v).plan : Takes(v, i) /\ work'[v].rec = i[1]
<1>. USE DEF Doing, Held
<1>0. work \in [Worker -> Work \cup {None}] /\ (work[v] # None => work[v] \in Work)
  BY DEF TypeOK
<1>1. CASE Preview
  BY <1>1, PreviewSteps
<1>2. CASE Execute
  <2>. PICK w \in Worker : \/ \E j \in Job : Start(w, j)
                           \/ \E i \in JobOf(w).plan : Takes(w, i)
                           \/ Looks(w)
                           \/ \E x \in Work : Advances(w, x)
                           \/ Quits(w)
    BY <1>2, JobSteps
  <2>1. ASSUME NEW j \in Job, Start(w, j) PROVE Held(v) /\ work'[v] = work[v]
    BY <1>0, <2>1 DEF Start
  <2>2. ASSUME NEW i \in JobOf(w).plan, Takes(w, i), v # w PROVE Held(v) /\ work'[v] = work[v]
    BY <1>0, <2>2 DEF Takes
  <2>3. ASSUME NEW i \in JobOf(w).plan, Takes(w, i), v = w
        PROVE  work'[v].rec = i[1] /\ work'[v].at = "remove" /\ work'[v] # None
    BY <1>0, <2>3, NullAssumption DEF Takes, Work
  <2>6. ASSUME Looks(w)
        PROVE  Held(v) /\ work'[v].rec = work[v].rec /\ (work'[v] = work[v] \/ v = w)
    BY <1>0, <2>6 DEF Looks, Work
  <2>4. ASSUME NEW x \in Work, Advances(w, x) PROVE Held(v) /\ work'[v] = work[v]
    BY <1>0, <2>4 DEF Advances
  <2>5. ASSUME Quits(w) PROVE Held(v) /\ work'[v] = work[v]
    BY <1>0, <2>5 DEF Quits
  <2>. QED
    BY <2>1, <2>2, <2>3, <2>4, <2>5, <2>6
<1>. QED
  BY <1>1, <1>2, Otherwise

\* What a worker has in hand was looked at, and is locked since.
LEMMA UnprotectedNext ==
  ASSUME TypeOK, Holding, Running, Unprotected, [Next]_vars PROVE Unprotected'
<1>. SUFFICES ASSUME NEW v \in Worker, Held(v)'
              PROVE  /\ work'[v].rec \notin managed' \cup claimed' \cup edited'
                     /\ entry'[work'[v].rec] # None => ~entry'[work'[v].rec].notes
  BY DEF Unprotected
<1>1. CASE Held(v) /\ work'[v].rec = work[v].rec
  <2>. DEFINE r == work[v].rec
  <2>1. r \in Recording /\ Locked(r)
    BY <1>1 DEF Holding, Held, Locked
  <2>2. /\ r \in managed' => r \in managed
        /\ r \in claimed' => r \in claimed
        /\ r \in edited' => r \in edited
        /\ entry'[r] \in {None, entry[r]}
    BY <2>1, EntriesWritten
  <2>. QED
    BY <1>1, <2>2 DEF Unprotected
<1>2. ASSUME NEW i \in JobOf(v).plan, Takes(v, i), work'[v].rec = i[1]
      PROVE  /\ work'[v].rec \notin managed' \cup claimed' \cup edited'
             /\ entry'[work'[v].rec] # None => ~entry'[work'[v].rec].notes
  BY <1>2 DEF Takes, Spared, Protected
<1>. QED
  BY <1>1, <1>2, InHand

\* One worker runs a job, and says so.
LEMMA RunningNext == ASSUME TypeOK, Holding, Running, [Next]_vars PROVE Running'
<1>0. /\ work \in [Worker -> Work \cup {None}] /\ job \in [Job -> JobRow \cup {None}]
      /\ \A v \in Worker : work[v] # None => work[v].job \in Job
  BY DEF TypeOK, Work
<1>. USE DEF Running, JobOf
<1>1. CASE Preview
  BY <1>0, <1>1, PreviewSteps, NullAssumption
<1>2. CASE Execute
  <2>. PICK w \in Worker : \/ \E j \in Job : Start(w, j)
                           \/ \E i \in JobOf(w).plan : Takes(w, i)
                           \/ Looks(w)
                           \/ \E x \in Work : Advances(w, x)
                           \/ Quits(w)
    BY <1>2, JobSteps
  <2>1. ASSUME NEW j \in Job, Start(w, j) PROVE Running'
    <3>1. /\ job[j] \in JobRow /\ job[j].status = "preview"
          /\ job' = [job EXCEPT ![j].status = "running"]
          /\ work[w] = None /\ work'[w].job = j
          /\ \A v \in Worker \ {w} : work'[v] = work[v]
      BY <1>0, <2>1 DEF Start, Startable
    <3>2. \A v \in Worker : work[v] # None => work[v].job # j /\ job'[work[v].job] = job[work[v].job]
      BY <1>0, <3>1
    <3>3. job'[j] \in JobRow /\ job'[j].status = "running"
      BY <1>0, <3>1 DEF JobRow, Status
    <3>. QED
      BY <3>1, <3>2, <3>3
  <2>2. ASSUME NEW i \in JobOf(w).plan, Takes(w, i) PROVE Running'
    <3>1. job' = job /\ work'[w].job = work[w].job /\ work[w] # None
          /\ \A v \in Worker \ {w} : work'[v] = work[v]
      BY <1>0, <2>2 DEF Takes, Doing, Work
    <3>. QED
      BY <3>1
  <2>5. ASSUME Looks(w) PROVE Running'
    <3>1. job' = job /\ work'[w].job = work[w].job /\ work[w] # None
          /\ \A v \in Worker \ {w} : work'[v] = work[v]
      BY <1>0, <2>5 DEF Looks, Doing, Work
    <3>. QED
      BY <3>1
  <2>3. ASSUME NEW x \in Work, Advances(w, x) PROVE Running'
    BY <1>0, <2>3 DEF Advances
  <2>4. CASE Quits(w)
    <3>1. \A v \in Worker : work'[v] # None => v # w /\ work'[v] = work[v]
      BY <1>0, <2>4 DEF Quits
    <3>2. \A v \in Worker : work'[v] # None => job'[work[v].job] = job[work[v].job]
      BY <1>0, <2>4, <3>1 DEF Quits
    <3>. QED
      BY <3>1, <3>2
  <2>. QED
    BY <2>1, <2>2, <2>3, <2>4, <2>5
<1>. QED
  BY <1>1, <1>2, Otherwise

\* Identities are not given out twice.
LEMMA GoneStays ==
  ASSUME TypeOK, Holding, Plans, [Next]_vars, NEW i, i[1] \in Recording, i[2] \in 1..born, Gone(i)
  PROVE  Gone(i)'
<1>1. i[2] # 0 /\ i[2] # born + 1
  BY DEF TypeOK
<1>. QED
  BY <1>1, EntriesWritten DEF Gone, EntryId

\* Plans name identities that exist.
LEMMA PlansNext == ASSUME TypeOK, Holding, Running, Plans, [Next]_vars PROVE Plans'
<1>0. /\ work \in [Worker -> Work \cup {None}] /\ job \in [Job -> JobRow \cup {None}] /\ born \in Nat
      /\ \A v \in Worker : work[v] # None => work[v] \in Work /\ work[v].job \in Job
      /\ Recording # {} => born' \in Nat /\ born <= born'
  BY EntriesWritten DEF TypeOK, Work
<1>1. \A r \in Recording : entry'[r] # None => entry'[r].id \in 1..born'
  <2>. SUFFICES ASSUME NEW r \in Recording, entry'[r] # None PROVE entry'[r].id \in 1..born'
    OBVIOUS
  <2>1. born' \in Nat /\ born <= born'
    BY EntriesWritten
  <2>. QED
    BY <1>0, <2>1, EntriesWritten DEF Plans
<1>2. \A j \in Job :
        job'[j] # None =>
          \A i \in job'[j].plan : i[2] <= born' /\ (job'[j].kind = "cleanup" => i[2] # 0)
  <2>. SUFFICES ASSUME NEW j \in Job, job'[j] # None, NEW i \in job'[j].plan
                PROVE  i[2] <= born' /\ (job'[j].kind = "cleanup" => i[2] # 0)
    OBVIOUS
  <2>1. CASE job[j] # None
    <3>1. i \in job[j].plan /\ job'[j].kind = job[j].kind
      BY <2>1, JobsKept
    <3>2. i[1] \in Recording /\ i[2] \in Nat
      BY <1>0, <2>1, <3>1 DEF JobRow
    <3>3. born' \in Nat /\ born <= born'
      BY <3>2, EntriesWritten
    <3>. QED
      BY <1>0, <2>1, <3>1, <3>2, <3>3 DEF Plans
  <2>2. CASE job[j] = None
    <3>1. Preview
      <4>1. ASSUME NEW w \in Worker, NEW k \in Job, Start(w, k) PROVE FALSE
        BY <1>0, <2>2, <4>1 DEF Start, Startable
      <4>2. ASSUME NEW w \in Worker, Quits(w) PROVE FALSE
        <5>1. work[w].job # j
          BY <2>2, <4>2, NullAssumption DEF Quits, Running, JobOf
        <5>. QED
          BY <1>0, <2>2, <4>2, <5>1 DEF Quits
      <4>3. ~Execute
        BY <2>2, <4>1, <4>2, JobSteps DEF Takes, Looks, Advances
      <4>. QED
        BY <2>2, <4>3, Otherwise
    <3>2. PICK k \in Job, row \in JobRow :
            /\ job[k] = None /\ job' = [job EXCEPT ![k] = row]
            /\ \A n \in row.plan :
                 /\ n[1] \in Recording /\ n[2] = EntryId(n[1])
                 /\ row.kind = "cleanup" => entry[n[1]] # None
            /\ UNCHANGED <<entry, born>>
      BY <3>1, PreviewSteps
    <3>3. k = j /\ job'[j] = row
      BY <1>0, <2>2, <3>2
    <3>4. \A r \in Recording : EntryId(r) \in 0..born /\ (entry[r] # None => EntryId(r) # 0)
      BY <1>0 DEF EntryId, Plans
    <3>. QED
      BY <1>0, <3>2, <3>3, <3>4
  <2>. QED
    BY <2>1, <2>2
<1>3. \A v \in Worker : work'[v] # None => work'[v].entries \subseteq JobOf(v)'.plan
  <2>. SUFFICES ASSUME NEW v \in Worker, work'[v] # None
                PROVE  work'[v].entries \subseteq JobOf(v)'.plan
    OBVIOUS
  <2>1. ASSUME work[v] # None, work'[v].job = work[v].job, work'[v].entries \subseteq work[v].entries
        PROVE  work'[v].entries \subseteq JobOf(v)'.plan
    <3>1. JobOf(v)'.plan = JobOf(v).plan
      BY <1>0, <2>1, JobsKept, NullAssumption DEF JobOf, Running
    <3>. QED
      BY <2>1, <3>1 DEF Plans
  <2>2. CASE Preview
    BY <2>1, <2>2, PreviewSteps
  <2>3. CASE Execute
    <3>. PICK w \in Worker : \/ \E j \in Job : Start(w, j)
                             \/ \E i \in JobOf(w).plan : Takes(w, i)
                             \/ Looks(w)
                             \/ \E x \in Work : Advances(w, x)
                             \/ Quits(w)
      BY <2>3, JobSteps
    <3>1. CASE v # w
      <4>1. work'[v] = work[v]
        BY <1>0, <3>1 DEF Start, Takes, Looks, Advances, Quits
      <4>. QED
        BY <2>1, <4>1
    <3>2. ASSUME v = w, NEW j \in Job, Start(w, j)
          PROVE  work'[v].entries \subseteq JobOf(v)'.plan
      <4>1. /\ job[j] \in JobRow /\ work'[v].job = j
            /\ work'[v].entries \subseteq job[j].plan /\ job[j] # None
        BY <1>0, <3>2 DEF Start, Startable
      <4>2. JobOf(v)'.plan = job[j].plan
        BY <4>1, JobsKept DEF JobOf
      <4>. QED
        BY <4>1, <4>2
    <3>3. ASSUME v = w, (\E i \in JobOf(w).plan : Takes(w, i)) \/ Looks(w)
          PROVE  /\ work[v] # None /\ work'[v].job = work[v].job
                 /\ work'[v].entries \subseteq work[v].entries
      <4>1. CASE Looks(w)
        BY <1>0, <3>3, <4>1 DEF Looks, Doing, Work
      <4>2. ASSUME NEW i \in JobOf(w).plan, Takes(w, i)
            PROVE  /\ work[v] # None /\ work'[v].job = work[v].job
                   /\ work'[v].entries \subseteq work[v].entries
        BY <1>0, <3>3, <4>2 DEF Takes, Doing, Work
      <4>. QED
        BY <3>3, <4>1, <4>2
    <3>4. ASSUME v = w, NEW x \in Work, Advances(w, x)
          PROVE  /\ work[v] # None /\ work'[v].job = work[v].job
                 /\ work'[v].entries \subseteq work[v].entries
      BY <1>0, <3>4 DEF Advances
    <3>5. CASE v = w /\ Quits(w)
      BY <1>0, <3>5 DEF Quits
    <3>. QED
      BY <2>1, <3>1, <3>2, <3>3, <3>4, <3>5
  <2>. QED
    BY <2>1, <2>2, <2>3, Otherwise
<1>. QED
  BY <1>1, <1>2, <1>3 DEF Plans

\* A job is started from its preview, and leaves it.
LEMMA StartedOnceNext ==
  ASSUME TypeOK, Holding, Running, StartedOnce, [Next]_vars PROVE StartedOnce'
<1>0. job \in [Job -> JobRow \cup {None}] /\ started \in [Job -> Nat]
  BY DEF TypeOK
<1>. USE DEF StartedOnce
<1>1. CASE Preview
  BY <1>0, <1>1, PreviewSteps
<1>2. CASE Execute
  <2>. PICK w \in Worker : \/ \E j \in Job : Start(w, j)
                           \/ \E i \in JobOf(w).plan : Takes(w, i)
                           \/ Looks(w)
                           \/ \E x \in Work : Advances(w, x)
                           \/ Quits(w)
    BY <1>2, JobSteps
  <2>1. ASSUME NEW j \in Job, Start(w, j) PROVE StartedOnce'
    <3>1. /\ job[j] \in JobRow /\ started[j] = 0 /\ started' = [started EXCEPT ![j] = started[j] + 1]
          /\ job' = [job EXCEPT ![j].status = "running"]
      BY <1>0, <2>1 DEF Start, Startable
    <3>2. job'[j] # None /\ job'[j].status = "running"
      <4>1. job'[j] \in JobRow /\ job'[j].status = "running"
        BY <1>0, <3>1 DEF JobRow, Status
      <4>. QED
        BY <4>1, NullAssumption
    <3>. QED
      BY <1>0, <3>1, <3>2
  <2>2. ASSUME \/ \E i \in JobOf(w).plan : Takes(w, i)
               \/ Looks(w)
               \/ \E x \in Work : Advances(w, x)
        PROVE  StartedOnce'
    BY <2>2 DEF Takes, Looks, Advances
  <2>3. CASE Quits(w)
    <3>1. ASSUME NEW s \in {"partial", "completed", "failed"},
                 job' = [job EXCEPT ![work[w].job].status = s]
          PROVE  StartedOnce'
      <4>1. \A j \in Job : job[j] \in JobRow => job'[j] \in JobRow
        BY JobsKept, NullAssumption
      <4>2. \A j \in Job : job'[j] = job[j] \/ job'[j].status = s
        BY <1>0, <3>1 DEF JobRow
      <4>. QED
        BY <1>0, <2>3, <4>1, <4>2, NullAssumption DEF Quits
    <3>. QED
      BY <2>3, <3>1 DEF Quits
  <2>. QED
    BY <2>1, <2>2, <2>3
<1>. QED
  BY <1>1, <1>2, Otherwise

\* What is gone of a cleanup's plan stays so.
LEMMA PlanGone ==
  ASSUME TypeOK, Holding, Running, Plans, [Next]_vars, NEW j \in Job, job[j] # None,
         job[j].kind = "cleanup", NEW i \in job[j].plan, Gone(i)
  PROVE  Gone(i)'
<1>1. i[1] \in Recording /\ i[2] \in 1..born
  BY DEF TypeOK, JobRow, Plans
<1>. QED
  BY <1>1, GoneStays

\* A cleanup without complaints has removed what it no longer lists.
LEMMA ProgressNext ==
  ASSUME TypeOK, Holding, Running, Plans, Progress, [Next]_vars PROVE Progress'
<1>0. /\ work \in [Worker -> Work \cup {None}] /\ job \in [Job -> JobRow \cup {None}]
      /\ \A v \in Worker : work[v] # None => work[v] \in Work /\ work[v].job \in Job /\ JobOf(v) \in JobRow
  BY DEF TypeOK, Work, Running
<1>. DEFINE Good(v) ==
       /\ work[v].at \in {"cleanup", "remove", "delete"}
       /\ JobOf(v).spared => work[v].failed
       /\ ~work[v].failed =>
            \A i \in JobOf(v).plan \ work[v].entries :
              Gone(i) \/ (work[v].at # "cleanup" /\ i[1] = work[v].rec)
<1>. SUFFICES ASSUME NEW v \in Worker, work'[v] # None, JobOf(v)'.kind = "cleanup" PROVE Good(v)'
  BY DEF Progress
<1>1. ASSUME work[v] # None, work'[v].job = work[v].job
      PROVE  /\ JobOf(v)'.plan = JobOf(v).plan /\ JobOf(v)'.spared = JobOf(v).spared
             /\ JobOf(v).kind = "cleanup" /\ Good(v)
             /\ \A i \in JobOf(v).plan : Gone(i) => Gone(i)'
  <2>1. JobOf(v) # None /\ JobOf(v) = job[work[v].job] /\ JobOf(v)' = job'[work[v].job]
    BY <1>0, <1>1, NullAssumption DEF JobOf
  <2>2. /\ JobOf(v)'.plan = JobOf(v).plan /\ JobOf(v)'.spared = JobOf(v).spared
        /\ JobOf(v)'.kind = JobOf(v).kind
    BY <1>0, <1>1, <2>1, JobsKept
  <2>3. \A i \in JobOf(v).plan : Gone(i) => Gone(i)'
    BY <1>0, <1>1, <2>1, <2>2, PlanGone
  <2>. QED
    BY <1>1, <2>2, <2>3 DEF Progress
<1>2. CASE work'[v] = work[v]
  BY <1>1, <1>2
<1>3. CASE Preview
  BY <1>2, <1>3, PreviewSteps
<1>4. CASE Execute
  <2>. PICK w \in Worker : \/ \E j \in Job : Start(w, j)
                           \/ \E i \in JobOf(w).plan : Takes(w, i)
                           \/ Looks(w)
                           \/ \E x \in Work : Advances(w, x)
                           \/ Quits(w)
    BY <1>4, JobSteps
  <2>1. CASE v # w
    BY <1>0, <1>2, <2>1 DEF Start, Takes, Looks, Advances, Quits
  <2>2. ASSUME v = w, NEW j \in Job, Start(w, j) PROVE Good(v)'
    <3>1. /\ job[j] # None /\ job[j] \in JobRow /\ work'[v].job = j
          /\ work'[v].at = IF job[j].kind = "cleanup" THEN "cleanup" ELSE "scan"
          /\ work'[v].entries = IF job[j].kind = "cleanup" THEN job[j].plan ELSE {}
          /\ work'[v].failed = job[j].spared
      BY <1>0, <2>2 DEF Start, Startable
    <3>2. JobOf(v)'.plan = job[j].plan /\ JobOf(v)'.spared = job[j].spared /\ JobOf(v)'.kind = job[j].kind
      BY <3>1, JobsKept DEF JobOf
    <3>. QED
      BY <3>1, <3>2
  <2>3. ASSUME v = w, NEW i \in JobOf(w).plan, Takes(w, i) PROVE Good(v)'
    <3>1. /\ work[v] # None /\ work[v].at = "cleanup" /\ work'[v].job = work[v].job
          /\ work'[v].entries = work[v].entries \ {i} /\ work'[v].rec = i[1]
          /\ work'[v].at = "remove" /\ work'[v].failed = work[v].failed
      BY <1>0, <2>3 DEF Takes, Doing, Work
    <3>. QED
      BY <1>1, <3>1
  <2>4. ASSUME v = w, NEW x \in Work, Advances(w, x) PROVE Good(v)'
    <3>1. /\ work[v] # None /\ work'[v] = x /\ x.job = work[v].job /\ (work[v].failed => x.failed)
          /\ work[v].at \in {"cleanup", "remove", "delete"} =>
               /\ x.at = "cleanup"
               /\ ~x.failed => CleanupRemove(v) /\ x.entries = work[v].entries
      BY <1>0, <2>4 DEF Advances
    <3>2. ASSUME ~x.failed, NEW i \in JobOf(v).plan, i[1] = work[v].rec PROVE Gone(i)'
      <4>1. CleanupRemove(v) /\ work[v].rec \in Recording
        BY <1>1, <3>1, <3>2 DEF CleanupRemove, Held, Holding
      <4>2. entry'[i[1]] = None
        BY <3>2, <4>1 DEF CleanupRemove, TypeOK
      <4>3. i[2] # 0
        BY <1>0, <1>1, <3>1, NullAssumption DEF Plans, JobOf
      <4>. QED
        BY <4>2, <4>3 DEF Gone, EntryId
    <3>. QED
      BY <1>1, <3>1, <3>2
  <2>5. CASE v = w /\ Quits(w)
    BY <1>0, <2>5 DEF Quits
  <2>6. CASE v = w /\ Looks(w)
    <3>1. /\ work[v] # None /\ work[v].at = "remove" /\ work'[v].job = work[v].job
          /\ work'[v].entries = work[v].entries /\ work'[v].rec = work[v].rec
          /\ work'[v].at = "delete" /\ work'[v].failed = work[v].failed
      BY <1>0, <2>6 DEF Looks, Doing, Work
    <3>. QED
      BY <1>1, <3>1
  <2>. QED
    BY <2>1, <2>2, <2>3, <2>4, <2>5, <2>6
<1>. QED
  BY <1>2, <1>3, <1>4, Otherwise

\* A cleanup that ends without complaints has removed its plan.
LEMMA CompletedNext ==
  ASSUME TypeOK, Holding, Running, Plans, Progress, CompletedIsClean, [Next]_vars
  PROVE  CompletedIsClean'
<1>0. job \in [Job -> JobRow \cup {None}]
  BY DEF TypeOK
<1>. SUFFICES ASSUME NEW j \in Job, job'[j] # None, job'[j].kind = "cleanup", job'[j].status = "completed"
              PROVE  ~job'[j].spared /\ \A i \in job'[j].plan : Gone(i)'
  BY DEF CompletedIsClean, Gone
<1>1. CASE job[j] # None /\ job[j].status = "completed"
  <2>1. job'[j].spared = job[j].spared /\ job'[j].plan = job[j].plan /\ job[j].kind = "cleanup"
    BY <1>1, JobsKept
  <2>2. ~job[j].spared /\ \A i \in job[j].plan : Gone(i)
    BY <1>1, <2>1 DEF CompletedIsClean, Gone
  <2>. QED
    BY <1>1, <2>1, <2>2, PlanGone
<1>2. ASSUME NEW w \in Worker, Quits(w), NEW s \in {"partial", "completed", "failed"},
             job' = [job EXCEPT ![work[w].job].status = s],
             s = "completed" => /\ work[w].at \in {"cleanup", "rebuild"}
                                /\ work[w].entries = {} /\ ~work[w].failed,
             ~(job[j] # None /\ job[j].status = "completed")
      PROVE  ~job'[j].spared /\ \A i \in job'[j].plan : Gone(i)'
  <2>1. work[w] # None /\ JobOf(w) \in JobRow /\ UNCHANGED entry
    BY <1>2 DEF Quits, Running
  <2>2. work[w].job = j
    BY <1>0, <1>2
  <2>3. JobOf(w) = job[j] /\ job[j] # None
    BY <2>1, <2>2, NullAssumption DEF JobOf
  <2>4. s = "completed" /\ job'[j].plan = job[j].plan /\ job'[j].kind = job[j].kind
        /\ job'[j].spared = job[j].spared
    <3>1. job'[j].status = s
      BY <1>0, <1>2, <2>1, <2>2, <2>3 DEF JobRow
    <3>. QED
      BY <2>3, <3>1, JobsKept
  <2>5. ~job[j].spared /\ \A i \in job[j].plan : Gone(i)
    BY <1>2, <2>1, <2>3, <2>4 DEF Progress
  <2>. QED
    BY <2>1, <2>4, <2>5 DEF Gone, EntryId
<1>3. CASE Preview
  BY <1>0, <1>1, <1>3, PreviewSteps
<1>4. CASE Execute
  <2>1. ASSUME NEW w \in Worker, NEW i \in Job, Start(w, i)
        PROVE  job[j] # None /\ job[j].status = "completed"
    <3>1. /\ job[i] \in JobRow /\ job' = [job EXCEPT ![i].status = "running"]
      BY <1>0, <2>1 DEF Start, Startable
    <3>2. i # j
      BY <1>0, <3>1 DEF JobRow
    <3>. QED
      BY <1>0, <3>1, <3>2
  <2>. QED
    BY <1>1, <1>2, <1>4, <2>1, JobSteps DEF Takes, Looks, Advances, Quits
<1>. QED
  BY <1>1, <1>3, <1>4, Otherwise

-----------------------------------------------------------------------------
(* What came late, and which files are listed.                             *)

\* What protects a recording is no more than before, or nothing, or came late.
LEMMA KnownStays ==
  ASSUME TypeOK, Holding, [Next]_vars, NEW r \in Recording
  PROVE  \/ (Protected(r)' => Protected(r)) /\ (r \in late => r \in late')
         \/ ~Protected(r)'
         \/ Looked(r) => r \in late'
<1>. DEFINE Goal == \/ (Protected(r)' => Protected(r)) /\ (r \in late => r \in late')
                    \/ ~Protected(r)'
                    \/ Looked(r) => r \in late'
<1>0. entry \in [Recording -> Entry \cup {None}]
  BY DEF TypeOK
<1>1. ASSUME UNCHANGED <<managed, claimed, assessed, entry, late>>, edited' \subseteq edited PROVE Goal
  BY <1>1 DEF Protected
<1>2. ASSUME UNCHANGED <<managed, claimed, assessed, late>>, edited' \subseteq edited,
             entry'[r] \in {None, entry[r]} \/ entry'[r].notes = FALSE
      PROVE  Goal
  BY <1>2 DEF Protected
<1>3. ASSUME NEW q \in Recording, UNCHANGED <<managed, claimed, assessed, edited, entry>>,
             ~Protected(q), late' = late \ {q}
      PROVE  Goal
  BY <1>3 DEF Protected
<1>4. ASSUME NEW q \in Recording, late' = IF Looked(q) THEN late \cup {q} ELSE late,
             q # r => /\ r \in managed' => r \in managed
                      /\ r \in claimed' => r \in claimed
                      /\ r \in assessed' => r \in assessed
                      /\ r \in edited' => r \in edited
                      /\ entry'[r] = entry[r]
      PROVE  Goal
  <2>1. CASE q = r
    BY <1>4, <2>1
  <2>2. CASE q # r
    BY <1>4, <2>2 DEF Protected
  <2>. QED
    BY <2>1, <2>2
<1>5. ASSUME NEW q \in Recording, WithEntry(q)
      PROVE  /\ r # q => entry'[r] = entry[r]
             /\ entry'[r] \in {None, entry[r]} \/ entry'[r].notes = FALSE
  <2>. DEFINE new == [id |-> born + 1, notes |-> FALSE]
  <2>1. new.notes = FALSE /\ entry' = [entry EXCEPT ![q] = IF entry[q] = None THEN new ELSE entry[q]]
    BY <1>5 DEF WithEntry
  <2>. HIDE DEF new
  <2>. QED
    BY <1>0, <2>1
<1>6. CASE UNCHANGED vars
  BY <1>1, <1>6 DEF vars, knowledge
<1>7. CASE Preview
  BY <1>1, <1>7 DEF Preview, PreviewCleanup, PreviewRebuild, knowledge
<1>8. ASSUME NEW w \in Worker, NEW i \in JobOf(w).plan, CleanupCheck(w, i) PROVE Goal
  <2>. HIDE DEF Goal
  <2>1. UNCHANGED <<managed, claimed, assessed, edited, entry>>
    BY <1>8 DEF CleanupCheck, knowledge
  <2>2. CASE Spared(i[1], i[2])
    BY <1>1, <1>8, <2>1, <2>2 DEF CleanupCheck
  <2>3. CASE ~Spared(i[1], i[2]) /\ i[1] \in Recording
    BY <1>3, <1>8, <2>1, <2>3 DEF CleanupCheck, Spared
  <2>4. CASE ~Spared(i[1], i[2]) /\ i[1] \notin Recording
    <3>1. r \in late => r \in late'
      BY <1>8, <2>4 DEF CleanupCheck
    <3>2. Protected(r)' => Protected(r)
      BY <2>1 DEF Protected
    <3>. QED
      BY <3>1, <3>2 DEF Goal
  <2>. QED
    BY <2>2, <2>3, <2>4
<1>9. ASSUME NEW w \in Worker, NEW p \in Path, RebuildCheck(w, p) PROVE Goal
  <2>. HIDE DEF Goal
  <2>1. UNCHANGED <<managed, claimed, assessed, edited, entry>> /\ RecordingOf[p] \in Recording
    BY <1>9, MaintenanceAssumption DEF RebuildCheck, knowledge
  <2>2. CASE RecordingOf[p] \in work[w].reset
    BY <1>1, <1>9, <2>1, <2>2 DEF RebuildCheck
  <2>3. CASE RecordingOf[p] \notin work[w].reset
    BY <1>3, <1>9, <2>1, <2>3 DEF RebuildCheck
  <2>. QED
    BY <2>2, <2>3
<1>10. ASSUME NEW w \in Worker, CleanupRemove(w) PROVE Goal
  BY <1>0, <1>2, <1>10 DEF CleanupRemove, knowledge
<1>11. ASSUME NEW w \in Worker, RebuildApply(w) PROVE Goal
  <2>. DEFINE q == RecordingOf[work[w].file]
              new == [id |-> born + 1, notes |-> FALSE]
  <2>1. Reread(w, q) = entry[q] \/ Reread(w, q) = new
    BY DEF Reread
  <2>2. new.notes = FALSE
    OBVIOUS
  <2>. HIDE DEF new
  <2>3. /\ entry' = [entry EXCEPT ![q] = Reread(w, q)] /\ edited' \subseteq edited
        /\ UNCHANGED <<managed, claimed, assessed, late>>
    BY <1>11 DEF RebuildApply, knowledge
  <2>4. entry'[r] = entry[r] \/ entry'[r] = new
    BY <1>0, <2>1, <2>3
  <2>. HIDE DEF q, Goal
  <2>. QED
    BY <1>2, <2>2, <2>3, <2>4
<1>12. ASSUME NEW w \in Worker, RebuildGone(w) PROVE Goal
  BY <1>0, <1>2, <1>12 DEF RebuildGone, knowledge
<1>13. ASSUME NEW w \in Worker,
              \/ \E j \in Job : Start(w, j)
              \/ CleanupLook(w) \/ CleanupBlocked(w) \/ RebuildScan(w) \/ RebuildFails(w)
              \/ \E p \in Path : RebuildSkip(w, p) \/ RebuildConflict(w, p)
              \/ Finish(w) \/ MarkFailed(w) \/ Crash(w)
       PROVE  Goal
  <2>1. UNCHANGED <<managed, claimed, assessed, entry, late, edited>>
    BY <1>13 DEF Start, CleanupLook, CleanupBlocked, RebuildScan, RebuildFails, RebuildSkip,
                 RebuildConflict, Finish, MarkFailed, Crash, knowledge
  <2>. HIDE DEF Goal
  <2>. QED
    BY <1>1, <2>1
<1>14. ASSUME Execute PROVE Goal
  <2>. HIDE DEF Goal
  <2>. QED
    BY <1>8, <1>9, <1>10, <1>11, <1>12, <1>13, <1>14, Zenon DEF Execute
<1>15. ASSUME NEW q \in Recording,
              \/ \E notes \in BOOLEAN : EditEntry(q, notes)
              \/ Claim(q) \/ Manage(q) \/ Assess(q)
       PROVE  Goal
  <2>1. /\ Recorded(q) /\ managed' \subseteq managed \cup {q} /\ claimed' \subseteq claimed \cup {q}
        /\ assessed' \subseteq assessed \cup {q} /\ edited' \subseteq edited \cup {q}
    BY <1>15 DEF EditEntry, Claim, Manage, Assess, knowledge
  <2>2. q # r => entry'[r] = entry[r]
    BY <1>0, <1>5, <1>15 DEF EditEntry, Claim, Manage, Assess
  <2>. HIDE DEF Goal
  <2>. QED
    BY <1>4, <2>1, <2>2 DEF Recorded
<1>16. ASSUME NEW p \in Path, Import(p) PROVE Goal
  BY <1>2, <1>5, <1>16, MaintenanceAssumption DEF Import, knowledge
<1>17. ASSUME Meanwhile PROVE Goal
  <2>1. ASSUME NEW p \in Path, EditDisk(p) PROVE Goal
    BY <1>1, <2>1 DEF EditDisk, knowledge
  <2>. HIDE DEF Goal
  <2>. QED
    BY <1>15, <1>16, <1>17, <2>1, Zenon DEF Meanwhile, ImportItem
<1>. QED
  BY <1>6, <1>7, <1>14, <1>17 DEF Next

\* A file in hand was in hand before, or is taken now.
LEMMA InFile ==
  ASSUME TypeOK, Holding, Running, [Next]_vars, NEW v \in Worker, Doing(v, "apply")'
  PROVE  \/ Doing(v, "apply") /\ work'[v] = work[v]
         \/ \E p \in Path : RebuildCheck(v, p) /\ work'[v].file = p /\ work'[v].reset = work[v].reset
<1>. USE DEF Doing
<1>0. work \in [Worker -> Work \cup {None}] /\ (work[v] # None => work[v] \in Work)
  BY DEF TypeOK
<1>1. CASE Preview
  BY <1>1, PreviewSteps
<1>2. CASE Execute
  <2>. PICK w \in Worker : \/ \E j \in Job : Start(w, j)
                           \/ \E i \in JobOf(w).plan : Takes(w, i)
                           \/ Looks(w)
                           \/ \E x \in Work : Advances(w, x)
                           \/ Quits(w)
    BY <1>2, JobSteps
  <2>1. CASE v # w
    BY <1>0, <2>1 DEF Start, Takes, Looks, Advances, Quits
  <2>2. ASSUME v = w, NEW j \in Job, Start(w, j) PROVE FALSE
    BY <1>0, <2>2 DEF Start
  <2>3. ASSUME v = w, (\E i \in JobOf(w).plan : Takes(w, i)) \/ Looks(w) PROVE FALSE
    BY <1>0, <2>3 DEF Takes, Looks, Work
  <2>4. ASSUME v = w, NEW x \in Work, Advances(w, x)
        PROVE  \E p \in Path : RebuildCheck(v, p) /\ work'[v].file = p /\ work'[v].reset = work[v].reset
    BY <1>0, <2>4 DEF Advances
  <2>5. CASE v = w /\ Quits(w)
    BY <1>0, <2>5 DEF Quits
  <2>. QED
    BY <2>1, <2>2, <2>3, <2>4, <2>5
<1>. QED
  BY <1>1, <1>2, Otherwise

\* The knowledge about what is about to be deleted came late.
LEMMA LateNext ==
  ASSUME TypeOK, Holding, Running, LateOnly, [Next]_vars PROVE LateOnly'
<1>. SUFFICES ASSUME NEW v \in Worker, NEW r \in Recording, Threatens(v, r)', Protected(r)'
              PROVE  r \in late'
  BY DEF LateOnly
<1>1. ASSUME Threatens(v, r) PROVE r \in late'
  <2>1. Looked(r)
    BY <1>1 DEF Threatens, Looked, Locked, Held
  <2>2. Protected(r) => r \in late
    BY <1>1 DEF LateOnly
  <2>. QED
    BY <2>1, <2>2, KnownStays
<1>2. CASE Held(v)' /\ work'[v].rec = r
  <2>1. CASE Held(v) /\ work'[v].rec = work[v].rec
    BY <1>1, <1>2, <2>1 DEF Threatens
  <2>2. ASSUME NEW i \in JobOf(v).plan, Takes(v, i), work'[v].rec = i[1] PROVE FALSE
    <3>1. i[1] = r /\ ~Protected(i[1]) /\ UNCHANGED <<managed, claimed, assessed, edited, entry>>
      BY <1>2, <2>2 DEF Takes, Spared
    <3>. QED
      BY <3>1 DEF Protected
  <2>. QED
    BY <1>2, <2>1, <2>2, InHand
<1>3. CASE Doing(v, "apply")' /\ Resets(v)' /\ RecordingOf[work'[v].file] = r
  <2>1. CASE Doing(v, "apply") /\ work'[v] = work[v]
    BY <1>1, <1>3, <2>1 DEF Threatens, Resets
  <2>2. ASSUME NEW p \in Path, RebuildCheck(v, p), work'[v].file = p, work'[v].reset = work[v].reset
        PROVE  FALSE
    <3>1. RecordingOf[p] = r /\ r \notin work[v].reset
      BY <1>3, <2>2 DEF Resets
    <3>2. ~Protected(r) /\ UNCHANGED <<managed, claimed, assessed, edited, entry>>
      BY <2>2, <3>1 DEF RebuildCheck, knowledge
    <3>. QED
      BY <3>2 DEF Protected
  <2>. QED
    BY <1>3, <2>1, <2>2, InFile
<1>. QED
  BY <1>2, <1>3 DEF Threatens

\* A location becomes active with an entry that nobody holds.
LEMMA LocationStep ==
  ASSUME TypeOK, Holding, [Next]_vars, NEW p \in Path, location'[p] = "active"
  PROVE  \/ location[p] = "active"
         \/ ~Locked(RecordingOf[p]) /\ entry'[RecordingOf[p]] # None
<1>0. /\ location \in [Path -> {"active", "missing", "historical"}] /\ born \in Nat
      /\ entry \in [Recording -> Entry \cup {None}]
  BY DEF TypeOK
<1>1. [id |-> born + 1, notes |-> FALSE] # None
  <2>1. [id |-> born + 1, notes |-> FALSE] \in Entry
    BY <1>0 DEF Entry
  <2>. QED
    BY <2>1, NullAssumption
<1>2. CASE UNCHANGED location
  BY <1>2
<1>3. ASSUME NEW w \in Worker, CleanupRemove(w) PROVE location[p] = "active"
  BY <1>0, <1>3 DEF CleanupRemove
<1>4. ASSUME NEW w \in Worker, RebuildScan(w) PROVE location[p] = "active"
  BY <1>0, <1>4 DEF RebuildScan
<1>5. ASSUME NEW w \in Worker, RebuildApply(w)
      PROVE  location[p] = "active" \/ (~Locked(RecordingOf[p]) /\ entry'[RecordingOf[p]] # None)
  <2>. DEFINE q == RecordingOf[work[w].file]
  <2>1. q \in Recording /\ work[w].file \in Path
    BY <1>5, MaintenanceAssumption DEF Holding, RebuildApply
  <2>2. entry' = [entry EXCEPT ![q] = Reread(w, q)] /\ ~Locked(q)
        /\ location' = [location EXCEPT ![work[w].file] = "active"]
    BY <1>5 DEF RebuildApply
  <2>3. Reread(w, q) # None
    BY <1>1 DEF Reread
  <2>4. CASE p = work[w].file
    BY <1>0, <2>1, <2>2, <2>3, <2>4
  <2>5. CASE p # work[w].file
    BY <1>0, <2>1, <2>2, <2>5
  <2>. QED
    BY <2>4, <2>5
<1>6. ASSUME NEW q \in Path, Import(q)
      PROVE  location[p] = "active" \/ (~Locked(RecordingOf[p]) /\ entry'[RecordingOf[p]] # None)
  <2>1. RecordingOf[q] \in Recording /\ ~Locked(RecordingOf[q])
        /\ location' = [location EXCEPT ![q] = "active"] /\ WithEntry(RecordingOf[q])
    BY <1>6, MaintenanceAssumption DEF Import
  <2>2. entry'[RecordingOf[q]] # None
    BY <1>0, <1>1, <2>1 DEF WithEntry
  <2>3. CASE p = q
    BY <2>1, <2>2, <2>3
  <2>4. CASE p # q
    BY <1>0, <2>1, <2>4
  <2>. QED
    BY <2>3, <2>4
<1>7. CASE Preview
  BY <1>2, <1>7 DEF Preview, PreviewCleanup, PreviewRebuild
<1>8. CASE Execute
  <2>1. ASSUME NEW w \in Worker, RebuildGone(w) PROVE UNCHANGED location
    BY <2>1 DEF RebuildGone
  <2>2. Quiet => UNCHANGED location
    BY DEF Quiet
  <2>. QED
    BY <1>2, <1>3, <1>4, <1>5, <1>8, <2>1, <2>2, RowsOfJobs
<1>9. CASE Meanwhile
  <2>1. ASSUME NEW r \in Recording,
               (\E notes \in BOOLEAN : EditEntry(r, notes)) \/ Claim(r) \/ Manage(r) \/ Assess(r)
        PROVE  UNCHANGED location
    BY <2>1 DEF EditEntry, Claim, Manage, Assess
  <2>2. ASSUME NEW q \in Path, EditDisk(q) PROVE UNCHANGED location
    BY <2>2 DEF EditDisk
  <2>. QED
    BY <1>2, <1>6, <1>9, <2>1, <2>2 DEF Meanwhile, ImportItem
<1>. QED
  BY <1>2, <1>7, <1>8, <1>9 DEF Next, vars

\* No location of a locked recording becomes active after it was looked at.
LEMMA SeenNext == ASSUME TypeOK, Holding, Running, Seen, [Next]_vars PROVE Seen'
<1>. SUFFICES ASSUME NEW v \in Worker, Doing(v, "delete")', NEW p \in Files(work'[v].rec),
                     location'[p] = "active"
              PROVE  p \in work'[v].files
  BY DEF Seen, Files
<1>1. Held(v)' /\ ~Doing(v, "remove")'
  BY DEF Held, Doing
<1>2. /\ Held(v) /\ work'[v].rec = work[v].rec
      /\ work'[v] = work[v] \/ Looks(v)
  BY <1>1, InHand
<1>3. p \in Path /\ RecordingOf[p] = work[v].rec
  BY <1>2 DEF Files
<1>4. location[p] = "active"
  BY <1>2, <1>3, LocationStep DEF Locked, Held
<1>5. CASE work'[v] = work[v]
  BY <1>3, <1>4, <1>5 DEF Seen, Files, Doing
<1>6. CASE Looks(v)
  <2>1. work'[v].files = Current(work[v].rec, Path)
    BY <1>6 DEF Looks, Doing, TypeOK, Work
  <2>. QED
    BY <1>3, <1>4, <2>1 DEF Current, Files
<1>. QED
  BY <1>2, <1>5, <1>6

\* Managed music keeps its entries.
LEMMA ManagedNext ==
  ASSUME TypeOK, Holding, Unprotected, ManagedListed, [Next]_vars PROVE ManagedListed'
<1>0. entry \in [Recording -> Entry \cup {None}] /\ born \in Nat /\ managed \subseteq Recording
  BY DEF TypeOK
<1>1. ASSUME NEW r \in Recording, Manage(r) PROVE entry'[r] # None /\ managed' = managed \cup {r}
  <2>1. [id |-> born + 1, notes |-> FALSE] \in Entry
    BY <1>0 DEF Entry
  <2>. QED
    BY <1>0, <1>1, <2>1, NullAssumption DEF Manage, WithEntry
<1>2. UNCHANGED managed \/ \E r \in Recording : Manage(r)
  <2>1. CASE Preview
    BY <2>1 DEF Preview, PreviewCleanup, PreviewRebuild, knowledge
  <2>2. CASE Execute
    BY <2>2, RowsOfJobs DEF Quiet, CleanupRemove, RebuildScan, RebuildApply, RebuildGone, knowledge
  <2>3. CASE Meanwhile
    BY <2>3 DEF Meanwhile, EditEntry, Claim, Assess, Import, ImportItem, EditDisk, knowledge
  <2>. QED
    BY <2>1, <2>2, <2>3 DEF Next, vars, knowledge
<1>3. ASSUME NEW r \in managed PROVE entry'[r] # None
  <2>1. r \in Recording /\ entry[r] # None
    BY <1>0 DEF ManagedListed
  <2>2. ASSUME NEW w \in Worker, work[w].rec = r, CleanupRemove(w) PROVE FALSE
    BY <2>2 DEF CleanupRemove, Unprotected, Held
  <2>3. ASSUME NEW w \in Worker, RecordingOf[work[w].file] = r, Resets(w), RebuildGone(w) PROVE FALSE
    BY <2>3 DEF RebuildGone, Refused
  <2>. QED
    BY <2>1, <2>2, <2>3, EntriesWritten
<1>. QED
  BY <1>1, <1>2, <1>3 DEF ManagedListed

\* The scan and what follows are about items nobody else's job has touched.
LEMMA ItemsNext ==
  ASSUME TypeOK, Holding, Running, Items, [Next]_vars PROVE Items'
<1>. DEFINE Fresh(j) == job[j] = None \/ job[j].status = "preview" => Untouched(j)
            Own(v) == /\ Doing(v, "scan") => Untouched(work[v].job)
                      /\ Doing(v, "rebuild") \/ Doing(v, "apply") =>
                           \A p \in work[v].files : items[work[v].job][p] \in {"ready", "imported"}
                      /\ Doing(v, "apply") =>
                           /\ items[work[v].job][work[v].file] \in {"ready", "imported"}
                           /\ work[v].file \notin work[v].files
<1>0. /\ work \in [Worker -> Work \cup {None}] /\ job \in [Job -> JobRow \cup {None}]
      /\ items \in [Job -> [Path -> ItemStatus]]
      /\ \A v \in Worker : work[v] # None => work[v] \in Work /\ work[v].job \in Job
      /\ \A v \in Worker : work[v] # None => job[work[v].job].status = "running" /\ job[work[v].job] # None
      /\ \A v, w \in Worker : work[v] # None /\ work[w] # None /\ work[v].job = work[w].job => v = w
  BY NullAssumption DEF TypeOK, Work, Running, JobOf
<1>. SUFFICES /\ \A j \in Job : Fresh(j)'
              /\ \A v \in Worker : Own(v)'
  BY DEF Items
<1>1. (\A j \in Job : Fresh(j)) /\ \A v \in Worker : Own(v)
  BY DEF Items
<1>2. ASSUME NEW v \in Worker, work'[v] = work[v],
             work[v] # None => items'[work[v].job] = items[work[v].job]
      PROVE  Own(v)'
  <2>1. Own(v)
    BY <1>1
  <2>. QED
    BY <1>2, <2>1 DEF Doing, Untouched
<1>3. ASSUME NEW v \in Worker, work'[v] = None PROVE Own(v)'
  BY <1>3 DEF Doing
<1>4. CASE Preview
  <2>1. UNCHANGED <<items, work>>
    BY <1>4, PreviewSteps
  <2>2. \A j \in Job : Fresh(j)'
    <3>1. PICK k \in Job, row \in JobRow : job[k] = None /\ job' = [job EXCEPT ![k] = row]
      BY <1>4, PreviewSteps
    <3>. QED
      BY <1>0, <1>1, <2>1, <3>1 DEF Untouched
  <2>. HIDE DEF Own, Fresh
  <2>. QED
    BY <1>2, <2>1, <2>2
<1>5. ASSUME NEW w \in Worker, \A v \in Worker \ {w} : work'[v] = work[v],
             \A j \in Job : work[w] = None \/ j # work[w].job => items'[j] = items[j],
             Own(w)',
             \A j \in Job : job'[j] = None \/ job'[j].status = "preview" =>
                              job'[j] = job[j] /\ (work[w] # None => j # work[w].job)
      PROVE  (\A j \in Job : Fresh(j)') /\ \A v \in Worker : Own(v)'
  <2>1. \A j \in Job : Fresh(j)'
    BY <1>1, <1>5 DEF Untouched
  <2>2. ASSUME NEW v \in Worker, v # w PROVE Own(v)'
    <3>1. work'[v] = work[v] /\ (work[v] # None => items'[work[v].job] = items[work[v].job])
      BY <1>0, <1>5, <2>2
    <3>. HIDE DEF Own
    <3>. QED
      BY <1>2, <3>1
  <2>. HIDE DEF Own, Fresh
  <2>. QED
    BY <1>5, <2>1, <2>2
<1>6. ASSUME NEW w \in Worker, NEW j \in Job, Start(w, j)
      PROVE  (\A k \in Job : Fresh(k)') /\ \A v \in Worker : Own(v)'
  <2>1. /\ job[j] \in JobRow /\ job[j].status = "preview" /\ items' = items /\ work[w] = None
        /\ job' = [job EXCEPT ![j].status = "running"]
    BY <1>0, <1>6 DEF Start, Startable
  <2>2. Untouched(j) /\ Untouched(j)'
    BY <1>1, <2>1 DEF Untouched
  <2>3. /\ work'[w].job = j /\ work'[w].at \in {"cleanup", "scan"}
        /\ \A v \in Worker \ {w} : work'[v] = work[v]
    BY <1>0, <1>6 DEF Start
  <2>4. Own(w)'
    <3>1. Untouched(work[w].job)'
      BY <2>1, <2>2, <2>3 DEF Untouched
    <3>. QED
      BY <2>3, <3>1 DEF Doing
  <2>5. job'[j] \in JobRow /\ job'[j].status = "running"
    BY <1>0, <2>1 DEF JobRow, Status
  <2>. HIDE DEF Own, Fresh
  <2>. QED
    BY <1>0, <1>5, <2>1, <2>3, <2>4, <2>5, NullAssumption
<1>7. ASSUME NEW w \in Worker, work[w] # None, job' = job, items' = items,
             \A v \in Worker \ {w} : work'[v] = work[v], Own(w)'
      PROVE  (\A k \in Job : Fresh(k)') /\ \A v \in Worker : Own(v)'
  <2>. HIDE DEF Own, Fresh
  <2>. QED
    BY <1>0, <1>5, <1>7
<1>8. ASSUME NEW w \in Worker, work[w] # None, job' = job,
             \A j \in Job \ {work[w].job} : items'[j] = items[j],
             \A v \in Worker \ {w} : work'[v] = work[v], Own(w)'
      PROVE  (\A k \in Job : Fresh(k)') /\ \A v \in Worker : Own(v)'
  <2>. HIDE DEF Own, Fresh
  <2>. QED
    BY <1>0, <1>5, <1>8
<1>9. ASSUME NEW w \in Worker,
             \/ \E i \in JobOf(w).plan : CleanupCheck(w, i)
             \/ CleanupLook(w) \/ CleanupBlocked(w) \/ CleanupRemove(w)
      PROVE  (\A k \in Job : Fresh(k)') /\ \A v \in Worker : Own(v)'
  <2>1. /\ work[w] # None /\ job' = job /\ items' = items /\ \A v \in Worker \ {w} : work'[v] = work[v]
        /\ work'[w].at \in {"cleanup", "remove", "delete"}
    <3>1. work[w] # None /\ job' = job /\ items' = items /\ \A v \in Worker \ {w} : work'[v] = work[v]
      BY <1>0, <1>9 DEF CleanupCheck, CleanupLook, CleanupBlocked, CleanupRemove, Doing
    <3>2. CASE CleanupLook(w) \/ CleanupBlocked(w) \/ CleanupRemove(w)
      BY <1>0, <3>1, <3>2 DEF CleanupLook, CleanupBlocked, CleanupRemove, Work
    <3>3. ASSUME NEW i \in JobOf(w).plan, CleanupCheck(w, i)
          PROVE  work'[w].at \in {"cleanup", "remove", "delete"}
      BY <1>0, <3>1, <3>3 DEF CleanupCheck, Doing, Work
    <3>. QED
      BY <1>9, <3>1, <3>2, <3>3
  <2>2. Own(w)'
    BY <2>1 DEF Doing
  <2>. HIDE DEF Own, Fresh
  <2>. QED
    BY <1>7, <2>1, <2>2
<1>10. ASSUME NEW w \in Worker, RebuildScan(w)
       PROVE  (\A k \in Job : Fresh(k)') /\ \A v \in Worker : Own(v)'
  <2>1. /\ work[w] # None /\ work[w] \in Work /\ work[w].job \in Job
        /\ job' = job /\ \A v \in Worker \ {w} : work'[v] = work[v]
        /\ \A j \in Job \ {work[w].job} : items'[j] = items[j]
        /\ work'[w].at = "rebuild" /\ work'[w].job = work[w].job
        /\ work'[w].files = JobOf(w).scope \cap disk
        /\ items'[work[w].job] =
             [p \in Path |-> IF p \in JobOf(w).scope \cap disk THEN "ready" ELSE "none"]
    BY <1>0, <1>10 DEF RebuildScan, Doing, Work
  <2>2. \A p \in work'[w].files : items'[work'[w].job][p] = "ready"
    BY <2>1 DEF TypeOK
  <2>3. Own(w)'
    BY <2>1, <2>2 DEF Doing
  <2>. HIDE DEF Own, Fresh
  <2>. QED
    BY <1>8, <2>1, <2>3
<1>11. ASSUME NEW w \in Worker, NEW p \in Path, RebuildSkip(w, p) \/ RebuildCheck(w, p)
       PROVE  (\A k \in Job : Fresh(k)') /\ \A v \in Worker : Own(v)'
  <2>1. /\ work[w] # None /\ work[w].at = "rebuild" /\ job' = job /\ items' = items
        /\ \A v \in Worker \ {w} : work'[v] = work[v]
        /\ p \in work[w].files /\ work'[w].files = work[w].files \ {p} /\ work'[w].job = work[w].job
        /\ work'[w].at # "scan" /\ (work'[w].at = "apply" => work'[w].file = p)
    BY <1>0, <1>11 DEF RebuildSkip, RebuildCheck, Doing, Work
  <2>2. \A q \in work[w].files : items[work[w].job][q] \in {"ready", "imported"}
    BY <1>1, <2>1 DEF Doing
  <2>3. Own(w)'
    BY <2>1, <2>2 DEF Doing
  <2>. HIDE DEF Own, Fresh
  <2>. QED
    BY <1>7, <2>1, <2>3
<1>12. ASSUME NEW w \in Worker, NEW p \in Path, RebuildConflict(w, p)
       PROVE  (\A k \in Job : Fresh(k)') /\ \A v \in Worker : Own(v)'
  <2>1. /\ work[w] # None /\ work[w].at = "rebuild" /\ job' = job
        /\ \A j \in Job \ {work[w].job} : items'[j] = items[j]
        /\ \A v \in Worker \ {w} : work'[v] = work[v]
        /\ work'[w].files = work[w].files \ {p} /\ work'[w].job = work[w].job /\ work'[w].at = "rebuild"
        /\ \A q \in Path \ {p} : items'[work[w].job][q] = items[work[w].job][q]
        /\ work[w].files \subseteq Path
    BY <1>0, <1>12 DEF RebuildConflict, Doing, Work
  <2>2. \A q \in work[w].files : items[work[w].job][q] \in {"ready", "imported"}
    BY <1>1, <2>1 DEF Doing
  <2>3. \A q \in work'[w].files : items'[work[w].job][q] \in {"ready", "imported"}
    BY <2>1, <2>2
  <2>4. Own(w)'
    BY <2>1, <2>3 DEF Doing
  <2>. HIDE DEF Own, Fresh
  <2>. QED
    BY <1>8, <2>1, <2>4
<1>13. ASSUME NEW w \in Worker, RebuildApply(w) \/ RebuildGone(w) \/ RebuildFails(w)
       PROVE  (\A k \in Job : Fresh(k)') /\ \A v \in Worker : Own(v)'
  <2>1. work[w] # None /\ work[w].at = "apply" /\ work[w].file \in Path
    BY <1>13 DEF RebuildApply, RebuildGone, RebuildFails, Doing, Holding
  <2>2. /\ job' = job
        /\ \A j \in Job \ {work[w].job} : items'[j] = items[j]
        /\ \A v \in Worker \ {w} : work'[v] = work[v]
        /\ work'[w].files = work[w].files /\ work'[w].job = work[w].job /\ work'[w].at = "rebuild"
        /\ \A q \in Path \ {work[w].file} : items'[work[w].job][q] = items[work[w].job][q]
        /\ work[w].files \subseteq Path
    BY <1>0, <1>13, <2>1 DEF RebuildApply, RebuildGone, RebuildFails, Work
  <2>3. /\ \A q \in work[w].files : items[work[w].job][q] \in {"ready", "imported"}
        /\ work[w].file \notin work[w].files
    BY <1>1, <2>1 DEF Doing
  <2>4. \A q \in work'[w].files : items'[work[w].job][q] \in {"ready", "imported"}
    BY <2>2, <2>3
  <2>5. Own(w)'
    BY <2>2, <2>4 DEF Doing
  <2>. HIDE DEF Own, Fresh
  <2>. QED
    BY <1>8, <2>1, <2>2, <2>5
<1>14. ASSUME NEW w \in Worker, Finish(w) \/ MarkFailed(w) \/ Crash(w)
       PROVE  (\A k \in Job : Fresh(k)') /\ \A v \in Worker : Own(v)'
  <2>1. /\ work[w] # None /\ items' = items /\ work'[w] = None
        /\ \A v \in Worker \ {w} : work'[v] = work[v]
    BY <1>0, <1>14 DEF Finish, MarkFailed, Crash
  <2>2. \/ job' = job
        \/ \E s \in {"partial", "completed", "failed"} : job' = [job EXCEPT ![work[w].job].status = s]
    BY <1>14 DEF Finish, MarkFailed, Crash
  <2>3. ASSUME NEW j \in Job, job'[j] = None \/ job'[j].status = "preview"
        PROVE  job'[j] = job[j] /\ j # work[w].job
    <3>1. CASE job' = job
      BY <1>0, <2>1, <2>3, <3>1
    <3>2. ASSUME NEW s \in {"partial", "completed", "failed"},
                 job' = [job EXCEPT ![work[w].job].status = s]
          PROVE  job'[j] = job[j] /\ j # work[w].job
      <4>1. job[work[w].job] \in JobRow
        BY <2>1 DEF Running, JobOf
      <4>2. job'[work[w].job] \in JobRow /\ job'[work[w].job].status = s
        BY <1>0, <2>1, <3>2, <4>1 DEF JobRow, Status
      <4>. QED
        BY <1>0, <2>3, <3>2, <4>2, NullAssumption
    <3>. QED
      BY <2>2, <3>1, <3>2
  <2>4. Own(w)'
    BY <1>3, <2>1
  <2>. HIDE DEF Own, Fresh
  <2>. QED
    BY <1>5, <2>1, <2>3, <2>4
<1>15. CASE Execute
  <2>. HIDE DEF Own, Fresh
  <2>. QED
    BY <1>6, <1>9, <1>10, <1>11, <1>12, <1>13, <1>14, <1>15 DEF Execute
<1>16. ASSUME UNCHANGED <<job, work, items>>
       PROVE  (\A k \in Job : Fresh(k)') /\ \A v \in Worker : Own(v)'
  BY <1>1, <1>16 DEF Doing, Untouched
<1>17. ASSUME NEW j \in Job, NEW p \in Path, ImportItem(j, p)
       PROVE  (\A k \in Job : Fresh(k)') /\ \A v \in Worker : Own(v)'
  <2>1. /\ items[j][p] = "ready" /\ items' = [items EXCEPT ![j][p] = "imported"] /\ UNCHANGED <<job, work>>
    BY <1>17 DEF ImportItem, Import, Event
  <2>2. ~Untouched(j)
    BY <2>1 DEF Untouched
  <2>3. \A k \in Job \ {j} : items'[k] = items[k]
    BY <1>0, <2>1
  <2>4. \A q \in Path : items'[j][q] = items[j][q] \/ items'[j][q] = "imported"
    BY <1>0, <2>1
  <2>5. \A k \in Job : Fresh(k)'
    BY <1>1, <2>1, <2>2, <2>3 DEF Untouched
  <2>6. ASSUME NEW v \in Worker PROVE Own(v)'
    <3>1. CASE work[v] = None \/ work[v].job # j
      <4>1. work'[v] = work[v] /\ (work[v] # None => items'[work[v].job] = items[work[v].job])
        BY <1>0, <2>1, <2>3, <3>1
      <4>. HIDE DEF Own
      <4>. QED
        BY <1>2, <4>1
    <3>2. CASE work[v] # None /\ work[v].job = j
      <4>1. Own(v)
        BY <1>1
      <4>2. work[v].files \subseteq Path /\ work'[v] = work[v] /\ (Doing(v, "apply") => work[v].file \in Path)
        BY <1>0, <2>1, <3>2 DEF Work, Holding
      <4>3. ~Doing(v, "scan")
        BY <2>2, <3>2, <4>1
      <4>. QED
        BY <2>4, <3>2, <4>1, <4>2, <4>3 DEF Doing
    <3>. QED
      BY <3>1, <3>2
  <2>. QED
    BY <2>5, <2>6
<1>18. CASE Meanwhile
  <2>1. UNCHANGED <<job, work>> /\ (UNCHANGED items \/ \E j \in Job, p \in Path : ImportItem(j, p))
    BY <1>18 DEF Meanwhile, Recorded, Event, EditEntry, Claim, Manage, Assess, Import, ImportItem, EditDisk
  <2>. HIDE DEF Own, Fresh
  <2>. QED
    BY <1>16, <1>17, <2>1
<1>19. CASE UNCHANGED vars
  <2>. HIDE DEF Own, Fresh
  <2>. QED
    BY <1>16, <1>19 DEF vars
<1>. HIDE DEF Own, Fresh
<1>20. (\A j \in Job : Fresh(j)') /\ \A v \in Worker : Own(v)'
  <2>1. CASE Preview
    BY <1>4, <2>1
  <2>. QED
    BY <1>15, <1>18, <1>19, <2>1 DEF Next
<1>. QED
  BY <1>20

\* An item a user imported remains so, unless it is in conflict with managed music.
LEMMA ImportedStays ==
  ASSUME TypeOK, Holding, Running, Items, [Next]_vars, NEW j \in Job, NEW q \in Path,
         items[j][q] = "imported"
  PROVE  items'[j][q] = "imported" \/ RecordingOf[q] \in managed
<1>0. items \in [Job -> [Path -> ItemStatus]] /\ \A w \in Worker : work[w] # None => work[w].job \in Job
  BY DEF TypeOK, Work
<1>1. CASE UNCHANGED items
  BY <1>1
<1>2. ASSUME NEW w \in Worker, RebuildScan(w) PROVE items'[j][q] = "imported"
  <2>1. work[w] # None /\ Untouched(work[w].job)
    BY <1>2 DEF RebuildScan, Items, Doing
  <2>2. j # work[w].job
    BY <2>1 DEF Untouched
  <2>. QED
    BY <1>0, <1>2, <2>1, <2>2 DEF RebuildScan
<1>3. ASSUME NEW w \in Worker, NEW p \in Path, RebuildConflict(w, p) PROVE items'[j][q] = "imported"
  BY <1>0, <1>3 DEF RebuildConflict
<1>4. ASSUME NEW w \in Worker, RebuildApply(w) PROVE items'[j][q] = "imported"
  BY <1>0, <1>4 DEF RebuildApply, CanApply
<1>5. ASSUME NEW w \in Worker, RebuildFails(w)
      PROVE  items'[j][q] = "imported" \/ RecordingOf[q] \in managed
  BY <1>0, <1>5 DEF RebuildFails, CanApply, Refused
<1>6. ASSUME NEW k \in Job, NEW p \in Path, ImportItem(k, p) PROVE items'[j][q] = "imported"
  BY <1>0, <1>6 DEF ImportItem
<1>7. CASE Preview
  BY <1>1, <1>7, PreviewSteps
<1>8. CASE Execute
  <2>1. ASSUME NEW w \in Worker,
               \/ \E k \in Job : Start(w, k)
               \/ \E i \in JobOf(w).plan : CleanupCheck(w, i)
               \/ CleanupLook(w) \/ CleanupBlocked(w) \/ CleanupRemove(w) \/ RebuildGone(w)
               \/ \E p \in Path : RebuildSkip(w, p) \/ RebuildCheck(w, p)
               \/ Finish(w) \/ MarkFailed(w) \/ Crash(w)
        PROVE  UNCHANGED items
    BY <2>1 DEF Start, CleanupCheck, CleanupLook, CleanupBlocked, CleanupRemove, RebuildGone,
                RebuildSkip, RebuildCheck, Finish, MarkFailed, Crash
  <2>. QED
    BY <1>1, <1>2, <1>3, <1>4, <1>5, <1>8, <2>1 DEF Execute
<1>9. CASE Meanwhile
  <2>1. UNCHANGED items \/ \E k \in Job, p \in Path : ImportItem(k, p)
    BY <1>9 DEF Meanwhile, Recorded, EditEntry, Claim, Manage, Assess, ImportItem, EditDisk
  <2>. QED
    BY <1>1, <1>6, <2>1
<1>. QED
  BY <1>1, <1>7, <1>8, <1>9 DEF Next, vars

\* An active file stays in the library.
LEMMA ActiveNext ==
  ASSUME TypeOK, Holding, Running, Items, Seen, ManagedListed, ActiveFileListed, [Next]_vars
  PROVE  ActiveFileListed'
<1>. SUFFICES ASSUME NEW p \in Path, location'[p] = "active", entry'[RecordingOf[p]] = None
              PROVE  \E j \in Job, q \in Files(RecordingOf[p]) : items'[j][q] = "imported"
  BY DEF ActiveFileListed, Files
<1>. DEFINE r == RecordingOf[p]
<1>1. r \in Recording /\ location[p] = "active"
  BY LocationStep, MaintenanceAssumption
<1>2. CASE entry[r] = None
  <2>1. PICK j \in Job, q \in Files(r) : items[j][q] = "imported"
    BY <1>1, <1>2 DEF ActiveFileListed
  <2>2. q \in Path /\ RecordingOf[q] = r /\ r \notin managed
    BY <1>2 DEF Files, ManagedListed
  <2>. QED
    BY <2>1, <2>2, ImportedStays
<1>3. ASSUME NEW w \in Worker, work[w].rec = r, CleanupRemove(w) PROVE FALSE
  <2>1. p \in work[w].files
    BY <1>1, <1>3 DEF Seen, CleanupRemove, Files
  <2>. QED
    BY <1>3, <2>1 DEF CleanupRemove, Marked
<1>4. ASSUME NEW w \in Worker, RecordingOf[work[w].file] = r, Resets(w), RebuildGone(w)
      PROVE  \E j \in Job, q \in Files(r) : items'[j][q] = "imported"
  <2>1. /\ Doing(w, "apply") /\ work[w].file \in Path /\ work[w].job \in Job
        /\ items[work[w].job][work[w].file] \in {"ready", "imported"}
    BY <1>4 DEF RebuildGone, Holding, Items, Doing, TypeOK, Work
  <2>2. work[w].file \in Files(r) /\ items' = items /\ items[work[w].job][work[w].file] = "imported"
    BY <1>4, <2>1 DEF RebuildGone, CanApply, Files
  <2>. QED
    BY <2>1, <2>2
<1>. QED
  BY <1>1, <1>2, <1>3, <1>4, EntriesWritten

\* Every step keeps the inductive invariant.
LEMMA MInvNext == MInv /\ [Next]_vars => MInv'
<1>. SUFFICES ASSUME MInv, [Next]_vars PROVE MInv'
  OBVIOUS
<1>. QED
  BY TypeNext, HoldingNext, UnprotectedNext, LateNext, RunningNext, PlansNext, ProgressNext,
     StartedOnceNext, CompletedNext, ItemsNext, SeenNext, ManagedNext, ActiveNext
  DEF MInv

\* The inductive invariant holds in every reachable state.
THEOREM MaintenanceInductive == Spec => []MInv
  BY MInvInit, MInvNext, PTL DEF Spec

\* Every reachable state has the declared types.
THEOREM TypeCorrect == Spec => []TypeOK
<1>1. MInv => TypeOK
  BY DEF MInv
<1>. QED
  BY <1>1, MaintenanceInductive, PTL

\* A previewed plan is executed once, also when its worker dies, and a cleanup that is
\* reported as completed has removed every entry its preview listed, for good.
THEOREM ExecutedAndClean == Spec => []ExecutedOnceAndClean
<1>1. MInv => ExecutedOnceAndClean
  BY DEF MInv, StartedOnce, ExecutedOnceAndClean, ExecutedOnce
<1>. QED
  BY <1>1, MaintenanceInductive, PTL

-----------------------------------------------------------------------------
(* What a step may remove.                                                 *)

\* An entry is deleted by a cleanup that holds it, or by a rebuild that resets it.
LEMMA LostBy ==
  ASSUME TypeOK, Holding, [Next]_vars, NEW r \in Recording, Lost(r)
  PROVE  \E w \in Worker :
           \/ Doing(w, "delete") /\ work[w].rec = r
           \/ /\ Doing(w, "apply") /\ Resets(w) /\ ~Refused(w)
              /\ RecordingOf[work[w].file] = r
<1>. DEFINE Goal == \E w \in Worker :
                      \/ Doing(w, "delete") /\ work[w].rec = r
                      \/ /\ Doing(w, "apply") /\ Resets(w) /\ ~Refused(w)
                         /\ RecordingOf[work[w].file] = r
<1>0. /\ entry \in [Recording -> Entry \cup {None}] /\ entry[r] # None
      /\ entry'[r] = None \/ entry'[r].id # entry[r].id
  BY DEF TypeOK, Lost
<1>1. entry'[r] # entry[r]
  BY <1>0
<1>2. ASSUME NEW q \in Recording, WithEntry(q) PROVE FALSE
  BY <1>0, <1>1, <1>2 DEF WithEntry
<1>3. ASSUME NEW q \in Recording, NEW notes \in BOOLEAN, EditEntry(q, notes) PROVE FALSE
  <2>. DEFINE x == [entry[q] EXCEPT !.notes = notes]
  <2>1. x \in Entry /\ x.id = entry[q].id /\ entry' = [entry EXCEPT ![q] = x]
    BY <1>0, <1>3 DEF EditEntry, Entry
  <2>2. x # None
    BY <2>1, NullAssumption
  <2>. HIDE DEF x
  <2>. QED
    BY <1>0, <2>1, <2>2
<1>4. ASSUME NEW w \in Worker, CleanupRemove(w) PROVE Goal
  <2>1. entry' = [entry EXCEPT ![work[w].rec] = None] /\ Doing(w, "delete")
    BY <1>4 DEF CleanupRemove
  <2>2. work[w].rec = r
    BY <1>0, <1>1, <2>1
  <2>. QED
    BY <2>1, <2>2
<1>5. ASSUME NEW w \in Worker, RebuildApply(w) PROVE Goal
  <2>. DEFINE q == RecordingOf[work[w].file]
  <2>1. entry' = [entry EXCEPT ![q] = Reread(w, q)] /\ Doing(w, "apply") /\ ~Refused(w)
    BY <1>5 DEF RebuildApply
  <2>2. q = r /\ Reread(w, r) # entry[r]
    BY <1>0, <1>1, <2>1
  <2>3. Resets(w)
    BY <1>0, <2>2 DEF Reread
  <2>. QED
    BY <2>1, <2>2, <2>3
<1>6. ASSUME NEW w \in Worker, RebuildGone(w) PROVE Goal
  <2>. DEFINE q == RecordingOf[work[w].file]
  <2>1. /\ entry' = IF Resets(w) THEN [entry EXCEPT ![q] = None] ELSE entry
        /\ Doing(w, "apply") /\ ~Refused(w)
    BY <1>6 DEF RebuildGone
  <2>2. Resets(w) /\ q = r
    BY <1>0, <1>1, <2>1
  <2>. QED
    BY <2>1, <2>2
<1>7. ~Preview
  BY <1>1, PreviewSteps
<1>8. ASSUME Execute PROVE Goal
  <2>1. Quiet => UNCHANGED entry
    BY DEF Quiet
  <2>2. ASSUME NEW w \in Worker, RebuildScan(w) PROVE UNCHANGED entry
    BY <2>2 DEF RebuildScan
  <2>. HIDE DEF Goal
  <2>. QED
    BY <1>1, <1>4, <1>5, <1>6, <1>8, <2>1, <2>2, RowsOfJobs
<1>9. ~Meanwhile
  <2>1. ASSUME NEW q \in Recording, Claim(q) \/ Manage(q) \/ Assess(q) PROVE FALSE
    BY <1>1, <1>2, <2>1 DEF Claim, Manage, Assess
  <2>2. ASSUME NEW q \in Path, Import(q) PROVE FALSE
    BY <1>2, <2>2, MaintenanceAssumption DEF Import
  <2>3. ASSUME NEW q \in Path, EditDisk(q) PROVE FALSE
    BY <1>1, <2>3 DEF EditDisk
  <2>. QED
    BY <1>3, <2>1, <2>2, <2>3, Zenon DEF Meanwhile, ImportItem
<1>10. entry' = entry => FALSE
  BY <1>1
<1>. QED
  BY <1>7, <1>8, <1>9, <1>10 DEF Next, vars

\* Maintenance deletes no entry of managed music, none with knowledge it had seen when
\* it looked, and, while it holds the rows, none with claims, edits or notes.
THEOREM KnowledgeKept == Spec => KnowledgeIsKept
<1>1. ASSUME MInv, [Next]_vars, NEW r \in Recording, Lost(r)
      PROVE  /\ r \notin managed
             /\ Protected(r) => r \in late
             /\ Locked(r) => r \notin claimed \cup edited /\ ~entry[r].notes
  <2>0. entry[r] # None
    BY <1>1 DEF Lost
  <2>1. \A w \in Worker : Held(w) /\ work[w].rec = r =>
          r \notin managed \cup claimed \cup edited /\ ~entry[r].notes
    BY <1>1, <2>0 DEF MInv, Unprotected
  <2>2. PICK w \in Worker :
          \/ Doing(w, "delete") /\ work[w].rec = r
          \/ /\ Doing(w, "apply") /\ Resets(w) /\ ~Refused(w)
             /\ RecordingOf[work[w].file] = r
    BY <1>1, LostBy DEF MInv
  <2>3. Threatens(w, r)
    BY <2>2 DEF Threatens, Held
  <2>4. Protected(r) => r \in late
    BY <1>1, <2>3 DEF MInv, LateOnly
  <2>5. r \notin managed
    BY <2>1, <2>2 DEF Held, Refused
  <2>6. Locked(r) => r \notin claimed \cup edited /\ ~entry[r].notes
    BY <2>1 DEF Locked, Held
  <2>. QED
    BY <2>4, <2>5, <2>6
<1>2. MInv /\ [Next]_vars =>
        [\A r \in Recording :
           Lost(r) => /\ r \notin managed
                      /\ Protected(r) => r \in late
                      /\ Locked(r) => r \notin claimed \cup edited /\ ~entry[r].notes]_vars
  BY <1>1
<1>. QED
  BY <1>2, MaintenanceInductive, PTL DEF Spec, KnowledgeIsKept

\* A file that is registered as active has a library entry, whatever jobs and users do,
\* unless a user has imported an item of a rebuild.
THEOREM ActiveFilesListed == Spec => []ActiveFileListed
<1>1. MInv => ActiveFileListed
  BY DEF MInv
<1>. QED
  BY <1>1, MaintenanceInductive, PTL

=============================================================================

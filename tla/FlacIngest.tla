----------------------------- MODULE FlacIngest -----------------------------
(***************************************************************************)
(* Reading the FLAC archive into the catalogue: scans that propose a       *)
(* recording for every file, the review of proposals in conflict, and the  *)
(* import of a batch, one transaction for each item.                       *)
(*                                                                         *)
(* A scan runs outside any transaction and is finished before its batch    *)
(* can be opened.  It keeps in memory the file locations it read when it   *)
(* began.  An import locks its item only; what it reads of the catalogue   *)
(* between its steps is whatever other imports have committed, and what it *)
(* writes is visible when it commits.  The row of a known file is read     *)
(* without a lock, and written back whole at the end.                      *)
(*                                                                         *)
(* The tags of a file are an ISRC, a P7UUID, the audio and a title, which  *)
(* stands for everything that identifies a recording by metadata: equal    *)
(* titles are plausible matches, different ones contradict each other.     *)
(* Releases, radio metadata and source records are rows that follow the    *)
(* item in its transaction and are left out.                               *)
(***************************************************************************)
EXTENDS Integers, FiniteSetsExt

CONSTANTS
  Path,        \* 1..n: the logical paths, in the order they are read
  Content,     \* states of a file; different contents have different SHA-256
  TagsOf,      \* the tags of each content
  OnDisk,      \* the files at the start
  Recording, Asset, Batch, Worker,
  Isrc, Title, Audio,
  Catalogued,  \* titles of the recordings whose data the database owns, or None
  Forced,      \* bound: the values of force_read that scans use
  Recovery,    \* bound: the values of allow_uuid_recovery that scans use
  MaxEvents,   \* bound: reviews, changes of files on disk, deaths of workers
  None

Tags == [isrc : Isrc \cup {None}, uuid : Recording \cup {None},
         audio : Audio, title : Title \cup {None}]

ASSUME IngestAssumption ==
  /\ Path \subseteq Nat /\ IsFiniteSet(Path)
  /\ TagsOf \in [Content -> Tags]
  /\ OnDisk \in [Path -> Content \cup {None}]
  /\ Catalogued \in [Recording -> Title \cup {None}]
  /\ Forced \subseteq BOOLEAN /\ Recovery \subseteq BOOLEAN
  /\ MaxEvents \in Nat
  /\ None \notin Isrc \cup Title \cup Recording \cup Asset \cup Content \cup Batch

VARIABLES
  disk,      \* what is at each path, or None
  title,     \* identifying metadata of each recording; None: no such row
  isrc,      \* its canonical ISRC
  asset,     \* radio files: recording, content, current path, manual link
  apart,     \* duplicate candidates dismissed over a reported ISRC
  item,      \* FlacIngestItem rows, one for each batch and path
  status,    \* FlacIngestBatch.status, None before the scan
  recovers,  \* FlacIngestBatch.allow_uuid_recovery
  scan,      \* what a running scan has in memory
  work,      \* what a running import has in memory
  applied,   \* how often each item was imported (not in the program)
  undone,    \* files whose split an import overwrote (not in the program either)
  events

catalogue == <<title, isrc, asset, apart, undone>>
vars == <<disk, catalogue, item, status, recovers, scan, work, applied, events>>

Proposals == {"new", "matched", "updated"}
Action == Proposals \cup {"unchanged", "retry", "conflict", "invalid"}
Method == {"", "file_location", "audio_md5_move", "manual_file_assignment",
           "p7uuid", "p7uuid_recovery", "isrc", "isrc_conflict",
           "isrc_batch_conflict", "metadata", "manual_review",
           "manual_isrc_collision", "manual_file_split"}

AssetRow == [rec : Recording, content : Content, path : Path,
             manual : BOOLEAN]
Item == [action : Action, method : Method, content : Content \cup {None},
         tags : Tags \cup {None}, rec : Recording \cup {None},
         asset : Asset \cup {None}, applied : BOOLEAN]

\* An asset as a scan or an import remembers it.
View == [id : Asset, rec : Recording, content : Content, manual : BOOLEAN]
Scan == [todo : SUBSET Path, seen : [Path -> View \cup {None}],
         known : BOOLEAN, force : BOOLEAN]
Work == [batch : Batch, todo : SUBSET Path,
         at : {"next", "identify", "locate", "commit", "failed", "report"},
         rec : Recording \cup {None}, new : BOOLEAN,
         row : View \cup {None}, located : BOOLEAN,
         gain : Isrc \cup {None}, other : Recording \cup {None},
         outcome : {"", "retry", "conflict", "partial", "applied"}]

ASSUME NoneAssumption ==
  None \notin AssetRow \cup Item \cup View \cup Scan \cup Work \cup Tags \cup {"preview", "partial", "applied"}

TypeOK ==
  /\ disk \in [Path -> Content \cup {None}]
  /\ title \in [Recording -> Title \cup {None}]
  /\ isrc \in [Recording -> Isrc \cup {None}]
  /\ asset \in [Asset -> AssetRow \cup {None}]
  /\ apart \subseteq [pair : SUBSET Recording, method : Method]
  /\ item \in [Batch \X Path -> Item \cup {None}]
  /\ status \in [Batch -> {"preview", "partial", "applied", None}]
  /\ recovers \in [Batch -> BOOLEAN]
  /\ scan \in [Batch -> Scan \cup {None}]
  /\ work \in [Worker -> Work \cup {None}]
  /\ applied \in [Batch \X Path -> Nat]
  /\ undone \subseteq Asset
  /\ events \in 0..MaxEvents

\* A managed recording is in the catalogue before its files are read.
Init ==
  /\ disk = OnDisk
  /\ title = Catalogued
  /\ isrc = [r \in Recording |-> None]
  /\ asset = [a \in Asset |-> None]
  /\ apart = {}
  /\ item = [i \in Batch \X Path |-> None]
  /\ status = [b \in Batch |-> None]
  /\ recovers = [b \in Batch |-> FALSE]
  /\ scan = [b \in Batch |-> None]
  /\ work = [w \in Worker |-> None]
  /\ applied = [i \in Batch \X Path |-> 0]
  /\ undone = {}
  /\ events = 0

-----------------------------------------------------------------------------
(* The matching of a file.                                                 *)

Recordings == {r \in Recording : title[r] # None}

\* The recordings whose canonical ISRC is i: one at most.
Holders(i) == {r \in Recording : i # None /\ isrc[r] = i}

\* Assets of a path: their current NAS location, one at most.
At(p) == {a \in Asset : asset[a] # None /\ asset[a].path = p}

ViewOf(a) == [id |-> a, rec |-> asset[a].rec, content |-> asset[a].content,
              manual |-> asset[a].manual]

\* "clearly incompatible": the metadata of two recordings contradict.
Contradict(s, t) == s # None /\ t # None /\ s # t

Match(rec, method, conflict) ==
  [rec |-> rec, method |-> method, conflict |-> conflict]

\* _match_recording: P7UUID before ISRC before metadata.
MatchUuid(t, recovery) ==
  IF title[t.uuid] # None
  THEN Match(t.uuid, "p7uuid",
             t.isrc # None /\ (\/ isrc[t.uuid] \notin {None, t.isrc}
                               \/ Holders(t.isrc) \ {t.uuid} # {}))
  ELSE IF ~recovery THEN Match(None, "", TRUE)
  ELSE IF Holders(t.isrc) = {} THEN Match(None, "p7uuid_recovery", FALSE)
  ELSE Match(CHOOSE r \in Holders(t.isrc) : TRUE, "p7uuid_recovery", TRUE)

MatchMetadata(t, known) ==
  LET alike == {r \in Recordings : title[r] = t.title}
  IN IF ~known \/ alike = {} THEN Match(None, "", FALSE)
     ELSE IF Cardinality(alike) > 1 THEN Match(None, "metadata", TRUE)
     ELSE Match(CHOOSE r \in alike : TRUE, "metadata", FALSE)

MatchRecording(t, known, recovery) ==
  IF t.uuid # None THEN MatchUuid(t, recovery)
  ELSE IF Holders(t.isrc) = {} THEN MatchMetadata(t, known)
  ELSE LET r == CHOOSE q \in Holders(t.isrc) : TRUE
           contradicts == Contradict(title[r], t.title)
       IN Match(r, IF contradicts THEN "isrc_conflict" ELSE "isrc", contradicts)

\* _moved_asset_candidate: the one asset with the same audio, if identifiers or
\* metadata agree with it.
Moved(t) ==
  LET same == {a \in Asset : asset[a] # None
                               /\ TagsOf[asset[a].content].audio = t.audio}
      fits(a) == IF t.uuid # None THEN asset[a].rec = t.uuid
                 ELSE IF t.isrc # None THEN isrc[asset[a].rec] = t.isrc
                 ELSE title[asset[a].rec] = t.title
  IN IF Cardinality(same) = 1 /\ \A a \in same : fits(a)
     THEN ViewOf(CHOOSE a \in same : TRUE) ELSE None

\* batch_isrcs: the first file of the scan with the same ISRC.
Earlier(b, p, t) ==
  {q \in Path : /\ q < p /\ t.isrc # None
                /\ item[b, q] # None /\ item[b, q].tags # None
                /\ item[b, q].tags.isrc = t.isrc}

\* The asset of the earlier file is the one its own proposal was made from.
ManuallySeparated(b, q, known) ==
  LET other == scan[b].seen[q]
  IN /\ other # None /\ known # None
     /\ other.rec # known.rec
     /\ other.manual \/ known.manual

BatchConflict(b, p, t, known) ==
  LET first == Earlier(b, p, t)
  IN /\ first # {}
     /\ Contradict(item[b, Min(first)].tags.title, t.title)
     /\ ~ManuallySeparated(b, Min(first), known)

RadioFiles(r) == {a \in Asset : asset[a] # None /\ asset[a].rec = r}

\* Mutant of Settle: the match decides although the file has a recording.
MatchDecides(m, known, located) == m

\* The file has a recording already: known is its asset.
Settle(m, known, located) ==
  IF known = None THEN m
  ELSE IF m.rec \notin {None, known.rec} THEN
         IF known.manual
         THEN Match(known.rec, "manual_file_assignment", FALSE)
         ELSE [m EXCEPT !.conflict = TRUE]
  ELSE IF m.conflict THEN
         IF /\ m.rec = known.rec /\ m.method = "isrc_conflict"
            /\ Cardinality(RadioFiles(known.rec)) = 1
         THEN Match(known.rec, "file_location", FALSE) ELSE m
  ELSE Match(known.rec, IF located THEN "file_location" ELSE "audio_md5_move",
             FALSE)

-----------------------------------------------------------------------------
(* Scanning.                                                               *)

\* scan_directory begins: the batch, the list of files, the known locations,
\* and whether the catalogue has any recording.
OpenScan(b, todo, force, recovery) ==
  /\ status[b] = None
  /\ status' = [status EXCEPT ![b] = "preview"]
  /\ recovers' = [recovers EXCEPT ![b] = recovery]
  /\ scan' = [scan EXCEPT ![b] =
       IF todo = {} THEN None ELSE
       [todo |-> todo,
        seen |-> [p \in Path |-> IF At(p) = {} THEN None
                                 ELSE ViewOf(CHOOSE a \in At(p) : TRUE)],
        known |-> Recordings # {}, force |-> force]]
  /\ UNCHANGED <<disk, catalogue, item, work, applied, events>>

\* A folder is scanned: what it holds now.
ScanStart(b, force, recovery) ==
  OpenScan(b, {p \in Path : disk[p] # None}, force, recovery)

\* The batch was opened from the answer of its scan.
Ready(b) == status[b] # None /\ scan[b] = None

\* Files chosen in a batch are scanned again, whether they exist or not.
Rescan(b, old, chosen) ==
  /\ Ready(old)
  /\ chosen # {}
  /\ \A p \in chosen : item[old, p] # None
  /\ OpenScan(b, chosen, FALSE, recovers[old])

\* rescan_library_file: a registered file is read again, whatever its size and time
\* say.  What remains alone after a split is too, without recovery.
ReRead(b, a, recovery) ==
  /\ asset[a] # None
  /\ recovery \/ /\ Cardinality(RadioFiles(asset[a].rec)) = 1
                 /\ \E c \in Asset \ {a} : asset[c] # None /\ asset[c].manual
  /\ OpenScan(b, {asset[a].path}, TRUE, recovery)

\* One row is written for the next file of the list; known is the asset it names.
ScanItem(b, row, known) ==
  LET old == scan[b]
      p == Min(old.todo) IN
  /\ item' = [item EXCEPT ![<<b, p>>] = row]
  /\ scan' = [scan EXCEPT ![b] = IF old.todo = {p} THEN None
                                 ELSE [old EXCEPT !.todo = @ \ {p}, !.seen[p] = known]]
  /\ UNCHANGED <<catalogue, status, recovers, work, applied>>

Unread(action) ==
  [action |-> action, method |-> "", content |-> None, tags |-> None,
   rec |-> None, asset |-> None, applied |-> FALSE]

\* Same size and time as at the last reading: the file is not opened.
Skipped(b, p) ==
  /\ ~scan[b].force
  /\ scan[b].seen[p] # None
  /\ scan[b].seen[p].content = disk[p]

\* The file has vanished since the list was made.
ScanInvalid(b) ==
  /\ scan[b] # None
  /\ disk[Min(scan[b].todo)] = None
  /\ ScanItem(b, Unread("invalid"), None)
  /\ UNCHANGED <<disk, events>>

\* The file changes while it is read: _stable_snapshot.
ScanDisturbed(b, c) ==
  /\ scan[b] # None
  /\ disk[Min(scan[b].todo)] \notin {None, c}
  /\ ~Skipped(b, Min(scan[b].todo))
  /\ events < MaxEvents
  /\ events' = events + 1
  /\ disk' = [disk EXCEPT ![Min(scan[b].todo)] = c]
  /\ ScanItem(b, Unread("retry"), None)

ScanUnchanged(b) ==
  /\ scan[b] # None
  /\ LET p == Min(scan[b].todo) IN
       /\ disk[p] # None
       /\ Skipped(b, p)
       /\ ScanItem(b, [Unread("unchanged") EXCEPT
                         !.method = "file_location",
                         !.rec = scan[b].seen[p].rec,
                         !.asset = scan[b].seen[p].id],
                   scan[b].seen[p])
  /\ UNCHANGED <<disk, events>>

\* The asset of the file: the one at its location, or the one that was moved there.
Known(b, p) ==
  IF scan[b].seen[p] # None THEN scan[b].seen[p] ELSE Moved(TagsOf[disk[p]])

\* The file is read and matched, with what the catalogue holds by now.
Proposal(b, p) ==
  LET t == TagsOf[disk[p]]
      located == scan[b].seen[p] # None
      known == Known(b, p)
      m == MatchRecording(t, scan[b].known, recovers[b])
      n == IF BatchConflict(b, p, t, known)
           THEN Match(m.rec, "isrc_batch_conflict", TRUE) ELSE m
      s == Settle(n, known, located)
  IN [action |-> IF s.conflict \/ t.title = None THEN "conflict"
                 ELSE IF known # None THEN "updated"
                 ELSE IF s.rec # None THEN "matched" ELSE "new",
      method |-> s.method, content |-> disk[p], tags |-> t, rec |-> s.rec,
      asset |-> IF known = None THEN None ELSE known.id,
      applied |-> FALSE]

ScanFile(b) ==
  /\ scan[b] # None
  /\ LET p == Min(scan[b].todo) IN
       /\ disk[p] # None
       /\ ~Skipped(b, p)
       /\ ScanItem(b, Proposal(b, p), Known(b, p))
  /\ UNCHANGED <<disk, events>>

-----------------------------------------------------------------------------
(* Review and import.                                                      *)

CanApply(row) == row # None /\ row.action \in Proposals /\ ~row.applied

\* What a reviewer may do to the interpreted tags: keep them, drop the ISRC or
\* the P7UUID, or name the title of the chosen recording.
Corrections(t, rec) ==
  {t, [t EXCEPT !.isrc = None], [t EXCEPT !.uuid = None]}
    \cup {[t EXCEPT !.title = title[r]] : r \in {rec} \cap Recordings}

\* Where an import holds the lock on its item.
Importing == {"identify", "locate", "commit"}

\* review_item: rec is the chosen recording, or None for a new one.
Review(b, p, rec, t) ==
  /\ Ready(b)
  /\ events < MaxEvents
  /\ events' = events + 1
  /\ item[b, p] # None
  /\ item[b, p].action = "conflict" /\ ~item[b, p].applied
  /\ \A w \in Worker : work[w] # None /\ work[w].at \in Importing
       => <<b, p>> # <<work[w].batch, Min(work[w].todo)>>
  /\ t.title # None
  /\ rec \in Recordings \cup {None}
  /\ t.uuid \in {None, rec}
  /\ rec # None => Holders(t.isrc) \subseteq {rec}
  /\ item[b, p].asset # None => rec = asset[item[b, p].asset].rec
  /\ item' = [item EXCEPT ![<<b, p>>] =
       [@ EXCEPT !.tags = t, !.rec = rec,
                 !.action = IF rec = None THEN "new" ELSE "matched",
                 !.method = IF rec = None /\ Holders(t.isrc) # {}
                            THEN "manual_isrc_collision" ELSE "manual_review"]]
  /\ UNCHANGED <<disk, catalogue, status, recovers, scan, work, applied>>

\* apply_batch reads its items once.
ApplyStart(w, b) ==
  /\ work[w] = None
  /\ Ready(b)
  /\ work' = [work EXCEPT ![w] =
       [batch |-> b, todo |-> {p \in Path : CanApply(item[b, p])},
        at |-> "next", rec |-> None, new |-> FALSE, row |-> None,
        located |-> FALSE, gain |-> None, other |-> None, outcome |-> ""]]
  /\ UNCHANGED <<disk, catalogue, item, status, recovers, scan, applied, events>>

At_(w, at) == work[w] # None /\ work[w].at = at
Current(w) == <<work[w].batch, Min(work[w].todo)>>

\* Nobody else holds the lock on the item.
ItemFree(w) ==
  \A v \in Worker \ {w} :
    work[v] # None /\ work[v].at \in Importing
      => Current(v) # Current(w)

Done(w) == [work[w] EXCEPT !.todo = @ \ {Min(@)}, !.at = "next", !.rec = None,
                           !.new = FALSE, !.row = None, !.located = FALSE,
                           !.gain = None, !.other = None, !.outcome = ""]

\* Mutant of StillApplicable: the list read at the start is believed.
BelievedApplicable(w) == TRUE

\* Under the lock, the row is read again.
StillApplicable(w) == CanApply(item[Current(w)])

ApplySkip(w) ==
  /\ At_(w, "next") /\ work[w].todo # {} /\ ItemFree(w)
  /\ ~StillApplicable(w)
  /\ work' = [work EXCEPT ![w] = Done(w)]
  /\ UNCHANGED <<disk, catalogue, item, status, recovers, scan, applied, events>>

\* _verify_item_source: the preview is not of what is on disk now.
ApplySourceGone(w) ==
  /\ At_(w, "next") /\ work[w].todo # {} /\ ItemFree(w)
  /\ StillApplicable(w)
  /\ disk[Current(w)[2]] # item[Current(w)].content
  /\ work' = [work EXCEPT ![w].at = "failed", ![w].outcome = "retry"]
  /\ UNCHANGED <<disk, catalogue, item, status, recovers, scan, applied, events>>

\* The recording of the item, or of its P7UUID, or of its ISRC, or a new one.
Resolved(b, row) ==
  IF row.rec # None THEN {row.rec}
  ELSE IF recovers[b] /\ row.method = "p7uuid_recovery" /\ row.tags.uuid # None
            /\ row.tags.uuid \in Recordings
  THEN {row.tags.uuid}
  ELSE IF row.method # "manual_isrc_collision" THEN Holders(row.tags.isrc)
  ELSE {}

\* Identities that no other row, file or transaction has.
FreshIds == {r \in Recording \ Recordings :
               /\ isrc[r] = None
               /\ \A c \in Content : TagsOf[c].uuid # r
               /\ \A v \in Worker : work[v] # None => work[v].rec # r}

\* The identity of a new recording: the P7UUID that is recovered, or a fresh one.
NewIds(b, row) ==
  IF recovers[b] /\ row.method = "p7uuid_recovery" /\ row.tags.uuid # None
  THEN {row.tags.uuid} ELSE FreshIds

\* With the item comes the row of its file, read without a lock.
FileRead(row) == IF row.asset = None THEN None ELSE ViewOf(row.asset)

ApplyResolve(w) ==
  /\ At_(w, "next") /\ work[w].todo # {} /\ ItemFree(w)
  /\ StillApplicable(w)
  /\ LET row == item[Current(w)]
         b == work[w].batch
         found == Resolved(b, row) IN
       /\ disk[Current(w)[2]] = row.content
       /\ \E r \in IF found # {} THEN found ELSE NewIds(b, row) :
            work' = [work EXCEPT ![w].at = "identify", ![w].rec = r,
                                 ![w].new = (found = {}), ![w].row = FileRead(row)]
  /\ UNCHANGED <<disk, catalogue, item, status, recovers, scan, applied, events>>

\* The database is the authority for the recording: catalogue data stay.
Authority(w) == ~work[w].new /\ Catalogued[work[w].rec] # None

\* Mutant of Lacks: only a recording that was there before is checked.
MatchedLacks(w, i) == i # None /\ ~work[w].new /\ isrc[work[w].rec] = None

\* The file has an ISRC, and its recording has none.
Lacks(w, i) ==
  i # None /\ ~Authority(w) /\ (work[w].new \/ isrc[work[w].rec] = None)

\* The ISRC of the file, for a recording without one: it is free, or it is
\* another recording's and becomes a reported value.
ApplyIdentify(w) ==
  /\ At_(w, "identify")
  /\ LET i == item[Current(w)].tags.isrc IN
       work' = [work EXCEPT
          ![w].at = "locate",
          ![w].gain = IF Lacks(w, i) /\ Holders(i) = {} THEN i ELSE None,
          ![w].other = IF Lacks(w, i) /\ Holders(i) \ {work[w].rec} # {}
                       THEN CHOOSE r \in Holders(i) : TRUE ELSE None]
  /\ UNCHANGED <<disk, catalogue, item, status, recovers, scan, applied, events>>

\* Mutant of SameRecording: a file follows the recording of its item.
AnyRecording(w, row) == TRUE

\* A file that has a recording stays with it.
SameRecording(w, row) == row # None => row.rec = work[w].rec

\* The file of the item's path, else the one that came with the item.
FileHere(w) ==
  LET here == At(Current(w)[2])
  IN IF here # {} THEN ViewOf(CHOOSE a \in here : TRUE) ELSE work[w].row

ApplyLocate(w) ==
  /\ At_(w, "locate")
  /\ IF SameRecording(w, FileHere(w))
     THEN work' = [work EXCEPT ![w].at = "commit", ![w].row = FileHere(w),
                               ![w].located = (At(Current(w)[2]) # {})]
     ELSE work' = [work EXCEPT ![w].at = "failed", ![w].outcome = "conflict"]
  /\ UNCHANGED <<disk, catalogue, item, status, recovers, scan, applied, events>>

\* The file that is written, if there is one.
Written(w) == {a \in Asset : work[w].row # None /\ work[w].row.id = a}

\* Unique constraints on the primary key, the canonical ISRC, of which a recording has
\* one, and the current path.
Constraints(w) ==
  /\ work[w].new => title[work[w].rec] = None
  /\ work[w].gain # None => isrc[work[w].rec] = None /\ Holders(work[w].gain) = {}
  /\ work[w].located \/ At(Current(w)[2]) \subseteq Written(w)

ApplyRefuse(w) ==
  /\ At_(w, "commit")
  /\ ~Constraints(w)
  /\ work' = [work EXCEPT ![w].at = "failed", ![w].outcome = "conflict"]
  /\ UNCHANGED <<disk, catalogue, item, status, recovers, scan, applied, events>>

\* The transaction commits: recording, identifier, the whole row of the file as it
\* was read, its location, the item.
ApplyCommit(w, a) ==
  LET row == item[Current(w)]
      r == work[w].rec
      known == Written(w)
  IN
  /\ Constraints(w)
  /\ a \in IF known # {} THEN known ELSE {x \in Asset : asset[x] = None}
  /\ title' = IF Authority(w) THEN title ELSE [title EXCEPT ![r] = row.tags.title]
  /\ isrc' = IF work[w].gain = None THEN isrc
             ELSE [isrc EXCEPT ![r] = work[w].gain]
  /\ apart' = IF work[w].other = None THEN apart
              ELSE apart \cup {[pair |-> {r, work[w].other}, method |-> row.method]}
  /\ asset' = [asset EXCEPT ![a] =
       [rec |-> r, content |-> row.content,
        path |-> IF work[w].located THEN asset[a].path ELSE Current(w)[2],
        manual |-> IF known # {} THEN work[w].row.manual
                   ELSE row.method = "manual_isrc_collision"]]
  /\ undone' = undone \cup {k \in known : \/ asset[k].rec # r
                                          \/ asset[k].manual /\ ~work[w].row.manual}
  /\ item' = [item EXCEPT ![Current(w)] =
               [@ EXCEPT !.rec = r, !.asset = a, !.applied = TRUE]]
  /\ applied' = [applied EXCEPT ![Current(w)] = @ + 1]
  /\ work' = [work EXCEPT ![w] = Done(w)]
  /\ UNCHANGED <<disk, status, recovers, scan, events>>

\* The fields the handler saves.
FailureKept(row, outcome) == [row EXCEPT !.action = outcome]

\* apply_batch after the transaction was rolled back.
ApplyFail(w) ==
  /\ At_(w, "failed") /\ ItemFree(w)
  /\ item' = [item EXCEPT ![Current(w)] = FailureKept(@, work[w].outcome)]
  /\ work' = [work EXCEPT ![w] = Done(w)]
  /\ UNCHANGED <<disk, catalogue, status, recovers, scan, applied, events>>

\* What is left of the batch when the import counts it.
Remaining(b) ==
  {p \in Path : /\ item[b, p] # None /\ ~item[b, p].applied
                /\ item[b, p].action # "unchanged"}

ApplyCount(w) ==
  /\ At_(w, "next") /\ work[w].todo = {}
  /\ work' = [work EXCEPT
       ![w].at = "report",
       ![w].outcome = IF Remaining(work[w].batch) = {} THEN "applied" ELSE "partial"]
  /\ UNCHANGED <<disk, catalogue, item, status, recovers, scan, applied, events>>

ApplyReport(w) ==
  /\ At_(w, "report")
  /\ status' = [status EXCEPT ![work[w].batch] = work[w].outcome]
  /\ work' = [work EXCEPT ![w] = None]
  /\ UNCHANGED <<disk, catalogue, item, recovers, scan, applied, events>>

-----------------------------------------------------------------------------
(* Taking a file out of its recording.                                     *)

\* preview_radio_file_split: the file can be read, has a title, and is not the only
\* one of its recording, which has no rights or management data.
MayBeSplit(a) ==
  /\ asset[a] # None
  /\ disk[asset[a].path] # None /\ TagsOf[disk[asset[a].path]].title # None
  /\ RadioFiles(asset[a].rec) # {a}
  /\ Catalogued[asset[a].rec] = None

\* split_radio_file_to_new_recording: the new recording takes the title of the file,
\* and its ISRC unless a recording has it, which is then kept apart.
Split(a, r) ==
  LET content == disk[asset[a].path]
      i == TagsOf[content].isrc
  IN
  /\ MayBeSplit(a)
  /\ events < MaxEvents
  /\ events' = events + 1
  /\ r \in FreshIds
  /\ title' = [title EXCEPT ![r] = TagsOf[content].title]
  /\ isrc' = IF i = None \/ Holders(i) # {} THEN isrc ELSE [isrc EXCEPT ![r] = i]
  /\ apart' = apart \cup {[pair |-> {r, h}, method |-> "manual_file_split"] : h \in Holders(i)}
  /\ asset' = [asset EXCEPT ![a].rec = r, ![a].content = content, ![a].manual = TRUE]
  /\ UNCHANGED <<disk, item, status, recovers, scan, work, applied, undone>>

-----------------------------------------------------------------------------
\* The web worker dies: its transaction is rolled back.
Crash(w) ==
  /\ work[w] # None
  /\ events < MaxEvents
  /\ events' = events + 1
  /\ work' = [work EXCEPT ![w] = None]
  /\ UNCHANGED <<disk, catalogue, item, status, recovers, scan, applied>>

\* Somebody writes, moves or removes a file of the archive.
EditDisk(p, c) ==
  /\ events < MaxEvents
  /\ disk[p] # c
  /\ disk' = [disk EXCEPT ![p] = c]
  /\ events' = events + 1
  /\ UNCHANGED <<catalogue, item, status, recovers, scan, work, applied>>

ScanStep ==
  \/ \E b \in Batch, f \in Forced, y \in Recovery : ScanStart(b, f, y)
  \/ \E b, old \in Batch, chosen \in SUBSET Path : Rescan(b, old, chosen)
  \/ \E b \in Batch, a \in Asset, y \in BOOLEAN : ReRead(b, a, y)
  \/ \E b \in Batch : ScanInvalid(b) \/ ScanUnchanged(b) \/ ScanFile(b)
  \/ \E b \in Batch, c \in Content : ScanDisturbed(b, c)

ReviewStep ==
  \E b \in Batch, p \in Path, r \in Recording \cup {None} :
    /\ item[b, p] # None /\ item[b, p].tags # None
    /\ \E t \in Corrections(item[b, p].tags, r) : Review(b, p, r, t)

ApplyStep ==
  \E w \in Worker :
    \/ \E b \in Batch : ApplyStart(w, b)
    \/ ApplySkip(w) \/ ApplySourceGone(w) \/ ApplyResolve(w)
    \/ ApplyIdentify(w) \/ ApplyLocate(w) \/ ApplyRefuse(w)
    \/ At_(w, "commit") /\ \E a \in Asset : ApplyCommit(w, a)
    \/ ApplyFail(w) \/ ApplyCount(w) \/ ApplyReport(w) \/ Crash(w)

Next ==
  \/ ScanStep \/ ReviewStep \/ ApplyStep
  \/ \E a \in Asset, r \in Recording : Split(a, r)
  \/ \E p \in Path, c \in Content \cup {None} : EditDisk(p, c)

Spec == Init /\ [][Next]_vars

-----------------------------------------------------------------------------
(* Properties.                                                             *)

\* The protected decision of a reviewer, that a file is a recording of its own, is kept
\* by scans and imports: only another split changes it (PHASE4_2_1_ISRC_COLLISIONS.md).
SplitIsKept ==
  [][\A a \in Asset : asset[a] # None /\ asset[a].manual =>
       asset'[a].manual /\ (asset'[a].rec = asset[a].rec \/ \E r \in Recording : Split(a, r))]_vars

\* A file changes its recording by a split, or by an import that read its row before a
\* split and gives it back the recording it had then: no other interleaving of scans,
\* reviews and imports of several batches moves a file (apply_item, scan_directory).
LinkKept ==
  [][\A a \in Asset : asset[a] # None =>
       /\ asset'[a] # None
       /\ \/ asset'[a].rec = asset[a].rec
          \/ \E r \in Recording : Split(a, r)
          \/ \E w \in Worker : /\ work[w] # None /\ work[w].row # None
                               /\ work[w].row.id = a /\ asset'[a].rec = work[w].row.rec
                               /\ ApplyCommit(w, a)]_vars

\* A proposal that can be applied names the recording its known file has, so
\* that nobody is asked to approve what import must refuse, unless the file was split
\* off after the scan, or an import undid a split of it (scan_directory, review_item).
ProposalFollowsLink ==
  \A i \in Batch \X Path :
    CanApply(item[i]) /\ item[i].asset # None =>
      \/ item[i].rec = asset[item[i].asset].rec
      \/ asset[item[i].asset].manual \/ item[i].asset \in undone

\* An item is imported once, though two workers take one batch, or one dies; a batch
\* that is reported as applied has every file that was read in the catalogue; and the
\* handler of a failure that comes after another worker's success undoes neither
\* (apply_item, apply_batch).
AppliedOnce == \A i \in Batch \X Path : applied[i] <= 1
AppliedIsComplete ==
  \A b \in Batch, p \in Path :
    status[b] = "applied" /\ item[b, p] # None
      => item[b, p].applied \/ item[b, p].action = "unchanged"
ImportedOnceAndWhole == AppliedOnce /\ AppliedIsComplete

\* The ISRC of an imported file is never dropped: its recording has one, or the data of
\* the recording are the database's, or the recording is on record as kept apart from the
\* one that has it, whichever of two imports that met the same unseen ISRC came first
\* (apply_item, split_radio_file_to_new_recording).
IsrcAccounted ==
  \A i \in Batch \X Path :
    item[i] # None /\ item[i].applied /\ item[i].tags.isrc # None =>
      LET r == item[i].rec IN
      \/ Catalogued[r] # None \/ isrc[r] # None
      \/ \E d \in apart : r \in d.pair /\ d.pair \cap Holders(item[i].tags.isrc) # {}
=============================================================================

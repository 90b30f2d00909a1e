----------------------------- MODULE MusicDesk ------------------------------
(***************************************************************************)
(* The editing of the catalogue by several people, and the copy of it that *)
(* the radio files carry in their tags.                                    *)
(*                                                                         *)
(* A form of the workbench is one transaction.  The track list of GUI v2   *)
(* is a page: its rows are read when it is opened and written back, all of *)
(* them, when it is submitted, whatever was saved in between.  Signals     *)
(* mark the radio files of a changed recording as PENDING when the         *)
(* database is its catalogue authority; the submission of a track list     *)
(* suppresses them.  A synchronisation reads the catalogue, writes the     *)
(* file and saves the row in three steps, without a lock.  A form that     *)
(* creates a recording searches for similar ones first, and no lock joins  *)
(* the search and the insert: other forms may commit in between.           *)
(*                                                                         *)
(* There is one release.  Title stands for what a person types as the name *)
(* of a recording, credit for its contributors in the roles that are       *)
(* tagged, a position for sequence, disc and track number on the page.     *)
(* Recordings that an import or a split of a file brings in are not made   *)
(* here.                                                                   *)
(***************************************************************************)
EXTENDS Integers, FiniteSets, FiniteSetsExt

CONSTANTS
  Rec, Track,     \* keys of recordings and tracks, never used twice
  Title, Isrc, Name,
  Label,          \* titles of the release
  Folded,         \* titles and names without regard to case
  Barcode,        \* one number of each scheme, in the order of the schemes
  Position,       \* 1..n: what an editor numbers tracks with
  Asset, RecOf, TrackOf,  \* radio files, their recordings and tracks (or None)
  Initial,        \* the recordings at the start, or None
  Listed,         \* the tracks at the start: recordings, or None
  Claimed,        \* the claims at the start
  Validity,       \* bound: what the periods of claims are, now, when they are made
  Editor, Worker,
  MaxEdits,       \* bound: changes of the catalogue
  MaxBusy,        \* bound: editors and workers that are at work at the same time
  Gone,           \* a track that was removed
  None

\* Stands for 10000, the distance by which tracks are moved out of the way.
Gap == 10

Claim == {"none", "unverified", "confirmed", "rejected"}
Period == {"open", "ahead", "within", "over"}
Values == [title : Title, isrc : Isrc \cup {None}, credit : Name \cup {None}]
TrackRow == [seq : Nat \ {0}, rec : Rec]
Release == [name : Label, barcodes : SUBSET Barcode]
FileStatus == {"synced", "pending", "failed", "conflict"}
Tags == [recording : Values,
         release : [name : Label, artist : Name \cup {None}, barcode : Barcode \cup {None}]
                   \cup {None}]
Job == [asset : Asset, at : {"selected"}, tags : {None}]
       \cup [asset : Asset, at : {"read", "written", "failed", "parsed"}, tags : Tags]
Search == [seen : [Rec -> Values \cup {None}], tracks : (SUBSET Track) \cup {None}]
PageRow == [rec : Rec \cup {None}, seq : Nat \ {0}, values : Values,
            shared : BOOLEAN, remove : BOOLEAN, force : BOOLEAN]

ASSUME DeskAssumption ==
  /\ Initial \in [Rec -> Values \cup {None}]
  /\ Listed \in [Track -> Rec \cup {None}]
  /\ \A t \in Track : Listed[t] # None => Initial[Listed[t]] # None
  /\ Claimed \in [Rec -> Claim] /\ Validity \subseteq Period
  /\ RecOf \in [Asset -> Rec] /\ \A a \in Asset : Initial[RecOf[a]] # None
  /\ TrackOf \in [Asset -> Track \cup {None}]
  /\ \A a \in Asset : TrackOf[a] # None => Listed[TrackOf[a]] = RecOf[a]
  /\ Track \subseteq Nat /\ Position \subseteq Nat \ {0} /\ Barcode \subseteq Nat
  /\ MaxEdits \in Nat /\ Title # {} /\ IsFiniteSet(Track)
ASSUME NoneAssumption == None \notin Rec \cup Track \cup Values \cup TrackRow \cup Job \cup Search
                                   \cup {Gone}
ASSUME GoneAssumption == Gone \notin TrackRow

VARIABLES
  rec,       \* Recording rows with their ISRC and contributions, or None
  track,     \* ReleaseTrack rows, None (not yet) or Gone
  release,   \* the release's metadata and identifiers
  pairs,     \* DuplicateCandidate: pairs of recordings
  library, managed,  \* recordings in the music library, under management
  claim,     \* the local organisation's ownership claim on each recording
  period,    \* where today is in the period of that claim
  status,    \* FileAsset.sync_status
  tags,      \* what the catalogue tags of the files on disk say
  page,      \* the rows of the open track lists, or None
  search,    \* what a form that is creating a recording found, and the tracks that
             \* a track list has locked
  job,       \* what a running synchronisation or import has in memory
  overtaken, \* those whose file another one wrote meanwhile (not in the program)
  edits

TypeOK ==
  /\ rec \in [Rec -> Values \cup {None}]
  /\ track \in [Track -> TrackRow \cup {None, Gone}]
  /\ release \in Release
  /\ pairs \subseteq SUBSET Rec
  /\ library \subseteq Rec /\ managed \subseteq Rec
  /\ claim \in [Rec -> Claim] /\ period \in [Rec -> Period]
  /\ status \in [Asset -> FileStatus]
  /\ tags \in [Asset -> Tags]
  /\ DOMAIN page = Editor
  /\ \A e \in Editor : page[e] # None => /\ DOMAIN page[e] \subseteq Track
                                          /\ \A t \in DOMAIN page[e] : page[e][t] \in PageRow
  /\ search \in [Editor -> Search \cup {None}]
  /\ job \in [Worker -> Job \cup {None}]
  /\ overtaken \subseteq Worker
  /\ edits \in 0..MaxEdits

catalogue == <<rec, track, release, pairs>>
governance == <<library, managed, claim, period>>
files == <<status, tags>>
work == <<job, overtaken>>
vars == <<catalogue, governance, files, page, search, work, edits>>

-----------------------------------------------------------------------------
(* What is read of the state.                                              *)

Recordings == {r \in Rec : rec[r] # None}
Tracks == {t \in Track : track[t] \notin {None, Gone}}
FilesOf(r) == {a \in Asset : RecOf[a] = r}

\* database_is_catalogue_authority: management, or an ownership claim of the local
\* organisation that is confirmed and valid today.
Governed(r) ==
  \/ r \in managed
  \/ claim[r] = "confirmed" /\ period[r] \in {"open", "within"}

\* _catalogue_tags: a release's barcode is the first identifier in order of scheme.
BarcodeOf(rel) == IF rel.barcodes = {} THEN None ELSE Min(rel.barcodes)
CatalogueTags(a) ==
  [recording |-> rec[RecOf[a]],
   release |-> IF TrackOf[a] = None THEN None
               ELSE [name |-> release.name, artist |-> rec[RecOf[a]].credit,
                     barcode |-> BarcodeOf(release)]]

\* _catalogue_metadata_differs: names without regard to case, identifiers as they are,
\* what belongs to a release for a file with a track, and no album artist.
Fold(x) == IF x = None THEN None ELSE Folded[x]
SameTags(x, y) ==
  /\ Fold(x.recording.title) = Fold(y.recording.title)
  /\ Fold(x.recording.credit) = Fold(y.recording.credit)
  /\ x.recording.isrc = y.recording.isrc
  /\ y.release # None => /\ Fold(x.release.name) = Fold(y.release.name)
                         /\ x.release.barcode = y.release.barcode

\* find_recording_candidates: of the recordings there are, those with the ISRC or the
\* title in any case, wherever they stand in the order of their scores.
SameIsrc(table, i) == {r \in Rec : i # None /\ table[r] # None /\ table[r].isrc = i}

\* Mutant of Candidates: titles are compared as they are written.
CandidatesInCase(table, t, i) ==
  SameIsrc(table, i) \cup {r \in Rec : table[r] # None /\ table[r].title = t}

Candidates(table, t, i) ==
  SameIsrc(table, i) \cup {r \in Rec : table[r] # None /\ Fold(table[r].title) = Fold(t)}

\* FileAsset.clean: the track a file is linked to belongs to its recording.
LinkAgrees(a) == TrackOf[a] # None => track[TrackOf[a]].rec = RecOf[a]

Init ==
  /\ rec = Initial
  /\ track = [t \in Track |-> IF Listed[t] = None THEN None
                ELSE [rec |-> Listed[t],
                      seq |-> Cardinality({u \in Track : /\ Listed[u] # None
                                                         /\ u <= t})]]
  /\ \E n \in Label : release = [name |-> n, barcodes |-> {}]
  /\ pairs = {} /\ library = {} /\ managed = {}
  /\ claim = Claimed
  /\ \E p \in Validity : period = [r \in Rec |-> IF Claimed[r] = "none" THEN "open" ELSE p]
  /\ status = [a \in Asset |-> "synced"]
  /\ tags = [a \in Asset |-> CatalogueTags(a)]
  /\ page = [e \in Editor |-> None]
  /\ search = [e \in Editor |-> None]
  /\ job = [w \in Worker |-> None]
  /\ overtaken = {}
  /\ edits = 0

-----------------------------------------------------------------------------
(* The marking of files, the last thing every change does.                 *)

\* mark_recording_for_sync on the radio files of the recordings in R, with the
\* authority the transaction sees.  Each file is validated when it is saved: one
\* whose track belongs to another recording refuses the change that marks it.
Marked(R) == UNION {FilesOf(r) : r \in {q \in R : Governed(q)'}}
Mark(R) ==
  /\ \A a \in Marked(R) : TrackOf[a] # None => track'[TrackOf[a]].rec = RecOf[a]
  /\ status' = [a \in Asset |-> IF a \in Marked(R) THEN "pending" ELSE status[a]]
  /\ UNCHANGED <<tags, work>>

\* Somebody begins: with a page, a search or a job.
Begin == Cardinality({e \in Editor : page[e] # None \/ search[e] # None})
           + Cardinality({w \in Worker : job[w] # None}) < MaxBusy
Edit == edits < MaxEdits /\ edits' = edits + 1
OnlyFiles == UNCHANGED <<catalogue, governance, page, search, edits>>

\* What is taken for granted of a form: a name is given, an ISRC is free.
FreeIsrc(i, r) == SameIsrc(rec, i) \subseteq {r}

\* post_save of a recording, a contribution or an identifier of one.
SaveRecording(r, values) ==
  /\ Edit
  /\ rec[r] # None
  /\ values # rec[r]
  /\ FreeIsrc(values.isrc, r)
  /\ rec' = [rec EXCEPT ![r] = values]
  /\ UNCHANGED <<track, release, pairs, governance, page, search>>
  /\ Mark({r})

EditRecording(r) == \E t \in Title : SaveRecording(r, [rec[r] EXCEPT !.title = t])

\* One identifier per scheme.
AddIdentifier(r) ==
  /\ rec[r] # None /\ rec[r].isrc = None
  /\ \E i \in Isrc : SaveRecording(r, [rec[r] EXCEPT !.isrc = i])

\* A further contribution comes before or after the others; only before matters.
AddContribution(r) == \E n \in Name : SaveRecording(r, [rec[r] EXCEPT !.credit = n])

\* post_save of the release: every track's recording is marked.
OnRelease == {track[t].rec : t \in Tracks}

EditRelease ==
  /\ Edit
  /\ \E n \in Label, keep \in BOOLEAN, b \in SUBSET Barcode :
       \* The form of GUI v2 has one barcode, the workbench's has none.
       /\ ~keep => Cardinality(b) <= 1
       /\ release' = [name |-> n, barcodes |-> IF keep THEN release.barcodes ELSE b]
  /\ release' # release
  /\ UNCHANGED <<rec, track, pairs, governance, page, search>>
  /\ Mark(OnRelease)

\* The workbench's form for an identifier of the release.  It names no recording,
\* so nothing is marked.
AddReleaseIdentifier ==
  /\ Edit
  /\ \E b \in Barcode \ release.barcodes :
       release' = [release EXCEPT !.barcodes = @ \cup {b}]
  /\ UNCHANGED <<rec, track, pairs, governance, files, page, search, work>>

-----------------------------------------------------------------------------
(* Recordings that are created.                                            *)

\* A track list that is being saved holds locks on the tracks the release had.
Locked(e) == \E d \in Editor \ {e} : search[d] # None /\ search[d].tracks # None

\* A request looks for what is like the recording it is to create: a form of its own,
\* or a track list, which has locked the tracks by then.  What was typed is chosen when
\* the request goes on; the recordings it looked among are those there were now.
StartSearch(e) ==
  /\ edits < MaxEdits
  /\ search[e] = None
  /\ \E ts \in {None, Tracks} :
       /\ IF ts = None THEN page[e] = None /\ Begin ELSE page[e] # None /\ ~Locked(e)
       /\ search' = [search EXCEPT ![e] = [seen |-> rec, tracks |-> ts]]
  /\ UNCHANGED <<catalogue, governance, files, page, work, edits>>

Found(e, v) == Candidates(search[e].seen, v.title, v.isrc)

\* "Mulig eksisterende innspilling", or another error: the transaction is rolled back.
EndSearch(e) ==
  /\ search[e] # None
  /\ search' = [search EXCEPT ![e] = None]
  /\ UNCHANGED <<catalogue, governance, files, page, work, edits>>

\* resolve_release_track_recording and create_managed_recording: candidates stop a
\* creation that is not forced; an ISRC that has come to be used since the search is
\* refused by the database.  The candidates found are recorded with the new recording.
Creatable(e, v, force) ==
  /\ search[e] # None
  /\ Found(e, v) = {} \/ force
  /\ SameIsrc(search[e].seen, v.isrc) = {} /\ SameIsrc(rec, v.isrc) = {}
PairsWith(r, e, v) == {{r, s} : s \in Found(e, v)}
Searched(e) == search' = [search EXCEPT ![e] = None]

FreeSequence(n) == \A t \in Tracks : track[t].seq # n

\* create_release_track from the workbench, for a recording of the catalogue or a
\* new one.  Rows of the formset that are saved together are saved one by one.
AddTrack(e, t) ==
  /\ Edit
  /\ track[t] = None
  /\ \E r \in Rec, n \in Position :
       /\ FreeSequence(n)
       /\ track' = [track EXCEPT ![t] = [seq |-> n, rec |-> r]]
       /\ \/ /\ rec[r] # None
             /\ UNCHANGED <<rec, pairs, search>>
          \/ /\ rec[r] = None
             /\ \E v \in Values, force \in BOOLEAN :
                  /\ Creatable(e, v, force) /\ search[e].tracks = None
                  /\ v.credit = None
                  /\ rec' = [rec EXCEPT ![r] = v]
                  /\ pairs' = pairs \cup PairsWith(r, e, v)
                  /\ Searched(e)
       /\ UNCHANGED <<release, governance, page>>
       /\ Mark({r})

\* create_managed_recording: the library entry, the management and a claim to be
\* decided come together, or the request is refused.
ManagedAdd(e, r) ==
  /\ Edit
  /\ r \notin managed
  /\ \/ /\ rec[r] # None
        /\ UNCHANGED <<rec, pairs, search>>
     \/ /\ rec[r] = None
        /\ \E v \in Values, force \in BOOLEAN :
             /\ Creatable(e, v, force) /\ search[e].tracks = None
             /\ rec' = [rec EXCEPT ![r] = v]
             /\ pairs' = pairs \cup PairsWith(r, e, v)
             /\ Searched(e)
  /\ library' = library \cup {r}
  /\ managed' = managed \cup {r}
  /\ \E owns \in BOOLEAN :
       IF owns /\ claim[r] = "none"
       THEN claim' = [claim EXCEPT ![r] = "unverified"] /\ period' = [period EXCEPT ![r] = "open"]
       ELSE UNCHANGED <<claim, period>>
  /\ UNCHANGED <<track, release, page>>
  /\ Mark({r})

LibraryAdd(r) ==
  /\ Edit
  /\ rec[r] # None /\ r \notin library
  /\ library' = library \cup {r}
  /\ UNCHANGED <<catalogue, managed, claim, period, files, page, search, work>>

\* post_save of a claim, and of the decision about it.
ClaimRights(r) ==
  /\ Edit
  /\ rec[r] # None
  /\ \/ /\ claim[r] = "none" /\ claim' = [claim EXCEPT ![r] = "unverified"]
        /\ \E p \in Validity : period' = [period EXCEPT ![r] = p]
     \/ /\ claim[r] \in {"unverified", "confirmed"}
        /\ \E s \in {"confirmed", "rejected"} \ {claim[r]} :
             claim' = [claim EXCEPT ![r] = s]
        /\ UNCHANGED period
  /\ UNCHANGED <<catalogue, library, managed, page, search>>
  /\ Mark({r})

\* The period of a claim begins or ends.  Nobody saves anything, nothing is marked.
DayPasses(r) ==
  /\ Edit
  /\ claim[r] # "none"
  /\ \/ period[r] = "ahead" /\ period' = [period EXCEPT ![r] = "within"]
     \/ period[r] = "within" /\ period' = [period EXCEPT ![r] = "over"]
  /\ UNCHANGED <<catalogue, library, managed, claim, files, page, search, work>>

-----------------------------------------------------------------------------
(* The track list of GUI v2.                                               *)

\* _track_initial: a row shows the track and the values of its recording.
RowOf(t) == [rec |-> track[t].rec, seq |-> track[t].seq,
             values |-> rec[track[t].rec], shared |-> FALSE, remove |-> FALSE,
             force |-> FALSE]

OpenPage(e) ==
  /\ edits < MaxEdits
  /\ page[e] = None /\ search[e] = None
  /\ Begin
  /\ page' = [page EXCEPT ![e] = [t \in Tracks |-> RowOf(t)]]
  /\ UNCHANGED <<catalogue, governance, files, search, work, edits>>

\* What an editor makes of a row: another position, recording or removal, new
\* values for its recording, or a recording of its own (rec = None).
Typed(values) == {v \in Values : v.isrc = values.isrc}
Row(recs, all, shared, forced) ==
  [rec : recs, seq : Position, values : all, shared : {shared}, remove : {FALSE},
   force : forced]
Linked(values) == Row(Recordings, {values}, FALSE, {FALSE})
Edited(values) == Linked(values)
                  \cup Row(Recordings, Typed(values), TRUE, {FALSE})
                  \cup Row({None}, Typed(values), FALSE, BOOLEAN)
Removed(row) == [row EXCEPT !.remove = TRUE]
Blank == [title |-> CHOOSE t \in Title : TRUE, isrc |-> None, credit |-> None]

\* A submission: the rows of the page, one of them changed or one added under a
\* key that stands for none.  (Bound: one row.)
RowChanged(shown, t) ==
  {[shown EXCEPT ![t] = row] : row \in Edited(shown[t].values) \cup {Removed(shown[t])}}
RowAdded(shown, t) ==
  {[u \in DOMAIN shown \cup {t} |-> IF u = t THEN row ELSE shown[u]] : row \in Edited(Blank)}
Submissions(shown) ==
  (UNION {RowChanged(shown, t) : t \in DOMAIN shown})
  \cup (UNION {RowAdded(shown, t) : t \in {u \in Track : track[u] = None}})

\* TrackRowForm and formset_factory: recordings that exist, positions once.
RowsValid(rows) ==
  LET kept == {t \in DOMAIN rows : ~rows[t].remove} IN
  /\ \A t \in kept : rows[t].rec # None => rec[rows[t].rec] # None
  /\ \A t, u \in kept : rows[t].seq = rows[u].seq => t = u
  /\ \A t \in DOMAIN rows \ kept : ~\E a \in Asset : TrackOf[a] = t
  /\ Cardinality({t \in kept : rows[t].rec = None}) <= 1

OutOfTheWay(t, locked) ==
  Max({track[u].seq : u \in locked}) + Gap
    + Cardinality({u \in locked : track[u].seq < track[t].seq})

Submitted(rows, fresh, own, t) ==
  LET u == CHOOSE v \in DOMAIN rows : ~rows[v].remove /\ fresh[v] = t
  IN [seq |-> rows[u].seq, rec |-> IF rows[u].rec = None THEN own ELSE rows[u].rec]
\* Mutant of SavedTracks: the submitted rows are all there is.
ReplacedTracks(rows, fresh, own, locked) ==
  [t \in Track |->
    IF \E u \in DOMAIN rows : ~rows[u].remove /\ fresh[u] = t
    THEN Submitted(rows, fresh, own, t)
    ELSE IF t \in locked THEN Gone ELSE track[t]]

\* Tracks after the save: locked are those the release had when it began, fresh[t] is
\* the key of a row whose track was removed meanwhile, own the recording of a row that
\* asks for a new one.
SavedTracks(rows, fresh, own, locked) ==
  [t \in Track |->
    IF t \in locked \ DOMAIN rows THEN [track[t] EXCEPT !.seq = OutOfTheWay(t, locked)]
    ELSE IF \E u \in DOMAIN rows : ~rows[u].remove /\ fresh[u] = t
    THEN Submitted(rows, fresh, own, t)
    ELSE IF t \in locked THEN Gone ELSE track[t]]

\* Rows that ask for a change of the recording they share write every value of it.
Rewritten(rows) == {t \in DOMAIN rows : ~rows[t].remove /\ rows[t].shared
                                         /\ rows[t].rec # None}

\* save_release_track_rows.  A list with a recording to create has locked the tracks
\* and searched before; another one does all of it here.
SaveGrid(e) ==
  /\ Edit
  /\ page[e] # None /\ ~Locked(e)
  /\ \E rows \in Submissions(page[e]), own \in Rec :
     \E fresh \in [DOMAIN rows -> Track] :
       LET asks == {t \in DOMAIN rows : ~rows[t].remove /\ rows[t].rec = None}
           locked == IF asks = {} THEN Tracks ELSE search[e].tracks
           v(t) == rows[t].values
       IN
       /\ IF asks = {} THEN own = (CHOOSE r \in Rec : TRUE) /\ search[e] = None
                       ELSE rec[own] = None /\ search[e] # None /\ search[e].tracks # None
       /\ RowsValid(rows)
       /\ \A t \in DOMAIN rows :
            IF t \in Tracks \/ rows[t].remove THEN fresh[t] = t
            ELSE track[fresh[t]] = None
       /\ \A t, u \in DOMAIN rows : fresh[t] = fresh[u] => t = u
       /\ \A t \in DOMAIN rows, u \in Tracks \ locked : rows[t].remove \/ rows[t].seq # track[u].seq
       /\ \A t \in asks : Creatable(e, v(t), rows[t].force)
       /\ \A t, u \in Rewritten(rows) : rows[t].rec = rows[u].rec => t = u
       /\ \A t \in Rewritten(rows) : FreeIsrc(v(t).isrc, rows[t].rec)
       /\ track' = SavedTracks(rows, fresh, own, locked)
       /\ rec' = [r \in Rec |->
            IF \E t \in Rewritten(rows) : rows[t].rec = r
            THEN v(CHOOSE t \in Rewritten(rows) : rows[t].rec = r)
            ELSE IF r = own /\ asks # {} THEN v(CHOOSE t \in asks : TRUE)
            ELSE rec[r]]
       /\ pairs' = pairs \cup UNION {PairsWith(own, e, v(t)) : t \in asks}
  /\ page' = [page EXCEPT ![e] = None]
  /\ Searched(e)
  /\ UNCHANGED <<release, governance, files, work>>

-----------------------------------------------------------------------------
(* The synchronisation of a file.                                          *)

\* The others that have read something of the file a.
Reading(a, w) ==
  {v \in Worker \ {w} : job[v] # None /\ job[v].asset = a /\ job[v].at # "selected"}
Finished(w) == job' = [job EXCEPT ![w] = None] /\ overtaken' = overtaken \ {w}

\* sync_flac_tags: the files to be written are listed first.
SelectFile(w, a) ==
  /\ job[w] = None /\ Begin
  /\ status[a] \in {"pending", "failed"}
  /\ job' = [job EXCEPT ![w] = [asset |-> a, at |-> "selected", tags |-> None]]
  /\ OnlyFiles /\ UNCHANGED <<files, overtaken>>

\* sync_file_asset reads the row and what is to be written; without authority the
\* file is in conflict.  From here a change is lost to the job.
ReadCatalogue(w) ==
  /\ job[w] # None /\ job[w].at = "selected"
  /\ LET a == job[w].asset IN
     IF Governed(RecOf[a])
     THEN /\ job' = [job EXCEPT ![w].at = "read", ![w].tags = CatalogueTags(a)]
          /\ UNCHANGED <<status, overtaken>>
     ELSE /\ LinkAgrees(a)
          /\ Finished(w)
          /\ status' = [status EXCEPT ![a] = "conflict"]
  /\ OnlyFiles /\ UNCHANGED tags

\* write_catalogue_tags, which may fail before or after the file is saved.
WriteTags(w) ==
  /\ job[w] # None /\ job[w].at = "read"
  /\ \E written, fails \in BOOLEAN :
       /\ written \/ fails
       /\ tags' = IF written THEN [tags EXCEPT ![job[w].asset] = job[w].tags] ELSE tags
       /\ overtaken' = IF written THEN (overtaken \ {w}) \cup Reading(job[w].asset, w)
                                  ELSE overtaken
       /\ job' = [job EXCEPT ![w].at = IF fails THEN "failed" ELSE "written"]
  /\ OnlyFiles /\ UNCHANGED status

\* Mutant of Outcome: a failed writing is not told from a finished one.
AlwaysSynced(w) == "synced"

Outcome(w) == IF job[w].at = "failed" THEN "failed" ELSE "synced"

\* The whole row is saved: a status that was set meanwhile is overwritten.  A row
\* that does not validate ends the job with an error.
SaveStatus(w) ==
  /\ job[w] # None /\ job[w].at \in {"written", "failed"}
  /\ LET a == job[w].asset IN
     status' = IF LinkAgrees(a) THEN [status EXCEPT ![a] = Outcome(w)] ELSE status
  /\ Finished(w)
  /\ OnlyFiles /\ UNCHANGED tags

-----------------------------------------------------------------------------
(* A file that is imported again, of a recording the database governs.     *)

\* apply_item checks that the file is the one that was read, and that the catalogue
\* is not to be written.
ParseFile(w, a) ==
  /\ job[w] = None /\ Begin
  /\ Governed(RecOf[a])
  /\ job' = [job EXCEPT ![w] = [asset |-> a, at |-> "parsed", tags |-> tags[a]]]
  /\ OnlyFiles /\ UNCHANGED <<files, overtaken>>

\* What was read of the file, against the catalogue.
Compared(w) ==
  IF SameTags(job[w].tags, CatalogueTags(job[w].asset)) THEN "synced" ELSE "pending"

\* The row is saved, and compared while the transaction has it: a change of the
\* catalogue marks the file before or after.
SaveParsed(w) ==
  /\ job[w] # None /\ job[w].at = "parsed"
  /\ LET a == job[w].asset IN
     status' = IF LinkAgrees(a) THEN [status EXCEPT ![a] = Compared(w)] ELSE status
  /\ Finished(w)
  /\ OnlyFiles /\ UNCHANGED tags

Next ==
  \/ \E r \in Rec : \/ EditRecording(r) \/ AddIdentifier(r) \/ AddContribution(r)
                    \/ LibraryAdd(r) \/ ClaimRights(r) \/ DayPasses(r)
  \/ EditRelease \/ AddReleaseIdentifier
  \/ \E e \in Editor : StartSearch(e) \/ EndSearch(e) \/ OpenPage(e) \/ SaveGrid(e)
  \/ \E e \in Editor, t \in Track : AddTrack(e, t)
  \/ \E e \in Editor, r \in Rec : ManagedAdd(e, r)
  \/ \E w \in Worker, a \in Asset : SelectFile(w, a) \/ ParseFile(w, a)
  \/ \E w \in Worker : ReadCatalogue(w) \/ WriteTags(w) \/ SaveStatus(w) \/ SaveParsed(w)

Spec == Init /\ [][Next]_vars

-----------------------------------------------------------------------------
(* Properties.                                                             *)

\* The status says of a governed file that it has the tags the catalogue wants, and it
\* has others.
Misled(a) ==
  status[a] = "synced" /\ Governed(RecOf[a]) /\ ~SameTags(tags[a], CatalogueTags(a))

\* A job works on the file a with tags that are no longer the catalogue's, or another
\* one has written the file since.
OutOfDate(w, a) ==
  /\ job[w] # None /\ job[w].asset = a /\ job[w].at # "selected"
  /\ ~SameTags(job[w].tags, CatalogueTags(a)) \/ w \in overtaken

\* Only four things make the status of a governed file false: a job that works with
\* what it read before the catalogue or the file was changed (sync_file_asset and
\* apply_item save the row without a lock, and a mark set meanwhile is lost); a track
\* list, whose marking is suppressed; an identifier of a release, which marks nothing;
\* a claim that becomes valid.  No form that marks does, whoever edits meanwhile, and
\* no synchronisation that fails before, in or after the writing.  (Of a file whose
\* track has another recording, a form of the release does not find the recording.)
SyncedStaysWritten ==
  [][\A a \in Asset :
       ~Misled(a) /\ LinkAgrees(a) /\ Misled(a)' =>
         \/ \E w \in Worker : OutOfDate(w, a) /\ (WriteTags(w) \/ SaveStatus(w) \/ SaveParsed(w))
         \/ \E e \in Editor : SaveGrid(e)
         \/ AddReleaseIdentifier
         \/ DayPasses(RecOf[a])]_vars

\* A recording that a form creates is recorded with every similar one that was there
\* when the form searched and has its title still, in whatever case, and whatever was
\* saved since (resolve_release_track_recording, create_managed_recording).  Two that
\* are created at once do not find each other.
DuplicatesRecorded ==
  [][\A r, s \in Rec, e \in Editor :
       /\ rec[r] = None /\ rec'[r] # None
       /\ search[e] # None /\ search'[e] = None
       /\ rec[s] # None /\ search[e].seen[s] = rec[s]
       /\ Fold(rec'[r].title) = Fold(rec[s].title)
       => {r, s} \in pairs']_vars

\* A submitted page leaves the tracks it did not show with their recordings,
\* whatever was changed since it was opened.
UnseenKept ==
  [][\A e \in Editor :
       page[e] # None /\ page'[e] = None =>
         \A t \in Tracks \ DOMAIN page[e] :
           track'[t] \notin {None, Gone} /\ track'[t].rec = track[t].rec]_vars

\* "Sporreferansen må tilhøre den valgte innspillingen": a file and the track it
\* is linked to have one recording.
TrackLinkAgrees == \A a \in Asset : LinkAgrees(a)

=============================================================================

--------------------------- MODULE CatalogueSources ---------------------------
(***************************************************************************)
(* The title of one catalogue Recording and everybody who may write it:    *)
(* stewards who apply a source assertion from a page they opened earlier,  *)
(* staff who save an edit form, and FLAC imports.  Every save goes through *)
(* CanonicalModel.save, which locks the row and adds one to the revision.  *)
(*                                                                         *)
(* An import holds a lock on its ingest item only: it reads the recording, *)
(* then asks whether the database is the authority for it, then saves and  *)
(* logs what it read, and the three are separate steps of the model.       *)
(* A new assertion becomes visible when the import commits.                *)
(*                                                                         *)
(* Assertions about other fields are left out; saving another field of the *)
(* recording (the duration a file has, a language) is an edit that keeps   *)
(* the title.                                                              *)
(***************************************************************************)
EXTENDS Integers

CONSTANTS
  Steward,      \* users with the source history page of the recording
  Import,       \* concurrent runs of apply_item for files of the recording
  Assertion,    \* identities of MetadataAssertion rows
  Legacy,       \* the assertion of the first import, made before ingest
                \* confirmed what it applied
  Title,        \* titles, already stripped and not blank
  FirstTitle,   \* the title of the first import
  None,
  ReviewChoices,\* bound: the statuses reviewers choose
  MaxRevision   \* bound: saves stop at this revision

Decisions == {"CONFIRMED", "DISPUTED", "REJECTED"}
Status == Decisions \cup {"UNVERIFIED", "SUPERSEDED"}

AssertionRow == [value : Title, status : Status, flac : BOOLEAN]

ASSUME SourceAssumption ==
  /\ Legacy \in Assertion
  /\ FirstTitle \in Title
  /\ None \notin Title \cup AssertionRow
  /\ ReviewChoices \subseteq Status
  /\ MaxRevision \in Nat \ {0}

VARIABLES
  title,      \* Recording.title
  revision,   \* Recording.revision
  authority,  \* database_is_catalogue_authority: managed, or locally owned
  assertion,  \* MetadataAssertion rows
  decided,    \* the latest AssertionDecision of each assertion
  change,     \* AppliedMetadataChange rows, with the operation that wrote each
  page,       \* what each steward's page shows, and its expected_revision
  job,        \* what each import read
  bulk,       \* the rows confirm_existing_flac_assertions iterates over
  history     \* the title each revision was saved with (not in the program)

vars == <<title, revision, authority, assertion, decided, change, page, job,
          bulk, history>>

Note == {"steward", "ingest", "legacy"}

Change == [assertion : Assertion, before : Title \cup {None}, after : Title,
           base : Nat, result : Nat, via : {"page", "file"}]
Job == [at : {"loaded", "clear"}, before : Title, base : Nat, value : Title]

TypeOK ==
  /\ title \in Title
  /\ revision \in Nat
  /\ authority \in BOOLEAN
  /\ assertion \in [Assertion -> AssertionRow \cup {None}]
  /\ decided \in [Assertion -> [status : Status, note : Note] \cup {None}]
  /\ change \subseteq Change
  /\ page \in [Steward -> [title : Title, revision : Nat] \cup {None}]
  /\ job \in [Import -> Job \cup {None}]
  /\ bulk \in (SUBSET Assertion) \cup {None}
  /\ history \subseteq Nat \X Title

SourcesInit ==
  /\ title = FirstTitle
  /\ revision = 1
  /\ authority = FALSE
  /\ assertion = [a \in Assertion |->
                    IF a = Legacy THEN [value |-> FirstTitle,
                                        status |-> "UNVERIFIED",
                                        flac |-> TRUE]
                                  ELSE None]
  /\ decided = [a \in Assertion |-> None]
  /\ change = {[assertion |-> Legacy, before |-> None, after |-> FirstTitle,
                base |-> 1, result |-> 1, via |-> "file"]}
  /\ page = [u \in Steward |-> None]
  /\ job = [j \in Import |-> None]
  /\ bulk = None
  /\ history = {<<1, FirstTitle>>}

-----------------------------------------------------------------------------
\* Mutant of SaveTitle: the revision is left out of the saved fields.
SaveTitleAlone(v) ==
  /\ revision < MaxRevision
  /\ title' = v
  /\ revision' = revision
  /\ history' = history \cup {<<revision + 1, v>>}

\* Saving the recording: the row is locked, its revision is read again and
\* the next one is stored with the title.
SaveTitle(v) ==
  /\ revision < MaxRevision
  /\ title' = v
  /\ revision' = revision + 1
  /\ history' = history \cup {<<revision + 1, v>>}

\* The assertion a does not exist yet: its row can be the next one created.
Unused(a) == assertion[a] = None

\* Record a decision about a: the log row and the status it leads to.
Decided(a, status, note) ==
  /\ assertion' = [assertion EXCEPT ![a].status = status]
  /\ decided' = [decided EXCEPT ![a] = [status |-> status, note |-> note]]

\* An AppliedMetadataChange row is added.
Logged(r) == change' = change \cup {r}

\* Mutant of PageCurrent: expected_revision is not compared.
PageOpen(u) == page[u] # None

\* Mutant of ImportBase: the revision is read when the row is written.
ImportBaseNow(j) == revision

\* The revision of the title an import logs as the one it replaced: `base`, kept
\* with `before` of the recording as it was read.
ImportBase(j) == job[j].base

\* The revision the page was made from is still the recording's.
PageCurrent(u) == page[u] # None /\ page[u].revision = revision

\* The row that replaces a corrected assertion.
Replacement(v, flac) == [value |-> v, status |-> "UNVERIFIED", flac |-> flac]

-----------------------------------------------------------------------------
\* A steward opens the source history page: title and revision of one read.
OpenPage(u) ==
  /\ page' = [page EXCEPT ![u] = [title |-> title, revision |-> revision]]
  /\ UNCHANGED <<title, revision, authority, assertion, decided, change, job,
                 bulk, history>>

\* apply_assertion with the page's expected_revision; "confirm" also decides.
\* An older revision raises ConcurrentCatalogueChange and changes nothing.
Apply(u, a, confirm) ==
  /\ PageCurrent(u)
  /\ ~Unused(a)
  /\ SaveTitle(assertion[a].value)
  /\ Logged([assertion |-> a, before |-> title, after |-> assertion[a].value,
             base |-> page[u].revision, result |-> revision', via |-> "page"])
  /\ IF confirm THEN Decided(a, "CONFIRMED", "steward")
                ELSE UNCHANGED <<assertion, decided>>
  /\ UNCHANGED <<authority, page, job, bulk>>

\* decide_assertion: any stored assertion, whatever its status.
Decide(a, status) ==
  /\ ~Unused(a)
  /\ Decided(a, status, "steward")
  /\ UNCHANGED <<title, revision, authority, change, page, job, bulk, history>>

\* supersede_assertion: a replaces p.  correct_assertion keeps the source
\* record of p; the admin form lets the user choose another one.
Supersede(p, a, v, flac) ==
  /\ ~Unused(p)
  /\ Unused(a)
  /\ assertion' = [assertion EXCEPT
                     ![a] = Replacement(v, flac),
                     ![p].status = "SUPERSEDED"]
  /\ decided' = [decided EXCEPT
                     ![p] = [status |-> "SUPERSEDED", note |-> "steward"]]
  /\ UNCHANGED <<title, revision, authority, change, page, job, bulk, history>>

Correct(p, a, v) == Supersede(p, a, v, assertion[p].flac)

\* The admin change form of an assertion saves its status as a plain field.
EditStatus(a, status) ==
  /\ ~Unused(a)
  /\ assertion' = [assertion EXCEPT ![a].status = status]
  /\ UNCHANGED <<title, revision, authority, decided, change, page, job, bulk,
                 history>>

\* recording_edit, the recording admin and the release editor: the posted
\* title is saved whatever the revision is now.
Edit(v) ==
  /\ SaveTitle(v)
  /\ UNCHANGED <<authority, assertion, decided, change, page, job, bulk>>

\* The recording becomes managed or locally owned, or no longer is.
SetAuthority(b) ==
  /\ authority' = b
  /\ UNCHANGED <<title, revision, assertion, decided, change, page, job, bulk,
                 history>>

-----------------------------------------------------------------------------
\* apply_item reads the item and, with the same query, its recording.
ImportLoad(j, v) ==
  /\ job[j] = None
  /\ job' = [job EXCEPT ![j] = [at |-> "loaded", before |-> title,
                                base |-> revision, value |-> v]]
  /\ UNCHANGED <<title, revision, authority, assertion, decided, change, page,
                 bulk, history>>

\* An authoritative database leaves the catalogue fields to its users.
ImportCheck(j) ==
  /\ job[j] # None
  /\ job[j].at = "loaded"
  /\ job' = [job EXCEPT ![j] = IF authority THEN None
                               ELSE [@ EXCEPT !.at = "clear"]]
  /\ UNCHANGED <<title, revision, authority, assertion, decided, change, page,
                 bulk, history>>

\* The file's title is not the one read: a confirmed assertion, the save and
\* the log row, which holds the title and revision read before.
ImportTitle(j, a) ==
  /\ job[j] # None
  /\ job[j].at = "clear"
  /\ job[j].value # job[j].before
  /\ Unused(a)
  /\ SaveTitle(job[j].value)
  /\ assertion' = [assertion EXCEPT ![a] = [value |-> job[j].value,
                                            status |-> "CONFIRMED",
                                            flac |-> TRUE]]
  /\ decided' = [decided EXCEPT ![a] = [status |-> "CONFIRMED",
                                        note |-> "ingest"]]
  /\ Logged([assertion |-> a, before |-> job[j].before, after |-> job[j].value,
             base |-> ImportBase(j), result |-> revision', via |-> "file"])
  /\ job' = [job EXCEPT ![j] = None]
  /\ UNCHANGED <<authority, page, bulk>>

\* The title read is the file's, or a later step of the import fails and the
\* transaction is rolled back.
ImportEnds(j) ==
  /\ job[j] # None
  /\ job' = [job EXCEPT ![j] = None]
  /\ UNCHANGED <<title, revision, authority, assertion, decided, change, page,
                 bulk, history>>

-----------------------------------------------------------------------------
\* confirm_existing_flac_assertions: the query's snapshot, then every row of
\* it is confirmed, whatever its status is by now.
BulkRead ==
  /\ bulk = None
  /\ bulk' = {a \in Assertion : /\ ~Unused(a)
                                /\ assertion[a].flac
                                /\ assertion[a].status = "UNVERIFIED"}
  /\ UNCHANGED <<title, revision, authority, assertion, decided, change, page,
                 job, history>>

BulkCommit ==
  /\ bulk # None
  /\ assertion' = [a \in Assertion |->
                     IF a \in bulk
                       THEN [assertion[a] EXCEPT !.status = "CONFIRMED"]
                       ELSE assertion[a]]
  /\ decided' = [a \in Assertion |->
                   IF a \in bulk
                     THEN [status |-> "CONFIRMED", note |-> "legacy"]
                     ELSE decided[a]]
  /\ bulk' = None
  /\ UNCHANGED <<title, revision, authority, change, page, job, history>>

StewardStep ==
  \/ \E u \in Steward : OpenPage(u)
  \/ \E u \in Steward, a \in Assertion, c \in BOOLEAN : Apply(u, a, c)
  \/ \E a \in Assertion, s \in ReviewChoices \cap Decisions : Decide(a, s)
  \/ \E p, a \in Assertion, v \in Title : Correct(p, a, v)
  \/ \E p, a \in Assertion, v \in Title, f \in BOOLEAN : Supersede(p, a, v, f)
  \/ \E a \in Assertion, s \in ReviewChoices : EditStatus(a, s)
  \/ \E v \in Title : Edit(v)
  \/ \E b \in BOOLEAN : SetAuthority(b)

ImportStep ==
  \E j \in Import :
    \/ \E v \in Title : ImportLoad(j, v)
    \/ ImportCheck(j)
    \/ \E a \in Assertion : ImportTitle(j, a)
    \/ ImportEnds(j)

SourcesNext == StewardStep \/ ImportStep \/ BulkRead \/ BulkCommit

SourcesSpec == SourcesInit /\ [][SourcesNext]_vars

-----------------------------------------------------------------------------
\* Two readers of one revision saw the same title: a page whose revision is
\* still the recording's shows the title a save would replace, whatever
\* imports and edits read before and saved since (CanonicalModel.save).
PageIsHonest ==
  \A u \in Steward :
    page[u] # None /\ page[u].revision = revision => page[u].title = title

\* A source value applied from a page replaces exactly the title that page
\* showed, never one saved since by somebody else (apply_assertion).
ReplacesWhatWasSeen ==
  [][\A u \in Steward, a \in Assertion, c \in BOOLEAN :
       Apply(u, a, c) => page[u].title = title]_vars

\* A log row is true: before and after are the titles saved with the
\* revisions it names, and before is the title that after replaced.
LogRowTrue(r) ==
  /\ <<r.base, r.before>> \in history
  /\ <<r.result, r.after>> \in history
  /\ <<r.result - 1, r.before>> \in history

\* The log of values applied from a page is true (apply_assertion).
AppliedLogTrue == \A r \in change : r.via = "page" => LogRowTrue(r)

\* An import logs a replacement that somebody else's save may have come between, but
\* never a false one: the title it says it replaced is the one the revision it names
\* was saved with, and the one it wrote belongs to a later revision (apply_item,
\* _log_applied, CanonicalModel.save).
ImportLogTrue ==
  \A r \in change : r.via = "file" /\ r.before # None =>
    /\ r.base < r.result
    /\ <<r.base, r.before>> \in history
    /\ <<r.result, r.after>> \in history

=============================================================================

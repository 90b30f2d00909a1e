# Verification of the music archive and rights project

TLA+ models of the services of this repository, TLC configurations that check them
on small instances, and theorems that TLAPS checks for instances of every size. Two
kinds of code are modelled: the services that several web workers, users and
background commands run on the same rows and files, as state machines; and what a
request computes from data it only reads, as operators compared with a reference
definition over bounded inputs. `PROJECT.json` lists the components, the runs, a
mutant for every property, the source lines behind every definition, the findings,
the hazards and the theorems.

    tlc -workers 2 -config radio_one_recording.cfg MCRadioMastering
    tlapm RadioProofs.tla

## The system

A Django project beside the upstream Django-Music-Publisher (DMP). It is deployed on
PostgreSQL (READ COMMITTED, autocommit, no `ATOMIC_REQUESTS`), so a transaction
is exactly what a service wraps in `transaction.atomic` (the Django admin wraps each of
its forms), and exclusion is exactly what it locks with `select_for_update`.

| Component | State | Operations | What makes it hard | Correct when |
|---|---|---|---|---|
| Radio mastering (`media_assets/mastering.py`) | masters and radio files, `RecordingMediaSelection`, `RadioFlacGeneration`, `FileDerivation`; the files on disk | register and select a master, preview and save a plan, generate, activate | encoding takes minutes outside any transaction; the file is moved before it is registered; crash or failure at every step; the WAV is edited meanwhile | one worker per generation, nothing overwritten, the candidate is the registered audio, playback changes by activation only |
| Playback (`media_assets/playback.py`, GUI v2) | none | choose the radio file, send a byte range | the explicit choice and a fallback over life-cycle states; ranges at the end of a file | what the pages mark is what is sent |
| Archive files (`flac_ingest/services.py`) | recording and life cycle of radio-file rows | split a file to a new recording, write tags, import | full-row saves of rows read long before, without a lock | one current file |
| FLAC ingest (`flac_ingest/services.py`) | `FlacIngestBatch`, `FlacIngestItem` | scan, review, apply item or batch | matched at scan time, applied days later by several workers | imported once, a link that stays, ISRCs accounted for, a truthful status |
| Maintenance (`flac_ingest/maintenance.py`) | `FlacMaintenanceJob` | preview and execute cleanup or rebuild | stale previews, dying runs, users at work | what was recorded before a job looked is kept, active files are listed |
| Rights (`rights/services.py`) | `RightsClaim`, `RightsDecision` | create, decide, correct | a bound over several claims decided at once | confirmed shares within the whole |
| Managed music (`managed_music/`) | `ManagedRecording.status` | manage a recording | status derived from claims that others decide | a decision settles it on the rights that are confirmed and in force |
| Ownership summary (`rights/summaries.py`) | none | classify ownership | unknown and partial shares, boundaries | no conclusion the confirmed claims do not carry |
| Provenance (`provenance/services.py`) | `MetadataAssertion`, `AssertionDecision`, `AppliedMetadataChange` | decide, supersede, apply, correct, confirm in bulk | pages opened long before, imports that read without a lock | a page replaces what its user saw; the log is true |
| Catalogue, parties, music library | canonical rows | forms, track lists, duplicate candidates | whole-page saves, marking of files by signals, searches before inserts without a lock | what was not shown is spared; what a search found is recorded; a status is true |
| Canonical base (`rights_core/models.py`) | `revision` | `CanonicalModel.save` | waits for the row lock, compares nothing | - |
| Workbench, GUI v2 | none | lists, searches, covers, tasks | filters in SQL, columns in Python | lists, counts and columns agree |
| DMP (`music_publisher`) | works, exports, acknowledgements | edit, export CWR, import acknowledgements, CSV, JSON, royalties | overlapping whole-row saves, rounding, record counts | identifiers and numbers stay, files add up, everybody is paid |

Interaction is through shared rows: ingest creates the radio files that mastering
supersedes and playback chooses from; splits and tag writing change the same rows;
decisions on claims set the status that managed music shows, and which split,
synchronisation, ingest and maintenance ask for; catalogue edits mark files whose tags a
synchronisation then rewrites.

## Modules

State machines:

| Module | Contents |
|---|---|
| `RadioMastering`, `RadioOnAir` | the mastering service; what it promises, without workers, rows or files |
| `RadioArchive` | `RadioMastering` composed with splits and stale full-row saves |
| `FlacIngest` | scans, reviews, imports and splits |
| `ArchiveMaintenance` | cleanup and rebuild of the music library |
| `RightsClaims` | claims and their periods, decisions, corrections and management status |
| `CatalogueSources` | the title of a recording: source assertions, edits, imports, the log |
| `MusicDesk` | forms, track lists, marking, synchronisation and reading of files |
| `WorkRegistration` | DMP works, exports and acknowledgements |

Computations, composed by `Calculations` (one call at a time: an input, then its answer):

| Module | Contents |
|---|---|
| `WriterShares`, `CwrFile` | the writer form of a work; the lines, shares, sequences and trailers of a CWR file in four formats |
| `CsvTransfer`, `WorkExport` | the CSV file of works and its import; the JSON files, the backup, releases and playlists of the API |
| `RoyaltyStatement` | distribution of a statement row over the controlled writers |
| `OwnershipSummary` | `classify_ownership` |
| `CheckDigits` | the check characters of EAN, ISNI, DPID and others |
| `RadioPages` | what the radio pages say of a recording, byte ranges |
| `FlacTags` | reading, writing, comparing tags; tags of a generated file |
| `ReleaseAssembly` | how the files of folders find releases, places and covers |
| `ListFolds` | folds over lists that these modules share |
| `DeskLists`, `DeskSearches` | the lists, filters, sorting and pages of both interfaces; searches, tasks, covers |

`MC<module>` holds the TLC instances. Theorems about a module are in `<module>Proofs`, with
these exceptions: `RadioProofs` has those of `RadioMastering` and `RadioArchive`,
`RegistryProofs` those of `RightsClaims` and `WorkRegistration`, `CatalogueProofs` those of
`CatalogueSources`, and `CatalogueProofs`, `DeskProofs` and `CalculationsProofs`, each of which
extends the one before it, those of `Calculations`.

### RadioMastering

Variables: `wav` (version of the WAV on disk) and `file` (what is at a target
path) are the disk; `masterRec`/`masterSha` are a registered master's recording
and hash; `selMaster`/`curRadio` are `RecordingMediaSelection`;
`life`/`radioRec`/`lineage` are a radio file's `lifecycle_status`, `recording` and
`FileDerivation`; `plan` is the `RadioFlacGeneration` row; `pc`, `form` and `work`
are what a web worker holds in local variables. A generation row and the file it
makes are both known by the target path, which the database keeps unique.

`generate_candidate` is split where other workers can come in: unlocked checks
(`GenStart`), the claim under the row lock (`GenClaim`), encoding, PCM comparison,
re-hash of the master, `os.replace` (`GenPlace`), the registration transaction
(`GenRegister`), and its error paths: an error before the file is placed
(`GenRaise`), a failed registration that unlinks the file (`GenRegisterRaises`), a
failure after `candidate_asset` was set on the row in memory
(`GenRegisterRaisesLate`), the handler's save of FAILED (`GenRecordFailure`), and
the death of the worker at any point (`Crash`). `create_generation_plan` is split
into its preview, its `get_or_create` and the deletion of the row when the target
exists. `register_master`, `select_master` and `activate_candidate` are one
transaction under row locks each, and one action each. `MaxFaults` bounds crashes and
failures that come too late to be recorded, together; `MaxVersion` the edits of a WAV.

Abstractions. The audio of a file is `<<master, version>>`. Metadata, tags and
their fingerprint are left out: a mismatch only refuses a request, or fails a
generation, which `GenRaise` may do at any time. A file has one readable
location. A target name arrives with the request, so any path in the recording's
folder may meet any selection. The editor never restores the earlier bytes of a
WAV. Nothing but this service writes below the generated-media root, apart from
files already there (`Foreign`). The unlocked reads before the claim are one step:
only the row and the target decide, and both are checked again or are exclusive
afterwards. Temporary files have unique names and are not tracked.

### RadioArchive

Adds `split_radio_file_to_new_recording` (one transaction under the locks on asset
and recording) and jobs that read a `FileAsset` and save the whole row later:
`apply_item`, and `sync_file_asset` for managed recordings. `CanonicalModel.save`
waits for the row's lock but writes what is in memory, so `SaveAsset` writes back the
recording and life cycle that `LoadAsset` read, unless
`file_asset_one_current_radio` refuses. `Recordings \ Established` are the
recordings that splits may create. The batch item a split writes for the next scan is
left out; re-reading the file after a split is a request of its own (`FlacIngest`).

### FlacIngest

`disk`, `title`/`isrc` (recordings), `asset`, `item`, `status` are the archive and the
rows; `scan` and `work` are the memory of running scans and imports; `apart` the pairs of
recordings that are kept apart, and the ghost `undone` the files whose split an import has
overwritten. A scan reads the file locations when it begins (`seen`) and each file later. The
tags of a file are an ISRC, a P7UUID, its audio and a title; the title stands for everything a
recording is matched by besides identifiers.

An import holds the lock on its item, and on nothing else. Its steps are the reads and writes
that others can come between: `ApplyResolve` (services.py:1537 on: the item, the row of its
known file (`FileRead`), the check of the file, the recording, found or new), `ApplyIdentify`
(its ISRC), `ApplyLocate` (1771-1784: the row of the file at the item's path, and the check
that it has the recording of the import, both without a lock), then `ApplyCommit` (1785-1875),
which writes the whole row back as it was read, or `ApplyRefuse`. A split that commits between
the reading and the save is overwritten, as in the code. `ApplyFail` runs after the rollback, in
a transaction of its own; `ApplyCount` and `ApplyReport` are the count and the batch's status.
`MaxEvents` bounds edits of the disk, splits and deaths of workers together. `Forced` and
`Recovery` are the options of a scan that a run offers.

### ArchiveMaintenance

`entry` are the library entries, `location` the file rows, `managed`, `claimed`, `assessed`,
`edited` what users have recorded; `job` the maintenance rows with their plan, and `items` the
rows of the scan a rebuild makes, which users find on a page of their own and may import
(`ImportItem`). The ghost `late` are the recordings something was recorded about after a job
had looked at them and before it was done.

A cleanup holds the row locks of the entry and its recording from `CleanupCheck` on, so rows
that refer to either wait; an assertion names its recording without a foreign key and does not.
`CleanupLook` reads the locations and the disk, `CleanupRemove` deletes later: a file that comes
back between the two is not seen. A rebuild holds no lock: `RebuildCheck` asks,
and whatever is recorded before the transaction that follows is lost, except management, which
the database protects (`Refused`). That transaction deletes the entry and imports the file
(`RebuildApply`), or is rolled back (`RebuildFails`), or ends without an error and without an
entry (`RebuildGone`): the entry is deleted (maintenance.py:534), and `apply_item` returns early
(services.py:1544-1545) because the item has been imported meanwhile. A worker may die at any
point.

### RightsClaims

`decide_rights_claim` is split at its two lock waits and the reads that follow them:
`DecideLockClaim`, `DecideLockRecording`, `DecideValidate` (the sum of confirmed
shares), `DecideAssess` (the status of the managed recording) and `DecideCommit`.
Corrections take the lock on the claim only, and inserting any claim needs the
recording free of a decision's lock (the foreign key's key-share lock). Scopes
stand for a period with its territories: the sums compare both for equality only, the status
asks whether the period covers today.
A share of `None` adds to no total. `inForce` are the scopes whose period covers today, `over`
those whose period has ended; `PeriodBegins` and `PeriodEnds` move them at any time, whatever
transactions run. A decision takes the date once, when it assesses the status (`day`).
Left out: linking an agreement, which changes only that link, and the installation
without a local organisation, where status is never computed.

### CatalogueSources

One recording: `title` and `revision` are its row, `assertion` and `decided` the
source assertions about its title with the latest decision on each, `change` the
`AppliedMetadataChange` rows of pages and of imports, `page` what a steward's page shows, `job` what a run of
`apply_item` read, `bulk` the cursor of `confirm_existing_flac_assertions`, and
`history` a ghost: which title each revision was saved with. `apply_assertion`,
`decide_assertion` and `supersede_assertion` lock what they change and are one action
each. `apply_item` locks its item only, so it is three: the read of the recording, the
question whether the database is its authority, the save with assertion and log,
which become visible together at commit. Edits post a title without a revision. An
assertion's value never changes (`MetadataAssertion.clean`). The language field follows
the same path and is left out.

### MusicDesk

One release and its recordings, edited by forms that are one transaction each, and by the
track list of GUI v2, a page whose rows are read when it is opened (`OpenPage`) and all written
back when it is submitted (`SaveGrid`). A request that may create a recording searches for
similar ones first (`StartSearch`) and inserts later (`AddTrack`, `ManagedAdd`, `SaveGrid`), or
is refused (`EndSearch`); no lock joins the two, so what others commit in between is not among
what it found, and only a canonical ISRC is caught by the database. A track list holds the locks
on the release's tracks while it searches.

Signals mark the files of a changed recording PENDING when the database is its authority
(`Governed`: under management, or by a confirmed claim of the local organisation whose `period`
covers today); a submitted track list suppresses them, and a day that passes (`DayPasses`) sends
none. A synchronisation lists the files first (`SelectFile`), reads the row and the catalogue
(`ReadCatalogue`), writes the file (`WriteTags`, which may fail before or after writing) and
saves the whole row (`SaveStatus`). A governed file that is read again by an import is read
(`ParseFile`) and then compared (`SaveParsed`). `SameTags` is `_catalogue_metadata_differs`
(services.py:2330-2371): names without regard to case, identifiers as they are, what belongs to
a release only for a file with a track, and no album artist. Track and disc numbers, date and
catalogue number are not among the modelled tags. The ghost `overtaken` are the jobs whose file
another one wrote after they had read it.

Recordings that `apply_item` and a split create get no pairs in the code and are not made here;
imports of files the database does not govern are in `FlacIngest`. `MaxEdits` bounds the changes
of the catalogue, `MaxBusy` how many editors and workers are at work at the same time.

### WorkRegistration

A request of the DMP admin reads and validates first and writes whole rows at its end
(`Requested`, `Ended`); between the two other requests run when `Overlap` is TRUE. Modelled:
adding and editing works, with identifiers that are given or made up, and writers, exports,
their completion and removal, JSON exports, acknowledgement files, the change of the
publisher code, the turn of the year.

## Runs

Bounds are chosen so that each hazard fits: two workers, users or jobs are the least that
race; three rows where one must be shared and one not.

| Run | Result | Shows |
|---|---|---|
| `radio_one_recording` | holds | two workers, two masters, two targets, one legacy file, one edit, one crash or late failure: selection and life cycle agree; a claim is exclusive; a verified row has its file, made from the registered bytes; nothing is overwritten; playback changes by activation only; a claimed generation settles unless its worker fails; the service implements `RadioOnAir` |
| `archive_one_current` | holds | splits of the files of three recordings, two stale savers, generation and activation: never two CURRENT files |
| `rights_claims` | holds | two claims of two thirds, or of no known extent, two recordings, two scopes whose periods begin and end, two users: confirmed shares stay within the whole; a decision that changes a status settles it on the rights that are confirmed, and in force on its day, when it commits |
| `catalogue_titles` | holds | two pages, an import, edits, decisions, corrections and the bulk confirmation over three revisions: a value replaces only the title its user saw, and the logs of pages and of imports name the title and the revision they went by |
| `ingest_batches` | holds | two batches, two workers, two files with one ISRC, edits on disk, splits, a death: items are imported once; a file's link changes by a split, or by an import that overwrites one, and in no other way; proposals follow the link; no ISRC is dropped; `applied` is complete |
| `ingest_split` | violated | an import that has read a file's row writes it back after the file was split off |
| `maintenance_jobs` | holds | two jobs, two workers, a recording with files in two folders and one with one: an entry is deleted, replaced or not, only if nothing protected it when the job looked; an active file has an entry unless a user imported the rebuild's own item; a completed cleanup removed all it listed; a plan runs once |
| `calculations` | holds | every computation over its inputs, 140 000 states, see below |
| `registration_serial` | holds | two works, three exports, repeated acknowledgement files, one request at a time: numbers differ, identifiers stay, acknowledgements are recorded once |
| `registration_overlap` | violated | with two users at once the identifier a work was exported under is lost |
| `music_desk` | holds | two editors with track lists, searches and forms, two workers that synchronise or read the file, a period that begins and ends: a status SYNCED becomes false only in the four ways the property names; unseen tracks are spared; what a search found is recorded |
| `desk_track_link` | violated | a track list gives the track of a linked file to another recording |

Largest: `archive_one_current` 3.3 million states, `maintenance_jobs` 2.7,
`ingest_batches` 2.4, `radio_one_recording` and `rights_claims` 1.4, `catalogue_titles` 1.3,
`music_desk` 1.0.

`calculations` takes every form of one to three lines over three writers and nobody whose
shares round differently, with titles, recordings and a second work for forms of up to two; catalogues of two works; statements with and without fees; every
set of a few claims; sequences of digits with one of them changed; files of a few bytes
with every range; tags under all names and separators; batches of files from one or two
folders in every order; and databases of a few entries for each list and filter. Its
properties compare with independent definitions: shares that sum to the whole
(`RegistrationFileSound`), a work that is read back (`TransferKeepsWorks`), amounts
(`PaidInFull`), the claims themselves (`OwnershipSound`), a misread digit
(`MisreadingsCaught`), the bytes asked for (`PlaybackHonest`), a file that is written and
read again (`TagsHonest`), two exports that must agree (`ExportsHonest`), the folders
(`AlbumsTogether`), each filter applied alone (`ListingsHonest`). Where the code does
something else on a stated kind of input, the property excludes that kind, the comment
names it, and it is listed under Findings. 1000 parts stand for the 10^6 of the royalty
rounding: TLC's integers have 32 bits.

`CHECK_DEADLOCK FALSE` where the system may rest: every target used, every bounded
edit made. Symmetry is over workers, users, claims, jobs, batches and new recordings,
which occur in no property by name; `radio_one_recording`, which checks liveness, has none.

Fairness. Only `radio_one_recording` assumes any: `FairSpec` is weak fairness of the generation
steps of a worker that has passed its checks, since a request that runs is run to its end
by the web server. No user action, and not the start of a request, is assumed to happen.
`GenerationSettles` says of itself that it excuses workers that died and failures that could
not be recorded, because the code has no recovery: a worker that dies after the claim leaves
the row GENERATING for good, and the target with it. No document
promises otherwise, so this is a hazard, not a finding. The other services have no
operation that must happen by itself: imports, maintenance and synchronisations end with
their request, or are started again by a user.

## Findings

`PROJECT.json` lists the three disagreements with a document or an assertion that have a
run: an export's identifier that an overlapping save takes away (`ExportedIdKept`),
the track of a radio file that a submitted track list links to another recording
(`TrackLinkAgrees`), and the split of a file that an import overwrites with the row it had read
before (`SplitIsKept`: services.py:1853, against PHASE4_2_1_ISRC_COLLISIONS.md:16-18). The following are consequences of the code that the modelling met;
the first group are behaviours of the models, without a run of their own.

Reachable in the models:

- A failure of the registration after `candidate_asset` was set (mastering.py:824) leaves
  the row GENERATING: the handler's save of FAILED is refused by the row in memory
  (`GenRegisterRaisesLate`; test_mastering.py:535 expects FAILED of a failed registration).
- A crash leaves a generation GENERATING for good, and its target with it.
- The split of the current radio file takes CURRENT along and leaves the old recording's
  selection behind (services.py:2238, `Split`): `CurrentRadioAgrees` holds of the mastering
  service alone.
- A stale synchronisation save reverts an activation, or moves a split file back
  (services.py:2469, `SaveAsset`).
- An import overwrites a title committed after it read the recording; its log names the title
  and the revision it had read (`ImportLogTrue`), so that the log does not have the lost title (services.py:1634; PHASE2_5_IMPLEMENTATION.md:15 promises
  before and after values).
- The bulk confirmation confirms corrections that were never applied, as applied
  (services.py:1251), and rejections made after its cursor was opened.
- A decision on a claim that was corrected meanwhile confirms the superseded claim
  (rights/services.py:84; PHASE3_RIGHTS_IMPLEMENTATION.md:29).
- Correcting the last confirmed local claim, or the beginning or the end of its period, leaves
  the status of the recording as it was until the next decision.
- A rebuild asks for protection without a lock (maintenance.py:530, 540): a note, a claim or an
  assessment recorded between the question and the reset belongs to an entry that is replaced.
  An assessment may come too late for a cleanup as well.
- A rebuild whose item was imported meanwhile by a user deletes the entry without making
  another, and reports it as rebuilt (maintenance.py:534, services.py:1544-1545; `RebuildGone`).
- A file that comes back between a cleanup's look at the disk and its deletion loses the entry
  of its recording and is marked missing though it is there.
- Two requests that create similar recordings at once do not find each other, and no pair is
  recorded (PHASE2_IMPLEMENTATION.md:17: "Overstyring lager en `DuplicateCandidate`"); recordings
  that an ingest or a split creates never have one.
- A mark set while a synchronisation or an import of a governed file runs is lost: the whole row
  is saved without a lock (services.py:1854, 2469; `SyncedStaysWritten` names it).
- Two imports that both find an ISRC unknown create a recording each; the later one
  records a manual separation nobody made (services.py:1671, against the comment at 1574).

Found while reading, outside the models or excluded by a stated condition of a property:

- Ingest. A folder whose files only partly carry barcodes is split over two releases or
  refused, depending on the order; an unnumbered file takes place 1, so that a numbered
  track 1 is refused; a moved folder leaves its old tracks; UPC and EAN are looked up
  separately. `rescan_library_file` ignores what `apply_batch` returns (views.py:1388-1432)
  and may meet MultipleObjectsReturned (1361); the re-reading after a split stands outside
  its `try` (views.py:1495-1517). Ingested credits all have display order 0.
- Tags. A separator in a name, a composer credited twice, and a blank catalogue value beside
  a tag under another name deviate for good (services.py:2330-2371, 1854); the first primary
  artist alone is written. `_asset_path` (services.py:2374-2381) ignores the storage root, so
  that the next synchronisation marks a generated radio file MISSING (2424), and it no longer
  plays.
- Rights. Territories of confirmed claims can be edited in the admin (rights/admin.py:33-38);
  an agreement linked between read and lock is lost; admin views let ValueError
  (`add_view`) and ValidationError (dispute, reject) escape.
- Lists. The two searches look at different names (credits in one, identities in the other);
  the rotation column sorts the stored value, the language its code; "pop ; rock" is not
  found by a genre filter; a non-numeric energy ends in an error; an invalid choice drops
  all filters; links are offered for which the views ask permissions the page did not; a
  home count includes unmanaged recordings its list leaves out; the control lists show 100;
  the workbench's cover looks at files of the recording while ingest links covers to releases;
  "available" ignores `is_current`; the overview warns of several radio files though one plays.
- Forms. A release identifier entered in the workbench marks no file
  (PHASE4_FLAC_INGEST.md:51), a submitted track list suppresses marking
  (GUI_V2_IMPLEMENTATION.md:57), a renamed party and a right that begins mark nothing;
  `sync_file_asset` replaces PENDING by SYNCED; a stale shared row overwrites newer credits;
  a mislinked file makes every later edit that marks it fail.
- DMP. Two exports at once get one number (models.py:2057-2062). An acknowledgement import
  without ISWCs can end in UnboundLocalError (admin.py:2125-2137). A fee of 0 counts as none
  (royalty_calculation.py:380), a default fee above 100 % is accepted (:114); a writer with two controlled lines is summed twice; works
  that share a remote identifier are merged in statements. "IS1" yields WRK (models.py:2024),
  ISR lacks fields and fails on an uncontrolled writer without a role. The bound of
  `check_total` (forms.py:244), collisions of the IPI check digits (validators.py:85-88), an
  imported id equal to a made-up one, recording ids set without a save (models.py:617-619),
  write skew between `Writer.clean` and `WriterInWork.clean`, CSV exports with artists that
  the import refuses (admin.py:1415-1418, data_import.py:75-86), a backup streamed from
  separate queries (api.py:308-322), a playlist link shown by another clock than it is served
  by (admin.py:676).

## Proofs

Each is from the named assumptions on constants alone (distinct sentinel values, values of
the types the code gives them, natural bounds), for any number of rows, users and workers.

| Module | Theorem | States |
|---|---|---|
| `RadioProofs` | `Inductive`, `TypeCorrect` | `[]IInv`, `[]TypeOK` |
| | `ExclusiveClaim`, `CurrentAgrees`, `VerifiedHasCandidate` | `ClaimIsExclusive`, `CurrentRadioAgrees`, `VerifiedCandidate` |
| | `NothingOverwritten`, `PlaybackMoves` | `NeverOverwritten`, `PlaybackMovesOnActivation` |
| | `ImplementsOnAir` | `OnAirRefinement` |
| | `ArchiveInductive`, `ArchiveTypeCorrect` | `[]AInv`, `[]ArchiveTypeOK` |
| | `OneCurrentFile` | `OneCurrentPerRecording` |
| `FlacIngestProofs` | `IngestInvariant`, `TypeCorrect` | `[]IInv`, `[]TypeOK` |
| | `EachOnceAndWhole`, `ProposalsFollowLinks`, `LinksKept`, `EachIsrcAccounted` | `ImportedOnceAndWhole`, `ProposalFollowsLink`, `LinkKept`, `IsrcAccounted` |
| `ArchiveMaintenanceProofs` | `MaintenanceInductive`, `TypeCorrect` | `[]MInv`, `[]TypeOK` |
| | `ExecutedAndClean`, `KnowledgeKept`, `ActiveFilesListed` | `ExecutedOnceAndClean`, `KnowledgeIsKept`, `ActiveFileListed` |
| `RegistryProofs` | `RightsInductive`, `TypeCorrect` | `[]RInv`, `[]TypeOK` |
| | `DecisionsSettle`, `SharesWithinWhole` | `DecisionsSettleStatus`, `ConfirmedWithinWhole` |
| `CatalogueProofs` | `TypeCorrect`, `PagesAreHonest`, `AppliedLogIsTrue`, `ImportLogIsTrue`, `SeenBeforeReplaced` | `[]TypeOK`, `PageIsHonest`, `AppliedLogTrue`, `ImportLogTrue`, `ReplacesWhatWasSeen` |
| `MusicDeskProofs` | `TypeCorrect` | `[]DInv` |
| | `UnseenTracksKept`, `EveryDuplicateRecorded`, `SyncedStays` | `UnseenKept`, `DuplicatesRecorded`, `SyncedStaysWritten` |
| | `RegistrationTypeCorrect` | `[]RegistrationTypeOK`, also with overlapping requests |
| | `RegistrationInvariant` | `[]RegistrationInv` when `~Overlap` |
| | `NumbersNeverShared`, `IdsKept`, `RecordedOnce` | `NumbersUnique`, `ExportedIdKept`, `AcknowledgedOnce`, when `~Overlap` |
| `DeskProofs` | `ListingsTrue` | `ListingsHonest` |
| `CalculationsProofs` | `MisreadingsFound`, `ConclusionsSound`, `RightPartPlayed`, `AmountsPaidInFull` | `MisreadingsCaught`, `OwnershipSound`, `PlaybackHonest`, `PaidInFull` |
| | `AlbumsKeptTogether`, `ExportsTrue`, `RegistrationsSound`, `TagsAgree` | `AlbumsTogether`, `ExportsHonest`, `RegistrationFileSound`, `TagsHonest` |
| | `TransfersKeepWorks` | `TransferKeepsWorks` |

`CatalogueProofs` also holds the lemmas about lists, the assembly of releases and tags that
`DeskProofs` and `CalculationsProofs` use.

Few of the properties are inductive as they stand.

`IInv` of `RadioProofs` strengthens those of `RadioMastering` in four layers, each proved
with the help of those before it: `Typing`; `Control` (the claim is exclusive, a target held
by a claimed worker is empty until the worker places its file, a row about to be discarded
belongs to a target with a foreign file, which no generation can pass); `Lifecycle` (a target
that is not verified has no asset, selection and CURRENT file agree); `Provenance` (masters
of rows are registered, what a worker has encoded is a version of its row's master, the
registered one once it is re-hashed, a verified row has its file). `NeverOverwritten` follows
from `Control`, `PlaybackMovesOnActivation` from `Lifecycle`. The refinement maps
`selMaster`, `curRadio`, `lineage` and the HISTORICAL files to the abstract state;
registering a candidate is `Make`, activation is `PutOnAir`, every other step stutters or is
`Choose`.

`AInv` reuses `Typing` and `Control`, which steps of the archive do not disturb, but not
`Lifecycle`, which a split breaks. In its place: files belong to recordings of the
catalogue, so that the new recording of a split has no other file (`Homes`); a target has no
row before its generation is verified, so that a registration makes a candidate of nothing
(`Registered`); what a job loaded is a registered file (`Copies`). An activation leaves one
current file by its own demotion, a split moves a file to an empty recording, a stale save is
checked by the constraint.

`IInv` of `FlacIngestProofs` says what the rows of a batch promise: each is written once,
its proposal is about a file that was read (`Scanned`); what an import has in memory agrees
with the rows it holds locked, and nobody else has them (`Held`); the row of a file that it has
read is one of an existing file, which has the recording of the import when it comes to commit
(`Viewed`), so that its save leaves the link alone or gives back the one that a split has taken;
the numbers on the batch are those of its rows, so that it is complete only when each is decided
(`Counted`); and a file that is remembered belongs to the recording it was imported to unless it
was split by hand, or its split was overwritten (`Linked`). `IsrcAccounted` has an invariant of
its own beside it (`AInv`): what an import is about to do with the ISRC of its file settles it,
whatever others have committed since it asked, and an ISRC, a pair and a link are never taken
away again (`Growing`).

`MInv` says that the entry a cleanup is about to remove is unprotected but for what came late,
which only its row locks keep true (`Holding`, `Unprotected`, `LateOnly`); that a running job has
one worker (`Running`, `StartedOnce`); that plans name identities already given out, so that no
later entry has one of them (`Plans`); that a cleanup that found nothing to complain of has
removed what it no longer lists (`Progress`); that an item a rebuild has still before it can be
applied, or was imported by a user (`Items`); that the locations a cleanup is about to mark are
all that are active (`Seen`); and that managed music has entries (`ManagedListed`).

`RInv` of `RegistryProofs` says that claims are about recordings (`ClaimsRecorded`), which locks a
user holds at each step (`Held`), and that what was assessed follows from the claims and from the
scopes in force on the day it was assessed until it commits (`Assessed`): under the lock on the
recording no claim about it is inserted, corrected or decided by another, and the day was kept.
`WInv` adds that the sum a confirmation was validated against is still what it was
(`Validated`). The bound is about the sum of a set of shares that one step changes in one
element: that such a sum takes its elements in any order, and that a smaller set has a smaller
sum, is proved by a least counterexample among the subsets of the claims.

`CatalogueProofs` adds that the current revision is in the history with the current title and
that no page shows a later revision, so that a save moves the recording past every page
(`RevisionKnown`); that an import has a title in memory with the revision that had it
(`ReadTogether`); and that only stored assertions have decisions or wait for the bulk
confirmation, so that a new assertion cannot inherit a decision (`ReviewStored`).

`DInv` of `MusicDeskProofs` adds to the typing that every track plays a recording that is there
(`TracksPlay`), that files have recordings and tracks that are (`FilesPlay`, `LinksStay`), and
that the tracks a saving list has locked stay (`LocksHold`), from which
what a late submission leaves alone follows step by step. `SInv` adds what makes SYNCED stay
true: what a job has written, or read of the file, is in the file, unless another one has
written it since (`JobsTruthful`).

`RegistrationInv` holds for one request at a time (`Serial`), as in the run
`registration_serial`; with two at once it is false, which `registration_overlap` shows. What
the request is about to write agrees with what is there (`Pending`): the number of an export is
above every other of its year, an identifier is the one the work has, an acknowledgement is not
yet stored; and the works of a file are there under the identifiers of the file (`Exported`).

The properties of `CalculationsProofs` are about the answer to one request, so that every
other step keeps them and the work is in what the request computes, for inputs of any
size. A check digit is a fold over a sequence: it is followed position by position, and two
readings that differ in one place are shown to differ from there to the end, for the three
algorithms and their characters. `classify_ownership` adds up shares over sets of claims.
A file is read piece by piece, and what was sent up to a piece is the part of the file up to
it, so that a byte range is what `Range` asked for up to the end of the file. The lines of a
statement row are collected in nested folds and keep their form; the part of each is rounded
by at most a half, so it is near the exact part, a sum of near parts is near the sum, to half
a unit for each part, and the exact parts add up to the whole, also when shares are negative.

`RegistrationsSound` uses the same bound. The lines of a registration are put together from
one list per group of writers; each list is cut down to the lines of one kind, and the sum of
what it states is the sum over the lines of the form that were picked out, in any order. The
parts that are rounded are those of the controlled lines, which the bound counts. The trailers
are right because the number of lines of a transaction, of a group and of the file is followed
through the same folds that make them, one transaction at a time.

`AlbumsKeptTogether` follows a batch file by file with an invariant of its own
(`AssemblyInv`): what was placed stays where it is, the place of a recording is the one its
file asked for, and a release that was made remembers its title, its folder and its picture;
`TidyInv` adds, for folders whose files agree, that there is one release for each. `ExportsTrue`
compares two ways through the same tables; it needs that references lead to rows and that forms
store what their kind asks for (`Wellformed`).

`TagsAgree` follows each field of a file from what is written to what is read: the tags that
stand for a field are known, a comment adds a text only to a tag that no catalogue value is
written to, names that are distinct come out of `EachOnce` as they went in, and a normalized
value is normalized to itself. The first artist of a generated file is the first who is no guest
because both lists are the same credits, passed through two tests of which one lets more pass.
`FlacTags` had to be written with `Filtered`, `EachOnce` and `Updated` of `ListFolds`: the prover
knows nothing of `SelectSeq` and of the operators that combine functions.

`ListingsTrue` sorts, joins and cuts pages of any rows first: a list is the only one with its
rows in the order of their keys, pages put together are the list, a row that several joined rows
match is returned once. Then each list and search is the rows its filters ask for, a filter that
is taken away leaves what the others ask for, and a row that is read again on its page is the
same row.

`TransfersKeepWorks` follows a file row by row and line by line. The writers that were imported
are told apart by name and IPI number (`Imports`); each has the data of a writer of the
catalogue, and a general agreement only if that one has it, with its number (`ImportedFrom`).
A later line may take over an agreement but removes none (`StillIn`), so that a line is what it
was read as (`ReadAs`) when the file is at its end and its writer is looked up again: it
registers the same, though the agreement may have been found in the line of another work. When
all writers are identified, no line is refused, and the form that accepted the exported work
accepts the imported one. An agreement without identifiers, or two writers who cannot be told
apart, end the import instead.

Of the constants these theorems assume
that the codes are words over the characters (`CodesAssumption`), that claims have natural
shares (`ClaimsAssumption`), that no two works of a catalogue share an identifier and no two
writers an IPI number, which is unique (base.py:177) (`CataloguesAssumption`), that files have a finite content (`StreamsAssumption`), that a
piece is not empty (`ChunkAssumption`), that the shares of a statement's lines are
integers, as no validator keeps them positive, and the fees entered for them percentages (`StatementsAssumption`), that the
publisher's parts are percentages (`SplitAssumption`), that the rounding divides
hundredths, as the code's 10^6 does (`UnitAssumption`), that works have finitely many titles,
artists and references and lines with integer shares (`WorksAssumption`), that the rows of a
repertoire refer to each other as the forms make them (`RepertoiresAssumption`), that files of
one path are of one recording and known releases have finitely many tracks
(`BatchesAssumption`), and that titles, names and tags are texts, track numbers are numbers, and
comments embed radio tags only, which is what `COMMENT_TXXX_ALIASES` lets through
(`TaggedAssumption`), that filters ask for values there are (`ListingsAssumption`), that a page
has rows and a search some hits (`PageAssumption`, `HitsAssumption`), and that the rows of a list
refer to rows there are, texts and times are comparable, and the credits of an entry come in
their display order (`DesksAssumption`).

The proof of `PaidInFull` corrected the property. It said that no part of an amount has the
opposite sign; the fees of a work or writer cannot exceed 100 % but the form's default fee has
no such limit (royalty_calculation.py:114), and one of 150 % leaves writers a negative net
amount. That is now said only of a default fee that is a percentage; the run has both.

Only model-checked: `GenerationSettles`, as liveness and ENABLED are out of the prover's reach,
and the three properties that are violated (`ExportedIdKept` is proved for `~Overlap`).

## Not modelled

- `media_assets/storage.py`, reading and writing of FLAC containers and audio (mutagen,
  libsndfile): I/O without decisions of their own. What a storage root decides for `_asset_path`
  is described under Findings.
- Deadlocks of row locks taken in different orders (split against activation,
  services.py:2017): PostgreSQL aborts one transaction, without effect.
- Edits of rows in the Django admin beyond the forms named above, by users the services are
  meant to constrain.
- Linking and editing of agreements, parties' and identities' forms, plain edits of descriptive
  fields: one row, one save.
- DMP: deletion of works, columns and character sets of CWR lines, the admin's configuration.
- Migrations, settings, demonstration data, scripts, layout and wording of pages.

---------------------------- MODULE Calculations ----------------------------
(***************************************************************************)
(* The requests that compute an answer from data they only read: the file  *)
(* of a CWR export, the works another installation reads from a CSV        *)
(* export, the rows a royalty statement is split into, the ownership       *)
(* summary of a recording, the check of an identifier, the pages and the   *)
(* stream of a recording of the radio, and the tags of its file.  A        *)
(* request takes an input and holds its answer until it is returned; one   *)
(* that breaks off has none.                                               *)
(***************************************************************************)
EXTENDS CwrFile, CsvTransfer, RoyaltyStatement, OwnershipSummary, CheckDigits, RadioPages, FlacTags, WorkExport, ReleaseAssembly, DeskSearches

CONSTANTS
  Works,       \* lists of works to export, their writers as saved
  Catalogues,  \* lists of works to transfer
  Statements,  \* rows of royalty statements, with the lines of the works they name
  Claims,      \* ownership claims of a recording
  Codes,       \* identifiers, valid ones
  Listings,    \* entries of the music library, with the filters of a request
  Streams,     \* recordings with their files, with the parts the player asks for
  Tagged,      \* what the catalogue says of a recording, with the tags of its file
  Repertoires, \* the works, recordings and releases of the publishing application
  Batches,     \* files to import, with the releases that are known and the pictures of the folders
  Desks        \* what the lists of the user interfaces show, with the requests

VARIABLE call  \* the request that is being answered

Idle == [kind |-> "idle"]

Init == call = Idle

\* A work has lines with shares, finitely many titles and artists, and so many
\* identifiers by which others refer to it.
WorksAssumption ==
  \A works \in Works :
    /\ works \in Seq(Range(works))
    /\ \A w \in Range(works) :
         /\ w.writers \in Seq(Range(w.writers)) /\ w.recordings \in Seq(Range(w.recordings))
         /\ \A l \in Lines(w.writers) : l.share \in Int /\ l.controlled \in BOOLEAN
         /\ IsFiniteSet(AlternateTitles(w)) /\ IsFiniteSet(Artists(w)) /\ w.references \in Nat
ASSUME WorksAssumption

\* CWRExport.create_cwr, of works the form of WorkAdmin accepted.
Export(works, type) ==
  /\ \A i \in DOMAIN works : Accepted(works[i].writers, works[i].modification)
  /\ Renders(works, type)
  /\ call' = [kind |-> "export", type |-> type, works |-> works, file |-> File(works, type)]

\* No two works have one identifier, nor two writers one IPI number.
CataloguesAssumption ==
  /\ Unknown \notin Contributor
  /\ \A works \in Catalogues :
       /\ works \in Seq(Range(works))
       /\ \A w \in Range(works) : w.writers \in Seq(WriterLine)
       /\ \A i, j \in DOMAIN works : works[i].id = works[j].id => i = j
       /\ \A x, y \in Contributors(works) : x.ipi = y.ipi /\ x.ipi # NoValue => x = y
ASSUME CataloguesAssumption

\* WorkAdmin.create_csv here, DataImportAdmin in the other installation.
Transfer(works, ignore) ==
  /\ \A i \in DOMAIN works :
       Accepted([j \in DOMAIN works[i].writers |-> AsForm(works[i].writers[j])],
                works[i].modification)
  /\ call' = [kind |-> "transfer", works |-> works, ignore |-> ignore,
              result |-> Transferred(works, ignore)]

\* The works of a statement have lines with shares, of any sign, and with fees that are
\* percentages if they are entered; the fee that is the default need not be one.
RoyaltyLine == [share : Int, fee : (0..100) \cup {NoFee}, general : (0..100) \cup {NoFee},
                controlled : BOOLEAN]
StatementsAssumption ==
  \A s \in Statements :
    /\ s.works \in Seq(Range(s.works)) /\ \A w \in Range(s.works) : w.lines \in Seq(RoyaltyLine)
    /\ s.row.amount \in Int \cup {NoAmount} /\ s.row.default \in Int
    /\ s.row.right \in {"p", "m", "s"}
ASSUME StatementsAssumption

\* RoyaltyCalculation.process_row.
Distribute(s) ==
  call' = [kind |-> "royalties", row |-> s.row,
           lines |-> LinesOf(s.works, s.row.id),
           answer |-> ProcessRow(LinesOf(s.works, s.row.id), s.row)]

\* The claims of a recording are finitely many, each by somebody, of known extent or not.
ClaimsAssumption ==
  \A claims \in Claims :
    /\ IsFiniteSet(DOMAIN claims)
    /\ \A c \in DOMAIN claims : claims[c].holder # Nobody /\ claims[c].share \in Nat \cup {Unstated}
ASSUME ClaimsAssumption

\* classify_ownership.
Summarise(claims, local) ==
  call' = [kind |-> "ownership", claims |-> claims, local |-> local,
           category |-> Category(claims, local)]

\* CWRFieldValidator: an identifier with one character misread.
Accepts(kind, code) ==
  CASE kind = "ean"  -> ValidEAN(code)
    [] kind = "isni" -> ValidISNI(code)
    [] kind = "dpid" -> ValidDPID(code)
    [] kind = "iswc" -> ValidISWC(code, 1)
    [] kind = "ipi_base" -> ValidISWC(code, 2)
    [] kind = "ipi_name" -> ValidIPIName(code)

\* The values of the characters of an identifier, and the identifiers pass their check.
CodesAssumption ==
  \A c \in Codes :
    /\ c.code \in Seq(CASE c.kind = "isni" -> 0..10 [] c.kind = "dpid" -> 0..35 [] OTHER -> 0..9)
    /\ c.code # <<>> /\ Accepts(c.kind, c.code)
ASSUME CodesAssumption

Check(c, i, digit) ==
  /\ i \in DOMAIN c.code /\ digit # c.code[i]
  /\ call' = [kind |-> "check", of |-> c.kind, at |-> i,
              accepted |-> Accepts(c.kind, c.code),
              misread |-> Accepts(c.kind, [c.code EXCEPT ![i] = digit])]

\* The filters are those of the form, and an entry is assessed as the model allows.
ListingsAssumption ==
  \A l \in Listings :
    /\ l.entry.rotation \in {"", "suitable", "not_suitable", "unassessed"}
    /\ IsFiniteSet(DOMAIN l.entry.files) /\ IsFiniteSet(l.filter.channels)
    /\ l.entry.managed \in BOOLEAN /\ l.filter.all \in BOOLEAN
    /\ l.filter.rotation \subseteq {"suitable", "not_suitable", "unassessed"}
    /\ l.filter.file \subseteq {"available", "missing", "problem", "none"}
    /\ l.filter.managed \subseteq {"yes", "no"} /\ l.filter.follow \subseteq {"yes", "no"}
ASSUME ListingsAssumption

\* music_library: whether an entry is listed, and the row it would be given.
Browse(e, filter) ==
  call' = [kind |-> "browse", filter |-> filter, listed |-> Selects(e, filter), row |-> RowOf(e)]

\* A recording has finitely many files at finitely many places, numbered from one; the
\* one that is chosen is a radio file; bounds of a range are natural numbers, if stated.
StreamsAssumption ==
  \A s \in Streams :
    LET files == s.entry.files
    IN  /\ IsFiniteSet(DOMAIN files) /\ 0 \notin DOMAIN files
        /\ \A i \in DOMAIN files : IsFiniteSet(DOMAIN files[i].locations) /\ files[i].sync # "current"
        /\ s.entry.current \in {0} \cup Radio(s.entry)
        /\ s.size \in Nat /\ s.head \in BOOLEAN
        /\ \/ s.range = <<>>
           \/ LET r == s.range[1]
              IN  s.range = <<r>> /\ {r.first, r.last} \subseteq Nat \cup {NoBound}
ASSUME StreamsAssumption

\* recording_audio, and what the pages say of the recording.
Play(e, size, range, head) ==
  call' = [kind |-> "play", entry |-> e, size |-> size, range |-> range, head |-> head,
           answer |-> Audio(e, size, range, head), page |-> FilesPage(e, 0),
           remark |-> OverviewRemark(e), state |-> FileState(e)]

\* Titles, names and tags are texts.  The track number of a release is a number, and what a
\* comment embeds are radio tags (COMMENT_TXXX_ALIASES).
TaggedAssumption ==
  \A t \in Tagged :
    LET c == t.catalogue
    IN  /\ t.file \in [tags : [Tags -> Seq(Text)],
                       comments : Seq([tag : {"LANGUAGE", "KANAL", "ROTATION"}, text : Text])]
        /\ c \in [title : Text, isrc : Text,
                  credits : Seq([role : STRING, credited : Text, identity : Text, party : Text]),
                  release : Seq([album : Text, track : Text, date : Text, barcode : Text])]
        /\ c.release # <<>> =>
             LET r == c.release[1]
             IN  c.release = <<r>> /\ Normalized("track_number", r.track) = r.track
ASSUME TaggedAssumption

\* sync_file_asset writes the tags, the next import of the file compares them.
Synchronise(c, file) ==
  call' = [kind |-> "sync", catalogue |-> c, file |-> file,
           after |-> WrittenTo(file, c)]

\* generate_candidate, from the recording's current radio file.
Generate(c, file, managed) ==
  call' = [kind |-> "generate", catalogue |-> c, file |-> file, managed |-> managed,
           after |-> GeneratedFrom(c, file, managed)]

\* The tables refer to each other's rows.  A form asks for what its kind of release has
\* (Filed), titles are sequences of words, a writer who is controlled has a society for
\* performing rights (WriterInWork.clean, Writer.clean), and acknowledgements are numbered.
Wellformed(db) ==
  /\ \A r \in DOMAIN db.releases :
       LET release == db.releases[r]
       IN  /\ release.kind \in {"library", "commercial", "playlist"}
           /\ release.library # NoValue <=> release.kind = "library"
           /\ release.cd # NoValue <=> release.kind # "commercial"
           /\ release.date \in Int \cup {NoValue}
           /\ \A track \in Range(release.tracks) : track.recording \in DOMAIN db.recordings
  /\ \A r \in DOMAIN db.recordings :
       LET recording == db.recordings[r]
       IN  recording.work \in DOMAIN db.works /\ recording.title \in Seq(Range(recording.title))
  /\ \A w \in DOMAIN db.works :
       LET work == db.works[w]
       IN  /\ work.title \in Seq(Range(work.title)) /\ IsFiniteSet(work.acks)
           /\ \A a \in work.acks : a.id \in Nat /\ a.date \in Int
           /\ \A a, b \in work.acks : a.id = b.id => a = b
           /\ \A i \in DOMAIN work.writers :
                LET l == work.writers[i]
                IN  l.controlled /\ l.writer # Unknown =>
                      "PR" \in DOMAIN l.writer.societies /\ l.writer.societies["PR"] # NoValue
RepertoiresAssumption == \A db \in Repertoires : Wellformed(db)
ASSUME RepertoiresAssumption

\* create_json of the three admins, BackupViewSet, and what the API serves on a day.
Publish(db, today) ==
  call' = [kind |-> "json", db |-> db, today |-> today, works |-> WorksFile(db),
           libraries |-> ReleasesFile(db, LibraryReleases(db)),
           commercial |-> ReleasesFile(db, CommercialReleases(db)),
           playlists |-> ReleasesFile(db, Playlists(db)),
           backup |-> ReleasesFile(db, DOMAIN db.releases),
           served |-> ServedReleases(db)]

\* The files of a batch have been read; one file is one recording's.  The releases that are
\* known have finitely many tracks.
BatchesAssumption ==
  \A b \in Batches :
    /\ b.files \in Seq(AudioFile) /\ b.releases \in Seq(Release)
    /\ \A r \in DOMAIN b.releases : IsFiniteSet(b.releases[r].tracks)
    /\ \A f \in Range(b.files) : f.folder # "" => f.folder \in DOMAIN b.images
    /\ \A f, g \in Range(b.files) : f.path = g.path => f.recording = g.recording
ASSUME BatchesAssumption

\* apply_batch, as far as releases go.
Assemble(b) ==
  call' = [kind |-> "assemble", batch |-> b,
           after |-> Imported(b.releases, b.images, b.files)]

\* What the lists of the user interfaces show.  A text or a time is a number; what is
\* searched for is in no blank text; of a genre text any two names have a semicolon
\* between them; the credits of an entry come in their display order.
Sought == Seq(SUBSET (Nat \ {0}))
TableOf(rows, columns) == rows \in Seq(Range(rows)) /\ \A row \in Range(rows), c \in columns : row[c] \in Nat
GenreText(text) ==
  /\ text \in Seq(STRING)
  /\ \A m, n \in DOMAIN text :
       m < n /\ {text[m], text[n]} \cap {";", " "} = {} => \E k \in m..n : text[k] = ";"
CreditsOrdered(e) ==
  /\ e.credits \in Seq([id : Nat, order : Nat, role : STRING, credited : Nat, identity : Nat, party : Nat])
  /\ \A m, n \in DOMAIN e.credits : m < n => e.credits[m].order <= e.credits[n].order
  /\ \A m, n \in DOMAIN e.credits : e.credits[m].id = e.credits[n].id => m = n
Shelf(entries) == TableOf(entries, {"title", "code", "updated"}) /\ \A e \in Range(entries) : CreditsOrdered(e)

\* The parameters of the requests; a genre that is asked for is a name, not blank.
GenreNames == STRING \ {"", ";", " "}
LibraryRequest ==
  [q : Sought, genre : Seq(GenreNames), language : Seq(STRING), energy : Seq(Int),
   gender : Choice,
   facts : [rotation : SUBSET STRING, file : SUBSET STRING, channels : SUBSET STRING, all : BOOLEAN,
            managed : SUBSET STRING, follow : SUBSET STRING, collision : BOOLEAN],
   by : {"title", "artist", "isrc", "duration", "energy", "file_status", "managed", "follow_up", "updated"},
   down : BOOLEAN, page : Int, all : BOOLEAN, selected : Nat, fragment : BOOLEAN]
ArchiveRequest ==
  [q : Sought, genre : Seq(STRING), language : STRING, status : STRING, managed : STRING, source : Nat,
   by : STRING, valid : BOOLEAN, page : Int, selected : Nat, closed : BOOLEAN]
ManagedRequest ==
  [q : Sought, status : STRING, source : Nat, ownership : Choice, administration : YesNo,
   distribution : YesNo, rights : BOOLEAN, valid : BOOLEAN, page : Int]

\* Rows refer to each other by their numbers; 0 is no row.
DeskOf(d) ==
  LET db == d.db
  IN  /\ d.of = "library" =>
           /\ d.request \in LibraryRequest /\ Shelf(db.entries) /\ TableOf(db.entries, {"duration", "energy"})
           /\ \A e \in Range(db.entries) : GenreText(e.genre) /\ e.managed \in BOOLEAN
      /\ d.of = "archive" => d.request \in ArchiveRequest /\ Shelf(db.entries)
      /\ d.of = "managed" =>
           /\ d.request \in ManagedRequest /\ Shelf(db.entries)
           /\ \A e \in Range(db.entries) : e.claims \in Seq(Range(e.claims)) /\ e.managed \in BOOLEAN
      /\ d.of = "releases" =>
           /\ d.request.q \in Sought /\ Shelf(db.entries)
           /\ TableOf(db.releases, {"title", "catalogue", "label"})
           /\ \A release \in Range(db.releases) :
                release.numbers \in Seq(Nat) /\ release.tracks \in Seq(DOMAIN db.entries)
      /\ d.of = "search" =>
           /\ d.request.q \in Sought /\ Shelf(db.entries) /\ TableOf(db.releases, {"title"})
           /\ TableOf(db.parties, {"id", "name"}) /\ \A p \in DOMAIN db.parties : db.parties[p].id = p
           /\ TableOf(db.artists, {"name"}) /\ \A a \in Range(db.artists) : a.party \in DOMAIN db.parties
           /\ TableOf(db.agreements, {"title", "reference"})
           /\ \A a \in Range(db.agreements) : a.parties \in Seq(DOMAIN db.parties)
           /\ TableOf(db.files, {"name"})
           /\ \A f \in Range(db.files) :
                /\ f.recording \in {0} \cup DOMAIN db.entries /\ f.release \in {0} \cup DOMAIN db.releases
                /\ f.paths \in Seq(Nat)
      /\ d.of = "tasks" => db.duplicates \in Seq(STRING) /\ db.assertions \in Seq(STRING)
      /\ d.of = "covers" =>
           /\ TableOf(db.releases, {"title"})
           /\ \A release \in Range(db.releases) :
                /\ release.year \in Int /\ release.tracks \in Seq(Nat) /\ TableOf(release.covers, {"name"})
                /\ \A cover \in Range(release.covers) : cover.places \in Seq(Range(cover.places))
DesksAssumption == \A d \in Desks : DeskOf(d)
ASSUME DesksAssumption

\* music_library, library_list, managed_list and the two release_list.
ListLibrary(d) ==
  /\ d.of = "library"
  /\ call' = [kind |-> "library", db |-> d.db, request |-> d.request, answer |-> Library(d.db, d.request)]

ListArchive(d) ==
  /\ d.of = "archive"
  /\ call' = [kind |-> "archive", db |-> d.db, request |-> d.request, answer |-> Archive(d.db, d.request)]

ListManaged(d, today) ==
  /\ d.of = "managed"
  /\ call' = [kind |-> "managed", db |-> d.db, request |-> d.request, today |-> today,
              answer |-> Managed(d.db, d.request, today)]

ListReleases(d, wide) ==
  /\ d.of = "releases"
  /\ call' = [kind |-> "releases", db |-> d.db, wide |-> wide, q |-> d.request.q,
              answer |-> Releases(d.db, d.request.q, wide, d.request.page)]

\* The two recording_search, parties_list, agreement_list and files_list.
Search(d, long) ==
  /\ d.of = "search"
  /\ LET q == d.request.q
     IN  call' = [kind |-> "search", db |-> d.db, q |-> q, long |-> long,
                  credits |-> CreditSearch(d.db, q, long), parties |-> PartySearch(d.db, q, long),
                  people |-> PartiesPage(d.db, q, d.request.page),
                  agreements |-> Agreements(d.db, q, d.request.page), files |-> Files(d.db, q, d.request.page)]

\* home and control, for one user.
ListTasks(d) ==
  /\ d.of = "tasks"
  /\ LET may == d.request.may
     IN  call' = [kind |-> "tasks", may |-> may, tasks |-> Home(d.db, may),
                  control |-> [t \in {"dubletter", "uverifisert", "konflikter", "other"} |->
                                 Control(d.db, may, t)]]

\* music_library, recording_detail and release_detail, with the pictures their pages load.
Picture(d) ==
  /\ d.of = "covers"
  /\ LET db == d.db
     IN  call' = [kind |-> "covers", db |-> db,
                  pages |-> [r \in DOMAIN db.releases |-> CoverOfPage(db.releases[r])],
                  tracks |-> [r \in DOMAIN db.releases |-> CoverOfTrack(db.releases[r])],
                  recording |-> CoverOfRecording(db, 1),
                  served |-> UNION {{<<r, c>> : c \in {k \in DOMAIN db.releases[r].covers :
                                                       CoverServed(db.releases[r].covers[k])}} :
                                    r \in DOMAIN db.releases}]

Return == call # Idle /\ call' = Idle

Request ==
  \/ \E works \in Works, type \in FileTypes : Export(works, type)
  \/ \E works \in Catalogues, ignore \in BOOLEAN : Transfer(works, ignore)
  \/ \E s \in Statements : Distribute(s)
  \/ \E claims \in Claims, local \in {1, Nobody} : Summarise(claims, local)
  \/ \E c \in Codes, i \in 1..18, digit \in 0..9 : Check(c, i, digit)
  \/ \E l \in Listings : Browse(l.entry, l.filter)
  \/ \E s \in Streams : Play(s.entry, s.size, s.range, s.head)
  \/ \E t \in Tagged : Synchronise(t.catalogue, t.file)
  \/ \E t \in Tagged, managed \in BOOLEAN : Generate(t.catalogue, t.file, managed)
  \/ \E db \in Repertoires, today \in 1..2 : Publish(db, today)
  \/ \E b \in Batches : Assemble(b)
  \/ \E d \in Desks : ListLibrary(d) \/ ListArchive(d)
  \/ \E d \in Desks, today \in 1..3 : ListManaged(d, today)
  \/ \E d \in Desks, wide \in BOOLEAN : ListReleases(d, wide)
  \/ \E d \in Desks, long \in BOOLEAN : Search(d, long)
  \/ \E d \in Desks : ListTasks(d) \/ Picture(d)

Next == (call = Idle /\ Request) \/ Return

Spec == Init /\ [][Next]_call

-----------------------------------------------------------------------------
(* Properties.                                                             *)

Magnitude(n) == IF n < 0 THEN - n ELSE n

\* The lines that state shares, in the 2.x and in the 3.x formats.
ShareTypes(version) == IF version \in {"30", "31"} THEN {"SPT", "OPT", "SWT", "OWT"}
                                                   ELSE {"SPU", "OPU", "SWR", "OWR"}
Stated(lines, version, right) ==
  Added([i \in DOMAIN lines |-> IF lines[i].type \in ShareTypes(version) THEN lines[i].part[right] ELSE 0])

\* No writer has two controlled lines.
ControlledOnce(form) ==
  \A i, j \in DOMAIN form :
    form[i].controlled /\ form[j].controlled /\ form[i].writer = form[j].writer => i = j

\* "Sum of relative shares must be (roughly) 100%" survives the split: what the
\* publisher, the co-publisher and the writers of a registered work state adds up to
\* the whole for every right, but for the rounding of every part that is split, and of
\* the whole as it was entered (calculate_publisher_shares, cwrshare).
SharesWhole(c) ==
  c.type # "ISR" =>
    \A t \in DOMAIN c.works :
      LET work    == c.works[t]
          version == Version(c.type)
          lines   == Printed(RegistrationLines(work, version), version)
          split   == {i \in DOMAIN work.writers : work.writers[i].controlled}
      IN  ControlledOnce(work.writers) =>
            \A right \in Rights :
              2 * Magnitude(Stated(lines, version, right) - 10000) <= Cardinality(split) + 4

\* The trailers tell the truth about the file: as many transactions as works, and as
\* many records as lines, though some records leave no line (get_transaction_record).
CountsTrue(file) ==
  LET n == Len(file)
  IN  /\ file[n].record_count = n
      /\ file[n - 1].record_count = n - 2
      /\ file[n - 1].transaction_count =
           Cardinality({i \in 3..(n - 2) : file[i].record_sequence = 0})
      /\ \A i \in 4..(n - 2) :
           \/ file[i].record_sequence = file[i - 1].record_sequence + 1
           \/ /\ file[i].record_sequence = 0
              /\ file[i].transaction_sequence = file[i - 1].transaction_sequence + 1

\* What a line registers: who, in which role, with which share, and the publisher's
\* agreement about it.
Registered(l) ==
  [name |-> Of(l.writer, "name"), ipi |-> Of(l.writer, "ipi"), pro |-> Of(l.writer, "pro"),
   role |-> l.role, share |-> l.share, controlled |-> l.controlled,
   number |-> IF l.controlled THEN AgreementNumber(l) ELSE NoValue]

\* A file is read back by the importer, when its controlled writers have stored
\* identifiers, its writers can be told apart and its recordings name no artists, and the works it makes register
\* what the exported ones did, though general agreements are pieced together from
\* the lines of all of them (get_rows_for_csv, get_writers).
TransferKeepsWorks ==
  call.kind = "transfer" =>
    LET lines(w) == [i \in DOMAIN w.writers |-> Registered(w.writers[i])]
        all == UNION {Range(w.writers) : w \in Range(call.works)}
        identified ==
          /\ \A l \in all : l.controlled => l.writer.ipi # NoValue /\ l.writer.pro # NoValue
          /\ \A l, m \in all : (/\ l.writer # m.writer /\ Unknown \notin {l.writer, m.writer}
                                /\ l.writer.ipi = m.writer.ipi)
                                 => l.writer.name # m.writer.name
        plain == \A w \in Range(call.works) : \A r \in Range(w.recordings) : r.artist = NoValue
        made == call.result.works
    IN  /\ identified /\ (plain \/ call.ignore) => call.result.ok
        /\ call.result.ok =>
             /\ Len(made) = Len(call.works)
             /\ \A i \in DOMAIN made : /\ made[i].id = call.works[i].id
                                       /\ lines(made[i]) = lines(call.works[i])

\* The parts of an amount that are paid, before fees.
Parts(algo, paid) == [i \in DOMAIN paid |-> IF algo = "fee" THEN paid[i].before ELSE paid[i]]

\* The answer to a row of a statement, c, accounts for all of the amount.
FullyPaid(c) ==
  "paid" \in DOMAIN c.answer =>
    LET paid   == c.answer.paid
        amount == c.row.amount
    IN  /\ 2 * Magnitude(Added(Parts(c.row.algo, paid)) - amount * Unit) <= Magnitude(amount) * Len(c.lines)
        /\ c.row.algo = "fee" =>
             \A i \in DOMAIN paid :
               /\ paid[i].net + paid[i].fee = 100 * paid[i].before
               /\ c.row.default \in 0..100 =>
                    Magnitude(paid[i].net) + Magnitude(paid[i].fee) = 100 * Magnitude(paid[i].before)

\* What is received is paid out, to the rounding of each part, and fees come out of the
\* writer's amount, leaving no less than nothing of it, unless a default fee of more than
\* the whole was entered (process_row).
PaidInFull == call.kind = "royalties" => FullyPaid(call)

\* What holders of the set own for the whole world, as far as it is confirmed and stated.
OwnedWorldwide(claims, whom) ==
  MapThenSumSet(LAMBDA c : IF /\ claims[c].holder \in whom /\ claims[c].status = "confirmed"
                              /\ claims[c].world /\ claims[c].share # Unstated
                           THEN claims[c].share ELSE 0, Active(claims))

\* They own the whole, and nobody else says otherwise.
OwnWhole(claims, whom) ==
  /\ \A c \in Active(claims) : /\ claims[c].status = "confirmed" => claims[c].holder \in whom
                               /\ claims[c].status # "disputed"
  /\ OwnedWorldwide(claims, whom) = 100

\* "without inventing missing rights information": the local organisation is the
\* full owner, or not an owner, only when confirmed worldwide claims of the whole say
\* so and no active claim speaks against it (classify_ownership).
OwnershipSound ==
  call.kind = "ownership" =>
    LET claims == call.claims
        active == Active(claims)
    IN  /\ call.category = "full" => call.local # Nobody /\ OwnWhole(claims, {call.local})
        /\ call.category = "not_owned" =>
             OwnWhole(claims, {claims[c].holder : c \in active} \ {call.local})
        /\ (/\ OwnWhole(claims, {call.local})
            /\ \A c \in active : claims[c].world /\ claims[c].share # Unstated)
             => call.category = "full"

\* An EAN, an ISNI or a DPID with one digit misread is never taken for a valid one.
MisreadingsCaught ==
  call.kind = "check" /\ call.of \in {"ean", "isni", "dpid"} =>
    call.accepted /\ ~ call.misread

\* The filters of the listing, written in SQL, select the rows whose labels, written
\* in Python, say what was asked for; nothing shows that a location is missing.
ListMatchesFilters ==
  call.kind = "browse" =>
    LET filter == call.filter
        row    == call.row
        reasons == row.reasons
        asked(chosen, fact) == Cardinality(chosen) = 1 => (chosen = {"yes"} <=> fact)
        shown  ==
          /\ filter.rotation # {} => row.rotation \in filter.rotation
          /\ filter.file # {} => \/ row.file \in filter.file
                                 \/ "problem" \in filter.file /\ "file problem" \in reasons
          /\ filter.channels # {} =>
               Cardinality(row.channels \cap filter.channels)
                 >= (IF filter.all THEN Cardinality(filter.channels) ELSE 1)
          /\ asked(filter.managed, row.managed) /\ asked(filter.follow, reasons # {})
          /\ filter.collision => "collision" \in reasons
    IN  /\ shown => call.listed
        /\ call.listed /\ "missing" \notin filter.file => shown
        /\ (row.file_key = 0) <=> (row.file = "none")
        /\ row.file_key = 2 => row.file = "available"

\* A file of a recording is where it should be, and is there.
AtHand(f) ==
  \E l \in DOMAIN f.locations :
    /\ f.locations[l].status = "active" /\ f.locations[l].current
    /\ f.locations[l].path = "file" /\ f.locations[l].storage \in {"nas", "local"}

\* The bytes a request asks for, of a file of so many.
AskedFor(range, size) ==
  {b \in 0..(size - 1) :
     \/ range = <<>>
     \/ LET r == range[1]
        IN  IF r.first # NoBound THEN b >= r.first /\ (r.last # NoBound => b <= r.last)
                                 ELSE r.last # NoBound /\ b + r.last >= size}

\* The answer is about the file the page marks, which has no rival and is at hand.
RightFile(answer, entry, marked) ==
  /\ marked = {answer.asset} /\ AtHand(entry.files[answer.asset])
  /\ entry.current \in {0, answer.asset}
  /\ entry.current = 0 =>
       \A j \in DOMAIN entry.files \ {answer.asset} :
         /\ entry.files[j].radio /\ entry.files[j].life \notin {"candidate", "historical"}
         /\ entry.files[j].sync \notin {"missing", "failed"}
         => ~ AtHand(entry.files[j])

\* An answer of the player, c, agrees with what the pages say.
HonestPlay(c) ==
  LET answer == c.answer
      files  == c.entry.files
      marked == {i \in DOMAIN files : c.page.status[i] = "current"}
      wanted == AskedFor(c.range, c.size)
  IN  /\ answer.code \in {200, 206, 416} =>
           /\ RightFile(answer, c.entry, marked)
           /\ c.remark \notin {"no file", "unavailable"}
           /\ c.state \in {"verified", "unchecked"}
      /\ answer.code \in {200, 206} =>
           /\ {answer.from + n : n \in 0..(answer.length - 1)} = wanted
           /\ ~c.head => Added(answer.body) = answer.length
      /\ answer.code = 416 => c.range # <<>> /\ wanted = {}
      /\ answer.code \in {404, 409} => \A i \in marked : ~ AtHand(files[i])

\* "Stream the one unambiguous current radio-FLAC for a Recording": what is streamed
\* is the file the files page marks, which no page calls missing, and the bytes are
\* those that were asked for; it is refused only when the page marks none, its file
\* is gone, or no byte was asked for.
PlaybackHonest == call.kind = "play" => HonestPlay(call)

\* A file that was synchronised does not deviate from the catalogue it was written
\* from when it is read again, though a tag has other names that are left alone, and
\* its radio tags say what they said (sync_file_asset, _catalogue_metadata_differs).
\* A separator in a name, a composer credited twice, and a tag under another name
\* where the catalogue has nothing make it deviate for good.
TagsSettle ==
  call.kind = "sync" =>
    LET c      == call.catalogue
        before == Parsed(call.file)
        read   == Parsed(call.after)
        kept(field) == \E tag \in Range(Tail(Aliases[field])) : call.file.tags[tag] # <<>>
        blank(field) ==
          CASE field = "track_number" -> c.release[1].track = <<>>
            [] field = "date" -> c.release[1].date = <<>>
            [] field = "barcode" -> c.release[1].barcode = <<>>
        shadowed == c.release # <<>> /\ \E f \in {"track_number", "date", "barcode"} : blank(f) /\ kept(f)
    IN  /\ PlainCredits(c) /\ ~shadowed => ~Differs(c, read)
        /\ \A field \in RadioFields : read[field] = before[field]

\* "Den genererte filen får [...] radiometadata fra gjeldende radio-FLAC": a generated
\* file is read as the file it replaces, whatever names and spellings that used, and
\* as the catalogue when the music is managed; invalid values alone are lost.
\* Artists credited by an identity, or a guest credited first, are not settled.
CandidateKeepsTags ==
  call.kind = "generate" =>
    LET c      == call.catalogue
        before == Parsed(call.file)
        read   == Parsed(call.after)
        artists == CreditsOf(c, {"primary", "featured"})
    IN  /\ \A field \in RadioFields \ Invalid(call.file) : read[field] = before[field]
        /\ ~call.managed => \A field \in Fields \ RadioFields :
             read[field] = IF field = "title" /\ before.title = <<>> THEN c.title ELSE before[field]
        /\ (/\ call.managed /\ PlainCredits(c)
            /\ \A i \in DOMAIN c.credits : DisplayCredit(c.credits[i]) = TagName(c.credits[i])
            /\ artists # <<>> => artists[1].role = "primary")
             => ~Differs([c EXCEPT !.release = <<>>], read)

\* One table, three forms, three managers and two exports of the same tracks: a release
\* is in the file of the form it was entered in and in no other; the works' file lists
\* exactly the tracks the releases' files list, and both say the same of the recording
\* and of its work; a playlist is served under its secret alone, to whomever the admin
\* site shows the link, and as long.
Agreeing(c) ==
  LET db   == c.db
      ids(file) == {r.facts.id : r \in file}
      kind(k) == {r \in DOMAIN db.releases : db.releases[r].kind = k}
      contained == UNION {w.recordings : w \in c.works}
      byWork == UNION {{<<t.release.id, t.cut_number, r.facts.id>> : t \in r.tracks} : r \in contained}
      byRelease == UNION {{<<e.facts.id, t.cut_number, t.recording.facts.id>> : t \in e.tracks} : e \in c.backup}
      onRelease == UNION {{t.recording : t \in e.tracks} : e \in c.backup}
      secrets == {db.releases[r].cd : r \in DOMAIN db.releases}
  IN  /\ ids(c.libraries) = kind("library") /\ ids(c.commercial) = kind("commercial")
      /\ ids(c.playlists) = kind("playlist")
      /\ c.backup = c.libraries \cup c.commercial \cup c.playlists
      /\ byWork = byRelease
      /\ {r.facts : r \in onRelease} \subseteq {r.facts : r \in contained}
      /\ \A r \in onRelease : \A w \in r.works :
           \E v \in c.works : w = v.facts /\ r.facts \in {q.facts : q \in v.recordings}
      /\ c.served \cap kind("playlist") = {}
      /\ \A s \in secrets :
           LET links == {r \in kind("playlist") : db.releases[r].cd = s /\ LinkShown(db.releases[r], c.today)}
           IN  /\ ServedPlaylists(db, s, c.today) = links
               /\ ShownPlaylists(db, s, c.today) = links

\* A work is known to a society by the newest identifier the society sent, once; the
\* title a recording is shown under is the one the exports give it; a controlled line
\* names the performing rights society of each side.
CompleteIn(db, w) ==
  LET work == db.works[w.facts.id]
      refs == w.facts.cross_references
      sent(s) == {a \in work.acks : a.society = s /\ a.remote # NoValue}
      has(p) == \E a \in p.affiliations : a[1] = "PR"
  IN  /\ {r.organization : r \in Range(refs)} = {a.society : a \in {b \in work.acks : b.remote # NoValue}}
      /\ \A i, j \in DOMAIN refs : refs[i].organization = refs[j].organization => i = j
      /\ \A r \in Range(refs) : \E a \in sent(r.organization) :
           /\ a.remote = r.identifier
           /\ \A b \in sent(r.organization) : ~ Newer(b, a)
      /\ \A r \in w.recordings :
           ShownTitle(work, db.recordings[r.facts.id])
             = IF db.recordings[r.facts.id].version # <<>> THEN r.facts.version_title ELSE r.facts.recording_title
      /\ \A l \in Range(w.facts.writers) : l.controlled =>
           \A p \in l.publishers, person \in l.writer : has(p.publisher) /\ has(person)

\* Files that say the same of their album are put on one release, whatever was imported
\* between them; a folder with a cover is never split over two; every file's recording has
\* the place on the release that was recorded, also when the file is imported again; and
\* tidy folders are imported whole, each on a release of its own (apply_batch).  A folder
\* whose files only partly carry numbers can be split, or refused, depending on the order.
AlbumsTogether == call.kind = "assemble" => Assembly(call.batch, call.after)

\* A list, or the rows of it, on all its pages; answer(p) is the answer for the page p.
Through(page(_), pages) == Concat([p \in 1..pages |-> page(p)])
AllRows(answer(_), of) == Concat([p \in 1..answer(1).pages |-> answer(p)[of]])
Once(list) == \A m, n \in DOMAIN list : list[m] = list[n] => m = n
Ordered(values, down) ==
  \A m \in 1..(Len(values) - 1) : IF down THEN values[m] >= values[m + 1] ELSE values[m] <= values[m + 1]

\* The parts of the genre are separated by a semicolon, or by one and a blank.
Canonical(text) ==
  /\ <<" ", ";">> \notin SubSeqs(text) /\ <<" ", " ">> \notin SubSeqs(text)
  /\ text # <<>> => text[1] # " " /\ text[Len(text)] # " "

\* The list says what was asked for: without[c] is what is listed without the filter c, and
\* only[c] what is listed with no other.
LibraryListed(db, r, answer, list, without, only) ==
  LET chips == DOMAIN only
      passed(cs) == {i \in DOMAIN db.entries : \A c \in cs : i \in only[c]}
  IN  /\ Once(list) /\ ToSet(list) = passed(chips)
      /\ \A c \in chips : without[c] = passed(chips \ {c})
      /\ "genre" \in chips => \A i \in DOMAIN db.entries :
           LET genre == LibraryRow(db.entries[i]).genre
               has == ToSet(r.genre) \cap ObservedGenres(genre) # {}
           IN  /\ i \in only["genre"] => has
               /\ has /\ Canonical(genre) => i \in only["genre"]
      /\ r.fragment => IF answer.code = 200 THEN answer.list = <<r.selected>>
                       ELSE r.selected \notin ToSet(list)

\* The column of a row that the list is ordered by, as the reader sees it.
ShownBy(e, row, by) ==
  CASE by = "artist" -> IF row.artists = <<>> THEN Absent ELSE row.artists[1]
    [] by = "isrc" -> IF row.code = 0 THEN Absent ELSE row.code
    [] by = "energy" -> IF e.energy = 0 THEN Absent ELSE e.energy
    [] by = "file_status" -> row.facts.file_key
    [] by = "managed" -> IF row.facts.managed THEN 1 ELSE 0
    [] by = "follow_up" -> IF row.facts.reasons # {} THEN 1 ELSE 0
    [] OTHER -> e[by]

LibraryOrdered(db, r, list) ==
  LET shown == [n \in DOMAIN list |-> ShownBy(db.entries[list[n]], LibraryRow(db.entries[list[n]]), r.by)]
      credited(e) == \A m, n \in DOMAIN e.credits : e.credits[m].order = e.credits[n].order => m = n
  IN  FormValid(db, r) /\ (\A i \in DOMAIN db.entries : credited(db.entries[i])) => Ordered(shown, r.down)

\* The filters, each shown with a link that drops it, are exactly those that are applied:
\* through all pages an entry is listed once if it passes each of them alone, in the order
\* of the column the reader sees, absent ones last; a genre filter finds what has the genre;
\* a row reloaded alone is one of the list (music_library).
LibraryHonest ==
  call.kind = "library" /\ call.answer.code # 500 =>
    LET db == call.db
        r == call.request
        chips == call.answer.chips
        shown(p) == Library(db, [r EXCEPT !.fragment = FALSE, !.page = p])
        listed(request) == LET times == LibraryTimes(db, request)
                           IN  {i \in DOMAIN times : times[i] > 0}
        alone(c) == FoldLeft(WithoutChip, r, SetToSeq(chips \ {c}))
        holds(list) == /\ LibraryListed(db, r, call.answer, list, [c \in chips |-> listed(WithoutChip(r, c))],
                                        [c \in chips |-> listed(alone(c))])
                       /\ LibraryOrdered(db, r, list)
    IN  holds(AllRows(shown, "list"))

ArchiveListed(db, r, list) ==
  LET says(e) == {e.title, e.code} \cup UNION {{c.party, c.identity} : c \in ToSet(e.credits)}
      shown(e) == IF r.valid /\ r.by = "recent" THEN e.updated ELSE e.title
      alone == r.genre = <<>> /\ r.language = "" /\ r.status = "" /\ r.managed = "" /\ r.source = 0
  IN  /\ Once(list)
      /\ r.q # <<>> /\ r.valid => \A i \in DOMAIN db.entries :
           LET found == says(db.entries[i]) \cap r.q[1] # {}
           IN  /\ i \in ToSet(list) => found
               /\ found /\ alone => i \in ToSet(list)
      /\ Ordered([n \in DOMAIN list |-> shown(db.entries[list[n]])], r.valid /\ r.by \in {"recent", "-title"})

\* The lists of the workbench search related tables: what is found is listed once however
\* often it matches, through all pages, in order; and the number of tracks of a release,
\* and of its recordings by who owns them, is that of the release whatever was searched.
WorkbenchHonest ==
  /\ call.kind = "archive" =>
       ArchiveListed(call.db, call.request,
                     Through(LAMBDA p : Archive(call.db, [call.request EXCEPT !.page = p]).list, call.answer.pages))
  /\ call.kind = "releases" =>
       LET db == call.db
       IN  /\ Once(Through(LAMBDA p : Releases(db, call.q, call.wide, p).list, call.answer.pages))
           /\ \A n \in DOMAIN call.answer.list :
                LET release == db.releases[call.answer.list[n]]
                    s == call.answer.rights[n]
                IN  /\ call.answer.totals[n] = Len(release.tracks)
                    /\ s.full + s.partial + s.not_owned + s.unresolved + s.disputed
                         = Cardinality(ToSet(release.tracks))

\* A search shows the first of the rows that say what was searched for, each once; a
\* recording found by two people, or a file by two of its places, is one row; the two
\* lists of the page of people find the same; and a task of the start page is listed, by
\* the tab its link leads to, as often as it was counted, up to what the tab shows.
SearchesHonest ==
  /\ call.kind = "search" =>
       LET db == call.db
           says(words) == call.q = <<>> \/ words \cap call.q[1] # {}
           credit(e, columns) == UNION {{c[x] : x \in columns} : c \in ToSet(e.credits)}
           foremost(list, rows, found(_), title(_)) ==
             LET all == {i \in DOMAIN rows : found(rows[i])}
             IN  /\ Once(list) /\ ToSet(list) \subseteq all /\ Len(list) = Min({Hits, Cardinality(all)})
                 /\ \A i \in ToSet(list), j \in all \ ToSet(list) : title(rows[i]) <= title(rows[j])
           people == Through(LAMBDA p : PartiesPage(db, call.q, p).parties, call.people.pages)
           files == Through(LAMBDA p : Files(db, call.q, p).list, call.files.pages)
           agreements == Through(LAMBDA p : Agreements(db, call.q, p).list, call.agreements.pages)
       IN  /\ call.long =>
                /\ foremost(call.credits, db.entries,
                            LAMBDA e : says({e.title, e.code} \cup credit(e, {"credited"})), LAMBDA e : e.title)
                /\ foremost(call.parties, db.entries,
                            LAMBDA e : says({e.title, e.code} \cup credit(e, {"party", "identity"})),
                            LAMBDA e : e.title)
           /\ Once(people) /\ Once(files) /\ Once(agreements)
           /\ foremost(call.people.artists, db.artists,
                       LAMBDA a : says({a.name, PartyName(db, a.party)}), LAMBDA a : a.name)
           /\ \A a \in ToSet(call.people.artists) : db.artists[a].party \in ToSet(people)
           /\ \A f \in DOMAIN db.files :
                f \in ToSet(files) <=>
                  says({db.files[f].name} \cup ToSet(db.files[f].paths)
                         \cup {TitleOf(db.entries, db.files[f].recording), TitleOf(db.releases, db.files[f].release)})
  /\ call.kind = "tasks" =>
       \A t \in call.tasks : t.tab # "managed" =>
         /\ call.control[t.tab].code = 200
         /\ LET shown == Tab(call.control[t.tab], t.tab)
            IN  /\ Once(shown) /\ Len(shown) = Min({Hits, t.count})
                /\ "assertions" \in call.may =>
                     ToSet(call.control["konflikter"].assertions) \cap ToSet(call.control["uverifisert"].assertions) = {}

\* A release has one cover: its own page, in SQL, and the pages of its recordings, in
\* Python, show the same file; a recording shows that of its earliest release that has
\* one; and what is shown can be loaded, if what is at the file's places can be read.
CoversAgree ==
  call.kind = "covers" =>
    LET releases == call.db.releases
        on == {r \in DOMAIN releases : 1 \in ToSet(releases[r].tracks)}
        pictured == {r \in on : call.pages[r] # 0}
        readable(r, c) == \A p \in ToSet(releases[r].covers[c].places) : p.reads
        shown == {<<r, call.pages[r]>> : r \in {x \in DOMAIN releases : call.pages[x] # 0}}
    IN  /\ call.pages = call.tracks
        /\ call.recording = <<>> <=> pictured = {}
        /\ call.recording # <<>> =>
             /\ call.recording[1] \in pictured
             /\ \A r \in pictured : releases[call.recording[1]].year <= releases[r].year
        /\ \A s \in shown : readable(s[1], s[2]) => s \in call.served

\* The filters about rights, applied in SQL one after the other, leave the rows whose columns,
\* computed in Python from the same claims, say what was asked for, and all of them; without a
\* local organisation nobody administers or distributes anything locally (managed_list).
ManagedListAgrees ==
  call.kind = "managed" /\ call.request.valid =>
    LET r == call.request
        plain == [r EXCEPT !.ownership = "", !.administration = "", !.distribution = ""]
        asking(p) == Managed(call.db, [r EXCEPT !.page = p], call.today)
        unasked(p) == Managed(call.db, [plain EXCEPT !.page = p], call.today)
        answered(answer, fact) == answer = "" \/ (answer = "yes" <=> fact)
        asked(row) == /\ r.ownership \in {"", row.ownership}
                      /\ answered(r.administration, row.administration)
                      /\ answered(r.distribution, row.distribution)
        expected(list, rows) == {list[n] : n \in {m \in DOMAIN list : ~r.rights \/ asked(rows[m])}}
        agree(list, all, rows) == Once(list) /\ ToSet(list) = expected(all, rows)
    IN  agree(AllRows(asking, "list"), AllRows(unasked, "list"), AllRows(unasked, "rows"))

-----------------------------------------------------------------------------
(* The same, by what a user relies on.                                      *)

\* A registration file states the whole of every work's shares, in the number of lines
\* and transactions that its trailers count.
RegistrationFileSound == call.kind = "export" => SharesWhole(call) /\ CountsTrue(call.file)

\* A file and the catalogue agree after the tags were written, whichever way they went:
\* synchronised into the file, or carried over to a generated one.
TagsHonest == TagsSettle /\ CandidateKeepsTags

\* What is exported of a release, a recording or a work is the same from every side, and
\* complete.
ExportsHonest ==
  call.kind = "json" => Agreeing(call) /\ \A w \in call.works : CompleteIn(call.db, w)

\* A list shows the rows it says it shows, once, in its order, through all its pages, with
\* columns and pictures that agree with the filters and with the other pages, though the
\* rows are chosen in SQL and their columns are computed in Python.
ListingsHonest ==
  /\ ListMatchesFilters /\ LibraryHonest /\ WorkbenchHonest
  /\ ManagedListAgrees /\ SearchesHonest /\ CoversAgree

=============================================================================

----------------------------- MODULE DeskLists ------------------------------
(***************************************************************************)
(* The lists of the two user interfaces: the music library and its filters *)
(* in the new one; the archive, the managed music, the releases and the    *)
(* tasks in the workbench.  A list is a query over a row and the rows      *)
(* related to it, put in order and cut into pages, whose columns are then  *)
(* computed once more, in Python, for the rows shown.                      *)
(*                                                                         *)
(* A text is a number, its place in the order of texts, 0 when it is       *)
(* blank; a search is the set of the texts that contain its term, as a     *)
(* sequence that is empty when no term was entered.  An entry is one of    *)
(* RadioPages with what the lists say besides.                             *)
(***************************************************************************)
EXTENDS OwnershipSummary, RadioPages, ListFolds

CONSTANTS
  PageRows,  \* rows of a page: 30, 40 or 100, by the list
  Absent     \* the key of a row that has none: behind all others (PostgreSQL)

ASSUME PageAssumption == PageRows \in Nat \ {0} /\ Absent \in Int

-----------------------------------------------------------------------------
(* Queries.                                                                *)

\* The rows of a query over related tables: one of each table, none of an empty one.
Joined(tables) ==
  LET any == {0} \cup UNION {DOMAIN tables[t] : t \in DOMAIN tables}
  IN  {row \in [DOMAIN tables -> any] :
         \A t \in DOMAIN tables : IF tables[t] = <<>> THEN row[t] = 0 ELSE row[t] \in DOMAIN tables[t]}

\* The joined rows that contain what is searched for, in a column of the table itself
\* or of one related to it; a list nobody searches is not joined.
Matching(own, tables, q) ==
  IF q = <<>> THEN {<<>>}
  ELSE {row \in Joined(tables) :
          (own \cup UNION {tables[t][row[t]] : t \in {u \in DOMAIN tables : row[u] # 0}}) \cap q[1] # {}}

\* SELECT DISTINCT.
Occurrences(rows) == IF rows = {} THEN 0 ELSE 1

Precedes(k, l) == \E i \in DOMAIN k : k[i] < l[i] /\ \A j \in 1..(i - 1) : k[j] = l[j]

\* The rows, each after those with smaller keys.
Before(keys, i) == {j \in DOMAIN keys : Precedes(keys[j], keys[i])}
InKeyOrder(keys) ==
  [n \in 1..Cardinality(DOMAIN keys) |->
     CHOOSE i \in DOMAIN keys : Cardinality(Before(keys, i)) = n - 1]

\* The rows a query returns, in the order of their keys.
Returned(keys, times) ==
  LET order == InKeyOrder(keys)
  IN  Concat([n \in DOMAIN order |-> [m \in 1..times[order[n]] |-> order[n]]])

\* Paginator.get_page: what lies outside of the list is its last page.
Pages(list, size) == IF list = <<>> THEN 1 ELSE (Len(list) + size - 1) \div size
PageOf(list, size, asked) ==
  LET page == IF asked \in 1..Pages(list, size) THEN asked ELSE Pages(list, size)
  IN  SubSeq(list, (page - 1) * size + 1, Min({page * size, Len(list)}))

\* The row asked for when it is on the page, or the first one.
Opened(page, asked) ==
  IF asked \in ToSet(page) THEN asked ELSE IF page = <<>> THEN 0 ELSE page[1]

-----------------------------------------------------------------------------
(* Texts of a recording.                                                   *)

\* RecordingContribution.display_credit.
CreditName(c) ==
  IF c.credited # 0 THEN c.credited ELSE IF c.identity # 0 THEN c.identity ELSE c.party

Performs(c) == c.role \in {"primary", "featured"}

\* _artist_text: each name once, in the order the credits are fetched in, that of their
\* display order.
ArtistText(e) ==
  LET performers == Filtered(e.credits, Performs)
  IN  EachOnce([i \in DOMAIN performers |-> CreditName(performers[i])])

\* The credits in the order of the model: (display_order, id).
InOrder(e) ==
  LET order == InKeyOrder([n \in DOMAIN e.credits |-> <<e.credits[n].order, e.credits[n].id>>])
  IN  [n \in DOMAIN order |-> e.credits[order[n]]]

\* The credit the list is ordered by, in SQL.
SortArtist(e) ==
  LET performers == Filtered(InOrder(e), Performs)
  IN  IF performers = <<>> THEN Absent ELSE CreditName(performers[1])

\* _primary_credit: the first primary one, or the first one.
PrimaryCredit(e) ==
  LET primary == Filtered(InOrder(e), LAMBDA c : c.role = "primary")
  IN  IF primary # <<>> THEN CreditName(primary[1])
      ELSE IF e.credits # <<>> THEN CreditName(InOrder(e)[1]) ELSE 0

Code(e) == IF e.code = 0 THEN <<>> ELSE <<{e.code}>>
CreditTable(e, columns) == [i \in DOMAIN e.credits |-> {e.credits[i][c] : c \in columns}]

-----------------------------------------------------------------------------
(* The music library.  A genre is a sequence of names, separators and       *)
(* blanks; a parameter that may be repeated is a sequence.                  *)

\* observed_genres: the parts of a text between its semicolons.
ObservedGenres(text) == ToSet(text) \ {";", " "}

\* The patterns of the genre filter.
HasGenre(text, g) ==
  \/ text = <<g>> \/ IsPrefix(<<g, ";">>, text)
  \/ IsSuffix(<<";", " ", g>>, text) \/ IsSuffix(<<";", g>>, text)
  \/ <<";", " ", g, ";">> \in SubSeqs(text) \/ <<";", g, ";">> \in SubSeqs(text)

NotGiven == ""  \* a parameter that is not given

\* A field of the form takes the last of its values; energy is a number from 1 to 5, -1
\* stands for what is not a number.
LastOf(values, blank) == IF values = <<>> THEN blank ELSE values[Len(values)]

\* MusicLibraryFilterForm: the choices are those of the library.
FormValid(db, r) ==
  /\ LastOf(r.genre, NotGiven) \in {NotGiven} \cup UNION {ObservedGenres(e.genre) : e \in ToSet(db.entries)}
  /\ LastOf(r.language, NotGiven) \in {NotGiven} \cup {e.language : e \in ToSet(db.entries)}
  /\ LastOf(r.energy, 0) \in 0..5
  /\ r.facts.channels \subseteq db.channels

\* music_library: the entry has what was asked for, besides the facts of RadioPages.
LibrarySelects(e, r) ==
  /\ Selects(e, r.facts)
  /\ ToSet(r.genre) # {} => \E g \in ToSet(r.genre) : HasGenre(e.genre, g)
  /\ ToSet(r.language) # {} => e.language \in ToSet(r.language)
  /\ ToSet(r.energy) # {} => e.energy \in ToSet(r.energy)
  /\ r.gender # NotGiven => e.gender = r.gender

\* The keys of the orders offered; the columns ordered by as stored are as duration is.
LibraryKey(e, by) ==
  CASE by = "artist"      -> SortArtist(e)
    [] by = "isrc"        -> IF e.code = 0 THEN Absent ELSE e.code
    [] by = "energy"      -> IF e.energy = 0 THEN Absent ELSE e.energy
    [] by = "file_status" -> SortFileStatus(e)
    [] by = "managed"     -> IF e.managed THEN 1 ELSE 0
    [] by = "follow_up"   -> IF NeedsFollowUp(e) THEN 1 ELSE 0
    [] by = "duration"    -> e.duration
    [] by = "updated"     -> e.updated

\* Descending, what is absent comes first.
LibraryKeys(db, by, down) ==
  [i \in DOMAIN db.entries |->
     LET e == db.entries[i]
         signed(k) == IF down THEN 0 - k ELSE k
     IN  IF by = "title" THEN <<signed(e.title), i>>
         ELSE IF by = "updated" THEN <<signed(e.updated), i>>
         ELSE <<signed(LibraryKey(e, by)), e.title, i>>]

\* A form that is not valid filters nothing.
LibraryTimes(db, r) ==
  [i \in DOMAIN db.entries |->
     LET e == db.entries[i]
     IN  IF ~FormValid(db, r) THEN 1
         ELSE IF ~LibrarySelects(e, r) THEN 0
         ELSE Occurrences(Matching({e.title}, <<CreditTable(e, {"credited"}), Code(e)>>, r.q))]

\* The filters that are shown, those of target audiences as those of channels, each with a link to the list without it.
Chips(db, r) ==
  IF ~FormValid(db, r) THEN {}
  ELSE {c \in {"q", "genre", "language", "energy", "gender", "rotation", "file", "managed",
               "follow", "channels", "collision"} :
          \/ c = "q" /\ r.q # <<>>
          \/ c = "gender" /\ r.gender # NotGiven
          \/ c \in {"genre", "language", "energy"} /\ ToSet(r[c]) # {}
          \/ c = "collision" /\ r.facts.collision
          \/ c \in DOMAIN r.facts \ {"collision"} /\ r.facts[c] # {}}

\* _query_without: the request without a filter, from the first page on.
WithoutChip(r, c) ==
  LET first == [r EXCEPT !.page = 1]
  IN  CASE c \in {"q", "genre", "language", "energy"} -> [first EXCEPT ![c] = <<>>]
        [] c = "gender"    -> [first EXCEPT !.gender = NotGiven]
        [] c = "collision" -> [first EXCEPT !.facts.collision = FALSE]
        [] c = "channels"  -> [first EXCEPT !.facts.channels = {}, !.facts.all = FALSE]
        [] OTHER           -> [first EXCEPT !.facts[c] = {}]

\* The columns of a row that RowOf leaves out.
LibraryRow(e) == [artists |-> ArtistText(e), code |-> e.code, genre |-> e.genre, facts |-> RowOf(e)]

\* The page of a list, or all of it; an energy that is not a number ends the request,
\* unless it is the last of its values.
LibraryPage(db, r, valid, list) ==
  LET size == IF valid /\ r.all THEN Max({Len(list), 1}) ELSE PageRows
      page == PageOf(list, size, r.page)
  IN  [code |-> IF valid /\ \E n \in ToSet(r.energy) : n < 0 THEN 500
                ELSE IF r.fragment /\ page = <<>> THEN 404 ELSE 200,
       list |-> page, pages |-> Pages(list, size), selected |-> Opened(page, r.selected),
       chips |-> Chips(db, r), rows |-> [n \in DOMAIN page |-> LibraryRow(db.entries[page[n]])]]

\* music_library; a fragment is the row asked for, if it is listed.
Library(db, r) ==
  LET valid == FormValid(db, r)
      by    == IF valid THEN r.by ELSE "title"
  IN  LibraryPage(db, r, valid, Filtered(Returned(LibraryKeys(db, by, valid /\ r.down), LibraryTimes(db, r)),
                                         LAMBDA i : r.fragment => i = r.selected))

-----------------------------------------------------------------------------
(* The workbench: the archive, the managed music and the releases.          *)

\* library_list: a search, five filters and three orders, unless a choice is unknown.
ArchiveTimes(db, r) ==
  [i \in DOMAIN db.entries |->
     LET e == db.entries[i]
         asked == /\ r.genre # <<>> => e.genre = r.genre
                  /\ r.language # "" => e.language = r.language
                  /\ r.status # "" => e.status = r.status
                  /\ Answered({r.managed} \ {""}, e.managed)
                  /\ r.source # 0 => r.source \in e.sources
     IN  IF ~r.valid THEN 1 ELSE IF ~asked THEN 0
         ELSE Occurrences(Matching({e.title}, <<CreditTable(e, {"party", "identity"}), Code(e)>>, r.q))]

\* The file of the panel beside the list: a radio file before any other.
PanelFile(e) ==
  IF Radio(e) # {} THEN Min(Radio(e)) ELSE IF e.files # <<>> THEN 1 ELSE 0

ArchivePage(db, r, list) ==
  LET page == PageOf(list, PageRows, r.page)
      open == IF r.closed THEN 0 ELSE Opened(page, r.selected)
  IN  [list |-> page, pages |-> Pages(list, PageRows), selected |-> open,
       file |-> IF open = 0 THEN 0 ELSE PanelFile(db.entries[open]),
       rows |-> [n \in DOMAIN page |-> LET e == db.entries[page[n]]
                                       IN  [credit |-> PrimaryCredit(e), state |-> FileState(e)]]]

Archive(db, r) ==
  LET by   == IF r.valid /\ r.by = "recent" THEN "updated" ELSE "title"
      down == r.valid /\ r.by \in {"recent", "-title"}
  IN  ArchivePage(db, r, Returned(LibraryKeys(db, by, down), ArchiveTimes(db, r)))

\* _is_current, and the same period in SQL; 0 is an end that is open.
IsCurrent(c, today) == c.from <= today /\ (c.until = 0 \/ c.until >= today)
InPeriod(c, today)  == (c.from = 0 \/ c.from <= today) /\ (c.until = 0 \/ c.until >= today)

\* classify_ownership, of the claims of all types.
OwnershipOf(claims, local, today) ==
  LET owned == Filtered(claims, LAMBDA c : c.type = "ownership")
  IN  Category([n \in DOMAIN owned |-> [current |-> IsCurrent(owned[n], today)] @@ owned[n]], local)

\* has_local_confirmed_right.
HasLocalRight(claims, local, type, today) ==
  /\ local # Nobody
  /\ \E c \in ToSet(claims) : /\ c.type = type /\ c.holder = local /\ c.status = "confirmed"
                              /\ IsCurrent(c, today)

\* Mutant of LocalRightIds: a right that has ended is still found.
LocalRightIdsEnded(db, ids, local, type, today) ==
  {i \in ids : local # Nobody /\ \E c \in ToSet(db.entries[i].claims) :
     c.type = type /\ c.holder = local /\ c.status = "confirmed"}

\* local_confirmed_right_recording_ids.
LocalRightIds(db, ids, local, type, today) ==
  {i \in ids : local # Nobody /\ \E c \in ToSet(db.entries[i].claims) :
     /\ c.type = type /\ c.holder = local /\ c.status = "confirmed" /\ InPeriod(c, today)}

\* ownership_summaries_for_recordings.
OwnershipSummaries(db, ids, local, today) ==
  [i \in ids |-> OwnershipOf(db.entries[i].claims, local, today)]

\* What a filter asks for: nothing or a choice, a filter about a right nothing or one of two.
Choice == {NotGiven} \cup STRING
YesNo  == {"", "yes", "no"}

\* managed_list: one filter after the other, each over what the ones before have left;
\* those about rights only for a user who may view them.
ManagedTimes(db, r, today) ==
  LET entry(i) == db.entries[i]
      searched == [i \in DOMAIN db.entries |->
                     Occurrences(Matching({entry(i).title}, <<Code(entry(i)), CreditTable(entry(i), {"party"})>>, r.q))]
      plain == {i \in DOMAIN db.entries :
                  /\ searched[i] > 0
                  /\ r.status # "" => entry(i).management = r.status
                  /\ r.source # 0 => entry(i).source = r.source}
      owned == IF r.ownership = "" THEN plain
               ELSE {i \in plain : OwnershipSummaries(db, plain, db.local, today)[i] = r.ownership}
      after(ids, answer, type) ==
        CASE answer = ""    -> ids
          [] answer = "yes" -> ids \cap LocalRightIds(db, ids, db.local, type, today)
          [] answer = "no"  -> ids \ LocalRightIds(db, ids, db.local, type, today)
      left == IF r.rights THEN after(after(owned, r.administration, "administration"),
                                     r.distribution, "distribution")
              ELSE plain
      managed == {i \in DOMAIN db.entries : entry(i).managed}
  IN  [i \in managed |-> IF ~r.valid THEN 1 ELSE IF i \in left THEN searched[i] ELSE 0]

\* The columns of a row of the managed music.
ManagedRow(e, local, today) ==
  LET right(type) == HasLocalRight(e.claims, local, type, today)
  IN  [credit |-> PrimaryCredit(e), ownership |-> OwnershipOf(e.claims, local, today),
       administration |-> right("administration"), distribution |-> right("distribution")]

ManagedPage(db, list, asked, today) ==
  LET page == PageOf(list, PageRows, asked)
  IN  [list |-> page, pages |-> Pages(list, PageRows),
       rows |-> [n \in DOMAIN page |-> ManagedRow(db.entries[page[n]], db.local, today)]]

Managed(db, r, today) ==
  LET times == ManagedTimes(db, r, today)
      keys  == LibraryKeys(db, "title", FALSE)
  IN  ManagedPage(db, Returned([i \in DOMAIN times |-> keys[i]], times), r.page, today)

\* The rights summary of a release's page: its recordings, counted by category.
RightsSummary(db, release, today) ==
  LET ids == ToSet(release.tracks)
      categories == OwnershipSummaries(db, ids, db.local, today)
      counted(c) == Cardinality({i \in ids : categories[i] = c})
      rights(type) == Cardinality(LocalRightIds(db, ids, db.local, type, today))
  IN  [full |-> counted("full"), partial |-> counted("partial"), not_owned |-> counted("not_owned"),
       unresolved |-> counted("unresolved"), disputed |-> counted("disputed"),
       administration |-> rights("administration"), distribution |-> rights("distribution")]

\* The tables a search for releases joins: its numbers, and the texts of its tracks.
ReleaseTables(db, release) ==
  LET texts(e) == LET tables == <<Code(e), CreditTable(e, {"party", "identity"})>>
                      rows == SetToSeq(Joined(tables))
                  IN  [n \in DOMAIN rows |->
                         {e.title} \cup UNION {tables[t][rows[n][t]] : t \in {u \in 1..2 : rows[n][u] # 0}}]
  IN  <<[n \in DOMAIN release.numbers |-> {release.numbers[n]}],
        Concat([n \in DOMAIN release.tracks |-> texts(db.entries[release.tracks[n]])])>>

\* Count("tracks", distinct=True): every joined row is one with every track.
TrackTotal(release, rows) == Cardinality({both[2] : both \in rows \X DOMAIN release.tracks})

\* release_list: of the workbench, which searches everything, and of the new interface.
Releases(db, q, wide, asked) ==
  LET rows(i) == LET release == db.releases[i]
                     own == {release.title, release.catalogue, release.label}
                 IN  Matching(own, IF wide THEN ReleaseTables(db, release) ELSE <<>>, q)
      list == Returned([i \in DOMAIN db.releases |-> <<db.releases[i].title, i>>],
                       [i \in DOMAIN db.releases |-> Occurrences(rows(i))])
      page == PageOf(list, PageRows, asked)
  IN  [list |-> page, pages |-> Pages(list, PageRows),
       totals |-> [n \in DOMAIN page |-> TrackTotal(db.releases[page[n]], rows(page[n]))],
       rights |-> [n \in DOMAIN page |-> RightsSummary(db, db.releases[page[n]], 2)]]

=============================================================================

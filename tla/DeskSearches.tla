---------------------------- MODULE DeskSearches -----------------------------
(***************************************************************************)
(* What the user interfaces find and count without any filter, and what    *)
(* they picture: recordings, people and artists, agreements and files by a *)
(* text, the tasks that are waiting, and the covers.  Rows are those of    *)
(* DeskLists; an artist names its party, as a file does the recording and  *)
(* the release it belongs to, 0 when it has none.                          *)
(***************************************************************************)
EXTENDS DeskLists

CONSTANT Hits  \* rows shown of what has no pages: 12, 20, 50 or 100, by the list

ASSUME HitsAssumption == Hits \in Nat \ {0}

Foremost(list) == SubSeq(list, 1, Min({Len(list), Hits}))

\* The rows that contain a text, or all of them, in the order of their titles or names.
FoundRows(rows, q, own(_), tables(_), title(_)) ==
  Returned([i \in DOMAIN rows |-> <<title(rows[i]), i>>],
           [i \in DOMAIN rows |-> Occurrences(Matching(own(rows[i]), tables(rows[i]), q))])

\* The two recording_search: a text of one character finds nothing.
CreditSearch(db, q, long) ==
  IF ~long THEN <<>>
  ELSE Foremost(FoundRows(db.entries, q, LAMBDA e : {e.title},
                      LAMBDA e : <<Code(e), CreditTable(e, {"credited"})>>, LAMBDA e : e.title))
PartySearch(db, q, long) ==
  IF ~long THEN <<>>
  ELSE Foremost(FoundRows(db.entries, q, LAMBDA e : {e.title},
                      LAMBDA e : <<Code(e), CreditTable(e, {"party", "identity"})>>, LAMBDA e : e.title))

\* parties_list: a page of the parties, and the first of the artists.
PartyName(db, p) == db.parties[p].name
IdentityTable(db, p) ==
  LET own == Filtered(db.artists, LAMBDA a : a.party = p.id)
  IN  [n \in DOMAIN own |-> {own[n].name}]
PartiesPage(db, q, asked) ==
  LET parties == FoundRows(db.parties, q, LAMBDA p : {p.name}, LAMBDA p : <<IdentityTable(db, p)>>,
                       LAMBDA p : p.name)
      artists == FoundRows(db.artists, q, LAMBDA a : {a.name, PartyName(db, a.party)}, LAMBDA a : <<>>,
                       LAMBDA a : a.name)
  IN  [parties |-> PageOf(parties, PageRows, asked), pages |-> Pages(parties, PageRows),
       artists |-> Foremost(artists)]

\* agreement_list: by the title, the reference and the parties.
Agreements(db, q, asked) ==
  LET list == FoundRows(db.agreements, q, LAMBDA a : {a.title, a.reference},
                    LAMBDA a : <<[n \in DOMAIN a.parties |-> {PartyName(db, a.parties[n])}]>>,
                    LAMBDA a : a.title)
  IN  [list |-> PageOf(list, PageRows, asked), pages |-> Pages(list, PageRows)]

\* files_list: by the name, the recording, the release and every place the file is at.
TitleOf(rows, i) == IF i = 0 THEN 0 ELSE rows[i].title
Files(db, q, asked) ==
  LET list == FoundRows(db.files, q,
                    LAMBDA f : {f.name, TitleOf(db.entries, f.recording), TitleOf(db.releases, f.release)},
                    LAMBDA f : <<[n \in DOMAIN f.paths |-> {f.paths[n]}]>>, LAMBDA f : f.name)
  IN  [list |-> PageOf(list, PageRows, asked), pages |-> Pages(list, PageRows)]

-----------------------------------------------------------------------------
(* The tasks of the start page, and the page that lists them.               *)

OpenCases(db) == Filtered([d \in DOMAIN db.duplicates |-> d], LAMBDA d : db.duplicates[d] = "open")
Waiting(db, status) ==
  Filtered([a \in DOMAIN db.assertions |-> a], LAMBDA a : db.assertions[a] = status)

\* home: what a user may view, how much there is of it, and the tab it is listed on.
Home(db, may) ==
  (IF "duplicates" \in may THEN {[tab |-> "dubletter", count |-> Len(OpenCases(db))]} ELSE {})
  \cup (IF "assertions" \in may
        THEN {[tab |-> "uverifisert", count |-> Len(Waiting(db, "unverified"))],
              [tab |-> "konflikter", count |-> Len(Waiting(db, "disputed"))]}
        ELSE {})
  \cup (IF "claims" \in may
        THEN {[tab |-> "managed",
               count |-> MapThenSumSet(LAMBDA i : Len(Filtered(db.entries[i].claims,
                                         LAMBDA c : c.status \in {"unverified", "disputed"})),
                                       DOMAIN db.entries)]}
        ELSE {})

\* control: what is not asked for as a conflict is unverified; both lists are read, the
\* tab shows one of them.
Control(db, may, tab) ==
  IF may \cap {"duplicates", "assertions", "maintenance"} = {} THEN [code |-> 403]
  ELSE [code |-> 200, duplicates |-> IF "duplicates" \in may THEN Foremost(OpenCases(db)) ELSE <<>>,
        assertions |->
          IF "assertions" \in may
          THEN Foremost(Waiting(db, IF tab = "konflikter" THEN "disputed" ELSE "unverified"))
          ELSE <<>>]
Tab(answer, tab) == IF tab = "dubletter" THEN answer.duplicates ELSE answer.assertions

-----------------------------------------------------------------------------
(* Covers.  A release has files with pictures, each at several places.      *)

Usable(place) == place.nas /\ place.current /\ place.active
ByName(covers) == [c \in DOMAIN covers |-> <<covers[c].name, c>>]

\* release_detail, in SQL: the first file that is at a place it can be read from.
CoverOfPage(release) ==
  LET covers == release.covers
      places(c) == {p \in DOMAIN covers[c].places : Usable(covers[c].places[p])}
      found == Returned(ByName(covers), [c \in DOMAIN covers |-> Occurrences(places(c))])
  IN  IF found = <<>> THEN 0 ELSE found[1]

\* select_recording_cover, in Python: the cover of each track's release, in the order of
\* their years, titles and numbers, and the first of them.
CoverOfTrack(release) ==
  LET ordered == Returned(ByName(release.covers), [c \in DOMAIN release.covers |-> 1])
      usable == Filtered(ordered, LAMBDA c : \E p \in ToSet(release.covers[c].places) : Usable(p))
  IN  IF usable = <<>> THEN 0 ELSE usable[1]
CoverOfRecording(db, recording) ==
  LET places == UNION {{<<r, n>> : n \in {m \in DOMAIN db.releases[r].tracks :
                                           db.releases[r].tracks[m] = recording}} :
                       r \in DOMAIN db.releases}
      key(at) == <<db.releases[at[1]].year, db.releases[at[1]].title, at[2]>>
      shown == {at \in places : CoverOfTrack(db.releases[at[1]]) # 0}
      first == CHOOSE a \in shown : \A b \in shown : ~Precedes(key(b), key(a))
  IN  IF shown = {} THEN <<>> ELSE <<first[1], CoverOfTrack(db.releases[first[1]])>>

\* cover_image: the first of its places whose picture can be read.
CoverServed(cover) ==
  LET tried == Foremost(Filtered(cover.places, Usable))
  IN  \E n \in DOMAIN tried : tried[n].reads

=============================================================================

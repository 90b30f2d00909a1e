-------------------------- MODULE MusicDeskProofs ---------------------------
(***************************************************************************)
(* Theorems about MusicDesk for any recordings, tracks, files, editors and *)
(* workers: what the status of a radio file promises about its tags, and   *)
(* what a track list that is submitted late leaves alone.                  *)
(***************************************************************************)
EXTENDS MusicDesk, FiniteSetTheorems, WellFoundedInduction, TLAPS

\* A track has a recording that is there, and a linked track is not removed.
TracksPlay == \A t \in Tracks : rec[track[t].rec] # None
LinksStay == \A a \in Asset : TrackOf[a] # None => TrackOf[a] \in Tracks
\* The recording of a file is there.
FilesPlay == \A a \in Asset : rec[RecOf[a]] # None

\* Tracks that a track list has locked stay.
LocksHold == \A e \in Editor :
  search[e] # None /\ search[e].tracks # None => search[e].tracks \subseteq Tracks

\* What a job has written, or read of the file, is in the file, unless another one has
\* written it since.
JobsTruthful ==
  \A w \in Worker :
    job[w] # None /\ job[w].at \in {"written", "parsed"} /\ w \notin overtaken =>
      tags[job[w].asset] = job[w].tags

DInv == TypeOK /\ TracksPlay /\ LinksStay /\ FilesPlay /\ LocksHold
SInv == DInv /\ JobsTruthful

-----------------------------------------------------------------------------
(* Numbers.                                                                *)

\* A set of numbers that is not empty has a least one, and Min gives it.
LEMMA Least ==
  ASSUME NEW S \in SUBSET Nat, S # {}
  PROVE  Min(S) \in S
<1>1. PICK x \in S : \A y \in S : ~ (<<y, x>> \in OpToRel(<, Nat))
  BY NatLessThanWellFounded, WFMin
<1>2. ASSUME NEW y \in S PROVE x <= y
  <2>1. <<y, x>> \in Nat \X Nat /\ <<y, x>>[1] = y /\ <<y, x>>[2] = x
    OBVIOUS
  <2>2. ~ (y < x)
    BY <1>1, <1>2, <2>1 DEF OpToRel
  <2>. QED BY <2>2
<1>. QED BY <1>1, <1>2 DEF Min

\* Some set of a family of subsets of a finite set contains no other one of it.
LEMMA SmallestSubset ==
  \A S : IsFiniteSet(S) =>
    \A F \in SUBSET (SUBSET S) :
      F # {} => \E T \in F : \A U \in F : U \subseteq T => U = T
<1>. SUFFICES ASSUME NEW S, IsFiniteSet(S), NEW F \in SUBSET (SUBSET S), F # {}
              PROVE  \E T \in F : \A U \in F : U \subseteq T => U = T
  OBVIOUS
<1>1. FiniteSubsetsOf(S) = SUBSET S
  BY FS_FiniteSubsetsOfFinite
<1>2. IsWellFoundedOn(StrictSubsetOrdering(S), SUBSET S)
  BY <1>1, FS_StrictSubsetOrderingWellFounded
<1>3. \E T \in F : \A U \in F : ~ (<<U, T>> \in StrictSubsetOrdering(S))
  BY <1>2, WFMin
<1> QED BY <1>3 DEF StrictSubsetOrdering

\* A finite set of numbers that is not empty has a greatest one, and Max gives it.
LEMMA Greatest ==
  ASSUME NEW S, IsFiniteSet(S)
  PROVE  S # {} /\ S \subseteq Nat => Max(S) \in S /\ \A x \in S : x <= Max(S)
<1>1. \A F \in SUBSET (SUBSET S) :
        F # {} => \E T \in F : \A U \in F : U \subseteq T => U = T
  BY SmallestSubset
<1>2. PICK F : F = {T \in SUBSET S : T # {} /\ \A x \in T : \E y \in T : ~ (y <= x)}
  OBVIOUS
<1>3. F \in SUBSET (SUBSET S)
  BY <1>2
<1>4. F # {} => \E T \in F : \A U \in F : U \subseteq T => U = T
  BY <1>1, <1>3
<1>. SUFFICES ASSUME S # {}, S \subseteq Nat
              PROVE  Max(S) \in S /\ \A x \in S : x <= Max(S)
  OBVIOUS
<1>5. F = {}
  <2>. SUFFICES ASSUME F # {} PROVE FALSE
    OBVIOUS
  <2>1. PICK T \in F : \A U \in F : U \subseteq T => U = T
    BY <1>4
  <2>2. PICK x \in T : TRUE
    BY <1>2, <2>1
  <2>3. T \ {x} \notin F
    BY <2>1, <2>2
  <2>4. PICK z \in T : ~ (z <= x)
    BY <1>2, <2>2
  <2>5. x \in Nat /\ z \in Nat /\ T \subseteq Nat
    BY <1>2, <2>2, <2>4
  <2>6. T \ {x} \in SUBSET S /\ T \ {x} # {}
    BY <1>2, <2>4, <2>5
  <2>7. PICK m \in T \ {x} : \A y \in T \ {x} : y <= m
    BY <1>2, <2>3, <2>6
  <2>8. \A y \in T : y <= m
    BY <2>4, <2>5, <2>7
  <2>. QED BY <1>2, <2>7, <2>8
<1>6. \E x \in S : \A y \in S : x >= y
  BY <1>2, <1>5
<1>. QED BY <1>6 DEF Max

-----------------------------------------------------------------------------
(* The rows of a track list.                                               *)

\* What a submission fixes: the rows, the recording of a row that asks for one, and
\* the keys of the rows whose track was removed.
Asks(rows) == {t \in DOMAIN rows : ~rows[t].remove /\ rows[t].rec = None}
Grid(rows, own, fresh, locked, e) ==
  /\ IF Asks(rows) = {} THEN locked = Tracks
     ELSE /\ search[e] # None /\ search[e].tracks # None /\ locked = search[e].tracks
          /\ rec[own] = None
  /\ RowsValid(rows)
  /\ \A t \in DOMAIN rows :
       IF t \in Tracks \/ rows[t].remove THEN fresh[t] = t ELSE track[fresh[t]] = None
  /\ track' = SavedTracks(rows, fresh, own, locked)
  /\ rec' = [r \in Rec |->
       IF \E t \in Rewritten(rows) : rows[t].rec = r
       THEN rows[CHOOSE t \in Rewritten(rows) : rows[t].rec = r].values
       ELSE IF r = own /\ Asks(rows) # {} THEN rows[CHOOSE t \in Asks(rows) : TRUE].values
       ELSE rec[r]]
  /\ pairs' = pairs \cup UNION {PairsWith(own, e, rows[t].values) : t \in Asks(rows)}

\* A submitted track list is a change of the page that was opened
\* (save_release_track_rows).
LEMMA GridOf ==
  ASSUME NEW e \in Editor, SaveGrid(e)
  PROVE  \E rows \in Submissions(page[e]), own \in Rec :
           \E fresh \in [DOMAIN rows -> Track] :
             \E locked : Grid(rows, own, fresh, locked, e)
<1>1. PICK rows \in Submissions(page[e]), own \in Rec :
        \E fresh \in [DOMAIN rows -> Track] :
          LET locked == IF Asks(rows) = {} THEN Tracks ELSE search[e].tracks IN
          /\ Asks(rows) # {} => rec[own] = None /\ search[e] # None /\ search[e].tracks # None
          /\ RowsValid(rows)
          /\ \A t \in DOMAIN rows :
               IF t \in Tracks \/ rows[t].remove THEN fresh[t] = t ELSE track[fresh[t]] = None
          /\ track' = SavedTracks(rows, fresh, own, locked)
          /\ rec' = [r \in Rec |->
               IF \E t \in Rewritten(rows) : rows[t].rec = r
               THEN rows[CHOOSE t \in Rewritten(rows) : rows[t].rec = r].values
               ELSE IF r = own /\ Asks(rows) # {} THEN rows[CHOOSE t \in Asks(rows) : TRUE].values
               ELSE rec[r]]
          /\ pairs' = pairs \cup UNION {PairsWith(own, e, rows[t].values) : t \in Asks(rows)}
  BY DEF SaveGrid, Asks
<1>2. PICK fresh \in [DOMAIN rows -> Track] :
        /\ Asks(rows) # {} => rec[own] = None /\ search[e] # None /\ search[e].tracks # None
        /\ RowsValid(rows)
        /\ \A t \in DOMAIN rows :
             IF t \in Tracks \/ rows[t].remove THEN fresh[t] = t ELSE track[fresh[t]] = None
        /\ track' = SavedTracks(rows, fresh, own,
                                IF Asks(rows) = {} THEN Tracks ELSE search[e].tracks)
        /\ rec' = [r \in Rec |->
             IF \E t \in Rewritten(rows) : rows[t].rec = r
             THEN rows[CHOOSE t \in Rewritten(rows) : rows[t].rec = r].values
             ELSE IF r = own /\ Asks(rows) # {} THEN rows[CHOOSE t \in Asks(rows) : TRUE].values
             ELSE rec[r]]
        /\ pairs' = pairs \cup UNION {PairsWith(own, e, rows[t].values) : t \in Asks(rows)}
  BY <1>1
<1>3. PICK locked : locked = IF Asks(rows) = {} THEN Tracks ELSE search[e].tracks
  OBVIOUS
<1>4. Grid(rows, own, fresh, locked, e)
  BY <1>2, <1>3 DEF Grid
<1>. QED BY <1>4

\* The tracks a track list works on are tracks.
LEMMA GridLocked ==
  ASSUME DInv, NEW e \in Editor, NEW rows, NEW own, NEW fresh, NEW locked,
         Grid(rows, own, fresh, locked, e)
  PROVE  locked \subseteq Tracks
BY DEF Grid, DInv, LocksHold

\* The values of an empty row are values of a recording.
LEMMA BlankIsValue == Blank \in Values
BY DeskAssumption DEF Blank, Values

\* What an editor makes of a row is a row (TrackRowForm).
LEMMA EditedRows ==
  ASSUME NEW values \in Values
  PROVE  Edited(values) \subseteq PageRow
<1>1. Recordings \subseteq Rec
  BY DEF Recordings
<1>2. Typed(values) \subseteq Values
  BY DEF Typed
<1>3. Position \subseteq Nat \ {0}
  BY DeskAssumption
<1>. QED BY <1>1, <1>2, <1>3 DEF Edited, Linked, Row, PageRow

\* A submission has a row for every track the page showed, and at most one more, for
\* a track that is not there yet.
LEMMA SubmittedRows ==
  ASSUME TypeOK, NEW e \in Editor, page[e] # None, NEW rows \in Submissions(page[e])
  PROVE  /\ DOMAIN page[e] \subseteq DOMAIN rows
         /\ DOMAIN rows \subseteq Track
         /\ \A t \in DOMAIN rows : rows[t] \in PageRow
         /\ \A t \in DOMAIN rows \ DOMAIN page[e] : track[t] = None
<1>1. PICK shown : shown = page[e]
  OBVIOUS
<1>2. DOMAIN shown \subseteq Track /\ \A t \in DOMAIN shown : shown[t] \in PageRow
  BY <1>1 DEF TypeOK
<1>3. CASE \E t \in DOMAIN shown :
             \E row \in Edited(shown[t].values) \cup {Removed(shown[t])} :
               rows = [shown EXCEPT ![t] = row]
  <2>1. PICK t \in DOMAIN shown :
          \E row \in Edited(shown[t].values) \cup {Removed(shown[t])} :
            rows = [shown EXCEPT ![t] = row]
    BY <1>3
  <2>2. PICK row \in Edited(shown[t].values) \cup {Removed(shown[t])} :
          rows = [shown EXCEPT ![t] = row]
    BY <2>1
  <2>3. shown[t].values \in Values /\ Removed(shown[t]) \in PageRow
    BY <1>2 DEF PageRow, Removed
  <2>4. row \in PageRow
    BY <2>2, <2>3, EditedRows
  <2>. QED BY <1>1, <1>2, <2>2, <2>4
<1>4. CASE \E t \in {u \in Track : track[u] = None} : \E row \in Edited(Blank) :
             rows = [u \in DOMAIN shown \cup {t} |-> IF u = t THEN row ELSE shown[u]]
  <2>1. PICK t \in Track, row \in Edited(Blank) :
          /\ track[t] = None
          /\ rows = [u \in DOMAIN shown \cup {t} |-> IF u = t THEN row ELSE shown[u]]
    BY <1>4
  <2>2. row \in PageRow
    BY <2>1, BlankIsValue, EditedRows
  <2>. QED BY <1>1, <1>2, <2>1, <2>2
<1>5. rows \in Submissions(shown)
  BY <1>1
<1>6. \/ \E t \in DOMAIN shown : rows \in RowChanged(shown, t)
      \/ \E t \in {u \in Track : track[u] = None} : rows \in RowAdded(shown, t)
  BY <1>5 DEF Submissions
<1>7. ASSUME NEW t \in DOMAIN shown, rows \in RowChanged(shown, t)
      PROVE  \E row \in Edited(shown[t].values) \cup {Removed(shown[t])} :
               rows = [shown EXCEPT ![t] = row]
  BY <1>7 DEF RowChanged
<1>8. ASSUME NEW t, rows \in RowAdded(shown, t)
      PROVE  \E row \in Edited(Blank) :
               rows = [u \in DOMAIN shown \cup {t} |-> IF u = t THEN row ELSE shown[u]]
  BY <1>8 DEF RowAdded
<1>. QED BY <1>3, <1>4, <1>6, <1>7, <1>8

\* Tracks are moved out of the way to a position.
LEMMA MovedType ==
  ASSUME TypeOK, NEW locked, locked \subseteq Tracks, NEW t \in locked
  PROVE  OutOfTheWay(t, locked) \in Nat \ {0}
<1>1. locked \subseteq Track /\ \A u \in locked : track[u] \in TrackRow
  BY DEF Tracks, TypeOK
<1>2. PICK N : N = {track[u].seq : u \in locked}
  OBVIOUS
<1>3. N \subseteq Nat /\ N # {}
  BY <1>1, <1>2 DEF TrackRow
<1>4. IsFiniteSet(locked)
  BY <1>1, DeskAssumption, FS_Subset
<1>5. IsFiniteSet(N)
  <2>1. PICK f : f = [u \in locked |-> track[u].seq]
    OBVIOUS
  <2>2. f \in Surjection(locked, N)
    BY <1>2, <2>1 DEF Surjection
  <2>. QED BY <1>4, <2>2, FS_Surjection
<1>6. Max(N) \in Nat
  BY <1>3, <1>5, Greatest
<1>7. PICK B : B = {u \in locked : track[u].seq < track[t].seq}
  OBVIOUS
<1>8. Cardinality(B) \in Nat
  <2>1. IsFiniteSet(B)
    BY <1>4, <1>7, FS_Subset
  <2>. QED BY <2>1, FS_CardinalityType
<1>9. OutOfTheWay(t, locked) = Max(N) + 10 + Cardinality(B)
  BY <1>2, <1>7 DEF OutOfTheWay, Gap
<1>. QED BY <1>6, <1>8, <1>9

\* What a track list leaves of the tracks.
LEMMA GridTracks ==
  ASSUME DInv, NEW e \in Editor, page[e] # None, NEW rows \in Submissions(page[e]),
         NEW own \in Rec, NEW fresh \in [DOMAIN rows -> Track], NEW locked,
         Grid(rows, own, fresh, locked, e)
  PROVE  /\ track' \in [Track -> TrackRow \cup {None, Gone}]
         /\ \A t \in Tracks \ DOMAIN page[e] :
              track'[t] \in TrackRow /\ track'[t].rec = track[t].rec
         /\ \A t \in Tracks \cap DOMAIN rows : ~rows[t].remove => track'[t] \in TrackRow
         /\ \A t \in Track : track'[t] \in TrackRow =>
              \/ t \in Tracks /\ track'[t].rec = track[t].rec
              \/ \E u \in DOMAIN rows :
                   /\ ~rows[u].remove
                   /\ track'[t].rec = IF rows[u].rec = None THEN own ELSE rows[u].rec
<1>. USE DEF DInv
<1>1. /\ DOMAIN rows \subseteq Track /\ \A t \in DOMAIN rows : rows[t] \in PageRow
      /\ \A t \in DOMAIN rows \ DOMAIN page[e] : track[t] = None
  BY SubmittedRows
<1>2. track' = SavedTracks(rows, fresh, own, locked)
  BY DEF Grid
<1>3. Tracks \subseteq Track /\ \A t \in Tracks : track[t] \in TrackRow /\ track[t] # None
  BY DEF Tracks, TypeOK
<1>a. locked \subseteq Tracks
  BY GridLocked
<1>4. ASSUME NEW t \in locked \ DOMAIN rows
      PROVE  track'[t] \in TrackRow /\ track'[t].rec = track[t].rec
  <2>1. track'[t] = [track[t] EXCEPT !.seq = OutOfTheWay(t, locked)]
    BY <1>2, <1>3, <1>a, <1>4 DEF SavedTracks
  <2>2. OutOfTheWay(t, locked) \in Nat \ {0} /\ track[t] \in TrackRow
    BY <1>3, <1>a, <1>4, MovedType
  <2>. QED BY <2>1, <2>2 DEF TrackRow
<1>5. ASSUME NEW t \in Track, t \notin locked \/ t \in DOMAIN rows,
             \E u \in DOMAIN rows : ~rows[u].remove /\ fresh[u] = t
      PROVE  /\ track'[t] \in TrackRow
             /\ \E u \in DOMAIN rows :
                  /\ ~rows[u].remove
                  /\ track'[t].rec = IF rows[u].rec = None THEN own ELSE rows[u].rec
  <2>1. track'[t] = Submitted(rows, fresh, own, t)
    BY <1>2, <1>5 DEF SavedTracks
  <2>2. PICK u : u = CHOOSE v \in DOMAIN rows : ~rows[v].remove /\ fresh[v] = t
    OBVIOUS
  <2>3. u \in DOMAIN rows /\ ~rows[u].remove
    BY <1>5, <2>2
  <2>4. track'[t] = [seq |-> rows[u].seq, rec |-> IF rows[u].rec = None THEN own ELSE rows[u].rec]
    BY <2>1, <2>2 DEF Submitted
  <2>5. rows[u] \in PageRow
    BY <1>1, <2>3
  <2>. QED BY <2>3, <2>4, <2>5 DEF PageRow, TrackRow
<1>6. ASSUME NEW t \in Track, t \notin locked \/ t \in DOMAIN rows,
             ~ \E u \in DOMAIN rows : ~rows[u].remove /\ fresh[u] = t
      PROVE  track'[t] = IF t \in locked THEN Gone ELSE track[t]
  BY <1>2, <1>6 DEF SavedTracks
<1>7. track' \in [Track -> TrackRow \cup {None, Gone}]
  <2>1. \A t \in Track : track'[t] \in TrackRow \cup {None, Gone}
    BY <1>4, <1>5, <1>6 DEF TypeOK
  <2>2. track' = [t \in Track |-> track'[t]]
    BY <1>2 DEF SavedTracks
  <2>. QED BY <2>1, <2>2
<1>8. ASSUME NEW t \in Tracks \ DOMAIN page[e]
      PROVE  track'[t] \in TrackRow /\ track'[t].rec = track[t].rec
  <2>1. t \notin DOMAIN rows
    BY <1>1, <1>3, <1>8
  <2>2. CASE t \in locked
    BY <1>4, <2>1, <2>2
  <2>3. CASE t \notin locked
    <3>1. ~ \E u \in DOMAIN rows : ~rows[u].remove /\ fresh[u] = t
      BY <1>3, <1>8, <2>1 DEF Grid
    <3>. QED BY <1>3, <1>6, <1>8, <2>3, <3>1
  <2>. QED BY <2>2, <2>3
<1>9. ASSUME NEW t \in Tracks \cap DOMAIN rows, ~rows[t].remove
      PROVE  track'[t] \in TrackRow
  <2>1. fresh[t] = t
    BY <1>9 DEF Grid
  <2>. QED BY <1>3, <1>5, <1>9, <2>1
<1>10. ASSUME NEW t \in Track, track'[t] \in TrackRow
       PROVE  \/ t \in Tracks /\ track'[t].rec = track[t].rec
              \/ \E u \in DOMAIN rows :
                   /\ ~rows[u].remove
                   /\ track'[t].rec = IF rows[u].rec = None THEN own ELSE rows[u].rec
  <2>1. CASE t \in locked \ DOMAIN rows
    BY <1>4, <1>a, <2>1
  <2>2. CASE /\ t \notin locked \/ t \in DOMAIN rows
             /\ \E u \in DOMAIN rows : ~rows[u].remove /\ fresh[u] = t
    BY <1>5, <2>2
  <2>3. CASE /\ t \notin locked \/ t \in DOMAIN rows
             /\ ~ \E u \in DOMAIN rows : ~rows[u].remove /\ fresh[u] = t
    <3>1. track'[t] = track[t] /\ track[t] # None /\ track[t] # Gone
      BY <1>6, <1>10, <2>3, NoneAssumption, GoneAssumption
    <3>. QED BY <3>1 DEF Tracks
  <2>. QED BY <2>1, <2>2, <2>3
<1>. QED BY <1>7, <1>8, <1>9, <1>10

\* What it leaves of the recordings: none is lost, and a row's recording is there.
LEMMA GridRecordings ==
  ASSUME TypeOK, NEW e \in Editor, page[e] # None, NEW rows \in Submissions(page[e]),
         NEW own \in Rec, NEW fresh \in [DOMAIN rows -> Track], NEW locked,
         Grid(rows, own, fresh, locked, e)
  PROVE  /\ rec' \in [Rec -> Values \cup {None}]
         /\ \A r \in Rec : rec[r] # None => rec'[r] # None
         /\ Asks(rows) # {} => rec'[own] # None
         /\ \A r \in Rec : rec[r] = None /\ rec'[r] # None =>
              /\ r = own
              /\ \E t \in Asks(rows) : rec'[r] = rows[t].values
<1>1. \A t \in DOMAIN rows : rows[t] \in PageRow
  BY SubmittedRows
<1>2. Rewritten(rows) \subseteq DOMAIN rows /\ Asks(rows) \subseteq DOMAIN rows
  BY DEF Rewritten, Asks
<1>3. \A t \in Rewritten(rows) : rec[rows[t].rec] # None
  BY DEF Grid, RowsValid, Rewritten
<1>4. ASSUME NEW r \in Rec, \E t \in Rewritten(rows) : rows[t].rec = r
      PROVE  rec'[r] \in Values /\ rec[r] # None
  <2>1. PICK t : t = CHOOSE u \in Rewritten(rows) : rows[u].rec = r
    OBVIOUS
  <2>2. t \in Rewritten(rows)
    BY <1>4, <2>1
  <2>3. rec'[r] = rows[t].values
    BY <1>4, <2>1 DEF Grid
  <2>. QED BY <1>1, <1>2, <1>3, <1>4, <2>2, <2>3 DEF PageRow
<1>5. ASSUME NEW r \in Rec, ~ \E t \in Rewritten(rows) : rows[t].rec = r,
             r = own, Asks(rows) # {}
      PROVE  rec'[r] \in Values /\ \E t \in Asks(rows) : rec'[r] = rows[t].values
  <2>1. PICK t : t = CHOOSE u \in Asks(rows) : TRUE
    OBVIOUS
  <2>2. t \in Asks(rows)
    BY <1>5, <2>1
  <2>3. rec'[r] = rows[t].values
    BY <1>5, <2>1 DEF Grid
  <2>. QED BY <1>1, <1>2, <2>2, <2>3 DEF PageRow
<1>6. ASSUME NEW r \in Rec, ~ \E t \in Rewritten(rows) : rows[t].rec = r,
             ~ (r = own /\ Asks(rows) # {})
      PROVE  rec'[r] = rec[r]
  BY <1>6 DEF Grid
<1>7. None \notin Values
  BY NoneAssumption
<1>8. rec' \in [Rec -> Values \cup {None}]
  <2>1. \A r \in Rec : rec'[r] \in Values \cup {None}
    BY <1>4, <1>5, <1>6 DEF TypeOK
  <2>2. rec' = [r \in Rec |-> rec'[r]]
    BY DEF Grid
  <2>. QED BY <2>1, <2>2
<1>9. \A r \in Rec : rec[r] # None => rec'[r] # None
  BY <1>4, <1>5, <1>6, <1>7
<1>10. Asks(rows) # {} => rec'[own] # None
  BY <1>4, <1>5, <1>7
<1>11. ASSUME NEW r \in Rec, rec[r] = None, rec'[r] # None
       PROVE  r = own /\ \E t \in Asks(rows) : rec'[r] = rows[t].values
  BY <1>4, <1>5, <1>6, <1>11
<1>. QED BY <1>8, <1>9, <1>10, <1>11
-----------------------------------------------------------------------------
(* Types, the recordings of tracks and the tracks of files.                *)

\* What the catalogue wants in a file are tags (_catalogue_tags).
LEMMA CatalogueTagsType ==
  ASSUME DInv, NEW a \in Asset
  PROVE  CatalogueTags(a) \in Tags
<1>1. BarcodeOf(release) \in Barcode \cup {None}
  BY Least, DeskAssumption DEF BarcodeOf, DInv, TypeOK, Release
<1>2. release.name \in Label
  BY DEF DInv, TypeOK, Release
<1>3. rec[RecOf[a]] \in Values
  BY DeskAssumption DEF DInv, FilesPlay, TypeOK
<1>4. rec[RecOf[a]].credit \in Name \cup {None}
  BY <1>3 DEF Values
<1>. QED BY <1>1, <1>2, <1>3, <1>4 DEF CatalogueTags, Tags

\* Marking leaves each file a status (mark_recording_for_sync).
LEMMA MarkType ==
  ASSUME TypeOK, NEW R, Mark(R)
  PROVE  status' \in [Asset -> FileStatus]
<1>1. Marked(R) \subseteq Asset
  BY DEF Marked, FilesOf
<1>. QED BY <1>1 DEF Mark, TypeOK, FileStatus

\* Edits are counted up to their bound.
LEMMA EditType ==
  ASSUME TypeOK, Edit
  PROVE  edits' \in 0..MaxEdits
BY DeskAssumption DEF Edit, TypeOK

\* The invariant holds at the start.
LEMMA InitBase == Init => DInv
<1>. SUFFICES ASSUME Init PROVE DInv
  OBVIOUS
<1>1. \A t \in Track : Listed[t] # None =>
        /\ track[t] \in TrackRow /\ track[t].rec = Listed[t]
        /\ track[t].seq \in Nat \ {0}
  <2>1. ASSUME NEW t \in Track, Listed[t] # None
        PROVE  /\ track[t] \in TrackRow /\ track[t].rec = Listed[t]
               /\ track[t].seq \in Nat \ {0}
    <3>1. PICK B : B = {u \in Track : Listed[u] # None /\ u <= t}
      OBVIOUS
    <3>2. t \in B /\ IsFiniteSet(B)
      BY <2>1, <3>1, DeskAssumption, FS_Subset
    <3>3. Cardinality(B) \in Nat /\ Cardinality(B) # 0
      BY <3>2, FS_CardinalityType, FS_EmptySet
    <3>4. track[t] = [rec |-> Listed[t], seq |-> Cardinality(B)]
      BY <2>1, <3>1 DEF Init
    <3>. QED BY <2>1, <3>3, <3>4, DeskAssumption DEF TrackRow
  <2>. QED BY <2>1
<1>2. \A t \in Track : Listed[t] = None => track[t] = None
  BY DEF Init
<1>3. track \in [Track -> TrackRow \cup {None, Gone}]
  BY <1>1, <1>2 DEF Init
<1>4. TracksPlay
  BY <1>1, <1>2, DeskAssumption DEF TracksPlay, Tracks, Init
<1>5. LinksStay
  <2>1. ASSUME NEW a \in Asset, TrackOf[a] # None
        PROVE  TrackOf[a] \in Tracks
    <3>1. TrackOf[a] \in Track /\ Listed[TrackOf[a]] = RecOf[a] /\ RecOf[a] \in Rec
      BY <2>1, DeskAssumption
    <3>2. Listed[TrackOf[a]] # None
      BY <3>1, NoneAssumption
    <3>. QED BY <1>1, <3>1, <3>2, NoneAssumption, GoneAssumption DEF Tracks
  <2>. QED BY <2>1 DEF LinksStay
<1>6. release \in Release
  BY DEF Init, Release
<1>7. tags \in [Asset -> Tags]
  <2>1. \A a \in Asset : CatalogueTags(a) \in Tags
    <3>1. ASSUME NEW a \in Asset
          PROVE  CatalogueTags(a) \in Tags
      <4>1. BarcodeOf(release) = None /\ release.name \in Label
        BY <1>6 DEF BarcodeOf, Init, Release
      <4>2. rec[RecOf[a]] \in Values
        BY DeskAssumption DEF Init
      <4>3. rec[RecOf[a]].credit \in Name \cup {None}
        BY <4>2 DEF Values
      <4>. QED BY <4>1, <4>2, <4>3 DEF CatalogueTags, Tags
    <3>. QED BY <3>1
  <2>. QED BY <2>1 DEF Init
<1>8. /\ rec \in [Rec -> Values \cup {None}] /\ claim \in [Rec -> Claim] /\ FilesPlay
      /\ period \in [Rec -> Period]
  BY DeskAssumption DEF Init, FilesPlay, Period
<1>9. /\ pairs \subseteq SUBSET Rec /\ library \subseteq Rec /\ managed \subseteq Rec
      /\ status \in [Asset -> FileStatus] /\ job \in [Worker -> Job \cup {None}]
      /\ search \in [Editor -> Search \cup {None}] /\ LocksHold
      /\ overtaken \subseteq Worker /\ edits \in 0..MaxEdits
  BY DeskAssumption DEF Init, FileStatus, LocksHold
<1>10. DOMAIN page = Editor /\ \A e \in Editor : page[e] = None
  BY DEF Init
<1>. QED BY <1>3, <1>4, <1>5, <1>6, <1>7, <1>8, <1>9, <1>10 DEF DInv, TypeOK

\* Values of a recording that stays do not matter to tracks, links and locks.
LEMMA PlayKept ==
  ASSUME DInv, track' = track, \A r \in Rec : rec[r] # None => rec'[r] # None,
         \A e \in Editor : search'[e] \in {search[e], None}
  PROVE  TracksPlay' /\ LinksStay' /\ FilesPlay' /\ LocksHold'
<1>1. Tracks' = Tracks
  BY DEF Tracks
<1>2. \A t \in Tracks : track[t].rec \in Rec
  BY DEF DInv, TypeOK, Tracks, TrackRow
<1>3. FilesPlay'
  BY DeskAssumption DEF DInv, FilesPlay
<1>4. LocksHold'
  BY <1>1 DEF DInv, LocksHold
<1>. QED BY <1>1, <1>2, <1>3, <1>4 DEF DInv, TracksPlay, LinksStay

\* A form of a recording keeps the invariant (recording_edit, contribution_add).
LEMMA SaveRecordingBase ==
  ASSUME DInv, NEW r \in Rec, NEW values \in Values, SaveRecording(r, values)
  PROVE  DInv'
<1>1. rec' \in [Rec -> Values \cup {None}] /\ \A q \in Rec : rec[q] # None => rec'[q] # None
  BY NoneAssumption DEF SaveRecording, DInv, TypeOK
<1>2. TracksPlay' /\ LinksStay' /\ FilesPlay' /\ LocksHold'
  BY <1>1, PlayKept DEF SaveRecording
<1>3. status' \in [Asset -> FileStatus] /\ edits' \in 0..MaxEdits
  BY MarkType, EditType DEF SaveRecording, DInv
<1>. QED BY <1>1, <1>2, <1>3 DEF SaveRecording, Mark, governance, work, DInv, TypeOK

\* A form of a release keeps the invariant.
LEMMA EditReleaseBase ==
  ASSUME DInv, EditRelease
  PROVE  DInv'
<1>1. release' \in Release
  BY DEF EditRelease, DInv, TypeOK, Release
<1>2. TracksPlay' /\ LinksStay' /\ FilesPlay' /\ LocksHold'
  BY PlayKept DEF EditRelease
<1>3. status' \in [Asset -> FileStatus] /\ edits' \in 0..MaxEdits
  BY MarkType, EditType DEF EditRelease, DInv
<1>. QED BY <1>1, <1>2, <1>3 DEF EditRelease, Mark, governance, work, DInv, TypeOK

\* A new barcode of a release keeps the invariant.
LEMMA AddReleaseIdentifierBase ==
  ASSUME DInv, AddReleaseIdentifier
  PROVE  DInv'
<1>1. release' \in Release
  BY DEF AddReleaseIdentifier, DInv, TypeOK, Release
<1>2. TracksPlay' /\ LinksStay' /\ FilesPlay' /\ LocksHold'
  BY PlayKept DEF AddReleaseIdentifier
<1>3. edits' \in 0..MaxEdits
  BY EditType DEF AddReleaseIdentifier, DInv
<1>. QED BY <1>1, <1>2, <1>3 DEF AddReleaseIdentifier, governance, files, work, DInv, TypeOK

\* A search sees the recordings there are, and locks tracks there are.
LEMMA StartSearchBase ==
  ASSUME DInv, NEW e \in Editor, StartSearch(e)
  PROVE  DInv'
<1>1. PICK ts \in {None, Tracks} : search' = [search EXCEPT ![e] = [seen |-> rec, tracks |-> ts]]
  BY DEF StartSearch
<1>2. [seen |-> rec, tracks |-> ts] \in Search
  BY DEF Search, DInv, TypeOK, Tracks
<1>3. search' \in [Editor -> Search \cup {None}]
  BY <1>1, <1>2 DEF DInv, TypeOK
<1>4. UNCHANGED <<catalogue, governance, files, page, work, edits>>
  BY DEF StartSearch
<1>5. Tracks' = Tracks /\ TracksPlay' /\ LinksStay' /\ FilesPlay'
  BY <1>4 DEF catalogue, Tracks, DInv, TracksPlay, LinksStay, FilesPlay
<1>6. LocksHold'
  BY <1>1, <1>5 DEF DInv, LocksHold, TypeOK
<1>. QED BY <1>3, <1>4, <1>5, <1>6 DEF catalogue, governance, files, work, DInv, TypeOK

\* A search that ends has no effect.
LEMMA EndSearchBase ==
  ASSUME DInv, NEW e \in Editor, EndSearch(e)
  PROVE  DInv'
<1>1. search' \in [Editor -> Search \cup {None}] /\ \A f \in Editor : search'[f] \in {search[f], None}
  BY DEF EndSearch, DInv, TypeOK
<1>2. TracksPlay' /\ LinksStay' /\ FilesPlay' /\ LocksHold'
  BY <1>1, PlayKept DEF EndSearch, catalogue
<1>. QED BY <1>1, <1>2 DEF EndSearch, catalogue, governance, files, work, DInv, TypeOK

\* The pairs that are recorded with a new recording.
LEMMA PairsType ==
  ASSUME NEW r \in Rec, NEW e, NEW v
  PROVE  PairsWith(r, e, v) \subseteq SUBSET Rec
BY DEF PairsWith, Found, Candidates, SameIsrc

\* What a form does with the recording it is for: it is there, or is created after a
\* search (resolve_release_track_recording, create_managed_recording).
Obtained(e, r) ==
  \/ rec[r] # None /\ UNCHANGED <<rec, pairs, search>>
  \/ /\ rec[r] = None
     /\ \E v \in Values : /\ rec' = [rec EXCEPT ![r] = v]
                          /\ pairs' = pairs \cup PairsWith(r, e, v)
     /\ search' = [search EXCEPT ![e] = None]

\* A recording that is there, or is created, is there afterwards.
LEMMA ObtainedRecording ==
  ASSUME DInv, NEW e \in Editor, NEW r \in Rec, Obtained(e, r)
  PROVE  /\ rec' \in [Rec -> Values \cup {None}] /\ rec'[r] # None
         /\ \A q \in Rec : rec[q] # None => rec'[q] # None
         /\ pairs' \subseteq SUBSET Rec
         /\ search' \in [Editor -> Search \cup {None}]
         /\ \A f \in Editor : search'[f] \in {search[f], None}
<1>1. CASE rec[r] # None
  BY <1>1 DEF Obtained, DInv, TypeOK
<1>2. CASE rec[r] = None
  <2>1. PICK v \in Values :
          rec' = [rec EXCEPT ![r] = v] /\ pairs' = pairs \cup PairsWith(r, e, v)
    BY <1>2 DEF Obtained
  <2>2. pairs' \subseteq SUBSET Rec
    BY <2>1, PairsType DEF DInv, TypeOK
  <2>3. search' = [search EXCEPT ![e] = None]
    BY <1>2 DEF Obtained
  <2>4. rec' \in [Rec -> Values \cup {None}] /\ rec'[r] # None
    BY <2>1, NoneAssumption DEF DInv, TypeOK
  <2>5. \A q \in Rec : rec[q] # None => rec'[q] # None
    BY <2>1, NoneAssumption DEF DInv, TypeOK
  <2>6. /\ search' \in [Editor -> Search \cup {None}]
        /\ \A f \in Editor : search'[f] \in {search[f], None}
    BY <2>3 DEF DInv, TypeOK
  <2>. QED BY <2>2, <2>4, <2>5, <2>6
<1>. QED BY <1>1, <1>2

\* The track of the workbench is one of a recording that it obtains.
LEMMA AddTrackForm ==
  ASSUME NEW e \in Editor, NEW t \in Track, AddTrack(e, t)
  PROVE  \E r \in Rec, n \in Position :
           /\ Edit /\ track[t] = None
           /\ track' = [track EXCEPT ![t] = [seq |-> n, rec |-> r]]
           /\ Obtained(e, r)
           /\ UNCHANGED <<release, governance, page>>
           /\ Mark({r})
<1>1. PICK r \in Rec, n \in Position :
        /\ track' = [track EXCEPT ![t] = [seq |-> n, rec |-> r]]
        /\ \/ rec[r] # None /\ UNCHANGED <<rec, pairs, search>>
           \/ /\ rec[r] = None
              /\ \E v \in Values, force \in BOOLEAN :
                   /\ Creatable(e, v, force) /\ search[e].tracks = None
                   /\ v.credit = None
                   /\ rec' = [rec EXCEPT ![r] = v]
                   /\ pairs' = pairs \cup PairsWith(r, e, v)
                   /\ Searched(e)
        /\ UNCHANGED <<release, governance, page>>
        /\ Mark({r})
  BY DEF AddTrack
<1>2. Obtained(e, r)
  BY <1>1 DEF Obtained, Searched
<1>3. Edit /\ track[t] = None
  BY DEF AddTrack
<1>. QED BY <1>1, <1>2, <1>3

\* A managed recording is one the form obtains.
LEMMA ManagedAddForm ==
  ASSUME NEW e \in Editor, NEW r \in Rec, ManagedAdd(e, r)
  PROVE  Obtained(e, r)
BY DEF ManagedAdd, Obtained, Searched

\* A new track keeps the invariant: its recording exists.
LEMMA AddTrackBase ==
  ASSUME DInv, NEW e \in Editor, NEW t \in Track, AddTrack(e, t)
  PROVE  DInv'
<1>1. PICK r \in Rec, n \in Position :
        /\ Edit /\ track[t] = None
        /\ track' = [track EXCEPT ![t] = [seq |-> n, rec |-> r]]
        /\ Obtained(e, r)
        /\ UNCHANGED <<release, governance, page>>
        /\ Mark({r})
  BY AddTrackForm
<1>2. /\ rec' \in [Rec -> Values \cup {None}] /\ rec'[r] # None
      /\ \A q \in Rec : rec[q] # None => rec'[q] # None
      /\ pairs' \subseteq SUBSET Rec
      /\ search' \in [Editor -> Search \cup {None}]
      /\ \A f \in Editor : search'[f] \in {search[f], None}
  BY <1>1, ObtainedRecording
<1>3. [seq |-> n, rec |-> r] \in TrackRow
  BY DeskAssumption DEF TrackRow
<1>4. track' \in [Track -> TrackRow \cup {None, Gone}]
  BY <1>1, <1>3 DEF DInv, TypeOK
<1>5. /\ t \notin Tracks
      /\ \A u \in Track : track'[u] = IF u = t THEN [seq |-> n, rec |-> r] ELSE track[u]
  BY <1>1 DEF Tracks, DInv, TypeOK
<1>6. TracksPlay'
  <2>1. ASSUME NEW u \in Track, track'[u] \notin {None, Gone}
        PROVE  rec'[track'[u].rec] # None
    <3>1. CASE u = t
      BY <1>2, <1>5, <3>1
    <3>2. CASE u # t
      <4>1. u \in Tracks /\ track'[u] = track[u]
        BY <1>5, <2>1, <3>2 DEF Tracks
      <4>2. rec[track[u].rec] # None /\ track[u].rec \in Rec
        BY <4>1 DEF DInv, TracksPlay, TypeOK, Tracks, TrackRow
      <4>. QED BY <1>2, <4>1, <4>2
    <3>. QED BY <3>1, <3>2
  <2>. QED BY <2>1 DEF TracksPlay, Tracks
<1>7. Tracks \subseteq Tracks'
  BY <1>5 DEF Tracks
<1>8. LinksStay' /\ LocksHold'
  BY <1>2, <1>7 DEF DInv, LinksStay, LocksHold
<1>9. FilesPlay'
  BY <1>2, DeskAssumption DEF DInv, FilesPlay
<1>10. status' \in [Asset -> FileStatus] /\ edits' \in 0..MaxEdits
  BY <1>1, MarkType, EditType DEF DInv
<1>11. UNCHANGED <<release, library, managed, claim, period, page, tags, job, overtaken>>
  BY <1>1 DEF Mark, governance, work
<1>. QED BY <1>2, <1>4, <1>6, <1>8, <1>9, <1>10, <1>11 DEF DInv, TypeOK

\* A new managed recording keeps the invariant (create_managed_recording).
LEMMA ManagedAddBase ==
  ASSUME DInv, NEW e \in Editor, NEW r \in Rec, ManagedAdd(e, r)
  PROVE  DInv'
<1>1. Obtained(e, r)
  BY ManagedAddForm
<1>2. /\ rec' \in [Rec -> Values \cup {None}] /\ pairs' \subseteq SUBSET Rec
      /\ \A q \in Rec : rec[q] # None => rec'[q] # None
      /\ search' \in [Editor -> Search \cup {None}]
      /\ \A f \in Editor : search'[f] \in {search[f], None}
  BY <1>1, ObtainedRecording
<1>3. TracksPlay' /\ LinksStay' /\ FilesPlay' /\ LocksHold'
  BY <1>2, PlayKept DEF ManagedAdd
<1>4. /\ library' \subseteq Rec /\ managed' \subseteq Rec
      /\ claim' \in [Rec -> Claim] /\ period' \in [Rec -> Period]
  BY DEF ManagedAdd, DInv, TypeOK, Claim, Period
<1>5. status' \in [Asset -> FileStatus] /\ edits' \in 0..MaxEdits
  BY MarkType, EditType DEF ManagedAdd, DInv
<1>. QED BY <1>2, <1>3, <1>4, <1>5 DEF ManagedAdd, Mark, work, DInv, TypeOK

\* A new recording of the library keeps the invariant.
LEMMA LibraryAddBase ==
  ASSUME DInv, NEW r \in Rec, LibraryAdd(r)
  PROVE  DInv'
<1>1. TracksPlay' /\ LinksStay' /\ FilesPlay' /\ LocksHold'
  BY PlayKept DEF LibraryAdd, catalogue
<1>2. edits' \in 0..MaxEdits /\ library' \subseteq Rec
  BY EditType DEF LibraryAdd, DInv, TypeOK
<1>. QED BY <1>1, <1>2 DEF LibraryAdd, catalogue, files, work, DInv, TypeOK

\* A claim keeps the invariant: it touches no track and no file.
LEMMA ClaimRightsBase ==
  ASSUME DInv, NEW r \in Rec, ClaimRights(r)
  PROVE  DInv'
<1>1. TracksPlay' /\ LinksStay' /\ FilesPlay' /\ LocksHold'
  BY PlayKept DEF ClaimRights, catalogue
<1>2. claim' \in [Rec -> Claim] /\ period' \in [Rec -> Period]
  BY DeskAssumption DEF ClaimRights, DInv, TypeOK, Claim
<1>3. status' \in [Asset -> FileStatus] /\ edits' \in 0..MaxEdits
  BY MarkType, EditType DEF ClaimRights, DInv
<1>. QED BY <1>1, <1>2, <1>3 DEF ClaimRights, Mark, catalogue, work, DInv, TypeOK

\* So does a day on which its period begins or ends.
LEMMA DayPassesBase ==
  ASSUME DInv, NEW r \in Rec, DayPasses(r)
  PROVE  DInv'
<1>1. TracksPlay' /\ LinksStay' /\ FilesPlay' /\ LocksHold'
  BY PlayKept DEF DayPasses, catalogue
<1>2. period' \in [Rec -> Period] /\ edits' \in 0..MaxEdits
  BY EditType DEF DayPasses, DInv, TypeOK, Period
<1>. QED BY <1>1, <1>2 DEF DayPasses, catalogue, files, work, DInv, TypeOK

\* A page that is opened has rows of their type.
LEMMA OpenPageBase ==
  ASSUME DInv, NEW e \in Editor, OpenPage(e)
  PROVE  DInv'
<1>1. ASSUME NEW t \in Tracks PROVE RowOf(t) \in PageRow
  <2>1. track[t] \in TrackRow /\ rec[track[t].rec] # None
    BY <1>1 DEF DInv, TypeOK, TracksPlay, Tracks
  <2>2. track[t].rec \in Rec /\ track[t].seq \in Nat \ {0} /\ rec[track[t].rec] \in Values
    BY <2>1 DEF DInv, TypeOK, TrackRow
  <2>. QED BY <2>2 DEF RowOf, PageRow
<1>2. Tracks \subseteq Track
  BY DEF Tracks
<1>3. \A f \in Editor : page'[f] # None => /\ DOMAIN page'[f] \subseteq Track
                                           /\ \A t \in DOMAIN page'[f] : page'[f][t] \in PageRow
  <2>1. ASSUME NEW f \in Editor, page'[f] # None
        PROVE  /\ DOMAIN page'[f] \subseteq Track
               /\ \A t \in DOMAIN page'[f] : page'[f][t] \in PageRow
    <3>1. CASE page'[f] = page[f]
      BY <2>1, <3>1 DEF DInv, TypeOK
    <3>2. CASE page'[f] = [t \in Tracks |-> RowOf(t)]
      BY <1>1, <1>2, <3>2
    <3>. QED BY <3>1, <3>2 DEF OpenPage
  <2>. QED BY <2>1
<1>4. TracksPlay' /\ LinksStay' /\ FilesPlay' /\ LocksHold'
  BY PlayKept DEF OpenPage, catalogue
<1>5. DOMAIN page' = Editor
  BY DEF OpenPage, DInv, TypeOK
<1>. QED BY <1>3, <1>4, <1>5 DEF OpenPage, catalogue, governance, files, work, DInv, TypeOK

\* A submitted track list keeps the invariant (save_release_track_rows).
LEMMA SaveGridBase ==
  ASSUME DInv, NEW e \in Editor, SaveGrid(e)
  PROVE  DInv'
<1>1. TypeOK /\ page[e] # None
  BY DEF DInv, SaveGrid
<1>2. PICK rows \in Submissions(page[e]), own \in Rec :
        \E fresh \in [DOMAIN rows -> Track] : \E locked : Grid(rows, own, fresh, locked, e)
  BY GridOf
<1>3. PICK fresh \in [DOMAIN rows -> Track] : \E locked : Grid(rows, own, fresh, locked, e)
  BY <1>2
<1>b. PICK locked : Grid(rows, own, fresh, locked, e)
  BY <1>3
<1>4. /\ track' \in [Track -> TrackRow \cup {None, Gone}]
      /\ \A t \in Tracks \ DOMAIN page[e] :
           track'[t] \in TrackRow /\ track'[t].rec = track[t].rec
      /\ \A t \in Tracks \cap DOMAIN rows : ~rows[t].remove => track'[t] \in TrackRow
      /\ \A t \in Track : track'[t] \in TrackRow =>
           \/ t \in Tracks /\ track'[t].rec = track[t].rec
           \/ \E u \in DOMAIN rows :
                /\ ~rows[u].remove
                /\ track'[t].rec = IF rows[u].rec = None THEN own ELSE rows[u].rec
  BY <1>1, <1>b, GridTracks
<1>5. /\ rec' \in [Rec -> Values \cup {None}]
      /\ \A r \in Rec : rec[r] # None => rec'[r] # None
      /\ Asks(rows) # {} => rec'[own] # None
  BY <1>1, <1>b, GridRecordings
<1>6. /\ DOMAIN page[e] \subseteq DOMAIN rows
      /\ \A t \in DOMAIN rows : rows[t] \in PageRow
      /\ \A t \in DOMAIN rows \ DOMAIN page[e] : track[t] = None
  BY <1>1, <1>2, SubmittedRows
<1>7. ASSUME NEW u \in DOMAIN rows, ~rows[u].remove,
             NEW r, r = IF rows[u].rec = None THEN own ELSE rows[u].rec
      PROVE  rec'[r] # None
  <2>1. CASE rows[u].rec = None
    BY <1>5, <1>7, <2>1 DEF Asks
  <2>2. CASE rows[u].rec # None
    <3>1. rec[rows[u].rec] # None /\ rows[u].rec \in Rec
      BY <1>b, <1>6, <1>7, <2>2 DEF Grid, RowsValid, PageRow
    <3>. QED BY <1>5, <1>7, <2>2, <3>1
  <2>. QED BY <2>1, <2>2
<1>8. TracksPlay'
  <2>1. ASSUME NEW t \in Track, track'[t] \notin {None, Gone}
        PROVE  rec'[track'[t].rec] # None
    <3>1. track'[t] \in TrackRow
      BY <1>4, <2>1
    <3>2. CASE t \in Tracks /\ track'[t].rec = track[t].rec
      <4>1. track[t] \in TrackRow /\ rec[track[t].rec] # None
        BY <3>2 DEF DInv, TypeOK, TracksPlay, Tracks
      <4>2. track[t].rec \in Rec
        BY <4>1 DEF TrackRow
      <4>. QED BY <1>5, <3>2, <4>1, <4>2
    <3>3. CASE \E u \in DOMAIN rows :
                 /\ ~rows[u].remove
                 /\ track'[t].rec = IF rows[u].rec = None THEN own ELSE rows[u].rec
      BY <1>7, <3>3
    <3>. QED BY <1>4, <3>1, <3>2, <3>3
  <2>. QED BY <2>1 DEF TracksPlay, Tracks
<1>9. LinksStay'
  <2>1. ASSUME NEW a \in Asset, TrackOf[a] # None
        PROVE  TrackOf[a] \in Track /\ track'[TrackOf[a]] \in TrackRow
    <3>1. TrackOf[a] \in Tracks /\ TrackOf[a] \in Track
      BY <2>1 DEF DInv, LinksStay, Tracks
    <3>2. CASE TrackOf[a] \in DOMAIN rows
      <4>1. ~rows[TrackOf[a]].remove
        BY <1>b, <3>2 DEF Grid, RowsValid
      <4>. QED BY <1>4, <3>1, <3>2, <4>1
    <3>3. CASE TrackOf[a] \notin DOMAIN rows
      BY <1>4, <1>6, <3>1, <3>3
    <3>. QED BY <3>1, <3>2, <3>3
  <2>. QED BY <2>1, NoneAssumption, GoneAssumption DEF LinksStay, Tracks
<1>10. FilesPlay'
  BY <1>5, DeskAssumption DEF DInv, FilesPlay
<1>11. search' = [search EXCEPT ![e] = None] /\ ~ Locked(e)
  BY DEF SaveGrid, Searched
<1>12. search' \in [Editor -> Search \cup {None}] /\ LocksHold'
  BY <1>11 DEF Locked, LocksHold, DInv, TypeOK
<1>13. pairs' \subseteq SUBSET Rec
  <2>1. UNION {PairsWith(own, e, rows[t].values) : t \in Asks(rows)} \subseteq SUBSET Rec
    BY PairsType
  <2>. QED BY <1>b, <2>1 DEF Grid, DInv, TypeOK
<1>14. edits' \in 0..MaxEdits
  BY <1>1, EditType DEF SaveGrid
<1>15. DOMAIN page' = Editor /\ \A f \in Editor : page'[f] # None => page'[f] = page[f]
  BY DEF SaveGrid, DInv, TypeOK
<1>. QED BY <1>4, <1>5, <1>8, <1>9, <1>10, <1>12, <1>13, <1>14, <1>15
     DEF SaveGrid, governance, files, work, DInv, TypeOK

\* A synchronisation leaves the catalogue, the governance and the pages alone.
LEMMA OnlyFilesBase ==
  ASSUME DInv, OnlyFiles,
         status' \in [Asset -> FileStatus], tags' \in [Asset -> Tags],
         job' \in [Worker -> Job \cup {None}], overtaken' \subseteq Worker
  PROVE  DInv'
<1>1. TracksPlay' /\ LinksStay' /\ FilesPlay' /\ LocksHold'
  BY PlayKept DEF OnlyFiles, catalogue
<1>. QED BY <1>1 DEF OnlyFiles, catalogue, governance, DInv, TypeOK

\* The choice of a file to synchronise keeps the invariant (sync_flac_tags).
LEMMA SelectFileBase ==
  ASSUME DInv, NEW w \in Worker, NEW a \in Asset, SelectFile(w, a)
  PROVE  DInv'
<1>1. [asset |-> a, at |-> "selected", tags |-> None] \in Job
  BY DEF Job
<1>2. job' \in [Worker -> Job \cup {None}]
  BY <1>1 DEF SelectFile, DInv, TypeOK
<1>. QED BY <1>2, OnlyFilesBase DEF SelectFile, files, DInv, TypeOK

\* A job that runs is one of a file.
LEMMA JobFields ==
  ASSUME TypeOK, NEW w \in Worker, job[w] # None
  PROVE  /\ job[w] \in Job /\ job[w].asset \in Asset
         /\ job[w].at # "selected" => job[w].tags \in Tags
BY DEF TypeOK, Job

\* A job that ends leaves the others.
LEMMA FinishedType ==
  ASSUME TypeOK, NEW w \in Worker, Finished(w)
  PROVE  job' \in [Worker -> Job \cup {None}] /\ overtaken' \subseteq Worker
BY DEF TypeOK, Finished

\* So does the reading of the catalogue (_catalogue_tags).
LEMMA ReadCatalogueBase ==
  ASSUME DInv, NEW w \in Worker, ReadCatalogue(w)
  PROVE  DInv'
<1>1. PICK a \in Asset : a = job[w].asset
  BY JobFields DEF ReadCatalogue, DInv
<1>2. CASE Governed(RecOf[a])
  <2>1. CatalogueTags(a) \in Tags /\ job[w] \in Job
    BY CatalogueTagsType, JobFields DEF ReadCatalogue, DInv
  <2>2. [job[w] EXCEPT !.at = "read", !.tags = CatalogueTags(a)] \in Job
    BY <2>1 DEF Job
  <2>3. job' = [job EXCEPT ![w] = [job[w] EXCEPT !.at = "read", !.tags = CatalogueTags(a)]]
    BY <1>1, <1>2, <2>1 DEF ReadCatalogue, DInv, TypeOK, Job
  <2>4. job' \in [Worker -> Job \cup {None}]
    BY <2>2, <2>3 DEF DInv, TypeOK
  <2>. QED BY <1>1, <1>2, <2>4, OnlyFilesBase DEF ReadCatalogue, DInv, TypeOK
<1>3. CASE ~ Governed(RecOf[a])
  <2>1. /\ job' \in [Worker -> Job \cup {None}] /\ status' \in [Asset -> FileStatus]
        /\ overtaken' \subseteq Worker
    BY <1>1, <1>3, FinishedType DEF ReadCatalogue, DInv, TypeOK, FileStatus
  <2>. QED BY <1>1, <1>3, <2>1, OnlyFilesBase DEF ReadCatalogue, DInv, TypeOK
<1>. QED BY <1>2, <1>3

\* So does the writing of the tags.
LEMMA WriteTagsBase ==
  ASSUME DInv, NEW w \in Worker, WriteTags(w)
  PROVE  DInv'
<1>1. PICK written \in BOOLEAN, fails \in BOOLEAN :
        /\ tags' = IF written THEN [tags EXCEPT ![job[w].asset] = job[w].tags] ELSE tags
        /\ overtaken' = IF written THEN (overtaken \ {w}) \cup Reading(job[w].asset, w)
                                   ELSE overtaken
        /\ job' = [job EXCEPT ![w].at = IF fails THEN "failed" ELSE "written"]
  BY DEF WriteTags
<1>2. job[w] \in Job /\ job[w].at = "read"
  BY JobFields DEF WriteTags, DInv
<1>3. [job[w] EXCEPT !.at = IF fails THEN "failed" ELSE "written"] \in Job
  BY <1>2 DEF Job
<1>4. job' \in [Worker -> Job \cup {None}]
  BY <1>1, <1>3 DEF DInv, TypeOK
<1>5. tags' \in [Asset -> Tags]
  BY <1>1, <1>2 DEF DInv, TypeOK, Job
<1>6. overtaken' \subseteq Worker
  BY <1>1 DEF Reading, DInv, TypeOK
<1>. QED BY <1>4, <1>5, <1>6, OnlyFilesBase DEF WriteTags, DInv, TypeOK

\* So does the status that is saved in the end (sync_file_asset).
LEMMA SaveStatusBase ==
  ASSUME DInv, NEW w \in Worker, SaveStatus(w)
  PROVE  DInv'
<1>1. PICK a \in Asset : a = job[w].asset
  BY JobFields DEF SaveStatus, DInv
<1>2. status' \in [Asset -> FileStatus]
  BY <1>1 DEF SaveStatus, Outcome, DInv, TypeOK, FileStatus
<1>3. job' \in [Worker -> Job \cup {None}] /\ overtaken' \subseteq Worker
  BY FinishedType DEF SaveStatus, DInv
<1>. QED BY <1>2, <1>3, OnlyFilesBase DEF SaveStatus, DInv, TypeOK

\* So does a file that is read again (apply_item).
LEMMA ParseFileBase ==
  ASSUME DInv, NEW w \in Worker, NEW a \in Asset, ParseFile(w, a)
  PROVE  DInv'
<1>1. [asset |-> a, at |-> "parsed", tags |-> tags[a]] \in Job
  BY DEF Job, DInv, TypeOK
<1>2. job' \in [Worker -> Job \cup {None}]
  BY <1>1 DEF ParseFile, DInv, TypeOK
<1>. QED BY <1>2, OnlyFilesBase DEF ParseFile, files, DInv, TypeOK

\* And what is saved of it.
LEMMA SaveParsedBase ==
  ASSUME DInv, NEW w \in Worker, SaveParsed(w)
  PROVE  DInv'
<1>1. PICK a \in Asset : a = job[w].asset
  BY JobFields DEF SaveParsed, DInv
<1>2. status' \in [Asset -> FileStatus]
  BY <1>1 DEF SaveParsed, Compared, DInv, TypeOK, FileStatus
<1>3. job' \in [Worker -> Job \cup {None}] /\ overtaken' \subseteq Worker
  BY FinishedType DEF SaveParsed, DInv
<1>. QED BY <1>2, <1>3, OnlyFilesBase DEF SaveParsed, DInv, TypeOK

\* Every change of a recording is one of its values.
LEMMA RecordingChanges ==
  ASSUME DInv, NEW r \in Rec, EditRecording(r) \/ AddIdentifier(r) \/ AddContribution(r)
  PROVE  \E values \in Values : SaveRecording(r, values)
<1>1. rec[r] \in Values
  BY DEF EditRecording, AddIdentifier, AddContribution, SaveRecording, DInv, TypeOK
<1>2. CASE EditRecording(r)
  <2>1. PICK t \in Title : SaveRecording(r, [rec[r] EXCEPT !.title = t])
    BY <1>2 DEF EditRecording
  <2>. QED BY <1>1, <2>1 DEF Values
<1>3. CASE AddIdentifier(r)
  <2>1. PICK i \in Isrc : SaveRecording(r, [rec[r] EXCEPT !.isrc = i])
    BY <1>3 DEF AddIdentifier
  <2>. QED BY <1>1, <2>1 DEF Values
<1>4. CASE AddContribution(r)
  <2>1. PICK n \in Name : SaveRecording(r, [rec[r] EXCEPT !.credit = n])
    BY <1>4 DEF AddContribution
  <2>. QED BY <1>1, <2>1 DEF Values
<1>. QED BY <1>2, <1>3, <1>4

\* Every step keeps the invariant.
LEMMA StepBase == DInv /\ [Next]_vars => DInv'
<1>. SUFFICES ASSUME DInv, [Next]_vars PROVE DInv'
  OBVIOUS
<1>1. ASSUME NEW r \in Rec, EditRecording(r) \/ AddIdentifier(r) \/ AddContribution(r)
      PROVE  DInv'
  BY <1>1, RecordingChanges, SaveRecordingBase
<1>2. ASSUME NEW r \in Rec, LibraryAdd(r) \/ ClaimRights(r) \/ DayPasses(r)
      PROVE  DInv'
  BY <1>2, LibraryAddBase, ClaimRightsBase, DayPassesBase
<1>3. CASE EditRelease \/ AddReleaseIdentifier
  BY <1>3, EditReleaseBase, AddReleaseIdentifierBase
<1>4. ASSUME NEW e \in Editor, StartSearch(e) \/ EndSearch(e) \/ OpenPage(e) \/ SaveGrid(e)
      PROVE  DInv'
  BY <1>4, StartSearchBase, EndSearchBase, OpenPageBase, SaveGridBase
<1>5. ASSUME NEW e \in Editor, NEW t \in Track, AddTrack(e, t) PROVE DInv'
  BY <1>5, AddTrackBase
<1>6. ASSUME NEW e \in Editor, NEW r \in Rec, ManagedAdd(e, r) PROVE DInv'
  BY <1>6, ManagedAddBase
<1>7. ASSUME NEW w \in Worker, NEW a \in Asset, SelectFile(w, a) \/ ParseFile(w, a)
      PROVE  DInv'
  BY <1>7, SelectFileBase, ParseFileBase
<1>8. ASSUME NEW w \in Worker,
             ReadCatalogue(w) \/ WriteTags(w) \/ SaveStatus(w) \/ SaveParsed(w)
      PROVE  DInv'
  BY <1>8, ReadCatalogueBase, WriteTagsBase, SaveStatusBase, SaveParsedBase
<1>9. CASE UNCHANGED vars
  <2>1. TracksPlay' /\ LinksStay' /\ FilesPlay' /\ LocksHold'
    BY <1>9, PlayKept DEF vars, catalogue
  <2>. QED BY <1>9, <2>1 DEF vars, catalogue, governance, files, work, DInv, TypeOK
<1>. QED BY <1>1, <1>2, <1>3, <1>4, <1>5, <1>6, <1>7, <1>8, <1>9 DEF Next

\* Rows, files, searches and jobs have their types; tracks and files have recordings
\* that are there; a linked track, and one that a track list has locked, stays.
THEOREM TypeCorrect == Spec => []DInv
BY InitBase, StepBase, PTL DEF Spec

-----------------------------------------------------------------------------
(* What a late track list may not do, and what creation must.              *)

\* A step that ends a page takes no track the page did not show from its recording.
LEMMA UnseenStep ==
  ASSUME DInv, [Next]_vars, NEW e \in Editor, page[e] # None, page'[e] = None,
         NEW t \in Tracks \ DOMAIN page[e]
  PROVE  track'[t] \notin {None, Gone} /\ track'[t].rec = track[t].rec
<1>1. SaveGrid(e)
  <2>1. \E f \in Editor : OpenPage(f) \/ SaveGrid(f)
    BY DEF Next, vars, SaveRecording, EditRecording, AddIdentifier, AddContribution,
       ManagedAdd, LibraryAdd, ClaimRights, DayPasses, EditRelease, AddReleaseIdentifier,
       StartSearch, EndSearch, AddTrack, SelectFile, ReadCatalogue, WriteTags, SaveStatus,
       ParseFile, SaveParsed, OnlyFiles
  <2>2. PICK f \in Editor : OpenPage(f) \/ SaveGrid(f)
    BY <2>1
  <2>3. f = e
    BY <2>2 DEF OpenPage, SaveGrid, DInv, TypeOK
  <2>4. ~ OpenPage(e)
    BY DEF OpenPage
  <2>. QED BY <2>2, <2>3, <2>4
<1>2. PICK rows \in Submissions(page[e]), own \in Rec :
        \E fresh \in [DOMAIN rows -> Track] : \E locked : Grid(rows, own, fresh, locked, e)
  BY <1>1, GridOf
<1>3. PICK fresh \in [DOMAIN rows -> Track] : \E locked : Grid(rows, own, fresh, locked, e)
  BY <1>2
<1>4. track'[t] \in TrackRow /\ track'[t].rec = track[t].rec
  BY <1>3, GridTracks
<1>. QED BY <1>4, NoneAssumption, GoneAssumption

\* A submitted page leaves the tracks it did not show with their recordings
\* (gui_v2.services.save_release_track_rows).
THEOREM UnseenTracksKept == Spec => UnseenKept
<1>1. DInv /\ [Next]_vars =>
        [\A e \in Editor : page[e] # None /\ page'[e] = None =>
           \A t \in Tracks \ DOMAIN page[e] :
             track'[t] \notin {None, Gone} /\ track'[t].rec = track[t].rec]_vars
  BY UnseenStep
<1>. QED BY <1>1, TypeCorrect, PTL DEF Spec, UnseenKept

\* A form that obtains a recording of its own pairs it with what it found.
LEMMA ObtainedPairs ==
  ASSUME DInv, NEW f \in Editor, NEW q \in Rec, Obtained(f, q),
         NEW r \in Rec, NEW s \in Rec, NEW e \in Editor,
         rec[r] = None, rec'[r] # None, search[e] # None, search'[e] = None,
         rec[s] # None, search[e].seen[s] = rec[s], Fold(rec'[r].title) = Fold(rec[s].title)
  PROVE  {r, s} \in pairs'
<1>1. PICK v \in Values : /\ rec' = [rec EXCEPT ![q] = v]
                          /\ pairs' = pairs \cup PairsWith(q, f, v)
  BY DEF Obtained
<1>2. search' = [search EXCEPT ![f] = None]
  BY DEF Obtained
<1>3. f = e
  BY <1>2 DEF DInv, TypeOK
<1>4. q = r /\ rec'[r] = v
  BY <1>1 DEF DInv, TypeOK
<1>5. s \in Found(e, v)
  BY <1>4 DEF Found, Candidates
<1>. QED BY <1>1, <1>3, <1>4, <1>5 DEF PairsWith

\* What is created is created by one of three forms, with its pairs.
LEMMA CreatedPairs ==
  ASSUME DInv, [Next]_vars, NEW r \in Rec, NEW s \in Rec, NEW e \in Editor,
         rec[r] = None, rec'[r] # None, search[e] # None, search'[e] = None,
         rec[s] # None, search[e].seen[s] = rec[s], Fold(rec'[r].title) = Fold(rec[s].title)
  PROVE  {r, s} \in pairs'
<1>1. ASSUME NEW f \in Editor, NEW t \in Track, AddTrack(f, t)
      PROVE  {r, s} \in pairs'
  <2>1. PICK q \in Rec : Obtained(f, q)
    BY <1>1, AddTrackForm
  <2>. QED BY <2>1, ObtainedPairs
<1>2. ASSUME NEW f \in Editor, NEW q \in Rec, ManagedAdd(f, q)
      PROVE  {r, s} \in pairs'
  BY <1>2, ManagedAddForm, ObtainedPairs
<1>3. ASSUME NEW f \in Editor, SaveGrid(f)
      PROVE  {r, s} \in pairs'
  <2>1. PICK rows \in Submissions(page[f]), own \in Rec :
          \E fresh \in [DOMAIN rows -> Track] : \E locked : Grid(rows, own, fresh, locked, f)
    BY <1>3, GridOf
  <2>2. PICK fresh \in [DOMAIN rows -> Track] : \E locked : Grid(rows, own, fresh, locked, f)
    BY <2>1
  <2>3. PICK locked : Grid(rows, own, fresh, locked, f)
    BY <2>2
  <2>4. page[f] # None /\ search' = [search EXCEPT ![f] = None]
    BY <1>3 DEF SaveGrid, Searched
  <2>5. f = e
    BY <2>4 DEF DInv, TypeOK
  <2>6. r = own /\ \E t \in Asks(rows) : rec'[r] = rows[t].values
    BY <2>3, <2>4, GridRecordings DEF DInv
  <2>7. PICK t \in Asks(rows) : rec'[r] = rows[t].values
    BY <2>6
  <2>8. s \in Found(e, rows[t].values)
    BY <2>7 DEF Found, Candidates
  <2>9. {r, s} \in PairsWith(own, f, rows[t].values)
    BY <2>5, <2>6, <2>8 DEF PairsWith
  <2>. QED BY <2>3, <2>9 DEF Grid
<1>4. ASSUME NEW q \in Rec, EditRecording(q) \/ AddIdentifier(q) \/ AddContribution(q)
      PROVE  FALSE
  <2>1. PICK values \in Values : SaveRecording(q, values)
    BY <1>4, RecordingChanges
  <2>. QED BY <2>1 DEF SaveRecording, DInv, TypeOK
<1>5. ASSUME NEW q \in Rec, LibraryAdd(q) \/ ClaimRights(q) \/ DayPasses(q)
      PROVE  FALSE
  BY <1>5 DEF LibraryAdd, ClaimRights, DayPasses, catalogue
<1>6. CASE EditRelease \/ AddReleaseIdentifier \/ UNCHANGED vars
  BY <1>6 DEF EditRelease, AddReleaseIdentifier, vars, catalogue
<1>7. ASSUME NEW f \in Editor, StartSearch(f) \/ EndSearch(f) \/ OpenPage(f)
      PROVE  FALSE
  BY <1>7 DEF StartSearch, EndSearch, OpenPage, catalogue
<1>8. ASSUME OnlyFiles PROVE FALSE
  BY <1>8 DEF OnlyFiles, catalogue
<1>9. ASSUME NEW w \in Worker, NEW a \in Asset, SelectFile(w, a) \/ ParseFile(w, a)
      PROVE  FALSE
  BY <1>8, <1>9 DEF SelectFile, ParseFile
<1>10. ASSUME NEW w \in Worker,
              ReadCatalogue(w) \/ WriteTags(w) \/ SaveStatus(w) \/ SaveParsed(w)
       PROVE  FALSE
  BY <1>8, <1>10 DEF ReadCatalogue, WriteTags, SaveStatus, SaveParsed
<1>. QED BY <1>1, <1>2, <1>3, <1>4, <1>5, <1>6, <1>7, <1>9, <1>10 DEF Next

\* A recording that a form creates is recorded with every similar one its search has
\* met (find_recording_candidates, create_managed_recording), however late it is saved.
THEOREM EveryDuplicateRecorded == Spec => DuplicatesRecorded
<1>1. DInv /\ [Next]_vars =>
        [\A r, s \in Rec, e \in Editor :
           /\ rec[r] = None /\ rec'[r] # None
           /\ search[e] # None /\ search'[e] = None
           /\ rec[s] # None /\ search[e].seen[s] = rec[s]
           /\ Fold(rec'[r].title) = Fold(rec[s].title)
           => {r, s} \in pairs']_vars
  BY CreatedPairs
<1>. QED BY <1>1, TypeCorrect, PTL DEF Spec, DuplicatesRecorded

-----------------------------------------------------------------------------
(* The status of a file.                                                   *)

\* What a job has in memory is not of the step of another one.
LEMMA JobsKept ==
  ASSUME SInv, UNCHANGED <<tags, work>>
  PROVE  JobsTruthful'
BY DEF SInv, JobsTruthful, work

\* A job that ends takes its memory with it.
LEMMA FinishedKeeps ==
  ASSUME SInv, NEW w \in Worker, Finished(w), UNCHANGED tags
  PROVE  JobsTruthful'
<1>1. job'[w] = None /\ \A v \in Worker \ {w} : job'[v] = job[v]
  BY DEF Finished, SInv, DInv, TypeOK
<1>2. \A v \in Worker \ {w} : v \in overtaken => v \in overtaken'
  BY DEF Finished
<1>. QED BY <1>1, <1>2 DEF SInv, JobsTruthful

\* A job that begins has read nothing, or the file as it is.
LEMMA SelectFileJobs ==
  ASSUME SInv, NEW w \in Worker, NEW a \in Asset, SelectFile(w, a) \/ ParseFile(w, a)
  PROVE  JobsTruthful'
<1>1. UNCHANGED <<tags, overtaken>> /\ \A v \in Worker \ {w} : job'[v] = job[v]
  BY DEF SelectFile, ParseFile, files, SInv, DInv, TypeOK
<1>2. CASE SelectFile(w, a)
  <2>1. job'[w].at = "selected"
    BY <1>2 DEF SelectFile, SInv, DInv, TypeOK
  <2>. QED BY <1>1, <2>1 DEF SInv, JobsTruthful
<1>3. CASE ParseFile(w, a)
  <2>1. job'[w].asset = a /\ job'[w].tags = tags[a]
    BY <1>3 DEF ParseFile, SInv, DInv, TypeOK
  <2>. QED BY <1>1, <2>1 DEF SInv, JobsTruthful
<1>. QED BY <1>2, <1>3

\* Reading the catalogue neither writes a file nor ends with one written.
LEMMA ReadCatalogueJobs ==
  ASSUME SInv, NEW w \in Worker, ReadCatalogue(w)
  PROVE  JobsTruthful'
<1>1. UNCHANGED tags /\ job[w] \in Job
  BY JobFields DEF ReadCatalogue, SInv, DInv
<1>2. CASE Finished(w)
  BY <1>1, <1>2, FinishedKeeps
<1>3. CASE /\ job' = [job EXCEPT ![w].at = "read", ![w].tags = CatalogueTags(job[w].asset)]
           /\ UNCHANGED overtaken
  <2>1. job'[w].at = "read" /\ \A v \in Worker \ {w} : job'[v] = job[v]
    BY <1>1, <1>3 DEF SInv, DInv, TypeOK, Job
  <2>. QED BY <1>1, <1>3, <2>1 DEF SInv, JobsTruthful
<1>. QED BY <1>2, <1>3 DEF ReadCatalogue

\* What is written is what the job read; all others who have read the file are overtaken.
LEMMA WriteTagsJobs ==
  ASSUME SInv, NEW w \in Worker, WriteTags(w)
  PROVE  JobsTruthful'
<1>1. PICK b \in Asset : b = job[w].asset
  BY JobFields DEF WriteTags, SInv, DInv
<1>2. PICK written \in BOOLEAN, fails \in BOOLEAN :
        /\ written \/ fails
        /\ tags' = IF written THEN [tags EXCEPT ![b] = job[w].tags] ELSE tags
        /\ overtaken' = IF written THEN (overtaken \ {w}) \cup Reading(b, w) ELSE overtaken
        /\ job' = [job EXCEPT ![w].at = IF fails THEN "failed" ELSE "written"]
  BY <1>1 DEF WriteTags
<1>3. job[w] \in Job /\ job[w].at = "read"
  BY JobFields DEF WriteTags, SInv, DInv
<1>4. /\ job'[w].asset = b /\ job'[w].tags = job[w].tags
      /\ job'[w].at = IF fails THEN "failed" ELSE "written"
      /\ \A v \in Worker \ {w} : job'[v] = job[v]
  BY <1>1, <1>2, <1>3 DEF SInv, DInv, TypeOK, Job
<1>5. \A a \in Asset : a # b => tags'[a] = tags[a]
  BY <1>2 DEF SInv, DInv, TypeOK
<1>6. written => tags'[b] = job[w].tags
  BY <1>2 DEF SInv, DInv, TypeOK
<1>7. ASSUME NEW v \in Worker, job'[v] # None, job'[v].at \in {"written", "parsed"},
             v \notin overtaken'
      PROVE  tags'[job'[v].asset] = job'[v].tags
  <2>1. CASE v = w
    BY <1>2, <1>4, <1>6, <1>7, <2>1
  <2>2. CASE v # w
    <3>1. job'[v] = job[v] /\ job[v].asset \in Asset
      BY <1>4, <1>7, <2>2, JobFields DEF SInv, DInv
    <3>2. written => v \notin Reading(b, w) /\ v \notin overtaken
      BY <1>2, <1>7, <2>2
    <3>3. written => job[v].asset # b
      BY <1>7, <2>2, <3>1, <3>2 DEF Reading
    <3>4. v \notin overtaken
      BY <1>2, <1>7, <2>2
    <3>5. tags[job[v].asset] = job[v].tags
      BY <1>7, <3>1, <3>4 DEF SInv, JobsTruthful
    <3>6. tags'[job[v].asset] = tags[job[v].asset]
      BY <1>2, <1>5, <3>1, <3>3
    <3>. QED BY <3>1, <3>5, <3>6
  <2>. QED BY <2>1, <2>2
<1>. QED BY <1>7 DEF JobsTruthful

\* What jobs hold is true of their files at the start and after every step.
LEMMA InitJobs == Init => SInv
<1>1. Init => JobsTruthful
  BY DEF Init, JobsTruthful
<1>. QED BY <1>1, InitBase DEF SInv

LEMMA StepJobs == SInv /\ [Next]_vars => SInv'
<1>. SUFFICES ASSUME SInv, [Next]_vars PROVE JobsTruthful'
  BY StepBase DEF SInv
<1>1. ASSUME NEW r \in Rec, EditRecording(r) \/ AddIdentifier(r) \/ AddContribution(r)
      PROVE  UNCHANGED <<tags, work>>
  BY <1>1, RecordingChanges DEF SaveRecording, Mark, SInv
<1>2. ASSUME NEW r \in Rec, LibraryAdd(r) \/ ClaimRights(r) \/ DayPasses(r)
      PROVE  UNCHANGED <<tags, work>>
  BY <1>2 DEF LibraryAdd, ClaimRights, DayPasses, Mark, files
<1>3. CASE EditRelease \/ AddReleaseIdentifier \/ UNCHANGED vars
  <2>1. UNCHANGED <<tags, work>>
    BY <1>3 DEF EditRelease, AddReleaseIdentifier, Mark, vars, files
  <2>. QED BY <2>1, JobsKept
<1>4. ASSUME NEW e \in Editor, StartSearch(e) \/ EndSearch(e) \/ OpenPage(e) \/ SaveGrid(e)
      PROVE  UNCHANGED <<tags, work>>
  BY <1>4 DEF StartSearch, EndSearch, OpenPage, SaveGrid, files
<1>5. ASSUME NEW e \in Editor, NEW t \in Track, AddTrack(e, t)
      PROVE  UNCHANGED <<tags, work>>
  BY <1>5 DEF AddTrack, Mark
<1>6. ASSUME NEW e \in Editor, NEW r \in Rec, ManagedAdd(e, r)
      PROVE  UNCHANGED <<tags, work>>
  BY <1>6 DEF ManagedAdd, Mark
<1>7. ASSUME NEW w \in Worker, SaveStatus(w) \/ SaveParsed(w)
      PROVE  JobsTruthful'
  BY <1>7, FinishedKeeps DEF SaveStatus, SaveParsed
<1>. QED BY <1>1, <1>2, <1>3, <1>4, <1>5, <1>6, <1>7, JobsKept, SelectFileJobs,
            ReadCatalogueJobs, WriteTagsJobs DEF Next

\* A file is passed over by a change that leaves what its truth depends on.
Untouched(a) ==
  /\ CatalogueTags(a)' = CatalogueTags(a)
  /\ Governed(RecOf[a])' => Governed(RecOf[a])

\* A change that marks the files it touches makes no status false.
LEMMA MarkHonest ==
  ASSUME NEW R, Mark(R), NEW a \in Asset, RecOf[a] \in R \/ Untouched(a), Misled(a)'
  PROVE  Misled(a)
<1>1. status'[a] = "synced" /\ Governed(RecOf[a])'
  BY DEF Misled
<1>2. a \notin Marked(R) /\ status'[a] = status[a] /\ UNCHANGED tags
  BY <1>1 DEF Mark
<1>3. RecOf[a] \notin R
  BY <1>1, <1>2 DEF Marked, FilesOf, Governed
<1>. QED BY <1>1, <1>2, <1>3 DEF Misled, Untouched

\* A recording that is there, or is created, is the only one that changes.
LEMMA OthersUntouched ==
  ASSUME DInv, NEW r \in Rec,
         UNCHANGED rec \/ \E v \in Values : rec' = [rec EXCEPT ![r] = v],
         UNCHANGED release,
         \A q \in Rec : q # r /\ Governed(q)' => Governed(q),
         NEW a \in Asset
  PROVE  RecOf[a] \in {r} \/ Untouched(a)
<1>. SUFFICES ASSUME RecOf[a] # r PROVE Untouched(a)
  OBVIOUS
<1>1. RecOf[a] \in Rec
  BY DeskAssumption
<1>2. rec'[RecOf[a]] = rec[RecOf[a]]
  BY <1>1 DEF DInv, TypeOK
<1>3. CatalogueTags(a)' = CatalogueTags(a)
  BY <1>2 DEF CatalogueTags, BarcodeOf
<1>4. Governed(RecOf[a])' => Governed(RecOf[a])
  <2>1. PICK q \in Rec : q = RecOf[a]
    BY <1>1
  <2>2. Governed(q)' => Governed(q)
    BY <2>1
  <2>. QED BY <2>1, <2>2
<1>. QED BY <1>3, <1>4 DEF Untouched

\* A form of a recording marks the files of the recording (recording_changed).
LEMMA SaveRecordingHonest ==
  ASSUME DInv, NEW r \in Rec, NEW values \in Values, SaveRecording(r, values),
         NEW a \in Asset, Misled(a)'
  PROVE  Misled(a)
<1>1. \A q \in Rec : q # r /\ Governed(q)' => Governed(q)
  BY DEF SaveRecording, governance, Governed
<1>2. RecOf[a] \in {r} \/ Untouched(a)
  BY <1>1, OthersUntouched DEF SaveRecording
<1>. QED BY <1>2, MarkHonest DEF SaveRecording

\* A form of a release marks the files of its tracks (release_changed), if the file
\* and its track have one recording.
LEMMA EditReleaseHonest ==
  ASSUME DInv, EditRelease, NEW a \in Asset, LinkAgrees(a), Misled(a)'
  PROVE  Misled(a)
<1>1. RecOf[a] \in OnRelease \/ Untouched(a)
  <2>1. CASE TrackOf[a] = None
    BY <2>1 DEF EditRelease, governance, Untouched, CatalogueTags, Governed
  <2>2. CASE TrackOf[a] # None
    BY <2>2 DEF LinkAgrees, OnRelease, DInv, LinksStay
  <2>. QED BY <2>1, <2>2
<1>. QED BY <1>1, MarkHonest DEF EditRelease

\* A new track marks the files of its recording (release_track_changed).
LEMMA AddTrackHonest ==
  ASSUME DInv, NEW e \in Editor, NEW t \in Track, AddTrack(e, t), NEW a \in Asset, Misled(a)'
  PROVE  Misled(a)
<1>1. PICK r \in Rec : Obtained(e, r) /\ UNCHANGED <<release, governance>> /\ Mark({r})
  BY AddTrackForm
<1>2. UNCHANGED rec \/ \E v \in Values : rec' = [rec EXCEPT ![r] = v]
  BY <1>1 DEF Obtained
<1>3. \A q \in Rec : q # r /\ Governed(q)' => Governed(q)
  BY <1>1 DEF governance, Governed
<1>4. RecOf[a] \in {r} \/ Untouched(a)
  BY <1>1, <1>2, <1>3, OthersUntouched
<1>. QED BY <1>1, <1>4, MarkHonest

\* A recording that becomes managed marks its files (managed_recording_changed).
LEMMA ManagedAddHonest ==
  ASSUME DInv, NEW e \in Editor, NEW r \in Rec, ManagedAdd(e, r), NEW a \in Asset, Misled(a)'
  PROVE  Misled(a)
<1>1. UNCHANGED rec \/ \E v \in Values : rec' = [rec EXCEPT ![r] = v]
  BY ManagedAddForm DEF Obtained
<1>2. \A q \in Rec : q # r /\ Governed(q)' => Governed(q)
  BY DEF ManagedAdd, Governed, DInv, TypeOK
<1>3. RecOf[a] \in {r} \/ Untouched(a)
  BY <1>1, <1>2, OthersUntouched DEF ManagedAdd
<1>. QED BY <1>3, MarkHonest DEF ManagedAdd

\* A claim marks the files of its recording, which it may put under the catalogue.
LEMMA ClaimRightsHonest ==
  ASSUME DInv, NEW r \in Rec, ClaimRights(r), NEW a \in Asset, Misled(a)'
  PROVE  Misled(a)
<1>1. UNCHANGED <<rec, release>> /\ Mark({r})
  BY DEF ClaimRights, catalogue
<1>2. \A q \in Rec : q # r /\ Governed(q)' => Governed(q)
  BY DEF ClaimRights, Governed, DInv, TypeOK
<1>3. RecOf[a] \in {r} \/ Untouched(a)
  BY <1>1, <1>2, OthersUntouched
<1>. QED BY <1>1, <1>3, MarkHonest

\* A day that passes touches the recordings of one claim.
LEMMA DayPassesHonest ==
  ASSUME DInv, NEW r \in Rec, DayPasses(r), NEW a \in Asset, RecOf[a] # r, Misled(a)'
  PROVE  Misled(a)
<1>1. UNCHANGED <<rec, release, status, tags>>
  BY DEF DayPasses, catalogue, files
<1>2. \A q \in Rec : q # r /\ Governed(q)' => Governed(q)
  BY DEF DayPasses, Governed, DInv, TypeOK
<1>3. RecOf[a] \in {r} \/ Untouched(a)
  BY <1>1, <1>2, OthersUntouched
<1>. QED BY <1>1, <1>3 DEF Untouched, Misled

\* A step that changes neither the catalogue, governance nor files.
LEMMA ElsewhereHonest ==
  ASSUME UNCHANGED <<rec, release, managed, claim, period, status, tags>>,
         NEW a \in Asset, Misled(a)'
  PROVE  Misled(a)
<1>1. Untouched(a)
  BY DEF Untouched, CatalogueTags, BarcodeOf, Governed
<1>. QED BY <1>1 DEF Untouched, Misled

\* A synchronisation changes neither the catalogue nor the authority over it.
LEMMA OnlyFilesSame ==
  ASSUME OnlyFiles
  PROVE  \A a \in Asset : /\ CatalogueTags(a)' = CatalogueTags(a)
                          /\ Governed(RecOf[a])' = Governed(RecOf[a])
BY DEF OnlyFiles, catalogue, governance, CatalogueTags, BarcodeOf, Governed

\* A file without authority is in conflict, not SYNCED.
LEMMA ReadCatalogueHonest ==
  ASSUME DInv, NEW w \in Worker, ReadCatalogue(w), NEW a \in Asset, Misled(a)'
  PROVE  Misled(a)
<1>1. PICK b \in Asset : b = job[w].asset
  BY JobFields DEF ReadCatalogue, DInv
<1>2. OnlyFiles /\ UNCHANGED tags
  BY DEF ReadCatalogue
<1>3. status'[a] \in {status[a], "conflict"}
  BY <1>1 DEF ReadCatalogue, DInv, TypeOK
<1>. QED BY <1>2, <1>3, OnlyFilesSame DEF Misled

\* A job that writes what the catalogue still wants makes no status false.
LEMMA WriteTagsHonest ==
  ASSUME DInv, NEW w \in Worker, WriteTags(w), NEW a \in Asset, ~ OutOfDate(w, a), Misled(a)'
  PROVE  Misled(a)
<1>1. PICK b \in Asset : b = job[w].asset
  BY JobFields DEF WriteTags, DInv
<1>2. job[w] # None /\ job[w].at = "read"
  BY DEF WriteTags
<1>3. OnlyFiles /\ UNCHANGED status
  BY DEF WriteTags
<1>4. tags'[a] = tags[a] \/ (a = b /\ tags'[a] = job[w].tags)
  BY <1>1 DEF WriteTags, DInv, TypeOK
<1>5. CASE tags'[a] = tags[a]
  BY <1>3, <1>5, OnlyFilesSame DEF Misled
<1>6. CASE a = b /\ tags'[a] = job[w].tags
  <2>1. SameTags(job[w].tags, CatalogueTags(a))
    BY <1>1, <1>2, <1>6 DEF OutOfDate
  <2>2. CatalogueTags(a)' = CatalogueTags(a)
    BY <1>3, OnlyFilesSame
  <2>3. ~ SameTags(tags'[a], CatalogueTags(a)')
    BY DEF Misled
  <2>. QED BY <1>6, <2>1, <2>2, <2>3
<1>. QED BY <1>4, <1>5, <1>6

\* A row that is saved as SYNCED was written, and still is what the catalogue wants.
LEMMA SaveStatusHonest ==
  ASSUME SInv, NEW w \in Worker, SaveStatus(w), NEW a \in Asset, ~ OutOfDate(w, a), Misled(a)'
  PROVE  Misled(a)
<1>1. PICK b \in Asset : b = job[w].asset
  BY JobFields DEF SaveStatus, SInv, DInv
<1>2. job[w] # None /\ job[w].at \in {"written", "failed"} /\ OnlyFiles /\ UNCHANGED tags
  BY DEF SaveStatus
<1>3. status'[a] = status[a] \/ (a = b /\ status'[a] = Outcome(w))
  BY <1>1 DEF SaveStatus, SInv, DInv, TypeOK
<1>4. CASE status'[a] = status[a]
  BY <1>2, <1>4, OnlyFilesSame DEF Misled
<1>5. CASE a = b /\ status'[a] = Outcome(w)
  <2>1. job[w].at = "written"
    BY <1>2, <1>5 DEF Outcome, Misled
  <2>2. SameTags(job[w].tags, CatalogueTags(a)) /\ w \notin overtaken
    BY <1>1, <1>2, <1>5 DEF OutOfDate
  <2>3. tags[a] = job[w].tags
    BY <1>1, <1>2, <1>5, <2>1, <2>2 DEF SInv, JobsTruthful
  <2>4. CatalogueTags(a)' = CatalogueTags(a) /\ tags'[a] = tags[a]
    BY <1>2, OnlyFilesSame
  <2>5. ~ SameTags(tags'[a], CatalogueTags(a)')
    BY DEF Misled
  <2>. QED BY <2>2, <2>3, <2>4, <2>5
<1>. QED BY <1>3, <1>4, <1>5

\* A file that is imported again is compared with the catalogue as it is (apply_item).
LEMMA SaveParsedHonest ==
  ASSUME SInv, NEW w \in Worker, SaveParsed(w), NEW a \in Asset, ~ OutOfDate(w, a), Misled(a)'
  PROVE  Misled(a)
<1>1. PICK b \in Asset : b = job[w].asset
  BY JobFields DEF SaveParsed, SInv, DInv
<1>2. job[w] # None /\ job[w].at = "parsed" /\ OnlyFiles /\ UNCHANGED tags
  BY DEF SaveParsed
<1>3. status'[a] = status[a] \/ (a = b /\ status'[a] = Compared(w))
  BY <1>1 DEF SaveParsed, SInv, DInv, TypeOK
<1>4. CASE status'[a] = status[a]
  BY <1>2, <1>4, OnlyFilesSame DEF Misled
<1>5. CASE a = b /\ status'[a] = Compared(w)
  <2>1. SameTags(job[w].tags, CatalogueTags(a)) /\ w \notin overtaken
    BY <1>1, <1>2, <1>5 DEF OutOfDate
  <2>2. tags[a] = job[w].tags
    BY <1>1, <1>2, <1>5, <2>1 DEF SInv, JobsTruthful
  <2>3. CatalogueTags(a)' = CatalogueTags(a) /\ tags'[a] = tags[a]
    BY <1>2, OnlyFilesSame
  <2>4. ~ SameTags(tags'[a], CatalogueTags(a)')
    BY DEF Misled
  <2>. QED BY <2>1, <2>2, <2>3, <2>4
<1>. QED BY <1>3, <1>4, <1>5

\* A step that makes the status of a file false is one of those four.
LEMMA HonestStep ==
  ASSUME SInv, [Next]_vars, NEW a \in Asset, ~ Misled(a), LinkAgrees(a), Misled(a)'
  PROVE  \/ \E w \in Worker : OutOfDate(w, a) /\ (WriteTags(w) \/ SaveStatus(w) \/ SaveParsed(w))
         \/ \E e \in Editor : SaveGrid(e)
         \/ AddReleaseIdentifier
         \/ DayPasses(RecOf[a])
<1>. DInv
  BY DEF SInv
<1>1. ASSUME NEW r \in Rec, EditRecording(r) \/ AddIdentifier(r) \/ AddContribution(r)
      PROVE  FALSE
  <2>1. PICK values \in Values : SaveRecording(r, values)
    BY <1>1, RecordingChanges
  <2>. QED BY <2>1, SaveRecordingHonest
<1>2. ASSUME NEW r \in Rec, LibraryAdd(r) PROVE FALSE
  BY <1>2, ElsewhereHonest DEF LibraryAdd, catalogue, files
<1>3. ASSUME NEW r \in Rec, ClaimRights(r) PROVE FALSE
  BY <1>3, ClaimRightsHonest
<1>4. ASSUME NEW r \in Rec, DayPasses(r) PROVE DayPasses(RecOf[a])
  <2>1. r = RecOf[a]
    BY <1>4, DayPassesHonest
  <2>. QED BY <1>4, <2>1
<1>5. ~ EditRelease
  BY EditReleaseHonest
<1>6. ASSUME NEW e \in Editor, StartSearch(e) \/ EndSearch(e) \/ OpenPage(e) PROVE FALSE
  <2>1. UNCHANGED <<rec, release, managed, claim, period, status, tags>>
    BY <1>6 DEF StartSearch, EndSearch, OpenPage, catalogue, governance, files
  <2>. QED BY <2>1, ElsewhereHonest
<1>7. ASSUME NEW e \in Editor, NEW t \in Track, AddTrack(e, t) PROVE FALSE
  BY <1>7, AddTrackHonest
<1>8. ASSUME NEW e \in Editor, NEW r \in Rec, ManagedAdd(e, r) PROVE FALSE
  BY <1>8, ManagedAddHonest
<1>9. ASSUME NEW w \in Worker, NEW b \in Asset, SelectFile(w, b) \/ ParseFile(w, b)
      PROVE  FALSE
  <2>1. UNCHANGED <<rec, release, managed, claim, period, status, tags>>
    BY <1>9 DEF SelectFile, ParseFile, OnlyFiles, catalogue, governance, files
  <2>. QED BY <2>1, ElsewhereHonest
<1>10. ASSUME NEW w \in Worker, ReadCatalogue(w) PROVE FALSE
  BY <1>10, ReadCatalogueHonest
<1>11. ASSUME NEW w \in Worker, WriteTags(w) \/ SaveStatus(w) \/ SaveParsed(w)
       PROVE  OutOfDate(w, a)
  BY <1>11, WriteTagsHonest, SaveStatusHonest, SaveParsedHonest
<1>12. ~ UNCHANGED vars
  BY ElsewhereHonest DEF vars, catalogue, governance, files
<1>. QED BY <1>1, <1>2, <1>3, <1>4, <1>5, <1>6, <1>7, <1>8, <1>9, <1>10, <1>11, <1>12 DEF Next

\* The status of a governed file becomes false in four ways only, with any number of
\* editors and workers (mark_recording_for_sync, sync_file_asset, apply_item).
THEOREM SyncedStays == Spec => SyncedStaysWritten
<1>1. SInv /\ [Next]_vars =>
        [\A a \in Asset :
           ~Misled(a) /\ LinkAgrees(a) /\ Misled(a)' =>
             \/ \E w \in Worker :
                  OutOfDate(w, a) /\ (WriteTags(w) \/ SaveStatus(w) \/ SaveParsed(w))
             \/ \E e \in Editor : SaveGrid(e)
             \/ AddReleaseIdentifier
             \/ DayPasses(RecOf[a])]_vars
  BY HonestStep
<1>. QED BY <1>1, InitJobs, StepJobs, PTL DEF Spec, SyncedStaysWritten
=============================================================================

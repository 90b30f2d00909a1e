-------------------------- MODULE FlacIngestProofs --------------------------
(***************************************************************************)
(* Theorems about FlacIngest for any files, catalogue, batches and         *)
(* workers: what is imported is imported once, which steps move a file to  *)
(* another recording, and that the ISRC of a file is accounted for.        *)
(***************************************************************************)
EXTENDS FlacIngest, FiniteSetTheorems, WellFoundedInduction, TLAPS

\* The tags of the file are in the row.
Read(row) == row # None /\ row.tags \in Tags /\ row.content \in Content

\* The rows of a batch are written once, in the order of the list, and those
\* with a proposal are of files that were read.
Scanned ==
  /\ \A b \in Batch : scan[b] # None => scan[b].todo # {} /\ status[b] = "preview"
  /\ \A b \in Batch, p \in Path :
       status[b] = None \/ (scan[b] # None /\ p \in scan[b].todo) => item[b, p] = None
  /\ \A i \in Batch \X Path :
       item[i] # None /\ item[i].action \in Proposals \cup {"conflict"} => Read(item[i])

Locking(x) == x.at \in Importing
Front(x) == <<x.batch, Min(x.todo)>>

\* Every row of the batch that was read is in the catalogue.
Complete(b) ==
  \A p \in Path : item[b, p] # None => item[b, p].applied \/ item[b, p].action = "unchanged"

\* What an import has in memory still agrees with the rows.
Sound(x) ==
  /\ Ready(x.batch)
  /\ \A p \in x.todo : Read(item[x.batch, p]) /\ item[x.batch, p].action # "unchanged"
  /\ Locking(x) => x.todo # {} /\ x.rec \in Recording /\ CanApply(item[Front(x)])
  /\ x.at = "failed" => x.todo # {} /\ x.outcome \in {"retry", "conflict"}
  /\ x.at = "report" => /\ x.outcome \in {"partial", "applied"}
                        /\ x.outcome = "applied" => Complete(x.batch)

Held ==
  /\ \A w \in Worker : work[w] # None => Sound(work[w])
  /\ \A v, w \in Worker :
       /\ work[v] # None /\ Locking(work[v])
       /\ work[w] # None /\ Locking(work[w])
       /\ Front(work[v]) = Front(work[w])
       => v = w

\* The count of imports of a row is what the row says.
Counted ==
  /\ \A i \in Batch \X Path :
       applied[i] = IF item[i] # None /\ item[i].applied THEN 1 ELSE 0
  /\ \A b \in Batch : status[b] = "applied" => Complete(b)

\* The row of the file that an import has read is of a file there is, and when it is
\* about to be written it has the recording of the import.
RowKnown(x) ==
  /\ x.row # None => asset[x.row.id] # None
  /\ x.at = "commit" => /\ x.row # None => x.row.rec = x.rec
                        /\ x.located => x.row # None

Viewed == \A w \in Worker : work[w] # None => RowKnown(work[w])

\* An asset that a row or a scan remembers is there, with the recording it had then,
\* or taken out of it by hand, or out of the one it was split off to.
Linked ==
  /\ \A i \in Batch \X Path :
       item[i] # None /\ item[i].asset # None => asset[item[i].asset] # None
  /\ \A b \in Batch, p \in Path :
       scan[b] # None /\ scan[b].seen[p] # None =>
         /\ asset[scan[b].seen[p].id] # None
         /\ \/ asset[scan[b].seen[p].id].manual \/ scan[b].seen[p].id \in undone
            \/ scan[b].seen[p].rec = asset[scan[b].seen[p].id].rec
  /\ ProposalFollowsLink

IInv == TypeOK /\ Scanned /\ Held /\ Viewed /\ Counted /\ Linked

-----------------------------------------------------------------------------
(* Numbers and finite sets.                                                *)

\* Some set of a family of subsets of a finite set contains no other one of it.
LEMMA SmallestSubset ==
  \A S : IsFiniteSet(S) =>
    \A F \in SUBSET (SUBSET S) :
      F # {} => \E T \in F : \A U \in F : U \subseteq T => U = T
<1>. SUFFICES ASSUME NEW S, IsFiniteSet(S), NEW F \in SUBSET (SUBSET S), F # {}
              PROVE  \E T \in F : \A U \in F : U \subseteq T => U = T
  OBVIOUS
<1>1. FiniteSubsetsOf(S) = SUBSET S
  BY FS_FiniteSubsetsOfFinite
<1>2. IsWellFoundedOn(StrictSubsetOrdering(S), SUBSET S)
  BY <1>1, FS_StrictSubsetOrderingWellFounded
<1>3. \E T \in F : \A U \in F : ~ (<<U, T>> \in StrictSubsetOrdering(S))
  BY <1>2, WFMin
<1> QED BY <1>3 DEF StrictSubsetOrdering

\* A set of paths that is not empty has a first one, and Min gives it.
LEMMA FirstOne ==
  ASSUME NEW S \in SUBSET Path, S # {}
  PROVE  Min(S) \in S /\ Min(S) \in Path
<1>1. IsFiniteSet(S) /\ S \subseteq Nat
  BY FS_Subset, IngestAssumption
<1>2. PICK F : F = {T \in SUBSET S : T # {} /\ \A x \in T : \E y \in T : ~ (x <= y)}
  OBVIOUS
<1>3. F = {}
  <2>. SUFFICES ASSUME F # {} PROVE FALSE
    OBVIOUS
  <2>1. F \in SUBSET (SUBSET S)
    BY <1>2
  <2>2. PICK T \in F : \A U \in F : U \subseteq T => U = T
    <3>1. IsFiniteSet(S)
      BY <1>1
    <3>. QED BY <2>1, <3>1, SmallestSubset
  <2>3. PICK x \in T : TRUE
    BY <1>2, <2>2
  <2>4. T \ {x} \notin F
    BY <2>2, <2>3
  <2>5. PICK z \in T : ~ (x <= z)
    BY <1>2, <2>3
  <2>6. x \in Nat /\ z \in Nat /\ T \subseteq Nat
    BY <1>1, <2>1, <2>3, <2>5
  <2>7. T \ {x} \in SUBSET S /\ T \ {x} # {}
    BY <2>1, <2>5, <2>6
  <2>8. PICK m \in T \ {x} : \A y \in T \ {x} : m <= y
    BY <1>2, <2>4, <2>7
  <2>9. \A y \in T : m <= y
    BY <2>5, <2>6, <2>8
  <2>. QED BY <1>2, <2>8, <2>9
<1>4. \E x \in S : \A y \in S : x <= y
  BY <1>2, <1>3
<1>. QED BY <1>4 DEF Min

\* The bound on events is kept.
LEMMA EventsType ==
  ASSUME events \in 0..MaxEvents, events < MaxEvents, events' = events + 1
  PROVE  events' \in 0..MaxEvents
BY IngestAssumption

-----------------------------------------------------------------------------
(* The operators of a scan.                                                *)

\* No scan has begun, and nothing was imported.
LEMMA IInvInit == Init => IInv
<1>. SUFFICES ASSUME Init PROVE IInv
  OBVIOUS
<1>1. TypeOK
  BY IngestAssumption DEF Init, TypeOK
<1>2. Scanned /\ Held /\ Viewed
  BY DEF Init, Scanned, Held, Viewed
<1>3. Counted
  BY NoneAssumption DEF Init, Counted
<1>4. Linked
  BY DEF Init, Linked, ProposalFollowsLink, CanApply
<1>. QED
  BY <1>1, <1>2, <1>3, <1>4 DEF IInv

\* What is remembered of an asset has the shape of a view, and agrees with it.
LEMMA ViewType ==
  ASSUME TypeOK, NEW a \in Asset, asset[a] # None
  PROVE  /\ ViewOf(a) \in View /\ ViewOf(a) # None
         /\ ViewOf(a).id = a /\ ViewOf(a).rec = asset[a].rec
         /\ asset[a] \in AssetRow
<1>1. asset[a] \in AssetRow
  BY DEF TypeOK
<1>. QED BY <1>1, NoneAssumption DEF ViewOf, View, AssetRow

\* The asset of a file is one there is, and its recording is the one remembered
\* unless it was split off after the scan began.
Agrees(known) ==
  known # None =>
    /\ asset[known.id] # None
    /\ \/ asset[known.id].manual \/ known.id \in undone
       \/ known.rec = asset[known.id].rec

\* A file that was moved is known by its audio, as it is on record, when one file has it
\* (scan_directory).
LEMMA MovedType ==
  ASSUME TypeOK, NEW t
  PROVE  Moved(t) \in View \cup {None} /\ Agrees(Moved(t))
<1>. DEFINE same == {a \in Asset : asset[a] # None
                                     /\ TagsOf[asset[a].content].audio = t.audio}
<1>1. CASE Moved(t) = None
  BY <1>1 DEF Agrees
<1>2. CASE Moved(t) # None
  <2>1. Cardinality(same) = 1 /\ Moved(t) = ViewOf(CHOOSE a \in same : TRUE)
    BY <1>2 DEF Moved
  <2>2. same # {}
    BY <2>1, FS_EmptySet
  <2>3. PICK a \in same : Moved(t) = ViewOf(a)
    BY <2>1, <2>2
  <2>. QED BY <2>3, ViewType DEF Agrees
<1>. QED BY <1>1, <1>2

\* What the scan knows of a file agrees with what is on record, but for a file split off
\* since.
LEMMA KnownType ==
  ASSUME IInv, NEW b \in Batch, NEW p \in Path, scan[b] # None
  PROVE  Known(b, p) \in View \cup {None} /\ Agrees(Known(b, p))
<1>1. scan[b].seen[p] \in View \cup {None}
  BY DEF IInv, TypeOK, Scan
<1>2. Agrees(scan[b].seen[p])
  BY DEF IInv, Linked, Agrees
<1>. QED BY <1>1, <1>2, MovedType DEF IInv, Known

\* The holder of an ISRC, and the recordings of a title.
LEMMA MatchType ==
  ASSUME TypeOK, NEW t \in Tags, NEW known \in BOOLEAN, NEW recovery \in BOOLEAN
  PROVE  LET m == MatchRecording(t, known, recovery)
         IN /\ m = Match(m.rec, m.method, m.conflict)
            /\ m.rec \in Recording \cup {None} /\ m.method \in Method
            /\ m.conflict \in BOOLEAN
<1>1. t.uuid \in Recording \cup {None}
  BY DEF Tags
<1>2. ASSUME Holders(t.isrc) # {}
      PROVE  (CHOOSE r \in Holders(t.isrc) : TRUE) \in Recording
  BY <1>2 DEF Holders
<1>3. CASE t.uuid # None
  BY <1>1, <1>2, <1>3 DEF MatchRecording, MatchUuid, Match, Method
<1>4. CASE t.uuid = None /\ Holders(t.isrc) = {}
  <2>. DEFINE alike == {r \in Recordings : title[r] = t.title}
  <2>1. alike # {} => (CHOOSE r \in alike : TRUE) \in Recording
    BY DEF Recordings
  <2>. QED BY <1>4, <2>1 DEF MatchRecording, MatchMetadata, Match, Method
<1>5. CASE t.uuid = None /\ Holders(t.isrc) # {}
  BY <1>2, <1>5 DEF MatchRecording, Match, Method, Contradict
<1>. QED BY <1>3, <1>4, <1>5

\* A file that has a recording is proposed for it, or is in conflict.
LEMMA SettleType ==
  ASSUME NEW rec \in Recording \cup {None}, NEW method \in Method, NEW conflict \in BOOLEAN,
         NEW known \in View \cup {None}, NEW located \in BOOLEAN
  PROVE  LET s == Settle(Match(rec, method, conflict), known, located)
         IN /\ s.rec \in Recording \cup {None} /\ s.method \in Method
            /\ s.conflict \in BOOLEAN
            /\ known # None /\ ~s.conflict => s.rec = known.rec
<1>1. CASE known = None
  BY <1>1 DEF Settle, Match
<1>2. CASE known # None
  <2>1. known.rec \in Recording
    BY <1>2 DEF View
  <2>. QED BY <1>2, <2>1 DEF Settle, Match, Method
<1>. QED BY <1>1, <1>2

\* A row that a scan writes is well formed.
LEMMA UnreadType ==
  ASSUME NEW action \in Action
  PROVE  Unread(action) \in Item /\ Unread(action) # None
<1>1. Unread(action) \in Item
  BY DEF Unread, Item, Method
<1>. QED BY <1>1, NoneAssumption

\* The proposal for a file that was read is a row that names a file and recording on
\* record (scan_directory).
LEMMA ProposalType ==
  ASSUME IInv, NEW b \in Batch, NEW p \in Path, scan[b] # None, disk[p] # None
  PROVE  LET row == Proposal(b, p)
         IN /\ row \in Item /\ row # None /\ Read(row) /\ ~row.applied
            /\ row.asset # None => asset[row.asset] # None
            /\ row.asset # None /\ row.action \in Proposals =>
                 \/ asset[row.asset].manual \/ row.asset \in undone
                 \/ row.rec = asset[row.asset].rec
<1>. DEFINE t == TagsOf[disk[p]]
            located == scan[b].seen[p] # None
            known == Known(b, p)
            m == MatchRecording(t, scan[b].known, recovers[b])
            n == IF BatchConflict(b, p, t, known)
                 THEN Match(m.rec, "isrc_batch_conflict", TRUE) ELSE m
            s == Settle(n, known, located)
            row == Proposal(b, p)
<1>1. disk[p] \in Content /\ t \in Tags /\ t # None
  BY IngestAssumption, NoneAssumption DEF IInv, TypeOK
<1>2. known \in View \cup {None} /\ Agrees(known)
  BY KnownType
<1>3. /\ n = Match(n.rec, n.method, n.conflict)
      /\ n.rec \in Recording \cup {None} /\ n.method \in Method /\ n.conflict \in BOOLEAN
  <2>1. scan[b].known \in BOOLEAN /\ recovers[b] \in BOOLEAN
    BY DEF IInv, TypeOK, Scan
  <2>2. /\ m = Match(m.rec, m.method, m.conflict)
        /\ m.rec \in Recording \cup {None} /\ m.method \in Method /\ m.conflict \in BOOLEAN
    BY <1>1, <2>1, MatchType DEF IInv
  <2>. HIDE DEF m
  <2>. QED BY <2>2 DEF Match, Method
<1>4. /\ s.rec \in Recording \cup {None} /\ s.method \in Method /\ s.conflict \in BOOLEAN
      /\ known # None /\ ~s.conflict => s.rec = known.rec
  <2>. HIDE DEF n, known
  <2>1. located \in BOOLEAN
    OBVIOUS
  <2>. HIDE DEF located
  <2>2. s = Settle(Match(n.rec, n.method, n.conflict), known, located)
    BY <1>3
  <2>. HIDE DEF s
  <2>3. LET q == Settle(Match(n.rec, n.method, n.conflict), known, located)
        IN /\ q.rec \in Recording \cup {None} /\ q.method \in Method
           /\ q.conflict \in BOOLEAN
           /\ known # None /\ ~q.conflict => q.rec = known.rec
    BY <1>2, <1>3, <2>1, SettleType, ZenonT(40)
  <2>. QED BY <2>2, <2>3
<1>5. row = [action |-> IF s.conflict \/ t.title = None THEN "conflict"
                        ELSE IF known # None THEN "updated"
                        ELSE IF s.rec # None THEN "matched" ELSE "new",
             method |-> s.method, content |-> disk[p], tags |-> t, rec |-> s.rec,
             asset |-> IF known = None THEN None ELSE known.id,
             applied |-> FALSE]
  BY DEF Proposal
<1>. HIDE DEF s, n, m, known, located, t, row
<1>6. known # None => known.id \in Asset /\ known.id # None
  BY <1>2, IngestAssumption DEF View
<1>7. row \in Item
  BY <1>1, <1>4, <1>5, <1>6 DEF Item, Action, Proposals
<1>8. row # None /\ Read(row) /\ ~row.applied
  BY <1>1, <1>5, <1>7, NoneAssumption DEF Read
<1>9. row.asset # None => known # None /\ row.asset = known.id
  BY <1>5
<1>10. row.action \in Proposals => ~s.conflict /\ row.rec = s.rec
  BY <1>5 DEF Proposals
<1>11. row.asset # None => asset[row.asset] # None
  BY <1>2, <1>9 DEF Agrees
<1>12. row.asset # None /\ row.action \in Proposals =>
         \/ asset[row.asset].manual \/ row.asset \in undone
         \/ row.rec = asset[row.asset].rec
  BY <1>2, <1>4, <1>9, <1>10 DEF Agrees
<1>. QED BY <1>7, <1>8, <1>11, <1>12 DEF row
-----------------------------------------------------------------------------
(* Steps of a scan.                                                        *)

\* A new batch has no rows, and remembers the assets as they are.
LEMMA InvOpenScan ==
  ASSUME IInv, NEW b \in Batch, NEW todo \in SUBSET Path, NEW force \in BOOLEAN,
         NEW recovery \in BOOLEAN, OpenScan(b, todo, force, recovery)
  PROVE  IInv'
<1>. DEFINE seen == [p \in Path |-> IF At(p) = {} THEN None
                                    ELSE ViewOf(CHOOSE a \in At(p) : TRUE)]
            new == IF todo = {} THEN None ELSE
                   [todo |-> todo, seen |-> seen,
                    known |-> Recordings # {}, force |-> force]
<1>1. \A p \in Path : seen[p] \in View \cup {None} /\ Agrees(seen[p])
  <2>. SUFFICES ASSUME NEW p \in Path, At(p) # {}
                PROVE  seen[p] \in View /\ Agrees(seen[p])
    BY DEF Agrees
  <2>1. PICK a \in At(p) : seen[p] = ViewOf(a)
    OBVIOUS
  <2>. QED BY <2>1, ViewType DEF IInv, At, Agrees
<1>2. seen \in [Path -> View \cup {None}]
  BY <1>1
<1>3. /\ status[b] = None /\ status' = [status EXCEPT ![b] = "preview"]
      /\ recovers' = [recovers EXCEPT ![b] = recovery]
      /\ scan' = [scan EXCEPT ![b] = new]
      /\ UNCHANGED <<disk, title, isrc, asset, apart, undone, item, work, applied, events>>
  BY DEF OpenScan, catalogue
<1>4. new \in Scan \cup {None} /\ (todo # {} => new # None)
  <2>. HIDE DEF seen
  <2>1. [todo |-> todo, seen |-> seen, known |-> Recordings # {}, force |-> force] \in Scan
    BY <1>2 DEF Scan
  <2>. QED BY <2>1, NoneAssumption
<1>5. new # None => todo # {} /\ new.todo = todo /\ new.seen = seen
  OBVIOUS
<1>. HIDE DEF new, seen
<1>6. TypeOK'
  BY <1>3, <1>4 DEF IInv, TypeOK
<1>7. Scanned'
  <2>1. \A c \in Batch : scan'[c] # None => scan'[c].todo # {} /\ status'[c] = "preview"
    BY <1>3, <1>5 DEF IInv, TypeOK, Scanned
  <2>2. \A c \in Batch, p \in Path :
          status'[c] = None \/ (scan'[c] # None /\ p \in scan'[c].todo) => item[c, p] = None
    BY <1>3 DEF IInv, TypeOK, Scanned
  <2>3. \A row : Read(row)' <=> Read(row)
    BY DEF Read
  <2>. QED BY <1>3, <2>1, <2>2, <2>3 DEF IInv, Scanned
<1>8. Held'
  <2>1. ASSUME NEW w \in Worker, work[w] # None
        PROVE  Sound(work[w])'
    <3>1. Sound(work[w]) /\ work[w].batch \in Batch /\ work[w].batch # b
      BY <1>3, <2>1 DEF IInv, Held, Sound, Ready, TypeOK, Work
    <3>2. Ready(work[w].batch)'
      BY <1>3, <3>1 DEF Sound, Ready, IInv, TypeOK
    <3>. QED BY <1>3, <3>1, <3>2 DEF Sound, Read, Locking, Importing, Front, CanApply, Complete
  <2>. QED BY <1>3, <2>1 DEF IInv, Held, Locking, Importing, Front
<1>9. Counted'
  BY <1>3, NoneAssumption DEF IInv, TypeOK, Counted, Complete
<1>10. Linked'
  <2>1. \A p \in Path : new # None /\ seen[p] # None =>
           /\ asset[seen[p].id] # None
           /\ \/ asset[seen[p].id].manual \/ seen[p].id \in undone
              \/ seen[p].rec = asset[seen[p].id].rec
    BY <1>1 DEF Agrees
  <2>. QED BY <1>3, <1>5, <2>1 DEF IInv, TypeOK, Linked, ProposalFollowsLink, CanApply
<1>11. Viewed'
  BY <1>3 DEF IInv, Viewed, RowKnown
<1>. QED BY <1>6, <1>7, <1>8, <1>9, <1>10, <1>11 DEF IInv

\* The next row of a batch is written, and what is known of its file remembered.
LEMMA InvScanItem ==
  ASSUME IInv, NEW b \in Batch, scan[b] # None, NEW row \in Item, row # None,
         ~row.applied, row.action \in Proposals \cup {"conflict"} => Read(row),
         row.asset # None => asset[row.asset] # None,
         row.asset # None /\ row.action \in Proposals =>
           \/ asset[row.asset].manual \/ row.asset \in undone
           \/ row.rec = asset[row.asset].rec,
         NEW known \in View \cup {None}, Agrees(known),
         ScanItem(b, row, known),
         disk' \in [Path -> Content \cup {None}], events' \in 0..MaxEvents
  PROVE  IInv'
<1>. DEFINE p == Min(scan[b].todo)
            old == scan[b]
            new == IF old.todo = {p} THEN None
                   ELSE [old EXCEPT !.todo = @ \ {p}, !.seen[p] = known]
<1>1. /\ scan[b] \in Scan /\ scan[b].todo \in SUBSET Path /\ p \in scan[b].todo /\ p \in Path
      /\ status[b] = "preview" /\ <<b, p>> \in Batch \X Path
  <2>1. scan[b] \in Scan /\ scan[b].todo \in SUBSET Path /\ scan[b].todo # {}
    BY DEF IInv, TypeOK, Scan, Scanned
  <2>2. p \in scan[b].todo /\ p \in Path
    BY <2>1, FirstOne
  <2>. QED BY <2>1, <2>2 DEF IInv, Scanned
<1>2. item[b, p] = None /\ applied[<<b, p>>] = 0
  <2>1. item[b, p] = None
    BY <1>1 DEF IInv, Scanned
  <2>. QED BY <1>1, <2>1 DEF IInv, Counted
<1>3. /\ item' = [item EXCEPT ![<<b, p>>] = row]
      /\ scan' = [scan EXCEPT ![b] = new]
      /\ UNCHANGED <<title, isrc, asset, apart, undone, status, recovers, work, applied>>
  <2>1. item' = [item EXCEPT ![<<b, p>>] = row]
    BY DEF ScanItem
  <2>2. scan' = [scan EXCEPT ![b] = new]
    BY Zenon DEF ScanItem
  <2>3. UNCHANGED <<title, isrc, asset, apart, undone, status, recovers, work, applied>>
    BY DEF ScanItem, catalogue
  <2>. QED BY <2>1, <2>2, <2>3
<1>4. new \in Scan \cup {None}
  <2>. HIDE DEF p
  <2>1. [old EXCEPT !.todo = @ \ {p}, !.seen[p] = known] \in Scan
    <3>1. old \in Scan /\ p \in Path
      BY <1>1
    <3>. HIDE DEF old
    <3>. QED BY <3>1 DEF Scan
  <2>. QED BY <2>1
<1>5. new # None =>
        /\ new.todo \subseteq old.todo /\ new.todo # {} /\ p \notin new.todo
        /\ new.seen = [old.seen EXCEPT ![p] = known]
  BY <1>1 DEF Scan
<1>6. old.seen \in [Path -> View \cup {None}]
  BY <1>1 DEF Scan
<1>. HIDE DEF new, p
<1>7. TypeOK'
  BY <1>1, <1>3, <1>4 DEF IInv, TypeOK
<1>8. Scanned'
  <2>1. \A c \in Batch : scan'[c] # None => scan'[c].todo # {} /\ status'[c] = "preview"
    BY <1>3, <1>1, <1>5 DEF IInv, TypeOK, Scanned
  <2>2. ASSUME NEW c \in Batch, NEW q \in Path,
               status'[c] = None \/ (scan'[c] # None /\ q \in scan'[c].todo)
        PROVE  item'[c, q] = None
    <3>1. CASE c # b
      BY <1>1, <1>3, <2>2, <3>1 DEF IInv, TypeOK, Scanned
    <3>2. CASE c = b
      <4>1. status'[b] # None
        BY <1>1, <1>3, NoneAssumption
      <4>2. scan'[b] = new
        BY <1>3 DEF IInv, TypeOK
      <4>3. q \in old.todo /\ q # p
        BY <1>5, <2>2, <3>2, <4>1, <4>2
      <4>4. item[b, q] = None
        BY <4>3 DEF IInv, Scanned
      <4>. QED BY <1>1, <1>3, <3>2, <4>3, <4>4 DEF IInv, TypeOK
    <3>. QED BY <3>1, <3>2
  <2>3. \A i \in Batch \X Path :
          item'[i] # None /\ item'[i].action \in Proposals \cup {"conflict"} => Read(item'[i])
    BY <1>1, <1>3 DEF IInv, TypeOK, Scanned
  <2>4. \A i : Read(item[i])' <=> Read(item'[i])
    BY DEF Read
  <2>. QED BY <2>1, <2>2, <2>3, <2>4 DEF Scanned
<1>9. ASSUME NEW c \in Batch, Ready(c)
      PROVE  /\ status'[c] # None /\ scan'[c] = None /\ c # b
             /\ \A q \in Path : item'[c, q] = item[c, q]
  BY <1>1, <1>3, <1>9 DEF Ready, IInv, TypeOK
<1>10. Held'
  <2>1. ASSUME NEW w \in Worker, work[w] # None
        PROVE  Sound(work[w])'
    <3>1. /\ Sound(work[w]) /\ work[w].batch \in Batch /\ work[w].todo \in SUBSET Path
          /\ Ready(work[w].batch)
      BY <2>1 DEF IInv, Held, Sound, TypeOK, Work
    <3>2. Ready(work[w].batch)' /\ \A q \in Path : item'[work[w].batch, q] = item[work[w].batch, q]
      BY <1>3, <1>9, <3>1 DEF Ready
    <3>3. work[w].todo # {} => Min(work[w].todo) \in Path
      BY <3>1, FirstOne
    <3>. QED BY <1>3, <3>1, <3>2, <3>3, ZenonT(40) DEF Sound, Read, Locking, Importing, Front, CanApply, Complete
  <2>. QED BY <1>3, <2>1 DEF IInv, Held, Locking, Importing, Front
<1>11. Counted'
  <2>1. \A i \in Batch \X Path :
          applied'[i] = IF item'[i] # None /\ item'[i].applied THEN 1 ELSE 0
    BY <1>1, <1>2, <1>3 DEF IInv, TypeOK, Counted
  <2>2. ASSUME NEW c \in Batch, status'[c] = "applied"
        PROVE  Complete(c)'
    <3>1. c # b /\ Complete(c)
      BY <1>1, <1>3, <2>2 DEF IInv, Counted
    <3>. QED BY <1>1, <1>3, <3>1 DEF Complete, IInv, TypeOK
  <2>. QED BY <2>1, <2>2 DEF Counted
<1>12. Linked'
  <2>1. \A i \in Batch \X Path :
          item'[i] # None /\ item'[i].asset # None => asset'[item'[i].asset] # None
    BY <1>1, <1>3 DEF IInv, TypeOK, Linked
  <2>2. ASSUME NEW c \in Batch, NEW q \in Path, scan'[c] # None, scan'[c].seen[q] # None
        PROVE  /\ asset[scan'[c].seen[q].id] # None
               /\ \/ asset[scan'[c].seen[q].id].manual \/ scan'[c].seen[q].id \in undone
                  \/ scan'[c].seen[q].rec = asset[scan'[c].seen[q].id].rec
    <3>1. CASE c # b
      BY <1>3, <2>2, <3>1 DEF IInv, TypeOK, Linked
    <3>2. CASE c = b
      <4>1. scan'[c] = new /\ new # None
        BY <1>3, <2>2, <3>2 DEF IInv, TypeOK
      <4>2. scan'[c].seen = [old.seen EXCEPT ![p] = known]
        BY <1>5, <4>1
      <4>3. CASE q = p
        BY <1>1, <1>6, <2>2, <4>2, <4>3 DEF Agrees
      <4>4. CASE q # p
        <5>1. scan'[c].seen[q] = old.seen[q]
          BY <1>6, <4>2, <4>4
        <5>. QED BY <2>2, <5>1 DEF IInv, Linked
      <4>. QED BY <4>3, <4>4
    <3>. QED BY <3>1, <3>2
  <2>3. ProposalFollowsLink'
    BY <1>1, <1>3 DEF IInv, TypeOK, Linked, ProposalFollowsLink, CanApply
  <2>. QED BY <1>3, <2>1, <2>2, <2>3 DEF Linked
<1>13. Viewed'
  BY <1>3 DEF IInv, Viewed, RowKnown
<1>. QED BY <1>7, <1>8, <1>10, <1>11, <1>12, <1>13 DEF IInv

\* A scan starts a batch or adds an item to it, and keeps the invariant
\* (scan_directory).
LEMMA InvScan ==
  ASSUME IInv, ScanStep
  PROVE  IInv'
<1>1. ASSUME NEW b \in Batch, scan[b] # None
      PROVE  scan[b] \in Scan /\ scan[b].todo \in SUBSET Path /\ Min(scan[b].todo) \in Path
  <2>1. scan[b] \in Scan /\ scan[b].todo \in SUBSET Path /\ scan[b].todo # {}
    BY <1>1 DEF IInv, TypeOK, Scan, Scanned
  <2>. QED BY <2>1, FirstOne
<1>2. disk \in [Path -> Content \cup {None}] /\ events \in 0..MaxEvents
  BY DEF IInv, TypeOK
<1>3. ASSUME NEW b \in Batch, NEW f \in Forced, NEW y \in Recovery, ScanStart(b, f, y)
      PROVE  IInv'
  <2>1. {p \in Path : disk[p] # None} \in SUBSET Path
    OBVIOUS
  <2>2. f \in BOOLEAN /\ y \in BOOLEAN
    BY <1>3, IngestAssumption
  <2>. QED BY <1>3, <2>1, <2>2, InvOpenScan DEF ScanStart
<1>4. ASSUME NEW b \in Batch, NEW old \in Batch, NEW chosen \in SUBSET Path, Rescan(b, old, chosen)
      PROVE  IInv'
  <2>1. recovers[old] \in BOOLEAN
    BY DEF IInv, TypeOK
  <2>. QED BY <1>4, <2>1, InvOpenScan DEF Rescan
<1>5. ASSUME NEW b \in Batch, NEW a \in Asset, NEW y \in BOOLEAN, ReRead(b, a, y)
      PROVE  IInv'
  <2>1. asset[a] \in AssetRow
    BY <1>5 DEF ReRead, IInv, TypeOK
  <2>2. {asset[a].path} \in SUBSET Path
    BY <2>1 DEF AssetRow
  <2>. QED BY <1>5, <2>2, InvOpenScan DEF ReRead
<1>6. ASSUME NEW b \in Batch, ScanInvalid(b)
      PROVE  IInv'
  <2>1. Unread("invalid") \in Item /\ Unread("invalid") # None
    BY UnreadType DEF Action
  <2>2. ~Unread("invalid").applied /\ Unread("invalid").asset = None
        /\ Unread("invalid").action = "invalid"
    BY DEF Unread
  <2>3. Agrees(None)
    BY DEF Agrees
  <2>. QED BY <1>2, <1>6, <2>1, <2>2, <2>3, InvScanItem DEF ScanInvalid, Proposals
<1>7. ASSUME NEW b \in Batch, NEW c \in Content, ScanDisturbed(b, c)
      PROVE  IInv'
  <2>1. Unread("retry") \in Item /\ Unread("retry") # None
    BY UnreadType DEF Action
  <2>2. ~Unread("retry").applied /\ Unread("retry").asset = None
        /\ Unread("retry").action = "retry"
    BY DEF Unread
  <2>3. Agrees(None)
    BY DEF Agrees
  <2>4. disk' \in [Path -> Content \cup {None}] /\ events' \in 0..MaxEvents
    <3>1. disk' = [disk EXCEPT ![Min(scan[b].todo)] = c] /\ events < MaxEvents /\ events' = events + 1
      BY <1>7 DEF ScanDisturbed
    <3>2. disk' \in [Path -> Content \cup {None}]
      BY <1>2, <3>1
    <3>. QED BY <1>2, <3>1, <3>2, IngestAssumption
  <2>. QED BY <1>7, <2>1, <2>2, <2>3, <2>4, InvScanItem DEF ScanDisturbed, Proposals
<1>8. ASSUME NEW b \in Batch, ScanUnchanged(b)
      PROVE  IInv'
  <2>. DEFINE p == Min(scan[b].todo)
              view == scan[b].seen[p]
              row == [Unread("unchanged") EXCEPT !.method = "file_location",
                                                 !.rec = view.rec, !.asset = view.id]
  <2>1. scan[b] # None /\ p \in Path /\ scan[b] \in Scan
    BY <1>1, <1>8 DEF ScanUnchanged
  <2>2. view \in View /\ Agrees(view)
    <3>1. view # None
      BY <1>8 DEF ScanUnchanged, Skipped
    <3>. QED BY <2>1, <3>1 DEF Scan, IInv, Linked, Agrees
  <2>3. ScanItem(b, row, view) /\ UNCHANGED <<disk, events>>
    BY <1>8 DEF ScanUnchanged
  <2>. HIDE DEF view
  <2>4. row.asset = view.id /\ row.action = "unchanged" /\ row.applied = FALSE
    BY DEF Unread
  <2>5. row \in Item /\ row.asset \in Asset
    BY <2>2, <2>4 DEF Unread, Item, View, Action, Method
  <2>. HIDE DEF row
  <2>6. row # None /\ ~row.applied /\ row.action \notin Proposals \cup {"conflict"}
        /\ asset[row.asset] # None
    BY <2>2, <2>4, <2>5, NoneAssumption DEF Agrees, Proposals
  <2>. QED BY <1>2, <2>1, <2>2, <2>3, <2>5, <2>6, InvScanItem
<1>9. ASSUME NEW b \in Batch, ScanFile(b)
      PROVE  IInv'
  <2>. DEFINE p == Min(scan[b].todo)
              row == Proposal(b, p)
              known == Known(b, p)
  <2>1. scan[b] # None /\ p \in Path /\ disk[p] # None
    BY <1>1, <1>9 DEF ScanFile
  <2>2. ScanItem(b, row, known) /\ UNCHANGED <<disk, events>>
    BY <1>9 DEF ScanFile
  <2>. HIDE DEF p
  <2>3. known \in View \cup {None} /\ Agrees(known)
    BY <2>1, KnownType
  <2>4. /\ row \in Item /\ row # None /\ Read(row) /\ ~row.applied
        /\ row.asset # None => asset[row.asset] # None
        /\ row.asset # None /\ row.action \in Proposals =>
             \/ asset[row.asset].manual \/ row.asset \in undone
             \/ row.rec = asset[row.asset].rec
    BY <2>1, ProposalType
  <2>. HIDE DEF row, known
  <2>. QED BY <1>2, <2>1, <2>2, <2>3, <2>4, InvScanItem
<1>10. CASE \E b \in Batch, f \in Forced, y \in Recovery : ScanStart(b, f, y)
  BY <1>3, <1>10
<1>11. CASE \E b, old \in Batch, chosen \in SUBSET Path : Rescan(b, old, chosen)
  BY <1>4, <1>11
<1>12. CASE \E b \in Batch, a \in Asset, y \in BOOLEAN : ReRead(b, a, y)
  BY <1>5, <1>12
<1>13. CASE \E b \in Batch : ScanInvalid(b) \/ ScanUnchanged(b) \/ ScanFile(b)
  BY <1>6, <1>8, <1>9, <1>13
<1>14. CASE \E b \in Batch, c \in Content : ScanDisturbed(b, c)
  BY <1>7, <1>14
<1>. QED BY <1>10, <1>11, <1>12, <1>13, <1>14 DEF ScanStep
-----------------------------------------------------------------------------
(* Steps of an import.                                                     *)

\* What an import has in memory: its batch, its files and the one at hand.
LEMMA WorkType ==
  ASSUME IInv, NEW w \in Worker, work[w] # None
  PROVE  /\ work[w] \in Work /\ work[w].batch \in Batch /\ work[w].todo \in SUBSET Path
         /\ Sound(work[w]) /\ Ready(work[w].batch) /\ RowKnown(work[w])
         /\ Current(w) = Front(work[w])
         /\ work[w].todo # {} =>
              /\ Min(work[w].todo) \in work[w].todo /\ Min(work[w].todo) \in Path
              /\ Current(w) \in Batch \X Path
              /\ item[Current(w)] \in Item /\ Read(item[Current(w)])
              /\ item[Current(w)].action # "unchanged"
<1>1. work[w] \in Work /\ work[w].batch \in Batch /\ work[w].todo \in SUBSET Path
  BY DEF IInv, TypeOK, Work
<1>2. Sound(work[w]) /\ Ready(work[w].batch) /\ RowKnown(work[w])
  BY DEF IInv, Held, Viewed, Sound
<1>3. Current(w) = Front(work[w])
  BY DEF Current, Front
<1>4. ASSUME work[w].todo # {}
      PROVE  /\ Min(work[w].todo) \in work[w].todo /\ Min(work[w].todo) \in Path
             /\ Current(w) \in Batch \X Path
             /\ item[Current(w)] \in Item /\ Read(item[Current(w)])
             /\ item[Current(w)].action # "unchanged"
  <2>1. Min(work[w].todo) \in work[w].todo /\ Min(work[w].todo) \in Path
    BY <1>1, <1>4, FirstOne
  <2>2. Current(w) \in Batch \X Path
    BY <1>1, <2>1 DEF Current
  <2>3. Read(item[Current(w)]) /\ item[Current(w)].action # "unchanged"
    BY <1>2, <2>1 DEF Sound, Current
  <2>4. item[Current(w)] \in Item
    BY <2>2, <2>3 DEF Read, IInv, TypeOK
  <2>. QED BY <2>1, <2>2, <2>3, <2>4
<1>. QED BY <1>1, <1>2, <1>3, <1>4

\* A step that changes what one import has in memory and nothing else.
LEMMA InvMemory ==
  ASSUME IInv, NEW w \in Worker, NEW x \in Work \cup {None},
         work' = [work EXCEPT ![w] = x], x # None => RowKnown(x),
         UNCHANGED <<title, isrc, asset, apart, undone, item, status, recovers, scan, applied>>,
         disk' \in [Path -> Content \cup {None}], events' \in 0..MaxEvents,
         x # None => Sound(x),
         x # None /\ Locking(x) =>
           \A v \in Worker \ {w} :
             work[v] # None /\ Locking(work[v]) => Front(work[v]) # Front(x)
  PROVE  IInv'
<1>1. TypeOK'
  BY DEF IInv, TypeOK
<1>2. Scanned'
  BY DEF IInv, Scanned, Read
<1>3. Held'
  <2>1. \A v \in Worker : work'[v] = IF v = w THEN x ELSE work[v]
    BY DEF IInv, TypeOK
  <2>2. ASSUME NEW v \in Worker, work'[v] # None
        PROVE  Sound(work[v])'
    <3>1. Sound(work'[v])
      BY <2>1, <2>2 DEF IInv, Held
    <3>. QED BY <3>1 DEF Sound, Ready, Read, Locking, Importing, Front, CanApply, Complete
  <2>3. ASSUME NEW u \in Worker, NEW v \in Worker,
               work'[u] # None, Locking(work'[u]), work'[v] # None, Locking(work'[v]),
               Front(work'[u]) = Front(work'[v])
        PROVE  u = v
    BY <2>1, <2>3 DEF IInv, Held
  <2>. QED BY <2>2, <2>3 DEF Held, Locking, Importing, Front
<1>4. Counted'
  BY DEF IInv, Counted, Complete
<1>5. Linked'
  BY DEF IInv, Linked, ProposalFollowsLink, CanApply
<1>6. Viewed'
  <2>1. \A v \in Worker : work'[v] = IF v = w THEN x ELSE work[v]
    BY DEF IInv, TypeOK
  <2>. QED BY <2>1 DEF IInv, Viewed, RowKnown
<1>. QED BY <1>1, <1>2, <1>3, <1>4, <1>5, <1>6 DEF IInv

\* An import locks an item that nobody else has locked.
LEMMA Exclusive ==
  ASSUME NEW w \in Worker, ItemFree(w), work[w] # None
  PROVE  \A v \in Worker \ {w} :
           work[v] # None /\ Locking(work[v]) => Front(work[v]) # Front(work[w])
BY DEF ItemFree, Locking, Importing, Front, Current

\* A worker that takes an item of an open batch keeps the invariant (apply_item).
LEMMA InvApplyStart ==
  ASSUME IInv, NEW w \in Worker, NEW b \in Batch, ApplyStart(w, b)
  PROVE  IInv'
<1>. DEFINE x == [batch |-> b, todo |-> {p \in Path : CanApply(item[b, p])},
                  at |-> "next", rec |-> None, new |-> FALSE, row |-> None,
                  located |-> FALSE, gain |-> None, other |-> None, outcome |-> ""]
<1>1. x \in Work
  BY DEF Work
<1>2. Sound(x)
  <2>1. \A p \in x.todo : Read(item[x.batch, p]) /\ item[x.batch, p].action # "unchanged"
    BY DEF IInv, Scanned, CanApply, Proposals
  <2>. QED BY <2>1 DEF ApplyStart, Sound, Locking, Importing
<1>3. ~Locking(x) /\ RowKnown(x)
  BY DEF Locking, Importing, RowKnown
<1>4. work' = [work EXCEPT ![w] = x]
      /\ UNCHANGED <<disk, title, isrc, asset, apart, undone, item, status, recovers, scan,
                     applied, events>>
  BY DEF ApplyStart, catalogue
<1>5. disk \in [Path -> Content \cup {None}] /\ events \in 0..MaxEvents
  BY DEF IInv, TypeOK
<1>. HIDE DEF x
<1>. QED BY <1>1, <1>2, <1>3, <1>4, <1>5, InvMemory

\* What is left of the list after the file at hand.
LEMMA DoneType ==
  ASSUME IInv, NEW w \in Worker, work[w] # None
  PROVE  /\ Done(w) \in Work /\ Done(w) # None /\ ~Locking(Done(w))
         /\ Done(w).batch = work[w].batch /\ Done(w).todo \subseteq work[w].todo
         /\ Done(w).at = "next"
         /\ Sound(Done(w)) /\ RowKnown(Done(w))
<1>1. work[w] \in Work /\ Sound(work[w])
  BY WorkType
<1>2. /\ Done(w) \in Work
      /\ Done(w).batch = work[w].batch /\ Done(w).todo \subseteq work[w].todo
      /\ Done(w).at = "next" /\ Done(w).row = None /\ Done(w).located = FALSE
  BY <1>1 DEF Done, Work
<1>. QED BY <1>1, <1>2, NoneAssumption DEF Sound, Locking, Importing, RowKnown

\* So does one that finds the file gone or changed (_verify_item_source).
LEMMA InvSourceGone ==
  ASSUME IInv, NEW w \in Worker, ApplySourceGone(w)
  PROVE  IInv'
<1>. DEFINE x == [work[w] EXCEPT !.at = "failed", !.outcome = "retry"]
<1>1. work[w] \in Work /\ Sound(work[w]) /\ work[w].todo # {} /\ RowKnown(work[w])
  BY WorkType DEF ApplySourceGone, At_
<1>2. x \in Work /\ x.batch = work[w].batch /\ x.todo = work[w].todo
      /\ x.at = "failed" /\ x.outcome = "retry"
      /\ x.row = work[w].row /\ x.located = work[w].located
  BY <1>1 DEF Work
<1>4. work' = [work EXCEPT ![w] = x]
  BY <1>1 DEF ApplySourceGone, IInv, TypeOK, Work
<1>5. UNCHANGED <<disk, title, isrc, asset, apart, undone, item, status, recovers, scan,
                  applied, events>>
  BY DEF ApplySourceGone, catalogue
<1>6. disk \in [Path -> Content \cup {None}] /\ events \in 0..MaxEvents
  BY DEF IInv, TypeOK
<1>. HIDE DEF x
<1>7. Sound(x) /\ ~Locking(x) /\ RowKnown(x)
  BY <1>1, <1>2 DEF Sound, Locking, Importing, RowKnown
<1>. QED BY <1>2, <1>4, <1>5, <1>6, <1>7, InvMemory

\* So does one that finds under its lock that the item can no longer be applied
\* (apply_item).
LEMMA InvSkip ==
  ASSUME IInv, NEW w \in Worker, ApplySkip(w)
  PROVE  IInv'
<1>1. /\ work[w] # None /\ work' = [work EXCEPT ![w] = Done(w)]
      /\ UNCHANGED <<disk, title, isrc, asset, apart, undone, item, status, recovers, scan,
                     applied, events>>
  BY DEF ApplySkip, At_, catalogue
<1>2. disk \in [Path -> Content \cup {None}] /\ events \in 0..MaxEvents
  BY DEF IInv, TypeOK
<1>3. Done(w) \in Work /\ ~Locking(Done(w)) /\ Sound(Done(w)) /\ RowKnown(Done(w))
  BY <1>1, DoneType
<1>. QED BY <1>1, <1>2, <1>3, InvMemory

\* The recording an import decides on is a recording.
LEMMA InvResolve ==
  ASSUME IInv, NEW w \in Worker, ApplyResolve(w)
  PROVE  IInv'
<1>1. /\ work[w] \in Work /\ Sound(work[w]) /\ work[w] # None /\ work[w].todo # {}
      /\ Current(w) = Front(work[w]) /\ CanApply(item[Current(w)])
      /\ Current(w) \in Batch \X Path
      /\ item[Current(w)] \in Item /\ Read(item[Current(w)])
  BY WorkType DEF ApplyResolve, At_, StillApplicable
<1>2. PICK r \in Recording :
        work' = [work EXCEPT ![w].at = "identify", ![w].rec = r,
                             ![w].new = (Resolved(work[w].batch, item[Current(w)]) = {}),
                             ![w].row = FileRead(item[Current(w)])]
  <2>. DEFINE row == item[Current(w)]
              b == work[w].batch
  <2>1. Resolved(b, row) \subseteq Recording
    BY <1>1 DEF Resolved, Item, Recordings, Holders
  <2>2. NewIds(b, row) \subseteq Recording
    BY <1>1 DEF NewIds, FreshIds, Read, Tags
  <2>. QED BY <2>1, <2>2 DEF ApplyResolve
<1>. DEFINE new == Resolved(work[w].batch, item[Current(w)]) = {}
            file == FileRead(item[Current(w)])
            x == [work[w] EXCEPT !.at = "identify", !.rec = r, !.new = new, !.row = file]
<1>10. new \in BOOLEAN
  OBVIOUS
<1>11. file \in View \cup {None} /\ (file # None => asset[file.id] # None)
  <2>. DEFINE a == item[Current(w)].asset
  <2>1. CASE a = None
    BY <2>1 DEF FileRead
  <2>2. CASE a # None
    <3>1. a \in Asset /\ asset[a] # None
      BY <1>1, <2>2 DEF Item, IInv, Linked, Read
    <3>. QED BY <2>2, <3>1, ViewType DEF FileRead, IInv
  <2>. QED BY <2>1, <2>2
<1>12. work' = [work EXCEPT ![w].at = "identify", ![w].rec = r, ![w].new = new, ![w].row = file]
  BY <1>2
<1>. HIDE DEF new, file
<1>3. x \in Work /\ x.batch = work[w].batch /\ x.todo = work[w].todo
      /\ x.at = "identify" /\ x.rec = r /\ x.row = file /\ x.located = work[w].located
  BY <1>1, <1>10, <1>11 DEF Work
<1>4. work' = [work EXCEPT ![w] = x]
  BY <1>1, <1>12 DEF IInv, TypeOK, Work
<1>5. UNCHANGED <<disk, title, isrc, asset, apart, undone, item, status, recovers, scan,
                  applied, events>>
  BY DEF ApplyResolve, catalogue
<1>6. disk \in [Path -> Content \cup {None}] /\ events \in 0..MaxEvents
  BY DEF IInv, TypeOK
<1>. HIDE DEF x
<1>7. Front(x) = Front(work[w])
  BY <1>3 DEF Front
<1>8. Sound(x)
  BY <1>1, <1>3, <1>7 DEF Sound, Locking, Importing
<1>9. \A v \in Worker \ {w} :
        work[v] # None /\ Locking(work[v]) => Front(work[v]) # Front(x)
  BY <1>1, <1>7, Exclusive DEF ApplyResolve
<1>13. RowKnown(x)
  BY <1>3, <1>11 DEF RowKnown
<1>. QED BY <1>3, <1>4, <1>5, <1>6, <1>8, <1>9, <1>13, InvMemory

\* So does the import of a file of which only the identity was approved (apply_item).
LEMMA InvIdentify ==
  ASSUME IInv, NEW w \in Worker, ApplyIdentify(w)
  PROVE  IInv'
<1>1. /\ work[w] \in Work /\ Sound(work[w]) /\ work[w] # None /\ work[w].todo # {}
      /\ RowKnown(work[w]) /\ work[w].at = "identify" /\ Read(item[Current(w)])
  <2>1. work[w] # None /\ work[w].at = "identify"
    BY DEF ApplyIdentify, At_
  <2>2. work[w] \in Work /\ Sound(work[w])
    BY <2>1, WorkType
  <2>3. work[w].todo # {}
    BY <2>1, <2>2 DEF Sound, Locking, Importing
  <2>. QED BY <2>1, <2>2, <2>3, WorkType
<1>2. PICK gain \in Isrc \cup {None}, other \in Recording \cup {None} :
        work' = [work EXCEPT ![w].at = "locate", ![w].gain = gain, ![w].other = other]
  <2>. DEFINE i == item[Current(w)].tags.isrc
              g == IF Lacks(w, i) /\ Holders(i) = {} THEN i ELSE None
              o == IF Lacks(w, i) /\ Holders(i) \ {work[w].rec} # {}
                   THEN CHOOSE r \in Holders(i) : TRUE ELSE None
  <2>1. work' = [work EXCEPT ![w].at = "locate", ![w].gain = g, ![w].other = o]
    BY DEF ApplyIdentify
  <2>2. g \in Isrc \cup {None}
    BY <1>1 DEF Read, Tags
  <2>3. o \in Recording \cup {None}
    <3>1. Holders(i) # {} => (CHOOSE r \in Holders(i) : TRUE) \in Recording
      BY DEF Holders
    <3>. HIDE DEF i
    <3>. QED BY <3>1
  <2>. HIDE DEF g, o
  <2>. QED BY <2>1, <2>2, <2>3
<1>. DEFINE x == [work[w] EXCEPT !.at = "locate", !.gain = gain, !.other = other]
<1>3. x \in Work /\ x.batch = work[w].batch /\ x.todo = work[w].todo
      /\ x.at = "locate" /\ x.rec = work[w].rec /\ x.row = work[w].row
  BY <1>1 DEF Work
<1>4. work' = [work EXCEPT ![w] = x]
  BY <1>1, <1>2 DEF IInv, TypeOK, Work
<1>5. UNCHANGED <<disk, title, isrc, asset, apart, undone, item, status, recovers, scan,
                  applied, events>>
  BY DEF ApplyIdentify, catalogue
<1>6. disk \in [Path -> Content \cup {None}] /\ events \in 0..MaxEvents
  BY DEF IInv, TypeOK
<1>. HIDE DEF x
<1>7. Front(x) = Front(work[w]) /\ Locking(work[w])
  BY <1>1, <1>3 DEF Front, Locking, Importing
<1>8. Sound(x) /\ RowKnown(x)
  BY <1>1, <1>3, <1>7 DEF Sound, RowKnown, Locking, Importing
<1>9. \A v \in Worker \ {w} :
        work[v] # None /\ Locking(work[v]) => Front(work[v]) # Front(x)
  BY <1>1, <1>7 DEF IInv, Held
<1>. QED BY <1>3, <1>4, <1>5, <1>6, <1>8, <1>9, InvMemory

\* What an import finds at its path is the row of a file there is.
LEMMA FileHereType ==
  ASSUME IInv, NEW w \in Worker, work[w] # None
  PROVE  /\ FileHere(w) \in View \cup {None}
         /\ FileHere(w) # None => asset[FileHere(w).id] # None
         /\ At(Current(w)[2]) # {} => FileHere(w) # None
<1>. DEFINE here == At(Current(w)[2])
<1>1. CASE here = {}
  <2>1. work[w].row \in View \cup {None} /\ RowKnown(work[w])
    BY WorkType DEF Work
  <2>. QED BY <1>1, <2>1 DEF FileHere, RowKnown
<1>2. CASE here # {}
  <2>1. PICK a \in here : FileHere(w) = ViewOf(a)
    BY <1>2 DEF FileHere
  <2>2. a \in Asset /\ asset[a] # None
    BY <2>1 DEF At
  <2>. QED BY <2>1, <2>2, ViewType DEF IInv
<1>. QED BY <1>1, <1>2

\* An import that has found the file it writes remembers a row of its own recording
\* (apply_item).
LEMMA InvLocate ==
  ASSUME IInv, NEW w \in Worker, ApplyLocate(w)
  PROVE  IInv'
<1>1. /\ work[w] \in Work /\ Sound(work[w]) /\ work[w] # None /\ work[w].todo # {}
      /\ work[w].at = "locate" /\ RowKnown(work[w])
  <2>1. work[w] # None /\ work[w].at = "locate"
    BY DEF ApplyLocate, At_
  <2>. QED BY <2>1, WorkType DEF Sound, Locking, Importing
<1>. DEFINE located == At(Current(w)[2]) # {}
            file == FileHere(w)
            x == [work[w] EXCEPT !.at = "commit", !.row = file, !.located = located]
            y == [work[w] EXCEPT !.at = "failed", !.outcome = "conflict"]
<1>2. /\ file \in View \cup {None} /\ located \in BOOLEAN
      /\ file # None => asset[file.id] # None
      /\ located => file # None
  BY <1>1, FileHereType
<1>3. /\ UNCHANGED <<disk, title, isrc, asset, apart, undone, item, status, recovers, scan,
                     applied, events>>
      /\ disk \in [Path -> Content \cup {None}] /\ events \in 0..MaxEvents
  BY DEF ApplyLocate, catalogue, IInv, TypeOK
<1>4. CASE SameRecording(w, file)
  <2>1. work' = [work EXCEPT ![w].at = "commit", ![w].row = file, ![w].located = located]
    BY <1>4 DEF ApplyLocate
  <2>2. file # None => file.rec = work[w].rec
    BY <1>4 DEF SameRecording
  <2>. HIDE DEF located, file
  <2>3. /\ x \in Work /\ x.batch = work[w].batch /\ x.todo = work[w].todo
        /\ x.at = "commit" /\ x.rec = work[w].rec /\ x.row = file /\ x.located = located
    BY <1>1, <1>2 DEF Work
  <2>4. work' = [work EXCEPT ![w] = x]
    BY <1>1, <2>1 DEF IInv, TypeOK, Work
  <2>. HIDE DEF x
  <2>5. Front(x) = Front(work[w]) /\ Locking(work[w])
    BY <1>1, <2>3 DEF Front, Locking, Importing
  <2>6. Sound(x) /\ RowKnown(x)
    BY <1>1, <1>2, <2>2, <2>3, <2>5 DEF Sound, RowKnown
  <2>7. \A v \in Worker \ {w} :
          work[v] # None /\ Locking(work[v]) => Front(work[v]) # Front(x)
    BY <1>1, <2>5 DEF IInv, Held
  <2>. QED BY <1>3, <2>3, <2>4, <2>6, <2>7, InvMemory
<1>5. CASE ~SameRecording(w, file)
  <2>1. work' = [work EXCEPT ![w].at = "failed", ![w].outcome = "conflict"]
    BY <1>5 DEF ApplyLocate
  <2>2. /\ y \in Work /\ y.batch = work[w].batch /\ y.todo = work[w].todo
        /\ y.at = "failed" /\ y.outcome = "conflict" /\ y.row = work[w].row
    BY <1>1 DEF Work
  <2>3. work' = [work EXCEPT ![w] = y]
    BY <1>1, <2>1 DEF IInv, TypeOK, Work
  <2>. HIDE DEF y
  <2>4. Sound(y) /\ ~Locking(y) /\ RowKnown(y)
    BY <1>1, <2>2 DEF Sound, Locking, Importing, RowKnown
  <2>. QED BY <1>3, <2>2, <2>3, <2>4, InvMemory
<1>. QED BY <1>4, <1>5

\* So does a refusal (apply_item, its handler of failures).
LEMMA InvRefuse ==
  ASSUME IInv, NEW w \in Worker, ApplyRefuse(w)
  PROVE  IInv'
<1>. DEFINE x == [work[w] EXCEPT !.at = "failed", !.outcome = "conflict"]
<1>1. /\ work[w] \in Work /\ Sound(work[w]) /\ work[w].todo # {} /\ RowKnown(work[w])
  <2>1. work[w] # None /\ Locking(work[w])
    BY DEF ApplyRefuse, At_, Locking, Importing
  <2>. QED BY <2>1, WorkType DEF Sound
<1>2. x \in Work /\ x.batch = work[w].batch /\ x.todo = work[w].todo
      /\ x.at = "failed" /\ x.outcome = "conflict" /\ x.row = work[w].row
  BY <1>1 DEF Work
<1>3. work' = [work EXCEPT ![w] = x]
  BY <1>1 DEF ApplyRefuse, IInv, TypeOK, Work
<1>4. UNCHANGED <<disk, title, isrc, asset, apart, undone, item, status, recovers, scan,
                  applied, events>>
  BY DEF ApplyRefuse, catalogue
<1>5. disk \in [Path -> Content \cup {None}] /\ events \in 0..MaxEvents
  BY DEF IInv, TypeOK
<1>. HIDE DEF x
<1>6. Sound(x) /\ ~Locking(x) /\ RowKnown(x)
  BY <1>1, <1>2 DEF Sound, Locking, Importing, RowKnown
<1>. QED BY <1>2, <1>3, <1>4, <1>5, <1>6, InvMemory

\* The import counts what remains before it reports.
LEMMA InvCount ==
  ASSUME IInv, NEW w \in Worker, ApplyCount(w)
  PROVE  IInv'
<1>. DEFINE outcome == IF Remaining(work[w].batch) = {} THEN "applied" ELSE "partial"
            x == [work[w] EXCEPT !.at = "report", !.outcome = outcome]
<1>1. work[w] \in Work /\ Sound(work[w]) /\ RowKnown(work[w])
  BY WorkType DEF ApplyCount, At_
<1>2. x \in Work /\ x.batch = work[w].batch /\ x.todo = work[w].todo
      /\ x.at = "report" /\ x.outcome = outcome
      /\ x.row = work[w].row
  BY <1>1 DEF Work
<1>3. work' = [work EXCEPT ![w] = x]
  BY <1>1 DEF ApplyCount, IInv, TypeOK, Work
<1>4. UNCHANGED <<disk, title, isrc, asset, apart, undone, item, status, recovers, scan,
                  applied, events>>
  BY DEF ApplyCount, catalogue
<1>5. disk \in [Path -> Content \cup {None}] /\ events \in 0..MaxEvents
  BY DEF IInv, TypeOK
<1>. HIDE DEF x
<1>6. outcome = "applied" => Complete(work[w].batch)
  BY DEF Remaining, Complete
<1>7. Sound(x) /\ ~Locking(x) /\ RowKnown(x)
  BY <1>1, <1>2, <1>6 DEF Sound, Locking, Importing, RowKnown
<1>. QED BY <1>2, <1>3, <1>4, <1>5, <1>7, InvMemory

\* A worker that dies forgets; a file changes.
LEMMA InvCrash ==
  ASSUME IInv, NEW w \in Worker, Crash(w)
  PROVE  IInv'
<1>1. /\ work' = [work EXCEPT ![w] = None] /\ None \in Work \cup {None}
      /\ UNCHANGED <<disk, title, isrc, asset, apart, undone, item, status, recovers, scan, applied>>
  BY DEF Crash, catalogue
<1>2. disk \in [Path -> Content \cup {None}] /\ events' \in 0..MaxEvents
  BY IngestAssumption DEF IInv, TypeOK, Crash
<1>. QED BY <1>1, <1>2, InvMemory

\* Whoever changes a file on disk keeps it: what was scanned is compared again.
LEMMA InvEditDisk ==
  ASSUME IInv, NEW p \in Path, NEW c \in Content \cup {None}, EditDisk(p, c)
  PROVE  IInv'
<1>1. UNCHANGED <<title, isrc, asset, apart, undone, item, status, recovers, scan, work, applied>>
  BY DEF EditDisk, catalogue
<1>2. TypeOK'
  BY <1>1, IngestAssumption DEF IInv, TypeOK, EditDisk
<1>3. Scanned' /\ Held' /\ Viewed' /\ Counted' /\ Linked'
  BY <1>1 DEF IInv, Scanned, Held, Viewed, RowKnown, Counted, Linked, ProposalFollowsLink, CanApply,
              Sound, Ready, Read, Locking, Front, Complete
<1>. QED BY <1>2, <1>3 DEF IInv
-----------------------------------------------------------------------------
(* Steps that change a row of a batch.                                     *)

\* A batch that is complete stays so.
LEMMA CompleteKept ==
  ASSUME IInv, NEW i \in Batch \X Path, NEW row \in Item,
         item' = [item EXCEPT ![i] = row], item[i] # None,
         item[i].action # "unchanged", item[i].applied => row.applied,
         NEW b \in Batch, Complete(b)
  PROVE  Complete(b)'
<1>1. \A j \in Batch \X Path : item'[j] = IF j = i THEN row ELSE item[j]
  BY DEF IInv, TypeOK
<1>2. ASSUME NEW p \in Path, item'[b, p] # None
      PROVE  item'[b, p].applied \/ item'[b, p].action = "unchanged"
  <2>1. <<b, p>> \in Batch \X Path
    OBVIOUS
  <2>2. CASE <<b, p>> = i
    BY <1>1, <2>1, <2>2 DEF Complete
  <2>3. CASE <<b, p>> # i
    BY <1>1, <1>2, <2>1, <2>3 DEF Complete
  <2>. QED BY <2>2, <2>3
<1>. QED BY <1>2 DEF Complete

\* What other imports have in memory is not disturbed by a row they do not hold.
LEMMA SoundKept ==
  ASSUME IInv, NEW i \in Batch \X Path, NEW row \in Item,
         item' = [item EXCEPT ![i] = row], UNCHANGED <<status, scan>>,
         item[i] # None, item[i].action # "unchanged", item[i].applied => row.applied,
         Read(row), row.action # "unchanged",
         NEW x \in Work, Sound(x), Locking(x) => Front(x) # i
  PROVE  Sound(x)'
<1>1. \A j \in Batch \X Path : item'[j] = IF j = i THEN row ELSE item[j]
  BY DEF IInv, TypeOK
<1>2. x.batch \in Batch /\ x.todo \in SUBSET Path
  BY DEF Work
<1>3. Ready(x.batch)'
  BY DEF Sound, Ready
<1>4. ASSUME NEW p \in x.todo
      PROVE  Read(item[x.batch, p])' /\ item'[x.batch, p].action # "unchanged"
  <2>1. <<x.batch, p>> \in Batch \X Path
    BY <1>2
  <2>. QED BY <1>1, <2>1 DEF Sound, Read
<1>5. ASSUME Locking(x)
      PROVE  x.todo # {} /\ x.rec \in Recording /\ CanApply(item[Front(x)])'
  <2>1. x.todo # {} /\ x.rec \in Recording /\ CanApply(item[Front(x)]) /\ Front(x) # i
    BY <1>5 DEF Sound
  <2>2. Front(x) \in Batch \X Path
    BY <1>2, <2>1, FirstOne DEF Front
  <2>3. item'[Front(x)] = item[Front(x)]
    BY <1>1, <2>1, <2>2
  <2>4. Front(x)' = Front(x)
    BY DEF Front
  <2>. QED BY <2>1, <2>3, <2>4 DEF CanApply
<1>6. x.at = "report" /\ x.outcome = "applied" => Complete(x.batch)'
  BY <1>2, CompleteKept DEF Sound
<1>7. Locking(x)' <=> Locking(x)
  BY DEF Locking, Importing
<1>. QED BY <1>3, <1>4, <1>5, <1>6, <1>7 DEF Sound

\* A row that a worker rewrites leaves its batch scanned.
LEMMA ScannedKept ==
  ASSUME IInv, NEW i \in Batch \X Path, NEW row \in Item,
         item' = [item EXCEPT ![i] = row], UNCHANGED <<status, scan>>,
         Ready(i[1]), Read(row)
  PROVE  Scanned'
<1>1. \A j \in Batch \X Path : item'[j] = IF j = i THEN row ELSE item[j]
  BY DEF IInv, TypeOK
<1>2. ASSUME NEW b \in Batch, NEW p \in Path,
             status[b] = None \/ (scan[b] # None /\ p \in scan[b].todo)
      PROVE  item'[b, p] = None
  <2>1. <<b, p>> \in Batch \X Path /\ item[b, p] = None
    BY <1>2 DEF IInv, Scanned
  <2>2. b # i[1]
    BY <1>2 DEF Ready
  <2>3. <<b, p>> # i
    BY <2>2
  <2>. QED BY <1>1, <2>1, <2>3
<1>3. \A j : Read(item[j])' <=> Read(item'[j])
  BY DEF Read
<1>4. \A j \in Batch \X Path :
        item'[j] # None /\ item'[j].action \in Proposals \cup {"conflict"} => Read(item'[j])
  BY <1>1 DEF IInv, Scanned
<1>. QED BY <1>2, <1>3, <1>4 DEF IInv, Scanned

\* A review leaves a proposal that names the recording of the file.
LEMMA InvReview ==
  ASSUME IInv, NEW b \in Batch, NEW p \in Path, NEW r \in Recording \cup {None},
         item[b, p].tags # None,
         NEW t \in Corrections(item[b, p].tags, r), Review(b, p, r, t)
  PROVE  IInv'
<1>. DEFINE i == <<b, p>>
            method == IF r = None /\ Holders(t.isrc) # {}
                      THEN "manual_isrc_collision" ELSE "manual_review"
            row == [item[i] EXCEPT !.tags = t, !.rec = r,
                                   !.action = IF r = None THEN "new" ELSE "matched",
                                   !.method = method]
<1>1. /\ i \in Batch \X Path /\ item[i] \in Item /\ item[i] # None /\ Read(item[i])
      /\ item[i].action = "conflict" /\ ~item[i].applied
  BY DEF Review, IInv, TypeOK, Scanned
<1>2. t \in Tags
  <2>1. item[i].tags \in Tags /\ title \in [Recording -> Title \cup {None}]
    BY <1>1 DEF Read, IInv, TypeOK
  <2>. QED BY <2>1 DEF Corrections, Tags, Recordings
<1>3. /\ row \in Item /\ row.content = item[i].content /\ row.tags = t /\ row.rec = r
      /\ row.asset = item[i].asset /\ row.applied = item[i].applied
      /\ row.action \in {"new", "matched"}
  BY <1>1, <1>2 DEF Item, Action, Proposals, Method
<1>4. item' = [item EXCEPT ![i] = row]
  BY DEF Review
<1>5. /\ UNCHANGED <<disk, title, isrc, asset, apart, undone, status, recovers, scan, work, applied>>
      /\ events' \in 0..MaxEvents /\ Ready(b)
  <2>1. UNCHANGED <<disk, title, isrc, asset, apart, undone, status, recovers, scan, work, applied>>
    BY DEF Review, catalogue
  <2>2. events \in 0..MaxEvents /\ events < MaxEvents /\ events' = events + 1 /\ Ready(b)
    BY DEF Review, IInv, TypeOK
  <2>3. events' \in 0..MaxEvents
    BY <2>2, EventsType
  <2>. QED BY <2>1, <2>2, <2>3
<1>6. row.asset # None => r = asset[row.asset].rec
  BY <1>3 DEF Review
<1>7. \A w \in Worker : work[w] # None /\ Locking(work[w]) => Front(work[w]) # i
  BY DEF Review, Locking, Importing, Front
<1>. HIDE DEF row, i
<1>8. row # None /\ Read(row) /\ row.action # "unchanged"
  BY <1>1, <1>2, <1>3, NoneAssumption DEF Read
<1>9. \A j \in Batch \X Path : item'[j] = IF j = i THEN row ELSE item[j]
  BY <1>4 DEF IInv, TypeOK
<1>10. TypeOK'
  BY <1>3, <1>4, <1>5 DEF IInv, TypeOK
<1>11. Scanned'
  <2>1. Ready(i[1])
    BY <1>5 DEF i
  <2>. QED BY <1>1, <1>3, <1>4, <1>5, <1>8, <2>1, ScannedKept
<1>12. Held'
  <2>1. ASSUME NEW w \in Worker, work[w] # None
        PROVE  Sound(work[w])'
    <3>1. PICK x \in Work : x = work[w]
      BY <2>1, WorkType
    <3>2. Sound(x) /\ (Locking(x) => Front(x) # i)
      BY <1>7, <2>1, <3>1, WorkType
    <3>3. Sound(x)'
      BY <1>1, <1>3, <1>4, <1>5, <1>8, <3>2, SoundKept
    <3>. QED BY <1>5, <3>1, <3>3 DEF Sound, Ready, Read, Locking, Importing, Front, CanApply, Complete
  <2>. QED BY <1>5, <2>1 DEF IInv, Held, Locking, Importing, Front
<1>13. Counted'
  <2>1. ASSUME NEW c \in Batch, status'[c] = "applied"
        PROVE  Complete(c)'
    BY <1>1, <1>3, <1>4, <1>5, <2>1, CompleteKept DEF IInv, Counted
  <2>. QED BY <1>1, <1>3, <1>5, <1>8, <1>9, <2>1 DEF IInv, Counted
<1>14. Linked'
  BY <1>1, <1>3, <1>5, <1>6, <1>9, ZenonT(40) DEF IInv, Linked, ProposalFollowsLink, CanApply
<1>15. Viewed'
  BY <1>5 DEF IInv, Viewed, RowKnown
<1>. QED BY <1>10, <1>11, <1>12, <1>13, <1>14, <1>15 DEF IInv

\* The handler of a failure writes the action of a row, and only that.
LEMMA InvFail ==
  ASSUME IInv, NEW w \in Worker, ApplyFail(w)
  PROVE  IInv'
<1>. DEFINE i == Current(w)
            outcome == work[w].outcome
            row == [item[i] EXCEPT !.action = outcome]
<1>1. /\ work[w] # None /\ work[w].at = "failed" /\ ItemFree(w)
  BY DEF ApplyFail, At_
<1>2. /\ work[w].todo # {} /\ outcome \in {"retry", "conflict"}
  BY <1>1, WorkType DEF Sound
<1>3. /\ i \in Batch \X Path /\ item[i] \in Item /\ Read(item[i]) /\ item[i] # None
      /\ item[i].action # "unchanged" /\ Ready(i[1])
  <2>1. Ready(i[1])
    BY <1>1, WorkType DEF Current
  <2>. QED BY <1>1, <1>2, <2>1, WorkType DEF Read
<1>4. /\ row \in Item /\ row.action = outcome /\ row.applied = item[i].applied
      /\ row.content = item[i].content /\ row.tags = item[i].tags /\ row.rec = item[i].rec
      /\ row.asset = item[i].asset
  BY <1>2, <1>3 DEF Item, Action
<1>5. /\ item' = [item EXCEPT ![i] = row] /\ work' = [work EXCEPT ![w] = Done(w)]
      /\ UNCHANGED <<disk, title, isrc, asset, apart, undone, status, recovers, scan, applied, events>>
  BY DEF ApplyFail, FailureKept, catalogue
<1>6. \A v \in Worker \ {w} : work[v] # None /\ Locking(work[v]) => Front(work[v]) # i
  BY <1>1, Exclusive, WorkType
<1>7. Done(w) \in Work /\ Done(w) # None /\ ~Locking(Done(w)) /\ Sound(Done(w))
      /\ RowKnown(Done(w))
  BY <1>1, DoneType
<1>. HIDE DEF row, i
<1>8. row # None /\ Read(row) /\ row.action # "unchanged"
  BY <1>2, <1>3, <1>4, NoneAssumption DEF Read
<1>9. \A j \in Batch \X Path : item'[j] = IF j = i THEN row ELSE item[j]
  BY <1>5 DEF IInv, TypeOK
<1>10. TypeOK'
  BY <1>3, <1>4, <1>5, <1>7 DEF IInv, TypeOK
<1>11. Scanned'
  BY <1>3, <1>4, <1>5, <1>8, ScannedKept
<1>12. Held'
  <2>1. \A v \in Worker : work'[v] = IF v = w THEN Done(w) ELSE work[v]
    BY <1>5 DEF IInv, TypeOK
  <2>2. ASSUME NEW v \in Worker, work'[v] # None
        PROVE  Sound(work[v])'
    <3>1. PICK x \in Work : x = work'[v]
      BY <1>7, <2>1, <2>2, WorkType
    <3>2. Sound(x) /\ (Locking(x) => Front(x) # i)
      BY <1>6, <1>7, <2>1, <2>2, <3>1, WorkType
    <3>3. Sound(x)'
      BY <1>3, <1>4, <1>5, <1>8, <3>2, SoundKept
    <3>. QED BY <3>1, <3>3 DEF Sound, Ready, Read, Locking, Importing, Front, CanApply, Complete
  <2>3. ASSUME NEW u \in Worker, NEW v \in Worker,
               work'[u] # None, Locking(work'[u]), work'[v] # None, Locking(work'[v]),
               Front(work'[u]) = Front(work'[v])
        PROVE  u = v
    BY <1>7, <2>1, <2>3 DEF IInv, Held
  <2>. QED BY <2>2, <2>3 DEF Held, Locking, Importing, Front
<1>13. Counted'
  <2>1. ASSUME NEW c \in Batch, status'[c] = "applied"
        PROVE  Complete(c)'
    BY <1>3, <1>4, <1>5, <2>1, CompleteKept DEF IInv, Counted
  <2>. QED BY <1>3, <1>4, <1>5, <1>8, <1>9, <2>1 DEF IInv, Counted
<1>14. Linked'
  BY <1>2, <1>3, <1>4, <1>5, <1>9 DEF IInv, Linked, ProposalFollowsLink, CanApply, Proposals
<1>15. Viewed'
  <2>1. \A v \in Worker : work'[v] = IF v = w THEN Done(w) ELSE work[v]
    BY <1>5 DEF IInv, TypeOK
  <2>. QED BY <1>5, <1>7, <2>1 DEF IInv, Viewed, RowKnown
<1>. QED BY <1>10, <1>11, <1>12, <1>13, <1>14, <1>15 DEF IInv

\* The report of an import is the status of its batch.
LEMMA InvReport ==
  ASSUME IInv, NEW w \in Worker, ApplyReport(w)
  PROVE  IInv'
<1>. DEFINE b == work[w].batch
            outcome == work[w].outcome
<1>1. /\ work[w] # None /\ work[w].at = "report"
      /\ status' = [status EXCEPT ![b] = outcome] /\ work' = [work EXCEPT ![w] = None]
      /\ UNCHANGED <<disk, title, isrc, asset, apart, undone, item, recovers, scan, applied, events>>
  BY DEF ApplyReport, At_, catalogue
<1>2. /\ b \in Batch /\ Ready(b) /\ outcome \in {"partial", "applied"}
      /\ outcome = "applied" => Complete(b)
  BY <1>1, WorkType DEF Sound
<1>3. \A v \in Worker : work'[v] = IF v = w THEN None ELSE work[v]
  BY <1>1 DEF IInv, TypeOK
<1>4. \A c \in Batch : status'[c] = IF c = b THEN outcome ELSE status[c]
  BY <1>1 DEF IInv, TypeOK
<1>. HIDE DEF b, outcome
<1>5. TypeOK'
  BY <1>1, <1>2 DEF IInv, TypeOK
<1>6. Scanned'
  BY <1>1, <1>2, <1>4, NoneAssumption, ZenonT(40) DEF IInv, Scanned, Ready, Read
<1>7. Held'
  <2>1. ASSUME NEW v \in Worker, work'[v] # None
        PROVE  Sound(work[v])'
    <3>1. work'[v] = work[v] /\ Sound(work[v]) /\ work[v].batch \in Batch
      BY <1>3, <2>1, WorkType
    <3>2. Ready(work[v].batch)'
      BY <1>2, <1>1, <1>4, <3>1, NoneAssumption DEF Ready, Sound
    <3>. QED BY <1>1, <3>1, <3>2 DEF Sound, Read, Locking, Importing, Front, CanApply, Complete
  <2>. QED BY <1>3, <2>1 DEF IInv, Held, Locking, Importing, Front
<1>8. Counted'
  BY <1>1, <1>2, <1>4 DEF IInv, Counted, Complete
<1>9. Linked'
  BY <1>1 DEF IInv, Linked, ProposalFollowsLink, CanApply
<1>10. Viewed'
  BY <1>1, <1>3 DEF IInv, Viewed, RowKnown
<1>. QED BY <1>5, <1>6, <1>7, <1>8, <1>9, <1>10 DEF IInv

\* The file a committed import writes: a new one, or the one whose row it has read,
\* which it gives its recording and its mark as read; what that overwrites is noted.
LEMMA CommitTarget ==
  ASSUME IInv, NEW w \in Worker, At_(w, "commit"), NEW a \in Asset, ApplyCommit(w, a)
  PROVE  /\ asset' = [asset EXCEPT ![a] = asset'[a]]
         /\ asset'[a] \in AssetRow /\ asset'[a] # None /\ asset'[a].rec = work[w].rec
         /\ asset[a] # None =>
              /\ work[w].row # None /\ work[w].row.id = a /\ work[w].row.rec = work[w].rec
              /\ \/ a \in undone'
                 \/ asset[a].rec = work[w].rec /\ (asset[a].manual => asset'[a].manual)
<1>. DEFINE row == item[Current(w)]
            known == Written(w)
            path == IF work[w].located THEN asset[a].path ELSE Current(w)[2]
            m == IF known # {} THEN work[w].row.manual
                 ELSE row.method = "manual_isrc_collision"
            new == [rec |-> work[w].rec, content |-> row.content, path |-> path,
                    manual |-> m]
<1>1. /\ work[w] # None /\ work[w] \in Work /\ RowKnown(work[w]) /\ work[w].at = "commit"
      /\ work[w].todo # {} /\ work[w].rec \in Recording
      /\ Current(w) \in Batch \X Path /\ row \in Item /\ Read(row)
  <2>1. work[w] # None /\ work[w].at = "commit" /\ Locking(work[w])
    BY DEF At_, Locking, Importing
  <2>2. Sound(work[w])
    BY <2>1, WorkType
  <2>3. work[w].todo # {} /\ work[w].rec \in Recording
    BY <2>1, <2>2 DEF Sound
  <2>. QED BY <2>1, <2>2, <2>3, WorkType
<1>2. work[w].row \in View \cup {None}
  BY <1>1 DEF Work
<1>3. /\ a \in IF known # {} THEN known ELSE {x \in Asset : asset[x] = None}
      /\ asset' = [asset EXCEPT ![a] = new]
      /\ undone' = undone \cup {k \in known : \/ asset[k].rec # work[w].rec
                                              \/ asset[k].manual /\ ~work[w].row.manual}
  BY DEF ApplyCommit
<1>4. known # {} => work[w].row # None /\ work[w].row.id = a /\ asset[a] # None
  BY <1>1, <1>3 DEF Written, RowKnown
<1>5. m \in BOOLEAN
  BY <1>2, <1>4 DEF View
<1>6. path \in Path
  <2>1. CASE work[w].located
    <3>1. work[w].row # None /\ asset[work[w].row.id] # None
      BY <1>1, <2>1 DEF RowKnown
    <3>2. work[w].row.id \in Asset
      BY <1>2, <3>1 DEF View
    <3>3. known # {}
      BY <3>1, <3>2 DEF Written
    <3>4. asset[a] \in AssetRow
      BY <1>4, <3>3 DEF IInv, TypeOK
    <3>. QED BY <2>1, <3>4 DEF AssetRow
  <2>2. CASE ~work[w].located
    BY <1>1, <2>2
  <2>. QED BY <2>1, <2>2
<1>7. asset'[a] = new
  BY <1>3 DEF IInv, TypeOK
<1>8. row.content \in Content
  BY <1>1 DEF Read
<1>9. asset[a] # None =>
        /\ known # {} /\ a \in known
        /\ work[w].row # None /\ work[w].row.id = a /\ work[w].row.rec = work[w].rec
  BY <1>1, <1>3, <1>4 DEF RowKnown
<1>10. asset[a] # None => m = work[w].row.manual
  BY <1>9
<1>11. asset[a] # None =>
         a \in undone' \/ (asset[a].rec = work[w].rec /\ (asset[a].manual => m))
  BY <1>3, <1>9, <1>10
<1>. HIDE DEF m, row, path, known
<1>12. new \in AssetRow /\ new.manual = m /\ new.rec = work[w].rec
  BY <1>1, <1>5, <1>6, <1>8 DEF AssetRow
<1>. QED BY <1>3, <1>7, <1>9, <1>11, <1>12, NoneAssumption

\* A committed import is counted once, and its file has its recording.
LEMMA InvCommit ==
  ASSUME IInv, NEW w \in Worker, At_(w, "commit"), NEW a \in Asset, ApplyCommit(w, a)
  PROVE  IInv'
<1>. DEFINE i == Current(w)
            r == work[w].rec
            row == [item[i] EXCEPT !.rec = r, !.asset = a, !.applied = TRUE]
<1>1. /\ work[w] \in Work /\ work[w] # None /\ Locking(work[w]) /\ Sound(work[w])
      /\ i = Front(work[w]) /\ work[w].todo # {} /\ r \in Recording
      /\ i \in Batch \X Path /\ item[i] \in Item /\ Read(item[i]) /\ item[i] # None
      /\ item[i].action # "unchanged" /\ ~item[i].applied /\ Ready(i[1])
  <2>1. work[w] # None /\ Locking(work[w])
    BY DEF At_, Locking, Importing
  <2>2. Sound(work[w]) /\ i = Front(work[w]) /\ work[w] \in Work
    BY <2>1, WorkType
  <2>3. work[w].todo # {} /\ r \in Recording /\ CanApply(item[i])
    BY <2>1, <2>2 DEF Sound
  <2>4. Ready(i[1])
    BY <2>1, WorkType DEF Current
  <2>. QED BY <2>1, <2>2, <2>3, <2>4, WorkType DEF CanApply
<1>2. /\ row \in Item /\ row.action = item[i].action /\ row.applied = TRUE
      /\ row.content = item[i].content /\ row.tags = item[i].tags /\ row.rec = r
      /\ row.asset = a
  BY <1>1 DEF Item
<1>3. /\ item' = [item EXCEPT ![i] = row] /\ work' = [work EXCEPT ![w] = Done(w)]
      /\ applied' = [applied EXCEPT ![i] = applied[i] + 1]
      /\ title' = IF Authority(w) THEN title ELSE [title EXCEPT ![r] = item[i].tags.title]
      /\ isrc' = IF work[w].gain = None THEN isrc ELSE [isrc EXCEPT ![r] = work[w].gain]
      /\ apart' = IF work[w].other = None THEN apart
                  ELSE apart \cup {[pair |-> {r, work[w].other}, method |-> item[i].method]}
      /\ UNCHANGED <<disk, status, recovers, scan, events>>
  <2>1. item' = [item EXCEPT ![i] = row]
    BY DEF ApplyCommit
  <2>. QED BY <2>1 DEF ApplyCommit
<1>4. /\ asset' = [asset EXCEPT ![a] = asset'[a]]
      /\ asset'[a] \in AssetRow /\ asset'[a] # None /\ asset'[a].rec = r
      /\ asset[a] # None =>
           a \in undone' \/ (asset[a].rec = r /\ (asset[a].manual => asset'[a].manual))
  BY CommitTarget
<1>16. undone \subseteq undone' /\ undone' \subseteq Asset
  BY DEF ApplyCommit, Written, IInv, TypeOK
<1>5. \A v \in Worker \ {w} : work[v] # None /\ Locking(work[v]) => Front(work[v]) # i
  BY <1>1 DEF IInv, Held
<1>6. Done(w) \in Work /\ Done(w) # None /\ ~Locking(Done(w)) /\ Sound(Done(w))
      /\ RowKnown(Done(w))
  BY <1>1, DoneType
<1>7. item[i].tags \in Tags /\ item[i].method \in Method
  BY <1>1 DEF Read, Item
<1>. HIDE DEF row, i, r
<1>8. row # None /\ Read(row) /\ row.action # "unchanged"
  BY <1>1, <1>2, NoneAssumption DEF Read
<1>9. \A j \in Batch \X Path : item'[j] = IF j = i THEN row ELSE item[j]
  BY <1>3 DEF IInv, TypeOK
<1>10. TypeOK'
  <2>1. title' \in [Recording -> Title \cup {None}]
    <3>1. item[i].tags.title \in Title \cup {None}
      BY <1>7 DEF Tags
    <3>. QED BY <1>3, <3>1 DEF IInv, TypeOK
  <2>2. isrc' \in [Recording -> Isrc \cup {None}]
    BY <1>1, <1>3 DEF IInv, TypeOK, Work
  <2>3. apart' \subseteq [pair : SUBSET Recording, method : Method]
    <3>1. work[w].other # None =>
            [pair |-> {r, work[w].other}, method |-> item[i].method]
              \in [pair : SUBSET Recording, method : Method]
      BY <1>1, <1>7 DEF Work
    <3>2. apart \subseteq [pair : SUBSET Recording, method : Method]
      BY DEF IInv, TypeOK
    <3>. QED BY <1>3, <3>1, <3>2
  <2>4. asset' \in [Asset -> AssetRow \cup {None}]
    BY <1>4 DEF IInv, TypeOK
  <2>5. item' \in [Batch \X Path -> Item \cup {None}] /\ work' \in [Worker -> Work \cup {None}]
        /\ applied' \in [Batch \X Path -> Nat]
    BY <1>1, <1>2, <1>3, <1>6 DEF IInv, TypeOK
  <2>. QED BY <1>3, <1>16, <2>1, <2>2, <2>3, <2>4, <2>5 DEF IInv, TypeOK
<1>11. Scanned'
  BY <1>1, <1>2, <1>3, <1>8, ScannedKept
<1>12. Held'
  <2>1. \A v \in Worker : work'[v] = IF v = w THEN Done(w) ELSE work[v]
    BY <1>3 DEF IInv, TypeOK
  <2>2. ASSUME NEW v \in Worker, work'[v] # None
        PROVE  Sound(work[v])'
    <3>1. PICK x \in Work : x = work'[v]
      BY <1>6, <2>1, <2>2, WorkType
    <3>2. Sound(x) /\ (Locking(x) => Front(x) # i)
      BY <1>5, <1>6, <2>1, <2>2, <3>1, WorkType
    <3>3. Sound(x)'
      BY <1>1, <1>2, <1>3, <1>8, <3>2, SoundKept
    <3>. QED BY <3>1, <3>3 DEF Sound, Ready, Read, Locking, Importing, Front, CanApply, Complete
  <2>3. ASSUME NEW u \in Worker, NEW v \in Worker,
               work'[u] # None, Locking(work'[u]), work'[v] # None, Locking(work'[v]),
               Front(work'[u]) = Front(work'[v])
        PROVE  u = v
    BY <1>6, <2>1, <2>3 DEF IInv, Held
  <2>. QED BY <2>2, <2>3 DEF Held, Locking, Importing, Front
<1>13. Counted'
  <2>1. ASSUME NEW c \in Batch, status'[c] = "applied"
        PROVE  Complete(c)'
    BY <1>1, <1>2, <1>3, <2>1, CompleteKept DEF IInv, Counted
  <2>2. applied[i] = 0
    BY <1>1 DEF IInv, Counted
  <2>3. \A j \in Batch \X Path : applied'[j] = IF j = i THEN 1 ELSE applied[j]
    BY <1>3, <2>2 DEF IInv, TypeOK
  <2>. QED BY <1>2, <1>8, <1>9, <2>1, <2>3 DEF IInv, Counted
<1>14. Linked'
  <2>1. \A x \in Asset : asset'[x] = IF x = a THEN asset'[a] ELSE asset[x]
    BY <1>4 DEF IInv, TypeOK
  <2>2. \A j \in Batch \X Path : item[j] # None /\ item[j].asset # None => item[j].asset \in Asset
    BY DEF IInv, TypeOK, Item
  <2>3. ASSUME NEW j \in Batch \X Path, item'[j] # None, item'[j].asset # None
        PROVE  asset'[item'[j].asset] # None
    BY <1>2, <1>4, <1>9, <2>1, <2>2, <2>3 DEF IInv, Linked
  <2>4. ASSUME NEW c \in Batch, NEW q \in Path, scan[c] # None, scan[c].seen[q] # None
        PROVE  /\ asset'[scan[c].seen[q].id] # None
               /\ \/ asset'[scan[c].seen[q].id].manual \/ scan[c].seen[q].id \in undone'
                  \/ scan[c].seen[q].rec = asset'[scan[c].seen[q].id].rec
    <3>1. scan[c].seen[q].id \in Asset
      BY <2>4 DEF IInv, TypeOK, Scan, View
    <3>. QED BY <1>4, <1>16, <2>1, <2>4, <3>1 DEF IInv, Linked
  <2>5. ASSUME NEW j \in Batch \X Path, CanApply(item'[j]), item'[j].asset # None
        PROVE  \/ asset'[item'[j].asset].manual \/ item'[j].asset \in undone'
               \/ item'[j].rec = asset'[item'[j].asset].rec
    <3>1. j # i /\ item'[j] = item[j] /\ item[j] # None
      BY <1>2, <1>9, <2>5 DEF CanApply
    <3>2. asset[item[j].asset] # None
          /\ \/ asset[item[j].asset].manual \/ item[j].asset \in undone
             \/ item[j].rec = asset[item[j].asset].rec
      BY <2>5, <3>1 DEF IInv, Linked, ProposalFollowsLink
    <3>. QED BY <1>4, <1>16, <2>1, <2>2, <2>5, <3>1, <3>2
  <2>6. ProposalFollowsLink'
    BY <2>5 DEF ProposalFollowsLink, CanApply
  <2>. QED BY <1>3, <2>3, <2>4, <2>6 DEF Linked
<1>15. Viewed'
  <2>1. \A v \in Worker : work'[v] = IF v = w THEN Done(w) ELSE work[v]
    BY <1>3 DEF IInv, TypeOK
  <2>2. \A x \in Asset : asset[x] # None => asset'[x] # None
    BY <1>4 DEF IInv, TypeOK
  <2>3. ASSUME NEW v \in Worker, work'[v] # None
        PROVE  RowKnown(work[v])'
    <3>1. PICK x \in Work : x = work'[v] /\ RowKnown(x)
      BY <1>6, <2>1, <2>3, WorkType
    <3>2. x.row # None => x.row.id \in Asset
      BY <3>1 DEF Work, View
    <3>. QED BY <2>2, <3>1, <3>2 DEF RowKnown
  <2>. QED BY <2>3 DEF Viewed, RowKnown
<1>. QED BY <1>10, <1>11, <1>12, <1>13, <1>14, <1>15 DEF IInv

\* A file that is split off is linked by hand from then on.
LEMMA InvSplit ==
  ASSUME IInv, NEW a \in Asset, NEW r \in Recording, Split(a, r)
  PROVE  IInv'
<1>. DEFINE content == disk[asset[a].path]
            i == TagsOf[content].isrc
<1>1. /\ asset[a] # None /\ content # None /\ events < MaxEvents /\ events' = events + 1
      /\ title' = [title EXCEPT ![r] = TagsOf[content].title]
      /\ isrc' = IF i = None \/ Holders(i) # {} THEN isrc ELSE [isrc EXCEPT ![r] = i]
      /\ apart' = apart \cup {[pair |-> {r, h}, method |-> "manual_file_split"] : h \in Holders(i)}
      /\ asset' = [asset EXCEPT ![a].rec = r, ![a].content = content, ![a].manual = TRUE]
      /\ UNCHANGED <<disk, item, status, recovers, scan, work, applied, undone>>
  BY DEF Split, MayBeSplit
<1>2. asset[a] \in AssetRow /\ asset[a].path \in Path
  <2>1. asset[a] \in AssetRow
    BY <1>1 DEF IInv, TypeOK
  <2>. QED BY <2>1 DEF AssetRow
<1>3. content \in Content
  BY <1>1, <1>2 DEF IInv, TypeOK
<1>4. TagsOf[content] \in Tags
  BY <1>3, IngestAssumption
<1>5. i \in Isrc \cup {None} /\ TagsOf[content].title \in Title \cup {None}
  BY <1>4 DEF Tags
<1>. HIDE DEF i, content
<1>6. asset'[a] \in AssetRow /\ asset'[a].manual = TRUE /\ asset'[a] # None
  <2>1. asset'[a] \in AssetRow /\ asset'[a].manual = TRUE
    BY <1>1, <1>2, <1>3 DEF IInv, TypeOK, AssetRow
  <2>. QED BY <2>1, NoneAssumption
<1>7. \A x \in Asset : x # a => asset'[x] = asset[x]
  BY <1>1 DEF IInv, TypeOK
<1>8. TypeOK'
  <2>1. title' \in [Recording -> Title \cup {None}] /\ isrc' \in [Recording -> Isrc \cup {None}]
    BY <1>1, <1>5 DEF IInv, TypeOK
  <2>2. apart' \subseteq [pair : SUBSET Recording, method : Method]
    <3>1. \A h \in Holders(i) :
            [pair |-> {r, h}, method |-> "manual_file_split"]
              \in [pair : SUBSET Recording, method : Method]
      BY DEF Holders, Method
    <3>2. apart \subseteq [pair : SUBSET Recording, method : Method]
      BY DEF IInv, TypeOK
    <3>. QED BY <1>1, <3>1, <3>2
  <2>3. asset' \in [Asset -> AssetRow \cup {None}]
    <3>1. asset \in [Asset -> AssetRow \cup {None}]
      BY DEF IInv, TypeOK
    <3>. QED BY <1>1, <1>6, <1>7, <3>1
  <2>4. events' \in 0..MaxEvents
    BY <1>1, EventsType DEF IInv, TypeOK
  <2>. QED BY <1>1, <2>1, <2>2, <2>3, <2>4 DEF IInv, TypeOK
<1>9. Scanned' /\ Held' /\ Counted'
  BY <1>1 DEF IInv, Scanned, Held, Counted, Sound, Ready, Read, Locking, Importing, Front, CanApply, Complete
<1>10. Linked'
  <2>1. \A x \in Asset : asset[x] # None =>
           asset'[x] # None /\ (asset'[x].manual \/ (x # a /\ asset'[x] = asset[x]))
    BY <1>6, <1>7
  <2>2. \A j \in Batch \X Path : item[j] # None /\ item[j].asset # None => item[j].asset \in Asset
    BY DEF IInv, TypeOK, Item
  <2>3. \A c \in Batch, q \in Path :
          scan[c] # None /\ scan[c].seen[q] # None => scan[c].seen[q].id \in Asset
    BY DEF IInv, TypeOK, Scan, View
  <2>4. \A j \in Batch \X Path : item[j] # None /\ item[j].asset # None =>
          asset'[item[j].asset] # None
    BY <2>1, <2>2 DEF IInv, Linked
  <2>5. ASSUME NEW c \in Batch, NEW q \in Path, scan[c] # None, scan[c].seen[q] # None
        PROVE  /\ asset'[scan[c].seen[q].id] # None
               /\ \/ asset'[scan[c].seen[q].id].manual
                  \/ scan[c].seen[q].id \in undone
                  \/ scan[c].seen[q].rec = asset'[scan[c].seen[q].id].rec
    BY <2>1, <2>3, <2>5 DEF IInv, Linked
  <2>6. ASSUME NEW j \in Batch \X Path, CanApply(item[j]), item[j].asset # None
        PROVE  \/ asset'[item[j].asset].manual \/ item[j].asset \in undone
               \/ item[j].rec = asset'[item[j].asset].rec
    <3>1. item[j] # None /\ asset[item[j].asset] # None
          /\ \/ asset[item[j].asset].manual \/ item[j].asset \in undone
             \/ item[j].rec = asset[item[j].asset].rec
      BY <2>6 DEF CanApply, IInv, Linked, ProposalFollowsLink
    <3>. QED BY <2>1, <2>2, <2>6, <3>1
  <2>7. ProposalFollowsLink'
    BY <1>1, <2>6 DEF ProposalFollowsLink, CanApply
  <2>. QED BY <1>1, <2>4, <2>5, <2>7 DEF Linked
<1>11. Viewed'
  <2>1. \A x \in Asset : asset[x] # None => asset'[x] # None
    BY <1>6, <1>7
  <2>2. \A w \in Worker : work[w] # None /\ work[w].row # None => work[w].row.id \in Asset
    BY DEF IInv, TypeOK, Work, View
  <2>. QED BY <1>1, <2>1, <2>2 DEF IInv, Viewed, RowKnown
<1>. QED BY <1>8, <1>9, <1>10, <1>11 DEF IInv

-----------------------------------------------------------------------------
(* The theorems.                                                           *)

\* A step that changes nothing keeps the invariant.
LEMMA InvStutter ==
  ASSUME IInv, UNCHANGED vars
  PROVE  IInv'
<1>1. UNCHANGED <<disk, title, isrc, asset, apart, undone, item, status, recovers, scan, work,
                  applied, events>>
  BY DEF vars, catalogue
<1>. QED BY <1>1, ZenonT(40) DEF IInv, TypeOK, Scanned, Held, Viewed, RowKnown, Counted, Linked, ProposalFollowsLink,
                     CanApply, Sound, Ready, Read, Locking, Front, Complete

\* An import, whether of a new file or of a known one, keeps the invariant (apply_item).
LEMMA InvImport ==
  ASSUME IInv, ApplyStep
  PROVE  IInv'
<1>. PICK w \in Worker :
       \/ \E b \in Batch : ApplyStart(w, b)
       \/ ApplySkip(w) \/ ApplySourceGone(w) \/ ApplyResolve(w)
       \/ ApplyIdentify(w) \/ ApplyLocate(w) \/ ApplyRefuse(w)
       \/ At_(w, "commit") /\ \E a \in Asset : ApplyCommit(w, a)
       \/ ApplyFail(w) \/ ApplyCount(w) \/ ApplyReport(w) \/ Crash(w)
  BY DEF ApplyStep
<1>1. ASSUME NEW a \in Asset, At_(w, "commit"), ApplyCommit(w, a)
      PROVE  IInv'
  BY <1>1, InvCommit
<1>2. ASSUME NEW b \in Batch, ApplyStart(w, b)
      PROVE  IInv'
  BY <1>2, InvApplyStart
<1>. QED BY <1>1, <1>2, InvSkip, InvSourceGone, InvResolve, InvIdentify, InvLocate, InvRefuse,
            InvFail, InvCount, InvReport, InvCrash

\* Every step keeps the invariant.
LEMMA InvNext == IInv /\ [Next]_vars => IInv'
<1>. SUFFICES ASSUME IInv, [Next]_vars PROVE IInv'
  OBVIOUS
<1>1. CASE ScanStep
  BY <1>1, InvScan
<1>2. CASE ReviewStep
  BY <1>2, InvReview DEF ReviewStep
<1>3. CASE ApplyStep
  BY <1>3, InvImport
<1>4. CASE \E a \in Asset, r \in Recording : Split(a, r)
  BY <1>4, InvSplit
<1>5. CASE \E p \in Path, c \in Content \cup {None} : EditDisk(p, c)
  BY <1>5, InvEditDisk
<1>6. CASE UNCHANGED vars
  BY <1>6, InvStutter
<1>. QED BY <1>1, <1>2, <1>3, <1>4, <1>5, <1>6 DEF Next

\* The types, the locks and what scans and imports remember are invariant.
THEOREM IngestInvariant == Spec => []IInv
BY IInvInit, InvNext, PTL DEF Spec

\* The variables have their types.
THEOREM TypeCorrect == Spec => []TypeOK
<1>1. IInv => TypeOK
  BY DEF IInv
<1>. QED BY <1>1, IngestInvariant, PTL

\* No item is imported twice, however many workers take its batch and whenever one
\* of them dies, and a batch that is reported as applied lacks no file (apply_item,
\* apply_batch).
THEOREM EachOnceAndWhole == Spec => []ImportedOnceAndWhole
<1>1. IInv => ImportedOnceAndWhole
  <2>. SUFFICES ASSUME IInv PROVE AppliedOnce /\ AppliedIsComplete
    BY DEF ImportedOnceAndWhole
  <2>1. AppliedOnce
    BY DEF IInv, Counted, AppliedOnce
  <2>2. AppliedIsComplete
    BY DEF IInv, Counted, Complete, AppliedIsComplete
  <2>. QED BY <2>1, <2>2
<1>. QED BY <1>1, IngestInvariant, PTL

\* A proposal that can be applied is one that import accepts for the recording of
\* its file, or the file was split off meanwhile, or an import overwrote a split of it
\* (scan_directory, review_item).
THEOREM ProposalsFollowLinks == Spec => []ProposalFollowsLink
<1>1. IInv => ProposalFollowsLink
  BY DEF IInv, Linked
<1>. QED BY <1>1, IngestInvariant, PTL

\* Only a split gives a file another recording, or an import that read its row before
\* one (apply_item, split_radio_file_to_new_recording).
THEOREM LinksKept == Spec => LinkKept
<1>. DEFINE Import(a) ==
       \E w \in Worker : /\ work[w] # None /\ work[w].row # None
                         /\ work[w].row.id = a /\ asset'[a].rec = work[w].row.rec
                         /\ ApplyCommit(w, a)
            Kept(a) == /\ asset'[a] # None
                       /\ \/ asset'[a].rec = asset[a].rec
                          \/ \E r \in Recording : Split(a, r)
                          \/ Import(a)
<1>1. IInv /\ [Next]_vars => [\A a \in Asset : asset[a] # None => Kept(a)]_vars
  <2>. SUFFICES ASSUME IInv, Next, NEW a \in Asset, asset[a] # None
                PROVE  Kept(a)
    OBVIOUS
  <2>1. CASE asset'[a] = asset[a]
    BY <2>1
  <2>2. ASSUME NEW w \in Worker, At_(w, "commit"), NEW x \in Asset, ApplyCommit(w, x)
        PROVE  Kept(a)
    <3>1. CASE x = a
      <4>1. /\ asset'[a] # None /\ asset'[a].rec = work[w].rec
            /\ work[w].row # None /\ work[w].row.id = a /\ work[w].row.rec = work[w].rec
        BY <2>2, <3>1, CommitTarget
      <4>2. work[w] # None /\ ApplyCommit(w, a)
        BY <2>2, <3>1 DEF At_
      <4>3. asset'[a].rec = work[w].row.rec
        BY <4>1
      <4>4. Import(a)
        BY <4>1, <4>2, <4>3
      <4>. QED BY <4>1, <4>4
    <3>2. CASE x # a
      <4>1. asset' = [asset EXCEPT ![x] = asset'[x]]
        BY <2>2, CommitTarget
      <4>2. asset'[a] = asset[a]
        BY <3>2, <4>1 DEF IInv, TypeOK
      <4>. QED BY <2>1, <4>2
    <3>. QED BY <3>1, <3>2
  <2>3. ASSUME NEW x \in Asset, NEW r \in Recording, Split(x, r), x # a
        PROVE  asset'[a] = asset[a]
    BY <2>3 DEF Split, IInv, TypeOK
  <2>4. ASSUME NEW r \in Recording, Split(a, r)
        PROVE  Kept(a)
    <3>1. asset[a] \in AssetRow /\ disk[asset[a].path] \in Content
      BY <2>4 DEF Split, MayBeSplit, IInv, TypeOK, AssetRow
    <3>2. asset'[a] \in AssetRow
      BY <2>4, <3>1 DEF Split, IInv, TypeOK, AssetRow
    <3>. QED BY <2>4, <3>2, NoneAssumption
  <2>5. CASE ScanStep
    <3>1. UNCHANGED asset
      BY <2>5 DEF ScanStep, ScanStart, Rescan, ReRead, OpenScan, ScanInvalid, ScanUnchanged,
                  ScanFile, ScanDisturbed, ScanItem, catalogue
    <3>. QED BY <2>1, <3>1
  <2>6. CASE ReviewStep
    <3>1. PICK b \in Batch, p \in Path, r \in Recording \cup {None} :
            \E t \in Corrections(item[b, p].tags, r) : Review(b, p, r, t)
      BY <2>6 DEF ReviewStep
    <3>2. UNCHANGED asset
      BY <3>1 DEF Review, catalogue
    <3>. QED BY <2>1, <3>2
  <2>7. CASE ApplyStep
    <3>1. CASE UNCHANGED asset
      BY <2>1, <3>1
    <3>2. CASE \E w \in Worker : At_(w, "commit") /\ \E x \in Asset : ApplyCommit(w, x)
      BY <2>2, <3>2
    <3>3. UNCHANGED asset
            \/ \E w \in Worker : At_(w, "commit") /\ \E x \in Asset : ApplyCommit(w, x)
      BY <2>7 DEF ApplyStep, ApplyStart, ApplySkip, ApplySourceGone, ApplyResolve,
           ApplyIdentify, ApplyLocate, ApplyRefuse, ApplyFail, ApplyCount, ApplyReport, Crash,
           catalogue
    <3>. QED BY <3>1, <3>2, <3>3
  <2>8. CASE \E x \in Asset, r \in Recording : Split(x, r)
    BY <2>1, <2>3, <2>4, <2>8
  <2>9. CASE \E p \in Path, c \in Content \cup {None} : EditDisk(p, c)
    BY <2>1, <2>9 DEF EditDisk, catalogue
  <2>. QED BY <2>5, <2>6, <2>7, <2>8, <2>9 DEF Next
<1>. QED BY <1>1, IngestInvariant, PTL DEF Spec, LinkKept

-----------------------------------------------------------------------------
(* What becomes of the ISRC of a file.                                     *)

\* Recording r answers for ISRC i: it has one, or is kept apart from one that has i.
Settled(i, r) ==
  \/ i = None \/ Catalogued[r] # None \/ isrc[r] # None
  \/ \E d \in apart : r \in d.pair /\ d.pair \cap Holders(i) # {}

\* An import that has looked at the ISRC of its file will settle it when it commits.
Prepared(x) ==
  LET i == item[Front(x)].tags.isrc
  IN Settled(i, x.rec) \/ x.gain = i \/ x.other \in Holders(i)

Looked(x) == x # None /\ x.at \in {"locate", "commit"}

AInv ==
  /\ \A j \in Batch \X Path : item[j] # None /\ item[j].applied =>
       item[j].rec \in Recording /\ Settled(item[j].tags.isrc, item[j].rec)
  /\ \A w \in Worker : Looked(work[w]) => Prepared(work[w])

\* No recording loses its ISRC, and what is kept apart stays so.
Growing ==
  /\ \A q \in Recording : isrc[q] # None => isrc'[q] = isrc[q]
  /\ apart \subseteq apart'

\* What is settled stays settled.
LEMMA SettledKept ==
  ASSUME Growing
  PROVE  /\ \A i : Holders(i) \subseteq Holders(i)'
         /\ \A i, r : r \in Recording /\ Settled(i, r) => Settled(i, r)'
<1>1. \A i : Holders(i) \subseteq Holders(i)'
  BY DEF Growing, Holders
<1>2. ASSUME NEW i, NEW r \in Recording, Settled(i, r)
      PROVE  Settled(i, r)'
  <2>1. CASE i = None \/ Catalogued[r] # None
    BY <2>1 DEF Settled
  <2>2. CASE isrc[r] # None
    BY <2>2 DEF Settled, Growing
  <2>3. CASE \E d \in apart : r \in d.pair /\ d.pair \cap Holders(i) # {}
    <3>1. PICK d \in apart : r \in d.pair /\ d.pair \cap Holders(i) # {}
      BY <2>3
    <3>2. d \in apart' /\ d.pair \cap Holders(i)' # {}
      BY <1>1, <3>1 DEF Growing
    <3>. QED BY <3>1, <3>2 DEF Settled
  <2>. QED BY <1>2, <2>1, <2>2, <2>3 DEF Settled
<1>. QED BY <1>1, <1>2

\* The ISRC of an item that was imported before stays settled.
LEMMA RowKept ==
  ASSUME AInv, Growing, NEW j \in Batch \X Path, item[j] # None, item[j].applied,
         item'[j].tags = item[j].tags, item'[j].rec = item[j].rec
  PROVE  item'[j].rec \in Recording /\ Settled(item[j].tags.isrc, item[j].rec)'
<1>1. PICK i, r : i = item[j].tags.isrc /\ r = item[j].rec
  OBVIOUS
<1>2. r \in Recording /\ Settled(i, r)
  BY <1>1 DEF AInv
<1>3. Settled(i, r)'
  BY <1>2, SettledKept
<1>. QED BY <1>1, <1>2, <1>3 DEF Settled, Holders

\* An import that had looked at the ISRC of its file is still prepared.
LEMMA ImportKept ==
  ASSUME IInv, AInv, Growing, NEW w \in Worker, Looked(work[w]),
         Front(work'[w]) = Front(work[w]), work'[w].rec = work[w].rec,
         work'[w].gain = work[w].gain, work'[w].other = work[w].other,
         item'[Front(work[w])] = item[Front(work[w])]
  PROVE  Prepared(work[w])'
<1>1. PICK i, r, g, o : /\ i = item[Front(work[w])].tags.isrc /\ r = work[w].rec
                        /\ g = work[w].gain /\ o = work[w].other
  OBVIOUS
<1>2. Settled(i, r) \/ g = i \/ o \in Holders(i)
  BY <1>1 DEF AInv, Prepared
<1>3. r \in Recording
  <2>1. Sound(work[w]) /\ Locking(work[w])
    BY WorkType DEF Looked, Locking, Importing
  <2>. QED BY <1>1, <2>1 DEF Sound
<1>4. Settled(i, r)' \/ g = i \/ o \in Holders(i)'
  BY <1>2, <1>3, SettledKept
<1>. QED BY <1>1, <1>4 DEF Prepared, Front, Settled, Holders

\* A step that imports no item, and takes no import to where it has looked.
LEMMA AccountsKept ==
  ASSUME IInv, AInv, Growing,
         \A j \in Batch \X Path : item'[j] # None /\ item'[j].applied =>
           /\ item[j] # None /\ item[j].applied
           /\ item'[j].tags = item[j].tags /\ item'[j].rec = item[j].rec,
         \A w \in Worker : Looked(work'[w]) =>
           /\ Looked(work[w]) /\ Front(work'[w]) = Front(work[w])
           /\ work'[w].rec = work[w].rec /\ work'[w].gain = work[w].gain
           /\ work'[w].other = work[w].other
           /\ item'[Front(work[w])] = item[Front(work[w])]
  PROVE  AInv'
<1>1. ASSUME NEW j \in Batch \X Path, item'[j] # None, item'[j].applied
      PROVE  item'[j].rec \in Recording /\ Settled(item[j].tags.isrc, item[j].rec)'
  BY <1>1, RowKept
<1>2. ASSUME NEW w \in Worker, Looked(work'[w])
      PROVE  Prepared(work[w])'
  BY <1>2, ImportKept
<1>. QED BY <1>1, <1>2 DEF AInv, Looked

\* An import looks at the ISRC of its file: its recording takes it if it is free, or
\* is kept apart from the one that has it (apply_item).
LEMMA AccountsIdentify ==
  ASSUME IInv, AInv, NEW w \in Worker, ApplyIdentify(w)
  PROVE  AInv'
<1>. DEFINE i == item[Current(w)].tags.isrc
            g == IF Lacks(w, i) /\ Holders(i) = {} THEN i ELSE None
            o == IF Lacks(w, i) /\ Holders(i) \ {work[w].rec} # {}
                 THEN CHOOSE r \in Holders(i) : TRUE ELSE None
            x == [work[w] EXCEPT !.at = "locate", !.gain = g, !.other = o]
<1>1. /\ work[w] # None /\ work[w] \in Work /\ Current(w) = Front(work[w])
  BY WorkType DEF ApplyIdentify, At_
<1>2. /\ work' = [work EXCEPT ![w] = x]
      /\ UNCHANGED <<title, isrc, apart, item>>
  <2>1. work' = [work EXCEPT ![w].at = "locate", ![w].gain = g, ![w].other = o]
    BY DEF ApplyIdentify
  <2>2. UNCHANGED <<title, isrc, apart, item>>
    BY DEF ApplyIdentify, catalogue
  <2>. HIDE DEF g, o
  <2>. QED BY <1>1, <2>1, <2>2 DEF IInv, TypeOK, Work
<1>3. Settled(i, work[w].rec) \/ g = i \/ o \in Holders(i)
  <2>1. CASE ~Lacks(w, i)
    BY <2>1 DEF Lacks, Authority, Settled
  <2>2. CASE Lacks(w, i) /\ Holders(i) = {}
    BY <2>2
  <2>3. CASE Lacks(w, i) /\ Holders(i) # {}
    <3>1. CASE Holders(i) \ {work[w].rec} # {}
      BY <2>3, <3>1
    <3>2. CASE Holders(i) \ {work[w].rec} = {}
      <4>1. work[w].rec \in Holders(i)
        BY <2>3, <3>2
      <4>. QED BY <4>1 DEF Holders, Settled
    <3>. QED BY <3>1, <3>2
  <2>. QED BY <2>1, <2>2, <2>3
<1>4. /\ x.gain = g /\ x.other = o /\ x.rec = work[w].rec /\ Front(x) = Front(work[w])
  BY <1>1 DEF Work, Front
<1>5. i = item[Front(x)].tags.isrc
  BY <1>1, <1>4
<1>6. \A v \in Worker : work'[v] = IF v = w THEN x ELSE work[v]
  BY <1>2 DEF IInv, TypeOK
<1>. HIDE DEF x, g, o, i
<1>7. Prepared(x)
  BY <1>3, <1>4, <1>5 DEF Prepared
<1>8. ASSUME NEW v \in Worker, Looked(work'[v])
      PROVE  Prepared(work'[v])
  BY <1>6, <1>7, <1>8 DEF AInv
<1>9. \A i_ , r : Settled(i_, r)' <=> Settled(i_, r)
  BY <1>2 DEF Settled, Holders
<1>10. \A v \in Worker : Looked(work'[v]) => Prepared(work[v])'
  BY <1>2, <1>8 DEF Prepared, Front, Settled, Holders
<1>. QED BY <1>2, <1>9, <1>10 DEF AInv, Looked, Prepared, Front, Settled, Holders

\* An import that commits has settled the ISRC of its file (apply_item).
LEMMA AccountsCommit ==
  ASSUME IInv, AInv, NEW w \in Worker, At_(w, "commit"), NEW a \in Asset, ApplyCommit(w, a)
  PROVE  AInv'
<1>1. PICK c, r, i, g, o :
        /\ c = Current(w) /\ r = work[w].rec /\ i = item[Current(w)].tags.isrc
        /\ g = work[w].gain /\ o = work[w].other
  OBVIOUS
<1>. DEFINE row == [item[c] EXCEPT !.rec = r, !.asset = a, !.applied = TRUE]
<1>2. /\ work[w] # None /\ work[w] \in Work /\ Locking(work[w]) /\ Looked(work[w])
      /\ c = Front(work[w]) /\ r \in Recording /\ c \in Batch \X Path
      /\ item[c] \in Item
  <2>1. work[w] # None /\ work[w] \in Work /\ Locking(work[w]) /\ Looked(work[w])
        /\ c = Front(work[w]) /\ Sound(work[w])
    BY <1>1, WorkType DEF At_, Locking, Importing, Looked
  <2>2. work[w].todo # {} /\ r \in Recording
    BY <1>1, <2>1 DEF Sound
  <2>. QED BY <1>1, <2>1, <2>2, WorkType
<1>3. /\ item' = [item EXCEPT ![c] = row] /\ work' = [work EXCEPT ![w] = Done(w)]
      /\ isrc' = IF g = None THEN isrc ELSE [isrc EXCEPT ![r] = g]
      /\ apart' = IF o = None THEN apart
                  ELSE apart \cup {[pair |-> {r, o}, method |-> item[c].method]}
      /\ g # None => isrc[r] = None
  BY <1>1 DEF ApplyCommit, Constraints
<1>4. Growing
  BY <1>2, <1>3 DEF Growing, IInv, TypeOK
<1>5. Settled(i, r)'
  <2>1. Settled(i, r) \/ g = i \/ o \in Holders(i)
    BY <1>1, <1>2 DEF AInv, Prepared
  <2>2. CASE Settled(i, r)
    BY <1>2, <1>4, <2>2, SettledKept
  <2>3. CASE g = i
    <3>1. i = None \/ isrc'[r] # None
      BY <1>2, <1>3, <2>3 DEF IInv, TypeOK
    <3>. QED BY <3>1 DEF Settled
  <2>4. CASE o \in Holders(i)
    <3>1. o \in Holders(i)' /\ o # None
      BY <1>4, <2>4, SettledKept, IngestAssumption DEF Holders
    <3>2. [pair |-> {r, o}, method |-> item[c].method] \in apart'
      BY <1>3, <3>1
    <3>. QED BY <3>1, <3>2 DEF Settled
  <2>. QED BY <2>1, <2>2, <2>3, <2>4
<1>6. row.rec = r /\ row.tags = item[c].tags
  BY <1>2 DEF Item
<1>7. \A j \in Batch \X Path : item'[j] = IF j = c THEN row ELSE item[j]
  BY <1>3 DEF IInv, TypeOK
<1>. HIDE DEF row
<1>8. ASSUME NEW j \in Batch \X Path, item'[j] # None, item'[j].applied
      PROVE  item'[j].rec \in Recording /\ Settled(item[j].tags.isrc, item[j].rec)'
  <2>1. CASE j = c
    <3>1. item'[j].rec = r /\ item'[j].tags.isrc = i
      BY <1>1, <1>6, <1>7, <2>1
    <3>. QED BY <1>2, <1>5, <3>1 DEF Settled, Holders
  <2>2. CASE j # c
    BY <1>4, <1>7, <1>8, <2>2, RowKept
  <2>. QED BY <2>1, <2>2
<1>9. ASSUME NEW v \in Worker, Looked(work'[v])
      PROVE  Prepared(work[v])'
  <2>1. \A u \in Worker : work'[u] = IF u = w THEN Done(w) ELSE work[u]
    BY <1>3 DEF IInv, TypeOK
  <2>2. v # w /\ work'[v] = work[v] /\ Looked(work[v])
    BY <1>2, <1>9, <2>1, DoneType DEF Looked
  <2>3. Locking(work[v]) /\ work[v] # None
    BY <2>2 DEF Looked, Locking, Importing
  <2>4. Front(work[v]) # c
    BY <1>2, <2>2, <2>3 DEF IInv, Held
  <2>5. Front(work[v]) \in Batch \X Path
    BY <2>3, WorkType DEF Sound
  <2>6. item'[Front(work[v])] = item[Front(work[v])]
    BY <1>7, <2>4, <2>5
  <2>. QED BY <1>4, <2>2, <2>6, ImportKept
<1>. QED BY <1>8, <1>9 DEF AInv, Looked

\* What else writes an item leaves what was imported, and the item an import holds.
LEMMA AccountsItem ==
  ASSUME IInv, AInv, NEW c \in Batch \X Path, NEW row \in Item,
         item' = [item EXCEPT ![c] = row], UNCHANGED <<isrc, apart>>,
         row.applied => /\ item[c] # None /\ item[c].applied
                        /\ row.tags = item[c].tags /\ row.rec = item[c].rec,
         \A w \in Worker : Looked(work'[w]) =>
           work'[w] = work[w] /\ Front(work[w]) # c
  PROVE  AInv'
<1>1. Growing
  BY DEF Growing
<1>2. \A j \in Batch \X Path : item'[j] = IF j = c THEN row ELSE item[j]
  BY DEF IInv, TypeOK
<1>3. ASSUME NEW w \in Worker, Looked(work'[w])
      PROVE  /\ Looked(work[w]) /\ work'[w] = work[w]
             /\ item'[Front(work[w])] = item[Front(work[w])]
  <2>1. Looked(work[w]) /\ work'[w] = work[w] /\ Front(work[w]) # c
    BY <1>3
  <2>2. Front(work[w]) \in Batch \X Path
    BY <2>1, WorkType DEF Looked, Sound, Locking, Importing
  <2>. QED BY <1>2, <2>1, <2>2
<1>. QED BY <1>1, <1>2, <1>3, AccountsKept

\* An item that is held is not the one a scan writes next.
LEMMA AccountsScan ==
  ASSUME IInv, AInv, ScanStep
  PROVE  AInv'
<1>1. ASSUME NEW b \in Batch, scan[b] # None, NEW row \in Item, ~row.applied, NEW known,
             ScanItem(b, row, known)
      PROVE  AInv'
  <2>1. PICK c : c = <<b, Min(scan[b].todo)>>
    OBVIOUS
  <2>2. Min(scan[b].todo) \in Path /\ Min(scan[b].todo) \in scan[b].todo
    <3>1. scan[b].todo \in SUBSET Path /\ scan[b].todo # {}
      BY <1>1 DEF IInv, TypeOK, Scan, Scanned
    <3>. QED BY <3>1, FirstOne
  <2>3. c \in Batch \X Path /\ item' = [item EXCEPT ![c] = row]
        /\ UNCHANGED <<isrc, apart, work>>
    BY <1>1, <2>1, <2>2 DEF ScanItem, catalogue
  <2>4. ASSUME NEW w \in Worker, Looked(work[w])
        PROVE  Front(work[w]) # c
    <3>1. Sound(work[w])
      BY <2>4, WorkType DEF Looked
    <3>2. scan[work[w].batch] = None
      BY <3>1 DEF Sound, Ready
    <3>. QED BY <1>1, <2>1, <3>2 DEF Front
  <2>. QED BY <1>1, <2>3, <2>4, AccountsItem
<1>2. ASSUME NEW b \in Batch, scan[b] # None
      PROVE  Min(scan[b].todo) \in Path
  <2>1. scan[b].todo \in SUBSET Path /\ scan[b].todo # {}
    BY <1>2 DEF IInv, TypeOK, Scan, Scanned
  <2>. QED BY <2>1, FirstOne
<1>3. CASE UNCHANGED <<isrc, apart, item, work>>
  BY <1>3, AccountsKept DEF Growing
<1>4. ASSUME NEW b \in Batch, ScanInvalid(b) PROVE AInv'
  <2>1. scan[b] # None /\ ScanItem(b, Unread("invalid"), None)
    BY <1>4 DEF ScanInvalid
  <2>2. Unread("invalid") \in Item /\ ~Unread("invalid").applied
    BY UnreadType DEF Unread, Action
  <2>. QED BY <1>1, <2>1, <2>2
<1>5. ASSUME NEW b \in Batch, NEW x \in Content, ScanDisturbed(b, x) PROVE AInv'
  <2>1. scan[b] # None /\ ScanItem(b, Unread("retry"), None)
    BY <1>5 DEF ScanDisturbed
  <2>2. Unread("retry") \in Item /\ ~Unread("retry").applied
    BY UnreadType DEF Unread, Action
  <2>. QED BY <1>1, <2>1, <2>2
<1>6. ASSUME NEW b \in Batch, ScanUnchanged(b) PROVE AInv'
  <2>. DEFINE p == Min(scan[b].todo)
              seen == scan[b].seen[p]
              row == [Unread("unchanged") EXCEPT !.method = "file_location",
                        !.rec = seen.rec, !.asset = seen.id]
  <2>1. scan[b] # None /\ seen # None /\ ScanItem(b, row, seen)
    BY <1>6 DEF ScanUnchanged, Skipped
  <2>2. seen \in View
    BY <1>2, <2>1 DEF IInv, TypeOK, Scan
  <2>. HIDE DEF seen
  <2>3. row \in Item /\ ~row.applied
    BY <2>2 DEF Unread, Item, View, Action, Method
  <2>. QED BY <1>1, <2>1, <2>3
<1>7. ASSUME NEW b \in Batch, ScanFile(b) PROVE AInv'
  <2>. DEFINE p == Min(scan[b].todo)
  <2>1. scan[b] # None /\ disk[p] # None /\ ScanItem(b, Proposal(b, p), Known(b, p))
    BY <1>7 DEF ScanFile
  <2>2. p \in Path
    BY <1>2, <2>1
  <2>3. Proposal(b, p) \in Item /\ ~Proposal(b, p).applied
    BY <2>1, <2>2, ProposalType
  <2>. HIDE DEF p
  <2>. QED BY <1>1, <2>1, <2>3
<1>. QED BY <1>3, <1>4, <1>5, <1>6, <1>7 DEF ScanStep, ScanStart, Rescan, ReRead, OpenScan, catalogue

\* A review and the handler of a failure write items that nobody holds.
LEMMA AccountsReview ==
  ASSUME IInv, AInv, NEW b \in Batch, NEW p \in Path, NEW r \in Recording \cup {None},
         item[b, p].tags # None,
         NEW t \in Corrections(item[b, p].tags, r), Review(b, p, r, t)
  PROVE  AInv'
<1>. DEFINE c == <<b, p>>
            method == IF r = None /\ Holders(t.isrc) # {}
                      THEN "manual_isrc_collision" ELSE "manual_review"
            row == [item[c] EXCEPT !.tags = t, !.rec = r,
                                   !.action = IF r = None THEN "new" ELSE "matched",
                                   !.method = method]
<1>1. /\ c \in Batch \X Path /\ item[c] \in Item /\ item[c] # None /\ ~item[c].applied
      /\ Read(item[c])
  BY DEF Review, IInv, TypeOK, Scanned
<1>2. t \in Tags
  <2>1. item[c].tags \in Tags /\ title \in [Recording -> Title \cup {None}]
    BY <1>1 DEF Read, IInv, TypeOK
  <2>. QED BY <2>1 DEF Corrections, Tags, Recordings
<1>3. row \in Item /\ ~row.applied
  BY <1>1, <1>2 DEF Item, Action, Proposals, Method
<1>4. item' = [item EXCEPT ![c] = row] /\ UNCHANGED <<isrc, apart, work>>
  BY DEF Review, catalogue
<1>5. \A w \in Worker : Looked(work[w]) => Front(work[w]) # c
  BY DEF Review, Looked, Importing, Front
<1>. HIDE DEF row, c
<1>. QED BY <1>1, <1>3, <1>4, <1>5, AccountsItem

LEMMA AccountsFail ==
  ASSUME IInv, AInv, NEW w \in Worker, ApplyFail(w)
  PROVE  AInv'
<1>. DEFINE c == Current(w)
            outcome == work[w].outcome
            row == [item[c] EXCEPT !.action = outcome]
<1>1. work[w] # None /\ work[w].at = "failed" /\ ItemFree(w)
  BY DEF ApplyFail, At_
<1>2. work[w].todo # {} /\ outcome \in {"retry", "conflict"}
  BY <1>1, WorkType DEF Sound
<1>3. c \in Batch \X Path /\ item[c] \in Item /\ item[c] # None
  BY <1>1, <1>2, WorkType DEF Read
<1>4. /\ row \in Item /\ row.applied = item[c].applied /\ row.tags = item[c].tags
      /\ row.rec = item[c].rec
  BY <1>2, <1>3 DEF Item, Action
<1>5. /\ item' = [item EXCEPT ![c] = row] /\ work' = [work EXCEPT ![w] = Done(w)]
      /\ UNCHANGED <<isrc, apart>>
  BY DEF ApplyFail, FailureKept, catalogue
<1>6. ASSUME NEW v \in Worker, Looked(work'[v])
      PROVE  work'[v] = work[v] /\ Front(work[v]) # c
  <2>1. work'[v] = IF v = w THEN Done(w) ELSE work[v]
    BY <1>5 DEF IInv, TypeOK
  <2>2. ~Looked(Done(w))
    BY <1>1, DoneType DEF Looked
  <2>3. v # w /\ work'[v] = work[v]
    BY <1>6, <2>1, <2>2
  <2>. QED BY <1>1, <1>6, <2>3 DEF ItemFree, Looked, Importing, Front, Current
<1>. HIDE DEF row, c
<1>. QED BY <1>3, <1>4, <1>5, <1>6, AccountsItem

\* A split takes an identity without an ISRC.
LEMMA AccountsSplit ==
  ASSUME IInv, AInv, NEW a \in Asset, NEW r \in Recording, Split(a, r)
  PROVE  AInv'
<1>1. isrc[r] = None /\ UNCHANGED <<item, work>>
  BY DEF Split, FreshIds
<1>2. PICK i : isrc' = IF i = None \/ Holders(i) # {} THEN isrc ELSE [isrc EXCEPT ![r] = i]
  BY DEF Split
<1>3. apart \subseteq apart'
  BY DEF Split
<1>4. Growing
  BY <1>1, <1>2, <1>3 DEF Growing, IInv, TypeOK
<1>. QED BY <1>1, <1>4, AccountsKept

\* A step of an import that writes no item leaves every import that has looked as it is,
\* or takes one from its look to its commit.
LEMMA AccountsImport ==
  ASSUME IInv, AInv, NEW w \in Worker, NEW x, work' = [work EXCEPT ![w] = x],
         UNCHANGED <<isrc, apart, item>>,
         Looked(x) => /\ Looked(work[w]) /\ Front(x) = Front(work[w]) /\ x.rec = work[w].rec
                      /\ x.gain = work[w].gain /\ x.other = work[w].other
  PROVE  AInv'
<1>1. \A v \in Worker : work'[v] = IF v = w THEN x ELSE work[v]
  BY DEF IInv, TypeOK
<1>. QED BY <1>1, AccountsKept DEF Growing

\* Every step keeps the account.
LEMMA AccountsApply ==
  ASSUME IInv, AInv, ApplyStep
  PROVE  AInv'
<1>. PICK w \in Worker :
       \/ \E b \in Batch : ApplyStart(w, b)
       \/ ApplySkip(w) \/ ApplySourceGone(w) \/ ApplyResolve(w)
       \/ ApplyIdentify(w) \/ ApplyLocate(w) \/ ApplyRefuse(w)
       \/ At_(w, "commit") /\ \E a \in Asset : ApplyCommit(w, a)
       \/ ApplyFail(w) \/ ApplyCount(w) \/ ApplyReport(w) \/ Crash(w)
  BY DEF ApplyStep
<1>1. ASSUME NEW b \in Batch, ApplyStart(w, b) PROVE AInv'
  <2>. DEFINE x == [batch |-> b, todo |-> {p \in Path : CanApply(item[b, p])},
                    at |-> "next", rec |-> None, new |-> FALSE, row |-> None,
                    located |-> FALSE, gain |-> None, other |-> None, outcome |-> ""]
  <2>1. work' = [work EXCEPT ![w] = x] /\ UNCHANGED <<isrc, apart, item>>
    BY <1>1 DEF ApplyStart, catalogue
  <2>2. ~Looked(x)
    BY DEF Looked
  <2>. HIDE DEF x
  <2>. QED BY <2>1, <2>2, AccountsImport
<1>2. CASE ApplySkip(w)
  <2>1. work' = [work EXCEPT ![w] = Done(w)] /\ UNCHANGED <<isrc, apart, item>> /\ work[w] # None
    BY <1>2 DEF ApplySkip, At_, catalogue
  <2>2. ~Looked(Done(w))
    BY <2>1, DoneType DEF Looked
  <2>. QED BY <2>1, <2>2, AccountsImport
<1>3. ASSUME work[w] \in Work, UNCHANGED <<isrc, apart, item>>,
             NEW at \in {"identify", "failed", "report"}, NEW y,
             work' = [work EXCEPT ![w] = y], y.at = at
      PROVE  AInv'
  BY <1>3, AccountsImport DEF Looked
<1>4. work[w] # None => work[w] \in Work
  BY DEF IInv, TypeOK
<1>5. CASE ApplySourceGone(w)
  <2>. DEFINE y == [work[w] EXCEPT !.at = "failed", !.outcome = "retry"]
  <2>1. work[w] \in Work /\ UNCHANGED <<isrc, apart, item>>
    BY <1>4, <1>5 DEF ApplySourceGone, At_, catalogue
  <2>2. work' = [work EXCEPT ![w] = y] /\ y.at = "failed"
    BY <1>5, <2>1 DEF ApplySourceGone, IInv, TypeOK, Work
  <2>. HIDE DEF y
  <2>. QED BY <1>3, <2>1, <2>2
<1>6. CASE ApplyResolve(w)
  <2>1. PICK r :
          work' = [work EXCEPT ![w].at = "identify", ![w].rec = r,
                               ![w].new = (Resolved(work[w].batch, item[Current(w)]) = {}),
                               ![w].row = FileRead(item[Current(w)])]
    BY <1>6 DEF ApplyResolve
  <2>. DEFINE new == Resolved(work[w].batch, item[Current(w)]) = {}
              file == FileRead(item[Current(w)])
              y == [work[w] EXCEPT !.at = "identify", !.rec = r, !.new = new, !.row = file]
  <2>2. work[w] \in Work /\ UNCHANGED <<isrc, apart, item>>
    BY <1>4, <1>6 DEF ApplyResolve, At_, catalogue
  <2>3. work' = [work EXCEPT ![w].at = "identify", ![w].rec = r, ![w].new = new, ![w].row = file]
    BY <2>1
  <2>. HIDE DEF new, file
  <2>4. work' = [work EXCEPT ![w] = y] /\ y.at = "identify"
    BY <2>2, <2>3 DEF IInv, TypeOK, Work
  <2>. HIDE DEF y
  <2>. QED BY <1>3, <2>2, <2>4
<1>7. CASE ApplyLocate(w)
  <2>. DEFINE file == FileHere(w)
              located == At(Current(w)[2]) # {}
              x == [work[w] EXCEPT !.at = "commit", !.row = file, !.located = located]
              y == [work[w] EXCEPT !.at = "failed", !.outcome = "conflict"]
  <2>1. /\ work[w] \in Work /\ UNCHANGED <<isrc, apart, item>> /\ work[w] # None
        /\ work[w].at = "locate"
    BY <1>4, <1>7 DEF ApplyLocate, At_, catalogue
  <2>2. \/ work' = [work EXCEPT ![w].at = "commit", ![w].row = file, ![w].located = located]
        \/ work' = [work EXCEPT ![w].at = "failed", ![w].outcome = "conflict"]
    BY <1>7 DEF ApplyLocate
  <2>. HIDE DEF file, located
  <2>3. work' = [work EXCEPT ![w] = x] \/ work' = [work EXCEPT ![w] = y]
    BY <2>1, <2>2 DEF IInv, TypeOK, Work
  <2>4. /\ x.batch = work[w].batch /\ x.todo = work[w].todo /\ x.rec = work[w].rec
        /\ x.gain = work[w].gain /\ x.other = work[w].other /\ y.at = "failed"
    BY <2>1 DEF Work
  <2>. HIDE DEF x, y
  <2>5. Front(x) = Front(work[w]) /\ Looked(work[w])
    BY <2>1, <2>4 DEF Front, Looked
  <2>. QED BY <1>3, <2>1, <2>3, <2>4, <2>5, AccountsImport
<1>8. CASE ApplyRefuse(w)
  <2>. DEFINE y == [work[w] EXCEPT !.at = "failed", !.outcome = "conflict"]
  <2>1. work[w] \in Work /\ UNCHANGED <<isrc, apart, item>>
    BY <1>4, <1>8 DEF ApplyRefuse, At_, catalogue
  <2>2. work' = [work EXCEPT ![w] = y] /\ y.at = "failed"
    BY <1>8, <2>1 DEF ApplyRefuse, IInv, TypeOK, Work
  <2>. HIDE DEF y
  <2>. QED BY <1>3, <2>1, <2>2
<1>9. CASE ApplyCount(w)
  <2>. DEFINE outcome == IF Remaining(work[w].batch) = {} THEN "applied" ELSE "partial"
              y == [work[w] EXCEPT !.at = "report", !.outcome = outcome]
  <2>1. work[w] \in Work /\ UNCHANGED <<isrc, apart, item>>
    BY <1>4, <1>9 DEF ApplyCount, At_, catalogue
  <2>2. work' = [work EXCEPT ![w] = y] /\ y.at = "report"
    BY <1>9, <2>1 DEF ApplyCount, IInv, TypeOK, Work
  <2>. HIDE DEF y
  <2>. QED BY <1>3, <2>1, <2>2
<1>10. CASE ApplyReport(w) \/ Crash(w)
  <2>1. work' = [work EXCEPT ![w] = None] /\ UNCHANGED <<isrc, apart, item>>
    BY <1>10 DEF ApplyReport, Crash, catalogue
  <2>2. ~Looked(None)
    BY DEF Looked
  <2>. QED BY <2>1, <2>2, AccountsImport
<1>11. CASE At_(w, "commit") /\ \E a \in Asset : ApplyCommit(w, a)
  BY <1>11, AccountsCommit
<1>. QED BY <1>1, <1>2, <1>5, <1>6, <1>7, <1>8, <1>9, <1>10, <1>11,
            AccountsIdentify, AccountsFail

\* The ISRC of an imported file is its recording's, or its recording has another one or
\* data of the database, or is on record as kept apart from the one that has it, however
\* imports and splits race for it (apply_item, split_radio_file_to_new_recording).
THEOREM EachIsrcAccounted == Spec => []IsrcAccounted
<1>1. Init => AInv
  BY DEF Init, AInv, Looked
<1>2. IInv /\ AInv /\ [Next]_vars => AInv'
  <2>. SUFFICES ASSUME IInv, AInv, [Next]_vars PROVE AInv'
    OBVIOUS
  <2>1. CASE ReviewStep
    BY <2>1, AccountsReview DEF ReviewStep
  <2>2. CASE \E p \in Path, c \in Content \cup {None} : EditDisk(p, c)
    <3>1. UNCHANGED <<isrc, apart, item, work>>
      BY <2>2 DEF EditDisk, catalogue
    <3>. QED BY <3>1, AccountsKept DEF Growing
  <2>3. CASE UNCHANGED vars
    <3>1. UNCHANGED <<isrc, apart, item, work>>
      BY <2>3 DEF vars, catalogue
    <3>. QED BY <3>1, AccountsKept DEF Growing
  <2>4. CASE \E a \in Asset, r \in Recording : Split(a, r)
    BY <2>4, AccountsSplit
  <2>. QED BY <2>1, <2>2, <2>3, <2>4, AccountsScan, AccountsApply DEF Next
<1>3. AInv => IsrcAccounted
  <2>. SUFFICES ASSUME AInv, NEW j \in Batch \X Path, item[j] # None, item[j].applied,
                       item[j].tags.isrc # None
                PROVE  LET r == item[j].rec IN
                       \/ Catalogued[r] # None \/ isrc[r] # None
                       \/ \E d \in apart : r \in d.pair /\ d.pair \cap Holders(item[j].tags.isrc) # {}
    BY DEF IsrcAccounted
  <2>1. Settled(item[j].tags.isrc, item[j].rec)
    BY DEF AInv
  <2>. QED BY <2>1 DEF Settled
<1>. QED BY <1>1, <1>2, <1>3, IInvInit, InvNext, PTL DEF Spec
=============================================================================

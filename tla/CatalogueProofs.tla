--------------------------- MODULE CatalogueProofs ---------------------------
(***************************************************************************)
(* What the catalogue holds of the files it was imported from. First, for  *)
(* one request, the releases that the files of a batch come to and the     *)
(* tags that are read from a file and written to one: lemmas about         *)
(* ReleaseAssembly and FlacTags for lists of any length. A fold over a     *)
(* sequence is followed position by position, and every field of a file    *)
(* from what is written to what is read. Then, for every interleaving, the *)
(* title of a recording: theorems about CatalogueSources for every number  *)
(* of stewards, imports, assertions and titles.                            *)
(***************************************************************************)
EXTENDS CatalogueSources, ReleaseAssembly, FlacTags,
        FiniteSetTheorems, SequenceTheorems, WellFoundedInduction, TLAPS

-----------------------------------------------------------------------------
(* Folds over sequences.                                                   *)

\* Induction up to a bound.
LEMMA UpTo ==
  ASSUME NEW N \in Nat, NEW K, 0 \in K, \A k \in 0..N : k \in K /\ k < N => k + 1 \in K
  PROVE  N \in K
<1>1. PICK F : F = {k \in 0..N : k \notin K}
  OBVIOUS
<1>. SUFFICES ASSUME F # {} PROVE FALSE
  BY <1>1
<1>2. F \in SUBSET Nat
  BY <1>1
<1>3. PICK m \in F : \A k \in F : ~ (<<k, m>> \in OpToRel(<, Nat))
  BY <1>2, NatLessThanWellFounded, WFMin
<1>4. m \in 0..N /\ m # 0 /\ m \notin K
  BY <1>1
<1>5. m - 1 \in 0..N /\ m - 1 < N /\ (m - 1) + 1 = m /\ m - 1 < m
  BY <1>4
<1>6. m - 1 \notin F
  <2>1. <<m - 1, m>> \in Nat \X Nat /\ <<m - 1, m>>[1] = m - 1 /\ <<m - 1, m>>[2] = m
    BY <1>4, <1>5
  <2>. QED BY <1>3, <1>5, <2>1 DEF OpToRel
<1>. QED BY <1>1, <1>4, <1>5, <1>6

\* A set of positions has a last one.
LEMMA LastPosition ==
  ASSUME NEW n \in Nat, NEW S \in SUBSET (1..n), S # {}
  PROVE  Max(S) \in S /\ \A y \in S : Max(S) >= y
<1>1. PICK K : K = {k \in 0..n : \A T \in SUBSET (1..k) : T # {} => \E x \in T : \A y \in T : x >= y}
  OBVIOUS
<1>2. 0 \in K
  <2>1. \A T \in SUBSET (1..0) : T = {}
    OBVIOUS
  <2>2. 0 \in 0..n
    OBVIOUS
  <2>. QED BY <1>1, <2>1, <2>2
<1>3. ASSUME NEW k \in 0..n, k \in K, k < n PROVE k + 1 \in K
  <2>1. k + 1 \in 0..n
    BY <1>3
  <2>2. ASSUME NEW T \in SUBSET (1..(k + 1)), T # {} PROVE \E x \in T : \A y \in T : x >= y
    <3>1. CASE k + 1 \in T
      BY <3>1
    <3>2. CASE k + 1 \notin T
      <4>1. T \in SUBSET (1..k)
        BY <3>2
      <4>. QED BY <1>1, <1>3, <2>2, <4>1
    <3>. QED BY <3>1, <3>2
  <2>. QED BY <1>1, <2>1, <2>2
<1>4. n \in K
  BY <1>2, <1>3, UpTo
<1>5. \E x \in S : \A y \in S : x >= y
  BY <1>1, <1>4
<1>. QED BY <1>5, Zenon DEF Max

\* The last position of an initial segment.
LEMMA LastOfSegment ==
  ASSUME NEW k \in Nat, k > 0
  PROVE  Max(1..k) = k /\ (1..k) \ {k} = 1..(k - 1)
<1>1. 1..k \in SUBSET (1..k) /\ 1..k # {}
  OBVIOUS
<1>3. Max(1..k) \in 1..k /\ \A y \in 1..k : Max(1..k) >= y
  BY <1>1, LastPosition
<1>2. k \in 1..k
  OBVIOUS
<1>. QED BY <1>2, <1>3

\* The folds of the first n positions: what f has at a set of them follows from what it
\* has without the last one.
Folds(n, Q, base, step, f) ==
  /\ f \in [SUBSET (1..n) -> Q]
  /\ \A S \in SUBSET (1..n) :
       f[S] = IF S = {} THEN base ELSE step[<<f[S \ {Max(S)}], Max(S)>>]

\* Such a fold is defined.
LEMMA FoldDefined ==
  ASSUME NEW n \in Nat, NEW Q, NEW base \in Q, NEW step \in [Q \X (1..n) -> Q]
  PROVE  \E f : Folds(n, Q, base, step, f)
<1>1. PICK K : K = {k \in 0..n : \E f : Folds(k, Q, base, step, f)}
  OBVIOUS
<1>2. 0 \in K
  <2>1. PICK f : f = [S \in SUBSET (1..0) |-> base]
    OBVIOUS
  <2>2. \A S \in SUBSET (1..0) : S = {}
    OBVIOUS
  <2>3. Folds(0, Q, base, step, f)
    BY <2>1, <2>2 DEF Folds
  <2>4. \E f1 : Folds(0, Q, base, step, f1)
    BY <2>3
  <2>5. 0 \in 0..n
    OBVIOUS
  <2>. QED BY <1>1, <2>4, <2>5
<1>3. ASSUME NEW k \in 0..n, k \in K, k < n PROVE k + 1 \in K
  <2>1. PICK f : Folds(k, Q, base, step, f)
    BY <1>1, <1>3
  <2>2. k + 1 \in 0..n
    BY <1>3
  <2>3. ASSUME NEW S \in SUBSET (1..(k + 1)), S # {}
        PROVE  S \ {Max(S)} \in SUBSET (1..k) /\ Max(S) \in 1..n
    <3>1. Max(S) \in S /\ \A y \in S : Max(S) >= y
      <4>1. k + 1 \in Nat
        BY <2>2
      <4>. QED BY <2>3, <4>1, LastPosition
    <3>2. PICK m : m = Max(S)
      OBVIOUS
    <3>3. m \in 1..(k + 1) /\ m \in 1..n
      <4>1. m \in 1..(k + 1)
        BY <3>1, <3>2
      <4>. QED BY <1>3, <4>1
    <3>4. ASSUME NEW y \in S, y # m PROVE y \in 1..k
      <4>1. y \in 1..(k + 1) /\ y <= m
        BY <3>1, <3>2, <3>4
      <4>. QED BY <1>3, <3>3, <3>4, <4>1
    <3>. QED BY <3>2, <3>3, <3>4
  <2>4. PICK h : h = [S \in SUBSET (1..(k + 1)) |->
                        IF S = {} THEN base ELSE step[<<f[S \ {Max(S)}], Max(S)>>]]
    OBVIOUS
  <2>5. h \in [SUBSET (1..(k + 1)) -> Q]
    <3>1. ASSUME NEW S \in SUBSET (1..(k + 1)), S # {}
          PROVE  step[<<f[S \ {Max(S)}], Max(S)>>] \in Q
      BY <2>1, <2>3, <3>1 DEF Folds
    <3>. QED BY <2>4, <3>1
  <2>6. SUBSET (1..k) \subseteq SUBSET (1..(k + 1))
    BY <2>2
  <2>7. \A S \in SUBSET (1..k) : h[S] = f[S]
    BY <2>1, <2>4, <2>6 DEF Folds
  <2>8. \A S \in SUBSET (1..(k + 1)) :
          h[S] = IF S = {} THEN base ELSE step[<<h[S \ {Max(S)}], Max(S)>>]
    BY <2>3, <2>4, <2>7
  <2>9. \E f1 : Folds(k + 1, Q, base, step, f1)
    BY <2>5, <2>8 DEF Folds
  <2>. QED BY <1>1, <2>2, <2>9
<1>4. n \in K
  BY <1>2, <1>3, UpTo
<1>. QED BY <1>1, <1>4
\* The results after each of the first n positions, up to that of all of them.
Runs(n, Q, base, step, c, g) ==
  /\ g \in [0..n -> Q] /\ g[0] = base /\ g[n] = c[1..n]
  /\ \A k \in 1..n : g[k] = step[<<g[k - 1], k>>]

\* The initial segments go by the steps, as far as the results are of their type.
Follows(n, Q, base, step, c) ==
  /\ c[{}] = base
  /\ \A k \in 1..n : c[1..(k - 1)] \in Q => c[1..k] = step[<<c[1..(k - 1)], k>>]

\* A function that folds the initial segments gives their results in turn.
LEMMA FoldRuns ==
  ASSUME NEW n \in Nat, NEW Q, NEW base \in Q, NEW step \in [Q \X (1..n) -> Q], NEW c,
         Follows(n, Q, base, step, c)
  PROVE  \E g : Runs(n, Q, base, step, c, g)
<1>1. PICK g : g = [k \in 0..n |-> c[1..k]]
  OBVIOUS
<1>2. 1..0 = {} /\ 0 \in 0..n /\ n \in 0..n /\ \A k \in 1..n : k \in 0..n /\ k - 1 \in 0..n
  OBVIOUS
<1>3. g[0] = base /\ g[n] = c[1..n]
  BY <1>1, <1>2 DEF Follows
<1>4. \A k \in 1..n : g[k - 1] \in Q => g[k] = step[<<g[k - 1], k>>] /\ g[k] \in Q
  BY <1>1, <1>2 DEF Follows
<1>5. PICK K : K = {k \in 0..n : \A j \in 0..k : g[j] \in Q}
  OBVIOUS
<1>6. 0 \in K
  BY <1>2, <1>3, <1>5
<1>7. ASSUME NEW k \in 0..n, k \in K, k < n PROVE k + 1 \in K
  <2>1. k + 1 \in 1..n /\ (k + 1) - 1 = k /\ g[k] \in Q
    BY <1>5, <1>7
  <2>2. g[k + 1] \in Q
    BY <1>4, <2>1
  <2>. QED BY <1>5, <1>7, <2>1, <2>2
<1>8. n \in K
  BY <1>6, <1>7, UpTo
<1>9. g \in [0..n -> Q] /\ \A k \in 1..n : g[k] = step[<<g[k - 1], k>>]
  BY <1>1, <1>2, <1>4, <1>5, <1>8
<1>. QED BY <1>3, <1>9 DEF Runs

\* Among the sets of a family there is one that contains no other.
LEMMA SmallestSubset ==
  ASSUME NEW D, IsFiniteSet(D), NEW F \in SUBSET (SUBSET D), F # {}
  PROVE  \E T \in F : \A U \in F : U \subseteq T => U = T
<1>1. FiniteSubsetsOf(D) = SUBSET D
  BY FS_FiniteSubsetsOfFinite
<1>2. IsWellFoundedOn(StrictSubsetOrdering(D), SUBSET D)
  BY <1>1, FS_StrictSubsetOrderingWellFounded
<1>3. \E T \in F : \A U \in F : ~ (<<U, T>> \in StrictSubsetOrdering(D))
  BY <1>2, WFMin
<1> QED BY <1>3 DEF StrictSubsetOrdering

\* Induction over finite sets: a property that passes to a set from its proper subsets.
LEMMA BySubsets ==
  ASSUME NEW D, IsFiniteSet(D), NEW K,
         \A S \in SUBSET D : (\A T \in SUBSET S : T # S => T \in K) => S \in K
  PROVE  SUBSET D \subseteq K
<1>1. PICK F : F = {S \in SUBSET D : S \notin K}
  OBVIOUS
<1>2. F \in SUBSET (SUBSET D)
  BY <1>1
<1>3. F # {} => \E T \in F : \A U \in F : U \subseteq T => U = T
  BY <1>2, SmallestSubset
<1>. QED BY <1>1, <1>3

-----------------------------------------------------------------------------
(* Lists put together.                                                     *)

\* g has the first lists of a list of lists, put together.
PutTogether(S, seqs, g) ==
  /\ g \in [0..Len(seqs) -> Seq(S)] /\ g[0] = <<>> /\ g[Len(seqs)] = Concat(seqs)
  /\ \A k \in 1..Len(seqs) : g[k] = g[k - 1] \o seqs[k]

\* Lists are put together in turn.
LEMMA JoinedInTurn ==
  ASSUME NEW S, NEW seqs \in Seq(Seq(S))
  PROVE  \E g : PutTogether(S, seqs, g)
<1>. DEFINE Joins(f) == f = [T \in SUBSET DOMAIN seqs |->
                               IF T = {} THEN <<>> ELSE f[T \ {Max(T)}] \o seqs[Max(T)]]
<1>1. PICK c : c = CHOOSE f : Joins(f)
  OBVIOUS
<1>2. Concat(seqs) = c[DOMAIN seqs]
  BY <1>1, Zenon DEF Concat, FoldLeft, MapThenFoldSet
<1>3. PICK m \in Nat : m = Len(seqs) /\ DOMAIN seqs = 1..m
  OBVIOUS
<1>4. PICK Q : Q = Seq(S)
  OBVIOUS
<1>5. \A s \in Q, k \in 1..m : s \o seqs[k] \in Q
  BY <1>3, <1>4
<1>6. PICK step \in [Q \X (1..m) -> Q] :
        \A k \in 1..m, s \in Q : step[<<s, k>>] = s \o seqs[k]
  <2>1. [x \in Q \X (1..m) |-> x[1] \o seqs[x[2]]] \in [Q \X (1..m) -> Q]
    BY <1>5
  <2>. QED BY <2>1
<1>7. <<>> \in Q
  BY <1>4
<1>8. PICK f : Folds(m, Q, <<>>, step, f)
  BY <1>6, <1>7, FoldDefined
<1>9. Joins(f)
  <2>1. ASSUME NEW T \in SUBSET (1..m), T # {}
        PROVE  f[T] = f[T \ {Max(T)}] \o seqs[Max(T)]
    <3>1. PICK x : x = Max(T)
      OBVIOUS
    <3>2. x \in 1..m /\ T \ {x} \in SUBSET (1..m)
      BY <2>1, <3>1, LastPosition
    <3>. QED BY <1>6, <1>8, <2>1, <3>1, <3>2 DEF Folds
  <2>2. f = [T \in SUBSET (1..m) |-> IF T = {} THEN <<>> ELSE f[T \ {Max(T)}] \o seqs[Max(T)]]
    BY <1>8, <2>1 DEF Folds
  <2>. QED BY <1>3, <2>2
<1>10. Joins(c)
  BY <1>1, <1>9, Zenon
<1>11. c[{}] = <<>> /\ \A k \in 1..m : c[1..k] = c[1..(k - 1)] \o seqs[k]
  <2>1. ASSUME NEW k \in 1..m PROVE c[1..k] = c[1..(k - 1)] \o seqs[k]
    <3>1. 1..k \in SUBSET DOMAIN seqs /\ 1..k # {} /\ k \in Nat /\ k > 0
      <4>1. 1..k \subseteq 1..m /\ k \in 1..k /\ k \in Nat /\ k > 0
        OBVIOUS
      <4>2. 1..k # {}
        BY <4>1
      <4>. QED BY <1>3, <4>1, <4>2
    <3>2. Max(1..k) = k /\ (1..k) \ {Max(1..k)} = 1..(k - 1)
      BY <3>1, LastOfSegment
    <3>3. c[1..k] = c[(1..k) \ {Max(1..k)}] \o seqs[Max(1..k)]
      BY <1>10, <3>1
    <3>. QED BY <3>2, <3>3
  <2>2. {} \in SUBSET DOMAIN seqs
    OBVIOUS
  <2>. QED BY <1>10, <2>1, <2>2
<1>12. Follows(m, Q, <<>>, step, c)
  BY <1>6, <1>11 DEF Follows
<1>13. PICK g : Runs(m, Q, <<>>, step, c, g)
  BY <1>6, <1>7, <1>12, FoldRuns
<1>14. g \in [0..m -> Q] /\ g[0] = <<>> /\ g[m] = c[1..m]
  BY <1>13 DEF Runs
<1>15. \A k \in 1..m : g[k] = g[k - 1] \o seqs[k]
  <2>1. \A k \in 1..m : k - 1 \in 0..m
    OBVIOUS
  <2>. QED BY <1>6, <1>13, <1>14, <2>1 DEF Runs
<1>. QED BY <1>2, <1>3, <1>4, <1>14, <1>15 DEF PutTogether

\* What has a value of S at each of the first n positions is a list.
LEMMA ListMade ==
  ASSUME NEW S, NEW n \in Nat, NEW list, DOMAIN list = 1..n, list = [i \in DOMAIN list |-> list[i]],
         \A i \in 1..n : list[i] \in S
  PROVE  list \in Seq(S) /\ Len(list) = n
<1>1. list \in [1..n -> S]
  OBVIOUS
<1>. QED BY <1>1

\* Lists put together make a list.
LEMMA ConcatTyped ==
  ASSUME NEW S, NEW seqs \in Seq(Seq(S))
  PROVE  Concat(seqs) \in Seq(S)
<1>1. PICK g : PutTogether(S, seqs, g)
  BY JoinedInTurn
<1>2. Len(seqs) \in 0..Len(seqs)
  OBVIOUS
<1>. QED BY <1>1, <1>2 DEF PutTogether

\* What has a list at each of the first n positions is a list of lists.
LEMMA ListsMade ==
  ASSUME NEW S, NEW n \in Nat, NEW seqs, DOMAIN seqs = 1..n, seqs = [i \in DOMAIN seqs |-> seqs[i]],
         \A i \in 1..n : seqs[i] \in Seq(S)
  PROVE  seqs \in Seq(Seq(S))
<1>1. PICK T : T = Seq(S)
  OBVIOUS
<1>2. seqs \in Seq(T)
  BY <1>1, ListMade
<1>. QED BY <1>1, <1>2

\* One list after another.
Chained(S, a, b, m, n) ==
  /\ a \o b \in Seq(S) /\ Len(a \o b) = m + n
  /\ \A i \in 1..m : (a \o b)[i] = a[i]
  /\ \A i \in 1..n : (a \o b)[m + i] = b[i]

\* Two lists with a length are put one after another.
LEMMA PutAfter ==
  ASSUME NEW S, NEW a \in Seq(S), NEW b \in Seq(S), NEW m \in Nat, NEW n \in Nat, Len(a) = m, Len(b) = n
  PROVE  Chained(S, a, b, m, n)
<1>1. a \o b \in Seq(S)
  OBVIOUS
<1>2. Len(a \o b) = m + n
  OBVIOUS
<1>3. \A i \in 1..m : (a \o b)[i] = a[i]
  OBVIOUS
<1>4. \A i \in 1..n : (a \o b)[m + i] = b[i]
  OBVIOUS
<1>. QED BY <1>1, <1>2, <1>3, <1>4 DEF Chained

-----------------------------------------------------------------------------
(* A release for a file.                                                   *)

\* The results of the files, and the catalogue while a batch is imported into it.
Result == [done : BOOLEAN, release : Nat, at : Nat]
ReleaseList == {list \in Seq(Release) : \A r \in DOMAIN list : IsFiniteSet(list[r].tracks)}
Catalogue(images, paths) ==
  [releases : ReleaseList, images : {images}, results : Seq(Result),
   covers : [DOMAIN images -> Nat], places : [paths -> [release : Nat, at : Nat]]]

\* The folder of a file, if it is in one, has pictures or is known to have none.
Located(f, images, paths) == f.path \in paths /\ (f.folder # "" => f.folder \in DOMAIN images)

\* A finite set of numbers has a greatest one.
LEMMA GreatestIn ==
  ASSUME NEW D \in SUBSET Nat, IsFiniteSet(D), D # {}
  PROVE  Max(D) \in D /\ \A y \in D : Max(D) >= y
<1>1. PICK K : K = {S \in SUBSET D : S # {} => \E x \in S : \A y \in S : x >= y}
  OBVIOUS
<1>2. ASSUME NEW S \in SUBSET D, \A T \in SUBSET S : T # S => T \in K
      PROVE  S \in K
  <2>1. ASSUME NEW a \in S, S # {a} PROVE \E x \in S : \A y \in S : x >= y
    <3>1. S \ {a} \in K /\ S \ {a} # {}
      BY <1>2, <2>1
    <3>2. PICK x \in S \ {a} : \A y \in S \ {a} : x >= y
      BY <1>1, <3>1
    <3>3. a \in Nat /\ x \in Nat
      BY <2>1, <3>2
    <3>4. CASE x >= a
      BY <3>2, <3>4
    <3>5. CASE a >= x
      BY <3>2, <3>3, <3>5
    <3>. QED BY <3>3, <3>4, <3>5
  <2>2. ASSUME NEW a \in S, S = {a} PROVE \E x \in S : \A y \in S : x >= y
    BY <2>2
  <2>. QED BY <1>1, <2>1, <2>2
<1>3. D \in K
  <2>1. SUBSET D \subseteq K
    BY <1>2, BySubsets
  <2>. QED BY <2>1
<1>4. \E x \in D : \A y \in D : x >= y
  BY <1>1, <1>3
<1>. QED BY <1>4, Zenon DEF Max

\* A place is a number, whichever way it is counted.
LEMMA PlaceNat ==
  ASSUME NEW tracks \in SUBSET Places, IsFiniteSet(tracks), NEW f \in AudioFile
  PROVE  Place(tracks, f) \in Nat
<1>1. PICK D : D = {0} \cup {t.at : t \in tracks}
  OBVIOUS
<1>2. D \in SUBSET Nat /\ D # {}
  BY <1>1 DEF Places
<1>3. IsFiniteSet({t.at : t \in tracks})
  <2>1. PICK g : g = [t \in tracks |-> t.at]
    OBVIOUS
  <2>2. g \in Surjection(tracks, {t.at : t \in tracks})
    BY <2>1 DEF Surjection
  <2>. QED BY <2>2, FS_Surjection
<1>4. IsFiniteSet(D)
  BY <1>1, <1>3, FS_Singleton, FS_Union
<1>5. Max(D) \in Nat
  BY <1>2, <1>4, GreatestIn
<1>6. f.disc \in Nat /\ f.track \in Nat
  BY DEF AudioFile
<1>. QED BY <1>1, <1>5, <1>6 DEF Place

\* The folders speak where the tags are silent; which file it is, and where, is the same.
LEMMA FolderSpeaks ==
  ASSUME NEW file \in AudioFile
  PROVE  /\ InFolder(file) \in AudioFile /\ InFolder(file).path = file.path
         /\ InFolder(file).recording = file.recording /\ InFolder(file).folder = file.folder
         /\ file.folder # "" => InFolder(file).album # ""
BY DEF InFolder, AudioFile

\* A file that finds a release finds the only candidate, which a file that is put on a new
\* one does not have.
LEMMA OnlyCandidate ==
  ASSUME NEW releases \in Seq(Release), NEW f
  PROVE  /\ ReleaseOf(releases, f) \in 0..(Len(releases) + 1)
         /\ Finds(releases, f) => /\ ReleaseOf(releases, f) \in DOMAIN releases
                                  /\ Candidates(releases, f) = {ReleaseOf(releases, f)}
         /\ ReleaseOf(releases, f) # 0 /\ ~Finds(releases, f) =>
              Creates(releases, f) /\ ReleaseOf(releases, f) = Len(releases) + 1
<1>1. PICK C : C = Candidates(releases, f)
  OBVIOUS
<1>2. C \in SUBSET DOMAIN releases /\ DOMAIN releases = 1..Len(releases) /\ Len(releases) \in Nat
  <2>1. C \in SUBSET DOMAIN releases
    BY <1>1, Zenon DEF Candidates
  <2>. QED BY <2>1
<1>3. IsFiniteSet(C)
  <2>1. IsFiniteSet(DOMAIN releases)
    BY <1>2, FS_Interval
  <2>. QED BY <1>2, <2>1, FS_Subset
<1>4. Finds(releases, f) => \E r : C = {r}
  BY <1>1, <1>3, FS_Singleton DEF Finds
<1>5. ASSUME Finds(releases, f)
      PROVE  ReleaseOf(releases, f) \in DOMAIN releases /\ C = {ReleaseOf(releases, f)}
  <2>1. PICK r : C = {r}
    BY <1>4, <1>5
  <2>2. ReleaseOf(releases, f) = CHOOSE x \in C : TRUE
    BY <1>1, <1>5 DEF ReleaseOf
  <2>. QED BY <1>2, <2>1, <2>2
<1>6. ~Finds(releases, f) =>
        ReleaseOf(releases, f) = IF Creates(releases, f) THEN Len(releases) + 1 ELSE 0
  BY DEF ReleaseOf
<1>. QED BY <1>1, <1>2, <1>5, <1>6

\* What a release is known by stays, but that it gets a signature it lacked; its tracks stay.
Grows(old, new) ==
  /\ DOMAIN old \subseteq DOMAIN new
  /\ \A r \in DOMAIN old :
       /\ new[r].title = old[r].title /\ new[r].catalogue = old[r].catalogue
       /\ new[r].barcode = old[r].barcode
       /\ old[r].signature # <<>> => new[r].signature = old[r].signature
       /\ old[r].tracks \subseteq new[r].tracks

\* A candidate stays one.
LEMMA CandidatesStay ==
  ASSUME NEW old, NEW new, Grows(old, new), NEW f
  PROVE  Candidates(old, f) \subseteq Candidates(new, f)
<1>. SUFFICES ASSUME NEW r \in Candidates(old, f) PROVE r \in Candidates(new, f)
  OBVIOUS
<1>1. /\ r \in DOMAIN old /\ r \in DOMAIN new
      /\ new[r].title = old[r].title /\ new[r].catalogue = old[r].catalogue
      /\ new[r].barcode = old[r].barcode
      /\ old[r].signature # <<>> => new[r].signature = old[r].signature
  BY DEF Candidates, Grows
<1>. QED BY <1>1, Zenon DEF Candidates

\* A signature is that of a folder, of an album, or none.
LEMMA SignatureTyped ==
  ASSUME NEW f \in AudioFile
  PROVE  /\ Signature(f) \in Signatures
         /\ f.folder # "" => Signature(f) = <<f.folder>> /\ Signature(f) # <<>>
<1>1. f.folder \in STRING /\ f.album \in STRING /\ f.artist \in STRING /\ f.year \in Nat
  BY DEF AudioFile
<1>2. <<f.folder>> \in Seq(STRING) /\ <<f.album, f.artist, f.year>> \in STRING \X STRING \X Nat
  BY <1>1
<1>3. <<>> \in Seq(STRING) /\ <<f.folder>> # <<>>
  BY <1>1, EmptySeq
<1>. QED BY <1>2, <1>3, Zenon DEF Signature, Signatures

\* A release is known by what a file says of its album.
AlbumOf(release, f) ==
  /\ release.title = f.album /\ release.catalogue = f.catalogue /\ release.barcode = f.barcode
  /\ release.signature = Signature(f)

\* A release that is found or created for a file is a candidate of it, and no other was.
LEMMA FoundOrCreated ==
  ASSUME NEW releases \in ReleaseList, NEW f \in AudioFile, NEW r, r = ReleaseOf(releases, f),
         r # 0, ~Unresolvable(releases, f), NEW new, new = Resolution(releases, f)
  PROVE  /\ new \in ReleaseList /\ r \in DOMAIN new
         /\ Grows(releases, new) /\ \A s \in DOMAIN new \ {r} : s \in DOMAIN releases /\ new[s] = releases[s]
         /\ Candidates(releases, f) \subseteq {r} /\ r \in Candidates(new, f)
         /\ r \in DOMAIN releases => r \in Candidates(releases, f) /\ new[r].tracks = releases[r].tracks
         /\ r \notin DOMAIN releases => AlbumOf(new[r], f) /\ new[r].tracks = {}
<1>1. releases \in Seq(Release) /\ \A s \in DOMAIN releases : IsFiniteSet(releases[s].tracks)
  BY DEF ReleaseList
<1>2. PICK g : g = Signature(f)
  OBVIOUS
<1>3. g \in Signatures
  BY <1>2, SignatureTyped
<1>4. CASE Finds(releases, f)
  <2>1. r \in DOMAIN releases /\ Candidates(releases, f) = {r}
    BY <1>1, <1>4, OnlyCandidate
  <2>2. new = [releases EXCEPT ![r].signature = IF @ = <<>> THEN g ELSE @]
    BY <1>2, <1>4, Zenon DEF Resolution
  <2>3. PICK h : h = IF releases[r].signature = <<>> THEN g ELSE releases[r].signature
    OBVIOUS
  <2>4. PICK album : album = [releases[r] EXCEPT !.signature = h]
    OBVIOUS
  <2>5. new = [releases EXCEPT ![r] = album]
    BY <2>2, <2>3, <2>4, Zenon
  <2>6. releases[r] \in Release
    BY <1>1, <2>1
  <2>7. h \in Signatures /\ (releases[r].signature # <<>> => h = releases[r].signature)
    <3>1. releases[r].signature \in Signatures
      BY <2>6 DEF Release
    <3>. QED BY <1>3, <2>3, <3>1
  <2>8. /\ album \in Release /\ album.signature = h
        /\ album.title = releases[r].title /\ album.catalogue = releases[r].catalogue
        /\ album.barcode = releases[r].barcode /\ album.tracks = releases[r].tracks
    BY <2>4, <2>6, <2>7 DEF Release
  <2>9. new \in Seq(Release) /\ DOMAIN new = DOMAIN releases
    BY <1>1, <2>1, <2>5, <2>8
  <2>10. new[r] = album /\ \A s \in DOMAIN new \ {r} : new[s] = releases[s]
    BY <1>1, <2>1, <2>5
  <2>11. Grows(releases, new)
    BY <2>7, <2>8, <2>9, <2>10 DEF Grows
  <2>12. new \in ReleaseList
    BY <1>1, <2>1, <2>8, <2>9, <2>10 DEF ReleaseList
  <2>13. r \in Candidates(new, f)
    BY <2>1, <2>11, CandidatesStay
  <2>. QED BY <2>1, <2>8, <2>9, <2>10, <2>11, <2>12, <2>13
<1>5. CASE ~Finds(releases, f)
  <2>1. Creates(releases, f) /\ r = Len(releases) + 1
    BY <1>1, <1>5, OnlyCandidate
  <2>2. Candidates(releases, f) = {} /\ Sufficient(f) /\ f.barcode # "odd"
    BY <2>1, Zenon DEF Creates, Unresolvable
  <2>3. PICK album : album = [title |-> f.album, catalogue |-> f.catalogue, barcode |-> f.barcode,
                              signature |-> g, tracks |-> {}]
    OBVIOUS
  <2>4. new = Append(releases, album)
    BY <1>2, <1>5, <2>1, <2>3, Zenon DEF Resolution
  <2>5. album \in Release
    <3>1. f.album \in STRING /\ f.catalogue \in STRING /\ f.barcode \in STRING
      BY DEF AudioFile
    <3>. QED BY <1>3, <2>3, <3>1 DEF Release
  <2>6. /\ new \in Seq(Release) /\ DOMAIN new = DOMAIN releases \cup {r} /\ r \notin DOMAIN releases
        /\ new[r] = album /\ \A s \in DOMAIN releases : new[s] = releases[s]
    BY <1>1, <2>1, <2>4, <2>5
  <2>7. new[r].tracks = {} /\ IsFiniteSet(new[r].tracks)
    <3>1. new[r].tracks = {}
      BY <2>3, <2>6
    <3>. QED BY <3>1, FS_EmptySet
  <2>8. new \in ReleaseList
    BY <1>1, <2>6, <2>7 DEF ReleaseList
  <2>9. Grows(releases, new)
    BY <2>6 DEF Grows
  <2>10. r \in Candidates(new, f)
    <3>1. /\ new[r].title = f.album /\ new[r].catalogue = f.catalogue /\ new[r].barcode = f.barcode
          /\ new[r].signature = Signature(f)
      BY <1>2, <2>3, <2>6
    <3>2. f.album # "" /\ (f.barcode \notin {"", "odd"} \/ f.catalogue # "" \/ Signature(f) # <<>>)
      BY <2>2 DEF Sufficient
    <3>3. r \in DOMAIN new
      BY <2>6
    <3>. QED BY <3>1, <3>2, <3>3, Zenon DEF Candidates
  <2>11. AlbumOf(new[r], f)
    BY <1>2, <2>3, <2>6 DEF AlbumOf
  <2>. QED BY <2>2, <2>6, <2>7, <2>8, <2>9, <2>10, <2>11
<1>. QED BY <1>4, <1>5

\* A file leaves the catalogue as it was, but for its result.
Apart(db, e) ==
  \E result \in Result : result.release = 0 /\ e = [db EXCEPT !.results = Append(@, result)]

\* A file was put on a release, at a place that was its own already or is one more.
PutOn(db, f, at, e) ==
  LET r   == ReleaseOf(db.releases, f)
      new == Resolution(db.releases, f)
  IN  /\ e = [db EXCEPT !.releases = e.releases, !.results = e.results, !.places = e.places, !.covers = e.covers]
      /\ e.results = Append(db.results, [done |-> TRUE, release |-> r, at |-> at])
      /\ at = IF Settled(db, f) THEN db.places[f.path].at ELSE Place(new[r].tracks, f)
      /\ e.releases = IF Settled(db, f) THEN new
                      ELSE [new EXCEPT ![r].tracks = @ \cup {[at |-> at, recording |-> f.recording]}]
      /\ e.places = [db.places EXCEPT ![f.path] = IF db.places[f.path].release # 0 THEN @
                                                   ELSE [release |-> r, at |-> at]]
      /\ e.covers = IF CoverOf(db, f) # 0 THEN [db.covers EXCEPT ![f.folder] = r] ELSE db.covers

\* The releases a file was put on one of: it is a candidate, and has the place.
Received(db, f, r, at, e) ==
  /\ e.releases \in ReleaseList /\ r \in DOMAIN e.releases /\ Grows(db.releases, e.releases)
  /\ \A s \in DOMAIN e.releases \ {r} : s \in DOMAIN db.releases /\ e.releases[s] = db.releases[s]
  /\ Candidates(db.releases, f) \subseteq {r} /\ r \in Candidates(e.releases, f)
  /\ ~Settled(db, f) => [at |-> at, recording |-> f.recording] \in e.releases[r].tracks
  /\ \A t \in e.releases[r].tracks :
       \/ r \in DOMAIN db.releases /\ t \in db.releases[r].tracks
       \/ t = [at |-> at, recording |-> f.recording]
  /\ r \in DOMAIN db.releases => r \in Candidates(db.releases, f)
  /\ r \notin DOMAIN db.releases => AlbumOf(e.releases[r], f)

\* A file that has no place on its release yet takes one.
LEMMA TakesPlace ==
  ASSUME NEW images, NEW paths, NEW db \in Catalogue(images, paths), NEW f \in AudioFile,
         f.path \in paths, NEW r, r = ReleaseOf(db.releases, f), r # 0,
         ~Unresolvable(db.releases, f), NEW at, NEW e, PutOn(db, f, at, e)
  PROVE  at \in Nat /\ Received(db, f, r, at, e)
<1>1. PICK new : new = Resolution(db.releases, f)
  OBVIOUS
<1>2. db.releases \in ReleaseList /\ db.places[f.path].at \in Nat
  BY DEF Catalogue
<1>3. /\ new \in ReleaseList /\ r \in DOMAIN new
      /\ Grows(db.releases, new) /\ \A s \in DOMAIN new \ {r} : s \in DOMAIN db.releases /\ new[s] = db.releases[s]
      /\ Candidates(db.releases, f) \subseteq {r} /\ r \in Candidates(new, f)
      /\ r \in DOMAIN db.releases => r \in Candidates(db.releases, f) /\ new[r].tracks = db.releases[r].tracks
      /\ r \notin DOMAIN db.releases => AlbumOf(new[r], f) /\ new[r].tracks = {}
  BY <1>1, <1>2, FoundOrCreated
<1>4. CASE Settled(db, f)
  <2>1. at = db.places[f.path].at /\ e.releases = new
    BY <1>1, <1>4, Zenon DEF PutOn
  <2>. QED BY <1>2, <1>3, <1>4, <2>1, Zenon DEF Received
<1>5. CASE ~Settled(db, f)
  <2>1. PICK t : t = [at |-> at, recording |-> f.recording]
    OBVIOUS
  <2>2. /\ at = Place(new[r].tracks, f)
        /\ e.releases = [new EXCEPT ![r].tracks = @ \cup {t}]
    BY <1>1, <1>5, <2>1, Zenon DEF PutOn
  <2>3. new \in Seq(Release) /\ new[r] \in Release /\ IsFiniteSet(new[r].tracks)
    BY <1>3 DEF ReleaseList
  <2>4. at \in Nat /\ t \in Places
    <3>1. at \in Nat
      BY <2>2, <2>3, PlaceNat DEF Release
    <3>2. f.recording \in Nat
      BY DEF AudioFile
    <3>. QED BY <2>1, <3>1, <3>2 DEF Places
  <2>5. PICK album : album = [new[r] EXCEPT !.tracks = @ \cup {t}]
    OBVIOUS
  <2>6. e.releases = [new EXCEPT ![r] = album]
    BY <2>2, <2>5, Zenon
  <2>7. /\ album \in Release /\ album.tracks = new[r].tracks \cup {t}
        /\ album.title = new[r].title /\ album.catalogue = new[r].catalogue
        /\ album.barcode = new[r].barcode /\ album.signature = new[r].signature
    BY <2>3, <2>4, <2>5 DEF Release
  <2>8. /\ e.releases \in Seq(Release) /\ DOMAIN e.releases = DOMAIN new
        /\ e.releases[r] = album /\ \A s \in DOMAIN new \ {r} : e.releases[s] = new[s]
    BY <1>3, <2>3, <2>6, <2>7
  <2>9. e.releases \in ReleaseList
    <3>1. IsFiniteSet(album.tracks)
      <4>1. IsFiniteSet(new[r].tracks) /\ album.tracks = new[r].tracks \cup {t}
        BY <2>3, <2>7
      <4>. QED BY <4>1, FS_AddElement
    <3>2. ASSUME NEW s \in DOMAIN new PROVE IsFiniteSet(new[s].tracks)
      BY <1>3 DEF ReleaseList
    <3>3. ASSUME NEW s \in DOMAIN e.releases PROVE IsFiniteSet(e.releases[s].tracks)
      <4>1. CASE s = r
        BY <2>8, <3>1, <4>1
      <4>2. CASE s # r
        BY <2>8, <3>2, <4>2
      <4>. QED BY <4>1, <4>2
    <3>. QED BY <2>8, <3>3 DEF ReleaseList
  <2>10. Grows(new, e.releases)
    BY <2>7, <2>8 DEF Grows
  <2>11. Grows(db.releases, e.releases)
    BY <1>3, <2>7, <2>8 DEF Grows
  <2>12. r \in Candidates(e.releases, f)
    BY <1>3, <2>10, CandidatesStay
  <2>13. t \in e.releases[r].tracks
    BY <2>7, <2>8
  <2>14. \A x \in e.releases[r].tracks :
           \/ r \in DOMAIN db.releases /\ x \in db.releases[r].tracks
           \/ x = t
    BY <1>3, <2>7, <2>8
  <2>15. \A s \in DOMAIN e.releases \ {r} : s \in DOMAIN db.releases /\ e.releases[s] = db.releases[s]
    BY <1>3, <2>8
  <2>16. AlbumOf(new[r], f) => AlbumOf(e.releases[r], f)
    BY <2>7, <2>8 DEF AlbumOf
  <2>. QED BY <1>3, <2>1, <2>4, <2>8, <2>9, <2>11, <2>12, <2>13, <2>14, <2>15, <2>16, Zenon DEF Received
<1>. QED BY <1>4, <1>5

\* apply_item puts a file on a release, or leaves the catalogue as it was.
LEMMA FileApplied ==
  ASSUME NEW images, NEW paths, NEW db \in Catalogue(images, paths), NEW file \in AudioFile,
         NEW f, f = InFolder(file), Located(f, images, paths), NEW r, r = ReleaseOf(db.releases, f),
         NEW e, e = Assembled(db, file)
  PROVE  /\ Refuses(db, f) \/ r = 0 => Apart(db, e)
         /\ ~Refuses(db, f) /\ r # 0 => \E at : PutOn(db, f, at, e)
<1>1. ASSUME Refuses(db, f) \/ r = 0 PROVE Apart(db, e)
  <2>1. PICK d \in BOOLEAN : e = [db EXCEPT !.results = Append(@, [done |-> d, release |-> 0, at |-> 0])]
    <3>1. TRUE \in BOOLEAN /\ FALSE \in BOOLEAN
      OBVIOUS
    <3>. QED BY <1>1, <3>1, Zenon DEF Assembled
  <2>2. PICK result : result = [done |-> d, release |-> 0, at |-> 0]
    OBVIOUS
  <2>3. result \in Result /\ result.release = 0
    BY <2>2 DEF Result
  <2>. QED BY <2>1, <2>2, <2>3, Zenon DEF Apart
<1>2. ASSUME ~Refuses(db, f), r # 0 PROVE \E at : PutOn(db, f, at, e)
  <2>1. PICK new : new = Resolution(db.releases, f)
    OBVIOUS
  <2>2. PICK at : at = IF Settled(db, f) THEN db.places[f.path].at ELSE Place(new[r].tracks, f)
    OBVIOUS
  <2>3. PICK track : track = IF Settled(db, f) THEN db.places[f.path] ELSE [release |-> r, at |-> at]
    OBVIOUS
  <2>4. track.at = at
    BY <2>2, <2>3
  <2>5. PICK releases : releases = IF Settled(db, f) THEN new
                                   ELSE [new EXCEPT ![r].tracks =
                                           @ \cup {[at |-> at, recording |-> f.recording]}]
    OBVIOUS
  <2>6. PICK results : results = Append(db.results, [done |-> TRUE, release |-> r, at |-> at])
    OBVIOUS
  <2>7. PICK places : places = [db.places EXCEPT ![f.path] = IF db.places[f.path].release # 0
                                                              THEN @ ELSE track]
    OBVIOUS
  <2>8. PICK covers : covers = IF CoverOf(db, f) # 0 THEN [db.covers EXCEPT ![f.folder] = r]
                               ELSE db.covers
    OBVIOUS
  <2>9. e = [db EXCEPT !.results = results, !.releases = releases, !.places = places, !.covers = covers]
    <3>1. Settled(db, f) => releases = new
      BY <2>5
    <3>2. ~Settled(db, f) => /\ at = Place(new[r].tracks, f)
                             /\ releases = [new EXCEPT ![r].tracks =
                                               @ \cup {[at |-> at, recording |-> f.recording]}]
      BY <2>2, <2>5
    <3>3. CASE Settled(db, f)
      BY <1>2, <2>1, <2>3, <2>4, <2>6, <2>7, <2>8, <3>1, <3>3 DEF Assembled
    <3>4. CASE ~Settled(db, f)
      <4>1. PICK t : t = [at |-> at, recording |-> f.recording]
        OBVIOUS
      <4>2. releases = [new EXCEPT ![r].tracks = @ \cup {t}] /\ t = [at |-> Place(new[r].tracks, f), recording |-> f.recording]
        BY <3>2, <3>4, <4>1
      <4>. QED BY <1>2, <2>1, <2>3, <2>4, <2>6, <2>7, <2>8, <3>2, <3>4, <4>2 DEF Assembled
    <3>. QED BY <3>3, <3>4
  <2>10. /\ e.results = results /\ e.releases = releases /\ e.places = places /\ e.covers = covers
         /\ e = [db EXCEPT !.releases = releases, !.results = results, !.places = places, !.covers = covers]
    BY <2>9 DEF Catalogue
  <2>11. places = [db.places EXCEPT ![f.path] = IF db.places[f.path].release # 0 THEN @
                                                ELSE [release |-> r, at |-> at]]
    <3>1. Settled(db, f) => db.places[f.path].release # 0
      BY <1>2 DEF Settled
    <3>. QED BY <2>3, <2>7, <3>1
  <2>. QED BY <2>1, <2>2, <2>5, <2>6, <2>8, <2>10, <2>11, Zenon DEF PutOn
<1>. QED BY <1>1, <1>2, Zenon

\* A catalogue stays one when a file is applied.
LEMMA CatalogueKept ==
  ASSUME NEW images, NEW paths, NEW db \in Catalogue(images, paths), NEW file \in AudioFile,
         Located(InFolder(file), images, paths)
  PROVE  Assembled(db, file) \in Catalogue(images, paths)
<1>1. PICK f : f = InFolder(file)
  OBVIOUS
<1>2. f \in AudioFile /\ Located(f, images, paths)
  BY <1>1, FolderSpeaks
<1>3. PICK r : r = ReleaseOf(db.releases, f)
  OBVIOUS
<1>4. PICK e : e = Assembled(db, file)
  OBVIOUS
<1>5. CASE Refuses(db, f) \/ r = 0
  <2>1. Apart(db, e)
    BY <1>1, <1>2, <1>3, <1>4, <1>5, FileApplied
  <2>2. PICK result \in Result : e = [db EXCEPT !.results = Append(@, result)]
    BY <2>1 DEF Apart
  <2>3. PICK results : results = Append(db.results, result)
    OBVIOUS
  <2>4. e = [db EXCEPT !.results = results] /\ results \in Seq(Result)
    <3>1. db.results \in Seq(Result)
      BY DEF Catalogue
    <3>. QED BY <2>2, <2>3, <3>1
  <2>. QED BY <1>4, <2>4 DEF Catalogue
<1>6. CASE ~Refuses(db, f) /\ r # 0
  <2>1. PICK at : PutOn(db, f, at, e)
    BY <1>1, <1>2, <1>3, <1>4, <1>6, FileApplied
  <2>2. f.path \in paths /\ ~Unresolvable(db.releases, f)
    BY <1>2, <1>6 DEF Located, Refuses
  <2>3. at \in Nat /\ Received(db, f, r, at, e)
    BY <1>2, <1>3, <1>6, <2>1, <2>2, TakesPlace
  <2>4. e.releases \in ReleaseList /\ r \in Nat
    <3>1. e.releases \in ReleaseList /\ r \in DOMAIN e.releases
      BY <2>3, Zenon DEF Received
    <3>2. e.releases \in Seq(Release)
      BY <3>1 DEF ReleaseList
    <3>. QED BY <3>1, <3>2
  <2>5. e = [db EXCEPT !.releases = e.releases, !.results = e.results, !.places = e.places, !.covers = e.covers]
    BY <2>1, Zenon DEF PutOn
  <2>6. e.results \in Seq(Result)
    <3>1. e.results = Append(db.results, [done |-> TRUE, release |-> r, at |-> at])
      BY <1>3, <2>1, Zenon DEF PutOn
    <3>2. [done |-> TRUE, release |-> r, at |-> at] \in Result /\ db.results \in Seq(Result)
      BY <2>3, <2>4 DEF Result, Catalogue
    <3>. QED BY <3>1, <3>2
  <2>7. e.places \in [paths -> [release : Nat, at : Nat]]
    <3>1. e.places = [db.places EXCEPT ![f.path] = IF db.places[f.path].release # 0 THEN @
                                                   ELSE [release |-> r, at |-> at]]
      BY <1>3, <2>1, Zenon DEF PutOn
    <3>2. db.places \in [paths -> [release : Nat, at : Nat]]
      BY DEF Catalogue
    <3>. QED BY <2>2, <2>3, <2>4, <3>1, <3>2
  <2>8. e.covers \in [DOMAIN images -> Nat]
    <3>1. e.covers = IF CoverOf(db, f) # 0 THEN [db.covers EXCEPT ![f.folder] = r] ELSE db.covers
      BY <1>3, <2>1, Zenon DEF PutOn
    <3>2. CoverOf(db, f) # 0 => f.folder \in DOMAIN images
      BY <1>2 DEF Located, CoverOf
    <3>3. db.covers \in [DOMAIN images -> Nat]
      BY DEF Catalogue
    <3>. QED BY <2>4, <3>1, <3>2, <3>3
  <2>9. ASSUME NEW a \in ReleaseList, NEW c \in Seq(Result), NEW p \in [paths -> [release : Nat, at : Nat]],
               NEW v \in [DOMAIN images -> Nat]
        PROVE  [db EXCEPT !.releases = a, !.results = c, !.places = p, !.covers = v] \in Catalogue(images, paths)
    BY DEF Catalogue
  <2>10. [db EXCEPT !.releases = e.releases, !.results = e.results, !.places = e.places, !.covers = e.covers]
           \in Catalogue(images, paths)
    BY <2>4, <2>6, <2>7, <2>8, <2>9
  <2>. QED BY <1>4, <2>5, <2>10, Zenon
<1>. QED BY <1>5, <1>6

\* The files whose folders are known, and their paths.
Sorted(images, files) ==
  /\ files \in Seq(AudioFile)
  /\ \A k \in DOMAIN files : files[k].folder # "" => files[k].folder \in DOMAIN images
PathsOf(files) == {f.path : f \in ToSet(files)}

\* g has the catalogues after the first files of a batch.
AppliedInTurn(releases, images, files, g) ==
  /\ \A k \in 0..Len(files) : g[k] \in Catalogue(images, PathsOf(files))
  /\ g[0] = Unassembled(releases, images, files) /\ g[Len(files)] = Imported(releases, images, files)
  /\ \A k \in 1..Len(files) : g[k] = Assembled(g[k - 1], files[k])

\* The files of a batch are applied in turn.
LEMMA BatchApplied ==
  ASSUME NEW releases \in ReleaseList, NEW images, NEW files, Sorted(images, files)
  PROVE  \E g : AppliedInTurn(releases, images, files, g)
<1>1. PICK db : db = Unassembled(releases, images, files)
  OBVIOUS
<1>. DEFINE Adds(f) == f = [S \in SUBSET DOMAIN files |->
                               IF S = {} THEN db ELSE Assembled(f[S \ {Max(S)}], files[Max(S)])]
<1>2. PICK c : c = CHOOSE f : Adds(f)
  OBVIOUS
<1>3. Imported(releases, images, files) = c[DOMAIN files]
  BY <1>1, <1>2, Zenon DEF Imported, FoldLeft, MapThenFoldSet
<1>4. PICK m \in Nat : m = Len(files) /\ DOMAIN files = 1..m
  <2>1. files \in Seq(AudioFile)
    BY DEF Sorted
  <2>. QED BY <2>1
<1>5. PICK Q : Q = Catalogue(images, PathsOf(files))
  OBVIOUS
<1>6. db \in Q
  <2>1. <<>> \in Seq(Result)
    BY EmptySeq
  <2>. QED BY <1>1, <1>5, <2>1 DEF Unassembled, Catalogue, PathsOf
<1>7. \A s \in Q, k \in 1..m : Assembled(s, files[k]) \in Q
  <2>. SUFFICES ASSUME NEW s \in Q, NEW k \in 1..m PROVE Assembled(s, files[k]) \in Q
    OBVIOUS
  <2>1. files[k] \in AudioFile /\ files[k].path \in PathsOf(files)
    <3>1. files \in Seq(AudioFile) /\ k \in DOMAIN files
      BY <1>4 DEF Sorted
    <3>2. files[k] \in ToSet(files)
      BY <3>1 DEF ToSet
    <3>. QED BY <3>1, <3>2 DEF PathsOf
  <2>2. Located(InFolder(files[k]), images, PathsOf(files))
    BY <1>4, <2>1, FolderSpeaks DEF Located, Sorted
  <2>. QED BY <1>5, <2>1, <2>2, CatalogueKept
<1>8. PICK step \in [Q \X (1..m) -> Q] :
        \A k \in 1..m, s \in Q : step[<<s, k>>] = Assembled(s, files[k])
  <2>1. [x \in Q \X (1..m) |-> Assembled(x[1], files[x[2]])] \in [Q \X (1..m) -> Q]
    BY <1>7
  <2>. QED BY <2>1
<1>9. PICK f : Folds(m, Q, db, step, f)
  BY <1>6, <1>8, FoldDefined
<1>10. Adds(f)
  <2>1. ASSUME NEW S \in SUBSET (1..m), S # {}
        PROVE  f[S] = Assembled(f[S \ {Max(S)}], files[Max(S)])
    <3>1. PICK x : x = Max(S)
      OBVIOUS
    <3>2. x \in 1..m /\ S \ {x} \in SUBSET (1..m)
      BY <2>1, <3>1, LastPosition
    <3>. QED BY <1>8, <1>9, <2>1, <3>1, <3>2 DEF Folds
  <2>2. f = [S \in SUBSET (1..m) |->
               IF S = {} THEN db ELSE Assembled(f[S \ {Max(S)}], files[Max(S)])]
    BY <1>9, <2>1 DEF Folds
  <2>. QED BY <1>4, <2>2
<1>11. Adds(c)
  BY <1>2, <1>10, Zenon
<1>12. c[{}] = db /\ \A k \in 1..m : c[1..k] = Assembled(c[1..(k - 1)], files[k])
  <2>1. ASSUME NEW k \in 1..m PROVE c[1..k] = Assembled(c[1..(k - 1)], files[k])
    <3>1. 1..k \in SUBSET DOMAIN files /\ 1..k # {} /\ k \in Nat /\ k > 0
      <4>1. 1..k \subseteq 1..m /\ k \in 1..k /\ k \in Nat /\ k > 0
        OBVIOUS
      <4>2. 1..k # {}
        BY <4>1
      <4>. QED BY <1>4, <4>1, <4>2
    <3>2. Max(1..k) = k /\ (1..k) \ {Max(1..k)} = 1..(k - 1)
      BY <3>1, LastOfSegment
    <3>3. c[1..k] = Assembled(c[(1..k) \ {Max(1..k)}], files[Max(1..k)])
      BY <1>11, <3>1
    <3>. QED BY <3>2, <3>3
  <2>2. {} \in SUBSET DOMAIN files
    OBVIOUS
  <2>. QED BY <1>11, <2>1, <2>2
<1>13. Follows(m, Q, db, step, c)
  BY <1>8, <1>12 DEF Follows
<1>14. PICK g : Runs(m, Q, db, step, c, g)
  BY <1>6, <1>8, <1>13, FoldRuns
<1>15. /\ \A k \in 0..m : g[k] \in Q
       /\ g[0] = db /\ g[m] = Imported(releases, images, files)
  BY <1>3, <1>4, <1>14 DEF Runs
<1>16. \A k \in 1..m : g[k] = Assembled(g[k - 1], files[k])
  <2>1. \A k \in 1..m : k - 1 \in 0..m
    OBVIOUS
  <2>. QED BY <1>8, <1>14, <1>15, <2>1 DEF Runs
<1>. QED BY <1>1, <1>4, <1>5, <1>15, <1>16 DEF AppliedInTurn

-----------------------------------------------------------------------------
(* What stays true while a batch is imported.                              *)

\* The recordings of a batch are told apart by the paths of their files.
Distinct(files) == \A f, g \in ToSet(files) : f.path = g.path => f.recording = g.recording

\* The place of a file is one of its recording.
PlacesHeld(files, db) ==
  \A g \in ToSet(files) :
    LET place == db.places[g.path]
    IN  place.release # 0 =>
          /\ place.release \in DOMAIN db.releases
          /\ [at |-> place.at, recording |-> g.recording] \in db.releases[place.release].tracks

\* A file that was put on a release is a candidate for it again, holds its place, and the
\* picture of its folder is the cover.
StaysOn(images, db, f, result) ==
  LET r == result.release
  IN  /\ r \in Candidates(db.releases, f)
      /\ [at |-> result.at, recording |-> f.recording] \in db.releases[r].tracks
      /\ db.places[f.path].release # 0
      /\ f.folder # "" /\ Cover(images[f.folder]) # 0 => db.covers[f.folder] = r

PutsKept(images, files, db) ==
  \A i \in DOMAIN db.results :
    db.results[i].release # 0 => StaysOn(images, db, InFolder(files[i]), db.results[i])

\* Files that say the same of their album are on one release.
OnOne(f, g, r, s) == r # 0 /\ s # 0 /\ SameAlbum(f, g) => r = s
AlikeKept(files, db) ==
  \A i, j \in DOMAIN db.results :
    OnOne(InFolder(files[i]), InFolder(files[j]), db.results[i].release, db.results[j].release)

AssemblyInv(images, files, db) ==
  PlacesHeld(files, db) /\ PutsKept(images, files, db) /\ AlikeKept(files, db)

\* A file is applied: f of the batch, to db, which becomes e.
Applies(images, files, db, k, f, e) ==
  /\ Sorted(images, files) /\ Distinct(files)
  /\ db \in Catalogue(images, PathsOf(files)) /\ k = Len(db.results) + 1 /\ k \in DOMAIN files
  /\ f = InFolder(files[k]) /\ e = Assembled(db, files[k])

\* What is known of a file that is applied, and of the results before and after it.
LEMMA FileKnown ==
  ASSUME NEW images, NEW files, NEW db, NEW k, NEW f, NEW e, Applies(images, files, db, k, f, e)
  PROVE  /\ files[k] \in AudioFile /\ files[k] \in ToSet(files) /\ f \in AudioFile
         /\ f.path = files[k].path /\ f.recording = files[k].recording
         /\ Located(f, images, PathsOf(files))
         /\ db.releases \in ReleaseList /\ db.results \in Seq(Result) /\ db.images = images
         /\ db.places \in [PathsOf(files) -> [release : Nat, at : Nat]]
         /\ db.covers \in [DOMAIN images -> Nat]
<1>1. /\ Sorted(images, files) /\ db \in Catalogue(images, PathsOf(files)) /\ k \in DOMAIN files
      /\ f = InFolder(files[k])
  BY Zenon DEF Applies
<1>2. files[k] \in AudioFile /\ files[k] \in ToSet(files)
  <2>1. files \in Seq(AudioFile)
    BY <1>1 DEF Sorted
  <2>. QED BY <1>1, <2>1 DEF ToSet
<1>3. /\ f \in AudioFile /\ f.path = files[k].path /\ f.recording = files[k].recording
      /\ f.folder = files[k].folder
  BY <1>1, <1>2, FolderSpeaks
<1>4. Located(f, images, PathsOf(files))
  <2>1. f.path \in PathsOf(files)
    BY <1>2, <1>3 DEF PathsOf
  <2>2. f.folder # "" => f.folder \in DOMAIN images
    BY <1>1, <1>3, Zenon DEF Sorted
  <2>. QED BY <2>1, <2>2 DEF Located
<1>5. /\ db.releases \in ReleaseList /\ db.results \in Seq(Result) /\ db.images = images
      /\ db.places \in [PathsOf(files) -> [release : Nat, at : Nat]]
      /\ db.covers \in [DOMAIN images -> Nat]
  BY <1>1 DEF Catalogue
<1>. QED BY <1>2, <1>3, <1>4, <1>5

\* A file that is left apart adds a result on no release.
LEMMA ApartKeeps ==
  ASSUME NEW images, NEW files, NEW db, NEW k, NEW f, NEW e, Applies(images, files, db, k, f, e),
         AssemblyInv(images, files, db), Apart(db, e)
  PROVE  AssemblyInv(images, files, e)
<1>1. db.results \in Seq(Result) /\ db \in Catalogue(images, PathsOf(files))
  BY FileKnown, Zenon DEF Applies
<1>2. PICK result \in Result : result.release = 0 /\ e = [db EXCEPT !.results = Append(@, result)]
  BY DEF Apart
<1>3. /\ e.releases = db.releases /\ e.places = db.places /\ e.covers = db.covers
      /\ e.results = Append(db.results, result)
  BY <1>1, <1>2 DEF Catalogue
<1>4. PlacesHeld(files, e)
  BY <1>3, Zenon DEF AssemblyInv, PlacesHeld
<1>5. \A i \in DOMAIN e.results : e.results[i].release # 0 =>
        i \in DOMAIN db.results /\ e.results[i] = db.results[i]
  BY <1>1, <1>2, <1>3
<1>6. PutsKept(images, files, e)
  BY <1>3, <1>5, Zenon DEF AssemblyInv, PutsKept, StaysOn
<1>7. AlikeKept(files, e)
  BY <1>5, Zenon DEF AssemblyInv, AlikeKept, OnOne
<1>. QED BY <1>4, <1>6, <1>7 DEF AssemblyInv

\* What changes when a file is put on the release r.
Changed(images, files, db, k, f, r, at, e) ==
  /\ Received(db, f, r, at, e) /\ at \in Nat /\ r # 0
  /\ e.places[f.path].release # 0
  /\ db.places[f.path].release # 0 => e.places = db.places
  /\ db.places[f.path].release = 0 => e.places[f.path] = [release |-> r, at |-> at]
  /\ \A p \in PathsOf(files) \ {f.path} : e.places[p] = db.places[p]
  /\ Settled(db, f) => db.places[f.path].release = r /\ db.places[f.path].at = at
  /\ f.folder # "" /\ Cover(images[f.folder]) # 0 => e.covers[f.folder] = r /\ db.covers[f.folder] \in {0, r}
  /\ \A folder \in DOMAIN images \ {f.folder} : e.covers[folder] = db.covers[folder]
  /\ f.folder \in DOMAIN images /\ e.covers[f.folder] # db.covers[f.folder] => e.covers[f.folder] = r
  /\ DOMAIN e.results = 1..k /\ DOMAIN db.results = 1..(k - 1) /\ k \in Nat \ {0}
  /\ e.results[k].release = r /\ e.results[k].at = at
  /\ \A i \in 1..(k - 1) : e.results[i] = db.results[i]

\* What a file on a release changes: its own release, its recording's place and the cover of
\* its folder, and nothing else.
LEMMA PutChanges ==
  ASSUME NEW images, NEW files, NEW db, NEW k, NEW f, NEW e, Applies(images, files, db, k, f, e),
         NEW r, r = ReleaseOf(db.releases, f), r # 0, ~Refuses(db, f)
  PROVE  \E at : PutOn(db, f, at, e) /\ Changed(images, files, db, k, f, r, at, e)
<1>1. /\ f \in AudioFile /\ Located(f, images, PathsOf(files)) /\ f.path \in PathsOf(files)
      /\ db.results \in Seq(Result) /\ db.images = images
      /\ db.places \in [PathsOf(files) -> [release : Nat, at : Nat]]
      /\ db.covers \in [DOMAIN images -> Nat]
  BY FileKnown, Zenon DEF Located
<1>2. /\ db \in Catalogue(images, PathsOf(files)) /\ f = InFolder(files[k]) /\ e = Assembled(db, files[k])
      /\ k = Len(db.results) + 1 /\ files[k] \in AudioFile
  BY FileKnown, Zenon DEF Applies
<1>3. PICK at : PutOn(db, f, at, e)
  BY <1>1, <1>2, FileApplied
<1>4. ~Unresolvable(db.releases, f) /\ ~ForeignCover(db, f)
  BY Zenon DEF Refuses
<1>5. at \in Nat /\ Received(db, f, r, at, e)
  BY <1>1, <1>2, <1>3, <1>4, TakesPlace
<1>6. /\ at = IF Settled(db, f) THEN db.places[f.path].at ELSE Place(Resolution(db.releases, f)[r].tracks, f)
      /\ e.results = Append(db.results, [done |-> TRUE, release |-> r, at |-> at])
      /\ e.places = [db.places EXCEPT ![f.path] = IF db.places[f.path].release # 0 THEN @
                                                   ELSE [release |-> r, at |-> at]]
      /\ e.covers = IF CoverOf(db, f) # 0 THEN [db.covers EXCEPT ![f.folder] = r] ELSE db.covers
  BY <1>3, Zenon DEF PutOn
<1>7. Settled(db, f) => db.places[f.path].release = r /\ db.places[f.path].at = at
  BY <1>6 DEF Settled
<1>8. /\ e.places[f.path].release # 0
      /\ db.places[f.path].release # 0 => e.places = db.places
      /\ db.places[f.path].release = 0 => e.places[f.path] = [release |-> r, at |-> at]
      /\ \A p \in PathsOf(files) \ {f.path} : e.places[p] = db.places[p]
  <2>1. PICK place : place = [release |-> r, at |-> at]
    OBVIOUS
  <2>2. db.places[f.path].release # 0 => e.places = [db.places EXCEPT ![f.path] = db.places[f.path]]
    BY <1>6, Zenon
  <2>3. db.places[f.path].release = 0 => e.places = [db.places EXCEPT ![f.path] = place]
    BY <1>6, <2>1, Zenon
  <2>4. place.release # 0
    BY <2>1
  <2>5. CASE db.places[f.path].release # 0
    <3>1. e.places = db.places
      BY <1>1, <2>2, <2>5
    <3>. QED BY <2>5, <3>1
  <2>6. CASE db.places[f.path].release = 0
    <3>1. e.places[f.path] = place /\ \A p \in PathsOf(files) \ {f.path} : e.places[p] = db.places[p]
      BY <1>1, <2>3, <2>6
    <3>. QED BY <2>1, <2>4, <2>6, <3>1
  <2>. QED BY <2>5, <2>6
<1>9. /\ f.folder # "" /\ Cover(images[f.folder]) # 0 => CoverOf(db, f) # 0
      /\ CoverOf(db, f) # 0 => f.folder \in DOMAIN images /\ db.covers[f.folder] \in {0, r}
  BY <1>1, <1>4 DEF CoverOf, ForeignCover, Located
<1>10. /\ f.folder # "" /\ Cover(images[f.folder]) # 0 => e.covers[f.folder] = r /\ db.covers[f.folder] \in {0, r}
       /\ \A folder \in DOMAIN images \ {f.folder} : e.covers[folder] = db.covers[folder]
       /\ f.folder \in DOMAIN images /\ e.covers[f.folder] # db.covers[f.folder] => e.covers[f.folder] = r
  BY <1>1, <1>6, <1>9
<1>11. PICK result : result = [done |-> TRUE, release |-> r, at |-> at]
  OBVIOUS
<1>12. PICK n \in Nat : n = Len(db.results)
  BY <1>1
<1>13. result \in Result
  <2>1. r \in Nat
    <3>1. db.releases \in Seq(Release)
      BY <1>2 DEF Catalogue, ReleaseList
    <3>. QED BY <3>1, OnlyCandidate
  <2>. QED BY <1>5, <1>11, <2>1 DEF Result
<1>14. /\ DOMAIN e.results = 1..k /\ DOMAIN db.results = 1..(k - 1) /\ k \in Nat \ {0}
       /\ e.results[k] = result
       /\ \A i \in 1..(k - 1) : e.results[i] = db.results[i]
  BY <1>1, <1>2, <1>6, <1>11, <1>12, <1>13
<1>15. e.results[k].release = r /\ e.results[k].at = at
  BY <1>11, <1>14
<1>. QED BY <1>3, <1>5, <1>7, <1>8, <1>10, <1>14, <1>15, Zenon DEF Changed

\* The tracks and the candidates there were are there still.
LEMMA StillThere ==
  ASSUME NEW db, NEW f, NEW r, NEW at, NEW e, Received(db, f, r, at, e)
  PROVE  /\ \A s \in DOMAIN db.releases : db.releases[s].tracks \subseteq e.releases[s].tracks
         /\ \A g : Candidates(db.releases, g) \subseteq Candidates(e.releases, g)
         /\ \A g : Candidates(db.releases, g) \subseteq DOMAIN db.releases
<1>1. Grows(db.releases, e.releases)
  BY Zenon DEF Received
<1>2. \A s \in DOMAIN db.releases : db.releases[s].tracks \subseteq e.releases[s].tracks
  BY <1>1, Zenon DEF Grows
<1>3. \A g : Candidates(db.releases, g) \subseteq Candidates(e.releases, g)
  BY <1>1, CandidatesStay
<1>4. \A g : Candidates(db.releases, g) \subseteq DOMAIN db.releases
  BY Zenon DEF Candidates
<1>. QED BY <1>2, <1>3, <1>4

\* A file that is put on a release holds its place, and the others hold theirs.
LEMMA PutHoldsPlaces ==
  ASSUME NEW images, NEW files, NEW db, NEW k, NEW f, NEW e, Applies(images, files, db, k, f, e),
         AssemblyInv(images, files, db), NEW r, NEW at, Changed(images, files, db, k, f, r, at, e)
  PROVE  /\ PlacesHeld(files, e)
         /\ [at |-> at, recording |-> f.recording] \in e.releases[r].tracks
<1>1. /\ files[k] \in ToSet(files) /\ f.path = files[k].path /\ f.recording = files[k].recording
      /\ Distinct(files)
  <2>1. Distinct(files)
    BY Zenon DEF Applies
  <2>. QED BY <2>1, FileKnown
<1>2. Received(db, f, r, at, e)
  BY Zenon DEF Changed
<1>3. /\ \A s \in DOMAIN db.releases : db.releases[s].tracks \subseteq e.releases[s].tracks
      /\ DOMAIN db.releases \subseteq DOMAIN e.releases /\ r \in DOMAIN e.releases
      /\ ~Settled(db, f) => [at |-> at, recording |-> f.recording] \in e.releases[r].tracks
  BY <1>2, StillThere, Zenon DEF Received, Grows
<1>4. [at |-> at, recording |-> f.recording] \in e.releases[r].tracks
  <2>1. CASE Settled(db, f)
    <3>1. db.places[f.path].release = r /\ db.places[f.path].at = at /\ r # 0
      BY <2>1, Zenon DEF Changed
    <3>2. /\ r \in DOMAIN db.releases
          /\ [at |-> at, recording |-> files[k].recording] \in db.releases[r].tracks
      BY <1>1, <3>1, Zenon DEF AssemblyInv, PlacesHeld
    <3>. QED BY <1>1, <1>3, <3>2
  <2>. QED BY <1>3, <2>1
<1>5. ASSUME NEW g \in ToSet(files), NEW place, place = e.places[g.path], place.release # 0
      PROVE  /\ place.release \in DOMAIN e.releases
             /\ [at |-> place.at, recording |-> g.recording] \in e.releases[place.release].tracks
  <2>1. CASE place = db.places[g.path]
    <3>1. /\ place.release \in DOMAIN db.releases
          /\ [at |-> place.at, recording |-> g.recording] \in db.releases[place.release].tracks
      BY <1>5, <2>1, Zenon DEF AssemblyInv, PlacesHeld
    <3>. QED BY <1>3, <3>1
  <2>2. CASE place # db.places[g.path]
    <3>1. g.path \in PathsOf(files)
      BY DEF PathsOf
    <3>2. g.path = f.path /\ place = [release |-> r, at |-> at]
      BY <1>5, <2>2, <3>1, Zenon DEF Changed
    <3>3. place.release = r /\ place.at = at /\ g.recording = f.recording
      BY <1>1, <3>2 DEF Distinct
    <3>. QED BY <1>3, <1>4, <3>3
  <2>. QED BY <2>1, <2>2
<1>. QED BY <1>4, <1>5, Zenon DEF PlacesHeld

\* A file that is put on a release stays on it, as the others stay on theirs.
LEMMA PutStaysOn ==
  ASSUME NEW images, NEW files, NEW db, NEW k, NEW f, NEW e, Applies(images, files, db, k, f, e),
         AssemblyInv(images, files, db), NEW r, NEW at, Changed(images, files, db, k, f, r, at, e)
  PROVE  PutsKept(images, files, e)
<1>1. Received(db, f, r, at, e) /\ f = InFolder(files[k])
  BY Zenon DEF Changed, Applies
<1>2. /\ \A s \in DOMAIN db.releases : db.releases[s].tracks \subseteq e.releases[s].tracks
      /\ \A g : Candidates(db.releases, g) \subseteq Candidates(e.releases, g)
      /\ \A g : Candidates(db.releases, g) \subseteq DOMAIN db.releases
      /\ r \in Candidates(e.releases, f)
  <2>1. r \in Candidates(e.releases, f)
    BY <1>1, Zenon DEF Received
  <2>. QED BY <1>1, <2>1, StillThere
<1>3. /\ DOMAIN e.results = 1..k /\ DOMAIN db.results = 1..(k - 1) /\ k \in Nat \ {0}
      /\ e.results[k].release = r /\ e.results[k].at = at
      /\ \A i \in 1..(k - 1) : e.results[i] = db.results[i]
  BY Zenon DEF Changed
<1>4. StaysOn(images, e, f, e.results[k])
  <2>1. [at |-> at, recording |-> f.recording] \in e.releases[r].tracks
    BY PutHoldsPlaces
  <2>2. /\ e.places[f.path].release # 0
        /\ f.folder # "" /\ Cover(images[f.folder]) # 0 => e.covers[f.folder] = r
    BY Zenon DEF Changed
  <2>. QED BY <1>2, <1>3, <2>1, <2>2, Zenon DEF StaysOn
<1>5. ASSUME NEW i \in 1..(k - 1), NEW s, s = db.results[i].release, s # 0
      PROVE  StaysOn(images, e, InFolder(files[i]), db.results[i])
  <2>1. PICK g : g = InFolder(files[i])
    OBVIOUS
  <2>2. StaysOn(images, db, g, db.results[i])
    BY <1>3, <1>5, <2>1, Zenon DEF AssemblyInv, PutsKept
  <2>3. /\ s \in Candidates(db.releases, g)
        /\ [at |-> db.results[i].at, recording |-> g.recording] \in db.releases[s].tracks
        /\ db.places[g.path].release # 0
        /\ g.folder # "" /\ Cover(images[g.folder]) # 0 => db.covers[g.folder] = s
    BY <1>5, <2>2, Zenon DEF StaysOn
  <2>4. /\ s \in Candidates(e.releases, g)
        /\ [at |-> db.results[i].at, recording |-> g.recording] \in e.releases[s].tracks
    BY <1>2, <2>3
  <2>5. files[i] \in AudioFile /\ files[i] \in ToSet(files) /\ (files[i].folder # "" => files[i].folder \in DOMAIN images)
    <3>1. Sorted(images, files) /\ k \in DOMAIN files
      BY Zenon DEF Applies
    <3>2. files \in Seq(AudioFile)
      BY <3>1 DEF Sorted
    <3>3. i \in DOMAIN files
      BY <1>3, <3>1, <3>2
    <3>4. files[i] \in AudioFile /\ files[i] \in ToSet(files)
      BY <3>2, <3>3 DEF ToSet
    <3>5. files[i].folder # "" => files[i].folder \in DOMAIN images
      BY <3>1, <3>3, Zenon DEF Sorted
    <3>. QED BY <3>4, <3>5
  <2>6. g.path \in PathsOf(files) /\ (g.folder # "" => g.folder \in DOMAIN images)
    <3>1. g.path = files[i].path /\ g.folder = files[i].folder
      BY <2>1, <2>5, FolderSpeaks
    <3>. QED BY <2>5, <3>1 DEF PathsOf
  <2>7. e.places[g.path].release # 0
    BY <2>3, <2>6, Zenon DEF Changed
  <2>8. ASSUME g.folder # "", Cover(images[g.folder]) # 0 PROVE e.covers[g.folder] = s
    <3>1. db.covers[g.folder] = s
      BY <2>3, <2>8
    <3>2. CASE g.folder = f.folder
      <4>1. e.covers[f.folder] = r /\ db.covers[f.folder] \in {0, r}
        BY <2>8, <3>2, Zenon DEF Changed
      <4>. QED BY <1>5, <3>1, <3>2, <4>1
    <3>3. CASE g.folder # f.folder
      <4>1. g.folder \in DOMAIN images \ {f.folder}
        BY <2>6, <2>8, <3>3
      <4>. QED BY <3>1, <4>1, Zenon DEF Changed
    <3>. QED BY <3>2, <3>3
  <2>. QED BY <1>5, <2>1, <2>4, <2>7, <2>8, Zenon DEF StaysOn
<1>6. ASSUME NEW i \in DOMAIN e.results, e.results[i].release # 0
      PROVE  StaysOn(images, e, InFolder(files[i]), e.results[i])
  <2>1. i = k \/ i \in 1..(k - 1)
    BY <1>3
  <2>2. CASE i = k
    BY <1>1, <1>4, <2>2
  <2>3. CASE i \in 1..(k - 1)
    <3>1. e.results[i] = db.results[i]
      BY <1>3, <2>3
    <3>. QED BY <1>5, <1>6, <2>3, <3>1
  <2>. QED BY <2>1, <2>2, <2>3
<1>. QED BY <1>6, Zenon DEF PutsKept

\* A file is put on the release of those that say the same of their album.
LEMMA PutAlike ==
  ASSUME NEW images, NEW files, NEW db, NEW k, NEW f, NEW e, Applies(images, files, db, k, f, e),
         AssemblyInv(images, files, db), NEW r, NEW at, Changed(images, files, db, k, f, r, at, e)
  PROVE  AlikeKept(files, e)
<1>1. f = InFolder(files[k]) /\ Candidates(db.releases, f) \subseteq {r}
  BY Zenon DEF Changed, Applies, Received
<1>2. /\ DOMAIN e.results = 1..k /\ DOMAIN db.results = 1..(k - 1) /\ k \in Nat \ {0}
      /\ e.results[k].release = r /\ \A i \in 1..(k - 1) : e.results[i] = db.results[i]
  BY Zenon DEF Changed
<1>3. ASSUME NEW i \in 1..(k - 1), db.results[i].release # 0, SameAlbum(InFolder(files[i]), f)
      PROVE  db.results[i].release = r
  <2>1. db.results[i].release \in Candidates(db.releases, InFolder(files[i]))
    BY <1>2, <1>3, Zenon DEF AssemblyInv, PutsKept, StaysOn
  <2>2. Candidates(db.releases, InFolder(files[i])) = Candidates(db.releases, f)
    BY <1>3, Zenon DEF SameAlbum, Candidates
  <2>. QED BY <1>1, <2>1, <2>2
<1>4. \A g, h : SameAlbum(g, h) => SameAlbum(h, g)
  BY Zenon DEF SameAlbum
<1>5. ASSUME NEW i \in DOMAIN e.results, NEW j \in DOMAIN e.results, NEW u, NEW v,
             u = e.results[i].release, v = e.results[j].release, u # 0, v # 0,
             SameAlbum(InFolder(files[i]), InFolder(files[j]))
      PROVE  u = v
  <2>1. (i = k \/ i \in 1..(k - 1)) /\ (j = k \/ j \in 1..(k - 1))
    BY <1>2
  <2>2. CASE i = k /\ j = k
    BY <1>5, <2>2
  <2>3. CASE i \in 1..(k - 1) /\ j \in 1..(k - 1)
    <3>1. u = db.results[i].release /\ v = db.results[j].release
      BY <1>2, <1>5, <2>3
    <3>. QED BY <1>2, <1>5, <2>3, <3>1, Zenon DEF AssemblyInv, AlikeKept, OnOne
  <2>4. CASE i \in 1..(k - 1) /\ j = k
    BY <1>1, <1>2, <1>3, <1>5, <2>4
  <2>5. CASE i = k /\ j \in 1..(k - 1)
    <3>1. SameAlbum(InFolder(files[j]), f)
      BY <1>1, <1>4, <1>5, <2>5
    <3>. QED BY <1>2, <1>3, <1>5, <2>5, <3>1
  <2>. QED BY <2>1, <2>2, <2>3, <2>4, <2>5
<1>6. ASSUME NEW i \in DOMAIN e.results, NEW j \in DOMAIN e.results
      PROVE  OnOne(InFolder(files[i]), InFolder(files[j]), e.results[i].release, e.results[j].release)
  BY <1>5 DEF OnOne
<1>. QED BY <1>6, Zenon DEF AlikeKept

\* What is true of the files of a batch stays true when one more is applied.
LEMMA AssemblyKept ==
  ASSUME NEW images, NEW files, NEW db, NEW k, NEW f, NEW e, Applies(images, files, db, k, f, e),
         AssemblyInv(images, files, db)
  PROVE  AssemblyInv(images, files, e)
<1>1. PICK r : r = ReleaseOf(db.releases, f)
  OBVIOUS
<1>2. CASE Refuses(db, f) \/ r = 0
  <2>1. Apart(db, e)
    BY <1>1, <1>2, FileKnown, FileApplied DEF Applies
  <2>. QED BY <2>1, ApartKeeps
<1>3. CASE ~Refuses(db, f) /\ r # 0
  <2>1. PICK at : Changed(images, files, db, k, f, r, at, e)
    BY <1>1, <1>3, PutChanges
  <2>. QED BY <2>1, PutHoldsPlaces, PutStaysOn, PutAlike, Zenon DEF AssemblyInv
<1>. QED BY <1>2, <1>3

-----------------------------------------------------------------------------
(* Tidy folders.                                                           *)

\* A file was put on a release of its folder.
InAlbum(files, db, i) ==
  LET r == db.results[i].release
  IN  r \in DOMAIN db.releases /\ db.releases[r].signature = Signature(InFolder(files[i]))

\* A place on a release is that of a file of its folder.
FileOf(files, db, release, t, i) ==
  LET f == InFolder(files[i])
  IN  release.signature = Signature(f) /\ t.at = Place({}, f) /\ t.recording = f.recording

\* Folders that are tidy make releases of their own, when nothing was there before.
TidyInv(images, files, db) ==
  /\ \A i \in DOMAIN db.results : InAlbum(files, db, i)
  /\ \A r \in DOMAIN db.releases : \E i \in DOMAIN db.results : AlbumOf(db.releases[r], InFolder(files[i]))
  /\ \A r, s \in DOMAIN db.releases : db.releases[r].signature = db.releases[s].signature => r = s
  /\ \A r \in DOMAIN db.releases : \A t \in db.releases[r].tracks :
       \E i \in DOMAIN db.results : FileOf(files, db, db.releases[r], t, i)
  /\ \A folder \in DOMAIN images :
       LET c == db.covers[folder]
       IN  c # 0 => c \in DOMAIN db.releases /\ db.releases[c].signature = <<folder>>

\* What two files of tidy folders say.
TidyPair(f, g) ==
  /\ f.folder # "" /\ f.barcode # "odd" /\ f.track # 0
  /\ f.folder = g.folder => /\ f.album = g.album /\ f.barcode = g.barcode /\ f.catalogue = g.catalogue
                            /\ Place({}, f) = Place({}, g) => f.recording = g.recording
  /\ f.folder # g.folder => /\ f.barcode = g.barcode => f.barcode = ""
                            /\ f.album = g.album /\ f.catalogue = g.catalogue => f.catalogue = ""

\* A file with a track number has one place, whatever else is on the release.
LEMMA PlaceNumbered ==
  ASSUME NEW tracks, NEW f, f.track # 0
  PROVE  Place(tracks, f) = Place({}, f)
<1>1. PICK at : at = IF f.disc = 0 THEN f.track ELSE (f.disc - 1) * 1000 + f.track
  OBVIOUS
<1>2. ASSUME NEW list PROVE Place(list, f) = at
  <2>1. Place(list, f) = IF f.disc = 0 THEN f.track ELSE (f.disc - 1) * 1000 + f.track
    BY Zenon DEF Place
  <2>. QED BY <1>1, <2>1
<1>. QED BY <1>2

\* Any two files of a tidy batch agree within a folder and differ between folders.
LEMMA TidyTells ==
  ASSUME NEW files, Tidy(files), NEW i \in DOMAIN files, NEW j \in DOMAIN files
  PROVE  TidyPair(InFolder(files[i]), InFolder(files[j]))
BY Zenon DEF Tidy, TidyPair

\* Signatures of folders are those of one folder.
LEMMA FolderSigned ==
  ASSUME NEW f \in AudioFile, NEW g \in AudioFile, f.folder # "", g.folder # ""
  PROVE  /\ Signature(f) = <<f.folder>> /\ Signature(f) # <<>>
         /\ Signature(f) = Signature(g) <=> f.folder = g.folder
<1>1. Signature(f) = <<f.folder>> /\ Signature(g) = <<g.folder>> /\ Signature(f) # <<>>
  BY SignatureTyped
<1>2. <<f.folder>>[1] = f.folder /\ <<g.folder>>[1] = g.folder
  OBVIOUS
<1>. QED BY <1>1, <1>2

\* The files of a batch that were applied are of it.
LEMMA AppliedAreOfIt ==
  ASSUME NEW images, NEW files, NEW db, NEW k, NEW f, NEW e, Applies(images, files, db, k, f, e)
  PROVE  /\ k \in DOMAIN files /\ k \in Nat \ {0} /\ DOMAIN db.results = 1..(k - 1)
         /\ \A i \in DOMAIN db.results : /\ i \in DOMAIN files /\ files[i] \in AudioFile
                                         /\ InFolder(files[i]) \in AudioFile
<1>1. files \in Seq(AudioFile) /\ k \in DOMAIN files /\ k = Len(db.results) + 1
  BY DEF Applies, Sorted
<1>2. db.results \in Seq(Result)
  BY FileKnown
<1>3. k \in Nat \ {0} /\ DOMAIN db.results = 1..(k - 1)
  BY <1>1, <1>2
<1>4. \A i \in DOMAIN db.results : i \in DOMAIN files /\ files[i] \in AudioFile
  BY <1>1, <1>3
<1>. QED BY <1>1, <1>3, <1>4, FolderSpeaks

\* A file of a tidy folder finds the release of its folder, or none.
LEMMA TidyFinds ==
  ASSUME NEW images, NEW files, NEW db, NEW k, NEW f, NEW e, Applies(images, files, db, k, f, e),
         Tidy(files), TidyInv(images, files, db)
  PROVE  \A c \in Candidates(db.releases, f) : db.releases[c].signature = Signature(f)
<1>. SUFFICES ASSUME NEW c \in Candidates(db.releases, f) PROVE db.releases[c].signature = Signature(f)
  OBVIOUS
<1>1. c \in DOMAIN db.releases
  BY Zenon DEF Candidates
<1>2. PICK i \in DOMAIN db.results : AlbumOf(db.releases[c], InFolder(files[i]))
  BY <1>1, Zenon DEF TidyInv
<1>3. PICK g : g = InFolder(files[i])
  OBVIOUS
<1>4. k \in DOMAIN files /\ i \in DOMAIN files /\ g \in AudioFile /\ f \in AudioFile /\ f = InFolder(files[k])
  <2>1. f = InFolder(files[k])
    BY Zenon DEF Applies
  <2>. QED BY <1>3, <2>1, AppliedAreOfIt, FileKnown
<1>5. TidyPair(f, g) /\ TidyPair(g, f)
  BY <1>3, <1>4, TidyTells
<1>6. /\ db.releases[c].title = g.album /\ db.releases[c].catalogue = g.catalogue
      /\ db.releases[c].barcode = g.barcode /\ db.releases[c].signature = Signature(g)
  BY <1>2, <1>3, Zenon DEF AlbumOf
<1>7. CASE f.folder = g.folder
  <2>1. f.folder # "" /\ g.folder # ""
    BY <1>5, Zenon DEF TidyPair
  <2>. QED BY <1>4, <1>6, <1>7, <2>1, FolderSigned
<1>8. CASE f.folder # g.folder
  BY <1>5, <1>6, <1>8, Zenon DEF Candidates, TidyPair
<1>. QED BY <1>7, <1>8

\* A file of a tidy folder is put on a release: there is no other candidate, its folder's
\* picture is the cover of no other release, and nothing else is at its place.
LEMMA TidyPut ==
  ASSUME NEW images, NEW files, NEW db, NEW k, NEW f, NEW e, Applies(images, files, db, k, f, e),
         Tidy(files), TidyInv(images, files, db), NEW r, r = ReleaseOf(db.releases, f)
  PROVE  r # 0 /\ ~Refuses(db, f)
<1>1. /\ f \in AudioFile /\ db.releases \in ReleaseList /\ db.images = images /\ files[k] \in AudioFile
      /\ Located(f, images, PathsOf(files)) /\ k \in DOMAIN files
  BY FileKnown, AppliedAreOfIt
<1>2. f = InFolder(files[k])
  BY Zenon DEF Applies
<1>3. f.folder # "" /\ f.barcode # "odd" /\ f.track # 0
  <2>1. TidyPair(f, f)
    BY <1>1, <1>2, TidyTells
  <2>. QED BY <2>1, Zenon DEF TidyPair
<1>4. f.album # ""
  BY <1>1, <1>2, <1>3, FolderSpeaks
<1>5. PICK C : C = Candidates(db.releases, f)
  OBVIOUS
<1>6. \A c, d \in C : c = d
  <2>1. \A c \in C : c \in DOMAIN db.releases /\ db.releases[c].signature = Signature(f)
    <3>1. \A c \in C : c \in DOMAIN db.releases
      BY <1>5, Zenon DEF Candidates
    <3>2. \A c \in C : db.releases[c].signature = Signature(f)
      BY <1>5, TidyFinds
    <3>. QED BY <3>1, <3>2
  <2>. QED BY <2>1, Zenon DEF TidyInv
<1>7. C = {} \/ \E c : C = {c}
  BY <1>6
<1>8. C = {} => Cardinality(C) = 0
  BY FS_EmptySet
<1>9. (\E c : C = {c}) => Cardinality(C) = 1
  BY FS_Singleton
<1>10. Signature(f) # <<>>
  BY <1>1, <1>3, SignatureTyped
<1>11. Sufficient(f)
  BY <1>4, <1>10, Zenon DEF Sufficient
<1>12. ~Unresolvable(db.releases, f)
  <2>1. Cardinality(C) \in {0, 1}
    BY <1>7, <1>8, <1>9
  <2>2. ~(Cardinality(C) > 1)
    BY <2>1
  <2>. QED BY <1>3, <1>5, <2>2, Zenon DEF Unresolvable
<1>13. db.releases \in Seq(Release)
  BY <1>1 DEF ReleaseList
<1>14. r # 0 /\ (r \notin C => C = {} /\ r \notin DOMAIN db.releases)
  <2>1. CASE \E c : C = {c}
    <3>1. Finds(db.releases, f)
      BY <1>4, <1>5, <1>9, <2>1, Zenon DEF Finds
    <3>2. r \in DOMAIN db.releases /\ C = {r}
      BY <1>5, <1>13, <3>1, OnlyCandidate
    <3>. QED BY <1>13, <3>2
  <2>2. CASE C = {}
    <3>1. Creates(db.releases, f) /\ ~Finds(db.releases, f)
      <4>1. Cardinality(C) # 1
        BY <1>8, <2>2
      <4>. QED BY <1>5, <1>11, <2>2, <4>1, Zenon DEF Creates, Finds
    <3>2. r = Len(db.releases) + 1
      BY <3>1, Zenon DEF ReleaseOf
    <3>. QED BY <1>13, <2>2, <3>2
  <2>. QED BY <1>7, <2>1, <2>2
<1>15. ~ForeignCover(db, f)
  <2>1. PICK c : c = db.covers[f.folder]
    OBVIOUS
  <2>2. ASSUME c # 0 PROVE c = r
    <3>1. f.folder \in DOMAIN images
      BY <1>1, <1>3 DEF Located
    <3>2. c \in DOMAIN db.releases /\ db.releases[c].signature = <<f.folder>>
      BY <2>1, <2>2, <3>1, Zenon DEF TidyInv
    <3>3. Signature(f) = <<f.folder>>
      BY <1>1, <1>3, SignatureTyped
    <3>4. c \in C
      BY <1>5, <1>10, <3>2, <3>3, Zenon DEF Candidates
    <3>. QED BY <1>6, <1>14, <3>4
  <2>. QED BY <2>1, <2>2 DEF ForeignCover
<1>16. ~Taken(db, f)
  <2>1. PICK new : new = Resolution(db.releases, f)
    OBVIOUS
  <2>2. /\ r \in DOMAIN db.releases => r \in Candidates(db.releases, f) /\ new[r].tracks = db.releases[r].tracks
        /\ r \notin DOMAIN db.releases => new[r].tracks = {}
    BY <1>1, <1>12, <1>14, <2>1, FoundOrCreated
  <2>3. ASSUME NEW t \in new[r].tracks, t.at = Place(new[r].tracks, f) PROVE t.recording = f.recording
    <3>1. r \in DOMAIN db.releases /\ t \in db.releases[r].tracks /\ db.releases[r].signature = Signature(f)
      BY <2>2, <2>3, TidyFinds
    <3>2. PICK i \in DOMAIN db.results : FileOf(files, db, db.releases[r], t, i)
      BY <3>1, Zenon DEF TidyInv
    <3>3. PICK g : g = InFolder(files[i])
      OBVIOUS
    <3>4. i \in DOMAIN files /\ g \in AudioFile
      BY <3>3, AppliedAreOfIt
    <3>5. db.releases[r].signature = Signature(g) /\ t.at = Place({}, g) /\ t.recording = g.recording
      BY <3>2, <3>3, Zenon DEF FileOf
    <3>6. TidyPair(f, g) /\ TidyPair(g, f)
      BY <1>1, <1>2, <3>3, <3>4, TidyTells
    <3>7. f.folder # "" /\ g.folder # ""
      BY <3>6, Zenon DEF TidyPair
    <3>8. f.folder = g.folder
      BY <1>1, <3>1, <3>4, <3>5, <3>7, FolderSigned
    <3>9. Place(new[r].tracks, f) = Place({}, f)
      BY <1>3, PlaceNumbered
    <3>. QED BY <2>3, <3>5, <3>6, <3>8, <3>9, Zenon DEF TidyPair
  <2>. QED BY <2>1, <2>3, Zenon DEF Taken
<1>. QED BY <1>12, <1>14, <1>15, <1>16, Zenon DEF Refuses

\* The releases keep their signatures, and the file's is that of its folder.
Signed(db, f, r, e) ==
  /\ \A s \in DOMAIN db.releases : /\ s \in DOMAIN e.releases
                                   /\ e.releases[s].signature = db.releases[s].signature
                                   /\ \A g : AlbumOf(db.releases[s], g) => AlbumOf(e.releases[s], g)
  /\ e.releases[r].signature = Signature(f)
  /\ DOMAIN e.releases = DOMAIN db.releases \cup {r}

\* In a tidy batch a file leaves every release its signature, and its own release gets the
\* signature of its album.
LEMMA TidySigned ==
  ASSUME NEW images, NEW files, NEW db, NEW k, NEW f, NEW e, Applies(images, files, db, k, f, e),
         Tidy(files), TidyInv(images, files, db), NEW r, NEW at, Received(db, f, r, at, e)
  PROVE  Signed(db, f, r, e)
<1>1. ASSUME NEW s \in DOMAIN db.releases PROVE db.releases[s].signature # <<>>
  <2>1. PICK i \in DOMAIN db.results : AlbumOf(db.releases[s], InFolder(files[i]))
    BY <1>1, Zenon DEF TidyInv
  <2>2. PICK g : g = InFolder(files[i])
    OBVIOUS
  <2>3. i \in DOMAIN files /\ g \in AudioFile
    BY <2>2, AppliedAreOfIt
  <2>4. TidyPair(g, g)
    BY <2>2, <2>3, TidyTells
  <2>5. g.folder # ""
    BY <2>4, Zenon DEF TidyPair
  <2>6. Signature(g) # <<>>
    BY <2>3, <2>5, SignatureTyped
  <2>. QED BY <2>1, <2>2, <2>6, Zenon DEF AlbumOf
<1>2. Grows(db.releases, e.releases)
  BY Zenon DEF Received
<1>3. ASSUME NEW s \in DOMAIN db.releases
      PROVE  /\ s \in DOMAIN e.releases /\ e.releases[s].signature = db.releases[s].signature
             /\ \A g : AlbumOf(db.releases[s], g) => AlbumOf(e.releases[s], g)
  <2>1. /\ s \in DOMAIN e.releases /\ e.releases[s].signature = db.releases[s].signature
        /\ e.releases[s].title = db.releases[s].title /\ e.releases[s].catalogue = db.releases[s].catalogue
        /\ e.releases[s].barcode = db.releases[s].barcode
    BY <1>1, <1>2, <1>3, Zenon DEF Grows
  <2>. QED BY <2>1, Zenon DEF AlbumOf
<1>4. e.releases[r].signature = Signature(f)
  <2>1. CASE r \in DOMAIN db.releases
    <3>1. r \in Candidates(db.releases, f)
      BY <2>1, Zenon DEF Received
    <3>2. db.releases[r].signature = Signature(f)
      BY <3>1, TidyFinds
    <3>. QED BY <1>3, <2>1, <3>2
  <2>2. CASE r \notin DOMAIN db.releases
    BY <2>2, Zenon DEF Received, AlbumOf
  <2>. QED BY <2>1, <2>2
<1>5. DOMAIN e.releases = DOMAIN db.releases \cup {r}
  <2>1. r \in DOMAIN e.releases /\ \A s \in DOMAIN e.releases \ {r} : s \in DOMAIN db.releases
    BY Zenon DEF Received
  <2>2. DOMAIN db.releases \subseteq DOMAIN e.releases
    BY <1>3
  <2>. QED BY <2>1, <2>2
<1>. QED BY <1>3, <1>4, <1>5, Zenon DEF Signed

\* A file of a tidy folder takes the place its tags say.
LEMMA TidyPlace ==
  ASSUME NEW images, NEW files, NEW db, NEW k, NEW f, NEW e, Applies(images, files, db, k, f, e),
         AssemblyInv(images, files, db), Tidy(files), TidyInv(images, files, db),
         NEW r, r = ReleaseOf(db.releases, f), NEW at, PutOn(db, f, at, e),
         Changed(images, files, db, k, f, r, at, e)
  PROVE  \A s \in DOMAIN e.releases : \A t \in e.releases[s].tracks :
           \E i \in DOMAIN e.results : FileOf(files, e, e.releases[s], t, i)
<1>1. /\ DOMAIN e.results = 1..k /\ DOMAIN db.results = 1..(k - 1) /\ k \in Nat \ {0}
      /\ Received(db, f, r, at, e) /\ r # 0 /\ f = InFolder(files[k])
  BY Zenon DEF Changed, Applies
<1>2. /\ \A s \in DOMAIN db.releases : e.releases[s].signature = db.releases[s].signature
      /\ e.releases[r].signature = Signature(f)
      /\ DOMAIN e.releases = DOMAIN db.releases \cup {r}
  <2>1. Signed(db, f, r, e)
    BY <1>1, TidySigned
  <2>. QED BY <2>1, Zenon DEF Signed
<1>3. ASSUME NEW s \in DOMAIN db.releases, NEW t \in db.releases[s].tracks
      PROVE  \E i \in DOMAIN e.results : FileOf(files, e, e.releases[s], t, i)
  <2>1. PICK i \in DOMAIN db.results : FileOf(files, db, db.releases[s], t, i)
    BY <1>3, Zenon DEF TidyInv
  <2>2. i \in DOMAIN e.results
    BY <1>1
  <2>3. FileOf(files, e, e.releases[s], t, i)
    BY <1>2, <2>1, Zenon DEF FileOf
  <2>. QED BY <2>2, <2>3
<1>4. ASSUME NEW t, t = [at |-> at, recording |-> f.recording], r \notin DOMAIN db.releases \/ t \notin db.releases[r].tracks
      PROVE  \E i \in DOMAIN e.results : FileOf(files, e, e.releases[r], t, i)
  <2>1. ~Settled(db, f)
    <3>. SUFFICES ASSUME Settled(db, f) PROVE FALSE
      OBVIOUS
    <3>1. db.places[f.path].release = r /\ db.places[f.path].at = at
      BY Zenon DEF Changed
    <3>2. files[k] \in ToSet(files) /\ files[k].path = f.path /\ files[k].recording = f.recording
      BY FileKnown
    <3>3. r \in DOMAIN db.releases /\ [at |-> at, recording |-> f.recording] \in db.releases[r].tracks
      BY <1>1, <3>1, <3>2, Zenon DEF AssemblyInv, PlacesHeld
    <3>. QED BY <1>4, <3>3
  <2>2. at = Place(Resolution(db.releases, f)[r].tracks, f)
    BY <2>1, Zenon DEF PutOn
  <2>3. f.track # 0
    <3>1. TidyPair(f, f)
      BY <1>1, AppliedAreOfIt, TidyTells
    <3>. QED BY <3>1, Zenon DEF TidyPair
  <2>4. t.at = Place({}, f) /\ t.recording = f.recording
    <3>1. at = Place({}, f)
      BY <2>2, <2>3, PlaceNumbered
    <3>. QED BY <1>4, <3>1
  <2>5. FileOf(files, e, e.releases[r], t, k)
    BY <1>1, <1>2, <2>4, Zenon DEF FileOf
  <2>6. k \in DOMAIN e.results
    BY <1>1
  <2>. QED BY <2>5, <2>6
<1>5. ASSUME NEW s \in DOMAIN e.releases, NEW t \in e.releases[s].tracks
      PROVE  \E i \in DOMAIN e.results : FileOf(files, e, e.releases[s], t, i)
  <2>1. CASE s # r
    <3>1. s \in DOMAIN db.releases /\ e.releases[s] = db.releases[s]
      BY <1>1, <1>5, <2>1, Zenon DEF Received
    <3>2. t \in db.releases[s].tracks
      BY <1>5, <3>1
    <3>. QED BY <1>3, <3>1, <3>2
  <2>2. CASE s = r
    <3>1. \/ r \in DOMAIN db.releases /\ t \in db.releases[r].tracks
          \/ t = [at |-> at, recording |-> f.recording]
      BY <1>1, <1>5, <2>2, Zenon DEF Received
    <3>2. CASE r \in DOMAIN db.releases /\ t \in db.releases[r].tracks
      BY <1>3, <2>2, <3>2
    <3>3. CASE ~(r \in DOMAIN db.releases /\ t \in db.releases[r].tracks)
      BY <1>4, <2>2, <3>1, <3>3
    <3>. QED BY <3>2, <3>3
  <2>. QED BY <2>1, <2>2
<1>. QED BY <1>5

\* Tidy folders are imported whole, each on a release of its own.
LEMMA TidyKept ==
  ASSUME NEW images, NEW files, NEW db, NEW k, NEW f, NEW e, Applies(images, files, db, k, f, e),
         AssemblyInv(images, files, db), Tidy(files), TidyInv(images, files, db)
  PROVE  TidyInv(images, files, e)
<1>1. PICK r : r = ReleaseOf(db.releases, f)
  OBVIOUS
<1>2. r # 0 /\ ~Refuses(db, f)
  BY <1>1, TidyPut
<1>3. PICK at : PutOn(db, f, at, e) /\ Changed(images, files, db, k, f, r, at, e)
  BY <1>1, <1>2, PutChanges
<1>4. /\ DOMAIN e.results = 1..k /\ DOMAIN db.results = 1..(k - 1) /\ k \in Nat \ {0}
      /\ e.results[k].release = r /\ \A i \in 1..(k - 1) : e.results[i] = db.results[i]
      /\ Received(db, f, r, at, e) /\ f = InFolder(files[k])
  BY <1>3, Zenon DEF Changed, Applies
<1>5. /\ \A s \in DOMAIN db.releases : /\ s \in DOMAIN e.releases
                                       /\ e.releases[s].signature = db.releases[s].signature
                                       /\ \A g : AlbumOf(db.releases[s], g) => AlbumOf(e.releases[s], g)
      /\ e.releases[r].signature = Signature(f)
      /\ DOMAIN e.releases = DOMAIN db.releases \cup {r}
  <2>1. Signed(db, f, r, e)
    BY <1>4, TidySigned
  <2>. QED BY <2>1, Zenon DEF Signed
<1>6. ASSUME NEW i \in DOMAIN e.results PROVE InAlbum(files, e, i)
  <2>1. CASE i = k
    BY <1>4, <1>5, <2>1 DEF InAlbum
  <2>2. CASE i # k
    <3>1. i \in DOMAIN db.results /\ e.results[i] = db.results[i]
      BY <1>4, <2>2
    <3>2. InAlbum(files, db, i)
      BY <3>1, Zenon DEF TidyInv
    <3>. QED BY <1>5, <3>1, <3>2 DEF InAlbum
  <2>. QED BY <2>1, <2>2
<1>7. ASSUME NEW s \in DOMAIN e.releases PROVE \E i \in DOMAIN e.results : AlbumOf(e.releases[s], InFolder(files[i]))
  <2>1. CASE s \in DOMAIN db.releases
    <3>1. PICK i \in DOMAIN db.results : AlbumOf(db.releases[s], InFolder(files[i]))
      BY <2>1, Zenon DEF TidyInv
    <3>2. i \in DOMAIN e.results
      BY <1>4
    <3>. QED BY <1>5, <2>1, <3>1, <3>2
  <2>2. CASE s \notin DOMAIN db.releases
    <3>1. s = r
      BY <1>5, <2>2
    <3>2. AlbumOf(e.releases[r], f) /\ k \in DOMAIN e.results
      BY <1>4, <2>2, <3>1 DEF Received
    <3>. QED BY <1>4, <3>1, <3>2
  <2>. QED BY <2>1, <2>2
<1>8. ASSUME NEW s \in DOMAIN e.releases, NEW t \in DOMAIN e.releases, e.releases[s].signature = e.releases[t].signature
      PROVE  s = t
  <2>1. /\ f \in AudioFile /\ f.folder # ""
    <3>1. TidyPair(f, f) /\ f \in AudioFile
      BY <1>4, FileKnown, AppliedAreOfIt, TidyTells
    <3>. QED BY <3>1, Zenon DEF TidyPair
  <2>2. Signature(f) # <<>>
    BY <2>1, SignatureTyped
  <2>3. ASSUME NEW u \in DOMAIN db.releases, e.releases[u].signature = Signature(f) PROVE u = r
    <3>1. db.releases[u].signature = Signature(f)
      BY <1>5, <2>3
    <3>2. u \in Candidates(db.releases, f)
      BY <2>2, <3>1, Zenon DEF Candidates
    <3>. QED BY <1>4, <3>2, Zenon DEF Received
  <2>4. CASE s \in DOMAIN db.releases /\ t \in DOMAIN db.releases
    <3>1. db.releases[s].signature = db.releases[t].signature
      BY <1>5, <1>8, <2>4
    <3>. QED BY <2>4, <3>1, Zenon DEF TidyInv
  <2>5. CASE s \notin DOMAIN db.releases \/ t \notin DOMAIN db.releases
    BY <1>5, <1>8, <2>3, <2>5
  <2>. QED BY <2>4, <2>5
<1>9. \A s \in DOMAIN e.releases : \A t \in e.releases[s].tracks :
        \E i \in DOMAIN e.results : FileOf(files, e, e.releases[s], t, i)
  BY <1>1, <1>3, TidyPlace
<1>10. ASSUME NEW folder \in DOMAIN images, NEW c, c = e.covers[folder], c # 0
       PROVE  c \in DOMAIN e.releases /\ e.releases[c].signature = <<folder>>
  <2>1. CASE c = db.covers[folder]
    <3>1. c \in DOMAIN db.releases /\ db.releases[c].signature = <<folder>>
      BY <1>10, <2>1, Zenon DEF TidyInv
    <3>. QED BY <1>5, <3>1
  <2>2. CASE c # db.covers[folder]
    <3>1. folder = f.folder /\ c = r
      BY <1>3, <1>10, <2>2 DEF Changed
    <3>2. Signature(f) = <<f.folder>>
      <4>1. TidyPair(f, f) /\ f \in AudioFile
        BY <1>4, FileKnown, AppliedAreOfIt, TidyTells
      <4>2. f.folder # ""
        BY <4>1, Zenon DEF TidyPair
      <4>. QED BY <4>1, <4>2, SignatureTyped
    <3>. QED BY <1>5, <3>1, <3>2
  <2>. QED BY <2>1, <2>2
<1>. QED BY <1>6, <1>7, <1>8, <1>9, <1>10, Zenon DEF TidyInv

\* Before a batch is imported nothing of it is.
LEMMA NothingApplied ==
  ASSUME NEW releases \in ReleaseList, NEW images, NEW files, Sorted(images, files),
         NEW db, db = Unassembled(releases, images, files)
  PROVE  /\ Len(db.results) = 0 /\ AssemblyInv(images, files, db)
         /\ Len(releases) = 0 => TidyInv(images, files, db)
<1>1. /\ db.releases = releases /\ db.results = <<>>
      /\ db.covers = [folder \in DOMAIN images |-> 0]
      /\ db.places = [p \in PathsOf(files) |-> [release |-> 0, at |-> 0]]
  BY DEF Unassembled, PathsOf
<1>2. DOMAIN db.results = {} /\ Len(db.results) = 0
  BY <1>1
<1>3. PlacesHeld(files, db)
  <2>1. \A h \in ToSet(files) : db.places[h.path].release = 0
    BY <1>1 DEF PathsOf
  <2>. QED BY <2>1, Zenon DEF PlacesHeld
<1>4. PutsKept(images, files, db) /\ AlikeKept(files, db)
  BY <1>2, Zenon DEF PutsKept, AlikeKept
<1>5. ASSUME Len(releases) = 0 PROVE TidyInv(images, files, db)
  <2>1. DOMAIN db.releases = {}
    BY <1>1, <1>5 DEF ReleaseList
  <2>2. \A folder \in DOMAIN images : db.covers[folder] = 0
    BY <1>1
  <2>. QED BY <1>2, <2>1, <2>2, Zenon DEF TidyInv
<1>. QED BY <1>2, <1>3, <1>4, <1>5 DEF AssemblyInv

\* Each file adds a result.
LEMMA CountedUp ==
  ASSUME NEW images, NEW files, NEW db, NEW k, NEW f, NEW e, Applies(images, files, db, k, f, e)
  PROVE  Len(e.results) = k
<1>1. PICK r : r = ReleaseOf(db.releases, f)
  OBVIOUS
<1>2. /\ db \in Catalogue(images, PathsOf(files)) /\ k = Len(db.results) + 1 /\ f = InFolder(files[k])
      /\ e = Assembled(db, files[k]) /\ files[k] \in AudioFile /\ Located(f, images, PathsOf(files))
  BY FileKnown DEF Applies
<1>3. PICK n \in Nat : n = Len(db.results)
  BY FileKnown
<1>4. CASE Refuses(db, f) \/ r = 0
  <2>1. Apart(db, e)
    BY <1>1, <1>2, <1>4, FileApplied
  <2>2. PICK result \in Result : e = [db EXCEPT !.results = Append(@, result)]
    BY <2>1 DEF Apart
  <2>3. e.results = Append(db.results, result) /\ db.results \in Seq(Result)
    BY <1>2, <2>2 DEF Catalogue
  <2>. QED BY <1>2, <1>3, <2>3
<1>5. CASE ~Refuses(db, f) /\ r # 0
  <2>1. PICK at : Changed(images, files, db, k, f, r, at, e)
    BY <1>1, <1>5, PutChanges
  <2>2. DOMAIN e.results = 1..k /\ k \in Nat
    BY <2>1 DEF Changed
  <2>3. e.results \in Seq(Result)
    <3>1. e \in Catalogue(images, PathsOf(files))
      BY <1>2, CatalogueKept
    <3>. QED BY <3>1 DEF Catalogue
  <2>. QED BY <2>2, <2>3
<1>. QED BY <1>4, <1>5

\* All files of a batch have been applied.
Finished(releases, images, files, after) ==
  /\ after \in Catalogue(images, PathsOf(files)) /\ Len(after.results) = Len(files)
  /\ AssemblyInv(images, files, after)
  /\ Len(releases) = 0 /\ Tidy(files) => TidyInv(images, files, after)

\* A batch that is imported has applied each of its files, in their order.
LEMMA BatchFinished ==
  ASSUME NEW releases \in ReleaseList, NEW images, NEW files, Sorted(images, files), Distinct(files)
  PROVE  Finished(releases, images, files, Imported(releases, images, files))
<1>1. PICK g : AppliedInTurn(releases, images, files, g)
  BY BatchApplied
<1>2. PICK m \in Nat : m = Len(files) /\ DOMAIN files = 1..m
  <2>1. files \in Seq(AudioFile)
    BY DEF Sorted
  <2>. QED BY <2>1
<1>3. /\ \A k \in 0..m : g[k] \in Catalogue(images, PathsOf(files))
      /\ g[0] = Unassembled(releases, images, files) /\ g[m] = Imported(releases, images, files)
      /\ \A k \in 1..m : g[k] = Assembled(g[k - 1], files[k])
  BY <1>1, <1>2 DEF AppliedInTurn
<1>4. PICK P : P = (Len(releases) = 0 /\ Tidy(files))
  OBVIOUS
<1>5. PICK K : K = {k \in 0..m : /\ Len(g[k].results) = k /\ AssemblyInv(images, files, g[k])
                                 /\ P => TidyInv(images, files, g[k])}
  OBVIOUS
<1>6. 0 \in K
  <2>1. 0 \in 0..m
    OBVIOUS
  <2>2. /\ Len(g[0].results) = 0 /\ AssemblyInv(images, files, g[0])
        /\ Len(releases) = 0 => TidyInv(images, files, g[0])
    BY <1>3, NothingApplied
  <2>. QED BY <1>4, <1>5, <2>1, <2>2
<1>7. ASSUME NEW k \in 0..m, k \in K, k < m PROVE k + 1 \in K
  <2>1. k + 1 \in 1..m /\ k + 1 \in 0..m /\ (k + 1) - 1 = k
    BY <1>7
  <2>2. /\ Len(g[k].results) = k /\ AssemblyInv(images, files, g[k])
        /\ P => TidyInv(images, files, g[k])
    BY <1>5, <1>7
  <2>3. g[k + 1] = Assembled(g[k], files[k + 1]) /\ g[k] \in Catalogue(images, PathsOf(files))
    BY <1>3, <2>1
  <2>4. Applies(images, files, g[k], k + 1, InFolder(files[k + 1]), g[k + 1])
    BY <1>2, <2>1, <2>2, <2>3, Zenon DEF Applies
  <2>5. Len(g[k + 1].results) = k + 1
    BY <2>4, CountedUp
  <2>6. AssemblyInv(images, files, g[k + 1])
    BY <2>2, <2>4, AssemblyKept
  <2>7. ASSUME P PROVE TidyInv(images, files, g[k + 1])
    <3>1. Tidy(files) /\ TidyInv(images, files, g[k])
      BY <1>4, <2>2, <2>7
    <3>. QED BY <2>2, <2>4, <3>1, TidyKept
  <2>. QED BY <1>5, <2>1, <2>5, <2>6, <2>7
<1>8. m \in K
  BY <1>6, <1>7, UpTo
<1>. QED BY <1>2, <1>3, <1>4, <1>5, <1>8 DEF Finished

\* What is imported of a batch is put together as its folders and tags say.
LEMMA BatchAssembled ==
  ASSUME NEW b, b.releases \in ReleaseList, Sorted(b.images, b.files), Distinct(b.files),
         NEW after, after = Imported(b.releases, b.images, b.files)
  PROVE  Assembly(b, after)
<1>1. Finished(b.releases, b.images, b.files, after)
  BY BatchFinished
<1>2. /\ after \in Catalogue(b.images, PathsOf(b.files)) /\ Len(after.results) = Len(b.files)
      /\ AssemblyInv(b.images, b.files, after)
      /\ Len(b.releases) = 0 /\ Tidy(b.files) => TidyInv(b.images, b.files, after)
  BY <1>1, Zenon DEF Finished
<1>3. DOMAIN after.results = DOMAIN b.files
  <2>1. after.results \in Seq(Result)
    BY <1>2 DEF Catalogue
  <2>2. b.files \in Seq(AudioFile)
    BY DEF Sorted
  <2>. QED BY <1>2, <2>1, <2>2
<1>4. AlikeTogether(b, after)
  BY <1>2, Zenon DEF AssemblyInv, AlikeKept, OnOne, AlikeTogether, Put, On, FileAt
<1>5. FoldersTogether(b, after)
  <2>1. ASSUME NEW i \in Put(after), NEW folder, folder = FileAt(b, i).folder,
               folder # "", Cover(b.images[folder]) # 0
        PROVE  after.covers[folder] = On(after, i)
    BY <1>2, <2>1, Zenon DEF AssemblyInv, PutsKept, StaysOn, Put, On, FileAt
  <2>2. ASSUME NEW i \in Put(after), NEW j \in Put(after), FileAt(b, i).folder = FileAt(b, j).folder,
               FileAt(b, i).folder # "", Cover(b.images[FileAt(b, i).folder]) # 0
        PROVE  On(after, i) = On(after, j)
    <3>1. PICK folder : folder = FileAt(b, i).folder
      OBVIOUS
    <3>2. after.covers[folder] = On(after, i)
      BY <2>1, <2>2, <3>1
    <3>3. after.covers[folder] = On(after, j)
      BY <2>1, <2>2, <3>1
    <3>. QED BY <3>2, <3>3
  <2>. QED BY <2>2, Zenon DEF FoldersTogether
<1>6. PlacesTaken(b, after)
  <2>. SUFFICES ASSUME NEW i \in Put(after), NEW f, f = FileAt(b, i), NEW place, place = after.places[f.path]
                PROVE  /\ [at |-> after.results[i].at, recording |-> f.recording] \in after.releases[On(after, i)].tracks
                       /\ [at |-> place.at, recording |-> f.recording] \in after.releases[place.release].tracks
    BY Zenon DEF PlacesTaken
  <2>1. StaysOn(b.images, after, f, after.results[i]) /\ i \in DOMAIN after.results
    BY <1>2, Zenon DEF AssemblyInv, PutsKept, Put, On, FileAt
  <2>2. /\ [at |-> after.results[i].at, recording |-> f.recording] \in after.releases[On(after, i)].tracks
        /\ place.release # 0
    BY <2>1, Zenon DEF StaysOn, On
  <2>3. b.files[i] \in AudioFile /\ b.files[i] \in ToSet(b.files)
    <3>1. b.files \in Seq(AudioFile)
      BY DEF Sorted
    <3>. QED BY <1>3, <2>1, <3>1 DEF ToSet
  <2>4. f.path = b.files[i].path /\ f.recording = b.files[i].recording
    BY <2>3, FolderSpeaks DEF FileAt
  <2>. QED BY <1>2, <2>2, <2>3, <2>4, Zenon DEF AssemblyInv, PlacesHeld
<1>7. ASSUME Len(b.releases) = 0, Tidy(b.files)
      PROVE  /\ Put(after) = DOMAIN b.files
             /\ \A i, j \in DOMAIN b.files : On(after, i) = On(after, j) <=> FileAt(b, i).folder = FileAt(b, j).folder
  <2>1. TidyInv(b.images, b.files, after)
    BY <1>2, <1>7
  <2>2. after.releases \in Seq(Release)
    BY <1>2 DEF Catalogue, ReleaseList
  <2>3. \A i \in DOMAIN b.files : InAlbum(b.files, after, i)
    BY <1>3, <2>1, Zenon DEF TidyInv
  <2>4. Put(after) = DOMAIN b.files
    <3>1. \A i \in DOMAIN b.files : On(after, i) # 0
      BY <2>2, <2>3 DEF InAlbum, On
    <3>. QED BY <1>3, <3>1 DEF Put
  <2>5. ASSUME NEW i \in DOMAIN b.files, NEW j \in DOMAIN b.files
        PROVE  On(after, i) = On(after, j) <=> FileAt(b, i).folder = FileAt(b, j).folder
    <3>1. PICK f, g : f = FileAt(b, i) /\ g = FileAt(b, j)
      OBVIOUS
    <3>2. TidyPair(f, g) /\ TidyPair(g, f)
      BY <1>7, <3>1, TidyTells DEF FileAt
    <3>3. f.folder # "" /\ g.folder # ""
      BY <3>2, Zenon DEF TidyPair
    <3>4. f \in AudioFile /\ g \in AudioFile
      <4>1. b.files \in Seq(AudioFile)
        BY DEF Sorted
      <4>2. b.files[i] \in AudioFile /\ b.files[j] \in AudioFile
        BY <4>1
      <4>. QED BY <3>1, <4>2, FolderSpeaks DEF FileAt
    <3>5. Signature(f) = Signature(g) <=> f.folder = g.folder
      BY <3>3, <3>4, FolderSigned
    <3>6. /\ On(after, i) \in DOMAIN after.releases /\ after.releases[On(after, i)].signature = Signature(f)
          /\ On(after, j) \in DOMAIN after.releases /\ after.releases[On(after, j)].signature = Signature(g)
      BY <2>3, <3>1, Zenon DEF InAlbum, On, FileAt
    <3>7. Signature(f) = Signature(g) => On(after, i) = On(after, j)
      <4>1. \A r, s \in DOMAIN after.releases :
              after.releases[r].signature = after.releases[s].signature => r = s
        BY <2>1, Zenon DEF TidyInv
      <4>. QED BY <3>6, <4>1
    <3>. QED BY <3>1, <3>5, <3>6, <3>7
  <2>. QED BY <2>4, <2>5
<1>. QED BY <1>4, <1>5, <1>6, <1>7, Zenon DEF Assembly, TidyApart

-----------------------------------------------------------------------------
(* What passes a test, and each element of a list once.                    *)

\* What passes a test, of the first elements of a list.
Passes(S, n, list, K, seqs, g) ==
  /\ g \in [0..n -> Seq(S)] /\ g[0] = <<>> /\ g[n] = Concat(seqs)
  /\ \A k \in 1..n : g[k] = IF list[k] \in K THEN g[k - 1] \o <<list[k]>> ELSE g[k - 1]

\* The elements that are in K, one by one.
Singly(list, K, seqs) ==
  seqs = [i \in DOMAIN list |-> IF list[i] \in K THEN <<list[i]>> ELSE <<>>]

\* Such elements are put together one after another, and are of K.
LEMMA PassedInTurn ==
  ASSUME NEW S, NEW n \in Nat, NEW list \in Seq(S), Len(list) = n, NEW K, NEW seqs, Singly(list, K, seqs)
  PROVE  /\ \E g : Passes(S, n, list, K, seqs, g)
         /\ Concat(seqs) \in Seq(S \cap K)
<1>1. DOMAIN list = 1..n /\ \A i \in 1..n : list[i] \in S
  OBVIOUS
<1>2. PICK T : T = S \cap K
  OBVIOUS
<1>3. /\ DOMAIN seqs = 1..n /\ seqs = [i \in DOMAIN seqs |-> seqs[i]]
      /\ \A i \in 1..n : seqs[i] = IF list[i] \in K THEN <<list[i]>> ELSE <<>>
  BY <1>1 DEF Singly
<1>4. \A i \in 1..n : seqs[i] \in Seq(T)
  <2>1. /\ <<>> \in Seq(T) /\ \A x \in T : <<x>> \in Seq(T)
    OBVIOUS
  <2>. QED BY <1>1, <1>2, <1>3, <2>1
<1>5. \A i \in 1..n : seqs[i] \in Seq(S)
  <2>1. /\ <<>> \in Seq(S) /\ \A x \in S : <<x>> \in Seq(S)
    OBVIOUS
  <2>. QED BY <1>1, <1>3, <2>1
<1>6. seqs \in Seq(Seq(S)) /\ seqs \in Seq(Seq(T))
  BY <1>3, <1>4, <1>5, ListsMade
<1>7. Concat(seqs) \in Seq(T)
  BY <1>6, ConcatTyped
<1>8. PICK g : PutTogether(S, seqs, g)
  BY <1>6, JoinedInTurn
<1>9. Len(seqs) = n
  BY <1>3, <1>6
<1>10. /\ g \in [0..n -> Seq(S)] /\ g[0] = <<>> /\ g[n] = Concat(seqs)
       /\ \A k \in 1..n : g[k] = g[k - 1] \o seqs[k]
  BY <1>8, <1>9 DEF PutTogether
<1>11. ASSUME NEW k \in 1..n
       PROVE  g[k] = IF list[k] \in K THEN g[k - 1] \o <<list[k]>> ELSE g[k - 1]
  <2>1. g[k - 1] \in Seq(S)
    <3>1. k - 1 \in 0..n
      OBVIOUS
    <3>. QED BY <1>10, <3>1
  <2>2. g[k - 1] \o <<>> = g[k - 1]
    BY <2>1
  <2>. QED BY <1>3, <1>10, <2>2
<1>12. Passes(S, n, list, K, seqs, g)
  BY <1>10, <1>11 DEF Passes
<1>. QED BY <1>2, <1>7, <1>12

\* The list has the first elements of another.
OpensLike(a, list, k) == Len(a) = k /\ \A i \in 1..k : a[i] = list[i]

\* A list that has all of them is the other.
LEMMA BegunWhole ==
  ASSUME NEW S, NEW list \in Seq(S), NEW a \in Seq(S), OpensLike(a, list, Len(list))
  PROVE  a = list
BY DEF OpensLike

\* One more element.
LEMMA BegunFurther ==
  ASSUME NEW S, NEW list \in Seq(S), NEW a \in Seq(S), NEW k \in Nat, k < Len(list), OpensLike(a, list, k)
  PROVE  OpensLike(a \o <<list[k + 1]>>, list, k + 1)
<1>1. PICK x \in S : x = list[k + 1]
  OBVIOUS
<1>2. <<x>> \in Seq(S) /\ Len(<<x>>) = 1 /\ <<x>>[1] = x
  OBVIOUS
<1>3. Chained(S, a, <<x>>, k, 1)
  BY <1>2, PutAfter DEF OpensLike
<1>4. (a \o <<x>>)[k + 1] = x
  BY <1>2, <1>3 DEF Chained
<1>. QED BY <1>1, <1>3, <1>4 DEF Chained, OpensLike

\* A list all of which passes stays.
LEMMA AllPassed ==
  ASSUME NEW S, NEW list \in Seq(S), NEW K, S \subseteq K, NEW seqs, Singly(list, K, seqs)
  PROVE  Concat(seqs) = list
<1>1. PICK n \in Nat : n = Len(list)
  OBVIOUS
<1>2. PICK g : Passes(S, n, list, K, seqs, g)
  BY <1>1, PassedInTurn
<1>3. PICK A : A = {k \in 0..n : OpensLike(g[k], list, k)}
  OBVIOUS
<1>4. 0 \in A
  BY <1>2, <1>3 DEF Passes, OpensLike
<1>5. ASSUME NEW k \in 0..n, k \in A, k < n PROVE k + 1 \in A
  <2>1. k + 1 \in 1..n /\ (k + 1) - 1 = k /\ list[k + 1] \in S /\ k + 1 \in 0..n
    BY <1>1, <1>5
  <2>2. g[k + 1] = g[k] \o <<list[k + 1]>> /\ g[k] \in Seq(S)
    BY <1>2, <2>1 DEF Passes
  <2>3. OpensLike(g[k + 1], list, k + 1)
    BY <1>1, <1>3, <1>5, <2>2, BegunFurther
  <2>. QED BY <1>3, <2>1, <2>3
<1>6. n \in A /\ n \in 0..n
  BY <1>4, <1>5, UpTo
<1>. QED BY <1>1, <1>2, <1>3, <1>6, BegunWhole DEF Passes

\* What comes first stays first, if it passes.
LEMMA FirstPassed ==
  ASSUME NEW S, NEW list \in Seq(S), list # <<>>, NEW K, list[1] \in K, NEW seqs, Singly(list, K, seqs)
  PROVE  Concat(seqs) # <<>> /\ Concat(seqs)[1] = list[1]
<1>1. PICK n \in Nat : n = Len(list) /\ n > 0
  OBVIOUS
<1>2. PICK g : Passes(S, n, list, K, seqs, g)
  BY <1>1, PassedInTurn
<1>3. PICK A : A = {k \in 0..n : k > 0 => Len(g[k]) > 0 /\ g[k][1] = list[1]}
  OBVIOUS
<1>4. 0 \in A
  BY <1>3
<1>5. ASSUME NEW k \in 0..n, k \in A, k < n PROVE k + 1 \in A
  <2>1. k + 1 \in 1..n /\ (k + 1) - 1 = k /\ list[k + 1] \in S /\ k + 1 \in 0..n /\ k \in 0..n
    BY <1>1, <1>5
  <2>2. g[k + 1] = (IF list[k + 1] \in K THEN g[k] \o <<list[k + 1]>> ELSE g[k]) /\ g[k] \in Seq(S)
    BY <1>2, <2>1 DEF Passes
  <2>3. CASE k = 0
    <3>1. g[0] = <<>>
      BY <1>2 DEF Passes
    <3>2. g[1] = <<list[1]>>
      BY <2>2, <2>3, <3>1
    <3>. QED BY <1>3, <2>1, <2>3, <3>2
  <2>4. CASE k > 0 /\ list[k + 1] \in K
    <3>1. PICK x \in S, s \in Seq(S) : x = list[k + 1] /\ s = g[k]
      BY <2>1, <2>2
    <3>2. Len(s) > 0 /\ s[1] = list[1]
      BY <1>3, <1>5, <2>4, <3>1
    <3>3. Len(s \o <<x>>) > 0 /\ (s \o <<x>>)[1] = s[1]
      BY <3>2
    <3>. QED BY <1>3, <2>1, <2>2, <2>4, <3>1, <3>2, <3>3
  <2>5. CASE k > 0 /\ list[k + 1] \notin K
    BY <1>3, <1>5, <2>1, <2>2, <2>5
  <2>. QED BY <1>5, <2>3, <2>4, <2>5
<1>6. n \in A
  BY <1>4, <1>5, UpTo
<1>. QED BY <1>1, <1>2, <1>3, <1>6 DEF Passes

\* If b opens with what is in K, a opens with it, too; if b is empty, a is.
FirstOf(a, b, K) == /\ b = <<>> => a = <<>>
                    /\ b # <<>> /\ b[1] \in K => a # <<>> /\ a[1] = b[1]

\* Of two tests, the second lets more pass: if what it lets pass first passes the other,
\* that is what the other lets pass first; if nothing passes it, nothing passes the other.
LEMMA FirstOfBoth ==
  ASSUME NEW S, NEW list \in Seq(S), NEW K, NEW L, K \subseteq L,
         NEW few, Singly(list, K, few), NEW many, Singly(list, L, many)
  PROVE  FirstOf(Concat(few), Concat(many), K)
<1>1. PICK n \in Nat : n = Len(list)
  OBVIOUS
<1>2. PICK f : Passes(S, n, list, K, few, f)
  BY <1>1, PassedInTurn
<1>3. PICK g : Passes(S, n, list, L, many, g)
  BY <1>1, PassedInTurn
<1>4. PICK A : A = {k \in 0..n : FirstOf(f[k], g[k], K)}
  OBVIOUS
<1>5. 0 \in A
  BY <1>2, <1>3, <1>4 DEF Passes, FirstOf
<1>6. ASSUME NEW k \in 0..n, k \in A, k < n PROVE k + 1 \in A
  <2>1. k + 1 \in 1..n /\ (k + 1) - 1 = k /\ list[k + 1] \in S /\ k + 1 \in 0..n /\ k \in 0..n
    BY <1>1, <1>6
  <2>2. PICK x \in S, a \in Seq(S), b \in Seq(S) : x = list[k + 1] /\ a = f[k] /\ b = g[k]
    BY <1>2, <1>3, <2>1 DEF Passes
  <2>3. /\ f[k + 1] = IF x \in K THEN a \o <<x>> ELSE a
        /\ g[k + 1] = IF x \in L THEN b \o <<x>> ELSE b
    BY <1>2, <1>3, <2>1, <2>2 DEF Passes
  <2>4. FirstOf(a, b, K)
    BY <1>4, <1>6, <2>2
  <2>5. /\ \A s \in Seq(S) : s # <<>> => s \o <<x>> # <<>> /\ (s \o <<x>>)[1] = s[1]
        /\ <<>> \o <<x>> = <<x>> /\ <<x>>[1] = x /\ <<x>> # <<>>
        /\ \A s \in Seq(S) : s \o <<x>> # <<>>
    OBVIOUS
  <2>6. CASE b = <<>>
    <3>1. a = <<>>
      BY <2>4, <2>6 DEF FirstOf
    <3>. QED BY <1>4, <2>1, <2>3, <2>5, <2>6, <3>1 DEF FirstOf
  <2>7. CASE b # <<>> /\ b[1] \in K
    <3>1. a # <<>> /\ a[1] = b[1]
      BY <2>4, <2>7 DEF FirstOf
    <3>. QED BY <1>4, <2>1, <2>3, <2>5, <2>7, <3>1 DEF FirstOf
  <2>8. CASE b # <<>> /\ b[1] \notin K
    BY <1>4, <2>1, <2>3, <2>5, <2>8 DEF FirstOf
  <2>. QED BY <2>6, <2>7, <2>8
<1>7. n \in A
  BY <1>5, <1>6, UpTo
<1>. QED BY <1>2, <1>3, <1>4, <1>7 DEF Passes

\* g has the first elements of a list, each where it comes first.
Collects(S, n, list, g) ==
  /\ g \in [0..n -> Seq(S)] /\ g[0] = <<>> /\ g[n] = EachOnce(list)
  /\ \A k \in 1..n : g[k] = IF list[k] \in Range(g[k - 1]) THEN g[k - 1] ELSE Append(g[k - 1], list[k])

\* A list is collected element after element.
LEMMA CollectedInTurn ==
  ASSUME NEW S, NEW n \in Nat, NEW list \in Seq(S), Len(list) = n
  PROVE  \E g : Collects(S, n, list, g)
<1>. DEFINE Next1(s, x) == IF x \in Range(s) THEN s ELSE Append(s, x)
            Joins(f) == f = [T \in SUBSET DOMAIN list |->
                               IF T = {} THEN <<>>
                               ELSE IF list[Max(T)] \in Range(f[T \ {Max(T)}]) THEN f[T \ {Max(T)}]
                                    ELSE Append(f[T \ {Max(T)}], list[Max(T)])]
<1>1. PICK c : c = CHOOSE f : Joins(f)
  OBVIOUS
<1>2. EachOnce(list) = c[DOMAIN list]
  BY <1>1, Zenon DEF EachOnce, FoldLeft, MapThenFoldSet
<1>3. DOMAIN list = 1..n /\ \A k \in 1..n : list[k] \in S
  OBVIOUS
<1>4. PICK Q : Q = Seq(S)
  OBVIOUS
<1>5. \A s \in Q, k \in 1..n : Next1(s, list[k]) \in Q
  BY <1>3, <1>4
<1>6. PICK step \in [Q \X (1..n) -> Q] :
        \A k \in 1..n, s \in Q : step[<<s, k>>] = Next1(s, list[k])
  <2>1. [x \in Q \X (1..n) |-> Next1(x[1], list[x[2]])] \in [Q \X (1..n) -> Q]
    BY <1>5
  <2>. QED BY <2>1
<1>7. <<>> \in Q
  BY <1>4
<1>8. PICK f : Folds(n, Q, <<>>, step, f)
  BY <1>6, <1>7, FoldDefined
<1>9. Joins(f)
  <2>1. ASSUME NEW T \in SUBSET (1..n), T # {}
        PROVE  f[T] = IF list[Max(T)] \in Range(f[T \ {Max(T)}]) THEN f[T \ {Max(T)}]
                      ELSE Append(f[T \ {Max(T)}], list[Max(T)])
    <3>1. PICK x : x = Max(T)
      OBVIOUS
    <3>2. x \in 1..n /\ T \ {x} \in SUBSET (1..n)
      BY <2>1, <3>1, LastPosition
    <3>. QED BY <1>6, <1>8, <2>1, <3>1, <3>2 DEF Folds
  <2>2. f = [T \in SUBSET (1..n) |->
               IF T = {} THEN <<>>
               ELSE IF list[Max(T)] \in Range(f[T \ {Max(T)}]) THEN f[T \ {Max(T)}]
                    ELSE Append(f[T \ {Max(T)}], list[Max(T)])]
    BY <1>8, <2>1 DEF Folds
  <2>. QED BY <1>3, <2>2
<1>10. Joins(c)
  BY <1>1, <1>9, Zenon
<1>11. c[{}] = <<>> /\ \A k \in 1..n : c[1..k] = Next1(c[1..(k - 1)], list[k])
  <2>1. ASSUME NEW k \in 1..n PROVE c[1..k] = Next1(c[1..(k - 1)], list[k])
    <3>1. 1..k \in SUBSET DOMAIN list /\ 1..k # {} /\ k \in Nat /\ k > 0
      <4>1. 1..k \subseteq 1..n /\ k \in 1..k /\ k \in Nat /\ k > 0
        OBVIOUS
      <4>2. 1..k # {}
        BY <4>1
      <4>. QED BY <1>3, <4>1, <4>2
    <3>2. Max(1..k) = k /\ (1..k) \ {Max(1..k)} = 1..(k - 1)
      BY <3>1, LastOfSegment
    <3>3. c[1..k] = Next1(c[(1..k) \ {Max(1..k)}], list[Max(1..k)])
      BY <1>10, <3>1
    <3>. QED BY <3>2, <3>3
  <2>2. {} \in SUBSET DOMAIN list
    OBVIOUS
  <2>. QED BY <1>10, <2>1, <2>2
<1>12. Follows(n, Q, <<>>, step, c)
  BY <1>6, <1>11 DEF Follows
<1>13. PICK g : Runs(n, Q, <<>>, step, c, g)
  BY <1>6, <1>7, <1>12, FoldRuns
<1>14. g \in [0..n -> Q] /\ g[0] = <<>> /\ g[n] = c[1..n]
  BY <1>13 DEF Runs
<1>15. \A k \in 1..n : g[k] = Next1(g[k - 1], list[k])
  <2>1. \A k \in 1..n : k - 1 \in 0..n
    OBVIOUS
  <2>. QED BY <1>6, <1>13, <1>14, <2>1 DEF Runs
<1>. QED BY <1>2, <1>3, <1>4, <1>14, <1>15 DEF Collects

\* No element is there twice.
Distinctly(list) == \A i, j \in DOMAIN list : list[i] = list[j] => i = j

\* What is collected is distinct.
LEMMA CollectedOnce ==
  ASSUME NEW S, NEW list \in Seq(S)
  PROVE  EachOnce(list) \in Seq(S) /\ Distinctly(EachOnce(list))
<1>1. PICK n \in Nat : n = Len(list)
  OBVIOUS
<1>2. PICK g : Collects(S, n, list, g)
  BY <1>1, CollectedInTurn
<1>3. PICK A : A = {k \in 0..n : Distinctly(g[k])}
  OBVIOUS
<1>4. 0 \in A
  <2>1. DOMAIN g[0] = {}
    BY <1>2 DEF Collects
  <2>. QED BY <1>3, <2>1 DEF Distinctly
<1>5. ASSUME NEW k \in 0..n, k \in A, k < n PROVE k + 1 \in A
  <2>1. k + 1 \in 1..n /\ (k + 1) - 1 = k /\ list[k + 1] \in S /\ k + 1 \in 0..n /\ k \in 0..n
    BY <1>1, <1>5
  <2>2. PICK x \in S, s \in Seq(S) : x = list[k + 1] /\ s = g[k]
    BY <1>2, <2>1 DEF Collects
  <2>3. g[k + 1] = IF x \in Range(s) THEN s ELSE Append(s, x)
    BY <1>2, <2>1, <2>2 DEF Collects
  <2>4. Distinctly(s)
    BY <1>3, <1>5, <2>2
  <2>5. CASE x \in Range(s)
    BY <1>3, <2>1, <2>3, <2>4, <2>5
  <2>6. CASE x \notin Range(s)
    <3>1. \A i \in DOMAIN s : s[i] # x
      BY <2>6 DEF Range
    <3>2. Distinctly(Append(s, x))
      BY <2>4, <3>1 DEF Distinctly
    <3>. QED BY <1>3, <2>1, <2>3, <2>6, <3>2
  <2>. QED BY <2>5, <2>6
<1>6. n \in A /\ n \in 0..n
  BY <1>4, <1>5, UpTo
<1>. QED BY <1>2, <1>3, <1>6 DEF Collects

\* A distinct list stays.
LEMMA DistinctCollected ==
  ASSUME NEW S, NEW list \in Seq(S), Distinctly(list)
  PROVE  EachOnce(list) = list
<1>1. PICK n \in Nat : n = Len(list) /\ DOMAIN list = 1..n
  OBVIOUS
<1>2. PICK g : Collects(S, n, list, g)
  BY <1>1, CollectedInTurn
<1>3. PICK A : A = {k \in 0..n : OpensLike(g[k], list, k)}
  OBVIOUS
<1>4. 0 \in A
  BY <1>2, <1>3 DEF Collects, OpensLike
<1>5. ASSUME NEW k \in 0..n, k \in A, k < n PROVE k + 1 \in A
  <2>1. k + 1 \in 1..n /\ (k + 1) - 1 = k /\ list[k + 1] \in S /\ k + 1 \in 0..n /\ k \in 0..n
    BY <1>1, <1>5
  <2>2. PICK x \in S, s \in Seq(S) : x = list[k + 1] /\ s = g[k]
    BY <1>2, <2>1 DEF Collects
  <2>3. g[k + 1] = IF x \in Range(s) THEN s ELSE Append(s, x)
    BY <1>2, <2>1, <2>2 DEF Collects
  <2>4. OpensLike(s, list, k)
    BY <1>3, <1>5, <2>2
  <2>5. \A i \in DOMAIN s : s[i] # x
    <3>1. \A i \in 1..k : i \in 1..n /\ i # k + 1
      BY <2>1
    <3>2. DOMAIN s = 1..k
      BY <2>4 DEF OpensLike
    <3>. QED BY <1>1, <2>1, <2>2, <2>4, <3>1, <3>2 DEF OpensLike, Distinctly
  <2>6. g[k + 1] = s \o <<x>>
    BY <2>3, <2>5 DEF Range
  <2>7. OpensLike(s \o <<x>>, list, k + 1)
    BY <1>1, <1>5, <2>2, <2>4, BegunFurther
  <2>. QED BY <1>3, <2>1, <2>6, <2>7
<1>6. n \in A /\ n \in 0..n
  BY <1>4, <1>5, UpTo
<1>. QED BY <1>1, <1>2, <1>3, <1>6, BegunWhole DEF Collects

\* What comes first stays first.
LEMMA FirstCollected ==
  ASSUME NEW S, NEW list \in Seq(S)
  PROVE  /\ list = <<>> => EachOnce(list) = <<>>
         /\ list # <<>> => EachOnce(list) # <<>> /\ EachOnce(list)[1] = list[1]
<1>1. PICK n \in Nat : n = Len(list)
  OBVIOUS
<1>2. PICK g : Collects(S, n, list, g)
  BY <1>1, CollectedInTurn
<1>3. PICK A : A = {k \in 0..n : k > 0 => g[k] # <<>> /\ g[k][1] = list[1]}
  OBVIOUS
<1>4. 0 \in A
  BY <1>3
<1>5. ASSUME NEW k \in 0..n, k \in A, k < n PROVE k + 1 \in A
  <2>1. k + 1 \in 1..n /\ (k + 1) - 1 = k /\ list[k + 1] \in S /\ k + 1 \in 0..n /\ k \in 0..n
    BY <1>1, <1>5
  <2>2. PICK x \in S, s \in Seq(S) : x = list[k + 1] /\ s = g[k]
    BY <1>2, <2>1 DEF Collects
  <2>3. g[k + 1] = IF x \in Range(s) THEN s ELSE Append(s, x)
    BY <1>2, <2>1, <2>2 DEF Collects
  <2>4. CASE k = 0
    <3>1. s = <<>>
      BY <1>2, <2>2, <2>4 DEF Collects
    <3>2. Range(s) = {}
      BY <3>1 DEF Range
    <3>3. Append(s, x) # <<>> /\ Append(s, x)[1] = x
      BY <3>1
    <3>4. g[k + 1] = Append(s, x) /\ x = list[1]
      BY <2>2, <2>3, <2>4, <3>2
    <3>. QED BY <1>3, <2>1, <3>3, <3>4
  <2>5. CASE k > 0
    <3>1. s # <<>> /\ s[1] = list[1]
      BY <1>3, <1>5, <2>2, <2>5
    <3>2. Append(s, x) # <<>> /\ Append(s, x)[1] = s[1]
      BY <3>1
    <3>. QED BY <1>3, <2>1, <2>3, <3>1, <3>2
  <2>. QED BY <1>5, <2>4, <2>5
<1>6. n \in A
  BY <1>4, <1>5, UpTo
<1>. QED BY <1>1, <1>2, <1>3, <1>6 DEF Collects

-----------------------------------------------------------------------------
(* Reading the tags of a file.                                             *)

\* One list, or two, put together.
LEMMA OneOrTwo ==
  ASSUME NEW S, NEW a \in Seq(S), NEW b \in Seq(S)
  PROVE  Concat(<<a>>) = a /\ Concat(<<a, b>>) = a \o b
<1>1. <<a>> \in Seq(Seq(S)) /\ Len(<<a>>) = 1 /\ <<a, b>> \in Seq(Seq(S)) /\ Len(<<a, b>>) = 2
  OBVIOUS
<1>2. <<>> \o a = a /\ 1 \in 1..1 /\ 1 - 1 = 0 /\ 1 \in 1..2 /\ 2 \in 1..2 /\ 2 - 1 = 1
  OBVIOUS
<1>3. PICK g : PutTogether(S, <<a>>, g)
  BY <1>1, JoinedInTurn
<1>4. PICK h : PutTogether(S, <<a, b>>, h)
  BY <1>1, JoinedInTurn
<1>5. Concat(<<a>>) = a
  BY <1>1, <1>2, <1>3 DEF PutTogether
<1>6. h[1] = a
  BY <1>1, <1>2, <1>4 DEF PutTogether
<1>7. Concat(<<a, b>>) = a \o b
  BY <1>1, <1>2, <1>4, <1>6 DEF PutTogether
<1>. QED BY <1>5, <1>7

\* A field has one tag, or two that stand for it.
LEMMA FieldAliases ==
  ASSUME NEW field \in Fields
  PROVE  /\ Aliases[field] \in Seq(Tags) /\ Len(Aliases[field]) \in {1, 2}
         /\ Aliases[field] = IF Len(Aliases[field]) = 1 THEN <<Aliases[field][1]>>
                             ELSE <<Aliases[field][1], Aliases[field][2]>>
<1>1. \A f \in Fields : Range(Aliases[f]) \subseteq Tags
  BY DEF Tags
<1>2. /\ Aliases.title = <<"TITLE">> /\ Aliases.artists = <<"ARTIST">> /\ Aliases.composers = <<"COMPOSER">>
      /\ Aliases.isrc = <<"ISRC">> /\ Aliases.album = <<"ALBUM">>
      /\ Aliases.track_number = <<"TRACKNUMBER", "TRACK">> /\ Aliases.date = <<"DATE", "YEAR">>
      /\ Aliases.barcode = <<"BARCODE", "UPC">> /\ Aliases.genre = <<"GENRE">>
      /\ Aliases.language = <<"LANGUAGE">> /\ Aliases.energy = <<"RATING", "ENERGY">>
      /\ Aliases.channels = <<"KANAL", "CHANNEL">>
      /\ Aliases.rotation_suitability = <<"ROTATION", "ROTASJON">>
  BY DEF Aliases
<1>3. Fields = {"title", "artists", "composers", "isrc", "album", "track_number", "date", "barcode",
                "genre", "language", "energy", "channels", "rotation_suitability"}
  BY DEF Fields, Aliases
<1>4. \E a, b : Aliases[field] = <<a>> \/ Aliases[field] = <<a, b>>
  BY <1>2, <1>3
<1>5. PICK s : s = Aliases[field]
  OBVIOUS
<1>6. PICK a, b : s = <<a>> \/ s = <<a, b>>
  BY <1>4, <1>5
<1>7. Range(s) \subseteq Tags
  BY <1>1, <1>5
<1>8. CASE s = <<a>>
  <2>1. a \in Tags
    BY <1>7, <1>8 DEF Range
  <2>. QED BY <1>5, <1>8, <2>1
<1>9. CASE s = <<a, b>>
  <2>1. a \in Range(s) /\ b \in Range(s)
    <3>1. 1 \in DOMAIN s /\ 2 \in DOMAIN s /\ s[1] = a /\ s[2] = b
      BY <1>9
    <3>. QED BY <3>1 DEF Range
  <2>. QED BY <1>5, <1>7, <1>9, <2>1
<1>. QED BY <1>6, <1>8, <1>9

\* Names, with those that the adapter puts for others, and texts.
Word == STRING \cup {"3", "no", "suitable", "not_suitable", "unassessed",
                     "Rotasjonsverdig", "Ikke Rotasjonsverdig", "Ikke vurdert"}
Wording == Seq(Word)

\* Texts that are not blank, and the texts of a field.
Full == Wording \ {<<>>}
FieldTexts(tags, field) ==
  IF Len(Aliases[field]) = 1 THEN tags[Aliases[field][1]]
  ELSE tags[Aliases[field][1]] \o tags[Aliases[field][2]]

\* They are the texts of its tags, put together.
LEMMA TextsOfField ==
  ASSUME NEW tags \in [Tags -> Seq(Wording)], NEW field \in Fields
  PROVE  /\ FieldTexts(tags, field) \in Seq(Wording)
         /\ Concat([i \in DOMAIN Aliases[field] |-> tags[Aliases[field][i]]]) = FieldTexts(tags, field)
<1>1. PICK s : s = Aliases[field]
  OBVIOUS
<1>2. s \in Seq(Tags) /\ Len(s) \in {1, 2} /\ s = IF Len(s) = 1 THEN <<s[1]>> ELSE <<s[1], s[2]>>
  BY <1>1, FieldAliases
<1>3. PICK list : list = [i \in DOMAIN s |-> tags[s[i]]]
  OBVIOUS
<1>7. /\ DOMAIN s = 1..Len(s) /\ 1 \in DOMAIN s /\ s[1] \in Tags
      /\ Len(s) = 2 => 2 \in DOMAIN s /\ s[2] \in Tags
  <2>1. PICK G : G = Tags
    OBVIOUS
  <2>2. s \in Seq(G) /\ Len(s) \in {1, 2}
    BY <1>2, <2>1
  <2>. QED BY <2>1, <2>2
<1>4. PICK T : T = Wording
  OBVIOUS
<1>5. CASE Len(s) = 1
  <2>1. s[1] \in Tags /\ DOMAIN s = 1..1
    BY <1>5, <1>7
  <2>2. PICK a \in Seq(T) : a = tags[s[1]]
    BY <1>4, <2>1
  <2>3. list = <<a>>
    BY <1>3, <2>1, <2>2
  <2>4. Concat(list) = a
    BY <2>3, OneOrTwo
  <2>. QED BY <1>1, <1>3, <1>4, <1>5, <2>2, <2>4 DEF FieldTexts
<1>6. CASE Len(s) = 2
  <2>1. s[1] \in Tags /\ s[2] \in Tags /\ DOMAIN s = 1..2
    BY <1>6, <1>7
  <2>2. PICK a \in Seq(T) : a = tags[s[1]]
    BY <1>4, <2>1
  <2>3. PICK b \in Seq(T) : b = tags[s[2]]
    BY <1>4, <2>1
  <2>4. list = <<a, b>>
    BY <1>3, <2>1, <2>2, <2>3
  <2>5. Concat(<<a, b>>) = a \o b
    BY <2>2, <2>3, OneOrTwo
  <2>7. a \o b \in Seq(T)
    BY <2>2, <2>3
  <2>6. FieldTexts(tags, field) = a \o b
    BY <1>1, <1>6, <2>2, <2>3 DEF FieldTexts
  <2>. QED BY <1>1, <1>3, <1>4, <2>4, <2>5, <2>6, <2>7
<1>. QED BY <1>2, <1>5, <1>6

\* The values of a field are those of its texts that are not blank; texts none of which is
\* blank stay, and a first one that is not blank stays the first.
LEMMA ValuesPresent ==
  ASSUME NEW tags \in [Tags -> Seq(Wording)], NEW field \in Fields,
         NEW texts, texts = FieldTexts(tags, field)
  PROVE  /\ Values(tags, field) \in Seq(Full)
         /\ texts \in Seq(Full) => Values(tags, field) = texts
         /\ texts # <<>> /\ texts[1] # <<>> =>
              Values(tags, field) # <<>> /\ Values(tags, field)[1] = texts[1]
<1>1. PICK T : T = Wording
  OBVIOUS
<1>2. PICK K : K = T \ {<<>>}
  OBVIOUS
<1>3. texts \in Seq(T)
  BY <1>1, TextsOfField
<1>4. PICK seqs : seqs = [i \in DOMAIN texts |-> If(Present(texts[i]), <<texts[i]>>)]
  OBVIOUS
<1>5. Values(tags, field) = Concat(seqs)
  BY <1>4, TextsOfField, Zenon DEF Values, Filtered
<1>6. Singly(texts, K, seqs)
  <2>1. \A i \in DOMAIN texts : If(Present(texts[i]), <<texts[i]>>) = IF texts[i] \in K THEN <<texts[i]>> ELSE <<>>
    BY <1>2, <1>3 DEF If, Present
  <2>. QED BY <1>4, <2>1 DEF Singly
<1>7. Concat(seqs) \in Seq(T \cap K)
  <2>1. PICK n \in Nat : n = Len(texts)
    BY <1>3
  <2>. QED BY <1>3, <1>6, <2>1, PassedInTurn
<1>8. T \cap K = K
  BY <1>2
<1>9. ASSUME texts \in Seq(K) PROVE Concat(seqs) = texts
  BY <1>6, <1>9, AllPassed
<1>10. ASSUME texts # <<>>, texts[1] # <<>> PROVE Concat(seqs) # <<>> /\ Concat(seqs)[1] = texts[1]
  <2>1. texts[1] \in K
    BY <1>2, <1>3, <1>10
  <2>. QED BY <1>3, <1>6, <1>10, <2>1, FirstPassed
<1>. QED BY <1>1, <1>2, <1>5, <1>7, <1>8, <1>9, <1>10 DEF Full

\* The first of the values of a field.
LEMMA FirstIsText ==
  ASSUME NEW texts \in Seq(Full)
  PROVE  First(texts) \in Wording
<1>1. PICK T : T = Wording
  OBVIOUS
<1>2. <<>> \in Wording
  BY DEF Wording
<1>. QED BY <1>2 DEF First, Full

\* A text, as it is written, is read.
LEMMA TextReadBack ==
  ASSUME NEW text \in Wording
  PROVE  OneText(text) \in Seq(Full) /\ First(OneText(text)) = text
<1>1. PICK F : F = Full
  OBVIOUS
<1>2. text = <<>> \/ text \in F
  BY <1>1 DEF Full
<1>3. <<>> \in Seq(F) /\ \A t \in F : <<t>> \in Seq(F) /\ <<t>> # <<>> /\ <<t>>[1] = t
  OBVIOUS
<1>. QED BY <1>1, <1>2, <1>3 DEF OneText, First

\* Names, as they are written, are read.
LEMMA NamesReadBack ==
  ASSUME NEW names \in Wording
  PROVE  NamesAsTexts(names) \in Seq(Full) /\ Concat(NamesAsTexts(names)) = names
<1>1. PICK n \in Nat : n = Len(names) /\ DOMAIN names = 1..n /\ \A i \in 1..n : names[i] \in Word
  BY DEF Wording
<1>2. PICK list : list = NamesAsTexts(names)
  OBVIOUS
<1>3. DOMAIN list = 1..n /\ list = [i \in DOMAIN list |-> list[i]] /\ \A i \in 1..n : list[i] = <<names[i]>>
  BY <1>1, <1>2 DEF NamesAsTexts
<1>4. \A x \in Word : <<x>> \in Full
  <2>1. PICK Q : Q = Word
    OBVIOUS
  <2>2. \A x \in Q : <<x>> \in Seq(Q) /\ <<x>> # <<>>
    OBVIOUS
  <2>. QED BY <2>1, <2>2 DEF Wording, Full
<1>5. list \in Seq(Full)
  <2>1. \A i \in 1..n : list[i] \in Full
    BY <1>1, <1>3, <1>4
  <2>. QED BY <1>3, <2>1, ListMade
<1>6. Singly(names, Word, list)
  BY <1>1, <1>2 DEF Singly, NamesAsTexts
<1>7. names \in Seq(Word)
  BY DEF Wording
<1>8. Concat(list) = names
  BY <1>6, <1>7, AllPassed
<1>. QED BY <1>2, <1>5, <1>8

\* The names of a field are distinct.
LEMMA NamesOnce ==
  ASSUME NEW texts \in Seq(Full)
  PROVE  MultiValues(texts) \in Wording /\ Distinctly(MultiValues(texts))
<1>1. PICK Q : Q = Seq(Word)
  OBVIOUS
<1>2. texts \in Seq(Q)
  BY <1>1 DEF Full, Wording
<1>3. Concat(texts) \in Seq(Word)
  BY <1>1, <1>2, ConcatTyped
<1>. QED BY <1>3, CollectedOnce DEF MultiValues, Wording

\* Distinct names stay when they are written and read again.
LEMMA NamesKept ==
  ASSUME NEW names \in Wording, Distinctly(names)
  PROVE  MultiValues(NamesAsTexts(names)) = names
<1>1. names \in Seq(Word)
  BY DEF Wording
<1>. QED BY <1>1, NamesReadBack, DistinctCollected DEF MultiValues

\* What a comment can embed.
Embedded == {"LANGUAGE", "KANAL", "ROTATION"}
Comment == [tag : Embedded, text : Wording]

\* A file: its tags and its comments.
AFile(file) == file \in [tags : [Tags -> Seq(Wording)], comments : Seq(Comment)]

\* The tags with one more line of the comments.
WithLine(tags, line) ==
  IF line.text = <<>> \/ line.text \in Range(tags[line.tag]) THEN tags
  ELSE [tags EXCEPT ![line.tag] = Append(@, line.text)]

\* g has the tags with the first lines of the comments.
Exposes(file, n, g) ==
  /\ g \in [0..n -> [Tags -> Seq(Wording)]] /\ g[0] = file.tags /\ g[n] = Exposed(file)
  /\ \A k \in 1..n : g[k] = WithLine(g[k - 1], file.comments[k])

\* A line changes its own tag only.
LEMMA LineTyped ==
  ASSUME NEW tags \in [Tags -> Seq(Wording)], NEW line \in Comment
  PROVE  /\ WithLine(tags, line) \in [Tags -> Seq(Wording)]
         /\ \A tag \in Tags : tag # line.tag => WithLine(tags, line)[tag] = tags[tag]
<1>1. PICK Q : Q = Seq(Wording)
  OBVIOUS
<1>2. line.tag \in Tags /\ line.text \in Wording
  BY DEF Comment, Embedded, Tags, Fields, Aliases, Range
<1>3. \A s \in Q : Append(s, line.text) \in Q
  BY <1>1, <1>2
<1>4. tags \in [Tags -> Q]
  BY <1>1
<1>5. [tags EXCEPT ![line.tag] = Append(tags[line.tag], line.text)] \in [Tags -> Q]
  BY <1>2, <1>3, <1>4
<1>. QED BY <1>1, <1>4, <1>5 DEF WithLine

\* The comments are read line after line.
LEMMA ExposedInTurn ==
  ASSUME NEW file, AFile(file), NEW n \in Nat, n = Len(file.comments)
  PROVE  \E g : Exposes(file, n, g)
<1>. DEFINE list == file.comments
            Joins(f) == f = [T \in SUBSET DOMAIN file.comments |->
                               IF T = {} THEN file.tags
                               ELSE IF \/ file.comments[Max(T)].text = <<>>
                                       \/ file.comments[Max(T)].text \in Range(f[T \ {Max(T)}][file.comments[Max(T)].tag])
                                    THEN f[T \ {Max(T)}]
                                    ELSE [f[T \ {Max(T)}] EXCEPT ![file.comments[Max(T)].tag] =
                                            Append(@, file.comments[Max(T)].text)]]
<1>1. PICK c : c = CHOOSE f : Joins(f)
  OBVIOUS
<1>2. Exposed(file) = c[DOMAIN list]
  BY <1>1, Zenon DEF Exposed, FoldLeft, MapThenFoldSet
<1>3. DOMAIN list = 1..n /\ \A k \in 1..n : list[k] \in Comment
  <2>1. PICK C : C = Comment
    OBVIOUS
  <2>2. list \in Seq(C)
    BY <2>1 DEF AFile
  <2>. QED BY <2>1, <2>2
<1>4. PICK Q : Q = [Tags -> Seq(Wording)]
  OBVIOUS
<1>5. \A s \in Q, k \in 1..n : WithLine(s, list[k]) \in Q
  BY <1>3, <1>4, LineTyped
<1>6. PICK step \in [Q \X (1..n) -> Q] :
        \A k \in 1..n, s \in Q : step[<<s, k>>] = WithLine(s, list[k])
  <2>1. [x \in Q \X (1..n) |-> WithLine(x[1], list[x[2]])] \in [Q \X (1..n) -> Q]
    BY <1>5
  <2>. QED BY <2>1
<1>7. file.tags \in Q
  BY <1>4 DEF AFile
<1>8. PICK f : Folds(n, Q, file.tags, step, f)
  BY <1>6, <1>7, FoldDefined
<1>20. \A h : Joins(h) <=> h = [T \in SUBSET DOMAIN list |->
                                 IF T = {} THEN file.tags ELSE WithLine(h[T \ {Max(T)}], list[Max(T)])]
  BY Zenon DEF WithLine
<1>9. Joins(f)
  <2>1. ASSUME NEW T \in SUBSET (1..n), T # {}
        PROVE  f[T] = WithLine(f[T \ {Max(T)}], list[Max(T)])
    <3>1. PICK x : x = Max(T)
      OBVIOUS
    <3>2. x \in 1..n /\ T \ {x} \in SUBSET (1..n)
      BY <2>1, <3>1, LastPosition
    <3>. QED BY <1>6, <1>8, <2>1, <3>1, <3>2 DEF Folds
  <2>2. f = [T \in SUBSET (1..n) |->
               IF T = {} THEN file.tags ELSE WithLine(f[T \ {Max(T)}], list[Max(T)])]
    BY <1>8, <2>1 DEF Folds
  <2>. QED BY <1>3, <1>20, <2>2
<1>10. Joins(c)
  BY <1>1, <1>9, Zenon
<1>21. c = [T \in SUBSET DOMAIN list |->
              IF T = {} THEN file.tags ELSE WithLine(c[T \ {Max(T)}], list[Max(T)])]
  BY <1>10, <1>20, Zenon
<1>11. c[{}] = file.tags /\ \A k \in 1..n : c[1..k] = WithLine(c[1..(k - 1)], list[k])
  <2>1. ASSUME NEW k \in 1..n PROVE c[1..k] = WithLine(c[1..(k - 1)], list[k])
    <3>1. 1..k \in SUBSET DOMAIN list /\ 1..k # {} /\ k \in Nat /\ k > 0
      <4>1. 1..k \subseteq 1..n /\ k \in 1..k /\ k \in Nat /\ k > 0
        OBVIOUS
      <4>2. 1..k # {}
        BY <4>1
      <4>. QED BY <1>3, <4>1, <4>2
    <3>2. Max(1..k) = k /\ (1..k) \ {Max(1..k)} = 1..(k - 1)
      BY <3>1, LastOfSegment
    <3>3. c[1..k] = WithLine(c[(1..k) \ {Max(1..k)}], list[Max(1..k)])
      BY <1>21, <3>1
    <3>. QED BY <3>2, <3>3
  <2>2. {} \in SUBSET DOMAIN list
    OBVIOUS
  <2>. QED BY <1>21, <2>1, <2>2
<1>12. Follows(n, Q, file.tags, step, c)
  BY <1>6, <1>11 DEF Follows
<1>13. PICK g : Runs(n, Q, file.tags, step, c, g)
  BY <1>6, <1>7, <1>12, FoldRuns
<1>14. g \in [0..n -> Q] /\ g[0] = file.tags /\ g[n] = c[1..n]
  BY <1>13 DEF Runs
<1>15. \A k \in 1..n : g[k] = WithLine(g[k - 1], list[k])
  <2>1. \A k \in 1..n : k - 1 \in 0..n
    OBVIOUS
  <2>. QED BY <1>6, <1>13, <1>14, <2>1 DEF Runs
<1>16. g[n] = Exposed(file)
  BY <1>2, <1>3, <1>14
<1>. QED BY <1>4, <1>14, <1>15, <1>16 DEF Exposes

\* A file without comments is read as it is, and no comment stands for another tag.
LEMMA ExposedRead ==
  ASSUME NEW file, AFile(file)
  PROVE  /\ Exposed(file) \in [Tags -> Seq(Wording)]
         /\ file.comments = <<>> => Exposed(file) = file.tags
         /\ \A tag \in Tags \ Embedded : Exposed(file)[tag] = file.tags[tag]
<1>1. PICK n \in Nat : n = Len(file.comments)
  BY DEF AFile
<1>2. PICK g : Exposes(file, n, g)
  BY <1>1, ExposedInTurn
<1>3. PICK A : A = {k \in 0..n : \A tag \in Tags \ Embedded : g[k][tag] = file.tags[tag]}
  OBVIOUS
<1>4. 0 \in A
  BY <1>2, <1>3 DEF Exposes
<1>5. ASSUME NEW k \in 0..n, k \in A, k < n PROVE k + 1 \in A
  <2>1. k + 1 \in 1..n /\ (k + 1) - 1 = k /\ k + 1 \in 0..n /\ k \in 0..n
    BY <1>5
  <2>2. PICK line \in Comment : line = file.comments[k + 1]
    <3>1. PICK C : C = Comment
      OBVIOUS
    <3>2. file.comments \in Seq(C)
      BY <3>1 DEF AFile
    <3>3. file.comments[k + 1] \in C
      BY <1>1, <2>1, <3>2
    <3>. QED BY <3>1, <3>3
  <2>3. g[k] \in [Tags -> Seq(Wording)] /\ g[k + 1] = WithLine(g[k], line)
    BY <1>2, <2>1, <2>2 DEF Exposes
  <2>4. line.tag \in Embedded
    BY <2>2 DEF Comment
  <2>5. ASSUME NEW tag \in Tags \ Embedded PROVE g[k + 1][tag] = file.tags[tag]
    <3>1. g[k][tag] = file.tags[tag]
      BY <1>3, <1>5
    <3>2. WithLine(g[k], line)[tag] = g[k][tag]
      BY <2>3, <2>4, LineTyped
    <3>. QED BY <2>3, <3>1, <3>2
  <2>. QED BY <1>3, <2>1, <2>5
<1>6. n \in A /\ n \in 0..n
  BY <1>4, <1>5, UpTo
<1>7. file.comments = <<>> => n = 0
  BY <1>1
<1>8. Exposed(file) = g[n] /\ g[0] = file.tags /\ g[n] \in [Tags -> Seq(Wording)]
  BY <1>2, <1>6 DEF Exposes
<1>. QED BY <1>3, <1>6, <1>7, <1>8

\* Two files with the same comments that agree on a tag are read alike there.
LEMMA ExposedAlike ==
  ASSUME NEW file, AFile(file), NEW other, AFile(other), other.comments = file.comments,
         NEW tag \in Tags, other.tags[tag] = file.tags[tag]
  PROVE  Exposed(other)[tag] = Exposed(file)[tag]
<1>1. PICK n \in Nat : n = Len(file.comments)
  BY DEF AFile
<1>2. PICK g : Exposes(file, n, g)
  BY <1>1, ExposedInTurn
<1>3. PICK h : Exposes(other, n, h)
  BY <1>1, ExposedInTurn
<1>4. PICK A : A = {k \in 0..n : h[k][tag] = g[k][tag]}
  OBVIOUS
<1>5. 0 \in A
  BY <1>2, <1>3, <1>4 DEF Exposes
<1>6. ASSUME NEW k \in 0..n, k \in A, k < n PROVE k + 1 \in A
  <2>1. k + 1 \in 1..n /\ (k + 1) - 1 = k /\ k + 1 \in 0..n /\ k \in 0..n
    BY <1>6
  <2>2. PICK line \in Comment : line = file.comments[k + 1]
    <3>1. PICK C : C = Comment
      OBVIOUS
    <3>2. file.comments \in Seq(C)
      BY <3>1 DEF AFile
    <3>3. file.comments[k + 1] \in C
      BY <1>1, <2>1, <3>2
    <3>. QED BY <3>1, <3>3
  <2>3. PICK s \in [Tags -> Seq(Wording)] : s = g[k] /\ g[k + 1] = WithLine(s, line)
    BY <1>2, <2>1, <2>2 DEF Exposes
  <2>4. PICK t \in [Tags -> Seq(Wording)] : t = h[k] /\ h[k + 1] = WithLine(t, line)
    BY <1>3, <2>1, <2>2 DEF Exposes
  <2>5. s[tag] = t[tag]
    BY <1>4, <1>6, <2>3, <2>4
  <2>6. WithLine(t, line)[tag] = WithLine(s, line)[tag]
    <3>1. CASE tag # line.tag
      BY <2>5, <3>1, LineTyped
    <3>2. CASE tag = line.tag
      BY <2>5, <3>2 DEF WithLine
    <3>. QED BY <3>1, <3>2
  <2>. QED BY <1>4, <2>1, <2>3, <2>4, <2>6
<1>7. n \in A /\ n \in 0..n
  BY <1>5, <1>6, UpTo
<1>. QED BY <1>2, <1>3, <1>4, <1>7 DEF Exposes

\* What a field is, of its texts.
ReadOf(texts, field) ==
  IF field \in Lists THEN MultiValues(texts)
  ELSE IF field \in Tabled \cup {"track_number", "language"} THEN Normalized(field, First(texts))
  ELSE First(texts)

\* The adapter reads a field so.
LEMMA ParsedIs ==
  ASSUME NEW file, NEW field \in Fields
  PROVE  Parsed(file)[field] = ReadOf(Values(Exposed(file), field), field)
BY DEF Parsed, ReadOf

\* The comments say nothing of a field.
Plainly(file, field) ==
  \A i \in DOMAIN Aliases[field] : Exposed(file)[Aliases[field][i]] = file.tags[Aliases[field][i]]

\* They say nothing of a field that no comment can embed, nor if there are none.
LEMMA PlainlyRead ==
  ASSUME NEW file, AFile(file), NEW field \in Fields,
         file.comments = <<>> \/ field \notin {"language", "channels", "rotation_suitability"}
  PROVE  Plainly(file, field)
<1>1. \A i \in DOMAIN Aliases[field] : Aliases[field][i] \in Tags
  <2>1. PICK G : G = Tags
    OBVIOUS
  <2>2. Aliases[field] \in Seq(G)
    BY <2>1, FieldAliases
  <2>. QED BY <2>1, <2>2
<1>2. field \notin {"language", "channels", "rotation_suitability"} =>
        \A i \in DOMAIN Aliases[field] : Aliases[field][i] \notin Embedded
  BY DEF Fields, Aliases, Embedded
<1>. QED BY <1>1, <1>2, ExposedRead DEF Plainly

\* The first tag of a field has its text, and if that is none, the other has none.
Leads(file, field, text) ==
  /\ file.tags[Aliases[field][1]] = OneText(text)
  /\ text = <<>> /\ Len(Aliases[field]) = 2 => file.tags[Aliases[field][2]] = <<>>

\* It is the first of the texts of its field.
LEMMA LeadIsFirst ==
  ASSUME NEW file, AFile(file), NEW field \in Fields, Plainly(file, field),
         NEW text \in Wording, Leads(file, field, text)
  PROVE  First(Values(Exposed(file), field)) = text
<1>1. PICK T : T = Wording
  OBVIOUS
<1>2. PICK tags \in [Tags -> Seq(T)] : tags = Exposed(file)
  BY <1>1, ExposedRead
<1>3. PICK s : s = Aliases[field]
  OBVIOUS
<1>4. PICK G : G = Tags
  OBVIOUS
<1>5. s \in Seq(G) /\ Len(s) \in {1, 2}
  BY <1>3, <1>4, FieldAliases
<1>6. /\ 1 \in DOMAIN s /\ s[1] \in Tags
      /\ Len(s) = 2 => 2 \in DOMAIN s /\ s[2] \in Tags
  BY <1>4, <1>5
<1>7. /\ tags[s[1]] = OneText(text)
      /\ text = <<>> /\ Len(s) = 2 => tags[s[2]] = <<>>
  BY <1>2, <1>3, <1>6 DEF Leads, Plainly
<1>8. PICK texts : texts = FieldTexts(tags, field)
  OBVIOUS
<1>9. texts = IF Len(s) = 1 THEN tags[s[1]] ELSE tags[s[1]] \o tags[s[2]]
  BY <1>3, <1>8 DEF FieldTexts
<1>10. /\ texts = <<>> => Values(tags, field) = <<>>
       /\ texts # <<>> /\ texts[1] # <<>> => Values(tags, field) # <<>> /\ Values(tags, field)[1] = texts[1]
  <2>1. <<>> \in Seq(Full)
    OBVIOUS
  <2>. QED BY <1>1, <1>8, <2>1, ValuesPresent
<1>11. CASE text = <<>>
  <2>1. tags[s[1]] = <<>> /\ (Len(s) = 2 => tags[s[2]] = <<>>)
    BY <1>7, <1>11 DEF OneText
  <2>2. <<>> \o <<>> = <<>>
    OBVIOUS
  <2>3. texts = <<>>
    BY <1>5, <1>9, <2>1, <2>2
  <2>. QED BY <1>2, <1>10, <1>11, <2>3 DEF First
<1>12. CASE text # <<>>
  <2>1. tags[s[1]] = <<text>>
    BY <1>7, <1>12 DEF OneText
  <2>2. <<text>> # <<>> /\ <<text>>[1] = text
    OBVIOUS
  <2>3. Len(s) = 2 => <<text>> \o tags[s[2]] # <<>> /\ (<<text>> \o tags[s[2]])[1] = text
    <3>1. ASSUME NEW b \in Seq(T) PROVE <<text>> \o b # <<>> /\ (<<text>> \o b)[1] = text
      BY <1>1
    <3>2. Len(s) = 2 => tags[s[2]] \in Seq(T)
      BY <1>6
    <3>. QED BY <3>1, <3>2
  <2>4. texts # <<>> /\ texts[1] = text
    BY <1>5, <1>9, <2>1, <2>2, <2>3
  <2>. QED BY <1>2, <1>10, <1>12, <2>4 DEF First
<1>. QED BY <1>11, <1>12

\* The first tag of a field has a list of names, the other has none.
Names(file, field, names) ==
  /\ file.tags[Aliases[field][1]] = NamesAsTexts(names)
  /\ Len(Aliases[field]) = 2 => file.tags[Aliases[field][2]] = <<>>

\* Such names are read as they were written, if they are distinct.
LEMMA NamesRead ==
  ASSUME NEW file, AFile(file), NEW field \in Fields, field \in Lists, Plainly(file, field),
         NEW names \in Wording, Distinctly(names), Names(file, field, names)
  PROVE  Parsed(file)[field] = names
<1>2. PICK tags \in [Tags -> Seq(Wording)] : tags = Exposed(file)
  BY ExposedRead
<1>3. PICK s : s = Aliases[field]
  OBVIOUS
<1>4. PICK G : G = Tags
  OBVIOUS
<1>5. s \in Seq(G) /\ Len(s) \in {1, 2}
  BY <1>3, <1>4, FieldAliases
<1>6. 1 \in DOMAIN s /\ (Len(s) = 2 => 2 \in DOMAIN s)
  BY <1>5
<1>7. tags[s[1]] = NamesAsTexts(names) /\ (Len(s) = 2 => tags[s[2]] = <<>>)
  BY <1>2, <1>3, <1>6 DEF Names, Plainly
<1>8. NamesAsTexts(names) \in Seq(Full)
  BY NamesReadBack
<1>9. FieldTexts(tags, field) = NamesAsTexts(names)
  <2>1. PICK F : F = Full
    OBVIOUS
  <2>2. NamesAsTexts(names) \o <<>> = NamesAsTexts(names)
    BY <1>8, <2>1
  <2>. QED BY <1>3, <1>5, <1>7, <2>2 DEF FieldTexts
<1>10. Values(tags, field) = NamesAsTexts(names)
  BY <1>8, <1>9, ValuesPresent
<1>11. Parsed(file)[field] = MultiValues(Values(tags, field))
  BY <1>2, ParsedIs DEF ReadOf
<1>. QED BY <1>10, <1>11, NamesKept

\* What is normalized stays.
LEMMA NormalizedOnce ==
  ASSUME NEW field \in {"track_number", "language", "energy"}, NEW text \in Wording,
         NEW value, value = Normalized(field, text)
  PROVE  value \in Wording /\ Normalized(field, value) = value
<1>1. PICK Q : Q = Word
  OBVIOUS
<1>2. text \in Seq(Q) /\ <<>> \in Seq(Q) /\ \A x \in Q : <<x>> \in Seq(Q) /\ <<x>> # <<>> /\ <<x>>[1] = x
  BY <1>1 DEF Wording
<1>3. "3" \in Q /\ "no" \in Q
  BY <1>1 DEF Word
<1>4. value \in Seq(Q)
  BY <1>2, <1>3 DEF Normalized, KnownAs
<1>5. value \in {text, <<>>, <<"3">>, <<"no">>}
  BY <1>2 DEF Normalized, KnownAs
<1>6. Normalized(field, value) = value
  BY <1>2, <1>3, <1>5 DEF Normalized, KnownAs
<1>. QED BY <1>1, <1>4, <1>6 DEF Wording

\* The label of a rotation is read as the value it was made of.
LEMMA LabelRead ==
  ASSUME NEW text \in Wording, NEW value, value = Normalized("rotation_suitability", text)
  PROVE  /\ value \in Wording /\ RotationLabel(value) \in Wording
         /\ Normalized("rotation_suitability", RotationLabel(value)) = value
<1>1. PICK Q : Q = Word
  OBVIOUS
<1>2. text \in Seq(Q) /\ <<>> \in Seq(Q) /\ \A x \in Q : <<x>> \in Seq(Q) /\ <<x>> # <<>> /\ <<x>>[1] = x
  BY <1>1 DEF Wording
<1>3. value \in {<<>>, <<"suitable">>, <<"not_suitable">>, <<"unassessed">>}
  BY DEF Normalized, KnownAs
<1>4. /\ RotationLabel(<<>>) = <<>> /\ RotationLabel(<<"suitable">>) = <<"Rotasjonsverdig">>
      /\ RotationLabel(<<"not_suitable">>) = <<"Ikke Rotasjonsverdig">>
      /\ RotationLabel(<<"unassessed">>) = <<"Ikke vurdert">>
  BY DEF RotationLabel
<1>5. /\ Normalized("rotation_suitability", <<>>) = <<>>
      /\ Normalized("rotation_suitability", <<"Rotasjonsverdig">>) = <<"suitable">>
      /\ Normalized("rotation_suitability", <<"Ikke Rotasjonsverdig">>) = <<"not_suitable">>
      /\ Normalized("rotation_suitability", <<"Ikke vurdert">>) = <<"unassessed">>
  BY DEF Normalized, KnownAs
<1>6. {"suitable", "not_suitable", "unassessed", "Rotasjonsverdig", "Ikke Rotasjonsverdig", "Ikke vurdert"} \subseteq Q
  BY <1>1 DEF Word
<1>. QED BY <1>1, <1>2, <1>3, <1>4, <1>5, <1>6 DEF Wording

-----------------------------------------------------------------------------
(* The credits of a recording.                                             *)

\* A credit.
Credit == [role : STRING, credited : Wording, identity : Wording, party : Wording]
\* What the catalogue says of a recording.
CatalogueOf(c) ==
  /\ c.title \in Wording /\ c.isrc \in Wording /\ c.credits \in Seq(Credit)
  /\ \/ c.release = <<>>
     \/ \E r : c.release = <<r>> /\ r.album \in Wording /\ r.track \in Wording /\ r.date \in Wording
               /\ r.barcode \in Wording /\ Normalized("track_number", r.track) = r.track

\* The credits in some of the roles.
InRoles(roles) == {k \in Credit : k.role \in roles}

\* They are chosen one by one.
LEMMA CreditsIn ==
  ASSUME NEW c, CatalogueOf(c), NEW roles
  PROVE  /\ \E seqs : Singly(c.credits, InRoles(roles), seqs) /\ CreditsOf(c, roles) = Concat(seqs)
         /\ CreditsOf(c, roles) \in Seq(InRoles(roles))
<1>1. PICK C : C = Credit
  OBVIOUS
<1>2. PICK K : K = InRoles(roles)
  OBVIOUS
<1>3. PICK list : list = c.credits
  OBVIOUS
<1>4. list \in Seq(C)
  BY <1>1, <1>3 DEF CatalogueOf
<1>5. PICK seqs : seqs = [i \in DOMAIN list |-> If(list[i].role \in roles, <<list[i]>>)]
  OBVIOUS
<1>6. CreditsOf(c, roles) = Concat(seqs)
  BY <1>3, <1>5, Zenon DEF CreditsOf, Filtered
<1>7. Singly(list, K, seqs)
  <2>1. \A i \in DOMAIN list : list[i] \in C
    BY <1>4
  <2>2. \A i \in DOMAIN list : list[i].role \in roles <=> list[i] \in K
    BY <1>1, <1>2, <2>1 DEF InRoles
  <2>3. \A i \in DOMAIN list :
          If(list[i].role \in roles, <<list[i]>>) = IF list[i] \in K THEN <<list[i]>> ELSE <<>>
    BY <2>2 DEF If
  <2>. QED BY <1>5, <2>3 DEF Singly
<1>8. Concat(seqs) \in Seq(C \cap K)
  <2>1. PICK n \in Nat : n = Len(list)
    BY <1>4
  <2>. QED BY <1>4, <1>7, <2>1, PassedInTurn
<1>9. C \cap K = K
  BY <1>1, <1>2 DEF InRoles
<1>. QED BY <1>2, <1>3, <1>6, <1>7, <1>8, <1>9

\* How a contributor is called.
LEMMA NameIsText ==
  ASSUME NEW k \in Credit
  PROVE  TagName(k) \in Wording /\ DisplayCredit(k) \in Wording
<1>1. PICK W : W = Wording
  OBVIOUS
<1>2. k.credited \in W /\ k.identity \in W /\ k.party \in W
  BY <1>1 DEF Credit
<1>. QED BY <1>1, <1>2 DEF TagName, DisplayCredit

\* What the synchronisation calls those who did something.
LEMMA NamesOfRole ==
  ASSUME NEW c, CatalogueOf(c), NEW role, NEW of, of = CreditsOf(c, {role})
  PROVE  /\ TagNames(c, role) \in Seq(Wording) /\ DOMAIN TagNames(c, role) = DOMAIN of
         /\ \A i \in DOMAIN of : TagNames(c, role)[i] = TagName(of[i]) /\ of[i] \in Credit
<1>1. PICK K : K = InRoles({role})
  OBVIOUS
<1>2. of \in Seq(K)
  BY <1>1, CreditsIn
<1>9. PICK l : l = of
  OBVIOUS
<1>10. l \in Seq(K)
  BY <1>2, <1>9
<1>11. Len(l) \in Nat /\ DOMAIN l = 1..Len(l) /\ \A i \in 1..Len(l) : l[i] \in K
  BY <1>10
<1>3. PICK n \in Nat : n = Len(of) /\ DOMAIN of = 1..n /\ \A i \in 1..n : of[i] \in K
  BY <1>9, <1>11
<1>4. \A i \in 1..n : of[i] \in Credit
  BY <1>1, <1>3 DEF InRoles
<1>5. PICK list : list = TagNames(c, role)
  OBVIOUS
<1>6. DOMAIN list = 1..n /\ list = [i \in DOMAIN list |-> list[i]] /\ \A i \in 1..n : list[i] = TagName(of[i])
  BY <1>3, <1>5 DEF TagNames
<1>7. \A i \in 1..n : list[i] \in Wording
  BY <1>4, <1>6, NameIsText
<1>8. list \in Seq(Wording)
  BY <1>6, <1>7, ListMade
<1>. QED BY <1>3, <1>4, <1>5, <1>6, <1>8

\* Plain names are texts of one name.
LEMMA PlainName ==
  ASSUME NEW c, CatalogueOf(c), PlainCredits(c), NEW roles
  PROVE  \A i \in DOMAIN CreditsOf(c, roles) :
           \E x \in Word : TagName(CreditsOf(c, roles)[i]) = <<x>>
<1>1. PICK list, C : list = c.credits /\ C = Credit
  OBVIOUS
<1>2. list \in Seq(C)
  BY <1>1 DEF CatalogueOf
<1>3. PICK P : P = {k \in C : Len(TagName(k)) = 1}
  OBVIOUS
<1>4. list \in Seq(P)
  <2>1. PICK n \in Nat : n = Len(list) /\ DOMAIN list = 1..n
    BY <1>2
  <2>2. \A i \in 1..n : list[i] \in C /\ Len(TagName(list[i])) = 1
    BY <1>1, <1>2, <2>1 DEF PlainCredits
  <2>3. list = [i \in DOMAIN list |-> list[i]]
    BY <1>2
  <2>4. \A i \in 1..n : list[i] \in P
    BY <1>3, <2>2
  <2>. QED BY <2>1, <2>3, <2>4, ListMade
<1>5. PICK seqs : Singly(list, InRoles(roles), seqs) /\ CreditsOf(c, roles) = Concat(seqs)
  BY <1>1, CreditsIn
<1>6. Concat(seqs) \in Seq(P \cap InRoles(roles))
  <2>1. PICK n \in Nat : n = Len(list)
    BY <1>4
  <2>. QED BY <1>4, <1>5, <2>1, PassedInTurn
<1>7. PICK of, Q : of = CreditsOf(c, roles) /\ Q = P \cap InRoles(roles)
  OBVIOUS
<1>8. of \in Seq(Q)
  BY <1>5, <1>6, <1>7
<1>9. \A i \in DOMAIN of : of[i] \in P
  BY <1>7, <1>8
<1>10. ASSUME NEW k \in P PROVE \E x \in Word : TagName(k) = <<x>>
  <2>1. k \in Credit /\ Len(TagName(k)) = 1
    BY <1>1, <1>3
  <2>2. PICK t : t = TagName(k)
    OBVIOUS
  <2>3. t \in Seq(Word) /\ Len(t) = 1
    BY <2>1, <2>2, NameIsText DEF Wording
  <2>4. t[1] \in Word /\ t = <<t[1]>>
    BY <2>3
  <2>. QED BY <2>2, <2>4
<1>. QED BY <1>7, <1>9, <1>10

\* A list of texts of one name is a list of names.
LEMMA NamesMade ==
  ASSUME NEW texts \in Seq(Wording), \A i \in DOMAIN texts : \E x \in Word : texts[i] = <<x>>,
         Distinctly(texts)
  PROVE  \E names \in Wording : texts = NamesAsTexts(names) /\ Distinctly(names)
<1>1. PICK n \in Nat : n = Len(texts) /\ DOMAIN texts = 1..n
  OBVIOUS
<1>2. PICK names : names = [i \in 1..n |-> texts[i][1]]
  OBVIOUS
<1>3. \A i \in 1..n : names[i] \in Word /\ texts[i] = <<names[i]>>
  <2>1. ASSUME NEW i \in 1..n PROVE names[i] \in Word /\ texts[i] = <<names[i]>>
    <3>1. PICK x \in Word : texts[i] = <<x>>
      BY <1>1
    <3>2. <<x>>[1] = x
      OBVIOUS
    <3>. QED BY <1>2, <3>1, <3>2
  <2>. QED BY <2>1
<1>4. DOMAIN names = 1..n /\ names = [i \in DOMAIN names |-> names[i]]
  BY <1>2
<1>5. names \in Wording
  BY <1>3, <1>4, ListMade DEF Wording
<1>6. texts = NamesAsTexts(names)
  <2>1. texts = [i \in 1..n |-> texts[i]]
    BY <1>1
  <2>. QED BY <1>3, <1>4, <2>1 DEF NamesAsTexts
<1>7. Distinctly(names)
  BY <1>1, <1>3, <1>4 DEF Distinctly
<1>. QED BY <1>5, <1>6, <1>7

-----------------------------------------------------------------------------
(* Writing the tags of the catalogue.                                      *)

\* The tags that a synchronisation writes.
RecordingKeys == {"TITLE", "ISRC", "ARTIST", "COMPOSER"}
ReleaseKeys == {"ALBUM", "TRACKNUMBER", "DATE", "BARCODE"}

\* A file after the tags of the catalogue were written into it.
Holds(after, file, c) ==
  /\ after.comments = file.comments
  /\ after.tags["TITLE"] = OneText(c.title) /\ after.tags["ISRC"] = OneText(c.isrc)
  /\ after.tags["ARTIST"] = OneText(First(TagNames(c, "primary")))
  /\ after.tags["COMPOSER"] = TagNames(c, "composer")
  /\ c.release # <<>> =>
       /\ after.tags["ALBUM"] = OneText(c.release[1].album)
       /\ after.tags["TRACKNUMBER"] = OneText(c.release[1].track)
       /\ after.tags["DATE"] = OneText(c.release[1].date)
       /\ after.tags["BARCODE"] = OneText(c.release[1].barcode)
  /\ \A tag \in Tags \ (RecordingKeys \cup ReleaseKeys) : after.tags[tag] = file.tags[tag]

\* A table with some of its entries replaced is a table.
LEMMA UpdatedTyped ==
  ASSUME NEW Q, NEW table \in [Tags -> Q], NEW entries, \A key \in DOMAIN entries : entries[key] \in Q
  PROVE  /\ Updated(table, entries) \in [Tags -> Q]
         /\ \A key \in Tags : Updated(table, entries)[key] = IF key \in DOMAIN entries THEN entries[key] ELSE table[key]
BY DEF Updated

\* A text is written as a list of texts.
LEMMA TextWritten ==
  ASSUME NEW text \in Wording
  PROVE  OneText(text) \in Seq(Wording)
<1>1. PICK W : W = Wording
  OBVIOUS
<1>. QED BY <1>1 DEF OneText

\* So are names.
LEMMA NamesWritten ==
  ASSUME NEW names \in Wording
  PROVE  NamesAsTexts(names) \in Seq(Wording)
<1>1. PICK W, F, list : W = Wording /\ F = Full /\ list = NamesAsTexts(names)
  OBVIOUS
<1>2. list \in Seq(F) /\ F \subseteq W
  BY <1>1, NamesReadBack DEF Full
<1>3. list \in Seq(W)
  BY <1>2
<1>. QED BY <1>1, <1>3

\* The tags below are tags that the adapter knows.
LEMMA NamedTags ==
  /\ RecordingKeys \subseteq Tags /\ ReleaseKeys \subseteq Tags /\ Embedded \subseteq Tags
  /\ {"TRACK", "YEAR", "UPC", "GENRE", "RATING", "ENERGY", "CHANNEL", "ROTASJON"} \subseteq Tags
<1>1. ASSUME NEW f \in DOMAIN Aliases, NEW i \in DOMAIN Aliases[f] PROVE Aliases[f][i] \in Tags
  BY DEF Tags, Fields, Range
<1>2. ASSUME NEW f \in DOMAIN Aliases, NEW a, Aliases[f] = <<a>> PROVE a \in Tags
  <2>1. 1 \in DOMAIN <<a>> /\ <<a>>[1] = a
    OBVIOUS
  <2>. QED BY <1>1, <1>2, <2>1
<1>3. ASSUME NEW f \in DOMAIN Aliases, NEW a, NEW b, Aliases[f] = <<a, b>> PROVE a \in Tags /\ b \in Tags
  <2>1. 1 \in DOMAIN <<a, b>> /\ 2 \in DOMAIN <<a, b>> /\ <<a, b>>[1] = a /\ <<a, b>>[2] = b
    OBVIOUS
  <2>. QED BY <1>1, <1>3, <2>1
<1>4. "TITLE" \in Tags /\ "ARTIST" \in Tags /\ "COMPOSER" \in Tags /\ "ISRC" \in Tags
  BY <1>2 DEF Aliases
<1>5. "ALBUM" \in Tags /\ "GENRE" \in Tags /\ "LANGUAGE" \in Tags
  BY <1>2 DEF Aliases
<1>6. "TRACKNUMBER" \in Tags /\ "TRACK" \in Tags /\ "DATE" \in Tags /\ "YEAR" \in Tags
  BY <1>3 DEF Aliases
<1>7. "BARCODE" \in Tags /\ "UPC" \in Tags /\ "RATING" \in Tags /\ "ENERGY" \in Tags
  BY <1>3 DEF Aliases
<1>8. "KANAL" \in Tags /\ "CHANNEL" \in Tags /\ "ROTATION" \in Tags /\ "ROTASJON" \in Tags
  BY <1>3 DEF Aliases
<1>. QED BY <1>4, <1>5, <1>6, <1>7, <1>8 DEF RecordingKeys, ReleaseKeys, Embedded

\* The tags of the catalogue are lists of texts.
LEMMA CatalogueTyped ==
  ASSUME NEW c, CatalogueOf(c)
  PROVE  /\ DOMAIN RecordingTags(c) = RecordingKeys
         /\ \A key \in RecordingKeys : RecordingTags(c)[key] \in Seq(Wording)
         /\ c.release # <<>> => /\ DOMAIN ReleaseTags(c.release[1]) = ReleaseKeys
                                /\ \A key \in ReleaseKeys : ReleaseTags(c.release[1])[key] \in Seq(Wording)
<1>1. PICK W : W = Wording
  OBVIOUS
<1>2. TagNames(c, "primary") \in Seq(W) /\ TagNames(c, "composer") \in Seq(W)
  BY <1>1, NamesOfRole
<1>3. First(TagNames(c, "primary")) \in W
  <2>1. <<>> \in W
    BY <1>1 DEF Wording
  <2>. QED BY <1>2, <2>1 DEF First
<1>4. /\ OneText(c.title) \in Seq(W) /\ OneText(c.isrc) \in Seq(W)
      /\ OneText(First(TagNames(c, "primary"))) \in Seq(W)
  BY <1>1, <1>3, TextWritten DEF CatalogueOf
<1>5. /\ DOMAIN RecordingTags(c) = RecordingKeys
      /\ \A key \in RecordingKeys : RecordingTags(c)[key] \in Seq(W)
  BY <1>2, <1>4 DEF RecordingTags, RecordingKeys
<1>6. ASSUME c.release # <<>>
      PROVE  /\ DOMAIN ReleaseTags(c.release[1]) = ReleaseKeys
             /\ \A key \in ReleaseKeys : ReleaseTags(c.release[1])[key] \in Seq(W)
  <2>1. PICK r : c.release = <<r>> /\ r.album \in W /\ r.track \in W /\ r.date \in W /\ r.barcode \in W
    BY <1>1, <1>6 DEF CatalogueOf
  <2>2. c.release[1] = r
    BY <2>1
  <2>3. /\ OneText(r.album) \in Seq(W) /\ OneText(r.track) \in Seq(W)
        /\ OneText(r.date) \in Seq(W) /\ OneText(r.barcode) \in Seq(W)
    BY <1>1, <2>1, TextWritten
  <2>. QED BY <2>2, <2>3 DEF ReleaseTags, ReleaseKeys
<1>. QED BY <1>1, <1>5, <1>6

\* The tags of the catalogue are written, the others and the comments stay.
LEMMA CatalogueWritten ==
  ASSUME NEW file, AFile(file), NEW c, CatalogueOf(c), NEW after, after = WrittenTo(file, c)
  PROVE  AFile(after) /\ Holds(after, file, c)
<1>1. PICK Q : Q = Seq(Wording)
  OBVIOUS
<1>2. PICK tags : tags = Updated(file.tags, RecordingTags(c))
  OBVIOUS
<1>3. /\ tags \in [Tags -> Q]
      /\ \A key \in RecordingKeys : tags[key] = RecordingTags(c)[key]
      /\ \A key \in Tags \ RecordingKeys : tags[key] = file.tags[key]
  <2>1. file.tags \in [Tags -> Q]
    BY <1>1 DEF AFile
  <2>2. /\ DOMAIN RecordingTags(c) = RecordingKeys
        /\ \A key \in RecordingKeys : RecordingTags(c)[key] \in Q
    BY <1>1, CatalogueTyped
  <2>. QED BY <1>2, <2>1, <2>2, UpdatedTyped, NamedTags
<1>4. PICK all : all = IF c.release = <<>> THEN tags ELSE Updated(tags, ReleaseTags(c.release[1]))
  OBVIOUS
<1>5. /\ all \in [Tags -> Q]
      /\ \A key \in RecordingKeys : all[key] = RecordingTags(c)[key]
      /\ c.release # <<>> => \A key \in ReleaseKeys : all[key] = ReleaseTags(c.release[1])[key]
      /\ \A key \in Tags \ (RecordingKeys \cup ReleaseKeys) : all[key] = file.tags[key]
  <2>1. CASE c.release = <<>>
    BY <1>3, <1>4, <2>1
  <2>2. CASE c.release # <<>>
    <3>1. PICK entries : entries = ReleaseTags(c.release[1])
      OBVIOUS
    <3>2. DOMAIN entries = ReleaseKeys /\ \A key \in ReleaseKeys : entries[key] \in Q
      BY <1>1, <2>2, <3>1, CatalogueTyped
    <3>3. all = Updated(tags, entries)
      BY <1>4, <2>2, <3>1
    <3>4. /\ all \in [Tags -> Q]
          /\ \A key \in Tags : all[key] = IF key \in ReleaseKeys THEN entries[key] ELSE tags[key]
      BY <1>3, <3>2, <3>3, UpdatedTyped
    <3>5. RecordingKeys \cap ReleaseKeys = {}
      BY DEF RecordingKeys, ReleaseKeys
    <3>. QED BY <1>3, <3>1, <3>4, <3>5, NamedTags
  <2>. QED BY <2>1, <2>2
<1>6. after = [file EXCEPT !.tags = all]
  BY <1>2, <1>4, Zenon DEF WrittenTo
<1>7. after.tags = all /\ after.comments = file.comments /\ AFile(after)
  BY <1>1, <1>5, <1>6 DEF AFile
<1>8. /\ RecordingTags(c)["TITLE"] = OneText(c.title) /\ RecordingTags(c)["ISRC"] = OneText(c.isrc)
      /\ RecordingTags(c)["ARTIST"] = OneText(First(TagNames(c, "primary")))
      /\ RecordingTags(c)["COMPOSER"] = TagNames(c, "composer")
  BY DEF RecordingTags
<1>9. /\ ReleaseTags(c.release[1])["ALBUM"] = OneText(c.release[1].album)
      /\ ReleaseTags(c.release[1])["TRACKNUMBER"] = OneText(c.release[1].track)
      /\ ReleaseTags(c.release[1])["DATE"] = OneText(c.release[1].date)
      /\ ReleaseTags(c.release[1])["BARCODE"] = OneText(c.release[1].barcode)
  BY DEF ReleaseTags
<1>. QED BY <1>5, <1>7, <1>8, <1>9 DEF Holds, RecordingKeys, ReleaseKeys

\* A field with one tag, and one with two.
SoleAlias(field, tag) == field \in Fields /\ Aliases[field][1] = tag /\ Len(Aliases[field]) = 1
TwoAliases(field, tag, other) ==
  /\ field \in Fields /\ Aliases[field][1] = tag
  /\ Len(Aliases[field]) = 2 /\ Aliases[field][2] = other

\* These are the names of the tags (TAG_ALIASES).
LEMMA KnownAliases ==
  /\ SoleAlias("title", "TITLE") /\ SoleAlias("artists", "ARTIST") /\ SoleAlias("composers", "COMPOSER")
  /\ SoleAlias("isrc", "ISRC") /\ SoleAlias("album", "ALBUM") /\ SoleAlias("genre", "GENRE")
  /\ SoleAlias("language", "LANGUAGE")
  /\ TwoAliases("track_number", "TRACKNUMBER", "TRACK") /\ TwoAliases("date", "DATE", "YEAR")
  /\ TwoAliases("barcode", "BARCODE", "UPC") /\ TwoAliases("energy", "RATING", "ENERGY")
  /\ TwoAliases("channels", "KANAL", "CHANNEL") /\ TwoAliases("rotation_suitability", "ROTATION", "ROTASJON")
<1>1. /\ Aliases.title = <<"TITLE">> /\ Aliases.artists = <<"ARTIST">> /\ Aliases.composers = <<"COMPOSER">>
      /\ Aliases.isrc = <<"ISRC">> /\ Aliases.album = <<"ALBUM">>
      /\ Aliases.track_number = <<"TRACKNUMBER", "TRACK">> /\ Aliases.date = <<"DATE", "YEAR">>
      /\ Aliases.barcode = <<"BARCODE", "UPC">> /\ Aliases.genre = <<"GENRE">>
      /\ Aliases.language = <<"LANGUAGE">> /\ Aliases.energy = <<"RATING", "ENERGY">>
      /\ Aliases.channels = <<"KANAL", "CHANNEL">>
      /\ Aliases.rotation_suitability = <<"ROTATION", "ROTASJON">>
  BY DEF Aliases
<1>2. Fields = {"title", "artists", "composers", "isrc", "album", "track_number", "date", "barcode",
                "genre", "language", "energy", "channels", "rotation_suitability"}
  BY DEF Fields, Aliases
<1>3. \A a : <<a>>[1] = a /\ Len(<<a>>) = 1
  OBVIOUS
<1>4. \A a, b : <<a, b>>[1] = a /\ <<a, b>>[2] = b /\ Len(<<a, b>>) = 2
  OBVIOUS
<1>5. /\ SoleAlias("title", "TITLE") /\ SoleAlias("artists", "ARTIST") /\ SoleAlias("composers", "COMPOSER")
      /\ SoleAlias("isrc", "ISRC") /\ SoleAlias("album", "ALBUM") /\ SoleAlias("genre", "GENRE")
      /\ SoleAlias("language", "LANGUAGE")
  BY <1>1, <1>2, <1>3 DEF SoleAlias
<1>6. ASSUME NEW field \in Fields, NEW a, NEW b, Aliases[field] = <<a, b>> PROVE TwoAliases(field, a, b)
  BY <1>4, <1>6 DEF TwoAliases
<1>7. /\ TwoAliases("track_number", "TRACKNUMBER", "TRACK") /\ TwoAliases("date", "DATE", "YEAR")
      /\ TwoAliases("barcode", "BARCODE", "UPC")
  BY <1>1, <1>2, <1>6
<1>8. /\ TwoAliases("energy", "RATING", "ENERGY") /\ TwoAliases("channels", "KANAL", "CHANNEL")
      /\ TwoAliases("rotation_suitability", "ROTATION", "ROTASJON")
  BY <1>1, <1>2, <1>6
<1>. QED BY <1>5, <1>7, <1>8

\* A text that leads the tags of its field is read as it was written.
LEMMA TextRead ==
  ASSUME NEW file, AFile(file), NEW text \in Wording,
         NEW field \in {"title", "isrc", "album", "date", "barcode"}, Leads(file, field, text)
  PROVE  Parsed(file)[field] = text
<1>1. /\ field \in Fields /\ field \notin {"language", "channels", "rotation_suitability"}
      /\ field \notin Lists /\ field \notin Tabled \cup {"track_number", "language"}
  BY KnownAliases DEF SoleAlias, TwoAliases, Lists, Tabled
<1>2. Plainly(file, field)
  BY <1>1, PlainlyRead
<1>3. First(Values(Exposed(file), field)) = text
  BY <1>1, <1>2, LeadIsFirst
<1>. QED BY <1>1, <1>3, ParsedIs DEF ReadOf

\* A number or a controlled value that leads the tags of its field is normalized.
LEMMA NormalizedRead ==
  ASSUME NEW file, AFile(file), NEW text \in Wording, NEW field \in Tabled \cup {"track_number", "language"},
         field \in {"track_number", "energy"} \/ file.comments = <<>>, Leads(file, field, text)
  PROVE  Parsed(file)[field] = Normalized(field, text)
<1>1. /\ field \in Fields /\ field \notin Lists
      /\ field \in {"track_number", "energy"} => field \notin {"language", "channels", "rotation_suitability"}
  BY KnownAliases DEF SoleAlias, TwoAliases, Lists, Tabled
<1>2. Plainly(file, field)
  BY <1>1, PlainlyRead
<1>3. First(Values(Exposed(file), field)) = text
  BY <1>1, <1>2, LeadIsFirst
<1>. QED BY <1>1, <1>3, ParsedIs DEF ReadOf

\* Two files with the same comments and the same tags of a field are read alike.
LEMMA ReadAlike ==
  ASSUME NEW file, AFile(file), NEW other, AFile(other), other.comments = file.comments,
         NEW field \in Fields,
         \A i \in DOMAIN Aliases[field] : other.tags[Aliases[field][i]] = file.tags[Aliases[field][i]]
  PROVE  Parsed(other)[field] = Parsed(file)[field]
<1>1. PICK G, s : G = Tags /\ s = Aliases[field]
  OBVIOUS
<1>2. s \in Seq(G)
  BY <1>1, FieldAliases
<1>3. \A i \in DOMAIN s : Exposed(other)[s[i]] = Exposed(file)[s[i]]
  <2>1. \A i \in DOMAIN s : s[i] \in Tags /\ other.tags[s[i]] = file.tags[s[i]]
    BY <1>1, <1>2
  <2>. QED BY <2>1, ExposedAlike
<1>4. [i \in DOMAIN s |-> Exposed(other)[s[i]]] = [i \in DOMAIN s |-> Exposed(file)[s[i]]]
  BY <1>3
<1>5. Values(Exposed(other), field) = Values(Exposed(file), field)
  BY <1>1, <1>4, Zenon DEF Values
<1>. QED BY <1>5, ParsedIs

\* The catalogue has nothing for a field, and the file has a text under its other tag, which
\* a synchronisation leaves alone.
Blanked(c, field) ==
  CASE field = "track_number" -> c.release[1].track = <<>>
    [] field = "date" -> c.release[1].date = <<>>
    [] field = "barcode" -> c.release[1].barcode = <<>>
Spared(file, field) == \E tag \in Range(Tail(Aliases[field])) : file.tags[tag] # <<>>

\* What a file says of a release agrees with the catalogue it was written from, unless an old
\* text shows where the catalogue has nothing.
LEMMA ReleaseRead ==
  ASSUME NEW file, NEW c, CatalogueOf(c), NEW after, AFile(after), Holds(after, file, c),
         c.release # <<>>,
         ~ \E f \in {"track_number", "date", "barcode"} : Blanked(c, f) /\ Spared(file, f),
         NEW of, of = ReleaseTags(c.release[1])
  PROVE  /\ Parsed(after).album = First(of.ALBUM) /\ Parsed(after).track_number = First(of.TRACKNUMBER)
         /\ Parsed(after).date = First(of.DATE) /\ Parsed(after).barcode = First(of.BARCODE)
<1>1. PICK r : /\ c.release[1] = r /\ Normalized("track_number", r.track) = r.track
               /\ r.album \in Wording /\ r.track \in Wording /\ r.date \in Wording /\ r.barcode \in Wording
  BY DEF CatalogueOf
<1>2. /\ after.tags["ALBUM"] = OneText(r.album) /\ after.tags["TRACKNUMBER"] = OneText(r.track)
      /\ after.tags["DATE"] = OneText(r.date) /\ after.tags["BARCODE"] = OneText(r.barcode)
  BY <1>1 DEF Holds
<1>3. /\ after.tags["TRACK"] = file.tags["TRACK"] /\ after.tags["YEAR"] = file.tags["YEAR"]
      /\ after.tags["UPC"] = file.tags["UPC"]
  BY NamedTags DEF Holds, RecordingKeys, ReleaseKeys
<1>4. /\ Range(Tail(Aliases["track_number"])) = {"TRACK"} /\ Range(Tail(Aliases["date"])) = {"YEAR"}
      /\ Range(Tail(Aliases["barcode"])) = {"UPC"}
  <2>1. \A a, b : Tail(<<a, b>>) = <<b>>
    OBVIOUS
  <2>2. \A b : Range(<<b>>) = {b}
    BY DEF Range
  <2>. QED BY <2>1, <2>2 DEF Aliases
<1>5. /\ r.track = <<>> => file.tags["TRACK"] = <<>>
      /\ r.date = <<>> => file.tags["YEAR"] = <<>>
      /\ r.barcode = <<>> => file.tags["UPC"] = <<>>
  BY <1>1, <1>4 DEF Blanked, Spared
<1>6. /\ Leads(after, "album", r.album) /\ Leads(after, "track_number", r.track)
      /\ Leads(after, "date", r.date) /\ Leads(after, "barcode", r.barcode)
  BY <1>2, <1>3, <1>5, KnownAliases DEF Leads, SoleAlias, TwoAliases
<1>7. Parsed(after)["album"] = r.album /\ Parsed(after)["date"] = r.date /\ Parsed(after)["barcode"] = r.barcode
  BY <1>1, <1>6, TextRead
<1>8. Parsed(after)["track_number"] = r.track
  BY <1>1, <1>6, NormalizedRead
<1>9. /\ of.ALBUM = OneText(r.album) /\ of.TRACKNUMBER = OneText(r.track)
      /\ of.DATE = OneText(r.date) /\ of.BARCODE = OneText(r.barcode)
  BY <1>1 DEF ReleaseTags
<1>10. /\ First(of.ALBUM) = r.album /\ First(of.TRACKNUMBER) = r.track
       /\ First(of.DATE) = r.date /\ First(of.BARCODE) = r.barcode
  BY <1>1, <1>9, TextReadBack
<1>. QED BY <1>7, <1>8, <1>10

\* A name that is written alone.
LEMMA NameAlone ==
  ASSUME NEW text \in Wording, text = <<>> \/ \E x \in Word : text = <<x>>
  PROVE  OneText(text) = NamesAsTexts(text) /\ Distinctly(text) /\ (text # <<>> => <<First(text)>> = text)
<1>1. CASE text = <<>>
  <2>1. DOMAIN text = {}
    BY <1>1
  <2>2. NamesAsTexts(text) = <<>>
    BY <1>1 DEF NamesAsTexts
  <2>. QED BY <1>1, <2>1, <2>2 DEF OneText, Distinctly
<1>2. CASE text # <<>>
  <2>1. PICK x \in Word : text = <<x>>
    BY <1>2
  <2>2. DOMAIN <<x>> = {1} /\ <<x>>[1] = x
    OBVIOUS
  <2>3. [i \in DOMAIN <<x>> |-> <<<<x>>[i]>>] = <<<<x>>>>
    BY <2>2
  <2>. QED BY <1>2, <2>1, <2>2, <2>3 DEF OneText, NamesAsTexts, Distinctly, First
<1>. QED BY <1>1, <1>2

\* The first of those who performed.
LEMMA FirstPerformer ==
  ASSUME NEW c, CatalogueOf(c), PlainCredits(c), NEW text, text = First(TagNames(c, "primary"))
  PROVE  text \in Wording /\ (text = <<>> \/ \E x \in Word : text = <<x>>)
<1>1. PICK of : of = CreditsOf(c, {"primary"})
  OBVIOUS
<1>2. PICK list : list = TagNames(c, "primary")
  OBVIOUS
<1>3. /\ list \in Seq(Wording) /\ DOMAIN list = DOMAIN of
      /\ \A i \in DOMAIN of : list[i] = TagName(of[i])
  BY <1>1, <1>2, NamesOfRole
<1>4. \A i \in DOMAIN list : \E x \in Word : list[i] = <<x>>
  BY <1>1, <1>3, PlainName
<1>5. PICK W : W = Wording
  OBVIOUS
<1>6. list # <<>> => 1 \in DOMAIN list /\ list[1] \in W
  BY <1>3, <1>5
<1>7. <<>> \in W
  BY <1>5 DEF Wording
<1>. QED BY <1>2, <1>4, <1>5, <1>6, <1>7 DEF First

\* The composers are a list of names, if they are distinct.
LEMMA ComposerNames ==
  ASSUME NEW c, CatalogueOf(c), PlainCredits(c)
  PROVE  \E names \in Wording : TagNames(c, "composer") = NamesAsTexts(names) /\ Distinctly(names)
<1>1. PICK of : of = CreditsOf(c, {"composer"})
  OBVIOUS
<1>2. PICK list : list = TagNames(c, "composer")
  OBVIOUS
<1>3. /\ list \in Seq(Wording) /\ DOMAIN list = DOMAIN of
      /\ \A i \in DOMAIN of : list[i] = TagName(of[i])
  BY <1>1, <1>2, NamesOfRole
<1>4. \A i \in DOMAIN list : \E x \in Word : list[i] = <<x>>
  BY <1>1, <1>3, PlainName
<1>5. Distinctly(list)
  BY <1>2 DEF PlainCredits, Distinctly
<1>. QED BY <1>2, <1>3, <1>4, <1>5, NamesMade

\* What a file says of a recording agrees with the catalogue it was written from.
LEMMA RecordingRead ==
  ASSUME NEW file, NEW c, CatalogueOf(c), PlainCredits(c), NEW after, AFile(after), Holds(after, file, c),
         NEW wanted, wanted = RecordingTags(c)
  PROVE  /\ Parsed(after).title = First(wanted.TITLE) /\ Parsed(after).isrc = First(wanted.ISRC)
         /\ (IF Parsed(after).artists = <<>> THEN <<>> ELSE <<First(Parsed(after).artists)>>) = First(wanted.ARTIST)
         /\ NamesAsTexts(Parsed(after).composers) = wanted.COMPOSER
<1>1. c.title \in Wording /\ c.isrc \in Wording
  BY DEF CatalogueOf
<1>2. /\ after.tags["TITLE"] = OneText(c.title) /\ after.tags["ISRC"] = OneText(c.isrc)
      /\ after.tags["ARTIST"] = OneText(First(TagNames(c, "primary")))
      /\ after.tags["COMPOSER"] = TagNames(c, "composer")
  BY DEF Holds
<1>3. Leads(after, "title", c.title) /\ Leads(after, "isrc", c.isrc)
  BY <1>2, KnownAliases DEF Leads, SoleAlias
<1>4. Parsed(after)["title"] = c.title /\ Parsed(after)["isrc"] = c.isrc
  BY <1>1, <1>3, TextRead
<1>5. wanted.TITLE = OneText(c.title) /\ wanted.ISRC = OneText(c.isrc)
  BY DEF RecordingTags
<1>6. First(wanted.TITLE) = c.title /\ First(wanted.ISRC) = c.isrc
  BY <1>1, <1>5, TextReadBack
<1>7. PICK text : text = First(TagNames(c, "primary"))
  OBVIOUS
<1>8. text \in Wording /\ (text = <<>> \/ \E x \in Word : text = <<x>>)
  BY <1>7, FirstPerformer
<1>9. OneText(text) = NamesAsTexts(text) /\ Distinctly(text) /\ (text # <<>> => <<First(text)>> = text)
  BY <1>8, NameAlone
<1>10. /\ Plainly(after, "artists") /\ Plainly(after, "composers")
       /\ "artists" \in Fields \cap Lists /\ "composers" \in Fields \cap Lists
  BY PlainlyRead, KnownAliases DEF SoleAlias, Lists
<1>11. Parsed(after)["artists"] = text
  <2>1. Names(after, "artists", text)
    BY <1>2, <1>7, <1>9, KnownAliases DEF Names, SoleAlias
  <2>. QED BY <1>8, <1>9, <1>10, <2>1, NamesRead
<1>12. First(wanted.ARTIST) = text
  <2>1. wanted.ARTIST = OneText(text)
    BY <1>7 DEF RecordingTags
  <2>. QED BY <1>8, <2>1, TextReadBack
<1>13. PICK names \in Wording : TagNames(c, "composer") = NamesAsTexts(names) /\ Distinctly(names)
  BY ComposerNames
<1>14. Parsed(after)["composers"] = names
  <2>1. Names(after, "composers", names)
    BY <1>2, <1>13, KnownAliases DEF Names, SoleAlias
  <2>. QED BY <1>10, <1>13, <2>1, NamesRead
<1>15. wanted.COMPOSER = NamesAsTexts(names)
  BY <1>13 DEF RecordingTags
<1>. QED BY <1>4, <1>6, <1>9, <1>11, <1>12, <1>14, <1>15

\* A file that was synchronised does not deviate from the catalogue, if the names are plain and
\* no old text shows, and says of the radio what it said.
TagsSettled(c, file, after) ==
  LET before == Parsed(file)
      read   == Parsed(after)
      kept(field) == \E tag \in Range(Tail(Aliases[field])) : file.tags[tag] # <<>>
      blank(field) ==
        CASE field = "track_number" -> c.release[1].track = <<>>
          [] field = "date" -> c.release[1].date = <<>>
          [] field = "barcode" -> c.release[1].barcode = <<>>
      shadowed == c.release # <<>> /\ \E f \in {"track_number", "date", "barcode"} : blank(f) /\ kept(f)
  IN  /\ PlainCredits(c) /\ ~shadowed => ~Differs(c, read)
      /\ \A field \in RadioFields : read[field] = before[field]

\* Writing the tags of the catalogue settles a file.
LEMMA SynchronisedSettles ==
  ASSUME NEW file, AFile(file), NEW c, CatalogueOf(c), NEW after, after = WrittenTo(file, c)
  PROVE  TagsSettled(c, file, after)
<1>1. AFile(after) /\ Holds(after, file, c)
  BY CatalogueWritten
<1>2. ASSUME PlainCredits(c),
             ~ (/\ c.release # <<>>
                /\ \E f \in {"track_number", "date", "barcode"} : Blanked(c, f) /\ Spared(file, f))
      PROVE  ~Differs(c, Parsed(after))
  <2>1. PICK wanted : wanted = RecordingTags(c)
    OBVIOUS
  <2>2. PICK read : read = Parsed(after)
    OBVIOUS
  <2>3. /\ read.title = First(wanted.TITLE) /\ read.isrc = First(wanted.ISRC)
        /\ (IF read.artists = <<>> THEN <<>> ELSE <<First(read.artists)>>) = First(wanted.ARTIST)
        /\ NamesAsTexts(read.composers) = wanted.COMPOSER
    BY <1>1, <1>2, <2>1, <2>2, RecordingRead
  <2>4. c.release # <<>> =>
          /\ read.album = First(ReleaseTags(c.release[1]).ALBUM)
          /\ read.track_number = First(ReleaseTags(c.release[1]).TRACKNUMBER)
          /\ read.date = First(ReleaseTags(c.release[1]).DATE)
          /\ read.barcode = First(ReleaseTags(c.release[1]).BARCODE)
    BY <1>1, <1>2, <2>2, ReleaseRead
  <2>. QED BY <2>1, <2>2, <2>3, <2>4, Zenon DEF Differs
<1>3. ASSUME NEW field \in RadioFields PROVE Parsed(after)[field] = Parsed(file)[field]
  <2>1. field \in Fields /\ \A i \in DOMAIN Aliases[field] :
          Aliases[field][i] \in Tags \ (RecordingKeys \cup ReleaseKeys)
    BY NamedTags DEF RadioFields, Fields, Aliases, RecordingKeys, ReleaseKeys, Embedded
  <2>2. after.comments = file.comments
    BY <1>1 DEF Holds
  <2>3. \A i \in DOMAIN Aliases[field] : after.tags[Aliases[field][i]] = file.tags[Aliases[field][i]]
    BY <1>1, <2>1 DEF Holds
  <2>. QED BY <1>1, <2>1, <2>2, <2>3, ReadAlike
<1>. QED BY <1>2, <1>3, Zenon DEF TagsSettled, Blanked, Spared

-----------------------------------------------------------------------------
(* Generating a file.                                                      *)

\* What is read of a file: texts, lists of distinct names, and values that stay when they
\* are written and read again.
AsRead(p) ==
  /\ \A field \in Fields : p[field] \in Wording
  /\ \A field \in Lists : Distinctly(p[field])
  /\ \A field \in {"track_number", "language", "energy"} : Normalized(field, p[field]) = p[field]
  /\ LET label == RotationLabel(p["rotation_suitability"])
     IN  label \in Wording /\ Normalized("rotation_suitability", label) = p["rotation_suitability"]

\* A file that is read is read so.
LEMMA FilesAreRead ==
  ASSUME NEW file, AFile(file), NEW p, p = Parsed(file)
  PROVE  AsRead(p)
<1>1. \A field \in Fields : Values(Exposed(file), field) \in Seq(Full)
  BY ExposedRead, ValuesPresent
<1>2. ASSUME NEW field \in Fields, NEW texts, texts = Values(Exposed(file), field)
      PROVE  /\ p[field] = ReadOf(texts, field) /\ texts \in Seq(Full)
             /\ First(texts) \in Wording
  BY <1>1, <1>2, ParsedIs, FirstIsText
<1>3. ASSUME NEW field \in Fields, field \in Lists
      PROVE  p[field] \in Wording /\ Distinctly(p[field])
  <2>1. PICK texts : texts = Values(Exposed(file), field)
    OBVIOUS
  <2>2. p[field] = MultiValues(texts) /\ texts \in Seq(Full)
    BY <1>2, <1>3, <2>1 DEF ReadOf
  <2>. QED BY <2>2, NamesOnce
<1>4. ASSUME NEW field \in {"track_number", "language", "energy"}
      PROVE  p[field] \in Wording /\ Normalized(field, p[field]) = p[field]
  <2>1. PICK texts : texts = Values(Exposed(file), field)
    OBVIOUS
  <2>2. field \in Fields /\ field \notin Lists /\ field \in Tabled \cup {"track_number", "language"}
    BY KnownAliases DEF SoleAlias, TwoAliases, Lists, Tabled
  <2>3. p[field] = Normalized(field, First(texts)) /\ First(texts) \in Wording
    BY <1>2, <2>1, <2>2 DEF ReadOf
  <2>. QED BY <2>3, NormalizedOnce
<1>5. /\ p["rotation_suitability"] \in Wording /\ RotationLabel(p["rotation_suitability"]) \in Wording
      /\ Normalized("rotation_suitability", RotationLabel(p["rotation_suitability"])) = p["rotation_suitability"]
  <2>1. PICK texts : texts = Values(Exposed(file), "rotation_suitability")
    OBVIOUS
  <2>2. "rotation_suitability" \in Fields /\ "rotation_suitability" \notin Lists
        /\ "rotation_suitability" \in Tabled
    BY KnownAliases DEF SoleAlias, TwoAliases, Lists, Tabled
  <2>3. /\ p["rotation_suitability"] = Normalized("rotation_suitability", First(texts))
        /\ First(texts) \in Wording
    BY <1>2, <2>1, <2>2 DEF ReadOf
  <2>. QED BY <2>3, LabelRead
<1>6. ASSUME NEW field \in Fields, field \notin Lists, field \notin {"track_number", "language", "energy"},
             field # "rotation_suitability"
      PROVE  p[field] \in Wording
  <2>1. PICK texts : texts = Values(Exposed(file), field)
    OBVIOUS
  <2>2. p[field] = First(texts) /\ First(texts) \in Wording
    BY <1>2, <1>6, <2>1 DEF ReadOf, Tabled
  <2>. QED BY <2>2
<1>7. Lists \subseteq Fields
  BY KnownAliases DEF SoleAlias, TwoAliases, Lists
<1>. QED BY <1>3, <1>4, <1>5, <1>6, <1>7 DEF AsRead

\* The tags that are written for the radio.
RadioKeys == {"GENRE", "LANGUAGE", "RATING", "KANAL", "ROTATION"}

\* A file that has the tags of the radio, the other ones that were chosen, and no more.
MadeOf(after, p, entries) ==
  /\ AFile(after) /\ after.comments = <<>>
  /\ \A key \in RadioKeys : after.tags[key] = RadioTags(p)[key]
  /\ \A key \in DOMAIN entries : after.tags[key] = entries[key]
  /\ \A key \in Tags \ (RadioKeys \cup DOMAIN entries) : after.tags[key] = <<>>

\* A generated file is made so.
LEMMA FileMade ==
  ASSUME NEW p, AsRead(p), NEW entries, DOMAIN entries \subseteq Tags \ RadioKeys,
         \A key \in DOMAIN entries : entries[key] \in Seq(Wording),
         NEW after, after = [tags |-> Updated(Updated(Untagged, RadioTags(p)), entries), comments |-> <<>>]
  PROVE  MadeOf(after, p, entries)
<1>1. PICK Q : Q = Seq(Wording)
  OBVIOUS
<1>2. Untagged \in [Tags -> Q] /\ \A key \in Tags : Untagged[key] = <<>>
  BY <1>1 DEF Untagged
<1>3. DOMAIN RadioTags(p) = RadioKeys /\ RadioKeys \subseteq Tags
  BY NamedTags DEF RadioTags, RadioKeys, Embedded
<1>4. \A key \in RadioKeys : RadioTags(p)[key] \in Q
  <2>1. /\ p["genre"] \in Wording /\ p["channels"] \in Wording /\ p["language"] \in Wording
        /\ p["energy"] \in Wording /\ RotationLabel(p["rotation_suitability"]) \in Wording
    BY KnownAliases DEF AsRead, SoleAlias, TwoAliases
  <2>2. \A names \in Wording : NamesAsTexts(names) \in Q
    BY <1>1, NamesWritten
  <2>3. \A text \in Wording : OneText(text) \in Q
    BY <1>1, TextWritten
  <2>4. /\ RadioTags(p)["GENRE"] = NamesAsTexts(p["genre"]) /\ RadioTags(p)["LANGUAGE"] = OneText(p["language"])
        /\ RadioTags(p)["RATING"] = OneText(p["energy"]) /\ RadioTags(p)["KANAL"] = NamesAsTexts(p["channels"])
        /\ RadioTags(p)["ROTATION"] = OneText(RotationLabel(p["rotation_suitability"]))
    BY DEF RadioTags
  <2>. QED BY <2>1, <2>2, <2>3, <2>4 DEF RadioKeys
<1>5. PICK radio : radio = Updated(Untagged, RadioTags(p))
  OBVIOUS
<1>6. /\ radio \in [Tags -> Q]
      /\ \A key \in Tags : radio[key] = IF key \in RadioKeys THEN RadioTags(p)[key] ELSE <<>>
  <2>1. PICK written : written = RadioTags(p)
    OBVIOUS
  <2>2. Untagged \in [Tags -> Q]
    BY <1>2
  <2>3. DOMAIN written = RadioKeys /\ \A key \in DOMAIN written : written[key] \in Q
    BY <1>3, <1>4, <2>1
  <2>4. /\ Updated(Untagged, written) \in [Tags -> Q]
        /\ \A key \in Tags : Updated(Untagged, written)[key] =
                             IF key \in DOMAIN written THEN written[key] ELSE Untagged[key]
    BY <2>2, <2>3 DEF Updated
  <2>. QED BY <1>2, <1>5, <2>1, <2>3, <2>4
<1>7. PICK all : all = Updated(radio, entries)
  OBVIOUS
<1>8. /\ all \in [Tags -> Q]
      /\ \A key \in Tags : all[key] = IF key \in DOMAIN entries THEN entries[key] ELSE radio[key]
  <2>1. radio \in [Tags -> Q] /\ \A key \in DOMAIN entries : entries[key] \in Q
    BY <1>1, <1>6
  <2>2. /\ Updated(radio, entries) \in [Tags -> Q]
        /\ \A key \in Tags : Updated(radio, entries)[key] =
                             IF key \in DOMAIN entries THEN entries[key] ELSE radio[key]
    BY <2>1 DEF Updated
  <2>. QED BY <1>7, <2>2
<1>9. after.tags = all /\ after.comments = <<>> /\ after = [tags |-> all, comments |-> <<>>]
  BY <1>5, <1>7
<1>10. AFile(after)
  <2>1. <<>> \in Seq(Comment)
    OBVIOUS
  <2>. QED BY <1>1, <1>8, <1>9, <2>1 DEF AFile
<1>. QED BY <1>3, <1>6, <1>8, <1>9, <1>10 DEF MadeOf

\* It says of the radio what the file says that it replaces.
LEMMA RadioCarried ==
  ASSUME NEW p, AsRead(p), NEW entries, DOMAIN entries \subseteq RecordingKeys \cup ReleaseKeys,
         NEW after, MadeOf(after, p, entries), NEW field \in RadioFields
  PROVE  Parsed(after)[field] = p[field]
<1>1. /\ after.tags["GENRE"] = NamesAsTexts(p["genre"]) /\ after.tags["LANGUAGE"] = OneText(p["language"])
      /\ after.tags["RATING"] = OneText(p["energy"]) /\ after.tags["KANAL"] = NamesAsTexts(p["channels"])
      /\ after.tags["ROTATION"] = OneText(RotationLabel(p["rotation_suitability"]))
  BY DEF MadeOf, RadioKeys, RadioTags
<1>2. /\ after.tags["ENERGY"] = <<>> /\ after.tags["CHANNEL"] = <<>> /\ after.tags["ROTASJON"] = <<>>
  BY NamedTags DEF MadeOf, RadioKeys, RecordingKeys, ReleaseKeys
<1>3. AFile(after) /\ after.comments = <<>>
  BY DEF MadeOf
<1>4. ASSUME NEW f \in {"genre", "channels"} PROVE Parsed(after)[f] = p[f]
  <2>1. f \in Fields /\ f \in Lists
    BY KnownAliases DEF SoleAlias, TwoAliases, Lists
  <2>2. Names(after, f, p[f])
    BY <1>1, <1>2, KnownAliases DEF Names, SoleAlias, TwoAliases
  <2>3. Plainly(after, f)
    BY <1>3, <2>1, PlainlyRead
  <2>4. p[f] \in Wording /\ Distinctly(p[f])
    BY <2>1 DEF AsRead
  <2>. QED BY <1>3, <2>1, <2>2, <2>3, <2>4, NamesRead
<1>5. ASSUME NEW f \in {"language", "energy"} PROVE Parsed(after)[f] = p[f]
  <2>1. f \in Fields /\ f \in Tabled \cup {"track_number", "language"}
    BY KnownAliases DEF SoleAlias, TwoAliases, Tabled
  <2>2. Leads(after, f, p[f])
    BY <1>1, <1>2, KnownAliases DEF Leads, SoleAlias, TwoAliases
  <2>3. p[f] \in Wording /\ Normalized(f, p[f]) = p[f]
    BY <2>1 DEF AsRead
  <2>4. Parsed(after)[f] = Normalized(f, p[f])
    BY <1>3, <2>1, <2>2, <2>3, NormalizedRead
  <2>. QED BY <2>3, <2>4
<1>6. Parsed(after)["rotation_suitability"] = p["rotation_suitability"]
  <2>1. PICK label : label = RotationLabel(p["rotation_suitability"])
    OBVIOUS
  <2>2. label \in Wording /\ Normalized("rotation_suitability", label) = p["rotation_suitability"]
    BY <2>1 DEF AsRead
  <2>3. Leads(after, "rotation_suitability", label)
    BY <1>1, <1>2, <2>1, KnownAliases DEF Leads, TwoAliases
  <2>4. "rotation_suitability" \in Tabled
    BY DEF Tabled
  <2>. QED BY <1>3, <2>2, <2>3, <2>4, NormalizedRead
<1>. QED BY <1>4, <1>5, <1>6 DEF RadioFields

\* What every credit is, those that are chosen are.
LEMMA ChosenCredits ==
  ASSUME NEW c, CatalogueOf(c), NEW P, c.credits \in Seq(P), NEW roles
  PROVE  CreditsOf(c, roles) \in Seq(P)
<1>1. PICK list, K : list = c.credits /\ K = InRoles(roles)
  OBVIOUS
<1>2. PICK seqs : Singly(list, K, seqs) /\ CreditsOf(c, roles) = Concat(seqs)
  BY <1>1, CreditsIn
<1>3. Concat(seqs) \in Seq(P \cap K)
  <2>1. PICK n \in Nat : n = Len(list)
    BY <1>1
  <2>. QED BY <1>1, <1>2, <2>1, PassedInTurn
<1>4. PICK of, Q : of = CreditsOf(c, roles) /\ Q = P \cap K
  OBVIOUS
<1>5. of \in Seq(Q) /\ Q \subseteq P
  BY <1>2, <1>3, <1>4
<1>6. of \in Seq(P)
  BY <1>5
<1>. QED BY <1>4, <1>6

\* A file that replaces one of music that is not managed says what that one says.
LEMMA SnapshotCarried ==
  ASSUME NEW c, CatalogueOf(c), NEW p, AsRead(p), NEW entries, entries = SnapshotCatalogueTags(p, c),
         NEW after, MadeOf(after, p, entries), NEW field \in Fields \ RadioFields
  PROVE  Parsed(after)[field] = IF field = "title" /\ p.title = <<>> THEN c.title ELSE p[field]
<1>1. PICK titled : titled = IF p.title # <<>> THEN p.title ELSE c.title
  OBVIOUS
<1>2. DOMAIN entries = RecordingKeys \cup ReleaseKeys
  BY DEF SnapshotCatalogueTags, RecordingKeys, ReleaseKeys
<1>3. /\ after.tags["TITLE"] = OneText(titled) /\ after.tags["ISRC"] = OneText(p["isrc"])
      /\ after.tags["ARTIST"] = NamesAsTexts(p["artists"])
      /\ after.tags["COMPOSER"] = NamesAsTexts(p["composers"])
      /\ after.tags["ALBUM"] = OneText(p["album"]) /\ after.tags["TRACKNUMBER"] = OneText(p["track_number"])
      /\ after.tags["DATE"] = OneText(p["date"]) /\ after.tags["BARCODE"] = OneText(p["barcode"])
  BY <1>1, <1>2 DEF MadeOf, SnapshotCatalogueTags, RecordingKeys, ReleaseKeys
<1>4. after.tags["TRACK"] = <<>> /\ after.tags["YEAR"] = <<>> /\ after.tags["UPC"] = <<>>
  BY <1>2, NamedTags DEF MadeOf, RadioKeys, RecordingKeys, ReleaseKeys
<1>5. AFile(after) /\ after.comments = <<>>
  BY DEF MadeOf
<1>6. titled \in Wording
  BY <1>1, KnownAliases DEF AsRead, CatalogueOf, SoleAlias
<1>7. Parsed(after)["title"] = titled
  <2>1. Leads(after, "title", titled)
    BY <1>3, KnownAliases DEF Leads, SoleAlias
  <2>. QED BY <1>5, <1>6, <2>1, TextRead
<1>8. ASSUME NEW f \in {"isrc", "album", "date", "barcode"} PROVE Parsed(after)[f] = p[f]
  <2>1. f \in Fields
    BY KnownAliases DEF SoleAlias, TwoAliases
  <2>2. Leads(after, f, p[f])
    BY <1>3, <1>4, KnownAliases DEF Leads, SoleAlias, TwoAliases
  <2>3. p[f] \in Wording
    BY <2>1 DEF AsRead
  <2>. QED BY <1>5, <2>2, <2>3, TextRead
<1>9. Parsed(after)["track_number"] = p["track_number"]
  <2>1. Leads(after, "track_number", p["track_number"])
    BY <1>3, <1>4, KnownAliases DEF Leads, TwoAliases
  <2>2. p["track_number"] \in Wording /\ Normalized("track_number", p["track_number"]) = p["track_number"]
    BY KnownAliases DEF AsRead, TwoAliases
  <2>3. Parsed(after)["track_number"] = Normalized("track_number", p["track_number"])
    BY <1>5, <2>1, <2>2, NormalizedRead
  <2>. QED BY <2>2, <2>3
<1>10. ASSUME NEW f \in {"artists", "composers"} PROVE Parsed(after)[f] = p[f]
  <2>1. f \in Fields /\ f \in Lists
    BY KnownAliases DEF SoleAlias, Lists
  <2>2. Names(after, f, p[f])
    BY <1>3, KnownAliases DEF Names, SoleAlias
  <2>3. Plainly(after, f)
    BY <1>5, <2>1, PlainlyRead
  <2>4. p[f] \in Wording /\ Distinctly(p[f])
    BY <2>1 DEF AsRead
  <2>. QED BY <1>5, <2>1, <2>2, <2>3, <2>4, NamesRead
<1>11. field \in {"title", "isrc", "album", "date", "barcode", "track_number", "artists", "composers"}
  BY DEF Fields, Aliases, RadioFields
<1>12. p.title = p["title"]
  OBVIOUS
<1>. QED BY <1>1, <1>7, <1>8, <1>9, <1>10, <1>11, <1>12

\* The names of those who are credited in some roles, each once, are a list of names; the
\* first of them is the first who is credited so.
LEMMA CreditedNames ==
  ASSUME NEW c, CatalogueOf(c), PlainCredits(c),
         \A i \in DOMAIN c.credits : DisplayCredit(c.credits[i]) = TagName(c.credits[i]),
         NEW roles, NEW of, of = CreditsOf(c, roles)
  PROVE  /\ \E names \in Wording : CreditValues(c, roles) = NamesAsTexts(names) /\ Distinctly(names)
         /\ of = <<>> => CreditValues(c, roles) = <<>>
         /\ of # <<>> => CreditValues(c, roles) # <<>> /\ CreditValues(c, roles)[1] = TagName(of[1])
         /\ \A i \in DOMAIN of : DisplayCredit(of[i]) = TagName(of[i])
<1>1. PICK P : P = {k \in Credit : DisplayCredit(k) = TagName(k)}
  OBVIOUS
<1>2. c.credits \in Seq(P)
  <2>1. PICK list, C : list = c.credits /\ C = Credit
    OBVIOUS
  <2>2. list \in Seq(C)
    BY <2>1 DEF CatalogueOf
  <2>3. PICK n \in Nat : n = Len(list) /\ DOMAIN list = 1..n
    BY <2>2
  <2>4. \A i \in 1..n : list[i] \in C /\ DisplayCredit(list[i]) = TagName(list[i])
    BY <2>1, <2>2, <2>3
  <2>5. list = [i \in DOMAIN list |-> list[i]]
    BY <2>2
  <2>6. \A i \in 1..n : list[i] \in P
    BY <1>1, <2>1, <2>4
  <2>7. list \in Seq(P)
    BY <2>3, <2>5, <2>6, ListMade
  <2>. QED BY <2>1, <2>7
<1>3. of \in Seq(P)
  BY <1>2, ChosenCredits
<1>4. PICK n \in Nat : n = Len(of) /\ DOMAIN of = 1..n /\ \A i \in 1..n : of[i] \in P
  BY <1>3
<1>5. \A i \in 1..n : DisplayCredit(of[i]) = TagName(of[i])
  BY <1>1, <1>4
<1>6. PICK list : list = [i \in DOMAIN of |-> DisplayCredit(of[i])]
  OBVIOUS
<1>7. DOMAIN list = 1..n /\ list = [i \in DOMAIN list |-> list[i]] /\ \A i \in 1..n : list[i] = TagName(of[i])
  BY <1>4, <1>5, <1>6
<1>8. PICK S : S = {t \in Wording : \E x \in Word : t = <<x>>}
  OBVIOUS
<1>9. \A i \in 1..n : list[i] \in S
  <2>1. ASSUME NEW i \in 1..n PROVE list[i] \in S
    <3>1. list[i] = TagName(of[i])
      BY <1>7
    <3>2. \E x \in Word : TagName(of[i]) = <<x>>
      BY <1>4, PlainName
    <3>3. TagName(of[i]) \in Wording
      <4>1. of[i] \in Credit
        BY <1>1, <1>4
      <4>. QED BY <4>1, NameIsText
    <3>. QED BY <1>8, <3>1, <3>2, <3>3
  <2>. QED BY <2>1
<1>10. list \in Seq(S)
  BY <1>7, <1>9, ListMade
<1>11. PICK once : once = EachOnce(list)
  OBVIOUS
<1>12. once \in Seq(S) /\ Distinctly(once)
  BY <1>10, <1>11, CollectedOnce
<1>13. /\ list = <<>> => once = <<>>
       /\ list # <<>> => once # <<>> /\ once[1] = list[1]
  BY <1>10, <1>11, FirstCollected
<1>14. CreditValues(c, roles) = once
  BY <1>6, <1>11, Zenon DEF CreditValues
<1>15. \E names \in Wording : once = NamesAsTexts(names) /\ Distinctly(names)
  <2>1. once \in Seq(Wording)
    <3>1. PICK W : W = Wording
      OBVIOUS
    <3>2. S \subseteq W
      BY <1>8, <3>1
    <3>3. once \in Seq(W)
      BY <1>12, <3>2
    <3>. QED BY <3>1, <3>3
  <2>2. \A i \in DOMAIN once : \E x \in Word : once[i] = <<x>>
    <3>1. \A i \in DOMAIN once : once[i] \in S
      BY <1>12
    <3>. QED BY <1>8, <3>1
  <2>. QED BY <1>12, <2>1, <2>2, NamesMade
<1>16. of = <<>> <=> n = 0
  BY <1>3, <1>4
<1>17. list = <<>> <=> n = 0
  BY <1>7, <1>10
<1>18. n # 0 => list[1] = TagName(of[1])
  BY <1>7
<1>. QED BY <1>4, <1>5, <1>13, <1>14, <1>15, <1>16, <1>17, <1>18

\* The first of those who performed, guests or not, is the first who is no guest.
LEMMA FirstIsNoGuest ==
  ASSUME NEW c, CatalogueOf(c), NEW of, of = CreditsOf(c, {"primary"}),
         NEW all, all = CreditsOf(c, {"primary", "featured"}), all # <<>> => all[1].role = "primary"
  PROVE  /\ all = <<>> => of = <<>>
         /\ all # <<>> => of # <<>> /\ of[1] = all[1]
<1>1. PICK list, C, K, L : /\ list = c.credits /\ C = Credit
                           /\ K = InRoles({"primary"}) /\ L = InRoles({"primary", "featured"})
  OBVIOUS
<1>2. list \in Seq(C)
  BY <1>1 DEF CatalogueOf
<1>3. PICK few : Singly(list, K, few) /\ of = Concat(few)
  BY <1>1, CreditsIn
<1>4. PICK many : Singly(list, L, many) /\ all = Concat(many)
  BY <1>1, CreditsIn
<1>5. K \subseteq L
  BY <1>1 DEF InRoles
<1>6. FirstOf(of, all, K)
  BY <1>2, <1>3, <1>4, <1>5, FirstOfBoth
<1>7. all # <<>> => all[1] \in K
  <2>1. all \in Seq(L)
    BY <1>1, CreditsIn
  <2>2. all # <<>> => all[1] \in L
    BY <2>1
  <2>. QED BY <1>1, <2>2 DEF InRoles
<1>. QED BY <1>6, <1>7 DEF FirstOf

\* A file that replaces one of managed music agrees with the catalogue, but for the release,
\* which the catalogue of a generated file knows nothing of.
LEMMA ManagedCarried ==
  ASSUME NEW c, CatalogueOf(c), PlainCredits(c),
         \A i \in DOMAIN c.credits : DisplayCredit(c.credits[i]) = TagName(c.credits[i]),
         CreditsOf(c, {"primary", "featured"}) # <<>> =>
           CreditsOf(c, {"primary", "featured"})[1].role = "primary",
         NEW p, NEW entries, entries = DbCatalogueTags(c), NEW after, MadeOf(after, p, entries),
         NEW wanted, wanted = RecordingTags(c)
  PROVE  /\ Parsed(after).title = First(wanted.TITLE) /\ Parsed(after).isrc = First(wanted.ISRC)
         /\ (IF Parsed(after).artists = <<>> THEN <<>> ELSE <<First(Parsed(after).artists)>>) = First(wanted.ARTIST)
         /\ NamesAsTexts(Parsed(after).composers) = wanted.COMPOSER
<1>1. c.title \in Wording /\ c.isrc \in Wording /\ AFile(after) /\ after.comments = <<>>
  BY DEF CatalogueOf, MadeOf
<1>2. /\ after.tags["TITLE"] = OneText(c.title) /\ after.tags["ISRC"] = OneText(c.isrc)
      /\ after.tags["ARTIST"] = CreditValues(c, {"primary", "featured"})
      /\ after.tags["COMPOSER"] = CreditValues(c, {"composer"})
  BY DEF MadeOf, DbCatalogueTags
<1>3. Parsed(after)["title"] = c.title /\ Parsed(after)["isrc"] = c.isrc
  <2>1. Leads(after, "title", c.title) /\ Leads(after, "isrc", c.isrc)
    BY <1>2, KnownAliases DEF Leads, SoleAlias
  <2>. QED BY <1>1, <2>1, TextRead
<1>4. First(wanted.TITLE) = c.title /\ First(wanted.ISRC) = c.isrc
  <2>1. wanted.TITLE = OneText(c.title) /\ wanted.ISRC = OneText(c.isrc)
    BY DEF RecordingTags
  <2>. QED BY <1>1, <2>1, TextReadBack
<1>5. /\ Plainly(after, "artists") /\ Plainly(after, "composers")
      /\ "artists" \in Fields \cap Lists /\ "composers" \in Fields \cap Lists
  BY <1>1, PlainlyRead, KnownAliases DEF SoleAlias, Lists
<1>6. NamesAsTexts(Parsed(after)["composers"]) = wanted.COMPOSER
  <2>1. PICK of : of = CreditsOf(c, {"composer"})
    OBVIOUS
  <2>2. PICK list : list = TagNames(c, "composer")
    OBVIOUS
  <2>3. \A i \in DOMAIN of : DisplayCredit(of[i]) = TagName(of[i])
    BY <2>1, CreditedNames
  <2>4. list \in Seq(Wording) /\ list = [i \in DOMAIN of |-> TagName(of[i])]
    BY <2>1, <2>2, NamesOfRole DEF TagNames
  <2>5. CreditValues(c, {"composer"}) = EachOnce(list)
    <3>1. [i \in DOMAIN of |-> DisplayCredit(of[i])] = [i \in DOMAIN of |-> TagName(of[i])]
      BY <2>3
    <3>. QED BY <2>1, <2>4, <3>1, Zenon DEF CreditValues
  <2>6. Distinctly(list)
    BY <2>2 DEF PlainCredits, Distinctly
  <2>7. EachOnce(list) = list
    BY <2>4, <2>6, DistinctCollected
  <2>8. PICK names \in Wording : list = NamesAsTexts(names) /\ Distinctly(names)
    BY <2>2, ComposerNames
  <2>9. Names(after, "composers", names)
    BY <1>2, <2>5, <2>7, <2>8, KnownAliases DEF Names, SoleAlias
  <2>10. Parsed(after)["composers"] = names
    BY <1>1, <1>5, <2>8, <2>9, NamesRead
  <2>11. wanted.COMPOSER = list
    BY <2>2 DEF RecordingTags
  <2>. QED BY <2>8, <2>10, <2>11
<1>7. (IF Parsed(after)["artists"] = <<>> THEN <<>> ELSE <<First(Parsed(after)["artists"])>>) = First(wanted.ARTIST)
  <2>1. PICK of, all : of = CreditsOf(c, {"primary"}) /\ all = CreditsOf(c, {"primary", "featured"})
    OBVIOUS
  <2>2. PICK once : once = CreditValues(c, {"primary", "featured"})
    OBVIOUS
  <2>3. /\ \E names \in Wording : once = NamesAsTexts(names) /\ Distinctly(names)
        /\ all = <<>> => once = <<>>
        /\ all # <<>> => once # <<>> /\ once[1] = TagName(all[1])
    BY <2>1, <2>2, CreditedNames
  <2>4. PICK names \in Wording : once = NamesAsTexts(names) /\ Distinctly(names)
    BY <2>3
  <2>5. Names(after, "artists", names)
    BY <1>2, <2>2, <2>4, KnownAliases DEF Names, SoleAlias
  <2>6. Parsed(after)["artists"] = names
    BY <1>1, <1>5, <2>4, <2>5, NamesRead
  <2>7. PICK n \in Nat : n = Len(names) /\ DOMAIN names = 1..n
    BY DEF Wording
  <2>8. DOMAIN once = 1..n /\ \A i \in 1..n : once[i] = <<names[i]>>
    BY <2>4, <2>7 DEF NamesAsTexts
  <2>9. /\ once = <<>> => names = <<>>
        /\ once # <<>> => names # <<>> /\ once[1] = <<First(names)>>
    <3>1. names = <<>> => DOMAIN once = {}
      BY <2>7, <2>8
    <3>2. names = <<>> <=> n = 0
      BY <2>7 DEF Wording
    <3>3. once \in Seq(Full)
      BY <2>4, NamesReadBack
    <3>4. once = <<>> <=> n = 0
      <4>1. PICK list, F : list = once /\ F = Full
        OBVIOUS
      <4>2. list \in Seq(F) /\ DOMAIN list = 1..n
        BY <2>8, <3>3, <4>1
      <4>3. list = <<>> <=> n = 0
        BY <4>2
      <4>. QED BY <4>1, <4>3
    <3>. QED BY <2>7, <2>8, <3>2, <3>4 DEF First
  <2>10. PICK list : list = TagNames(c, "primary")
    OBVIOUS
  <2>11. /\ list \in Seq(Wording) /\ DOMAIN list = DOMAIN of
         /\ \A i \in DOMAIN of : list[i] = TagName(of[i])
    BY <2>1, <2>10, NamesOfRole
  <2>12. /\ all = <<>> => of = <<>>
         /\ all # <<>> => of # <<>> /\ of[1] = all[1]
    BY <2>1, FirstIsNoGuest
  <2>13. of \in Seq(InRoles({"primary"}))
    BY <2>1, CreditsIn
  <2>14. /\ of = <<>> => First(list) = <<>>
         /\ of # <<>> => First(list) = TagName(of[1])
    <3>1. PICK m \in Nat : m = Len(of) /\ DOMAIN of = 1..m /\ (of = <<>> <=> m = 0)
      <4>1. PICK l, K : l = of /\ K = InRoles({"primary"})
        OBVIOUS
      <4>2. l \in Seq(K)
        BY <2>13, <4>1
      <4>3. Len(l) \in Nat /\ DOMAIN l = 1..Len(l) /\ (l = <<>> <=> Len(l) = 0)
        BY <4>2
      <4>. QED BY <4>1, <4>3
    <3>2. list = <<>> <=> m = 0
      <4>1. PICK W : W = Wording
        OBVIOUS
      <4>2. list \in Seq(W) /\ DOMAIN list = 1..m
        BY <2>11, <3>1, <4>1
      <4>. QED BY <4>2
    <3>. QED BY <2>11, <3>1, <3>2 DEF First
  <2>15. First(wanted.ARTIST) = First(list)
    <3>1. wanted.ARTIST = OneText(First(list))
      BY <2>10 DEF RecordingTags
    <3>2. First(list) \in Wording
      BY <2>10, FirstPerformer
    <3>. QED BY <3>1, <3>2, TextReadBack
  <2>. QED BY <2>3, <2>6, <2>9, <2>12, <2>14, <2>15
<1>. QED BY <1>3, <1>4, <1>6, <1>7

\* A generated file keeps the tags of the file it replaces, or those of the catalogue.
TagsCarried(c, file, managed, after) ==
  LET before == Parsed(file)
      read   == Parsed(after)
      artists == CreditsOf(c, {"primary", "featured"})
  IN  /\ \A field \in RadioFields \ Invalid(file) : read[field] = before[field]
      /\ ~managed => \A field \in Fields \ RadioFields :
           read[field] = IF field = "title" /\ before.title = <<>> THEN c.title ELSE before[field]
      /\ (/\ managed /\ PlainCredits(c)
          /\ \A i \in DOMAIN c.credits : DisplayCredit(c.credits[i]) = TagName(c.credits[i])
          /\ artists # <<>> => artists[1].role = "primary")
           => ~Differs([c EXCEPT !.release = <<>>], read)

\* The catalogue tags of a generated file, of either kind, are lists of texts.
LEMMA CandidateTyped ==
  ASSUME NEW c, CatalogueOf(c), NEW p, AsRead(p)
  PROVE  /\ DOMAIN DbCatalogueTags(c) = RecordingKeys
         /\ DOMAIN SnapshotCatalogueTags(p, c) = RecordingKeys \cup ReleaseKeys
         /\ \A key \in RecordingKeys \cup ReleaseKeys : SnapshotCatalogueTags(p, c)[key] \in Seq(Wording)
         /\ \A key \in RecordingKeys : DbCatalogueTags(c)[key] \in Seq(Wording)
<1>1. DOMAIN DbCatalogueTags(c) = RecordingKeys
  BY DEF DbCatalogueTags, RecordingKeys
<1>2. DOMAIN SnapshotCatalogueTags(p, c) = RecordingKeys \cup ReleaseKeys
  BY DEF SnapshotCatalogueTags, RecordingKeys, ReleaseKeys
<1>3. PICK Q : Q = Seq(Wording)
  OBVIOUS
<1>4. \A names \in Wording : NamesAsTexts(names) \in Q
  BY <1>3, NamesWritten
<1>5. \A text \in Wording : OneText(text) \in Q
  BY <1>3, TextWritten
<1>6. ASSUME NEW roles PROVE CreditValues(c, roles) \in Seq(Wording)
  <2>1. PICK of, K : of = CreditsOf(c, roles) /\ K = Credit
    OBVIOUS
  <2>2. c.credits \in Seq(K)
    BY <2>1 DEF CatalogueOf
  <2>3. of \in Seq(K)
    BY <2>1, <2>2, ChosenCredits
  <2>4. PICK n \in Nat : n = Len(of) /\ DOMAIN of = 1..n /\ \A i \in 1..n : of[i] \in K
    BY <2>3
  <2>5. PICK list : list = [i \in DOMAIN of |-> DisplayCredit(of[i])]
    OBVIOUS
  <2>6. /\ DOMAIN list = 1..n /\ list = [i \in DOMAIN list |-> list[i]]
        /\ \A i \in 1..n : list[i] = DisplayCredit(of[i])
    BY <2>4, <2>5
  <2>7. \A i \in 1..n : list[i] \in Wording
    BY <2>1, <2>4, <2>6, NameIsText
  <2>8. list \in Seq(Wording)
    BY <2>6, <2>7, ListMade
  <2>9. EachOnce(list) \in Seq(Wording)
    BY <2>8, CollectedOnce
  <2>. QED BY <2>1, <2>5, <2>9, Zenon DEF CreditValues
<1>7. /\ DbCatalogueTags(c)["TITLE"] = OneText(c.title) /\ DbCatalogueTags(c)["ISRC"] = OneText(c.isrc)
      /\ DbCatalogueTags(c)["ARTIST"] = CreditValues(c, {"primary", "featured"})
      /\ DbCatalogueTags(c)["COMPOSER"] = CreditValues(c, {"composer"})
  BY DEF DbCatalogueTags
<1>8. c.title \in Wording /\ c.isrc \in Wording
  BY DEF CatalogueOf
<1>9. \A key \in RecordingKeys : DbCatalogueTags(c)[key] \in Q
  BY <1>3, <1>5, <1>6, <1>7, <1>8 DEF RecordingKeys
<1>10. PICK titled : titled = IF p.title # <<>> THEN p.title ELSE c.title
  OBVIOUS
<1>11. /\ SnapshotCatalogueTags(p, c)["TITLE"] = OneText(titled)
       /\ SnapshotCatalogueTags(p, c)["ISRC"] = OneText(p["isrc"])
       /\ SnapshotCatalogueTags(p, c)["ARTIST"] = NamesAsTexts(p["artists"])
       /\ SnapshotCatalogueTags(p, c)["COMPOSER"] = NamesAsTexts(p["composers"])
       /\ SnapshotCatalogueTags(p, c)["ALBUM"] = OneText(p["album"])
       /\ SnapshotCatalogueTags(p, c)["TRACKNUMBER"] = OneText(p["track_number"])
       /\ SnapshotCatalogueTags(p, c)["DATE"] = OneText(p["date"])
       /\ SnapshotCatalogueTags(p, c)["BARCODE"] = OneText(p["barcode"])
  BY <1>10 DEF SnapshotCatalogueTags
<1>12. /\ p["title"] \in Wording /\ p["isrc"] \in Wording /\ p["artists"] \in Wording
       /\ p["composers"] \in Wording /\ p["album"] \in Wording /\ p["track_number"] \in Wording
       /\ p["date"] \in Wording /\ p["barcode"] \in Wording
  BY KnownAliases DEF AsRead, SoleAlias, TwoAliases
<1>13. titled \in Wording
  BY <1>8, <1>10, <1>12
<1>14. \A key \in RecordingKeys \cup ReleaseKeys : SnapshotCatalogueTags(p, c)[key] \in Q
  BY <1>4, <1>5, <1>11, <1>12, <1>13 DEF RecordingKeys, ReleaseKeys
<1>. QED BY <1>1, <1>2, <1>3, <1>9, <1>14

\* A file that is generated does.
LEMMA GeneratedCarries ==
  ASSUME NEW file, AFile(file), NEW c, CatalogueOf(c), NEW managed \in BOOLEAN,
         NEW bare, bare = [c EXCEPT !.release = <<>>],
         bare.title = c.title, bare.isrc = c.isrc, bare.credits = c.credits, bare.release = <<>>,
         NEW after, after = GeneratedFrom(c, file, managed)
  PROVE  TagsCarried(c, file, managed, after)
<1>1. PICK p : p = Parsed(file)
  OBVIOUS
<1>2. AsRead(p)
  BY <1>1, FilesAreRead
<1>3. RadioKeys \cap (RecordingKeys \cup ReleaseKeys) = {}
  BY DEF RadioKeys, RecordingKeys, ReleaseKeys
<1>4. PICK entries : entries = IF managed THEN DbCatalogueTags(c) ELSE SnapshotCatalogueTags(p, c)
  OBVIOUS
<1>5. /\ DOMAIN entries \subseteq RecordingKeys \cup ReleaseKeys
      /\ \A key \in DOMAIN entries : entries[key] \in Seq(Wording)
  <2>1. CASE managed
    <3>1. DOMAIN entries = RecordingKeys /\ \A key \in RecordingKeys : entries[key] \in Seq(Wording)
      BY <1>2, <1>4, <2>1, CandidateTyped
    <3>. QED BY <3>1
  <2>2. CASE ~managed
    <3>1. /\ DOMAIN entries = RecordingKeys \cup ReleaseKeys
          /\ \A key \in RecordingKeys \cup ReleaseKeys : entries[key] \in Seq(Wording)
      BY <1>2, <1>4, <2>2, CandidateTyped
    <3>. QED BY <3>1
  <2>. QED BY <2>1, <2>2
<1>6. after = [tags |-> Updated(Updated(Untagged, RadioTags(p)), entries), comments |-> <<>>]
  <2>1. CASE managed
    BY <1>1, <1>4, <2>1, Zenon DEF GeneratedFrom
  <2>2. CASE ~managed
    BY <1>1, <1>4, <2>2, Zenon DEF GeneratedFrom
  <2>. QED BY <2>1, <2>2
<1>7. MadeOf(after, p, entries)
  <2>1. DOMAIN entries \subseteq Tags \ RadioKeys
    BY <1>3, <1>5, NamedTags
  <2>. QED BY <1>2, <1>5, <1>6, <2>1, FileMade
<1>8. PICK read : read = Parsed(after)
  OBVIOUS
<1>9. \A field \in RadioFields \ Invalid(file) : read[field] = p[field]
  <2>1. \A field \in RadioFields : read[field] = p[field]
    BY <1>2, <1>5, <1>7, <1>8, RadioCarried
  <2>. QED BY <2>1
<1>10. ~managed => \A field \in Fields \ RadioFields :
         read[field] = IF field = "title" /\ p.title = <<>> THEN c.title ELSE p[field]
  BY <1>2, <1>4, <1>7, <1>8, SnapshotCarried
<1>11. ASSUME managed, PlainCredits(c),
              \A i \in DOMAIN c.credits : DisplayCredit(c.credits[i]) = TagName(c.credits[i]),
              CreditsOf(c, {"primary", "featured"}) # <<>> =>
                CreditsOf(c, {"primary", "featured"})[1].role = "primary"
       PROVE  ~Differs(bare, read)
  <2>1. PICK wanted : wanted = RecordingTags(c)
    OBVIOUS
  <2>2. entries = DbCatalogueTags(c)
    BY <1>4, <1>11
  <2>3. /\ read.title = First(wanted.TITLE) /\ read.isrc = First(wanted.ISRC)
        /\ (IF read.artists = <<>> THEN <<>> ELSE <<First(read.artists)>>) = First(wanted.ARTIST)
        /\ NamesAsTexts(read.composers) = wanted.COMPOSER
    <3>1. /\ Parsed(after).title = First(wanted.TITLE) /\ Parsed(after).isrc = First(wanted.ISRC)
          /\ (IF Parsed(after).artists = <<>> THEN <<>> ELSE <<First(Parsed(after).artists)>>) =
               First(wanted.ARTIST)
          /\ NamesAsTexts(Parsed(after).composers) = wanted.COMPOSER
      <4>1. PlainCredits(c) /\ \A i \in DOMAIN c.credits : DisplayCredit(c.credits[i]) = TagName(c.credits[i])
        BY <1>11
      <4>2. CreditsOf(c, {"primary", "featured"}) # <<>> =>
              CreditsOf(c, {"primary", "featured"})[1].role = "primary"
        BY <1>11
      <4>. QED BY <1>7, <2>1, <2>2, <4>1, <4>2, ManagedCarried
    <3>. QED BY <1>8, <3>1
  <2>4. \A roles : CreditsOf(bare, roles) = CreditsOf(c, roles)
    BY Zenon DEF CreditsOf
  <2>5. \A role : TagNames(bare, role) = TagNames(c, role)
    BY <2>4, Zenon DEF TagNames
  <2>6. RecordingTags(bare) = wanted
    BY <2>1, <2>5, Zenon DEF RecordingTags
  <2>. QED BY <2>3, <2>6, Zenon DEF Differs
<1>. QED BY <1>1, <1>8, <1>9, <1>10, <1>11, Zenon DEF TagsCarried

-----------------------------------------------------------------------------
(* The title of a recording and who may write it.                          *)

\* The revision the recording has was saved with the title it has, and no
\* page shows a later one.
RevisionKnown ==
  /\ <<revision, title>> \in history
  /\ \A u \in Steward : page[u] # None => page[u].revision <= revision

\* Only stored assertions have decisions or wait for the bulk confirmation.
ReviewStored ==
  /\ \A a \in Assertion : decided[a] # None => ~Unused(a)
  /\ bulk # None => \A a \in bulk : ~Unused(a)

\* Every import read its title together with the revision that saved it.
ReadTogether ==
  \A j \in Import : job[j] # None =>
    job[j].base <= revision /\ <<job[j].base, job[j].before>> \in history

Titles == RevisionKnown /\ PageIsHonest /\ AppliedLogTrue
ImportLog == ReadTogether /\ ImportLogTrue

IInv == TypeOK /\ Titles /\ ImportLog /\ ReviewStored

-----------------------------------------------------------------------------
(* Typing.                                                                 *)

\* A decision about a stored assertion keeps the rows well-formed.
LEMMA DecidedTyped ==
  ASSUME TypeOK, NEW a \in Assertion, ~Unused(a), NEW s \in Status, NEW n \in Note,
         Decided(a, s, n)
  PROVE  /\ assertion' \in [Assertion -> AssertionRow \cup {None}]
         /\ decided' \in [Assertion -> [status : Status, note : Note] \cup {None}]
<1>1. assertion[a] \in AssertionRow
  BY DEF TypeOK, Unused
<1>2. [assertion[a] EXCEPT !.status = s] \in AssertionRow
  BY <1>1 DEF AssertionRow
<1>3. [status |-> s, note |-> n] \in [status : Status, note : Note]
  OBVIOUS
<1>. QED
  BY <1>2, <1>3 DEF Decided, TypeOK

\* Saving the recording keeps its title, revision and history well-formed.
LEMMA SaveTyped ==
  ASSUME TypeOK, NEW v \in Title, SaveTitle(v)
  PROVE  title' \in Title /\ revision' \in Nat /\ history' \subseteq Nat \X Title
BY DEF TypeOK, SaveTitle

\* Applying a source value keeps the typing.
LEMMA ApplyTyped ==
  ASSUME TypeOK, NEW u \in Steward, NEW a \in Assertion, NEW c \in BOOLEAN, Apply(u, a, c)
  PROVE  TypeOK'
<1>1. assertion[a] \in AssertionRow /\ page[u].revision \in Nat
  BY DEF TypeOK, Apply, Unused, PageCurrent
<1>2. assertion[a].value \in Title
  BY <1>1 DEF AssertionRow
<1>3. title' \in Title /\ revision' \in Nat /\ history' \subseteq Nat \X Title
  BY <1>2, SaveTyped DEF Apply
<1>4. change' \subseteq Change
  <2>1. [assertion |-> a, before |-> title, after |-> assertion[a].value,
         base |-> page[u].revision, result |-> revision', via |-> "page"] \in Change
    BY <1>1, <1>2, <1>3 DEF TypeOK, Change
  <2>. QED
    BY <2>1 DEF TypeOK, Apply, Logged
<1>5. /\ assertion' \in [Assertion -> AssertionRow \cup {None}]
      /\ decided' \in [Assertion -> [status : Status, note : Note] \cup {None}]
  <2>1. CASE c
    <3>1. Decided(a, "CONFIRMED", "steward")
      BY <2>1 DEF Apply
    <3>2. "CONFIRMED" \in Status /\ "steward" \in Note
      BY DEF Status, Decisions, Note
    <3>. QED
      BY <3>1, <3>2, DecidedTyped DEF Apply
  <2>2. CASE ~c
    BY <2>2 DEF Apply, TypeOK
  <2>. QED
    BY <2>1, <2>2
<1>. QED
  BY <1>3, <1>4, <1>5 DEF TypeOK, Apply

\* What reviewers and staff do keeps the typing.
LEMMA StewardTyped == ASSUME TypeOK, StewardStep PROVE TypeOK'
<1>1. ASSUME NEW u \in Steward, OpenPage(u) PROVE TypeOK'
  BY <1>1 DEF TypeOK, OpenPage
<1>2. ASSUME NEW a \in Assertion, NEW s \in ReviewChoices \cap Decisions, Decide(a, s) PROVE TypeOK'
  <2>1. s \in Status /\ "steward" \in Note
    BY DEF Status, Note
  <2>. QED
    BY <1>2, <2>1, DecidedTyped DEF Decide, TypeOK
<1>3. ASSUME NEW p \in Assertion, NEW a \in Assertion, NEW v \in Title, NEW f \in BOOLEAN,
             Supersede(p, a, v, f)
      PROVE TypeOK'
  <2>1. assertion[p] \in AssertionRow
    BY <1>3 DEF TypeOK, Supersede, Unused
  <2>2. p # a
    BY <1>3 DEF Supersede, Unused
  <2>3. [assertion[p] EXCEPT !.status = "SUPERSEDED"] \in AssertionRow /\ Replacement(v, f) \in AssertionRow
    BY <2>1 DEF AssertionRow, Status, Replacement
  <2>4. assertion' \in [Assertion -> AssertionRow \cup {None}]
    BY <1>3, <2>2, <2>3 DEF TypeOK, Supersede
  <2>5. [status |-> "SUPERSEDED", note |-> "steward"] \in [status : Status, note : Note]
    BY DEF Status, Note
  <2>. QED
    BY <1>3, <2>4, <2>5 DEF TypeOK, Supersede
<1>4. ASSUME NEW p \in Assertion, NEW a \in Assertion, NEW v \in Title, Correct(p, a, v)
      PROVE TypeOK'
  <2>1. assertion[p] \in AssertionRow
    BY <1>4 DEF TypeOK, Correct, Supersede, Unused
  <2>2. assertion[p].flac \in BOOLEAN
    BY <2>1 DEF AssertionRow
  <2>. QED
    BY <1>3, <1>4, <2>2 DEF Correct
<1>5. ASSUME NEW a \in Assertion, NEW s \in ReviewChoices, EditStatus(a, s) PROVE TypeOK'
  <2>1. assertion[a] \in AssertionRow /\ s \in Status
    BY <1>5, SourceAssumption DEF TypeOK, EditStatus, Unused
  <2>2. [assertion[a] EXCEPT !.status = s] \in AssertionRow
    BY <2>1 DEF AssertionRow
  <2>. QED
    BY <1>5, <2>2 DEF TypeOK, EditStatus
<1>6. ASSUME NEW v \in Title, Edit(v) PROVE TypeOK'
  BY <1>6, SaveTyped DEF TypeOK, Edit
<1>7. ASSUME NEW b \in BOOLEAN, SetAuthority(b) PROVE TypeOK'
  BY <1>7 DEF TypeOK, SetAuthority
<1>. QED
  BY <1>1, <1>2, <1>3, <1>4, <1>5, <1>6, <1>7, ApplyTyped DEF StewardStep

\* Imports keep the typing.
LEMMA ImportTyped == ASSUME TypeOK, ImportStep PROVE TypeOK'
<1>1. ASSUME NEW j \in Import, NEW v \in Title, ImportLoad(j, v) PROVE TypeOK'
  BY <1>1 DEF TypeOK, ImportLoad, Job
<1>2. ASSUME NEW j \in Import, ImportCheck(j) PROVE TypeOK'
  <2>1. job[j] \in Job
    BY <1>2 DEF TypeOK, ImportCheck
  <2>2. [job[j] EXCEPT !.at = "clear"] \in Job
    BY <2>1 DEF Job
  <2>. QED
    BY <1>2, <2>2 DEF TypeOK, ImportCheck
<1>3. ASSUME NEW j \in Import, NEW a \in Assertion, ImportTitle(j, a) PROVE TypeOK'
  <2>1. job[j] \in Job
    BY <1>3 DEF TypeOK, ImportTitle
  <2>2. job[j].value \in Title /\ job[j].before \in Title /\ job[j].base \in Nat
    BY <2>1 DEF Job
  <2>3. title' \in Title /\ revision' \in Nat /\ history' \subseteq Nat \X Title
    BY <1>3, <2>2, SaveTyped DEF ImportTitle
  <2>4. change' \subseteq Change
    <3>1. [assertion |-> a, before |-> job[j].before, after |-> job[j].value,
           base |-> job[j].base, result |-> revision', via |-> "file"] \in Change
      BY <2>2, <2>3 DEF Change
    <3>. QED
      BY <1>3, <3>1 DEF TypeOK, ImportTitle, Logged, ImportBase
  <2>5. assertion' \in [Assertion -> AssertionRow \cup {None}]
    <3>1. [value |-> job[j].value, status |-> "CONFIRMED", flac |-> TRUE] \in AssertionRow
      BY <2>2 DEF AssertionRow, Status, Decisions
    <3>. QED
      BY <1>3, <3>1 DEF TypeOK, ImportTitle
  <2>6. decided' \in [Assertion -> [status : Status, note : Note] \cup {None}]
    <3>1. [status |-> "CONFIRMED", note |-> "ingest"] \in [status : Status, note : Note]
      BY DEF Status, Decisions, Note
    <3>. QED
      BY <1>3, <3>1 DEF TypeOK, ImportTitle
  <2>. QED
    BY <1>3, <2>3, <2>4, <2>5, <2>6 DEF TypeOK, ImportTitle
<1>4. ASSUME NEW j \in Import, ImportEnds(j) PROVE TypeOK'
  BY <1>4 DEF TypeOK, ImportEnds
<1>. QED
  BY <1>1, <1>2, <1>3, <1>4 DEF ImportStep

\* The bulk confirmation keeps the typing, for it reads stored rows only.
LEMMA BulkTyped == ASSUME TypeOK, ReviewStored, BulkRead \/ BulkCommit PROVE TypeOK'
<1>1. CASE BulkRead
  BY <1>1 DEF TypeOK, BulkRead
<1>2. CASE BulkCommit
  <2>1. ASSUME NEW a \in bulk PROVE [assertion[a] EXCEPT !.status = "CONFIRMED"] \in AssertionRow
    <3>1. a \in Assertion /\ assertion[a] \in AssertionRow
      BY <1>2, <2>1 DEF TypeOK, ReviewStored, BulkCommit, Unused
    <3>. QED
      BY <3>1 DEF AssertionRow, Status, Decisions
  <2>2. [status |-> "CONFIRMED", note |-> "legacy"] \in [status : Status, note : Note]
    BY DEF Status, Decisions, Note
  <2>. QED
    BY <1>2, <2>1, <2>2 DEF TypeOK, BulkCommit
<1>. QED
  BY <1>1, <1>2

-----------------------------------------------------------------------------
(* The title, its revisions and the log.                                   *)

\* A step that leaves the recording, its pages and its log alone.
recording == <<title, revision, page, change, history>>

\* Saving the recording moves it past every open page, and keeps every title
\* a revision was saved with.
LEMMA SaveKeepsTitles ==
  ASSUME TypeOK, Titles, NEW v \in Title, SaveTitle(v), page' = page,
         \A r \in change' \ change : r.via = "page" => LogRowTrue(r)'
  PROVE  Titles'
<1>1. RevisionKnown' /\ PageIsHonest'
  <2>1. \A u \in Steward : page[u] # None => page[u].revision \in Nat
    BY DEF TypeOK
  <2>. QED
    BY <2>1 DEF TypeOK, Titles, RevisionKnown, PageIsHonest, SaveTitle
<1>2. AppliedLogTrue'
  BY DEF Titles, AppliedLogTrue, LogRowTrue, SaveTitle
<1>. QED
  BY <1>1, <1>2 DEF Titles

\* A row logged from a page tells the truth.
LEMMA AppliedRowTrue ==
  ASSUME TypeOK, Titles, NEW u \in Steward, NEW a \in Assertion, NEW c \in BOOLEAN,
         Apply(u, a, c)
  PROVE  \A r \in change' \ change : LogRowTrue(r)'
<1>1. /\ revision' = revision + 1 /\ title' = assertion[a].value
      /\ history' = history \cup {<<revision + 1, assertion[a].value>>}
      /\ page[u].revision = revision
  BY DEF Apply, SaveTitle, PageCurrent
<1>2. <<revision, title>> \in history /\ revision \in Nat
  BY DEF TypeOK, Titles, RevisionKnown
<1>3. SUFFICES ASSUME NEW r \in change' \ change PROVE LogRowTrue(r)'
  OBVIOUS
<1>4. /\ r.before = title /\ r.after = assertion[a].value
      /\ r.base = revision /\ r.result = revision + 1
  BY <1>1, <1>3 DEF Apply, Logged
<1>. QED
  BY <1>1, <1>2, <1>4 DEF LogRowTrue

\* A row logged by an import is not one logged from a page.
LEMMA ImportedRow ==
  ASSUME NEW j \in Import, NEW a \in Assertion, ImportTitle(j, a)
  PROVE  \A r \in change' \ change : r.via = "file"
BY DEF ImportTitle, Logged

\* Every step keeps the titles and the log truthful.
LEMMA TitlesStep == ASSUME TypeOK, Titles, [SourcesNext]_vars PROVE Titles'
<1>1. ASSUME UNCHANGED recording PROVE Titles'
  BY <1>1 DEF recording, Titles, RevisionKnown, PageIsHonest, AppliedLogTrue, LogRowTrue
<1>2. ASSUME NEW u \in Steward, OpenPage(u) PROVE Titles'
  BY <1>2 DEF TypeOK, OpenPage, Titles, RevisionKnown, PageIsHonest, AppliedLogTrue, LogRowTrue
<1>3. ASSUME NEW u \in Steward, NEW a \in Assertion, NEW c \in BOOLEAN, Apply(u, a, c)
      PROVE Titles'
  <2>1. assertion[a].value \in Title
    <3>1. assertion[a] \in AssertionRow
      BY <1>3 DEF TypeOK, Apply, Unused
    <3>. QED
      BY <3>1 DEF AssertionRow
  <2>. QED
    BY <1>3, <2>1, SaveKeepsTitles, AppliedRowTrue DEF Apply
<1>4. ASSUME NEW v \in Title, Edit(v) PROVE Titles'
  BY <1>4, SaveKeepsTitles DEF Edit
<1>5. ASSUME NEW j \in Import, NEW a \in Assertion, ImportTitle(j, a) PROVE Titles'
  <2>1. job[j].value \in Title
    <3>1. job[j] \in Job
      BY <1>5 DEF TypeOK, ImportTitle
    <3>. QED
      BY <3>1 DEF Job
  <2>2. \A r \in change' \ change : r.via = "page" => LogRowTrue(r)'
    BY <1>5, ImportedRow
  <2>. QED
    BY <1>5, <2>1, <2>2, SaveKeepsTitles DEF ImportTitle
<1>6. ASSUME NEW a \in Assertion, NEW s \in Decisions, Decide(a, s) PROVE Titles'
  BY <1>1, <1>6 DEF recording, Decide
<1>7. ASSUME NEW p \in Assertion, NEW a \in Assertion, NEW v \in Title, NEW f,
             Supersede(p, a, v, f)
      PROVE Titles'
  BY <1>1, <1>7 DEF recording, Supersede
<1>8. ASSUME NEW a \in Assertion, NEW s \in ReviewChoices, EditStatus(a, s) PROVE Titles'
  BY <1>1, <1>8 DEF recording, EditStatus
<1>9. ASSUME NEW b \in BOOLEAN, SetAuthority(b) PROVE Titles'
  BY <1>1, <1>9 DEF recording, SetAuthority
<1>10. ASSUME NEW j \in Import, \/ \E v \in Title : ImportLoad(j, v)
                               \/ ImportCheck(j) \/ ImportEnds(j)
       PROVE Titles'
  BY <1>1, <1>10 DEF recording, ImportLoad, ImportCheck, ImportEnds
<1>11. ASSUME BulkRead \/ BulkCommit PROVE Titles'
  BY <1>1, <1>11 DEF recording, BulkRead, BulkCommit
<1>12. ASSUME UNCHANGED vars PROVE Titles'
  BY <1>1, <1>12 DEF recording, vars
<1>. QED
  BY <1>2, <1>3, <1>4, <1>5, <1>6, <1>7, <1>8, <1>9, <1>10, <1>11, <1>12
  DEF SourcesNext, StewardStep, ImportStep, Correct

-----------------------------------------------------------------------------
(* What imports read and log.                                              *)

\* A save keeps what imports read true of the history.
LEMMA SaveKeepsImportLog ==
  ASSUME TypeOK, ImportLog, NEW v \in Title, SaveTitle(v),
         \A j \in Import : job'[j] = job[j] \/ job'[j] = None,
         \A r \in change' \ change : r.via = "file" /\ r.before # None =>
           /\ r.base < r.result
           /\ <<r.base, r.before>> \in history'
           /\ <<r.result, r.after>> \in history'
  PROVE  ImportLog'
<1>1. ReadTogether'
  <2>1. \A j \in Import : job[j] # None => job[j].base \in Nat
    BY DEF TypeOK, Job
  <2>. QED
    BY <2>1 DEF TypeOK, ImportLog, ReadTogether, SaveTitle
<1>2. ImportLogTrue'
  BY DEF ImportLog, ImportLogTrue, SaveTitle
<1>. QED
  BY <1>1, <1>2 DEF ImportLog

\* Every step keeps what imports read and logged true.
LEMMA ImportLogStep == ASSUME TypeOK, Titles, ImportLog, [SourcesNext]_vars PROVE ImportLog'
<1>1. ASSUME UNCHANGED <<revision, change, history>>,
             \A j \in Import : job'[j] = job[j] \/ job'[j] = None
      PROVE  ImportLog'
  BY <1>1 DEF ImportLog, ReadTogether, ImportLogTrue
<1>2. ASSUME NEW u \in Steward, NEW a \in Assertion, NEW c \in BOOLEAN, Apply(u, a, c)
      PROVE ImportLog'
  <2>1. assertion[a].value \in Title
    <3>1. assertion[a] \in AssertionRow
      BY <1>2 DEF TypeOK, Apply, Unused
    <3>. QED
      BY <3>1 DEF AssertionRow
  <2>2. \A r \in change' \ change : r.via = "page"
    BY <1>2 DEF Apply, Logged
  <2>. QED
    BY <1>2, <2>1, <2>2, SaveKeepsImportLog DEF Apply
<1>3. ASSUME NEW v \in Title, Edit(v) PROVE ImportLog'
  BY <1>3, SaveKeepsImportLog DEF Edit
<1>4. ASSUME NEW j \in Import, NEW v \in Title, ImportLoad(j, v) PROVE ImportLog'
  <2>1. /\ job'[j].base = revision /\ job'[j].before = title
        /\ \A i \in Import : i # j => job'[i] = job[i]
        /\ UNCHANGED <<revision, change, history>>
    BY <1>4 DEF TypeOK, ImportLoad
  <2>. QED
    BY <2>1 DEF TypeOK, Titles, RevisionKnown, ImportLog, ReadTogether, ImportLogTrue
<1>5. ASSUME NEW j \in Import, ImportCheck(j) PROVE ImportLog'
  <2>1. job[j] \in Job
    BY <1>5 DEF TypeOK, ImportCheck
  <2>2. /\ job'[j] = None \/ (job'[j].base = job[j].base /\ job'[j].before = job[j].before)
        /\ \A i \in Import : i # j => job'[i] = job[i]
        /\ UNCHANGED <<revision, change, history>>
    BY <1>5, <2>1 DEF TypeOK, ImportCheck, Job
  <2>3. job[j] # None
    BY <1>5 DEF ImportCheck
  <2>. QED
    BY <2>2, <2>3 DEF ImportLog, ReadTogether, ImportLogTrue
<1>6. ASSUME NEW j \in Import, NEW a \in Assertion, ImportTitle(j, a) PROVE ImportLog'
  <2>1. job[j] \in Job /\ job[j] # None
    BY <1>6 DEF TypeOK, ImportTitle
  <2>2. job[j].value \in Title /\ job[j].base \in Nat
    BY <2>1 DEF Job
  <2>3. job[j].base <= revision /\ <<job[j].base, job[j].before>> \in history
    BY <2>1 DEF ImportLog, ReadTogether
  <2>4. /\ revision' = revision + 1
        /\ history' = history \cup {<<revision + 1, job[j].value>>}
    BY <1>6 DEF ImportTitle, SaveTitle
  <2>5. \A r \in change' \ change :
          /\ r.base = job[j].base /\ r.before = job[j].before
          /\ r.result = revision + 1 /\ r.after = job[j].value
    BY <1>6, <2>4 DEF ImportTitle, Logged, ImportBase
  <2>6. \A i \in Import : job'[i] = job[i] \/ job'[i] = None
    BY <1>6 DEF TypeOK, ImportTitle
  <2>7. SaveTitle(job[j].value)
    BY <1>6 DEF ImportTitle
  <2>8. \A r \in change' \ change :
          /\ r.base < r.result
          /\ <<r.base, r.before>> \in history'
          /\ <<r.result, r.after>> \in history'
    BY <2>2, <2>3, <2>4, <2>5 DEF TypeOK
  <2>. QED
    BY <2>2, <2>6, <2>7, <2>8, SaveKeepsImportLog
<1>7. ASSUME NEW j \in Import, ImportEnds(j) PROVE ImportLog'
  <2>1. \A i \in Import : job'[i] = job[i] \/ job'[i] = None
    BY <1>7 DEF TypeOK, ImportEnds
  <2>. QED
    BY <1>1, <1>7, <2>1 DEF ImportEnds
<1>8. ASSUME NEW u \in Steward, OpenPage(u) PROVE ImportLog'
  BY <1>1, <1>8 DEF OpenPage
<1>9. ASSUME NEW a \in Assertion, NEW s, Decide(a, s) \/ EditStatus(a, s) PROVE ImportLog'
  BY <1>1, <1>9 DEF Decide, EditStatus
<1>10. ASSUME NEW p \in Assertion, NEW a \in Assertion, NEW v \in Title, NEW f, Supersede(p, a, v, f)
       PROVE ImportLog'
  BY <1>1, <1>10 DEF Supersede
<1>11. ASSUME NEW b \in BOOLEAN, SetAuthority(b) PROVE ImportLog'
  BY <1>1, <1>11 DEF SetAuthority
<1>12. ASSUME BulkRead \/ BulkCommit PROVE ImportLog'
  BY <1>1, <1>12 DEF BulkRead, BulkCommit
<1>13. ASSUME UNCHANGED vars PROVE ImportLog'
  BY <1>1, <1>13 DEF vars
<1>. QED
  BY <1>2, <1>3, <1>4, <1>5, <1>6, <1>7, <1>8, <1>9, <1>10, <1>11, <1>12, <1>13
  DEF SourcesNext, StewardStep, ImportStep, Correct
-----------------------------------------------------------------------------
(* Decisions about assertions.                                             *)

\* Decisions stay about stored rows when rows stay stored and new decisions are about
\* stored ones.
LEMMA ReviewKept ==
  ASSUME TypeOK, ReviewStored,
         \A a \in Assertion : ~Unused(a) => ~Unused(a)',
         \A a \in Assertion : decided'[a] = decided[a] \/ ~Unused(a),
         bulk' = bulk \/ bulk' = None
  PROVE  ReviewStored'
<1>1. \A a \in Assertion : decided'[a] # None => ~Unused(a)'
  BY DEF ReviewStored
<1>2. bulk # None => \A a \in bulk : a \in Assertion /\ ~Unused(a)
  BY DEF TypeOK, ReviewStored
<1>. QED
  BY <1>1, <1>2 DEF ReviewStored

\* A decision about a stored assertion changes its status and nothing else.
LEMMA DecidedKeeps ==
  ASSUME TypeOK, NEW a \in Assertion, ~Unused(a), NEW s \in Status, NEW n, Decided(a, s, n)
  PROVE  /\ \A b \in Assertion : ~Unused(b) => ~Unused(b)'
         /\ \A b \in Assertion : decided'[b] = decided[b] \/ ~Unused(b)
<1>1. assertion[a] \in AssertionRow
  BY DEF TypeOK, Unused
<1>2. [assertion[a] EXCEPT !.status = s] \in AssertionRow
  BY <1>1 DEF AssertionRow
<1>. QED
  BY <1>1, <1>2, SourceAssumption DEF TypeOK, Decided, Unused

\* Every step keeps the decisions in order.
LEMMA ReviewStep == ASSUME TypeOK, ReviewStored, [SourcesNext]_vars PROVE ReviewStored'
<1>1. ASSUME UNCHANGED <<assertion, decided>>, bulk' = bulk
      PROVE  ReviewStored'
  BY <1>1, ReviewKept DEF Unused
<1>2. ASSUME NEW u \in Steward, NEW a \in Assertion, NEW c \in BOOLEAN, Apply(u, a, c)
      PROVE ReviewStored'
  <2>1. CASE c
    <3>1. Decided(a, "CONFIRMED", "steward") /\ ~Unused(a) /\ "CONFIRMED" \in Status
      BY <1>2, <2>1 DEF Apply, Status, Decisions
    <3>. QED
      BY <1>2, <3>1, DecidedKeeps, ReviewKept DEF Apply, Logged
  <2>2. CASE ~c
    BY <1>1, <1>2, <2>2 DEF Apply, Logged
  <2>. QED
    BY <2>1, <2>2
<1>3. ASSUME NEW a \in Assertion, NEW s \in ReviewChoices \cap Decisions, Decide(a, s) PROVE ReviewStored'
  <2>1. s \in Status
    BY DEF Status
  <2>. QED
    BY <1>3, <2>1, DecidedKeeps, ReviewKept DEF Decide
<1>4. ASSUME NEW p \in Assertion, NEW a \in Assertion, NEW v \in Title, NEW f \in BOOLEAN,
             Supersede(p, a, v, f)
      PROVE ReviewStored'
  <2>1. p # a /\ assertion[p] \in AssertionRow
    BY <1>4 DEF TypeOK, Supersede, Unused
  <2>2. [assertion[p] EXCEPT !.status = "SUPERSEDED"] \in AssertionRow /\ Replacement(v, f) \in AssertionRow
    BY <2>1 DEF AssertionRow, Status, Replacement
  <2>3. \A b \in Assertion : ~Unused(b) => ~Unused(b)'
    BY <1>4, <2>1, <2>2, SourceAssumption DEF TypeOK, Supersede, Unused
  <2>4. \A b \in Assertion : decided'[b] = decided[b] \/ ~Unused(b)
    BY <1>4 DEF TypeOK, Supersede
  <2>. QED
    BY <1>4, <2>3, <2>4, ReviewKept DEF Supersede
<1>5. ASSUME NEW p \in Assertion, NEW a \in Assertion, NEW v \in Title, Correct(p, a, v)
      PROVE ReviewStored'
  <2>1. assertion[p] \in AssertionRow
    BY <1>5 DEF TypeOK, Correct, Supersede, Unused
  <2>2. assertion[p].flac \in BOOLEAN
    BY <2>1 DEF AssertionRow
  <2>. QED
    BY <1>4, <1>5, <2>2 DEF Correct
<1>6. ASSUME NEW a \in Assertion, NEW s \in ReviewChoices, EditStatus(a, s) PROVE ReviewStored'
  <2>1. assertion[a] \in AssertionRow /\ s \in Status
    BY <1>6, SourceAssumption DEF TypeOK, EditStatus, Unused
  <2>2. [assertion[a] EXCEPT !.status = s] \in AssertionRow
    BY <2>1 DEF AssertionRow
  <2>3. \A b \in Assertion : ~Unused(b) => ~Unused(b)'
    BY <1>6, <2>1, <2>2, SourceAssumption DEF TypeOK, EditStatus, Unused
  <2>. QED
    BY <1>6, <2>3, ReviewKept DEF EditStatus
<1>7. ASSUME NEW j \in Import, NEW a \in Assertion, ImportTitle(j, a) PROVE ReviewStored'
  <2>. DEFINE row == [value |-> job[j].value, status |-> "CONFIRMED", flac |-> TRUE]
  <2>1. row \in AssertionRow
    <3>1. job[j] \in Job
      BY <1>7 DEF TypeOK, ImportTitle
    <3>. QED
      BY <3>1 DEF Job, AssertionRow, Status, Decisions
  <2>2. /\ \A b \in Assertion : assertion'[b] = IF b = a THEN row ELSE assertion[b]
        /\ \A b \in Assertion : b # a => decided'[b] = decided[b]
        /\ bulk' = bulk
    BY <1>7 DEF TypeOK, ImportTitle, Logged
  <2>3. row # None
    BY <2>1, SourceAssumption
  <2>4. ReviewStored'
    <3>1. bulk # None => \A b \in bulk : b \in Assertion
      BY DEF TypeOK
    <3>. QED
      BY <2>2, <2>3, <3>1 DEF ReviewStored, Unused
  <2>. QED
    BY <2>4
<1>8. CASE BulkRead
  BY <1>8 DEF BulkRead, ReviewStored, Unused
<1>9. CASE BulkCommit
  <2>1. ASSUME NEW b \in Assertion, ~Unused(b)
        PROVE  ~Unused(b)'
    <3>1. assertion[b] \in AssertionRow
      BY <2>1 DEF TypeOK, Unused
    <3>2. [assertion[b] EXCEPT !.status = "CONFIRMED"] \in AssertionRow
      BY <3>1 DEF AssertionRow, Status, Decisions
    <3>. QED
      BY <1>9, <3>1, <3>2, SourceAssumption DEF BulkCommit, Unused
  <2>2. \A b \in Assertion : decided'[b] = decided[b] \/ ~Unused(b)
    BY <1>9 DEF BulkCommit, ReviewStored
  <2>. QED
    BY <1>9, <2>1, <2>2, ReviewKept DEF BulkCommit
<1>10. ASSUME NEW u \in Steward, OpenPage(u) PROVE ReviewStored'
  BY <1>1, <1>10 DEF OpenPage
<1>11. ASSUME NEW v \in Title, Edit(v) PROVE ReviewStored'
  BY <1>1, <1>11 DEF Edit
<1>12. ASSUME NEW b \in BOOLEAN, SetAuthority(b) PROVE ReviewStored'
  BY <1>1, <1>12 DEF SetAuthority
<1>13. ASSUME NEW j \in Import, \/ \E v \in Title : ImportLoad(j, v)
                               \/ ImportCheck(j) \/ ImportEnds(j)
       PROVE ReviewStored'
  BY <1>1, <1>13 DEF ImportLoad, ImportCheck, ImportEnds
<1>14. ASSUME UNCHANGED vars PROVE ReviewStored'
  BY <1>1, <1>14 DEF vars
<1>. QED
  BY <1>2, <1>3, <1>4, <1>5, <1>6, <1>7, <1>8, <1>9, <1>10, <1>11, <1>12, <1>13, <1>14
  DEF SourcesNext, StewardStep, ImportStep

-----------------------------------------------------------------------------
\* The initial states satisfy the invariant.
LEMMA Initially == SourcesInit => IInv
<1>1. ASSUME SourcesInit PROVE TypeOK
  <2>1. [value |-> FirstTitle, status |-> "UNVERIFIED", flac |-> TRUE] \in AssertionRow
    BY SourceAssumption DEF AssertionRow, Status
  <2>2. [assertion |-> Legacy, before |-> None, after |-> FirstTitle,
         base |-> 1, result |-> 1, via |-> "file"] \in Change
    BY SourceAssumption DEF Change
  <2>3. assertion \in [Assertion -> AssertionRow \cup {None}]
    BY <1>1, <2>1 DEF SourcesInit
  <2>4. change \subseteq Change /\ history \subseteq Nat \X Title
    BY <1>1, <2>2, SourceAssumption DEF SourcesInit
  <2>5. /\ decided \in [Assertion -> [status : Status, note : Note] \cup {None}]
        /\ page \in [Steward -> [title : Title, revision : Nat] \cup {None}]
        /\ job \in [Import -> Job \cup {None}]
    BY <1>1 DEF SourcesInit
  <2>. QED
    BY <1>1, <2>3, <2>4, <2>5, SourceAssumption DEF SourcesInit, TypeOK
<1>2. ASSUME SourcesInit PROVE Titles
  BY <1>2 DEF SourcesInit, Titles, RevisionKnown, PageIsHonest, AppliedLogTrue
<1>3. ASSUME SourcesInit PROVE ReviewStored
  BY <1>3 DEF SourcesInit, ReviewStored
<1>4. ASSUME SourcesInit PROVE ImportLog
  BY <1>4 DEF SourcesInit, ImportLog, ReadTogether, ImportLogTrue
<1>. QED
  BY <1>1, <1>2, <1>3, <1>4 DEF IInv

\* Every step keeps the invariant.
LEMMA Inductive == IInv /\ [SourcesNext]_vars => IInv'
<1>1. ASSUME IInv, [SourcesNext]_vars PROVE TypeOK'
  <2>1. CASE UNCHANGED vars
    BY <1>1, <2>1 DEF IInv, vars, TypeOK
  <2>. QED
    BY <1>1, <2>1, StewardTyped, ImportTyped, BulkTyped DEF IInv, SourcesNext
<1>. QED
  BY <1>1, TitlesStep, ImportLogStep, ReviewStep DEF IInv

\* The invariant holds in every reachable state.
THEOREM Invariance == SourcesSpec => []IInv
BY Initially, Inductive, PTL DEF SourcesSpec

\* Every variable keeps its type: saves, decisions and imports store
\* well-formed rows (provenance/services.py, flac_ingest/services.py).
THEOREM TypeCorrect == SourcesSpec => []TypeOK
BY Invariance, PTL DEF IInv

\* A page whose revision is still the recording's shows the recording's
\* title: two saves never share a revision (CanonicalModel.save).
THEOREM PagesAreHonest == SourcesSpec => []PageIsHonest
<1>1. IInv => PageIsHonest
  BY DEF IInv, Titles
<1>. QED
  BY <1>1, Invariance, PTL

\* What is logged of values applied from pages is true (apply_assertion).
THEOREM AppliedLogIsTrue == SourcesSpec => []AppliedLogTrue
<1>1. IInv => AppliedLogTrue
  BY DEF IInv, Titles
<1>. QED
  BY <1>1, Invariance, PTL

\* What an import logs is true: the title and the revision it says it replaced belong
\* together, whatever was saved between its reading and its writing (apply_item).
THEOREM ImportLogIsTrue == SourcesSpec => []ImportLogTrue
<1>1. IInv => ImportLogTrue
  BY DEF IInv, ImportLog
<1>. QED
  BY <1>1, Invariance, PTL

\* A source value applied from a page replaces the title the page showed, so
\* a steward never overwrites a title unseen (apply_assertion).
THEOREM SeenBeforeReplaced == SourcesSpec => ReplacesWhatWasSeen
<1>1. IInv /\ [SourcesNext]_vars =>
        [\A u \in Steward, a \in Assertion, c \in BOOLEAN :
           Apply(u, a, c) => page[u].title = title]_vars
  BY DEF IInv, Titles, PageIsHonest, Apply, PageCurrent
<1>. QED
  BY <1>1, Invariance, PTL DEF SourcesSpec, ReplacesWhatWasSeen
=============================================================================

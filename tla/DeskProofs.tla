----------------------------- MODULE DeskProofs -----------------------------
(***************************************************************************)
(* What the lists of the two user interfaces show is what they say, for    *)
(* every table and every request (ListingsHonest).  A list is the rows of  *)
(* a query in the order of their keys, cut into pages; a row that several  *)
(* joined rows match is returned once where the query says distinct.  So   *)
(* first: sorting, joining, paging and cutting, of any rows; then the      *)
(* covers, the filters, the managed music, the archive, the releases, the  *)
(* searches and tasks, and the library, whose rows are asked for in SQL,   *)
(* filtered in Python and shown again one at a time.                       *)
(***************************************************************************)
EXTENDS Calculations, CatalogueProofs

-----------------------------------------------------------------------------
(* Lists in the order of their keys.                                       *)

\* The least of finitely many numbers.
LEMMA LeastIn ==
  ASSUME NEW D \in SUBSET Int, IsFiniteSet(D), D # {}
  PROVE  Min(D) \in D /\ \A y \in D : Min(D) <= y
<1>1. PICK K : K = {S \in SUBSET D : S # {} => \E x \in S : \A y \in S : x <= y}
  OBVIOUS
<1>2. ASSUME NEW S \in SUBSET D, \A T \in SUBSET S : T # S => T \in K
      PROVE  S \in K
  <2>1. ASSUME NEW a \in S, S # {a} PROVE \E x \in S : \A y \in S : x <= y
    <3>1. S \ {a} \in K /\ S \ {a} # {}
      BY <1>2, <2>1
    <3>2. PICK x \in S \ {a} : \A y \in S \ {a} : x <= y
      BY <1>1, <3>1
    <3>3. a \in Int /\ x \in Int /\ S \subseteq Int
      BY <2>1, <3>2
    <3>4. CASE x <= a
      BY <3>2, <3>4
    <3>5. CASE a <= x
      BY <3>2, <3>3, <3>5
    <3>. QED BY <3>3, <3>4, <3>5
  <2>2. ASSUME NEW a \in S, S = {a} PROVE \E x \in S : \A y \in S : x <= y
    <3>1. a \in Int
      BY <2>2
    <3>. QED BY <2>2, <3>1
  <2>. QED BY <1>1, <2>1, <2>2
<1>3. D \in K
  <2>1. SUBSET D \subseteq K
    BY <1>2, BySubsets
  <2>. QED BY <2>1
<1>4. \E x \in D : \A y \in D : x <= y
  BY <1>1, <1>3
<1>. QED BY <1>4, Zenon DEF Min

\* Rows whose keys are so many numbers, and differ.
Keyed(keys, n) ==
  /\ IsFiniteSet(DOMAIN keys) /\ n \in Nat
  /\ \A i \in DOMAIN keys : keys[i] \in [1..n -> Int]
  /\ \A i, j \in DOMAIN keys : keys[i] = keys[j] => i = j

\* Of two keys one precedes the other.
LEMMA PrecedesTotal ==
  ASSUME NEW n \in Nat, NEW k \in [1..n -> Int], NEW l \in [1..n -> Int]
  PROVE  /\ k # l => Precedes(k, l) \/ Precedes(l, k)
         /\ ~(Precedes(k, l) /\ Precedes(l, k)) /\ ~Precedes(k, k)
<1>1. DOMAIN k = 1..n /\ DOMAIN l = 1..n /\ \A i \in 1..n : k[i] \in Int /\ l[i] \in Int
  OBVIOUS
<1>2. ASSUME k # l PROVE Precedes(k, l) \/ Precedes(l, k)
  <2>1. PICK D : D = {i \in 1..n : k[i] # l[i]}
    OBVIOUS
  <2>2. D \in SUBSET Int /\ D # {} /\ D \in SUBSET (1..n)
    <3>1. (\A i \in 1..n : k[i] = l[i]) => k = l
      OBVIOUS
    <3>. QED BY <1>2, <2>1, <3>1
  <2>3. IsFiniteSet(D)
    <3>1. IsFiniteSet(1..n)
      BY FS_Interval
    <3>. QED BY <2>2, <3>1, FS_Subset
  <2>4. PICK m : m \in D /\ \A y \in D : m <= y
    BY <2>2, <2>3, LeastIn
  <2>5. m \in 1..n /\ \A j \in 1..(m - 1) : k[j] = l[j]
    BY <2>1, <2>2, <2>4
  <2>6. k[m] < l[m] \/ l[m] < k[m]
    BY <1>1, <2>1, <2>4, <2>5
  <2>. QED BY <1>1, <2>5, <2>6 DEF Precedes
<1>3. ~(Precedes(k, l) /\ Precedes(l, k))
  <2>. SUFFICES ASSUME NEW i \in 1..n, k[i] < l[i], \A j \in 1..(i - 1) : k[j] = l[j],
                       NEW h \in 1..n, l[h] < k[h], \A j \in 1..(h - 1) : l[j] = k[j]
                PROVE  FALSE
    BY <1>1 DEF Precedes
  <2>1. CASE i < h
    <3>1. i \in 1..(h - 1)
      BY <2>1
    <3>. QED BY <1>1, <3>1
  <2>2. CASE h < i
    <3>1. h \in 1..(i - 1)
      BY <2>2
    <3>. QED BY <1>1, <3>1
  <2>3. CASE i = h
    BY <1>1, <2>3
  <2>. QED BY <2>1, <2>2, <2>3
<1>4. ~Precedes(k, k)
  BY <1>1 DEF Precedes
<1>. QED BY <1>2, <1>3, <1>4

LEMMA PrecedesOn ==
  ASSUME NEW n \in Nat, NEW k \in [1..n -> Int], NEW l \in [1..n -> Int], NEW m \in [1..n -> Int],
         Precedes(k, l), Precedes(l, m)
  PROVE  Precedes(k, m)
<1>1. /\ DOMAIN k = 1..n /\ DOMAIN l = 1..n
      /\ \A i \in 1..n : k[i] \in Int /\ l[i] \in Int /\ m[i] \in Int
  OBVIOUS
<1>2. PICK i \in 1..n : k[i] < l[i] /\ \A j \in 1..(i - 1) : k[j] = l[j]
  BY <1>1 DEF Precedes
<1>3. PICK h \in 1..n : l[h] < m[h] /\ \A j \in 1..(h - 1) : l[j] = m[j]
  BY <1>1 DEF Precedes
<1>4. CASE i <= h
  <2>1. k[i] < m[i]
    <3>1. CASE i = h
      BY <1>1, <1>2, <1>3, <3>1
    <3>2. CASE i < h
      <4>1. i \in 1..(h - 1)
        BY <3>2
      <4>. QED BY <1>1, <1>2, <1>3, <4>1
    <3>. QED BY <1>4, <3>1, <3>2
  <2>2. \A j \in 1..(i - 1) : k[j] = m[j]
    <3>1. \A j \in 1..(i - 1) : j \in 1..(h - 1)
      BY <1>4
    <3>. QED BY <1>2, <1>3, <3>1
  <2>. QED BY <1>1, <2>1, <2>2 DEF Precedes
<1>5. CASE h < i
  <2>1. h \in 1..(i - 1)
    BY <1>5
  <2>2. k[h] < m[h]
    BY <1>1, <1>2, <1>3, <2>1
  <2>3. \A j \in 1..(h - 1) : k[j] = m[j]
    <3>1. \A j \in 1..(h - 1) : j \in 1..(i - 1)
      BY <1>5
    <3>. QED BY <1>2, <1>3, <3>1
  <2>. QED BY <1>1, <2>2, <2>3 DEF Precedes
<1>. QED BY <1>4, <1>5

\* The rows in order: each once, those with smaller keys first.
Sequenced(keys, order) ==
  LET N == Cardinality(DOMAIN keys)
  IN  /\ N \in Nat /\ order \in [1..N -> DOMAIN keys]
      /\ \A i \in DOMAIN keys : \E m \in 1..N : order[m] = i
      /\ \A h, m \in 1..N : h < m => Precedes(keys[order[h]], keys[order[m]])

LEMMA KeysSequenced ==
  ASSUME NEW keys, NEW n, Keyed(keys, n)
  PROVE  Sequenced(keys, InKeyOrder(keys))
<1>1. PICK D : D = DOMAIN keys
  OBVIOUS
<1>2. /\ IsFiniteSet(D) /\ n \in Nat /\ \A i \in D : keys[i] \in [1..n -> Int]
      /\ \A i, j \in D : i # j => keys[i] # keys[j]
  BY <1>1 DEF Keyed
<1>3. PICK N \in Nat : N = Cardinality(D)
  BY <1>2, FS_CardinalityType
<1>4. \A i, j \in D : i # j => Precedes(keys[i], keys[j]) \/ Precedes(keys[j], keys[i])
  BY <1>2, PrecedesTotal
<1>5. \A i, j \in D : ~(Precedes(keys[i], keys[j]) /\ Precedes(keys[j], keys[i])) /\ ~Precedes(keys[i], keys[i])
  BY <1>2, PrecedesTotal
<1>6. \A i, j, k \in D : Precedes(keys[i], keys[j]) /\ Precedes(keys[j], keys[k]) => Precedes(keys[i], keys[k])
  BY <1>2, PrecedesOn
<1>7. PICK R : R = {p \in D \X D : Precedes(keys[p[1]], keys[p[2]])}
  OBVIOUS
<1>8. \A i, j \in D : <<i, j>> \in R <=> Precedes(keys[i], keys[j])
  BY <1>7
<1>9. PICK pred : pred = [i \in D |-> {j \in D : <<j, i>> \in R}]
  OBVIOUS
<1>10. \A i \in D : pred[i] = Before(keys, i) /\ pred[i] \in SUBSET D /\ i \notin pred[i]
  BY <1>1, <1>5, <1>8, <1>9 DEF Before
<1>11. \A i \in D : IsFiniteSet(pred[i]) /\ Cardinality(pred[i]) \in 0..(N - 1)
  <2>. SUFFICES ASSUME NEW i \in D
                PROVE  IsFiniteSet(pred[i]) /\ Cardinality(pred[i]) \in 0..(N - 1)
    OBVIOUS
  <2>1. PICK P : P = pred[i]
    OBVIOUS
  <2>2. P \in SUBSET D /\ P # D
    BY <1>10, <2>1
  <2>3. IsFiniteSet(P) /\ Cardinality(P) <= Cardinality(D) /\ Cardinality(P) # Cardinality(D)
    BY <1>2, <2>2, FS_Subset
  <2>4. Cardinality(P) \in Nat
    BY <2>3, FS_CardinalityType
  <2>. QED BY <1>3, <2>1, <2>3, <2>4
<1>12. \A i, j \in D : <<i, j>> \in R => Cardinality(pred[i]) < Cardinality(pred[j])
  <2>. SUFFICES ASSUME NEW i \in D, NEW j \in D, <<i, j>> \in R
                PROVE  Cardinality(pred[i]) < Cardinality(pred[j])
    OBVIOUS
  <2>1. PICK P, Q : P = pred[i] /\ Q = pred[j]
    OBVIOUS
  <2>2. P \in SUBSET Q
    BY <1>6, <1>8, <1>9, <2>1
  <2>3. i \in Q /\ i \notin P
    BY <1>9, <1>10, <2>1
  <2>4. IsFiniteSet(Q) /\ Cardinality(P) \in Int /\ Cardinality(Q) \in Int
    BY <1>11, <2>1
  <2>5. Cardinality(P) <= Cardinality(Q) /\ Cardinality(P) # Cardinality(Q)
    BY <2>2, <2>3, <2>4, FS_Subset
  <2>. QED BY <2>1, <2>4, <2>5
<1>13. \A i, j \in D : Cardinality(pred[i]) = Cardinality(pred[j]) => i = j
  <2>. SUFFICES ASSUME NEW i \in D, NEW j \in D, i # j
                PROVE  Cardinality(pred[i]) # Cardinality(pred[j])
    OBVIOUS
  <2>1. <<i, j>> \in R \/ <<j, i>> \in R
    BY <1>4, <1>8
  <2>2. Cardinality(pred[i]) \in Int /\ Cardinality(pred[j]) \in Int
    BY <1>11
  <2>. QED BY <1>12, <2>1, <2>2
<1>14. PICK f : f = [i \in D |-> Cardinality(pred[i]) + 1]
  OBVIOUS
<1>15. f \in Injection(D, 1..N)
  <2>1. \A i \in D : f[i] \in 1..N
    BY <1>11, <1>14
  <2>2. \A i, j \in D : f[i] = f[j] => i = j
    BY <1>11, <1>13, <1>14
  <2>. QED BY <1>14, <2>1, <2>2 DEF Injection, IsInjective
<1>16. f \in Surjection(D, 1..N)
  <2>1. IsFiniteSet(1..N) /\ Cardinality(1..N) = N
    BY <1>3, FS_Interval
  <2>. QED BY <1>3, <1>15, <2>1, FS_Injection
<1>17. \A m \in 1..N : \E i \in D : f[i] = m
  BY <1>16 DEF Surjection
<1>18. PICK order : order = InKeyOrder(keys)
  OBVIOUS
<1>19. DOMAIN order = 1..N /\ order = [m \in DOMAIN order |-> order[m]]
  BY <1>1, <1>3, <1>18 DEF InKeyOrder
<1>20. \A m \in 1..N : order[m] \in D /\ f[order[m]] = m
  <2>. SUFFICES ASSUME NEW m \in 1..N PROVE order[m] \in D /\ f[order[m]] = m
    OBVIOUS
  <2>1. order[m] = CHOOSE i \in D : Cardinality(Before(keys, i)) = m - 1
    BY <1>1, <1>3, <1>18 DEF InKeyOrder
  <2>2. PICK i \in D : f[i] = m
    BY <1>17
  <2>3. Cardinality(Before(keys, i)) = m - 1
    BY <1>10, <1>11, <1>14, <2>2
  <2>4. order[m] \in D /\ Cardinality(Before(keys, order[m])) = m - 1
    BY <2>1, <2>3
  <2>. QED BY <1>10, <1>11, <1>14, <2>4
<1>21. \A i \in D : \E m \in 1..N : order[m] = i
  <2>. SUFFICES ASSUME NEW i \in D PROVE \E m \in 1..N : order[m] = i
    OBVIOUS
  <2>1. f[i] \in 1..N
    BY <1>15 DEF Injection
  <2>2. order[f[i]] \in D /\ f[order[f[i]]] = f[i]
    BY <1>20, <2>1
  <2>3. order[f[i]] = i
    BY <1>15, <2>2 DEF Injection, IsInjective
  <2>. QED BY <2>1, <2>3
<1>22. \A h, m \in 1..N : h < m => Precedes(keys[order[h]], keys[order[m]])
  <2>. SUFFICES ASSUME NEW h \in 1..N, NEW m \in 1..N, h < m
                PROVE  Precedes(keys[order[h]], keys[order[m]])
    OBVIOUS
  <2>1. PICK i \in D, j \in D : i = order[h] /\ j = order[m] /\ f[i] = h /\ f[j] = m
    BY <1>20
  <2>2. i # j
    BY <2>1
  <2>3. ~Precedes(keys[j], keys[i])
    <3>1. SUFFICES ASSUME <<j, i>> \in R PROVE FALSE
      BY <1>8
    <3>2. Cardinality(pred[j]) < Cardinality(pred[i])
      BY <1>12, <3>1
    <3>. QED BY <1>11, <1>14, <2>1, <3>2
  <2>. QED BY <1>4, <2>1, <2>2, <2>3
<1>23. order \in [1..N -> D]
  BY <1>19, <1>20
<1>. QED BY <1>1, <1>3, <1>18, <1>21, <1>22, <1>23 DEF Sequenced

\* Of two elements of the list, the earlier one and the later one are related.
Chain(list, R) == \A h, m \in DOMAIN list : h < m => <<list[h], list[m]>> \in R

\* All of the list are related to x.
AllBefore(a, x, R) == \A h \in DOMAIN a : <<a[h], x>> \in R

\* A chain with one more element.
LEMMA ChainGrows ==
  ASSUME NEW S, NEW a \in Seq(S), NEW x \in S, NEW R, Chain(a, R), AllBefore(a, x, R)
  PROVE  Chain(a \o <<x>>, R) /\ ToSet(a \o <<x>>) = ToSet(a) \cup {x}
<1>1. PICK n \in Nat : n = Len(a)
  OBVIOUS
<1>2. PICK b : b = a \o <<x>>
  OBVIOUS
<1>3. DOMAIN a = 1..n /\ DOMAIN b = 1..(n + 1) /\ b[n + 1] = x /\ \A h \in 1..n : b[h] = a[h]
  BY <1>1, <1>2
<1>4. Chain(b, R)
  <2>. SUFFICES ASSUME NEW h \in DOMAIN b, NEW m \in DOMAIN b, h < m PROVE <<b[h], b[m]>> \in R
    BY DEF Chain
  <2>1. h \in 1..n /\ (m \in 1..n \/ m = n + 1)
    BY <1>3
  <2>. QED BY <1>3, <2>1 DEF Chain, AllBefore
<1>5. \A m \in DOMAIN b : m \in DOMAIN a \/ m = n + 1
  BY <1>3
<1>6. ToSet(b) = ToSet(a) \cup {x}
  <2>1. \A y \in ToSet(b) : y \in ToSet(a) \cup {x}
    BY <1>3, <1>5 DEF ToSet
  <2>2. \A y \in ToSet(a) : y \in ToSet(b)
    BY <1>3 DEF ToSet
  <2>3. x \in ToSet(b)
    BY <1>3 DEF ToSet
  <2>. QED BY <2>1, <2>2, <2>3
<1>. QED BY <1>2, <1>4, <1>6

\* What passes a test keeps its order.
LEMMA PassedKeepsOrder ==
  ASSUME NEW S, NEW list \in Seq(S), NEW K, NEW seqs, Singly(list, K, seqs), NEW R, Chain(list, R)
  PROVE  /\ Concat(seqs) \in Seq(S \cap K) /\ Chain(Concat(seqs), R)
         /\ ToSet(Concat(seqs)) = ToSet(list) \cap K
<1>1. PICK n \in Nat : n = Len(list)
  OBVIOUS
<1>2. PICK g : Passes(S, n, list, K, seqs, g)
  BY <1>1, PassedInTurn
<1>3. Concat(seqs) \in Seq(S \cap K)
  BY <1>1, PassedInTurn
<1>4. PICK part : part = [k \in 0..n |-> {list[i] : i \in 1..k}]
  OBVIOUS
<1>5. PICK A : A = {k \in 0..n : Chain(g[k], R) /\ ToSet(g[k]) = part[k] \cap K}
  OBVIOUS
<1>6. 0 \in A
  <2>1. g[0] = <<>>
    BY <1>2 DEF Passes
  <2>2. DOMAIN g[0] = {} /\ part[0] = {}
    BY <1>4, <2>1
  <2>3. Chain(g[0], R) /\ ToSet(g[0]) = {}
    BY <2>2 DEF Chain, ToSet
  <2>. QED BY <1>5, <2>2, <2>3
<1>7. ASSUME NEW k \in 0..n, k \in A, k < n PROVE k + 1 \in A
  <2>1. k + 1 \in 1..n /\ (k + 1) - 1 = k /\ list[k + 1] \in S /\ k + 1 \in 0..n
    BY <1>1, <1>7
  <2>2. g[k] \in Seq(S) /\ g[k + 1] = (IF list[k + 1] \in K THEN g[k] \o <<list[k + 1]>> ELSE g[k])
    BY <1>2, <2>1 DEF Passes
  <2>3. Chain(g[k], R) /\ ToSet(g[k]) = part[k] \cap K
    BY <1>5, <1>7
  <2>4. part[k + 1] = part[k] \cup {list[k + 1]}
    <3>1. \A i \in 1..(k + 1) : i \in 1..k \/ i = k + 1
      OBVIOUS
    <3>2. \A i \in 1..k : i \in 1..(k + 1)
      OBVIOUS
    <3>3. k + 1 \in 1..(k + 1)
      OBVIOUS
    <3>. QED BY <1>4, <2>1, <3>1, <3>2, <3>3
  <2>5. CASE list[k + 1] \in K
    <3>1. PICK x \in S, a \in Seq(S) : x = list[k + 1] /\ a = g[k]
      BY <2>1, <2>2
    <3>2. AllBefore(a, x, R)
      <4>. SUFFICES ASSUME NEW h \in DOMAIN a PROVE <<a[h], x>> \in R
        BY DEF AllBefore
      <4>1. a[h] \in part[k]
        BY <2>3, <3>1 DEF ToSet
      <4>2. PICK i \in 1..k : a[h] = list[i]
        BY <1>4, <1>7, <4>1
      <4>3. i \in DOMAIN list /\ k + 1 \in DOMAIN list /\ i < k + 1
        BY <1>1, <1>7
      <4>. QED BY <3>1, <4>2, <4>3 DEF Chain
    <3>3. Chain(a \o <<x>>, R) /\ ToSet(a \o <<x>>) = ToSet(a) \cup {x}
      BY <2>3, <3>1, <3>2, ChainGrows
    <3>. QED BY <1>5, <2>1, <2>2, <2>3, <2>4, <2>5, <3>1, <3>3
  <2>6. CASE list[k + 1] \notin K
    BY <1>5, <2>1, <2>2, <2>3, <2>4, <2>6
  <2>. QED BY <2>5, <2>6
<1>8. n \in A /\ g[n] = Concat(seqs)
  <2>1. n \in A
    BY <1>6, <1>7, UpTo
  <2>. QED BY <1>2, <2>1 DEF Passes
<1>9. part[n] = ToSet(list)
  BY <1>1, <1>4 DEF ToSet
<1>. QED BY <1>3, <1>5, <1>8, <1>9

\* A list of rows, those of K, each once, in the order of their keys.
ListsRows(keys, K, list) ==
  /\ list \in Seq(DOMAIN keys) /\ ToSet(list) = DOMAIN keys \cap K
  /\ \A h, m \in DOMAIN list : list[h] = list[m] => h = m
  /\ \A h, m \in DOMAIN list : h < m => Precedes(keys[list[h]], keys[list[m]])

\* Rows that come at most once are listed in order (DISTINCT, order_by).
LEMMA ReturnedLists ==
  ASSUME NEW keys, NEW n, Keyed(keys, n), NEW times, NEW K, DOMAIN keys \subseteq DOMAIN times,
         \A i \in DOMAIN keys : times[i] = IF i \in K THEN 1 ELSE 0
  PROVE  ListsRows(keys, K, Returned(keys, times))
<1>1. PICK D, order : D = DOMAIN keys /\ order = InKeyOrder(keys)
  OBVIOUS
<1>2. PICK N \in Nat : /\ order \in [1..N -> D] /\ \A i \in D : \E m \in 1..N : order[m] = i
                       /\ \A h, m \in 1..N : h < m => Precedes(keys[order[h]], keys[order[m]])
  BY <1>1, KeysSequenced DEF Sequenced
<1>3. order \in Seq(D) /\ DOMAIN order = 1..N
  BY <1>2
<1>4. PICK seqs : seqs = [m \in DOMAIN order |-> [k \in 1..times[order[m]] |-> order[m]]]
  OBVIOUS
<1>5. \A m \in DOMAIN order : [k \in 1..times[order[m]] |-> order[m]] =
                                 IF order[m] \in K THEN <<order[m]>> ELSE <<>>
  <2>. SUFFICES ASSUME NEW m \in DOMAIN order
                PROVE  [k \in 1..times[order[m]] |-> order[m]] = IF order[m] \in K THEN <<order[m]>> ELSE <<>>
    OBVIOUS
  <2>1. PICK i \in D : i = order[m]
    BY <1>2, <1>3
  <2>2. times[i] = IF i \in K THEN 1 ELSE 0
    BY <1>1, <2>1
  <2>3. CASE i \in K
    <3>1. [k \in 1..1 |-> i] = <<i>>
      OBVIOUS
    <3>. QED BY <2>1, <2>2, <2>3, <3>1
  <2>4. CASE i \notin K
    <3>1. [k \in 1..0 |-> i] = <<>>
      OBVIOUS
    <3>. QED BY <2>1, <2>2, <2>4, <3>1
  <2>. QED BY <2>3, <2>4
<1>6. Singly(order, K, seqs)
  BY <1>4, <1>5 DEF Singly
<1>7. PICK R : R = {p \in D \X D : p[1] # p[2] /\ Precedes(keys[p[1]], keys[p[2]])}
  OBVIOUS
<1>8. Chain(order, R)
  <2>. SUFFICES ASSUME NEW h \in 1..N, NEW m \in 1..N, h < m PROVE <<order[h], order[m]>> \in R
    BY <1>3 DEF Chain
  <2>1. order[h] \in D /\ order[m] \in D /\ Precedes(keys[order[h]], keys[order[m]])
    BY <1>2
  <2>2. order[h] # order[m]
    <3>1. \A i \in D : ~Precedes(keys[i], keys[i])
      BY <1>1, PrecedesTotal DEF Keyed
    <3>. QED BY <2>1, <3>1
  <2>. QED BY <1>7, <2>1, <2>2
<1>9. PICK list : list = Concat(seqs)
  OBVIOUS
<1>10. list \in Seq(D \cap K) /\ Chain(list, R) /\ ToSet(list) = ToSet(order) \cap K
  BY <1>3, <1>6, <1>8, <1>9, PassedKeepsOrder
<1>11. ToSet(order) = D
  BY <1>2, <1>3 DEF ToSet
<1>12. list \in Seq(D)
  BY <1>10
<1>13. \A h, m \in DOMAIN list : h < m => list[h] # list[m] /\ Precedes(keys[list[h]], keys[list[m]])
  <2>. SUFFICES ASSUME NEW h \in DOMAIN list, NEW m \in DOMAIN list, h < m
                PROVE  list[h] # list[m] /\ Precedes(keys[list[h]], keys[list[m]])
    OBVIOUS
  <2>1. <<list[h], list[m]>> \in R
    BY <1>10 DEF Chain
  <2>2. PICK x, y : x = list[h] /\ y = list[m]
    OBVIOUS
  <2>. QED BY <1>7, <2>1, <2>2
<1>14. \A h, m \in DOMAIN list : list[h] = list[m] => h = m
  <2>1. \A h, m \in DOMAIN list : h \in Int /\ m \in Int
    BY <1>12
  <2>. QED BY <1>13, <2>1
<1>15. list = Returned(keys, times)
  BY <1>1, <1>4, <1>9, Zenon DEF Returned
<1>. QED BY <1>1, <1>10, <1>11, <1>12, <1>13, <1>14, <1>15 DEF ListsRows

-----------------------------------------------------------------------------
(* Pages of a list.                                                        *)

\* The lesser of two numbers.
LEMMA LesserOfTwo ==
  ASSUME NEW a \in Int, NEW b \in Int
  PROVE  Min({a, b}) = IF a <= b THEN a ELSE b
<1>1. PICK D : D = {a, b}
  OBVIOUS
<1>2. IsFiniteSet(D)
  <2>1. IsFiniteSet({a})
    BY FS_Singleton
  <2>2. IsFiniteSet({a} \cup {b})
    BY <2>1, FS_AddElement
  <2>3. D = {a} \cup {b}
    BY <1>1
  <2>. QED BY <2>2, <2>3
<1>3. D \in SUBSET Int /\ D # {}
  BY <1>1
<1>4. Min(D) \in D /\ \A y \in D : Min(D) <= y
  BY <1>2, <1>3, LeastIn
<1>. QED BY <1>1, <1>4

\* The greater of two numbers.
LEMMA GreaterOfTwo ==
  ASSUME NEW a \in Nat, NEW b \in Nat
  PROVE  Max({a, b}) = IF a >= b THEN a ELSE b
<1>1. PICK D : D = {a, b}
  OBVIOUS
<1>2. IsFiniteSet(D)
  <2>1. IsFiniteSet({a})
    BY FS_Singleton
  <2>2. IsFiniteSet({a} \cup {b})
    BY <2>1, FS_AddElement
  <2>3. D = {a} \cup {b}
    BY <1>1
  <2>. QED BY <2>2, <2>3
<1>3. D \in SUBSET Nat /\ D # {}
  BY <1>1
<1>4. Max(D) \in D /\ \A y \in D : Max(D) >= y
  BY <1>2, <1>3, GreatestIn
<1>. QED BY <1>1, <1>4

\* The pages of the size that n rows take: the last one is not empty.
PagesFor(n, size, P) ==
  /\ P \in Nat /\ P > 0 /\ P * size >= n /\ (P - 1) * size <= n
  /\ n > 0 => (P - 1) * size < n /\ P <= n

LEMMA PagesCounted ==
  ASSUME NEW S, NEW list \in Seq(S), NEW size \in Nat \ {0}
  PROVE  PagesFor(Len(list), size, Pages(list, size))
<1>1. PICK n \in Nat : n = Len(list)
  OBVIOUS
<1>2. CASE list = <<>>
  <2>1. Pages(list, size) = 1 /\ n = 0
    BY <1>1, <1>2 DEF Pages
  <2>2. 1 * size = size /\ (1 - 1) * size = 0
    OBVIOUS
  <2>. QED BY <1>1, <2>1, <2>2 DEF PagesFor
<1>3. CASE list # <<>>
  <2>1. n > 0
    BY <1>1, <1>3
  <2>2. PICK q, r : q = (n + size - 1) \div size /\ r = (n + size - 1) % size
    OBVIOUS
  <2>3. n + size - 1 \in Nat
    BY <2>1
  <2>4. q \in Int /\ r \in 0..(size - 1) /\ n + size - 1 = size * q + r
    BY <2>2, <2>3
  <2>5. q > 0
    <3>1. SUFFICES ASSUME q <= 0 PROVE FALSE
      BY <2>4
    <3>2. size * q <= 0
      BY <2>4, <3>1
    <3>3. r = n + size - 1 - size * q /\ r < size /\ size * q \in Int
      BY <2>4
    <3>. QED BY <2>1, <3>2, <3>3
  <2>6. size * q = q * size /\ (q - 1) * size = size * q - size
    BY <2>4
  <2>7. size * q >= n /\ size * q - size < n
    <3>1. size * q \in Int
      BY <2>4
    <3>. QED BY <2>4, <3>1
  <2>8. q <= n
    <3>1. CASE q = 1
      BY <2>1, <3>1
    <3>2. CASE q > 1
      <4>1. (q - 1) * size >= q - 1
        BY <2>4, <3>2
      <4>2. (q - 1) * size \in Int
        BY <2>4
      <4>. QED BY <2>4, <2>6, <2>7, <4>1, <4>2
    <3>. QED BY <2>4, <2>5, <3>1, <3>2
  <2>9. Pages(list, size) = q
    BY <1>1, <1>3, <2>2 DEF Pages
  <2>10. size * q - size <= n
    <3>1. size * q \in Int
      BY <2>4
    <3>. QED BY <2>7, <3>1
  <2>. QED BY <1>1, <2>1, <2>4, <2>5, <2>6, <2>7, <2>8, <2>9, <2>10 DEF PagesFor
<1>. QED BY <1>2, <1>3

\* The elements of a list from one to another.
Extract(S, list, from, to, part) ==
  /\ part \in Seq(S) /\ Len(part) = to - from + 1
  /\ \A i \in 1..(to - from + 1) : part[i] = list[from + i - 1]

\* A page has the rows behind those of the pages before it.
LEMMA PageCut ==
  ASSUME NEW S, NEW list \in Seq(S), NEW size \in Nat \ {0}, NEW p \in 1..Pages(list, size)
  PROVE  LET from == (p - 1) * size IN
         \E to \in from..Len(list) :
           /\ Extract(S, list, from + 1, to, PageOf(list, size, p))
           /\ to = IF p * size <= Len(list) THEN p * size ELSE Len(list)
<1>1. PICK n \in Nat, P \in Nat : n = Len(list) /\ P = Pages(list, size) /\ PagesFor(n, size, P)
  <2>1. PagesFor(Len(list), size, Pages(list, size)) /\ Len(list) \in Nat
    BY PagesCounted
  <2>2. PICK m, Q : m = Len(list) /\ Q = Pages(list, size)
    OBVIOUS
  <2>3. m \in Nat /\ Q \in Nat /\ PagesFor(m, size, Q)
    BY <2>1, <2>2 DEF PagesFor
  <2>. QED BY <2>2, <2>3
<1>2. PICK from, end : from = (p - 1) * size /\ end = p * size
  OBVIOUS
<1>3. from \in Nat /\ end \in Nat /\ end = from + size
  BY <1>1, <1>2
<1>4. from <= n
  <2>1. p - 1 <= P - 1 /\ p - 1 \in Nat /\ P - 1 \in Nat
    BY <1>1
  <2>2. (p - 1) * size <= (P - 1) * size /\ (P - 1) * size \in Int
    BY <2>1
  <2>. QED BY <1>1, <1>2, <1>3, <2>2 DEF PagesFor
<1>5. PICK to : to = IF end <= n THEN end ELSE n
  OBVIOUS
<1>6. to \in from..n
  BY <1>1, <1>3, <1>4, <1>5
<1>7. PageOf(list, size, p) = SubSeq(list, from + 1, to)
  <2>1. Min({end, n}) = to
    BY <1>3, <1>5, LesserOfTwo
  <2>. QED BY <1>1, <1>2, <2>1 DEF PageOf
<1>8. \A i \in (from + 1)..to : list[i] \in S
  BY <1>1, <1>3, <1>6
<1>9. PICK part : part = SubSeq(list, from + 1, to)
  OBVIOUS
<1>10. Extract(S, list, from + 1, to, part)
  <2>1. from + 1 \in Int /\ to \in Int
    BY <1>3, <1>6
  <2>2. /\ part \in Seq(S) /\ Len(part) = IF from + 1 <= to THEN to - (from + 1) + 1 ELSE 0
        /\ \A i \in 1..(to - (from + 1) + 1) : part[i] = list[(from + 1) + i - 1]
    BY <1>8, <1>9, <2>1, SubSeqProperties
  <2>3. Len(part) = to - (from + 1) + 1
    BY <1>3, <1>6, <2>2
  <2>. QED BY <2>2, <2>3 DEF Extract
<1>. QED BY <1>1, <1>2, <1>5, <1>6, <1>7, <1>9, <1>10

\* The first pages, put together, are the beginning of the list.
LEMMA OpensFurther ==
  ASSUME NEW S, NEW list \in Seq(S), NEW a \in Seq(S), NEW m \in Nat, NEW to \in m..Len(list), NEW part,
         OpensLike(a, list, m), Extract(S, list, m + 1, to, part)
  PROVE  a \o part \in Seq(S) /\ OpensLike(a \o part, list, to)
<1>1. PICK d \in Nat : d = to - m
  OBVIOUS
<1>2. part \in Seq(S) /\ Len(part) = d /\ \A i \in 1..d : part[i] = list[m + i]
  <2>1. to - (m + 1) + 1 = d
    BY <1>1
  <2>2. \A i \in 1..d : (m + 1) + i - 1 = m + i
    OBVIOUS
  <2>. QED BY <2>1, <2>2 DEF Extract
<1>3. Chained(S, a, part, m, d)
  BY <1>2, PutAfter DEF OpensLike
<1>4. \A i \in 1..to : (a \o part)[i] = list[i]
  <2>. SUFFICES ASSUME NEW i \in 1..to PROVE (a \o part)[i] = list[i]
    OBVIOUS
  <2>1. to \in Nat /\ i \in Nat
    OBVIOUS
  <2>2. CASE i <= m
    <3>1. i \in 1..m
      BY <2>1, <2>2
    <3>. QED BY <1>3, <3>1 DEF Chained, OpensLike
  <2>3. CASE i > m
    <3>1. PICK j \in 1..d : i = m + j
      BY <1>1, <2>1, <2>3
    <3>. QED BY <1>2, <1>3, <3>1 DEF Chained
  <2>4. i <= m \/ i > m
    BY <2>1
  <2>. QED BY <2>2, <2>3, <2>4, Zenon
<1>. QED BY <1>1, <1>3, <1>4 DEF Chained, OpensLike

PagesOf(list, size) == [p \in 1..Pages(list, size) |-> PageOf(list, size, p)]

\* All pages, one after another, are the list.
LEMMA PagesThrough ==
  ASSUME NEW S, NEW list \in Seq(S), NEW size \in Nat \ {0}
  PROVE  PagesOf(list, size) \in Seq(Seq(S)) /\ Concat(PagesOf(list, size)) = list
<1>. SUFFICES ASSUME NEW pages, pages = [p \in 1..Pages(list, size) |-> PageOf(list, size, p)]
              PROVE  pages \in Seq(Seq(S)) /\ Concat(pages) = list
  BY DEF PagesOf
<1>1. PICK n \in Nat, P \in Nat : n = Len(list) /\ P = Pages(list, size) /\ PagesFor(n, size, P)
  <2>1. PagesFor(Len(list), size, Pages(list, size)) /\ Len(list) \in Nat
    BY PagesCounted
  <2>2. PICK m, Q : m = Len(list) /\ Q = Pages(list, size)
    OBVIOUS
  <2>3. m \in Nat /\ Q \in Nat /\ PagesFor(m, size, Q)
    BY <2>1, <2>2 DEF PagesFor
  <2>. QED BY <2>2, <2>3
<1>2. PICK at : at = [k \in 0..P |-> IF k * size <= n THEN k * size ELSE n]
  OBVIOUS
<1>3. \A p \in 1..P : /\ at[p] \in at[p - 1]..n /\ at[p - 1] \in Nat
                      /\ Extract(S, list, at[p - 1] + 1, at[p], pages[p])
  <2>. SUFFICES ASSUME NEW p \in 1..P
                PROVE  /\ at[p] \in at[p - 1]..n /\ at[p - 1] \in Nat
                       /\ Extract(S, list, at[p - 1] + 1, at[p], pages[p])
    OBVIOUS
  <2>1. PICK from : from = (p - 1) * size
    OBVIOUS
  <2>2. PICK to \in from..n : /\ Extract(S, list, from + 1, to, PageOf(list, size, p))
                              /\ to = IF p * size <= n THEN p * size ELSE n
    BY <1>1, <2>1, PageCut
  <2>3. p - 1 \in 0..P /\ p \in 0..P
    OBVIOUS
  <2>4. from \in Nat
    BY <2>1
  <2>5. at[p] = to /\ at[p - 1] = from
    BY <1>1, <1>2, <2>1, <2>2, <2>3, <2>4
  <2>6. pages[p] = PageOf(list, size, p)
    BY <1>1
  <2>. QED BY <2>2, <2>4, <2>5, <2>6
<1>4. pages \in Seq(Seq(S)) /\ Len(pages) = P
  <2>1. DOMAIN pages = 1..P /\ pages = [p \in DOMAIN pages |-> pages[p]]
    BY <1>1
  <2>2. \A p \in 1..P : pages[p] \in Seq(S)
    BY <1>3 DEF Extract
  <2>3. pages \in Seq(Seq(S))
    BY <1>1, <2>1, <2>2, ListsMade
  <2>. QED BY <1>1, <2>1, <2>3
<1>5. PICK g : PutTogether(S, pages, g)
  BY <1>4, JoinedInTurn
<1>6. /\ g \in [0..P -> Seq(S)] /\ g[0] = <<>> /\ g[P] = Concat(pages)
      /\ \A k \in 1..P : g[k] = g[k - 1] \o pages[k]
  BY <1>4, <1>5 DEF PutTogether
<1>7. PICK A : A = {k \in 0..P : OpensLike(g[k], list, at[k])}
  OBVIOUS
<1>8. 0 \in A
  <2>1. at[0] = 0
    BY <1>2
  <2>. QED BY <1>6, <1>7, <2>1 DEF OpensLike
<1>9. ASSUME NEW k \in 0..P, k \in A, k < P PROVE k + 1 \in A
  <2>1. k + 1 \in 1..P /\ (k + 1) - 1 = k /\ k + 1 \in 0..P
    BY <1>1, <1>9
  <2>2. PICK a, part : a \in Seq(S) /\ a = g[k] /\ part = pages[k + 1]
    BY <1>6
  <2>3. PICK m, to : m \in Nat /\ to \in m..n /\ m = at[k] /\ to = at[k + 1] /\ Extract(S, list, m + 1, to, part)
    BY <1>3, <2>1, <2>2
  <2>4. OpensLike(a \o part, list, to)
    BY <1>1, <1>7, <1>9, <2>2, <2>3, OpensFurther
  <2>. QED BY <1>6, <1>7, <2>1, <2>2, <2>3, <2>4
<1>10. P \in A
  BY <1>8, <1>9, UpTo
<1>11. at[P] = n
  <2>1. P * size \in Nat /\ P * size >= n
    BY <1>1 DEF PagesFor
  <2>. QED BY <1>2, <2>1
<1>12. g[P] = list
  <2>1. PICK a : a = g[P]
    OBVIOUS
  <2>2. a \in Seq(S) /\ OpensLike(a, list, Len(list))
    BY <1>1, <1>6, <1>7, <1>10, <1>11, <2>1
  <2>. QED BY <2>1, <2>2, BegunWhole
<1>. QED BY <1>4, <1>6, <1>12

\* A column of rows, and of all pages of them.
Column(F, list) == [m \in DOMAIN list |-> F[list[m]]]
Columns(F, lists) == [p \in DOMAIN lists |-> Column(F, lists[p])]

\* A column of the rows of all pages is that of the list.
LEMMA ColumnThrough ==
  ASSUME NEW S, NEW T, NEW F \in [S -> T], NEW lists \in Seq(Seq(S))
  PROVE  Concat(Columns(F, lists)) = Column(F, Concat(lists))
<1>. SUFFICES ASSUME NEW mapped, mapped = [p \in DOMAIN lists |-> [m \in DOMAIN lists[p] |-> F[lists[p][m]]]]
               PROVE  Concat(mapped) = [m \in DOMAIN Concat(lists) |-> F[Concat(lists)[m]]]
  BY Zenon DEF Column, Columns
<1>1. PICK n \in Nat : n = Len(lists) /\ DOMAIN lists = 1..n
  OBVIOUS
<1>2. \A p \in 1..n : lists[p] \in Seq(S)
  BY <1>1
<1>3. PICK over : over = [s \in Seq(S) |-> [m \in DOMAIN s |-> F[s[m]]]]
  OBVIOUS
<1>4. \A s \in Seq(S) : over[s] \in Seq(T) /\ Len(over[s]) = Len(s) /\ \A m \in 1..Len(s) : over[s][m] = F[s[m]]
  <2>. SUFFICES ASSUME NEW s \in Seq(S)
                PROVE  over[s] \in Seq(T) /\ Len(over[s]) = Len(s) /\ \A m \in 1..Len(s) : over[s][m] = F[s[m]]
    OBVIOUS
  <2>1. over[s] = [m \in 1..Len(s) |-> F[s[m]]]
    BY <1>3
  <2>2. \A m \in 1..Len(s) : F[s[m]] \in T
    OBVIOUS
  <2>. QED BY <2>1, <2>2
<1>5. mapped \in Seq(Seq(T)) /\ Len(mapped) = n /\ \A p \in 1..n : mapped[p] = over[lists[p]]
  <2>1. DOMAIN mapped = 1..n /\ mapped = [p \in DOMAIN mapped |-> mapped[p]]
    BY <1>1
  <2>2. \A p \in 1..n : mapped[p] = over[lists[p]]
    BY <1>1, <1>2, <1>3
  <2>3. \A p \in 1..n : mapped[p] \in Seq(T)
    BY <1>2, <1>4, <2>2
  <2>4. mapped \in Seq(Seq(T))
    BY <2>1, <2>3, ListsMade
  <2>. QED BY <2>1, <2>2, <2>4
<1>6. PICK g : PutTogether(S, lists, g)
  BY JoinedInTurn
<1>7. PICK h : PutTogether(T, mapped, h)
  BY <1>5, JoinedInTurn
<1>8. /\ g \in [0..n -> Seq(S)] /\ g[0] = <<>> /\ g[n] = Concat(lists)
      /\ \A k \in 1..n : g[k] = g[k - 1] \o lists[k]
  BY <1>1, <1>6 DEF PutTogether
<1>9. /\ h \in [0..n -> Seq(T)] /\ h[0] = <<>> /\ h[n] = Concat(mapped)
      /\ \A k \in 1..n : h[k] = h[k - 1] \o mapped[k]
  BY <1>5, <1>7 DEF PutTogether
<1>10. PICK A : A = {k \in 0..n : h[k] = over[g[k]]}
  OBVIOUS
<1>11. 0 \in A
  <2>1. over[<<>>] = <<>>
    BY <1>3
  <2>. QED BY <1>8, <1>9, <1>10, <2>1
<1>12. \A a, b \in Seq(S) : over[a \o b] = over[a] \o over[b]
  <2>. SUFFICES ASSUME NEW a \in Seq(S), NEW b \in Seq(S) PROVE over[a \o b] = over[a] \o over[b]
    OBVIOUS
  <2>1. PICK m \in Nat, k \in Nat : m = Len(a) /\ k = Len(b)
    OBVIOUS
  <2>2. Chained(S, a, b, m, k)
    BY <2>1, PutAfter
  <2>3. PICK c, d : c = over[a] /\ d = over[b]
    OBVIOUS
  <2>4. /\ c \in Seq(T) /\ Len(c) = m /\ \A i \in 1..m : c[i] = F[a[i]]
        /\ d \in Seq(T) /\ Len(d) = k /\ \A i \in 1..k : d[i] = F[b[i]]
    BY <1>4, <2>1, <2>3
  <2>5. Chained(T, c, d, m, k)
    BY <2>4, PutAfter
  <2>6. PICK ab, cd : ab = a \o b /\ cd = c \o d
    OBVIOUS
  <2>7. /\ ab \in Seq(S) /\ Len(ab) = m + k /\ cd \in Seq(T) /\ Len(cd) = m + k
        /\ \A i \in 1..m : ab[i] = a[i] /\ cd[i] = c[i]
        /\ \A i \in 1..k : ab[m + i] = b[i] /\ cd[m + i] = d[i]
    BY <2>2, <2>5, <2>6, Zenon DEF Chained
  <2>8. over[ab] \in Seq(T) /\ Len(over[ab]) = m + k /\ \A i \in 1..(m + k) : over[ab][i] = F[ab[i]]
    BY <1>4, <2>7
  <2>9. \A i \in 1..(m + k) : F[ab[i]] = cd[i]
    <3>. SUFFICES ASSUME NEW i \in 1..(m + k) PROVE F[ab[i]] = cd[i]
      OBVIOUS
    <3>1. CASE i \in 1..m
      <4>1. ab[i] = a[i] /\ cd[i] = c[i] /\ c[i] = F[a[i]]
        BY <2>4, <2>7, <3>1
      <4>. QED BY <4>1, Zenon
    <3>2. CASE i \notin 1..m
      <4>1. PICK j \in 1..k : i = m + j
        BY <3>2
      <4>2. ab[m + j] = b[j] /\ cd[m + j] = d[j] /\ d[j] = F[b[j]]
        BY <2>4, <2>7
      <4>. QED BY <4>1, <4>2, Zenon
    <3>. QED BY <3>1, <3>2
  <2>10. over[ab] = cd
    <3>1. PICK o : o = over[ab]
      OBVIOUS
    <3>2. o \in Seq(T) /\ Len(o) = m + k /\ \A i \in 1..(m + k) : o[i] = cd[i]
      BY <2>8, <2>9, <3>1
    <3>3. cd \in Seq(T) /\ Len(cd) = m + k
      BY <2>7
    <3>. QED BY <3>1, <3>2, <3>3
  <2>. QED BY <2>3, <2>6, <2>10
<1>13. ASSUME NEW k \in 0..n, k \in A, k < n PROVE k + 1 \in A
  <2>1. k + 1 \in 1..n /\ (k + 1) - 1 = k /\ k + 1 \in 0..n
    BY <1>1, <1>13
  <2>2. g[k + 1] = g[k] \o lists[k + 1] /\ h[k + 1] = h[k] \o over[lists[k + 1]] /\ h[k] = over[g[k]]
    BY <1>5, <1>8, <1>9, <1>10, <1>13, <2>1
  <2>3. g[k] \in Seq(S) /\ lists[k + 1] \in Seq(S)
    BY <1>2, <1>8, <2>1
  <2>4. over[g[k] \o lists[k + 1]] = over[g[k]] \o over[lists[k + 1]]
    BY <1>12, <2>3
  <2>. QED BY <1>10, <2>1, <2>2, <2>4
<1>14. n \in A
  BY <1>11, <1>13, UpTo
<1>15. Concat(mapped) = over[Concat(lists)] /\ Concat(lists) \in Seq(S)
  <2>1. n \in 0..n
    OBVIOUS
  <2>. QED BY <1>8, <1>9, <1>10, <1>14, <2>1
<1>. QED BY <1>3, <1>15

-----------------------------------------------------------------------------
(* What a search finds.                                                    *)

\* The texts of a row and of the rows related to it say what is searched for.
Says(q, words) == q = <<>> \/ words \cap q[1] # {}
Cells(tables) == UNION {ToSet(tables[t]) : t \in DOMAIN tables}

\* Joined rows are found just when some row says it (icontains over joined tables).
LEMMA SearchFinds ==
  ASSUME NEW W, NEW own \in SUBSET W, NEW tables \in Seq(Seq(SUBSET W)), NEW q
  PROVE  /\ Occurrences(Matching(own, tables, q)) \in {0, 1}
         /\ Occurrences(Matching(own, tables, q)) = 1 <=> Says(q, own \cup UNION Cells(tables))
<1>1. PICK n \in Nat : n = Len(tables) /\ DOMAIN tables = 1..n
  OBVIOUS
<1>2. PICK T : T = Seq(SUBSET W)
  OBVIOUS
<1>3. \A t \in 1..n : tables[t] \in T
  BY <1>1, <1>2
<1>4. CASE q = <<>>
  <2>1. Matching(own, tables, q) = {<<>>}
    BY <1>4 DEF Matching
  <2>. QED BY <1>4, <2>1 DEF Occurrences, Says
<1>5. CASE q # <<>>
  <2>1. PICK found : found = Matching(own, tables, q)
    OBVIOUS
  <2>2. PICK any : any = {0} \cup UNION {DOMAIN tables[t] : t \in DOMAIN tables}
    OBVIOUS
  <2>3. PICK rows : rows = {row \in [1..n -> any] :
                              \A t \in 1..n : IF tables[t] = <<>> THEN row[t] = 0 ELSE row[t] \in DOMAIN tables[t]}
    OBVIOUS
  <2>4. found = {row \in rows :
                   (own \cup UNION {tables[t][row[t]] : t \in {u \in 1..n : row[u] # 0}}) \cap q[1] # {}}
    BY <1>1, <1>5, <2>1, <2>2, <2>3 DEF Matching, Joined
  <2>5. \A t \in 1..n : 0 \notin DOMAIN tables[t] /\ (tables[t] # <<>> => 1 \in DOMAIN tables[t])
    <3>. SUFFICES ASSUME NEW t \in 1..n
                  PROVE  0 \notin DOMAIN tables[t] /\ (tables[t] # <<>> => 1 \in DOMAIN tables[t])
      OBVIOUS
    <3>1. PICK s \in Seq(SUBSET W) : s = tables[t]
      BY <1>2, <1>3
    <3>2. 0 \notin DOMAIN s /\ (s # <<>> => 1 \in DOMAIN s)
      OBVIOUS
    <3>. QED BY <3>1, <3>2
  <2>6. PICK row0 : row0 = [t \in 1..n |-> IF tables[t] = <<>> THEN 0 ELSE 1]
    OBVIOUS
  <2>7. row0 \in rows
    <3>1. \A t \in 1..n : row0[t] \in any
      BY <1>1, <2>2, <2>5, <2>6
    <3>. QED BY <2>3, <2>5, <2>6, <3>1
  <2>8. ASSUME NEW x \in q[1], x \in own PROVE found # {}
    BY <2>4, <2>7, <2>8
  <2>9. ASSUME NEW x \in q[1], NEW u \in 1..n, NEW k \in DOMAIN tables[u], x \in tables[u][k]
        PROVE  found # {}
    <3>1. PICK row : row = [row0 EXCEPT ![u] = k]
      OBVIOUS
    <3>2. k \in any /\ k # 0
      BY <1>1, <2>2, <2>5
    <3>3. tables[u] # <<>>
      OBVIOUS
    <3>4. row \in [1..n -> any] /\ row[u] = k /\ \A t \in 1..n \ {u} : row[t] = row0[t]
      BY <2>3, <2>6, <2>7, <3>1, <3>2
    <3>5. row \in rows
      BY <2>3, <2>7, <3>3, <3>4
    <3>6. x \in UNION {tables[t][row[t]] : t \in {v \in 1..n : row[v] # 0}}
      BY <2>9, <3>2, <3>4
    <3>. QED BY <2>4, <3>5, <3>6
  <2>10. UNION Cells(tables) = UNION {UNION ToSet(tables[t]) : t \in 1..n}
    BY <1>1 DEF Cells
  <2>11. ASSUME Says(q, own \cup UNION Cells(tables)) PROVE found # {}
    <3>1. PICK x \in q[1] : x \in own \/ \E t \in 1..n : x \in UNION ToSet(tables[t])
      BY <1>5, <2>10, <2>11 DEF Says
    <3>2. CASE x \in own
      BY <2>8, <3>2
    <3>3. CASE \E t \in 1..n : x \in UNION ToSet(tables[t])
      <4>1. PICK t, k : t \in 1..n /\ k \in DOMAIN tables[t] /\ x \in tables[t][k]
        BY <3>3 DEF ToSet
      <4>. QED BY <2>9, <4>1
    <3>. QED BY <3>1, <3>2, <3>3
  <2>12. ASSUME found # {} PROVE Says(q, own \cup UNION Cells(tables))
    <3>1. PICK row \in rows, x \in q[1] : x \in own \/ \E t \in 1..n : row[t] # 0 /\ x \in tables[t][row[t]]
      BY <2>4, <2>12
    <3>2. CASE x \in own
      BY <3>2 DEF Says
    <3>3. CASE \E t \in 1..n : row[t] # 0 /\ x \in tables[t][row[t]]
      <4>1. PICK t \in 1..n : row[t] # 0 /\ x \in tables[t][row[t]]
        BY <3>3
      <4>2. row[t] \in DOMAIN tables[t]
        BY <2>3, <4>1
      <4>3. x \in UNION ToSet(tables[t])
        BY <4>1, <4>2 DEF ToSet
      <4>. QED BY <2>10, <4>3 DEF Says
    <3>. QED BY <3>1, <3>2, <3>3
  <2>. QED BY <2>1, <2>11, <2>12 DEF Occurrences
<1>. QED BY <1>4, <1>5

-----------------------------------------------------------------------------
(* Covers.                                                                 *)

\* Lists of the same rows begin with the same one.
LEMMA SameFirst ==
  ASSUME NEW keys, NEW n, Keyed(keys, n), NEW K, NEW a, ListsRows(keys, K, a), NEW b, ListsRows(keys, K, b)
  PROVE  /\ a = <<>> <=> DOMAIN keys \cap K = {}
         /\ a # <<>> => a[1] \in DOMAIN keys \cap K /\ b # <<>> /\ a[1] = b[1]
<1>1. PICK D : D = DOMAIN keys
  OBVIOUS
<1>2. a \in Seq(D) /\ b \in Seq(D) /\ ToSet(a) = D \cap K /\ ToSet(b) = D \cap K
  BY <1>1 DEF ListsRows
<1>3. a = <<>> <=> ToSet(a) = {}
  <2>1. a = <<>> => ToSet(a) = {}
    BY DEF ToSet
  <2>2. a # <<>> => 1 \in DOMAIN a
    BY <1>2
  <2>. QED BY <2>1, <2>2 DEF ToSet
<1>4. ASSUME a # <<>> PROVE a[1] \in D \cap K /\ b # <<>> /\ a[1] = b[1]
  <2>1. 1 \in DOMAIN a /\ a[1] \in D \cap K
    <3>1. 1 \in DOMAIN a
      BY <1>2, <1>4
    <3>. QED BY <1>2, <3>1 DEF ToSet
  <2>2. PICK m \in DOMAIN b : b[m] = a[1]
    BY <1>2, <2>1 DEF ToSet
  <2>3. 1 \in DOMAIN b /\ b[1] \in D /\ m \in Nat /\ m >= 1
    <3>1. m \in 1..Len(b) /\ Len(b) \in Nat
      BY <1>2
    <3>2. 1 \in 1..Len(b)
      BY <3>1
    <3>. QED BY <1>2, <3>1, <3>2
  <2>4. b[1] \in ToSet(a)
    BY <1>2, <2>3 DEF ToSet
  <2>5. PICK h \in DOMAIN a : a[h] = b[1]
    BY <2>4 DEF ToSet
  <2>6. h \in Nat /\ h >= 1
    BY <1>2
  <2>7. CASE h = 1 \/ m = 1
    BY <2>1, <2>2, <2>3, <2>5, <2>7
  <2>8. CASE h > 1 /\ m > 1
    <3>1. Precedes(keys[a[1]], keys[a[h]]) /\ Precedes(keys[b[1]], keys[b[m]])
      BY <2>1, <2>3, <2>8 DEF ListsRows
    <3>2. PICK x \in D, y \in D : x = a[1] /\ y = b[1]
      BY <2>1, <2>3
    <3>3. Precedes(keys[x], keys[y]) /\ Precedes(keys[y], keys[x])
      BY <2>2, <2>5, <3>1, <3>2
    <3>. QED BY <1>1, <3>2, <3>3, PrecedesTotal DEF Keyed
  <2>9. b # <<>>
    BY <2>3
  <2>. QED BY <2>1, <2>3, <2>6, <2>7, <2>8, <2>9
<1>. QED BY <1>1, <1>2, <1>3, <1>4

\* Of finitely many keys one is preceded by none.
LEMMA MinimalKey ==
  ASSUME NEW D, IsFiniteSet(D), D # {}, NEW n \in Nat, NEW key \in [D -> [1..n -> Int]]
  PROVE  \E a \in D : \A b \in D : ~Precedes(key[b], key[a])
<1>1. PICK K : K = {S \in SUBSET D : S # {} => \E a \in S : \A b \in S : ~Precedes(key[b], key[a])}
  OBVIOUS
<1>2. \A a \in D : key[a] \in [1..n -> Int]
  OBVIOUS
<1>3. \A a \in D : ~Precedes(key[a], key[a])
  BY <1>2, PrecedesTotal
<1>4. \A a, b, c \in D : Precedes(key[a], key[b]) /\ Precedes(key[b], key[c]) => Precedes(key[a], key[c])
  BY <1>2, PrecedesOn
<1>5. ASSUME NEW S \in SUBSET D, \A T \in SUBSET S : T # S => T \in K
      PROVE  S \in K
  <2>1. ASSUME NEW a \in S PROVE \E x \in S : \A y \in S : ~Precedes(key[y], key[x])
    <3>1. CASE S = {a}
      BY <1>3, <3>1
    <3>2. CASE S # {a}
      <4>1. S \ {a} \in K /\ S \ {a} # {}
        BY <1>5, <2>1, <3>2
      <4>2. PICK x \in S \ {a} : \A y \in S \ {a} : ~Precedes(key[y], key[x])
        BY <1>1, <4>1
      <4>3. CASE Precedes(key[a], key[x])
        BY <1>3, <1>4, <4>2, <4>3
      <4>4. CASE ~Precedes(key[a], key[x])
        BY <4>2, <4>4
      <4>. QED BY <4>3, <4>4
    <3>. QED BY <3>1, <3>2
  <2>. QED BY <1>1, <2>1
<1>6. D \in K
  <2>1. SUBSET D \subseteq K
    BY <1>5, BySubsets
  <2>. QED BY <2>1
<1>. QED BY <1>1, <1>6

-----------------------------------------------------------------------------
(* Covers found by title.                                                  *)

\* What passes a test stays in the order of the keys.
LEMMA FilteredRows ==
  ASSUME NEW keys, NEW n, Keyed(keys, n), NEW A, NEW list, ListsRows(keys, A, list), NEW K,
         NEW seqs, Singly(list, K, seqs)
  PROVE  ListsRows(keys, A \cap K, Concat(seqs))
<1>1. PICK D, R : D = DOMAIN keys /\ R = {p \in D \X D : p[1] # p[2] /\ Precedes(keys[p[1]], keys[p[2]])}
  OBVIOUS
<1>2. list \in Seq(D) /\ ToSet(list) = D \cap A
  BY <1>1 DEF ListsRows
<1>3. Chain(list, R)
  <2>. SUFFICES ASSUME NEW h \in DOMAIN list, NEW m \in DOMAIN list, h < m PROVE <<list[h], list[m]>> \in R
    BY DEF Chain
  <2>1. PICK x, y : x = list[h] /\ y = list[m]
    OBVIOUS
  <2>2. h # m
    <3>1. h \in Int /\ m \in Int
      BY <1>2
    <3>. QED BY <3>1
  <2>3. x \in D /\ y \in D
    BY <1>2, <2>1
  <2>4. x # y /\ Precedes(keys[x], keys[y])
    BY <2>1, <2>2 DEF ListsRows
  <2>. QED BY <1>1, <2>1, <2>3, <2>4
<1>4. PICK c : c = Concat(seqs)
  OBVIOUS
<1>5. c \in Seq(D \cap K) /\ Chain(c, R) /\ ToSet(c) = ToSet(list) \cap K
  BY <1>2, <1>3, <1>4, PassedKeepsOrder
<1>6. c \in Seq(D) /\ ToSet(c) = D \cap (A \cap K)
  BY <1>2, <1>5
<1>7. \A h, m \in DOMAIN c : h < m => c[h] # c[m] /\ Precedes(keys[c[h]], keys[c[m]])
  <2>. SUFFICES ASSUME NEW h \in DOMAIN c, NEW m \in DOMAIN c, h < m
                PROVE  c[h] # c[m] /\ Precedes(keys[c[h]], keys[c[m]])
    OBVIOUS
  <2>1. PICK x, y : x = c[h] /\ y = c[m]
    OBVIOUS
  <2>2. <<x, y>> \in R
    BY <1>5, <2>1 DEF Chain
  <2>. QED BY <1>1, <2>1, <2>2
<1>8. \A h, m \in DOMAIN c : c[h] = c[m] => h = m
  <2>1. \A h, m \in DOMAIN c : h \in Int /\ m \in Int
    BY <1>6
  <2>. QED BY <1>7, <2>1
<1>. QED BY <1>1, <1>4, <1>6, <1>7, <1>8 DEF ListsRows

\* The foremost rows are the beginning of the list.
LEMMA ForemostCut ==
  ASSUME NEW S, NEW list \in Seq(S)
  PROVE  LET n == Min({Len(list), Hits}) IN
         n \in 0..Len(list) /\ n = (IF Len(list) <= Hits THEN Len(list) ELSE Hits)
         /\ Extract(S, list, 1, n, Foremost(list))
<1>1. PICK l \in Nat : l = Len(list)
  OBVIOUS
<1>2. Hits \in Nat /\ Hits > 0
  BY HitsAssumption
<1>3. PICK n : n = Min({l, Hits})
  OBVIOUS
<1>4. n = IF l <= Hits THEN l ELSE Hits
  BY <1>2, <1>3, LesserOfTwo
<1>5. n \in 0..l
  BY <1>2, <1>4
<1>6. PICK part : part = SubSeq(list, 1, n)
  OBVIOUS
<1>7. \A i \in 1..n : list[i] \in S
  BY <1>1, <1>5
<1>8. /\ part \in Seq(S) /\ Len(part) = IF 1 <= n THEN n - 1 + 1 ELSE 0
      /\ \A i \in 1..(n - 1 + 1) : part[i] = list[1 + i - 1]
  BY <1>5, <1>6, <1>7, SubSeqProperties
<1>9. Extract(S, list, 1, n, part)
  <2>1. Len(part) = n - 1 + 1
    BY <1>5, <1>8
  <2>. QED BY <1>8, <2>1 DEF Extract
<1>10. part = Foremost(list)
  BY <1>1, <1>3, <1>6 DEF Foremost
<1>. QED BY <1>1, <1>3, <1>4, <1>5, <1>9, <1>10

\* The covers of a release have names and places.
CoverTable(release, m) ==
  /\ m \in Nat /\ DOMAIN release.covers = 1..m
  /\ \A c \in 1..m : release.covers[c].name \in Int
  /\ \A c \in 1..m : release.covers[c].places \in Seq(ToSet(release.covers[c].places))

\* Both pages choose the same cover, one with a place it can be read from.
LEMMA SameCover ==
  ASSUME NEW release, NEW m, CoverTable(release, m)
  PROVE  /\ CoverOfPage(release) = CoverOfTrack(release) /\ CoverOfTrack(release) \in 0..m
         /\ CoverOfTrack(release) # 0 =>
              \E p \in ToSet(release.covers[CoverOfTrack(release)].places) : Usable(p)
<1>1. PICK covers : covers = release.covers /\ m \in Nat /\ DOMAIN covers = 1..m
  BY DEF CoverTable
<1>2. PICK keys : keys = ByName(covers)
  OBVIOUS
<1>3. keys = [c \in 1..m |-> <<covers[c].name, c>>]
  BY <1>1, <1>2 DEF ByName
<1>4. Keyed(keys, 2)
  <2>1. DOMAIN keys = 1..m /\ IsFiniteSet(1..m)
    BY <1>1, <1>3, FS_Interval
  <2>2. \A c \in 1..m : keys[c] = <<covers[c].name, c>> /\ covers[c].name \in Int /\ c \in Int
    BY <1>1, <1>3 DEF CoverTable
  <2>3. \A c \in 1..m : keys[c] \in [1..2 -> Int] /\ keys[c][2] = c
    <3>1. \A a, b \in Int : <<a, b>> \in [1..2 -> Int] /\ <<a, b>>[2] = b
      OBVIOUS
    <3>. QED BY <2>2, <3>1
  <2>4. \A i, j \in 1..m : keys[i] = keys[j] => i = j
    <3>. SUFFICES ASSUME NEW i \in 1..m, NEW j \in 1..m, keys[i] = keys[j] PROVE i = j
      OBVIOUS
    <3>1. keys[i][2] = i /\ keys[j][2] = j
      BY <2>3
    <3>. QED BY <3>1
  <2>. QED BY <2>1, <2>3, <2>4 DEF Keyed
<1>5. PICK K : K = {c \in 1..m : \E p \in ToSet(covers[c].places) : Usable(p)}
  OBVIOUS
<1>6. PICK found : found = Returned(keys, [c \in DOMAIN covers |-> Occurrences({p \in DOMAIN covers[c].places : Usable(covers[c].places[p])})])
  OBVIOUS
<1>7. ListsRows(keys, K, found)
  <2>1. PICK times : times = [c \in DOMAIN covers |-> Occurrences({p \in DOMAIN covers[c].places : Usable(covers[c].places[p])})]
    OBVIOUS
  <2>2. \A c \in 1..m : times[c] = IF c \in K THEN 1 ELSE 0
    BY <1>1, <1>5, <2>1 DEF Occurrences, ToSet
  <2>. QED BY <1>1, <1>3, <1>4, <1>6, <2>1, <2>2, ReturnedLists
<1>8. PICK ordered : ordered = Returned(keys, [c \in DOMAIN covers |-> 1])
  OBVIOUS
<1>9. ListsRows(keys, 1..m, ordered)
  <2>1. PICK times : times = [c \in DOMAIN covers |-> 1]
    OBVIOUS
  <2>2. \A c \in 1..m : times[c] = IF c \in 1..m THEN 1 ELSE 0
    BY <1>1, <2>1
  <2>. QED BY <1>1, <1>3, <1>4, <1>8, <2>1, <2>2, ReturnedLists
<1>10. PICK seqs : seqs = [i \in DOMAIN ordered |-> If(\E p \in ToSet(covers[ordered[i]].places) : Usable(p), <<ordered[i]>>)]
  OBVIOUS
<1>11. Singly(ordered, K, seqs)
  <2>1. PICK D : D = 1..m
    OBVIOUS
  <2>4. ordered \in Seq(D)
    BY <1>3, <1>9, <2>1 DEF ListsRows
  <2>2. \A i \in DOMAIN ordered : ordered[i] \in D
    BY <2>4
  <2>3. \A i \in DOMAIN ordered : (\E p \in ToSet(covers[ordered[i]].places) : Usable(p)) <=> ordered[i] \in K
    BY <1>5, <2>1, <2>2
  <2>. QED BY <1>10, <2>3, Zenon DEF Singly, If
<1>12. PICK usable : usable = Concat(seqs)
  OBVIOUS
<1>13. ListsRows(keys, K, usable)
  <2>1. (1..m) \cap K = K
    BY <1>5
  <2>2. ListsRows(keys, (1..m) \cap K, usable)
    BY <1>4, <1>9, <1>11, <1>12, FilteredRows
  <2>. QED BY <2>1, <2>2
<1>14. CoverOfPage(release) = IF found = <<>> THEN 0 ELSE found[1]
  BY <1>1, <1>2, <1>6, Zenon DEF CoverOfPage
<1>15. CoverOfTrack(release) = IF usable = <<>> THEN 0 ELSE usable[1]
  BY <1>1, <1>2, <1>8, <1>10, <1>12, Zenon DEF CoverOfTrack, Filtered
<1>16. /\ found = <<>> <=> usable = <<>>
       /\ usable # <<>> => usable[1] \in K /\ usable[1] = found[1]
  <2>1. DOMAIN keys = 1..m
    BY <1>3
  <2>. QED BY <1>4, <1>7, <1>13, <2>1, SameFirst
<1>17. K \subseteq 1..m
  BY <1>5
<1>. QED BY <1>1, <1>5, <1>14, <1>15, <1>16, <1>17

\* A cover all places of which can be read is served, if one of them is looked at.
LEMMA ReadableServed ==
  ASSUME NEW cover, cover.places \in Seq(ToSet(cover.places)),
         NEW p \in ToSet(cover.places), Usable(p), \A q \in ToSet(cover.places) : q.reads
  PROVE  CoverServed(cover)
<1>1. PICK places, S : places = cover.places /\ S = ToSet(places) /\ places \in Seq(S)
  OBVIOUS
<1>2. PICK K : K = {q \in S : Usable(q)}
  OBVIOUS
<1>3. PICK seqs : seqs = [i \in DOMAIN places |-> If(Usable(places[i]), <<places[i]>>)]
  OBVIOUS
<1>4. Singly(places, K, seqs)
  <2>1. \A i \in DOMAIN places : Usable(places[i]) <=> places[i] \in K
    BY <1>1, <1>2
  <2>. QED BY <1>3, <2>1, Zenon DEF Singly, If
<1>5. PICK list : list = Concat(seqs)
  OBVIOUS
<1>6. list \in Seq(S \cap K) /\ ToSet(list) = S \cap K
  <2>1. PICK R : R = S \X S
    OBVIOUS
  <2>2. Chain(places, R)
    BY <1>1, <2>1 DEF Chain
  <2>3. Concat(seqs) \in Seq(S \cap K) /\ ToSet(Concat(seqs)) = ToSet(places) \cap K
    BY <1>1, <1>4, <2>2, PassedKeepsOrder
  <2>. QED BY <1>1, <1>5, <2>3
<1>7. list # <<>>
  <2>1. p \in ToSet(list)
    BY <1>1, <1>2, <1>6
  <2>. QED BY <2>1 DEF ToSet
<1>8. PICK tried : tried = Foremost(list)
  OBVIOUS
<1>9. PICK n : n = Min({Len(list), Hits})
  OBVIOUS
<1>10. n = (IF Len(list) <= Hits THEN Len(list) ELSE Hits) /\ Extract(S \cap K, list, 1, n, tried)
  BY <1>6, <1>8, <1>9, ForemostCut
<1>11. n \in Nat /\ n >= 1
  <2>1. Len(list) \in Nat /\ Len(list) >= 1
    BY <1>6, <1>7
  <2>2. Hits \in Nat /\ Hits >= 1
    BY HitsAssumption
  <2>. QED BY <1>10, <2>1, <2>2
<1>12. tried \in Seq(S \cap K) /\ Len(tried) >= 1
  <2>1. Len(tried) = n - 1 + 1
    BY <1>10 DEF Extract
  <2>. QED BY <1>10, <1>11, <2>1 DEF Extract
<1>13. 1 \in DOMAIN tried /\ tried[1] \in S
  BY <1>12
<1>14. tried[1].reads
  BY <1>1, <1>13
<1>15. \E i \in DOMAIN tried : tried[i].reads
  BY <1>13, <1>14
<1>. QED BY <1>1, <1>3, <1>5, <1>8, <1>15, Zenon DEF CoverServed, Filtered

\* The places of a piece on the releases, and the first with a cover.
PlacesOf(db, piece) ==
  UNION {{<<r, n>> : n \in {m \in DOMAIN db.releases[r].tracks : db.releases[r].tracks[m] = piece}} :
         r \in DOMAIN db.releases}
PlaceKey(db, at) == <<db.releases[at[1]].year, db.releases[at[1]].title, at[2]>>
Pictured(db, piece) ==
  {at \in PlacesOf(db, piece) : CoverOfTrack(db.releases[at[1]]) # 0}
EarliestOf(db, shown) ==
  CHOOSE a \in shown : \A b \in shown : ~Precedes(PlaceKey(db, b), PlaceKey(db, a))

\* The releases come with years, titles and tracks.
ReleaseTable(db, N) ==
  /\ N \in Nat /\ DOMAIN db.releases = 1..N
  /\ \A r \in 1..N : /\ db.releases[r].year \in Int /\ db.releases[r].title \in Int
                     /\ \E S : db.releases[r].tracks \in Seq(S)

\* A piece shows the cover of the earliest of its releases that has one.
LEMMA EarliestCover ==
  ASSUME NEW db, NEW N, ReleaseTable(db, N), NEW piece
  PROVE  LET shown == Pictured(db, piece)
             first == EarliestOf(db, shown)
         IN  /\ CoverOfRecording(db, piece) =
                  IF shown = {} THEN <<>> ELSE <<first[1], CoverOfTrack(db.releases[first[1]])>>
             /\ shown # {} => /\ first \in shown
                              /\ \A at \in shown : db.releases[first[1]].year <= db.releases[at[1]].year
<1>1. PICK releases : releases = db.releases /\ N \in Nat /\ DOMAIN releases = 1..N
  BY DEF ReleaseTable
<1>2. PICK f : f = [r \in 1..N |-> {<<r, n>> : n \in {m \in DOMAIN releases[r].tracks : releases[r].tracks[m] = piece}}]
  OBVIOUS
<1>3. PICK places : places = PlacesOf(db, piece)
  OBVIOUS
<1>4. places = UNION {f[r] : r \in 1..N}
  BY <1>1, <1>2, <1>3 DEF PlacesOf
<1>5. \A at \in places : /\ at = <<at[1], at[2]>> /\ at[1] \in 1..N /\ at[2] \in Int
                         /\ at[2] \in DOMAIN releases[at[1]].tracks
  <2>. SUFFICES ASSUME NEW at \in places
                PROVE  /\ at = <<at[1], at[2]>> /\ at[1] \in 1..N /\ at[2] \in Int
                       /\ at[2] \in DOMAIN releases[at[1]].tracks
    OBVIOUS
  <2>1. PICK r \in 1..N : at \in f[r]
    BY <1>4
  <2>2. PICK n \in DOMAIN releases[r].tracks : at = <<r, n>>
    BY <1>2, <2>1
  <2>3. PICK tracks, S : tracks = releases[r].tracks /\ tracks \in Seq(S)
    BY <1>1 DEF ReleaseTable
  <2>4. n \in Int
    BY <2>2, <2>3
  <2>. QED BY <2>2, <2>4
<1>6. IsFiniteSet(places)
  <2>1. \A r \in 1..N : IsFiniteSet(f[r])
    <3>. SUFFICES ASSUME NEW r \in 1..N PROVE IsFiniteSet(f[r])
      OBVIOUS
    <3>1. PICK tracks, S : tracks = releases[r].tracks /\ tracks \in Seq(S)
      BY <1>1 DEF ReleaseTable
    <3>2. PICK n \in Nat : DOMAIN tracks = 1..n
      BY <3>1
    <3>3. IsFiniteSet({r})
      BY FS_Singleton
    <3>6. IsFiniteSet(1..n)
      BY FS_Interval
    <3>4. IsFiniteSet({r} \X (1..n))
      BY <3>3, <3>6, FS_Product
    <3>5. f[r] \subseteq {r} \X (1..n)
      BY <1>2, <3>1, <3>2
    <3>. QED BY <3>4, <3>5, FS_Subset
  <2>2. PICK all : all = {f[r] : r \in 1..N}
    OBVIOUS
  <2>3. IsFiniteSet(all)
    <3>1. IsFiniteSet(1..N)
      BY <1>1, FS_Interval
    <3>2. f \in Surjection(1..N, all)
      BY <1>2, <2>2 DEF Surjection
    <3>. QED BY <3>1, <3>2, FS_Surjection
  <2>4. \A T \in all : IsFiniteSet(T)
    BY <2>1, <2>2
  <2>. QED BY <1>4, <2>2, <2>3, <2>4, FS_UNION
<1>7. PICK shown : shown = Pictured(db, piece)
  OBVIOUS
<1>8. shown \subseteq places /\ IsFiniteSet(shown)
  <2>1. shown \subseteq places
    BY <1>3, <1>7 DEF Pictured
  <2>. QED BY <1>6, <2>1, FS_Subset
<1>9. PICK key : key = [at \in shown |-> PlaceKey(db, at)]
  OBVIOUS
<1>10. key \in [shown -> [1..3 -> Int]]
  <2>1. \A a, b, c \in Int : <<a, b, c>> \in [1..3 -> Int]
    OBVIOUS
  <2>2. \A at \in shown : PlaceKey(db, at) \in [1..3 -> Int]
    BY <1>1, <1>5, <1>8, <2>1 DEF PlaceKey, ReleaseTable
  <2>. QED BY <1>9, <2>2
<1>11. PICK first : first = EarliestOf(db, shown)
  OBVIOUS
<1>12. ASSUME shown # {}
       PROVE  first \in shown /\ \A b \in shown : ~Precedes(key[b], key[first])
  <2>1. \E a \in shown : \A b \in shown : ~Precedes(key[b], key[a])
    BY <1>8, <1>10, <1>12, MinimalKey
  <2>2. \E a \in shown : \A b \in shown : ~Precedes(PlaceKey(db, b), PlaceKey(db, a))
    BY <1>9, <2>1
  <2>3. first \in shown /\ \A b \in shown : ~Precedes(PlaceKey(db, b), PlaceKey(db, first))
    BY <1>11, <2>2, Zenon DEF EarliestOf
  <2>. QED BY <1>9, <2>3
<1>13. ASSUME shown # {}, NEW at \in shown
       PROVE  db.releases[first[1]].year <= db.releases[at[1]].year
  <2>1. PICK k, l : k = key[at] /\ l = key[first]
    OBVIOUS
  <2>2. first \in shown /\ ~Precedes(k, l)
    BY <1>12, <1>13, <2>1
  <2>3. k \in [1..3 -> Int] /\ l \in [1..3 -> Int]
    BY <1>10, <2>1, <2>2
  <2>4. ~(k[1] < l[1])
    <3>1. SUFFICES ASSUME k[1] < l[1] PROVE Precedes(k, l)
      BY <2>2
    <3>2. 1 \in DOMAIN k /\ \A j \in 1..(1 - 1) : k[j] = l[j]
      BY <2>3
    <3>. QED BY <3>1, <3>2 DEF Precedes
  <2>5. k[1] = db.releases[at[1]].year /\ l[1] = db.releases[first[1]].year
    BY <1>9, <2>1, <2>2 DEF PlaceKey
  <2>6. k[1] \in Int /\ l[1] \in Int
    BY <2>3
  <2>. QED BY <2>4, <2>5, <2>6
<1>14. CoverOfRecording(db, piece) = IF shown = {} THEN <<>> ELSE <<first[1], CoverOfTrack(db.releases[first[1]])>>
  <2>1. CoverOfRecording(db, piece) =
          IF Pictured(db, piece) = {} THEN <<>>
          ELSE <<EarliestOf(db, Pictured(db, piece))[1],
                 CoverOfTrack(db.releases[EarliestOf(db, Pictured(db, piece))[1]])>>
    BY Zenon DEF CoverOfRecording, PlacesOf, PlaceKey, Pictured, EarliestOf
  <2>. QED BY <1>7, <1>11, <2>1, Zenon
<1>. QED BY <1>7, <1>11, <1>12, <1>13, <1>14, Zenon

\* CoversAgree, of what the pages say.
PictureHonest(db, pages, tracks, shown, served) ==
  LET on == {r \in DOMAIN db.releases : 1 \in ToSet(db.releases[r].tracks)}
      pictured == {r \in on : pages[r] # 0}
      readable(r, c) == \A p \in ToSet(db.releases[r].covers[c].places) : p.reads
      seen == {<<r, pages[r]>> : r \in {x \in DOMAIN db.releases : pages[x] # 0}}
  IN  /\ pages = tracks
      /\ shown = <<>> <=> pictured = {}
      /\ shown # <<>> =>
           /\ shown[1] \in pictured
           /\ \A r \in pictured : db.releases[shown[1]].year <= db.releases[r].year
      /\ \A s \in seen : readable(s[1], s[2]) => s \in served

\* What the pages picture (Picture) is one cover of a release, the earliest one of a recording.
LEMMA CoversPictured ==
  ASSUME NEW d, DeskOf(d), Picture(d)
  PROVE  CoversAgree'
<1>1. PICK db, N : db = d.db /\ N \in Nat /\ DOMAIN db.releases = 1..N /\ N = Len(db.releases)
  <2>1. PICK s, S : s = d.db.releases /\ s \in Seq(S)
    BY DEF DeskOf, Picture, TableOf
  <2>. QED BY <2>1
<1>2. \A r \in 1..N : /\ db.releases[r].year \in Int /\ db.releases[r].title \in Nat
                      /\ db.releases[r].tracks \in Seq(Nat)
                      /\ TableOf(db.releases[r].covers, {"name"})
                      /\ \A c \in Range(db.releases[r].covers) : c.places \in Seq(Range(c.places))
  <2>1. \A r \in 1..N : db.releases[r] \in Range(db.releases)
    BY <1>1 DEF Range
  <2>. QED BY <1>1, <2>1 DEF DeskOf, Picture, TableOf
<1>3. ReleaseTable(db, N)
  <2>1. \A r \in 1..N : /\ db.releases[r].year \in Int /\ db.releases[r].title \in Int
                        /\ db.releases[r].tracks \in Seq(Nat)
    BY <1>2
  <2>. QED BY <1>1, <2>1 DEF ReleaseTable
<1>4. PICK m : m = [r \in 1..N |-> Len(db.releases[r].covers)]
  OBVIOUS
<1>5. \A r \in 1..N : CoverTable(db.releases[r], m[r])
  <2>. SUFFICES ASSUME NEW r \in 1..N PROVE CoverTable(db.releases[r], m[r])
    OBVIOUS
  <2>1. PICK covers, S : covers = db.releases[r].covers /\ covers \in Seq(S) /\ S = Range(covers)
    BY <1>2 DEF TableOf
  <2>2. m[r] \in Nat /\ DOMAIN covers = 1..m[r]
    BY <1>4, <2>1
  <2>3. \A c \in 1..m[r] : covers[c] \in Range(covers)
    BY <2>2 DEF Range
  <2>4. \A c \in 1..m[r] : covers[c].name \in Nat /\ covers[c].places \in Seq(Range(covers[c].places))
    BY <1>2, <2>1, <2>3 DEF TableOf
  <2>5. \A s : Range(s) = ToSet(s)
    BY DEF Range, ToSet
  <2>. QED BY <2>1, <2>2, <2>4, <2>5 DEF CoverTable
<1>6. PICK shown, first : shown = Pictured(db, 1) /\ first = EarliestOf(db, shown)
  OBVIOUS
<1>7. /\ CoverOfRecording(db, 1) = IF shown = {} THEN <<>> ELSE <<first[1], CoverOfTrack(db.releases[first[1]])>>
      /\ shown # {} => /\ first \in shown
                       /\ \A at \in shown : db.releases[first[1]].year <= db.releases[at[1]].year
  BY <1>3, <1>6, EarliestCover
<1>8. PICK pages : pages = [r \in 1..N |-> CoverOfPage(db.releases[r])]
  OBVIOUS
<1>9. /\ pages = [r \in 1..N |-> CoverOfTrack(db.releases[r])]
      /\ \A r \in 1..N : pages[r] = CoverOfTrack(db.releases[r])
  BY <1>5, <1>8, SameCover
<1>10. PICK served : served = UNION {{<<r, c>> : c \in {k \in DOMAIN db.releases[r].covers :
                                                         CoverServed(db.releases[r].covers[k])}} : r \in DOMAIN db.releases}
  OBVIOUS
<1>11. /\ call'.kind = "covers" /\ call'.db = db /\ call'.pages = pages /\ call'.tracks = pages
       /\ call'.recording = CoverOfRecording(db, 1) /\ call'.served = served
  BY <1>1, <1>8, <1>9, <1>10 DEF Picture
<1>12. PICK pictured : pictured = {r \in {x \in 1..N : 1 \in ToSet(db.releases[x].tracks)} : pages[r] # 0}
  OBVIOUS
<1>13. \A at \in shown : at[1] \in pictured
  <2>. SUFFICES ASSUME NEW at \in shown PROVE at[1] \in pictured
    OBVIOUS
  <2>1. at \in PlacesOf(db, 1) /\ CoverOfTrack(db.releases[at[1]]) # 0
    BY <1>6 DEF Pictured
  <2>2. PICK r, n : r \in 1..N /\ n \in DOMAIN db.releases[r].tracks /\ db.releases[r].tracks[n] = 1 /\ at = <<r, n>>
    BY <1>1, <2>1 DEF PlacesOf
  <2>. QED BY <1>9, <1>12, <2>1, <2>2 DEF ToSet
<1>14. \A r \in pictured : \E at \in shown : at[1] = r
  <2>. SUFFICES ASSUME NEW r \in pictured PROVE \E at \in shown : at[1] = r
    OBVIOUS
  <2>1. r \in 1..N /\ 1 \in ToSet(db.releases[r].tracks) /\ CoverOfTrack(db.releases[r]) # 0
    BY <1>9, <1>12
  <2>2. PICK n \in DOMAIN db.releases[r].tracks : db.releases[r].tracks[n] = 1
    BY <2>1 DEF ToSet
  <2>3. PICK at : at = <<r, n>>
    OBVIOUS
  <2>4. at \in PlacesOf(db, 1) /\ at[1] = r
    BY <1>1, <2>1, <2>2, <2>3 DEF PlacesOf
  <2>. QED BY <1>6, <2>1, <2>4 DEF Pictured
<1>15. call'.recording = <<>> <=> pictured = {}
  <2>1. shown = {} <=> pictured = {}
    BY <1>13, <1>14
  <2>. QED BY <1>7, <1>11, <2>1
<1>16. call'.recording # <<>> => /\ call'.recording[1] \in pictured
                                 /\ \A r \in pictured : db.releases[call'.recording[1]].year <= db.releases[r].year
  <2>. SUFFICES ASSUME call'.recording # <<>>
                PROVE  /\ call'.recording[1] \in pictured
                       /\ \A r \in pictured : db.releases[call'.recording[1]].year <= db.releases[r].year
    OBVIOUS
  <2>1. shown # {} /\ call'.recording[1] = first[1]
    BY <1>7, <1>11
  <2>. QED BY <1>7, <1>13, <1>14, <2>1
<1>17. ASSUME NEW r \in 1..N, pages[r] # 0, \A p \in ToSet(db.releases[r].covers[pages[r]].places) : p.reads
       PROVE  <<r, pages[r]>> \in served
  <2>1. PICK release, c : release = db.releases[r] /\ c = pages[r]
    OBVIOUS
  <2>2. CoverTable(release, m[r]) /\ c = CoverOfTrack(release)
    BY <1>5, <1>9, <2>1
  <2>3. c \in 0..m[r] /\ \E p \in ToSet(release.covers[c].places) : Usable(p)
    BY <1>17, <2>1, <2>2, SameCover
  <2>4. m[r] \in Nat /\ c \in 1..m[r] /\ c \in DOMAIN release.covers
    BY <1>17, <2>1, <2>2, <2>3 DEF CoverTable
  <2>5. PICK cover : cover = release.covers[c]
    OBVIOUS
  <2>6. cover.places \in Seq(ToSet(cover.places))
    BY <2>2, <2>4, <2>5 DEF CoverTable
  <2>7. PICK p \in ToSet(cover.places) : Usable(p)
    BY <2>3, <2>5
  <2>8. \A q \in ToSet(cover.places) : q.reads
    BY <1>17, <2>1, <2>5
  <2>9. CoverServed(cover)
    BY <2>6, <2>7, <2>8, ReadableServed
  <2>. QED BY <1>1, <1>10, <2>1, <2>4, <2>5, <2>9
<1>18. PictureHonest(db, pages, pages, call'.recording, served)
  <2>1. pictured = {r \in {x \in DOMAIN db.releases : 1 \in ToSet(db.releases[x].tracks)} : pages[r] # 0}
    BY <1>1, <1>12
  <2>. QED BY <1>1, <1>15, <1>16, <1>17, <2>1 DEF PictureHonest
<1>19. CoversAgree' <=>
         (call'.kind = "covers" =>
            PictureHonest(call'.db, call'.pages, call'.tracks, call'.recording, call'.served))
  BY Zenon DEF CoversAgree, PictureHonest
<1>. QED BY <1>11, <1>18, <1>19

-----------------------------------------------------------------------------
(* Lists under their filters.                                              *)

\* What one answer is chosen of a question.
LEMMA OneAnswer ==
  ASSUME NEW chosen \in SUBSET {"yes", "no"}, NEW fact \in BOOLEAN
  PROVE  Answered(chosen, fact) <=> (Cardinality(chosen) = 1 => (chosen = {"yes"} <=> fact))
<1>1. Cardinality({"yes"}) = 1 /\ Cardinality({"no"}) = 1 /\ Cardinality({}) = 0
  BY FS_Singleton, FS_EmptySet
<1>2. Cardinality({"yes", "no"}) = 2
  <2>1. IsFiniteSet({"yes"}) /\ Cardinality({"yes"}) = 1
    BY FS_Singleton
  <2>2. Cardinality({"yes"} \cup {"no"}) = 2
    BY <2>1, FS_AddElement
  <2>3. {"yes"} \cup {"no"} = {"yes", "no"}
    OBVIOUS
  <2>. QED BY <2>2, <2>3
<1>3. chosen = {} \/ chosen = {"yes"} \/ chosen = {"no"} \/ chosen = {"yes", "no"}
  OBVIOUS
<1>7. {"yes"} # {} /\ {"no"} # {} /\ {"yes"} # {"yes", "no"} /\ {"no"} # {"yes", "no"} /\ {"no"} # {"yes"}
  OBVIOUS
<1>4. CASE chosen = {} \/ chosen = {"yes", "no"}
  <2>1. Cardinality(chosen) # 1
    <3>1. CASE chosen = {}
      BY <1>1, <3>1
    <3>2. CASE chosen = {"yes", "no"}
      BY <1>2, <3>2
    <3>. QED BY <1>4, <3>1, <3>2
  <2>2. chosen # {"yes"} /\ chosen # {"no"}
    BY <1>4, <1>7, Zenon
  <2>. QED BY <2>1, <2>2 DEF Answered
<1>5. CASE chosen = {"yes"}
  BY <1>1, <1>5 DEF Answered
<1>6. CASE chosen = {"no"}
  <2>1. Cardinality(chosen) = 1 /\ chosen # {"yes"}
    BY <1>1, <1>6
  <2>. QED BY <1>6, <2>1 DEF Answered
<1>. QED BY <1>3, <1>4, <1>5, <1>6

\* So many of the chosen channels, or any of them.
LEMMA ChannelsCounted ==
  ASSUME NEW chosen, IsFiniteSet(chosen), chosen # {}, NEW channels, NEW all \in BOOLEAN
  PROVE  (IF all THEN chosen \subseteq channels ELSE chosen \cap channels # {})
           <=> Cardinality(channels \cap chosen) >= (IF all THEN Cardinality(chosen) ELSE 1)
<1>1. PICK both : both = channels \cap chosen
  OBVIOUS
<1>2. IsFiniteSet(both) /\ Cardinality(both) <= Cardinality(chosen) /\ (Cardinality(both) = Cardinality(chosen) => both = chosen)
  BY <1>1, FS_Subset
<1>3. Cardinality(both) \in Nat /\ Cardinality(chosen) \in Nat
  BY <1>2, FS_CardinalityType
<1>4. Cardinality(both) = 0 <=> both = {}
  BY <1>2, FS_EmptySet
<1>5. chosen \subseteq channels <=> both = chosen
  BY <1>1
<1>6. Cardinality(both) >= Cardinality(chosen) <=> both = chosen
  BY <1>2, <1>3
<1>7. chosen \cap channels = both
  BY <1>1
<1>. QED BY <1>1, <1>3, <1>4, <1>5, <1>6, <1>7

\* ListMatchesFilters, of an entry and the filters.
RowTells(e, filter, listed) ==
  LET row == RowOf(e)
      reasons == row.reasons
      asked(chosen, fact) == Cardinality(chosen) = 1 => (chosen = {"yes"} <=> fact)
      shown ==
        /\ filter.rotation # {} => row.rotation \in filter.rotation
        /\ filter.file # {} => \/ row.file \in filter.file
                               \/ "problem" \in filter.file /\ "file problem" \in reasons
        /\ filter.channels # {} =>
             Cardinality(row.channels \cap filter.channels)
               >= (IF filter.all THEN Cardinality(filter.channels) ELSE 1)
        /\ asked(filter.managed, row.managed) /\ asked(filter.follow, reasons # {})
        /\ filter.collision => "collision" \in reasons
  IN  /\ shown => listed
      /\ listed /\ "missing" \notin filter.file => shown
      /\ (row.file_key = 0) <=> (row.file = "none")
      /\ row.file_key = 2 => row.file = "available"

\* The filters are offered, the entry is assessed as it may be.
Offered(e, filter) ==
  /\ e.rotation \in {"", "suitable", "not_suitable", "unassessed"} /\ e.managed \in BOOLEAN
  /\ filter.all \in BOOLEAN /\ IsFiniteSet(filter.channels)
  /\ filter.rotation \subseteq {"suitable", "not_suitable", "unassessed"}
  /\ filter.file \subseteq {"available", "missing", "problem", "none"}
  /\ filter.managed \subseteq {"yes", "no"} /\ filter.follow \subseteq {"yes", "no"}

\* The columns of an entry say what the filters ask for (_library_rows, music_library).
LEMMA RowsTell ==
  ASSUME NEW e, NEW filter,
         Offered(e, filter)
  PROVE  RowTells(e, filter, Selects(e, filter))
<1>1. PICK row : row = RowOf(e)
  OBVIOUS
<1>2. /\ row.rotation = RotationDisplay(e) /\ row.reasons = Reasons(e) /\ row.file = FileStatusText(e)
      /\ row.file_key = SortFileStatus(e) /\ row.channels = e.channels /\ row.managed = e.managed
  BY <1>1 DEF RowOf
<1>3. filter.rotation # {} => (RotationSelects(e, filter.rotation) <=> row.rotation \in filter.rotation)
  BY <1>2 DEF RotationSelects, RotationDisplay, Offered
<1>4. /\ "file problem" \in row.reasons <=> HasFileProblem(e)
      /\ "collision" \in row.reasons <=> Collides(e)
      /\ row.reasons # {} <=> NeedsFollowUp(e)
  <2>1. PICK all : all = {"no file", "unavailable", "file problem", "no release", "duplicate", "issue", "collision"}
    OBVIOUS
  <2>2. \A r \in all : r \in row.reasons <=>
           \/ r = "no file" /\ Radio(e) = {}
           \/ r = "unavailable" /\ Radio(e) # {} /\ ~HasActiveLocation(e)
           \/ r = "file problem" /\ HasFileProblem(e)
           \/ r = "no release" /\ ~e.release
           \/ r = "duplicate" /\ e.duplicate
           \/ r = "issue" /\ e.issue
           \/ r = "collision" /\ Collides(e)
    BY <1>2, <2>1 DEF Reasons
  <2>3. row.reasons \subseteq all
    BY <1>2, <2>1 DEF Reasons
  <2>. QED BY <2>1, <2>2, <2>3 DEF NeedsFollowUp
<1>5. PICK active, lost : /\ active = (\E i \in Radio(e) : \E l \in DOMAIN e.files[i].locations : e.files[i].locations[l].status = "active")
                          /\ lost = (\E i \in Radio(e) : \E l \in DOMAIN e.files[i].locations : e.files[i].locations[l].status = "missing")
  OBVIOUS
<1>6. active <=> \E i \in Radio(e) : ActiveAt(e.files[i]) # {}
  BY <1>5 DEF ActiveAt
<1>7. FileSelects(e, filter.file) <=>
        \/ "available" \in filter.file /\ active
        \/ "missing" \in filter.file /\ lost
        \/ "problem" \in filter.file /\ HasFileProblem(e)
        \/ "none" \in filter.file /\ Radio(e) = {}
  BY <1>5, Zenon DEF FileSelects
<1>8. row.file = IF Radio(e) = {} THEN "none" ELSE IF active THEN "available"
                 ELSE IF HasFileProblem(e) THEN "error" ELSE "unchecked"
  BY <1>2, <1>6 DEF FileStatusText
<1>9. active => Radio(e) # {}
  BY <1>5
<1>10. PICK said : said = (row.file \in filter.file \/ ("problem" \in filter.file /\ "file problem" \in row.reasons))
  OBVIOUS
<1>11. said => FileSelects(e, filter.file)
  BY <1>4, <1>7, <1>8, <1>10 DEF Offered
<1>12. FileSelects(e, filter.file) /\ "missing" \notin filter.file => said
  BY <1>4, <1>7, <1>8, <1>9, <1>10
<1>13. filter.channels # {} => (ChannelsSelect(e, filter.channels, filter.all) <=>
         Cardinality(row.channels \cap filter.channels) >= (IF filter.all THEN Cardinality(filter.channels) ELSE 1))
  <2>. SUFFICES ASSUME filter.channels # {}
                PROVE  ChannelsSelect(e, filter.channels, filter.all) <=>
                         Cardinality(row.channels \cap filter.channels)
                           >= (IF filter.all THEN Cardinality(filter.channels) ELSE 1)
    OBVIOUS
  <2>3. filter.all \in BOOLEAN /\ IsFiniteSet(filter.channels)
    BY DEF Offered
  <2>1. PICK chosen, channels, all : /\ chosen = filter.channels /\ channels = e.channels /\ all = filter.all
                                    /\ all \in BOOLEAN /\ IsFiniteSet(chosen) /\ chosen # {}
    BY <2>3
  <2>2. (IF all THEN chosen \subseteq channels ELSE chosen \cap channels # {})
          <=> Cardinality(channels \cap chosen) >= (IF all THEN Cardinality(chosen) ELSE 1)
    BY <2>1, ChannelsCounted
  <2>. QED BY <1>2, <2>1, <2>2, Zenon DEF ChannelsSelect
<1>14. Answered(filter.managed, e.managed) <=> (Cardinality(filter.managed) = 1 => (filter.managed = {"yes"} <=> row.managed))
  BY <1>2, OneAnswer DEF Offered
<1>15. Answered(filter.follow, NeedsFollowUp(e)) <=> (Cardinality(filter.follow) = 1 => (filter.follow = {"yes"} <=> row.reasons # {}))
  <2>1. PICK fact \in BOOLEAN : fact <=> row.reasons # {}
    OBVIOUS
  <2>2. Answered(filter.follow, fact) <=> (Cardinality(filter.follow) = 1 => (filter.follow = {"yes"} <=> fact))
    BY OneAnswer DEF Offered
  <2>. QED BY <1>4, <2>1, <2>2 DEF Answered
<1>16. /\ (row.file_key = 0) <=> (row.file = "none")
       /\ row.file_key = 2 => row.file = "available"
  <2>1. HasActiveLocation(e) => active
    BY <1>6 DEF HasActiveLocation, CurrentAt
  <2>2. HasFileProblem(e) => Radio(e) # {}
    BY DEF HasFileProblem
  <2>3. HasActiveLocation(e) => Radio(e) # {}
    BY DEF HasActiveLocation
  <2>4. PICK problem \in BOOLEAN, there \in BOOLEAN : (problem <=> HasFileProblem(e)) /\ (there <=> HasActiveLocation(e))
    OBVIOUS
  <2>5. row.file_key = IF problem THEN 3 ELSE IF there THEN 2 ELSE IF Radio(e) # {} THEN 1 ELSE 0
    BY <1>2, <2>4, Zenon DEF SortFileStatus
  <2>6. PICK radio \in BOOLEAN : radio <=> Radio(e) # {}
    OBVIOUS
  <2>7. row.file_key = IF problem THEN 3 ELSE IF there THEN 2 ELSE IF radio THEN 1 ELSE 0
    BY <2>5, <2>6, Zenon
  <2>8. (problem => radio) /\ (there => radio /\ active)
    BY <2>1, <2>2, <2>3, <2>4, <2>6, Zenon
  <2>9. row.file = "none" <=> ~radio
    BY <1>8, <2>6
  <2>13. PICK key : key = row.file_key
    OBVIOUS
  <2>14. /\ problem => key = 3
         /\ ~problem /\ there => key = 2
         /\ ~problem /\ ~there /\ radio => key = 1
         /\ ~problem /\ ~there /\ ~radio => key = 0
    BY <2>7, <2>13, Zenon
  <2>10. row.file_key = 0 <=> ~radio
    BY <2>8, <2>13, <2>14
  <2>11. row.file_key = 2 => radio /\ there
    BY <2>8, <2>13, <2>14
  <2>12. radio /\ active => row.file = "available"
    BY <1>8, <2>6
  <2>. QED BY <2>8, <2>9, <2>10, <2>11, <2>12, Zenon
<1>17. PICK shown : shown =
        (/\ filter.rotation # {} => row.rotation \in filter.rotation
         /\ filter.file # {} => said
         /\ filter.channels # {} =>
              Cardinality(row.channels \cap filter.channels) >= (IF filter.all THEN Cardinality(filter.channels) ELSE 1)
         /\ Cardinality(filter.managed) = 1 => (filter.managed = {"yes"} <=> row.managed)
         /\ Cardinality(filter.follow) = 1 => (filter.follow = {"yes"} <=> row.reasons # {})
         /\ filter.collision => "collision" \in row.reasons)
  OBVIOUS
<1>18. shown => Selects(e, filter)
  BY <1>3, <1>4, <1>11, <1>13, <1>14, <1>15, <1>17, Zenon DEF Selects
<1>19. Selects(e, filter) /\ "missing" \notin filter.file => shown
  BY <1>3, <1>4, <1>12, <1>13, <1>14, <1>15, <1>17, Zenon DEF Selects
<1>. QED BY <1>1, <1>10, <1>16, <1>17, <1>18, <1>19, Zenon DEF RowTells

\* An entry is listed by its columns (Browse).
LEMMA ListingMatched ==
  ASSUME NEW l \in Listings, Browse(l.entry, l.filter)
  PROVE  ListMatchesFilters'
<1>1. PICK e, filter : e = l.entry /\ filter = l.filter
  OBVIOUS
<1>2. RowTells(e, filter, Selects(e, filter))
  <2>1. Offered(e, filter)
    BY <1>1, ListingsAssumption, Zenon DEF ListingsAssumption, Offered
  <2>. QED BY <2>1, RowsTell
<1>3. /\ call'.kind = "browse" /\ call'.filter = filter /\ call'.listed = Selects(e, filter)
      /\ call'.row = RowOf(e)
  BY <1>1 DEF Browse
<1>4. RowTells(e, call'.filter, call'.listed) /\ call'.row = RowOf(e)
  BY <1>2, <1>3
<1>. QED BY <1>4, Zenon DEF ListMatchesFilters, RowTells

-----------------------------------------------------------------------------
(* Music under management.                                                 *)

\* Rows are told apart by their numbers, whatever their titles.
LEMMA TitleKeyed ==
  ASSUME NEW m \in Nat, NEW D \in SUBSET (1..m), NEW t, NEW keys, keys = [i \in D |-> <<t[i], i>>],
         \A i \in D : t[i] \in Int
  PROVE  Keyed(keys, 2)
<1>1. IsFiniteSet(D) /\ DOMAIN keys = D
  <2>1. IsFiniteSet(1..m)
    BY FS_Interval
  <2>. QED BY <2>1, FS_Subset
<1>2. \A i \in D : keys[i] \in [1..2 -> Int] /\ keys[i][2] = i
  <2>1. \A a, b \in Int : <<a, b>> \in [1..2 -> Int] /\ <<a, b>>[2] = b
    OBVIOUS
  <2>2. \A i \in D : i \in Int /\ t[i] \in Int /\ keys[i] = <<t[i], i>>
    OBVIOUS
  <2>. QED BY <2>1, <2>2
<1>3. \A i, j \in D : keys[i] = keys[j] => i = j
  <2>. SUFFICES ASSUME NEW i \in D, NEW j \in D, keys[i] = keys[j] PROVE i = j
    OBVIOUS
  <2>1. keys[i][2] = i /\ keys[j][2] = j
    BY <1>2
  <2>. QED BY <2>1
<1>. QED BY <1>1, <1>2, <1>3 DEF Keyed

\* The pages of a list, and a column of the rows on them.
LEMMA PagesAndColumn ==
  ASSUME NEW S, NEW list \in Seq(S), NEW size \in Nat \ {0}, NEW T, NEW F \in [S -> T]
  PROVE  Concat(PagesOf(list, size)) = list /\ Concat(Columns(F, PagesOf(list, size))) = Column(F, list)
<1>1. PICK pages : pages = PagesOf(list, size)
  OBVIOUS
<1>2. pages \in Seq(Seq(S)) /\ Concat(pages) = list
  BY <1>1, PagesThrough
<1>3. Concat(Columns(F, pages)) = Column(F, Concat(pages))
  BY <1>2, ColumnThrough
<1>. QED BY <1>1, <1>2, <1>3

\* A right is found in SQL just when it is found in Python.
LEMMA SameRight ==
  ASSUME NEW db, NEW ids, NEW i \in ids, NEW local, NEW type, NEW today \in 1..3
  PROVE  i \in LocalRightIds(db, ids, local, type, today)
           <=> HasLocalRight(db.entries[i].claims, local, type, today)
<1>1. PICK claims : claims = db.entries[i].claims
  OBVIOUS
<1>2. \A c \in ToSet(claims) : InPeriod(c, today) <=> IsCurrent(c, today)
  <2>. SUFFICES ASSUME NEW c \in ToSet(claims) PROVE InPeriod(c, today) <=> IsCurrent(c, today)
    OBVIOUS
  <2>1. c.from = 0 => c.from <= today
    OBVIOUS
  <2>. QED BY <2>1, Zenon DEF InPeriod, IsCurrent
<1>3. i \in LocalRightIds(db, ids, local, type, today) <=>
        /\ local # Nobody
        /\ \E c \in ToSet(claims) : /\ c.type = type /\ c.holder = local /\ c.status = "confirmed"
                                    /\ InPeriod(c, today)
  BY <1>1, Zenon DEF LocalRightIds
<1>4. HasLocalRight(claims, local, type, today) <=>
        /\ local # Nobody
        /\ \E c \in ToSet(claims) : /\ c.type = type /\ c.holder = local /\ c.status = "confirmed"
                                    /\ IsCurrent(c, today)
  BY Zenon DEF HasLocalRight
<1>. QED BY <1>1, <1>2, <1>3, <1>4, Zenon

\* The steps of managed_list, each over what the ones before have left.
SearchedTimes(db, q) ==
  [i \in DOMAIN db.entries |->
     Occurrences(Matching({db.entries[i].title},
                          <<Code(db.entries[i]), CreditTable(db.entries[i], {"party"})>>, q))]
PlainIds(db, r) ==
  {i \in DOMAIN db.entries : /\ SearchedTimes(db, r.q)[i] > 0
                             /\ r.status # "" => db.entries[i].management = r.status
                             /\ r.source # 0 => db.entries[i].source = r.source}
OwnedIds(db, r, today) ==
  IF r.ownership = "" THEN PlainIds(db, r)
  ELSE {i \in PlainIds(db, r) : OwnershipSummaries(db, PlainIds(db, r), db.local, today)[i] = r.ownership}
RightIds(db, ids, answer, type, today) ==
  CASE answer = ""    -> ids
    [] answer = "yes" -> ids \cap LocalRightIds(db, ids, db.local, type, today)
    [] answer = "no"  -> ids \ LocalRightIds(db, ids, db.local, type, today)
LeftIds(db, r, today) ==
  IF r.rights THEN RightIds(db, RightIds(db, OwnedIds(db, r, today), r.administration, "administration", today),
                            r.distribution, "distribution", today)
  ELSE PlainIds(db, r)
ManagedIds(db) == {i \in DOMAIN db.entries : db.entries[i].managed}

LEMMA StepsOfManaged ==
  ASSUME NEW db, NEW r, NEW today
  PROVE  ManagedTimes(db, r, today) =
           [i \in ManagedIds(db) |-> IF ~r.valid THEN 1
                                     ELSE IF i \in LeftIds(db, r, today) THEN SearchedTimes(db, r.q)[i] ELSE 0]
BY Zenon DEF ManagedTimes, ManagedIds, LeftIds, RightIds, OwnedIds, PlainIds, SearchedTimes

\* What the filters of the list leave, in terms of its columns.
RightAsked(db, i, answer, type, today) ==
  answer = "" \/ (answer = "yes" <=> HasLocalRight(db.entries[i].claims, db.local, type, today))
Asked(db, i, r, today) ==
  /\ r.ownership \in {"", OwnershipOf(db.entries[i].claims, db.local, today)}
  /\ RightAsked(db, i, r.administration, "administration", today)
  /\ RightAsked(db, i, r.distribution, "distribution", today)
Left(db, r, today) == {i \in PlainIds(db, r) : r.rights => Asked(db, i, r, today)}

LEMMA RightsFiltered ==
  ASSUME NEW db, NEW ids, NEW answer \in YesNo, NEW type, NEW today \in 1..3, NEW i
  PROVE  i \in RightIds(db, ids, answer, type, today) <=> i \in ids /\ RightAsked(db, i, answer, type, today)
<1>1. i \in ids => (i \in LocalRightIds(db, ids, db.local, type, today)
                     <=> HasLocalRight(db.entries[i].claims, db.local, type, today))
  BY SameRight, Zenon
<1>2. PICK found : found = LocalRightIds(db, ids, db.local, type, today)
  OBVIOUS
<1>3. PICK has \in BOOLEAN : has <=> HasLocalRight(db.entries[i].claims, db.local, type, today)
  OBVIOUS
<1>4. RightIds(db, ids, answer, type, today) =
        CASE answer = "" -> ids [] answer = "yes" -> ids \cap found [] answer = "no" -> ids \ found
  BY <1>2 DEF RightIds
<1>5. RightAsked(db, i, answer, type, today) <=> (answer = "" \/ (answer = "yes" <=> has))
  BY <1>3 DEF RightAsked
<1>6. i \in ids => (i \in found <=> has)
  BY <1>1, <1>2, <1>3
<1>7. answer = "" \/ answer = "yes" \/ answer = "no"
  BY Zenon DEF YesNo
<1>. QED BY <1>4, <1>5, <1>6, <1>7, Zenon

\* The filters, one after the other, leave the rows whose columns say what was asked for.
LEMMA FiltersLeave ==
  ASSUME NEW db, NEW r, NEW today \in 1..3, r.valid,
         r.administration \in YesNo, r.distribution \in YesNo
  PROVE  ManagedTimes(db, r, today) =
           [i \in ManagedIds(db) |-> IF i \in Left(db, r, today) THEN 1 ELSE 0]
<1>1. PICK plain : plain = PlainIds(db, r)
  OBVIOUS
<1>2. PICK owned : owned = OwnedIds(db, r, today)
  OBVIOUS
<1>3. \A i : i \in owned <=> i \in plain /\ r.ownership \in {"", OwnershipOf(db.entries[i].claims, db.local, today)}
  <2>1. \A i \in plain : OwnershipSummaries(db, plain, db.local, today)[i]
                           = OwnershipOf(db.entries[i].claims, db.local, today)
    BY DEF OwnershipSummaries
  <2>2. owned = IF r.ownership = "" THEN plain
                ELSE {i \in plain : OwnershipSummaries(db, plain, db.local, today)[i] = r.ownership}
    BY <1>1, <1>2 DEF OwnedIds
  <2>. QED BY <2>1, <2>2
<1>4. PICK first : first = RightIds(db, owned, r.administration, "administration", today)
  OBVIOUS
<1>5. PICK second : second = RightIds(db, first, r.distribution, "distribution", today)
  OBVIOUS
<1>6. \A i : i \in first <=> i \in owned /\ RightAsked(db, i, r.administration, "administration", today)
  BY <1>4, RightsFiltered
<1>7. \A i : i \in second <=> i \in first /\ RightAsked(db, i, r.distribution, "distribution", today)
  BY <1>5, RightsFiltered
<1>8. LeftIds(db, r, today) = IF r.rights THEN second ELSE plain
  BY <1>1, <1>2, <1>4, <1>5, Zenon DEF LeftIds
<1>9. LeftIds(db, r, today) = Left(db, r, today)
  <2>1. \A i : i \in Left(db, r, today) <=> i \in plain /\ (r.rights => Asked(db, i, r, today))
    BY <1>1, Zenon DEF Left
  <2>2. \A i : i \in second <=> i \in plain /\ Asked(db, i, r, today)
    BY <1>3, <1>6, <1>7, Zenon DEF Asked
  <2>3. \A i : i \in LeftIds(db, r, today) <=> i \in Left(db, r, today)
    BY <1>8, <2>1, <2>2, Zenon
  <2>. QED BY <2>3
<1>10. PICK searched : searched = SearchedTimes(db, r.q)
  OBVIOUS
<1>11. \A i \in Left(db, r, today) : searched[i] = 1
  <2>1. \A rows : Occurrences(rows) = 0 \/ Occurrences(rows) = 1
    BY DEF Occurrences
  <2>2. \A i \in DOMAIN db.entries : searched[i] = 0 \/ searched[i] = 1
    BY <1>10, <2>1, Zenon DEF SearchedTimes
  <2>3. \A i \in Left(db, r, today) : i \in DOMAIN db.entries /\ searched[i] > 0
    BY <1>10, Zenon DEF Left, PlainIds
  <2>. SUFFICES ASSUME NEW i \in Left(db, r, today) PROVE searched[i] = 1
    OBVIOUS
  <2>4. i \in DOMAIN db.entries /\ searched[i] > 0
    BY <2>3
  <2>5. searched[i] = 0 \/ searched[i] = 1
    BY <2>2, <2>4
  <2>. QED BY <2>4, <2>5
<1>12. PICK left : left = Left(db, r, today)
  OBVIOUS
<1>13. ManagedTimes(db, r, today) = [i \in ManagedIds(db) |-> IF i \in left THEN searched[i] ELSE 0]
  <2>1. ManagedTimes(db, r, today) =
          [i \in ManagedIds(db) |-> IF ~r.valid THEN 1 ELSE IF i \in left THEN searched[i] ELSE 0]
    BY <1>9, <1>10, <1>12, StepsOfManaged
  <2>. QED BY <2>1
<1>. QED BY <1>11, <1>12, <1>13

\* The columns of the managed music, and its list through all pages.
ManagedColumns(db, today) ==
  [i \in DOMAIN db.entries |-> ManagedRow(db.entries[i], db.local, today)]
ManagedThrough(db, r, today, of) ==
  LET answer(p) == Managed(db, [r EXCEPT !.page = p], today) IN AllRows(answer, of)
TitleKeys(db, D) == [i \in D |-> <<db.entries[i].title, i>>]

\* A list of some rows is one of all rows.
LEMMA WiderSeq ==
  ASSUME NEW A, NEW B, A \subseteq B, NEW s \in Seq(A)
  PROVE  s \in Seq(B)
OBVIOUS

\* Another page is of the same list.
LEMMA SameOnEveryPage ==
  ASSUME NEW db, NEW r \in ManagedRequest, r.valid, NEW today \in 1..3, NEW p \in Int
  PROVE  /\ ManagedTimes(db, [r EXCEPT !.page = p], today) = ManagedTimes(db, r, today)
         /\ [r EXCEPT !.page = p].page = p
<1>1. PICK s : s = [r EXCEPT !.page = p]
  OBVIOUS
<1>2. /\ s.q = r.q /\ s.status = r.status /\ s.source = r.source /\ s.ownership = r.ownership
      /\ s.administration = r.administration /\ s.distribution = r.distribution
      /\ s.rights = r.rights /\ s.valid = r.valid /\ s.page = p
  BY <1>1 DEF ManagedRequest
<1>3. r.administration \in YesNo /\ r.distribution \in YesNo
  BY DEF ManagedRequest
<1>4. PICK left : left = Left(db, r, today)
  OBVIOUS
<1>5. \A i : i \in PlainIds(db, s) <=> i \in PlainIds(db, r)
  BY <1>2, Zenon DEF PlainIds
<1>6. \A i : Asked(db, i, s, today) <=> Asked(db, i, r, today)
  BY <1>2, Zenon DEF Asked
<1>7. \A i : i \in Left(db, s, today) <=> i \in left
  BY <1>2, <1>4, <1>5, <1>6, Zenon DEF Left
<1>8. Left(db, s, today) = left
  BY <1>7
<1>9. ManagedTimes(db, r, today) = [i \in ManagedIds(db) |-> IF i \in left THEN 1 ELSE 0]
  BY <1>3, <1>4, FiltersLeave
<1>10. s.valid /\ s.administration \in YesNo /\ s.distribution \in YesNo
  BY <1>2, <1>3
<1>11. ManagedTimes(db, s, today) = [i \in ManagedIds(db) |-> IF i \in left THEN 1 ELSE 0]
  BY <1>8, <1>10, FiltersLeave
<1>. QED BY <1>1, <1>2, <1>9, <1>11, Zenon

\* All pages of the managed music are the rows that are left, once, in order, with their columns.
LEMMA ManagedPaged ==
  ASSUME NEW db, NEW m \in Nat, DOMAIN db.entries = 1..m, \A i \in 1..m : db.entries[i].title \in Int,
         NEW r \in ManagedRequest, r.valid, NEW today \in 1..3
  PROVE  \E list : /\ ListsRows(TitleKeys(db, ManagedIds(db)), Left(db, r, today), list)
                   /\ ManagedThrough(db, r, today, "list") = list
                   /\ ManagedThrough(db, r, today, "rows") = Column(ManagedColumns(db, today), list)
<1>1. PICK keys : keys = TitleKeys(db, ManagedIds(db))
  OBVIOUS
<1>2. PICK times : times = ManagedTimes(db, r, today)
  OBVIOUS
<1>3. PICK D \in SUBSET (1..m) : D = ManagedIds(db)
  BY DEF ManagedIds
<1>4. PICK left : left = Left(db, r, today)
  OBVIOUS
<1>5. times = [i \in D |-> IF i \in left THEN 1 ELSE 0]
  <2>1. r.administration \in YesNo /\ r.distribution \in YesNo
    BY DEF ManagedRequest
  <2>. QED BY <1>2, <1>3, <1>4, <2>1, FiltersLeave
<1>6. Keyed(keys, 2) /\ DOMAIN keys = D
  <2>1. PICK t : t = [i \in D |-> db.entries[i].title]
    OBVIOUS
  <2>2. keys = [i \in D |-> <<t[i], i>>] /\ \A i \in D : t[i] \in Int
    BY <1>1, <1>3, <2>1 DEF TitleKeys
  <2>. QED BY <2>2, TitleKeyed
<1>7. PICK list : list = Returned(keys, times)
  OBVIOUS
<1>8. ListsRows(keys, left, list)
  BY <1>5, <1>6, <1>7, ReturnedLists
<1>9. PICK S : S = 1..m
  OBVIOUS
<1>10. list \in Seq(S)
  <2>1. list \in Seq(D)
    BY <1>6, <1>8 DEF ListsRows
  <2>2. D \subseteq S
    BY <1>9
  <2>. QED BY <2>1, <2>2, WiderSeq
<1>11. PICK F : F = ManagedColumns(db, today)
  OBVIOUS
<1>12. PICK T : F \in [S -> T]
  <2>1. F \in [S -> {F[i] : i \in S}]
    BY <1>9, <1>11 DEF ManagedColumns
  <2>. QED BY <2>1
<1>13. PageRows \in Nat \ {0}
  BY PageAssumption
<1>14. PICK n \in Nat : n = Pages(list, PageRows) /\ n > 0
  <2>1. PagesFor(Len(list), PageRows, Pages(list, PageRows))
    BY <1>10, <1>13, PagesCounted
  <2>. QED BY <2>1 DEF PagesFor
<1>15. PICK pages : pages = PagesOf(list, PageRows)
  OBVIOUS
<1>16. /\ pages \in Seq(Seq(S)) /\ Concat(pages) = list /\ pages = [p \in 1..n |-> PageOf(list, PageRows, p)]
       /\ Concat(Columns(F, pages)) = Column(F, list)
  <2>1. pages \in Seq(Seq(S)) /\ Concat(pages) = list
    BY <1>10, <1>13, <1>15, PagesThrough
  <2>2. pages = [p \in 1..n |-> PageOf(list, PageRows, p)]
    BY <1>14, <1>15, Zenon DEF PagesOf
  <2>3. Concat(Columns(F, pages)) = Column(F, list)
    <3>1. \A size \in Nat \ {0} : Concat(Columns(F, PagesOf(list, size))) = Column(F, list)
      BY <1>10, <1>12, PagesAndColumn
    <3>. QED BY <1>13, <1>15, <3>1
  <2>. QED BY <2>1, <2>2, <2>3
<1>17. \A p \in 1..n : LET a == Managed(db, [r EXCEPT !.page = p], today)
                       IN  a.pages = n /\ a.list = pages[p] /\ a.rows = Column(F, pages[p])
  <2>. SUFFICES ASSUME NEW p \in 1..n
                PROVE  LET a == Managed(db, [r EXCEPT !.page = p], today)
                       IN  a.pages = n /\ a.list = pages[p] /\ a.rows = Column(F, pages[p])
    OBVIOUS
  <2>1. PICK s : s = [r EXCEPT !.page = p]
    OBVIOUS
  <2>2. ManagedTimes(db, s, today) = times /\ s.page = p
    BY <1>2, <2>1, SameOnEveryPage
  <2>3. [i \in DOMAIN times |-> LibraryKeys(db, "title", FALSE)[i]] = keys
    <3>1. \A i \in D : LibraryKeys(db, "title", FALSE)[i] = <<db.entries[i].title, i>>
      BY <1>3 DEF LibraryKeys
    <3>2. DOMAIN times = D /\ keys = [i \in D |-> <<db.entries[i].title, i>>]
      BY <1>1, <1>3, <1>5 DEF TitleKeys
    <3>. QED BY <3>1, <3>2
  <2>4. Managed(db, s, today) = ManagedPage(db, list, p, today)
    BY <1>7, <2>2, <2>3, Zenon DEF Managed
  <2>5. PICK cut : cut = PageOf(list, PageRows, p)
    OBVIOUS
  <2>6. cut = pages[p] /\ cut \in Seq(S)
    <3>1. cut = pages[p]
      BY <1>16, <2>5
    <3>2. p \in DOMAIN pages
      BY <1>16
    <3>. QED BY <1>16, <3>1, <3>2
  <2>7. Column(F, cut) = [k \in DOMAIN cut |-> ManagedRow(db.entries[cut[k]], db.local, today)]
    <3>1. \A k \in DOMAIN cut : cut[k] \in S
      BY <2>6
    <3>2. \A k \in DOMAIN cut : F[cut[k]] = ManagedRow(db.entries[cut[k]], db.local, today)
      BY <1>9, <1>11, <3>1 DEF ManagedColumns
    <3>. QED BY <3>2 DEF Column
  <2>8. ManagedPage(db, list, p, today) = [list |-> cut, pages |-> n, rows |-> Column(F, cut)]
    BY <1>14, <2>5, <2>7, Zenon DEF ManagedPage
  <2>. QED BY <2>1, <2>4, <2>6, <2>8
<1>18. ManagedThrough(db, r, today, "list") = list
  <2>1. ManagedThrough(db, r, today, "list")
          = Concat([p \in 1..Managed(db, [r EXCEPT !.page = 1], today).pages |->
                      Managed(db, [r EXCEPT !.page = p], today)["list"]])
    BY Zenon DEF ManagedThrough, AllRows
  <2>2. 1 \in 1..n
    BY <1>14
  <2>3. Managed(db, [r EXCEPT !.page = 1], today).pages = n
    BY <1>17, <2>2
  <2>4. [p \in 1..n |-> Managed(db, [r EXCEPT !.page = p], today)["list"]] = pages
    <3>1. \A p \in 1..n : Managed(db, [r EXCEPT !.page = p], today)["list"] = pages[p]
      BY <1>17
    <3>2. pages = [p \in 1..n |-> pages[p]]
      BY <1>16
    <3>. QED BY <3>1, <3>2
  <2>. QED BY <1>16, <2>1, <2>3, <2>4
<1>19. ManagedThrough(db, r, today, "rows") = Column(F, list)
  <2>1. ManagedThrough(db, r, today, "rows")
          = Concat([p \in 1..Managed(db, [r EXCEPT !.page = 1], today).pages |->
                      Managed(db, [r EXCEPT !.page = p], today)["rows"]])
    BY Zenon DEF ManagedThrough, AllRows
  <2>2. 1 \in 1..n
    BY <1>14
  <2>3. Managed(db, [r EXCEPT !.page = 1], today).pages = n
    BY <1>17, <2>2
  <2>4. [p \in 1..n |-> Managed(db, [r EXCEPT !.page = p], today)["rows"]] = Columns(F, pages)
    <3>1. \A p \in 1..n : Managed(db, [r EXCEPT !.page = p], today)["rows"] = Column(F, pages[p])
      BY <1>17
    <3>2. DOMAIN pages = 1..n
      BY <1>16
    <3>. QED BY <3>1, <3>2 DEF Columns
  <2>. QED BY <1>16, <2>1, <2>3, <2>4
<1>. QED BY <1>1, <1>4, <1>8, <1>11, <1>18, <1>19

\* ManagedListAgrees, of a request.
ManagedHonest(db, r, today) ==
  LET plain == [r EXCEPT !.ownership = "", !.administration = "", !.distribution = ""]
      asking(p) == Managed(db, [r EXCEPT !.page = p], today)
      unasked(p) == Managed(db, [plain EXCEPT !.page = p], today)
      answered(answer, fact) == answer = "" \/ (answer = "yes" <=> fact)
      asked(row) == /\ r.ownership \in {"", row.ownership}
                    /\ answered(r.administration, row.administration)
                    /\ answered(r.distribution, row.distribution)
      expected(list, rows) == {list[n] : n \in {m \in DOMAIN list : ~r.rights \/ asked(rows[m])}}
      agree(list, all, rows) == Once(list) /\ ToSet(list) = expected(all, rows)
  IN  agree(AllRows(asking, "list"), AllRows(unasked, "list"), AllRows(unasked, "rows"))

\* The row says what is asked for.
RowAsked(r, row) ==
  /\ r.ownership \in {"", row.ownership}
  /\ r.administration = "" \/ (r.administration = "yes" <=> row.administration)
  /\ r.distribution = "" \/ (r.distribution = "yes" <=> row.distribution)
Expected(r, list, rows) == {list[n] : n \in {m \in DOMAIN list : ~r.rights \/ RowAsked(r, rows[m])}}
Unasked(r) == [r EXCEPT !.ownership = "", !.administration = "", !.distribution = ""]

LEMMA UnaskedRequest ==
  ASSUME NEW r \in ManagedRequest
  PROVE  /\ Unasked(r) \in ManagedRequest
         /\ Unasked(r).q = r.q /\ Unasked(r).status = r.status /\ Unasked(r).source = r.source
         /\ Unasked(r).rights = r.rights /\ Unasked(r).valid = r.valid
         /\ \A db, i, today : Asked(db, i, Unasked(r), today)
<1>1. PICK blank : blank = ""
  OBVIOUS
<1>2. blank \in Choice /\ blank \in YesNo
  <2>1. "" \in Choice
    BY Zenon DEF Choice, NotGiven
  <2>2. "" \in YesNo
    BY Zenon DEF YesNo
  <2>. QED BY <1>1, <2>1, <2>2, Zenon
<1>3. PICK s : s = [r EXCEPT !.ownership = blank, !.administration = blank, !.distribution = blank]
  OBVIOUS
<1>4. s = Unasked(r)
  BY <1>1, <1>3, Zenon DEF Unasked
<1>5. /\ s \in ManagedRequest /\ s.q = r.q /\ s.status = r.status /\ s.source = r.source
      /\ s.rights = r.rights /\ s.valid = r.valid
      /\ s.ownership = blank /\ s.administration = blank /\ s.distribution = blank
  BY <1>2, <1>3 DEF ManagedRequest
<1>6. \A db, i, today : Asked(db, i, s, today)
  BY <1>1, <1>5, Zenon DEF Asked, RightAsked
<1>. QED BY <1>4, <1>5, <1>6, Zenon

\* The filters about rights leave the rows whose columns say what was asked for.
LEMMA ManagedAgrees ==
  ASSUME NEW db, NEW m \in Nat, DOMAIN db.entries = 1..m, \A i \in 1..m : db.entries[i].title \in Int,
         NEW r \in ManagedRequest, r.valid, NEW today \in 1..3
  PROVE  ManagedHonest(db, r, today)
<1>1. PICK s : s = Unasked(r)
  OBVIOUS
<1>2. /\ s \in ManagedRequest /\ s.q = r.q /\ s.status = r.status /\ s.source = r.source
      /\ s.rights = r.rights /\ s.valid = r.valid /\ \A i : Asked(db, i, s, today)
  <2>1. PICK u : u = Unasked(r)
    OBVIOUS
  <2>2. /\ u \in ManagedRequest /\ u.q = r.q /\ u.status = r.status /\ u.source = r.source
        /\ u.rights = r.rights /\ u.valid = r.valid
    BY <2>1, UnaskedRequest
  <2>3. \A base, i, day : Asked(base, i, Unasked(r), day)
    BY UnaskedRequest
  <2>. QED BY <1>1, <2>1, <2>2, <2>3
<1>3. PICK keys : keys = TitleKeys(db, ManagedIds(db)) /\ DOMAIN keys = ManagedIds(db)
  <2>1. DOMAIN TitleKeys(db, ManagedIds(db)) = ManagedIds(db)
    BY DEF TitleKeys
  <2>. QED BY <2>1
<1>4. PICK list : ListsRows(keys, Left(db, r, today), list) /\ ManagedThrough(db, r, today, "list") = list
  BY <1>3, ManagedPaged
<1>5. PICK all : /\ ListsRows(keys, Left(db, s, today), all)
                 /\ ManagedThrough(db, s, today, "list") = all
                 /\ ManagedThrough(db, s, today, "rows") = Column(ManagedColumns(db, today), all)
  BY <1>2, <1>3, ManagedPaged
<1>6. PICK rows : rows = Column(ManagedColumns(db, today), all)
  OBVIOUS
<1>7. Once(list) /\ ToSet(list) = ManagedIds(db) \cap Left(db, r, today)
  BY <1>3, <1>4 DEF ListsRows, Once
<1>8. ToSet(all) = ManagedIds(db) \cap Left(db, s, today) /\ all \in Seq(ManagedIds(db))
  BY <1>3, <1>5 DEF ListsRows
<1>9. \A i : i \in Left(db, s, today) <=> i \in PlainIds(db, r)
  <2>1. \A i : i \in PlainIds(db, s) <=> i \in PlainIds(db, r)
    BY <1>2, Zenon DEF PlainIds
  <2>. QED BY <1>2, <2>1, Zenon DEF Left
<1>10. \A i : i \in Left(db, r, today) <=> i \in PlainIds(db, r) /\ (r.rights => Asked(db, i, r, today))
  BY Zenon DEF Left
<1>11. \A n \in DOMAIN all : RowAsked(r, rows[n]) <=> Asked(db, all[n], r, today)
  <2>. SUFFICES ASSUME NEW n \in DOMAIN all PROVE RowAsked(r, rows[n]) <=> Asked(db, all[n], r, today)
    OBVIOUS
  <2>1. all[n] \in ManagedIds(db)
    BY <1>8
  <2>2. all[n] \in DOMAIN db.entries
    BY <2>1 DEF ManagedIds
  <2>3. rows[n] = ManagedColumns(db, today)[all[n]]
    BY <1>6 DEF Column
  <2>4. rows[n] = ManagedRow(db.entries[all[n]], db.local, today)
    BY <2>2, <2>3 DEF ManagedColumns
  <2>5. PICK e : e = db.entries[all[n]]
    OBVIOUS
  <2>6. LET row == ManagedRow(e, db.local, today)
        IN  /\ row.ownership = OwnershipOf(e.claims, db.local, today)
            /\ row.administration = HasLocalRight(e.claims, db.local, "administration", today)
            /\ row.distribution = HasLocalRight(e.claims, db.local, "distribution", today)
    BY DEF ManagedRow
  <2>7. Asked(db, all[n], r, today) <=> RowAsked(r, ManagedRow(e, db.local, today))
    BY <2>5, <2>6, Zenon DEF Asked, RightAsked, RowAsked
  <2>. QED BY <2>4, <2>5, <2>7, Zenon
<1>12. PICK asked \in SUBSET (DOMAIN all) : asked = {n \in DOMAIN all : ~r.rights \/ RowAsked(r, rows[n])}
  OBVIOUS
<1>13. ToSet(list) = {all[n] : n \in asked}
  <2>1. \A i : i \in ToSet(all) <=> \E n \in DOMAIN all : all[n] = i
    BY <1>8 DEF ToSet
  <2>2. \A i : i \in ToSet(list) <=> i \in ToSet(all) /\ (r.rights => Asked(db, i, r, today))
    BY <1>7, <1>8, <1>9, <1>10
  <2>3. \A n \in DOMAIN all : n \in asked <=> (r.rights => Asked(db, all[n], r, today))
    BY <1>11, <1>12
  <2>4. \A i : i \in ToSet(list) <=> \E n \in asked : all[n] = i
    BY <2>1, <2>2, <2>3
  <2>. QED BY <2>4
<1>14. ToSet(list) = Expected(r, all, rows)
  BY <1>12, <1>13 DEF Expected
<1>15. /\ Once(ManagedThrough(db, r, today, "list"))
       /\ ToSet(ManagedThrough(db, r, today, "list"))
            = Expected(r, ManagedThrough(db, Unasked(r), today, "list"), ManagedThrough(db, Unasked(r), today, "rows"))
  BY <1>1, <1>4, <1>5, <1>6, <1>7, <1>14
<1>. QED BY <1>15, Zenon DEF ManagedHonest, ManagedThrough, Unasked, RowAsked, Expected, AllRows

\* The rows of a table are numbered from one, and their texts are numbers.
LEMMA TableRows ==
  ASSUME NEW rows, NEW columns, TableOf(rows, columns)
  PROVE  \E m \in Nat : /\ m = Len(rows) /\ DOMAIN rows = 1..m /\ rows \in Seq(Range(rows))
                        /\ Range(rows) = {rows[i] : i \in 1..m}
                        /\ \A i \in 1..m : \A c \in columns : rows[i][c] \in Nat
<1>1. PICK R : R = Range(rows)
  OBVIOUS
<1>2. rows \in Seq(R) /\ \A row \in R, c \in columns : row[c] \in Nat
  BY <1>1, Zenon DEF TableOf
<1>3. PICK m \in Nat : m = Len(rows) /\ DOMAIN rows = 1..m
  BY <1>2
<1>4. R = {rows[i] : i \in 1..m}
  BY <1>1, <1>3 DEF Range
<1>. QED BY <1>1, <1>2, <1>3, <1>4

\* What the list of the managed music shows (ListManaged) is what was asked for.
LEMMA ManagedShown ==
  ASSUME NEW d, DeskOf(d), NEW today \in 1..3, ListManaged(d, today)
  PROVE  ManagedListAgrees'
<1>1. d.of = "managed"
  BY DEF ListManaged
<1>2. PICK db, r : db = d.db /\ r = d.request
  OBVIOUS
<1>3. /\ call'.kind = "managed" /\ call'.db = db /\ call'.request = r /\ call'.today = today
  BY <1>2 DEF ListManaged
<1>4. r \in ManagedRequest /\ Shelf(db.entries)
  BY <1>1, <1>2, Zenon DEF DeskOf
<1>5. PICK m \in Nat : DOMAIN db.entries = 1..m /\ \A i \in 1..m : db.entries[i].title \in Int
  <2>1. PICK columns : columns = {"title", "code", "updated"}
    OBVIOUS
  <2>2. TableOf(db.entries, columns)
    BY <1>4, <2>1, Zenon DEF Shelf
  <2>3. PICK m \in Nat : DOMAIN db.entries = 1..m /\ \A i \in 1..m : \A c \in columns : db.entries[i][c] \in Nat
    BY <2>2, TableRows
  <2>. QED BY <2>1, <2>3
<1>6. r.valid => ManagedHonest(db, r, today)
  <2>. SUFFICES ASSUME r.valid PROVE ManagedHonest(db, r, today)
    OBVIOUS
  <2>. QED BY <1>4, <1>5, ManagedAgrees
<1>7. ManagedListAgrees' <=> (call'.kind = "managed" /\ call'.request.valid
                                => ManagedHonest(call'.db, call'.request, call'.today))
  BY Zenon DEF ManagedListAgrees, ManagedHonest, AllRows
<1>. QED BY <1>3, <1>6, <1>7

-----------------------------------------------------------------------------
(* Rows of the archive.                                                    *)

\* An entry's texts: its own, and some of those of its credits.
EntryTexts(e, columns) ==
  {e.title, e.code} \cup UNION {{c[x] : x \in columns} : c \in ToSet(e.credits)}
EntryNumbered(e, columns) ==
  /\ e.title \in Nat /\ e.code \in Nat
  /\ \E S : e.credits \in Seq(S) /\ \A c \in S, x \in columns : c[x] \in Nat

\* Tables of an entry's texts are lists of sets of numbers.
LEMMA CreditCells ==
  ASSUME NEW e, NEW columns, EntryNumbered(e, columns)
  PROVE  /\ CreditTable(e, columns) \in Seq(SUBSET Nat) /\ Code(e) \in Seq(SUBSET Nat)
         /\ ToSet(CreditTable(e, columns)) = {{c[x] : x \in columns} : c \in ToSet(e.credits)}
         /\ ToSet(Code(e)) = IF e.code = 0 THEN {} ELSE {{e.code}}
<1>1. PICK S : e.credits \in Seq(S) /\ \A c \in S, x \in columns : c[x] \in Nat
  BY DEF EntryNumbered
<1>2. PICK credits \in Seq(S) : credits = e.credits
  BY <1>1
<1>3. PICK m \in Nat : m = Len(credits) /\ DOMAIN credits = 1..m
  OBVIOUS
<1>4. PICK table : table = [i \in 1..m |-> {credits[i][c] : c \in columns}]
  OBVIOUS
<1>5. CreditTable(e, columns) = table
  BY <1>2, <1>3, <1>4, Zenon DEF CreditTable
<1>6. \A i \in 1..m : table[i] \in SUBSET Nat
  <2>. SUFFICES ASSUME NEW i \in 1..m PROVE table[i] \in SUBSET Nat
    OBVIOUS
  <2>1. credits[i] \in S
    BY <1>3
  <2>2. table[i] = {credits[i][c] : c \in columns}
    BY <1>4
  <2>. QED BY <1>1, <2>1, <2>2
<1>7. table \in Seq(SUBSET Nat)
  BY <1>4, <1>6
<1>8. ToSet(table) = {{c[x] : x \in columns} : c \in ToSet(credits)}
  <2>1. ToSet(table) = {table[i] : i \in 1..m} /\ ToSet(credits) = {credits[i] : i \in 1..m}
    BY <1>3, <1>4 DEF ToSet
  <2>2. PICK f : f = [c \in ToSet(credits) |-> {c[x] : x \in columns}]
    OBVIOUS
  <2>3. \A i \in 1..m : credits[i] \in ToSet(credits) /\ table[i] = f[credits[i]]
    <3>1. \A i \in 1..m : credits[i] \in ToSet(credits)
      BY <2>1
    <3>2. \A i \in 1..m : table[i] = {credits[i][x] : x \in columns}
      BY <1>4, Zenon
    <3>3. \A c \in ToSet(credits) : f[c] = {c[x] : x \in columns}
      BY <2>2, Zenon
    <3>. QED BY <3>1, <3>2, <3>3, Zenon
  <2>4. {{c[x] : x \in columns} : c \in ToSet(credits)} = {f[c] : c \in ToSet(credits)}
    BY <2>2, Zenon
  <2>5. {f[c] : c \in ToSet(credits)} = {table[i] : i \in 1..m}
    BY <2>1, <2>3
  <2>. QED BY <2>1, <2>4, <2>5
<1>9. e.code \in Nat
  BY DEF EntryNumbered
<1>10. Code(e) \in Seq(SUBSET Nat) /\ ToSet(Code(e)) = IF e.code = 0 THEN {} ELSE {{e.code}}
  <2>1. \A t \in SUBSET Nat : <<t>> \in Seq(SUBSET Nat) /\ ToSet(<<t>>) = {t}
    <3>1. \A W : \A t \in W : <<t>> \in Seq(W)
      OBVIOUS
    <3>2. \A t : ToSet(<<t>>) = {t}
      <4>. SUFFICES ASSUME NEW t PROVE ToSet(<<t>>) = {t}
        OBVIOUS
      <4>1. PICK s : s = <<t>>
        OBVIOUS
      <4>2. DOMAIN s = {1} /\ s[1] = t
        BY <4>1
      <4>3. ToSet(s) = {s[i] : i \in {1}}
        BY <4>2, Zenon DEF ToSet
      <4>. QED BY <4>1, <4>2, <4>3
    <3>. QED BY <3>1, <3>2, Zenon
  <2>2. <<>> \in Seq(SUBSET Nat) /\ ToSet(<<>>) = {}
    <3>1. \A W : <<>> \in Seq(W)
      OBVIOUS
    <3>2. ToSet(<<>>) = {}
      BY DEF ToSet
    <3>. QED BY <3>1, <3>2, Zenon
  <2>3. {e.code} \in SUBSET Nat
    BY <1>9
  <2>4. Code(e) = IF e.code = 0 THEN <<>> ELSE <<{e.code}>>
    BY DEF Code
  <2>5. CASE e.code = 0
    BY <2>2, <2>4, <2>5
  <2>6. CASE e.code # 0
    <3>1. Code(e) = <<{e.code}>>
      BY <2>4, <2>6
    <3>. QED BY <2>1, <2>3, <2>6, <3>1
  <2>. QED BY <2>5, <2>6
<1>. QED BY <1>2, <1>5, <1>7, <1>8, <1>10, Zenon

\* The cells of two tables.
LEMMA CellsOfTwo ==
  ASSUME NEW a, NEW b
  PROVE  Cells(<<a, b>>) = ToSet(a) \cup ToSet(b)
<1>1. PICK t : t = <<a, b>>
  OBVIOUS
<1>2. DOMAIN t = {1, 2} /\ t[1] = a /\ t[2] = b
  BY <1>1
<1>3. UNION {ToSet(t[n]) : n \in DOMAIN t} = ToSet(a) \cup ToSet(b)
  BY <1>2
<1>. QED BY <1>1, <1>3 DEF Cells

\* An entry is found by its texts, whichever of the tables is joined first.
LEMMA EntryFound ==
  ASSUME NEW e, NEW columns, EntryNumbered(e, columns), NEW q \in Sought, NEW tables,
         tables \in {<<CreditTable(e, columns), Code(e)>>, <<Code(e), CreditTable(e, columns)>>}
  PROVE  /\ Occurrences(Matching({e.title}, tables, q)) \in {0, 1}
         /\ Occurrences(Matching({e.title}, tables, q)) = 1 <=> Says(q, EntryTexts(e, columns))
<1>1. PICK credited, code : credited = CreditTable(e, columns) /\ code = Code(e)
  OBVIOUS
<1>2. credited \in Seq(SUBSET Nat) /\ code \in Seq(SUBSET Nat) /\ e.title \in Nat /\ e.code \in Nat
  BY <1>1, CreditCells DEF EntryNumbered
<1>3. PICK D : D = Seq(SUBSET Nat)
  OBVIOUS
<1>4. tables \in Seq(D) /\ Cells(tables) = ToSet(credited) \cup ToSet(code)
  <2>1. tables = <<credited, code>> \/ tables = <<code, credited>>
    BY <1>1, Zenon
  <2>2. Cells(tables) = ToSet(credited) \cup ToSet(code)
    <3>1. Cells(<<credited, code>>) = ToSet(credited) \cup ToSet(code)
      BY CellsOfTwo, Zenon
    <3>2. Cells(<<code, credited>>) = ToSet(code) \cup ToSet(credited)
      BY CellsOfTwo, Zenon
    <3>. QED BY <2>1, <3>1, <3>2
  <2>3. credited \in D /\ code \in D
    BY <1>2, <1>3
  <2>4. \A x, y \in D : <<x, y>> \in Seq(D)
    OBVIOUS
  <2>. QED BY <2>1, <2>2, <2>3, <2>4
<1>5. {e.title} \in SUBSET Nat
  BY <1>2
<1>6. /\ Occurrences(Matching({e.title}, tables, q)) \in {0, 1}
      /\ Occurrences(Matching({e.title}, tables, q)) = 1 <=> Says(q, {e.title} \cup UNION Cells(tables))
  BY <1>3, <1>4, <1>5, SearchFinds
<1>7. UNION Cells(tables) =
        (UNION {{c[x] : x \in columns} : c \in ToSet(e.credits)}) \cup (IF e.code = 0 THEN {} ELSE {e.code})
  <2>1. ToSet(credited) = {{c[x] : x \in columns} : c \in ToSet(e.credits)}
    BY <1>1, CreditCells
  <2>2. ToSet(code) = IF e.code = 0 THEN {} ELSE {{e.code}}
    BY <1>1, CreditCells
  <2>3. PICK C : C = ToSet(credited)
    OBVIOUS
  <2>4. UNION (C \cup ToSet(code)) = (UNION C) \cup (IF e.code = 0 THEN {} ELSE {e.code})
    BY <2>2
  <2>. QED BY <1>4, <2>1, <2>3, <2>4
<1>8. q # <<>> => 0 \notin q[1]
  <2>1. PICK W : W = SUBSET (Nat \ {0})
    OBVIOUS
  <2>2. q # <<>> => q[1] \in W
    BY <2>1 DEF Sought
  <2>. QED BY <2>1, <2>2
<1>9. Says(q, {e.title} \cup UNION Cells(tables)) <=> Says(q, EntryTexts(e, columns))
  <2>1. PICK U : U = UNION {{c[x] : x \in columns} : c \in ToSet(e.credits)}
    OBVIOUS
  <2>2. EntryTexts(e, columns) = {e.title, e.code} \cup U
    BY <2>1 DEF EntryTexts
  <2>3. UNION Cells(tables) = U \cup (IF e.code = 0 THEN {} ELSE {e.code})
    BY <1>7, <2>1
  <2>. QED BY <1>8, <2>2, <2>3 DEF Says
<1>. QED BY <1>6, <1>9

\* What is listed first does not have the greater key.
LEMMA FirstKeyOrdered ==
  ASSUME NEW keys, NEW n \in Nat \ {0}, Keyed(keys, n), NEW K, NEW list, ListsRows(keys, K, list)
  PROVE  \A h, m \in DOMAIN list : h < m => keys[list[h]][1] <= keys[list[m]][1]
<1>. SUFFICES ASSUME NEW h \in DOMAIN list, NEW m \in DOMAIN list, h < m
              PROVE  keys[list[h]][1] <= keys[list[m]][1]
  OBVIOUS
<1>1. PICK D : D = DOMAIN keys
  OBVIOUS
<1>2. list \in Seq(D) /\ Precedes(keys[list[h]], keys[list[m]])
  BY <1>1 DEF ListsRows
<1>3. list[h] \in D /\ list[m] \in D
  BY <1>2
<1>4. PICK k, l : k = keys[list[h]] /\ l = keys[list[m]]
  OBVIOUS
<1>5. k \in [1..n -> Int] /\ l \in [1..n -> Int]
  BY <1>1, <1>3, <1>4 DEF Keyed
<1>6. PICK i \in 1..n : k[i] < l[i] /\ \A j \in 1..(i - 1) : k[j] = l[j]
  BY <1>2, <1>4, <1>5 DEF Precedes
<1>7. CASE i = 1
  BY <1>4, <1>5, <1>6, <1>7
<1>8. CASE i # 1
  <2>1. 1 \in 1..(i - 1) /\ 1 \in 1..n
    BY <1>8
  <2>. QED BY <1>4, <1>5, <1>6, <2>1
<1>. QED BY <1>7, <1>8

\* The entries of a list are numbered from one, their texts are numbers.
ShelfOf(db, m) ==
  /\ DOMAIN db.entries = 1..m
  /\ \A i \in 1..m : db.entries[i].title \in Nat /\ db.entries[i].updated \in Nat
  /\ \A i \in 1..m, columns \in SUBSET {"party", "identity", "credited"} : EntryNumbered(db.entries[i], columns)

LEMMA ShelfRows ==
  ASSUME NEW db, Shelf(db.entries)
  PROVE  \E m \in Nat : ShelfOf(db, m)
<1>1. PICK columns : columns = {"title", "code", "updated"}
  OBVIOUS
<1>2. TableOf(db.entries, columns) /\ \A e \in Range(db.entries) : CreditsOrdered(e)
  BY <1>1, Zenon DEF Shelf
<1>3. PICK m \in Nat : /\ DOMAIN db.entries = 1..m /\ Range(db.entries) = {db.entries[i] : i \in 1..m}
                       /\ \A i \in 1..m : \A c \in columns : db.entries[i][c] \in Nat
  BY <1>2, TableRows
<1>4. \A i \in 1..m : /\ db.entries[i].title \in Nat /\ db.entries[i].updated \in Nat
                      /\ db.entries[i].code \in Nat /\ CreditsOrdered(db.entries[i])
  BY <1>1, <1>2, <1>3
<1>5. \A i \in 1..m, names \in SUBSET {"party", "identity", "credited"} : EntryNumbered(db.entries[i], names)
  <2>. SUFFICES ASSUME NEW i \in 1..m, NEW names \in SUBSET {"party", "identity", "credited"}
                PROVE  EntryNumbered(db.entries[i], names)
    OBVIOUS
  <2>1. PICK e : e = db.entries[i]
    OBVIOUS
  <2>2. PICK S : S = [id : Nat, order : Nat, role : STRING, credited : Nat, identity : Nat, party : Nat]
    OBVIOUS
  <2>3. e.credits \in Seq(S)
    BY <1>4, <2>1, <2>2, Zenon DEF CreditsOrdered
  <2>4. \A c \in S, x \in names : c[x] \in Nat
    <3>1. \A c \in S : c["credited"] \in Nat /\ c["identity"] \in Nat /\ c["party"] \in Nat
      BY <2>2
    <3>. QED BY <3>1
  <2>5. e.title \in Nat /\ e.code \in Nat
    BY <1>4, <2>1
  <2>. QED BY <2>1, <2>3, <2>4, <2>5, Zenon DEF EntryNumbered
<1>. QED BY <1>3, <1>4, <1>5 DEF ShelfOf

\* Whether an entry is listed in the archive.
ArchivePasses(e, r) ==
  /\ r.genre # <<>> => e.genre = r.genre
  /\ r.language # "" => e.language = r.language
  /\ r.status # "" => e.status = r.status
  /\ Answered({r.managed} \ {""}, e.managed)
  /\ r.source # 0 => r.source \in e.sources
ArchiveHits(e, r) ==
  Occurrences(Matching({e.title}, <<CreditTable(e, {"party", "identity"}), Code(e)>>, r.q))
ArchiveCount(e, r) == IF ~r.valid THEN 1 ELSE IF ~ArchivePasses(e, r) THEN 0 ELSE ArchiveHits(e, r)
Archived(db, r) == {i \in DOMAIN db.entries : ArchiveCount(db.entries[i], r) = 1}

\* An entry is listed once, or not.
LEMMA ArchiveCounts ==
  ASSUME NEW db, NEW m \in Nat, ShelfOf(db, m), NEW r, r.q \in Sought
  PROVE  ArchiveTimes(db, r) = [i \in DOMAIN db.entries |-> IF i \in Archived(db, r) THEN 1 ELSE 0]
<1>1. ArchiveTimes(db, r) = [i \in DOMAIN db.entries |-> ArchiveCount(db.entries[i], r)]
  BY Zenon DEF ArchiveTimes, ArchiveCount, ArchiveHits, ArchivePasses
<1>2. \A i \in DOMAIN db.entries : ArchiveCount(db.entries[i], r) \in {0, 1}
  <2>. SUFFICES ASSUME NEW i \in DOMAIN db.entries PROVE ArchiveCount(db.entries[i], r) \in {0, 1}
    OBVIOUS
  <2>1. EntryNumbered(db.entries[i], {"party", "identity"})
    BY DEF ShelfOf
  <2>2. ArchiveHits(db.entries[i], r) \in {0, 1}
    BY <2>1, EntryFound, Zenon DEF ArchiveHits
  <2>. QED BY <2>2 DEF ArchiveCount
<1>3. \A i \in DOMAIN db.entries : i \in Archived(db, r) <=> ArchiveCount(db.entries[i], r) = 1
  BY Zenon DEF Archived
<1>. QED BY <1>1, <1>2, <1>3

\* The order of the archive.
ArchiveBy(r)   == IF r.valid /\ r.by = "recent" THEN "updated" ELSE "title"
ArchiveDown(r) == r.valid /\ r.by \in {"recent", "-title"}
ArchiveShown(e, r) == IF r.valid /\ r.by = "recent" THEN e.updated ELSE e.title
Turned(k, down) == IF down THEN 0 - k ELSE k
ArchiveThrough(db, r) == Through(LAMBDA p : Archive(db, [r EXCEPT !.page = p]).list, Archive(db, r).pages)

LEMMA ArchiveKeyed ==
  ASSUME NEW db, NEW m \in Nat, ShelfOf(db, m), NEW r
  PROVE  LET keys == LibraryKeys(db, ArchiveBy(r), ArchiveDown(r)) IN
         /\ Keyed(keys, 2) /\ DOMAIN keys = 1..m
         /\ \A i \in 1..m : keys[i][1] = Turned(ArchiveShown(db.entries[i], r), ArchiveDown(r))
<1>1. PICK down \in BOOLEAN : down <=> ArchiveDown(r)
  OBVIOUS
<1>2. PICK t : t = [i \in 1..m |-> Turned(ArchiveShown(db.entries[i], r), down)]
  OBVIOUS
<1>3. \A i \in 1..m : t[i] \in Int
  BY <1>2 DEF ShelfOf, ArchiveShown, Turned
<1>4. PICK keys : keys = [i \in 1..m |-> <<t[i], i>>]
  OBVIOUS
<1>5. LibraryKeys(db, ArchiveBy(r), ArchiveDown(r)) = keys
  <2>1. \A i \in 1..m : IF ArchiveBy(r) = "title" THEN t[i] = Turned(db.entries[i].title, down)
                        ELSE ArchiveBy(r) = "updated" /\ t[i] = Turned(db.entries[i].updated, down)
    BY <1>2 DEF ArchiveBy, ArchiveShown
  <2>2. LibraryKeys(db, ArchiveBy(r), ArchiveDown(r)) =
          [i \in 1..m |-> IF ArchiveBy(r) = "title" THEN <<Turned(db.entries[i].title, ArchiveDown(r)), i>>
                          ELSE IF ArchiveBy(r) = "updated" THEN <<Turned(db.entries[i].updated, ArchiveDown(r)), i>>
                          ELSE <<Turned(LibraryKey(db.entries[i], ArchiveBy(r)), ArchiveDown(r)), db.entries[i].title, i>>]
    BY Zenon DEF LibraryKeys, Turned, ShelfOf
  <2>3. \A k : Turned(k, ArchiveDown(r)) = Turned(k, down)
    BY <1>1 DEF Turned
  <2>. QED BY <1>4, <2>1, <2>2, <2>3
<1>6. Keyed(keys, 2)
  <2>1. 1..m \in SUBSET (1..m)
    OBVIOUS
  <2>. QED BY <1>3, <1>4, <2>1, TitleKeyed
<1>7. \A i \in 1..m : keys[i][1] = Turned(ArchiveShown(db.entries[i], r), ArchiveDown(r))
  <2>1. \A i \in 1..m : keys[i][1] = t[i]
    BY <1>4
  <2>2. \A k : Turned(k, ArchiveDown(r)) = Turned(k, down)
    BY <1>1 DEF Turned
  <2>. QED BY <1>2, <2>1, <2>2
<1>. QED BY <1>4, <1>5, <1>6, <1>7

\* The archive through all its pages is the entries that are listed, once, in order.
LEMMA ArchivePaged ==
  ASSUME NEW db, NEW m \in Nat, ShelfOf(db, m), NEW r \in ArchiveRequest
  PROVE  ListsRows(LibraryKeys(db, ArchiveBy(r), ArchiveDown(r)), Archived(db, r), ArchiveThrough(db, r))
<1>1. PICK keys : keys = LibraryKeys(db, ArchiveBy(r), ArchiveDown(r))
  OBVIOUS
<1>2. PICK times : times = ArchiveTimes(db, r)
  OBVIOUS
<1>3. PICK K : K = Archived(db, r)
  OBVIOUS
<1>4. DOMAIN db.entries = 1..m
  BY DEF ShelfOf
<1>5. times = [i \in 1..m |-> IF i \in K THEN 1 ELSE 0]
  <2>1. r.q \in Sought
    BY DEF ArchiveRequest
  <2>. QED BY <1>2, <1>3, <1>4, <2>1, ArchiveCounts
<1>6. Keyed(keys, 2) /\ DOMAIN keys = 1..m
  BY <1>1, ArchiveKeyed
<1>7. PICK list : list = Returned(keys, times)
  OBVIOUS
<1>8. ListsRows(keys, K, list)
  BY <1>5, <1>6, <1>7, ReturnedLists
<1>9. PICK S : S = 1..m
  OBVIOUS
<1>10. list \in Seq(S)
  BY <1>6, <1>8, <1>9 DEF ListsRows
<1>11. PageRows \in Nat \ {0}
  BY PageAssumption
<1>12. PICK pages : pages = PagesOf(list, PageRows)
  OBVIOUS
<1>13. PICK n : n = Pages(list, PageRows)
  OBVIOUS
<1>14. Concat(pages) = list /\ pages = [p \in 1..n |-> PageOf(list, PageRows, p)]
  <2>1. Concat(pages) = list
    BY <1>10, <1>11, <1>12, PagesThrough
  <2>2. pages = [p \in 1..n |-> PageOf(list, PageRows, p)]
    BY <1>12, <1>13, Zenon DEF PagesOf
  <2>. QED BY <2>1, <2>2
<1>15. \A s : Archive(db, s).pages = Pages(Returned(LibraryKeys(db, ArchiveBy(s), ArchiveDown(s)), ArchiveTimes(db, s)), PageRows)
           /\ Archive(db, s).list = PageOf(Returned(LibraryKeys(db, ArchiveBy(s), ArchiveDown(s)), ArchiveTimes(db, s)), PageRows, s.page)
  <2>. SUFFICES ASSUME NEW s
                PROVE  /\ Archive(db, s).pages = Pages(Returned(LibraryKeys(db, ArchiveBy(s), ArchiveDown(s)), ArchiveTimes(db, s)), PageRows)
                       /\ Archive(db, s).list = PageOf(Returned(LibraryKeys(db, ArchiveBy(s), ArchiveDown(s)), ArchiveTimes(db, s)), PageRows, s.page)
    BY Zenon
  <2>1. Archive(db, s) = ArchivePage(db, s, Returned(LibraryKeys(db, ArchiveBy(s), ArchiveDown(s)), ArchiveTimes(db, s)))
    BY Zenon DEF Archive, ArchiveBy, ArchiveDown
  <2>2. \A any : ArchivePage(db, s, any).pages = Pages(any, PageRows) /\ ArchivePage(db, s, any).list = PageOf(any, PageRows, s.page)
    BY DEF ArchivePage
  <2>. QED BY <2>1, <2>2, Zenon
<1>16. \A p \in 1..n : Archive(db, [r EXCEPT !.page = p]).list = pages[p]
  <2>. SUFFICES ASSUME NEW p \in 1..n PROVE Archive(db, [r EXCEPT !.page = p]).list = pages[p]
    OBVIOUS
  <2>1. PICK s : s = [r EXCEPT !.page = p]
    OBVIOUS
  <2>2. /\ s.q = r.q /\ s.genre = r.genre /\ s.language = r.language /\ s.status = r.status
        /\ s.managed = r.managed /\ s.source = r.source /\ s.by = r.by /\ s.valid = r.valid /\ s.page = p
    BY <2>1 DEF ArchiveRequest
  <2>3. ArchiveBy(s) = ArchiveBy(r) /\ ArchiveDown(s) = ArchiveDown(r)
    BY <2>2, Zenon DEF ArchiveBy, ArchiveDown
  <2>4. LibraryKeys(db, ArchiveBy(s), ArchiveDown(s)) = keys
    BY <1>1, <2>3, Zenon
  <2>5. ArchiveTimes(db, s) = times
    <3>1. \A e : ArchivePasses(e, s) <=> ArchivePasses(e, r)
      BY <2>2, Zenon DEF ArchivePasses
    <3>2. \A e : ArchiveHits(e, s) = ArchiveHits(e, r)
      BY <2>2, Zenon DEF ArchiveHits
    <3>3. \A e : ArchiveCount(e, s) = ArchiveCount(e, r)
      BY <2>2, <3>1, <3>2 DEF ArchiveCount
    <3>4. Archived(db, s) = K
      BY <1>3, <3>3 DEF Archived
    <3>5. s.q \in Sought
      BY <2>2 DEF ArchiveRequest
    <3>6. ArchiveTimes(db, s) = [i \in DOMAIN db.entries |-> IF i \in Archived(db, s) THEN 1 ELSE 0]
      BY <3>5, ArchiveCounts
    <3>. QED BY <1>4, <1>5, <3>4, <3>6
  <2>6. Archive(db, s).list = PageOf(list, PageRows, p)
    BY <1>7, <1>15, <2>2, <2>4, <2>5
  <2>. QED BY <1>14, <2>1, <2>6
<1>17. ArchiveThrough(db, r) = list
  <2>1. ArchiveThrough(db, r) = Concat([p \in 1..Archive(db, r).pages |-> Archive(db, [r EXCEPT !.page = p]).list])
    BY Zenon DEF ArchiveThrough, Through
  <2>2. Archive(db, r).pages = n
    BY <1>1, <1>2, <1>7, <1>13, <1>15
  <2>3. [p \in 1..n |-> Archive(db, [r EXCEPT !.page = p]).list] = pages
    BY <1>14, <1>16
  <2>. QED BY <1>14, <2>1, <2>2, <2>3
<1>. QED BY <1>1, <1>3, <1>8, <1>17

\* The list of the archive shows what was searched for, once, in the order asked for.
LEMMA ArchiveAgrees ==
  ASSUME NEW db, NEW m \in Nat, ShelfOf(db, m), NEW r \in ArchiveRequest
  PROVE  ArchiveListed(db, r, ArchiveThrough(db, r))
<1>1. PICK keys : keys = LibraryKeys(db, ArchiveBy(r), ArchiveDown(r))
  OBVIOUS
<1>2. PICK list : list = ArchiveThrough(db, r)
  OBVIOUS
<1>3. ListsRows(keys, Archived(db, r), list)
  BY <1>1, <1>2, ArchivePaged
<1>4. /\ Keyed(keys, 2) /\ DOMAIN keys = 1..m
      /\ \A i \in 1..m : keys[i][1] = Turned(ArchiveShown(db.entries[i], r), ArchiveDown(r))
  BY <1>1, ArchiveKeyed
<1>5. DOMAIN db.entries = 1..m
  BY DEF ShelfOf
<1>6. PICK S : S = 1..m
  OBVIOUS
<1>7. list \in Seq(S) /\ Once(list) /\ ToSet(list) = S \cap Archived(db, r)
  BY <1>3, <1>4, <1>6 DEF ListsRows, Once
<1>8. PICK shown : shown = [k \in DOMAIN list |-> ArchiveShown(db.entries[list[k]], r)]
  OBVIOUS
<1>9. Ordered(shown, ArchiveDown(r))
  <2>1. \A k \in DOMAIN list : list[k] \in S
    BY <1>7
  <2>2. \A i \in S : ArchiveShown(db.entries[i], r) \in Int
    BY <1>6 DEF ArchiveShown, ShelfOf
  <2>3. \A h, k \in DOMAIN list : h < k => keys[list[h]][1] <= keys[list[k]][1]
    BY <1>3, <1>4, FirstKeyOrdered
  <2>4. \A k \in DOMAIN list : shown[k] \in Int /\ keys[list[k]][1] = Turned(shown[k], ArchiveDown(r))
    BY <1>4, <1>6, <1>8, <2>1, <2>2
  <2>5. PICK n \in Nat : n = Len(list) /\ DOMAIN list = 1..n /\ Len(shown) = n
    BY <1>7, <1>8
  <2>. SUFFICES ASSUME NEW k \in 1..(n - 1)
                PROVE  IF ArchiveDown(r) THEN shown[k] >= shown[k + 1] ELSE shown[k] <= shown[k + 1]
    BY <2>5, Zenon DEF Ordered
  <2>6. k \in DOMAIN list /\ k + 1 \in DOMAIN list /\ k < k + 1
    BY <2>5
  <2>7. Turned(shown[k], ArchiveDown(r)) <= Turned(shown[k + 1], ArchiveDown(r))
    BY <2>3, <2>4, <2>6
  <2>8. PICK x \in Int, y \in Int : x = shown[k] /\ y = shown[k + 1]
    BY <2>4, <2>6
  <2>. QED BY <2>7, <2>8 DEF Turned
<1>10. PICK says : says = [i \in S |-> EntryTexts(db.entries[i], {"party", "identity"})]
  OBVIOUS
<1>11. PICK alone \in BOOLEAN : alone <=> /\ r.genre = <<>> /\ r.language = "" /\ r.status = ""
                                          /\ r.managed = "" /\ r.source = 0
  OBVIOUS
<1>12. r.q # <<>> /\ r.valid => \A i \in S :
         /\ i \in ToSet(list) => says[i] \cap r.q[1] # {}
         /\ says[i] \cap r.q[1] # {} /\ alone => i \in ToSet(list)
  <2>. SUFFICES ASSUME r.q # <<>>, r.valid, NEW i \in S
                PROVE  /\ i \in ToSet(list) => says[i] \cap r.q[1] # {}
                       /\ says[i] \cap r.q[1] # {} /\ alone => i \in ToSet(list)
    BY Zenon
  <2>1. PICK e : e = db.entries[i]
    OBVIOUS
  <2>2. EntryNumbered(e, {"party", "identity"}) /\ r.q \in Sought
    BY <1>6, <2>1 DEF ShelfOf, ArchiveRequest
  <2>3. ArchiveHits(e, r) = 1 <=> Says(r.q, says[i])
    <3>1. ArchiveHits(e, r) = 1 <=> Says(r.q, EntryTexts(e, {"party", "identity"}))
      BY <2>2, EntryFound, Zenon DEF ArchiveHits
    <3>. QED BY <1>10, <2>1, <3>1
  <2>4. Says(r.q, says[i]) <=> says[i] \cap r.q[1] # {}
    BY DEF Says
  <2>5. i \in ToSet(list) <=> ArchiveCount(e, r) = 1
    BY <1>5, <1>6, <1>7, <2>1 DEF Archived
  <2>6. alone => ArchivePasses(e, r)
    <3>. SUFFICES ASSUME alone PROVE ArchivePasses(e, r)
      OBVIOUS
    <3>1. {r.managed} \ {""} = {}
      BY <1>11, Zenon
    <3>2. Answered({}, e.managed)
      BY Zenon DEF Answered
    <3>. QED BY <1>11, <3>1, <3>2, Zenon DEF ArchivePasses
  <2>. QED BY <2>3, <2>4, <2>5, <2>6 DEF ArchiveCount
<1>13. \A i \in S : says[i] = {db.entries[i].title, db.entries[i].code}
                                \cup UNION {{c.party, c.identity} : c \in ToSet(db.entries[i].credits)}
  <2>1. \A c : {c[x] : x \in {"party", "identity"}} = {c.party, c.identity}
    OBVIOUS
  <2>2. \A C : {{c[x] : x \in {"party", "identity"}} : c \in C} = {{c.party, c.identity} : c \in C}
    <3>. SUFFICES ASSUME NEW C
                  PROVE  {{c[x] : x \in {"party", "identity"}} : c \in C} = {{c.party, c.identity} : c \in C}
      OBVIOUS
    <3>1. PICK f : f = [c \in C |-> {c[x] : x \in {"party", "identity"}}]
      OBVIOUS
    <3>2. f = [c \in C |-> {c.party, c.identity}]
      BY <2>1, <3>1
    <3>3. {f[c] : c \in C} = {{c[x] : x \in {"party", "identity"}} : c \in C}
      BY <3>1, Zenon
    <3>4. {f[c] : c \in C} = {{c.party, c.identity} : c \in C}
      BY <3>2, Zenon
    <3>. QED BY <3>3, <3>4, Zenon
  <2>3. \A i \in S : says[i] = EntryTexts(db.entries[i], {"party", "identity"})
    BY <1>10, Zenon
  <2>. QED BY <2>2, <2>3, Zenon DEF EntryTexts
<1>. QED BY <1>2, <1>5, <1>6, <1>7, <1>8, <1>9, <1>11, <1>12, <1>13, Zenon DEF ArchiveListed, ArchiveShown, ArchiveDown

-----------------------------------------------------------------------------
(* Releases and the workbench.                                             *)

\* Whatever page is asked for, what is on it is in the list.
LEMMA PageWithin ==
  ASSUME NEW S, NEW list \in Seq(S), NEW size \in Nat \ {0}, NEW asked
  PROVE  \A k \in DOMAIN PageOf(list, size, asked) : PageOf(list, size, asked)[k] \in ToSet(list)
<1>1. PICK n \in Nat : n = Pages(list, size) /\ n > 0
  <2>1. PagesFor(Len(list), size, Pages(list, size))
    BY PagesCounted
  <2>. QED BY <2>1 DEF PagesFor
<1>2. PICK p : p = IF asked \in 1..n THEN asked ELSE n
  OBVIOUS
<1>3. p \in 1..n
  BY <1>1, <1>2
<1>4. PageOf(list, size, asked) = PageOf(list, size, p)
  <2>1. \A x : PageOf(list, size, x) =
                 LET here == IF x \in 1..n THEN x ELSE n
                 IN  SubSeq(list, (here - 1) * size + 1, Min({here * size, Len(list)}))
    BY <1>1, Zenon DEF PageOf
  <2>2. (IF p \in 1..n THEN p ELSE n) = p
    BY <1>3
  <2>. QED BY <1>2, <2>1, <2>2, Zenon
<1>5. PICK cut : cut = PageOf(list, size, p)
  OBVIOUS
<1>6. PICK from \in Nat, to \in Nat : to <= Len(list) /\ Extract(S, list, from + 1, to, cut)
  <2>1. (p - 1) * size \in Nat
    BY <1>3
  <2>2. PICK from \in Nat : from = (p - 1) * size
    BY <2>1
  <2>3. \E to \in from..Len(list) : Extract(S, list, from + 1, to, cut)
    BY <1>1, <1>3, <1>5, <2>2, PageCut
  <2>. QED BY <2>3
<1>7. \A k \in DOMAIN cut : cut[k] \in ToSet(list)
  <2>. SUFFICES ASSUME NEW k \in DOMAIN cut PROVE cut[k] \in ToSet(list)
    OBVIOUS
  <2>1. cut \in Seq(S) /\ Len(cut) = to - (from + 1) + 1 /\ \A i \in 1..(to - (from + 1) + 1) : cut[i] = list[from + 1 + i - 1]
    BY <1>6 DEF Extract
  <2>2. k \in 1..(to - (from + 1) + 1)
    BY <2>1
  <2>3. cut[k] = list[from + 1 + k - 1] /\ from + 1 + k - 1 \in 1..Len(list)
    BY <1>6, <2>1, <2>2
  <2>. QED BY <2>3 DEF ToSet
<1>. QED BY <1>4, <1>5, <1>7

\* A recording is of one of five categories, so their numbers add up.
LEMMA CategoryIn ==
  ASSUME NEW claims, NEW local
  PROVE  Category(claims, local) \in Categories
BY Zenon DEF Category, Categories

LEMMA FiveCounts ==
  ASSUME NEW ids, IsFiniteSet(ids), NEW f, \A i \in ids : f[i] \in Categories
  PROVE  LET counted(c) == Cardinality({i \in ids : f[i] = c})
         IN  counted("full") + counted("partial") + counted("not_owned") + counted("unresolved") + counted("disputed")
               = Cardinality(ids)
<1>1. PICK A, B, C, D, E : /\ A = {i \in ids : f[i] = "full"} /\ B = {i \in ids : f[i] = "partial"}
                           /\ C = {i \in ids : f[i] = "not_owned"} /\ D = {i \in ids : f[i] = "unresolved"}
                           /\ E = {i \in ids : f[i] = "disputed"}
  OBVIOUS
<1>2. A \subseteq ids /\ B \subseteq ids /\ C \subseteq ids /\ D \subseteq ids /\ E \subseteq ids
  BY <1>1
<1>3. /\ A \cap B = {} /\ (A \cup B) \cap C = {} /\ (A \cup B \cup C) \cap D = {}
      /\ (A \cup B \cup C \cup D) \cap E = {}
  BY <1>1
<1>4. ids = A \cup B \cup C \cup D \cup E
  BY <1>1 DEF Categories
<1>5. IsFiniteSet(A) /\ IsFiniteSet(B) /\ IsFiniteSet(C) /\ IsFiniteSet(D) /\ IsFiniteSet(E)
  BY <1>2, FS_Subset
<1>6. \A S, T : IsFiniteSet(S) /\ IsFiniteSet(T) /\ S \cap T = {} =>
                  IsFiniteSet(S \cup T) /\ Cardinality(S \cup T) = Cardinality(S) + Cardinality(T)
  <2>. SUFFICES ASSUME NEW S, NEW T, IsFiniteSet(S), IsFiniteSet(T), S \cap T = {}
                PROVE  IsFiniteSet(S \cup T) /\ Cardinality(S \cup T) = Cardinality(S) + Cardinality(T)
    OBVIOUS
  <2>1. /\ IsFiniteSet(S \cup T)
        /\ Cardinality(S \cup T) = Cardinality(S) + Cardinality(T) - Cardinality(S \cap T)
    BY FS_Union
  <2>2. Cardinality(S) \in Nat /\ Cardinality(T) \in Nat /\ Cardinality(S \cap T) = 0
    BY FS_CardinalityType, FS_EmptySet
  <2>. QED BY <2>1, <2>2
<1>7. PICK AB, ABC, ABCD : AB = A \cup B /\ ABC = AB \cup C /\ ABCD = ABC \cup D
  OBVIOUS
<1>8. AB \cap C = {} /\ ABC \cap D = {} /\ ABCD \cap E = {} /\ ids = ABCD \cup E
  BY <1>3, <1>4, <1>7
<1>9. IsFiniteSet(AB) /\ Cardinality(AB) = Cardinality(A) + Cardinality(B)
  BY <1>3, <1>5, <1>6, <1>7
<1>10. IsFiniteSet(ABC) /\ Cardinality(ABC) = Cardinality(AB) + Cardinality(C)
  BY <1>5, <1>6, <1>7, <1>8, <1>9
<1>11. IsFiniteSet(ABCD) /\ Cardinality(ABCD) = Cardinality(ABC) + Cardinality(D)
  BY <1>5, <1>6, <1>7, <1>8, <1>10
<1>12. Cardinality(ids) = Cardinality(ABCD) + Cardinality(E)
  BY <1>5, <1>6, <1>8, <1>11
<1>. QED BY <1>1, <1>9, <1>10, <1>11, <1>12

\* The number of tracks is that of the release, however many rows were joined.
LEMMA TracksCounted ==
  ASSUME NEW release, NEW S, release.tracks \in Seq(S), NEW rows, rows # {}
  PROVE  TrackTotal(release, rows) = Len(release.tracks)
<1>1. PICK m \in Nat : m = Len(release.tracks) /\ DOMAIN release.tracks = 1..m
  OBVIOUS
<1>2. {both[2] : both \in rows \X (1..m)} = 1..m
  <2>1. PICK some : some \in rows
    OBVIOUS
  <2>2. \A k \in 1..m : <<some, k>> \in rows \X (1..m) /\ <<some, k>>[2] = k
    BY <2>1
  <2>3. \A both \in rows \X (1..m) : both[2] \in 1..m
    OBVIOUS
  <2>. QED BY <2>2, <2>3
<1>3. Cardinality(1..m) = m
  BY FS_Interval
<1>. QED BY <1>1, <1>2, <1>3 DEF TrackTotal

\* The rows that are listed by their titles: each once, those that occur.
Rows(titles, times) == Returned([i \in DOMAIN titles |-> <<titles[i], i>>], times)

LEMMA RowsListed ==
  ASSUME NEW m \in Nat, NEW titles \in [1..m -> Int], NEW times, DOMAIN times = 1..m,
         \A i \in 1..m : times[i] = 0 \/ times[i] = 1
  PROVE  /\ ListsRows([i \in 1..m |-> <<titles[i], i>>], {i \in 1..m : times[i] = 1}, Rows(titles, times))
         /\ Rows(titles, times) \in Seq(1..m) /\ Once(Rows(titles, times))
         /\ ToSet(Rows(titles, times)) = {i \in 1..m : times[i] = 1}
         /\ \A h, k \in DOMAIN Rows(titles, times) :
              h < k => titles[Rows(titles, times)[h]] <= titles[Rows(titles, times)[k]]
<1>1. PICK keys : keys = [i \in 1..m |-> <<titles[i], i>>]
  OBVIOUS
<1>2. PICK K : K = {i \in 1..m : times[i] = 1}
  OBVIOUS
<1>3. Keyed(keys, 2) /\ DOMAIN keys = 1..m
  <2>1. 1..m \in SUBSET (1..m)
    OBVIOUS
  <2>. QED BY <1>1, <2>1, TitleKeyed
<1>4. PICK list : list = Returned(keys, times)
  OBVIOUS
<1>5. ListsRows(keys, K, list)
  <2>1. \A i \in DOMAIN keys : times[i] = IF i \in K THEN 1 ELSE 0
    BY <1>2, <1>3
  <2>. QED BY <1>3, <1>4, <2>1, ReturnedLists
<1>6. list = Rows(titles, times)
  BY <1>1, <1>4 DEF Rows
<1>7. PICK S : S = 1..m
  OBVIOUS
<1>8. list \in Seq(S) /\ Once(list) /\ ToSet(list) = K
  BY <1>2, <1>3, <1>5, <1>7 DEF ListsRows, Once
<1>9. \A h, k \in DOMAIN list : h < k => titles[list[h]] <= titles[list[k]]
  <2>1. \A h, k \in DOMAIN list : h < k => keys[list[h]][1] <= keys[list[k]][1]
    BY <1>3, <1>5, FirstKeyOrdered
  <2>2. \A h \in DOMAIN list : list[h] \in 1..m
    BY <1>7, <1>8
  <2>3. \A i \in 1..m : keys[i][1] = titles[i]
    BY <1>1
  <2>. QED BY <2>1, <2>2, <2>3
<1>. QED BY <1>1, <1>2, <1>5, <1>6, <1>7, <1>8, <1>9

\* A list of releases.
ReleaseRows(db, q, wide, i) ==
  LET release == db.releases[i]
      own == {release.title, release.catalogue, release.label}
  IN  Matching(own, IF wide THEN ReleaseTables(db, release) ELSE <<>>, q)
ReleaseTimes(db, q, wide) == [i \in DOMAIN db.releases |-> Occurrences(ReleaseRows(db, q, wide, i))]
ReleaseTitles(db) == [i \in DOMAIN db.releases |-> db.releases[i].title]

\* The releases have titles and tracks.
ReleasesOf(db, m) ==
  /\ DOMAIN db.releases = 1..m
  /\ \A i \in 1..m : db.releases[i].title \in Nat /\ \E S : db.releases[i].tracks \in Seq(S)

\* What the lists of releases show of them.
ReleasesHonest(db, q, wide, asked) ==
  /\ Once(Through(LAMBDA p : Releases(db, q, wide, p).list, Releases(db, q, wide, asked).pages))
  /\ \A n \in DOMAIN Releases(db, q, wide, asked).list :
       LET release == db.releases[Releases(db, q, wide, asked).list[n]]
           s == Releases(db, q, wide, asked).rights[n]
       IN  /\ Releases(db, q, wide, asked).totals[n] = Len(release.tracks)
           /\ s.full + s.partial + s.not_owned + s.unresolved + s.disputed = Cardinality(ToSet(release.tracks))

\* A list of releases shows each once, with the numbers of its tracks.
LEMMA ReleasesAgree ==
  ASSUME NEW db, NEW m \in Nat, ReleasesOf(db, m), NEW q, NEW wide \in BOOLEAN, NEW asked
  PROVE  ReleasesHonest(db, q, wide, asked)
<1>1. PICK titles : titles = ReleaseTitles(db)
  OBVIOUS
<1>2. PICK times : times = ReleaseTimes(db, q, wide)
  OBVIOUS
<1>3. DOMAIN db.releases = 1..m
  BY DEF ReleasesOf
<1>4. titles \in [1..m -> Int]
  BY <1>1, <1>3 DEF ReleaseTitles, ReleasesOf
<1>5. DOMAIN times = 1..m /\ \A i \in 1..m : /\ times[i] = 0 \/ times[i] = 1
                                             /\ times[i] = 1 => ReleaseRows(db, q, wide, i) # {}
  <2>1. \A rows : (Occurrences(rows) = 0 \/ Occurrences(rows) = 1) /\ (Occurrences(rows) = 1 => rows # {})
    BY DEF Occurrences
  <2>2. DOMAIN times = 1..m /\ \A i \in 1..m : times[i] = Occurrences(ReleaseRows(db, q, wide, i))
    BY <1>2, <1>3 DEF ReleaseTimes
  <2>. QED BY <2>1, <2>2, Zenon
<1>6. PICK list : list = Rows(titles, times)
  OBVIOUS
<1>7. list \in Seq(1..m) /\ Once(list) /\ ToSet(list) = {i \in 1..m : times[i] = 1}
  BY <1>4, <1>5, <1>6, RowsListed
<1>8. PICK S : S = 1..m
  OBVIOUS
<1>9. list \in Seq(S)
  BY <1>7, <1>8
<1>10. PageRows \in Nat \ {0}
  BY PageAssumption
<1>11. \A p : LET cut == PageOf(list, PageRows, p) IN
         Releases(db, q, wide, p) =
           [list |-> cut, pages |-> Pages(list, PageRows),
            totals |-> [n \in DOMAIN cut |-> TrackTotal(db.releases[cut[n]], ReleaseRows(db, q, wide, cut[n]))],
            rights |-> [n \in DOMAIN cut |-> RightsSummary(db, db.releases[cut[n]], 2)]]
  <2>1. list = Returned([i \in DOMAIN db.releases |-> <<db.releases[i].title, i>>], times)
    <3>1. [i \in DOMAIN titles |-> <<titles[i], i>>] = [i \in DOMAIN db.releases |-> <<db.releases[i].title, i>>]
      BY <1>1 DEF ReleaseTitles
    <3>. QED BY <1>6, <3>1 DEF Rows
  <2>2. list = Returned([i \in DOMAIN db.releases |-> <<db.releases[i].title, i>>],
                        [i \in DOMAIN db.releases |-> Occurrences(ReleaseRows(db, q, wide, i))])
    BY <1>2, <2>1, Zenon DEF ReleaseTimes
  <2>. QED BY <2>2, Zenon DEF Releases, ReleaseRows
<1>12. Once(Through(LAMBDA p : Releases(db, q, wide, p).list, Releases(db, q, wide, asked).pages))
  <2>1. \A p : Releases(db, q, wide, p).list = PageOf(list, PageRows, p) /\ Releases(db, q, wide, p).pages = Pages(list, PageRows)
    BY <1>11
  <2>2. PICK n : n = Pages(list, PageRows)
    OBVIOUS
  <2>3. [p \in 1..n |-> Releases(db, q, wide, p).list] = PagesOf(list, PageRows)
    BY <2>1, <2>2 DEF PagesOf
  <2>4. Concat(PagesOf(list, PageRows)) = list
    BY <1>9, <1>10, PagesThrough
  <2>5. Releases(db, q, wide, asked).pages = n
    BY <2>1, <2>2
  <2>6. Through(LAMBDA p : Releases(db, q, wide, p).list, n) = list
    BY <2>3, <2>4, Zenon DEF Through
  <2>. QED BY <1>7, <2>5, <2>6, Zenon
<1>13. PICK answer : answer = Releases(db, q, wide, asked)
  OBVIOUS
<1>14. PICK cut : cut = PageOf(list, PageRows, asked)
  OBVIOUS
<1>15. /\ answer.list = cut
       /\ answer.totals = [n \in DOMAIN cut |-> TrackTotal(db.releases[cut[n]], ReleaseRows(db, q, wide, cut[n]))]
       /\ answer.rights = [n \in DOMAIN cut |-> RightsSummary(db, db.releases[cut[n]], 2)]
  BY <1>11, <1>13, <1>14
<1>16. \A n \in DOMAIN cut :
         /\ answer.totals[n] = Len(db.releases[cut[n]].tracks)
         /\ answer.rights[n].full + answer.rights[n].partial + answer.rights[n].not_owned
              + answer.rights[n].unresolved + answer.rights[n].disputed = Cardinality(ToSet(db.releases[cut[n]].tracks))
  <2>. SUFFICES ASSUME NEW n \in DOMAIN cut
                PROVE  /\ answer.totals[n] = Len(db.releases[cut[n]].tracks)
                       /\ answer.rights[n].full + answer.rights[n].partial + answer.rights[n].not_owned
                            + answer.rights[n].unresolved + answer.rights[n].disputed
                            = Cardinality(ToSet(db.releases[cut[n]].tracks))
    OBVIOUS
  <2>1. cut[n] \in ToSet(list)
    BY <1>9, <1>10, <1>14, PageWithin
  <2>2. PICK i \in 1..m : i = cut[n] /\ times[i] = 1
    BY <1>7, <2>1
  <2>3. PICK release : release = db.releases[i]
    OBVIOUS
  <2>4. PICK T : release.tracks \in Seq(T)
    BY <2>3 DEF ReleasesOf
  <2>5. PICK rows : rows = ReleaseRows(db, q, wide, i) /\ rows # {}
    BY <1>5, <2>2
  <2>6. answer.totals[n] = Len(release.tracks)
    BY <1>15, <2>2, <2>3, <2>4, <2>5, TracksCounted
  <2>7. PICK ids : ids = ToSet(release.tracks)
    OBVIOUS
  <2>8. IsFiniteSet(ids)
    <3>1. PICK k \in Nat : DOMAIN release.tracks = 1..k
      BY <2>4
    <3>2. PICK D : D = 1..k
      OBVIOUS
    <3>3. IsFiniteSet(D)
      BY <3>2, FS_Interval
    <3>4. ids = {release.tracks[j] : j \in D}
      BY <2>7, <3>1, <3>2 DEF ToSet
    <3>5. PICK f : f = [j \in D |-> release.tracks[j]]
      OBVIOUS
    <3>6. f \in [D -> ids] /\ \A x \in ids : \E j \in D : f[j] = x
      BY <3>4, <3>5
    <3>7. f \in Surjection(D, ids)
      BY <3>6 DEF Surjection, Range
    <3>. QED BY <3>3, <3>7, FS_Surjection
  <2>9. PICK f : f = OwnershipSummaries(db, ids, db.local, 2)
    OBVIOUS
  <2>10. \A j \in ids : f[j] \in Categories
    BY <2>9, CategoryIn DEF OwnershipSummaries, OwnershipOf
  <2>11. PICK s : s = RightsSummary(db, release, 2)
    OBVIOUS
  <2>12. /\ s.full = Cardinality({j \in ids : f[j] = "full"}) /\ s.partial = Cardinality({j \in ids : f[j] = "partial"})
         /\ s.not_owned = Cardinality({j \in ids : f[j] = "not_owned"})
         /\ s.unresolved = Cardinality({j \in ids : f[j] = "unresolved"})
         /\ s.disputed = Cardinality({j \in ids : f[j] = "disputed"})
    BY <2>7, <2>9, <2>11 DEF RightsSummary
  <2>13. s.full + s.partial + s.not_owned + s.unresolved + s.disputed = Cardinality(ids)
    BY <2>8, <2>10, <2>12, FiveCounts
  <2>14. answer.rights[n] = s
    BY <1>15, <2>2, <2>3, <2>11
  <2>. QED BY <2>2, <2>3, <2>6, <2>7, <2>13, <2>14
<1>17. \A n \in DOMAIN answer.list :
         LET release == db.releases[answer.list[n]]
             s == answer.rights[n]
         IN  /\ answer.totals[n] = Len(release.tracks)
             /\ s.full + s.partial + s.not_owned + s.unresolved + s.disputed = Cardinality(ToSet(release.tracks))
  BY <1>15, <1>16
<1>. QED BY <1>12, <1>13, <1>17, Zenon DEF ReleasesHonest

\* WorkbenchHonest, of a call.
WorkbenchOf(c) ==
  /\ c.kind = "archive" =>
       ArchiveListed(c.db, c.request, Concat([p \in 1..c.answer.pages |-> Archive(c.db, [c.request EXCEPT !.page = p]).list]))
  /\ c.kind = "releases" =>
       /\ Once(Concat([p \in 1..c.answer.pages |-> Releases(c.db, c.q, c.wide, p).list]))
       /\ \A n \in DOMAIN c.answer.list :
            LET release == c.db.releases[c.answer.list[n]]
                s == c.answer.rights[n]
            IN  /\ c.answer.totals[n] = Len(release.tracks)
                /\ s.full + s.partial + s.not_owned + s.unresolved + s.disputed = Cardinality(ToSet(release.tracks))

LEMMA WorkbenchCalled ==
  (WorkbenchHonest <=> WorkbenchOf(call)) /\ (WorkbenchHonest' <=> WorkbenchOf(call'))
BY Zenon DEF WorkbenchHonest, WorkbenchOf, Through

\* What the two release_list show (ListReleases).
LEMMA ReleasesShown ==
  ASSUME NEW d, DeskOf(d), NEW wide \in BOOLEAN, ListReleases(d, wide)
  PROVE  call'.kind = "releases" /\ WorkbenchHonest'
<1>1. PICK db, r : db = d.db /\ r = d.request
  OBVIOUS
<1>2. /\ d.of = "releases" /\ call'.kind = "releases" /\ call'.db = db /\ call'.wide = wide /\ call'.q = r.q
      /\ call'.answer = Releases(db, r.q, wide, r.page)
  BY <1>1 DEF ListReleases
<1>3. PICK columns : columns = {"title", "catalogue", "label"}
  OBVIOUS
<1>4. TableOf(db.releases, columns)
      /\ \A release \in Range(db.releases) : release.tracks \in Seq(DOMAIN db.entries)
  BY <1>1, <1>2, <1>3, Zenon DEF DeskOf
<1>5. PICK m \in Nat : /\ DOMAIN db.releases = 1..m /\ Range(db.releases) = {db.releases[i] : i \in 1..m}
                       /\ \A i \in 1..m : \A c \in columns : db.releases[i][c] \in Nat
  BY <1>4, TableRows
<1>6. ReleasesOf(db, m)
  <2>1. \A i \in 1..m : db.releases[i].title \in Nat
    BY <1>3, <1>5
  <2>2. \A i \in 1..m : db.releases[i].tracks \in Seq(DOMAIN db.entries)
    BY <1>4, <1>5
  <2>. QED BY <1>5, <2>1, <2>2, Zenon DEF ReleasesOf
<1>7. ReleasesHonest(db, r.q, wide, r.page)
  BY <1>6, ReleasesAgree
<1>8. WorkbenchOf(call')
  BY <1>2, <1>7, Zenon DEF WorkbenchOf, ReleasesHonest, Through
<1>. QED BY <1>2, <1>8, WorkbenchCalled, Zenon

\* What library_list shows (ListArchive).
LEMMA ArchiveOnWorkbench ==
  ASSUME NEW d, DeskOf(d), ListArchive(d)
  PROVE  WorkbenchHonest'
<1>1. PICK db, r : db = d.db /\ r = d.request
  OBVIOUS
<1>2. d.of = "archive" /\ call'.kind = "archive" /\ call'.db = db /\ call'.request = r
      /\ call'.answer = Archive(db, r)
  BY <1>1 DEF ListArchive
<1>3. r \in ArchiveRequest /\ Shelf(db.entries)
  BY <1>1, <1>2, Zenon DEF DeskOf
<1>4. PICK m \in Nat : ShelfOf(db, m)
  BY <1>3, ShelfRows
<1>5. ArchiveListed(db, r, ArchiveThrough(db, r))
  BY <1>3, <1>4, ArchiveAgrees
<1>6. call'.kind # "releases"
  BY <1>2
<1>7. WorkbenchOf(call')
  BY <1>2, <1>5, <1>6, Zenon DEF WorkbenchOf, ArchiveThrough, Through
<1>. QED BY <1>7, WorkbenchCalled, Zenon

-----------------------------------------------------------------------------
(* The searches of the desk.                                               *)

\* A list with each of its elements once has as many as there are of them.
LEMMA OnceCounted ==
  ASSUME NEW S, NEW list \in Seq(S), Once(list)
  PROVE  IsFiniteSet(ToSet(list)) /\ Cardinality(ToSet(list)) = Len(list)
<1>1. PICK n \in Nat : n = Len(list) /\ DOMAIN list = 1..n
  OBVIOUS
<1>2. PICK D, T : D = 1..n /\ T = ToSet(list)
  OBVIOUS
<1>3. T = {list[i] : i \in D}
  BY <1>1, <1>2 DEF ToSet
<1>4. PICK f : f = [i \in D |-> list[i]]
  OBVIOUS
<1>5. f \in [D -> T]
  BY <1>3, <1>4
<1>6. \A i, j \in D : f[i] = f[j] => i = j
  BY <1>1, <1>2, <1>4 DEF Once
<1>7. \A t \in T : \E i \in D : f[i] = t
  BY <1>3, <1>4
<1>8. f \in Bijection(D, T)
  <2>1. f \in Injection(D, T)
    BY <1>5, <1>6 DEF Injection, IsInjective
  <2>2. f \in Surjection(D, T)
    BY <1>5, <1>7 DEF Surjection, Range
  <2>. QED BY <2>1, <2>2 DEF Bijection
<1>9. ExistsBijection(D, T)
  BY <1>8 DEF ExistsBijection
<1>10. IsFiniteSet(D) /\ Cardinality(D) = n
  BY <1>2, FS_Interval
<1>. QED BY <1>1, <1>2, <1>9, <1>10, FS_Bijection

\* The first of the rows, in the order of their titles.
ForemostOf(list, titles, all) ==
  /\ Once(list) /\ ToSet(list) \subseteq all /\ Len(list) = Min({Hits, Cardinality(all)})
  /\ \A i \in ToSet(list), j \in all \ ToSet(list) : titles[i] <= titles[j]

LEMMA ForemostRows ==
  ASSUME NEW m \in Nat, NEW titles \in [1..m -> Int], NEW times, DOMAIN times = 1..m,
         \A i \in 1..m : times[i] = 0 \/ times[i] = 1
  PROVE  ForemostOf(Foremost(Rows(titles, times)), titles, {i \in 1..m : times[i] = 1})
<1>1. PICK S, all, list : S = 1..m /\ all = {i \in 1..m : times[i] = 1} /\ list = Rows(titles, times)
  OBVIOUS
<1>2. /\ list \in Seq(1..m) /\ Once(list) /\ ToSet(list) = all
      /\ \A h, k \in DOMAIN list : h < k => titles[list[h]] <= titles[list[k]]
  BY <1>1, RowsListed
<1>3. list \in Seq(S)
  BY <1>1, <1>2
<1>4. PICK l \in Nat : l = Len(list) /\ DOMAIN list = 1..l
  BY <1>3
<1>5. Cardinality(all) = l
  BY <1>2, <1>3, <1>4, OnceCounted
<1>6. PICK n \in 0..l, part \in Seq(S) : /\ n = (IF l <= Hits THEN l ELSE Hits) /\ part = Foremost(list)
                                        /\ Extract(S, list, 1, n, part)
  <2>1. PICK n, part : n = Min({Len(list), Hits}) /\ part = Foremost(list)
    OBVIOUS
  <2>2. n \in 0..Len(list) /\ n = (IF Len(list) <= Hits THEN Len(list) ELSE Hits) /\ Extract(S, list, 1, n, part)
    BY <1>3, <2>1, ForemostCut
  <2>3. part \in Seq(S)
    BY <2>2 DEF Extract
  <2>. QED BY <1>4, <2>1, <2>2, <2>3
<1>7. Hits \in Nat
  BY HitsAssumption
<1>8. n = Min({Hits, Cardinality(all)})
  <2>1. Min({Hits, l}) = IF Hits <= l THEN Hits ELSE l
    BY <1>7, LesserOfTwo
  <2>. QED BY <1>5, <1>6, <1>7, <2>1
<1>9. part \in Seq(S) /\ Len(part) = n /\ DOMAIN part = 1..n /\ \A i \in 1..n : part[i] = list[i]
  <2>1. part \in Seq(S) /\ Len(part) = n - 1 + 1 /\ \A i \in 1..(n - 1 + 1) : part[i] = list[1 + i - 1]
    BY <1>6 DEF Extract
  <2>2. n - 1 + 1 = n /\ \A i \in 1..n : 1 + i - 1 = i
    OBVIOUS
  <2>3. DOMAIN part = 1..n
    BY <2>1, <2>2
  <2>4. \A i \in 1..n : part[i] = list[1 + i - 1]
    BY <2>1, <2>2
  <2>5. \A i \in 1..n : part[i] = list[i]
    <3>. SUFFICES ASSUME NEW i \in 1..n PROVE part[i] = list[i]
      OBVIOUS
    <3>1. part[i] = list[1 + i - 1]
      BY <2>4, Zenon
    <3>2. 1 + i - 1 = i
      OBVIOUS
    <3>. QED BY <3>1, <3>2, Zenon
  <2>. QED BY <2>1, <2>2, <2>3, <2>5
<1>10. Once(part)
  <2>. SUFFICES ASSUME NEW i \in 1..n, NEW j \in 1..n, part[i] = part[j] PROVE i = j
    BY <1>9, Zenon DEF Once
  <2>1. list[i] = list[j]
    BY <1>9, Zenon
  <2>2. i \in DOMAIN list /\ j \in DOMAIN list
    BY <1>4
  <2>. QED BY <1>2, <2>1, <2>2, Zenon DEF Once
<1>11. \A i : i \in ToSet(part) <=> \E h \in 1..n : list[h] = i
  BY <1>9 DEF ToSet
<1>12. \A i : i \in all <=> \E h \in 1..l : list[h] = i
  BY <1>2, <1>4 DEF ToSet
<1>13. ToSet(part) \subseteq all
  BY <1>11, <1>12
<1>14. \A i \in ToSet(part), j \in all \ ToSet(part) : titles[i] <= titles[j]
  <2>. SUFFICES ASSUME NEW i \in ToSet(part), NEW j \in all \ ToSet(part) PROVE titles[i] <= titles[j]
    OBVIOUS
  <2>1. PICK h \in 1..n : list[h] = i
    BY <1>11
  <2>2. PICK k \in 1..l : list[k] = j
    BY <1>12
  <2>3. ~(k \in 1..n)
    BY <1>11, <2>2
  <2>4. h < k /\ h \in 1..l
    BY <2>3
  <2>. QED BY <1>2, <1>4, <2>1, <2>2, <2>4
<1>15. ForemostOf(part, titles, all)
  BY <1>8, <1>9, <1>10, <1>13, <1>14 DEF ForemostOf
<1>. QED BY <1>1, <1>6, <1>15

\* A list on all its pages is each row once.
LEMMA PagedRows ==
  ASSUME NEW m \in Nat, NEW titles \in [1..m -> Int], NEW times, DOMAIN times = 1..m,
         \A i \in 1..m : times[i] = 0 \/ times[i] = 1
  PROVE  LET list == Rows(titles, times)
             through == Concat([p \in 1..Pages(list, PageRows) |-> PageOf(list, PageRows, p)])
         IN  Once(through) /\ ToSet(through) = {i \in 1..m : times[i] = 1}
<1>1. PICK S, list : S = 1..m /\ list = Rows(titles, times)
  OBVIOUS
<1>2. list \in Seq(S) /\ Once(list) /\ ToSet(list) = {i \in 1..m : times[i] = 1}
  BY <1>1, RowsListed
<1>3. PageRows \in Nat \ {0}
  BY PageAssumption
<1>4. Concat(PagesOf(list, PageRows)) = list
  BY <1>2, <1>3, PagesThrough
<1>. QED BY <1>1, <1>2, <1>4 DEF PagesOf

\* Recordings by their texts (recording_search).
EntrySearch(db, q, columns) ==
  FoundRows(db.entries, q, LAMBDA e : {e.title}, LAMBDA e : <<Code(e), CreditTable(e, columns)>>, LAMBDA e : e.title)

LEMMA EntriesFound ==
  ASSUME NEW db, NEW m \in Nat, ShelfOf(db, m), NEW q \in Sought,
         NEW columns \in SUBSET {"party", "identity", "credited"}
  PROVE  ForemostOf(Foremost(EntrySearch(db, q, columns)), [i \in 1..m |-> db.entries[i].title],
                    {i \in 1..m : Says(q, EntryTexts(db.entries[i], columns))})
<1>1. DOMAIN db.entries = 1..m /\ \A i \in 1..m : EntryNumbered(db.entries[i], columns)
  BY DEF ShelfOf
<1>2. PICK titles : titles = [i \in 1..m |-> db.entries[i].title]
  OBVIOUS
<1>3. titles \in [1..m -> Int]
  BY <1>2 DEF ShelfOf
<1>4. PICK times : times = [i \in 1..m |-> Occurrences(Matching({db.entries[i].title},
                              <<Code(db.entries[i]), CreditTable(db.entries[i], columns)>>, q))]
  OBVIOUS
<1>5. \A i \in 1..m : times[i] \in {0, 1} /\ (times[i] = 1 <=> Says(q, EntryTexts(db.entries[i], columns)))
  <2>. SUFFICES ASSUME NEW i \in 1..m
                PROVE  times[i] \in {0, 1} /\ (times[i] = 1 <=> Says(q, EntryTexts(db.entries[i], columns)))
    OBVIOUS
  <2>1. times[i] = Occurrences(Matching({db.entries[i].title},
                                        <<Code(db.entries[i]), CreditTable(db.entries[i], columns)>>, q))
    BY <1>4
  <2>. QED BY <1>1, <2>1, EntryFound, Zenon
<1>6. EntrySearch(db, q, columns) = Rows(titles, times)
  <2>1. [i \in DOMAIN titles |-> <<titles[i], i>>] = [i \in DOMAIN db.entries |-> <<db.entries[i].title, i>>]
    BY <1>1, <1>2
  <2>2. times = [i \in DOMAIN db.entries |-> Occurrences(Matching({db.entries[i].title},
                              <<Code(db.entries[i]), CreditTable(db.entries[i], columns)>>, q))]
    BY <1>1, <1>4, Zenon
  <2>. QED BY <2>1, <2>2, Zenon DEF Rows, EntrySearch, FoundRows
<1>7. {i \in 1..m : times[i] = 1} = {i \in 1..m : Says(q, EntryTexts(db.entries[i], columns))}
  <2>1. \A i : i \in {k \in 1..m : times[k] = 1} <=> i \in {k \in 1..m : Says(q, EntryTexts(db.entries[k], columns))}
    BY <1>5, Zenon
  <2>. QED BY <2>1, Zenon
<1>8. ForemostOf(Foremost(Rows(titles, times)), titles, {i \in 1..m : times[i] = 1})
  <2>1. DOMAIN times = 1..m /\ \A i \in 1..m : times[i] = 0 \/ times[i] = 1
    BY <1>4, <1>5
  <2>. QED BY <1>3, <2>1, ForemostRows
<1>. QED BY <1>2, <1>6, <1>7, <1>8, Zenon

\* The people, the artists and the files of a search.
SearchOfTables(db, n, k) ==
  /\ DOMAIN db.parties = 1..n /\ db.artists \in Seq(Range(db.artists)) /\ Len(db.artists) = k
  /\ DOMAIN db.artists = 1..k /\ Range(db.artists) = {db.artists[a] : a \in 1..k}
  /\ \A p \in 1..n : db.parties[p].id = p /\ db.parties[p].name \in Nat
  /\ \A a \in 1..k : db.artists[a].name \in Nat /\ db.artists[a].party \in 1..n

\* The artists of a party.
LEMMA IdentityCells ==
  ASSUME NEW db, NEW n \in Nat, NEW k \in Nat, SearchOfTables(db, n, k), NEW p \in 1..n
  PROVE  /\ IdentityTable(db, db.parties[p]) \in Seq(SUBSET Nat)
         /\ \A a \in 1..k : db.artists[a].party = p => {db.artists[a].name} \in ToSet(IdentityTable(db, db.parties[p]))
<1>1. PICK R, artists : R = Range(db.artists) /\ artists = db.artists
  OBVIOUS
<1>2. /\ artists \in Seq(R) /\ DOMAIN artists = 1..k /\ R = {artists[a] : a \in 1..k}
      /\ \A a \in 1..k : artists[a].name \in Nat /\ artists[a].party \in 1..n
      /\ db.parties[p].id = p
  BY <1>1 DEF SearchOfTables
<1>3. PICK K : K = {a \in R : a.party = p}
  OBVIOUS
<1>4. PICK seqs : seqs = [i \in DOMAIN artists |-> If(artists[i].party = p, <<artists[i]>>)]
  OBVIOUS
<1>5. Singly(artists, K, seqs)
  <2>1. \A i \in DOMAIN artists : artists[i].party = p <=> artists[i] \in K
    BY <1>2, <1>3
  <2>2. \A i \in DOMAIN artists : seqs[i] = IF artists[i] \in K THEN <<artists[i]>> ELSE <<>>
    BY <1>4, <2>1, Zenon DEF If
  <2>3. seqs = [i \in DOMAIN artists |-> seqs[i]]
    BY <1>4
  <2>. QED BY <2>2, <2>3, Zenon DEF Singly
<1>6. PICK own : own = Concat(seqs)
  OBVIOUS
<1>7. own \in Seq(R \cap K) /\ ToSet(own) = ToSet(artists) \cap K
  <2>1. PICK any : any = {pair \in R \X R : TRUE}
    OBVIOUS
  <2>2. Chain(artists, any)
    <3>1. \A h \in DOMAIN artists : artists[h] \in R
      BY <1>2
    <3>. QED BY <2>1, <3>1 DEF Chain
  <2>. QED BY <1>2, <1>5, <1>6, <2>2, PassedKeepsOrder
<1>8. Filtered(db.artists, LAMBDA a : a.party = db.parties[p].id) = own
  BY <1>1, <1>2, <1>4, <1>6, Zenon DEF Filtered
<1>9. PICK table : table = [i \in DOMAIN own |-> {own[i].name}]
  OBVIOUS
<1>10. IdentityTable(db, db.parties[p]) = table
  BY <1>8, <1>9, Zenon DEF IdentityTable
<1>11. own \in Seq(R)
  <2>1. PICK L : L = R \cap K
    OBVIOUS
  <2>2. own \in Seq(L) /\ L \subseteq R
    BY <1>7, <2>1
  <2>. QED BY <2>2, WiderSeq
<1>12. PICK l \in Nat : DOMAIN own = 1..l /\ \A i \in 1..l : own[i] \in R
  BY <1>11
<1>13. table \in Seq(SUBSET Nat)
  <2>1. \A r \in R : {r.name} \in SUBSET Nat
    BY <1>2
  <2>2. \A i \in 1..l : table[i] \in SUBSET Nat
    BY <1>9, <1>12, <2>1
  <2>3. table = [i \in 1..l |-> table[i]]
    BY <1>9, <1>12
  <2>4. PICK W : W = SUBSET Nat
    OBVIOUS
  <2>5. table \in Seq(W)
    BY <2>2, <2>3, <2>4
  <2>. QED BY <2>4, <2>5
<1>14. \A a \in 1..k : artists[a].party = p => {artists[a].name} \in ToSet(table)
  <2>. SUFFICES ASSUME NEW a \in 1..k, artists[a].party = p PROVE {artists[a].name} \in ToSet(table)
    OBVIOUS
  <2>1. artists[a] \in ToSet(artists) \cap K
    BY <1>2, <1>3 DEF ToSet
  <2>2. PICK i \in DOMAIN own : own[i] = artists[a]
    BY <1>7, <2>1 DEF ToSet
  <2>3. table[i] = {artists[a].name}
    BY <1>9, <2>2
  <2>. QED BY <1>9, <2>2, <2>3 DEF ToSet
<1>. QED BY <1>1, <1>10, <1>13, <1>14

-----------------------------------------------------------------------------
(* Tasks that wait.                                                        *)

\* The rows of a status, in their order.
InStatus(rows, status) == Filtered([d \in DOMAIN rows |-> d], LAMBDA d : rows[d] = status)

LEMMA InStatusOnce ==
  ASSUME NEW rows \in Seq(STRING), NEW status
  PROVE  /\ InStatus(rows, status) \in Seq(Nat) /\ Once(InStatus(rows, status))
         /\ ToSet(InStatus(rows, status)) = {d \in DOMAIN rows : rows[d] = status}
<1>1. PICK n \in Nat : DOMAIN rows = 1..n
  OBVIOUS
<1>2. PICK list : list = [d \in DOMAIN rows |-> d]
  OBVIOUS
<1>3. list \in Seq(Nat) /\ DOMAIN list = 1..n /\ \A d \in 1..n : list[d] = d
  <2>1. list = [d \in 1..n |-> d]
    BY <1>1, <1>2
  <2>. QED BY <2>1
<1>4. PICK K : K = {d \in 1..n : rows[d] = status}
  OBVIOUS
<1>5. PICK seqs : seqs = [i \in DOMAIN list |-> If(rows[list[i]] = status, <<list[i]>>)]
  OBVIOUS
<1>6. Singly(list, K, seqs)
  <2>1. \A i \in DOMAIN list : rows[list[i]] = status <=> list[i] \in K
    BY <1>3, <1>4
  <2>2. \A i \in DOMAIN list : seqs[i] = IF list[i] \in K THEN <<list[i]>> ELSE <<>>
    BY <1>5, <2>1, Zenon DEF If
  <2>3. seqs = [i \in DOMAIN list |-> seqs[i]]
    BY <1>5
  <2>. QED BY <2>2, <2>3, Zenon DEF Singly
<1>7. PICK R : R = {pair \in Nat \X Nat : pair[1] < pair[2]}
  OBVIOUS
<1>8. Chain(list, R)
  BY <1>3, <1>7 DEF Chain
<1>9. PICK out : out = Concat(seqs)
  OBVIOUS
<1>10. out \in Seq(Nat \cap K) /\ Chain(out, R) /\ ToSet(out) = ToSet(list) \cap K
  BY <1>3, <1>6, <1>8, <1>9, PassedKeepsOrder
<1>11. InStatus(rows, status) = out
  BY <1>2, <1>5, <1>9, Zenon DEF InStatus, Filtered
<1>12. out \in Seq(Nat)
  <2>1. PICK L, N : L = Nat \cap K /\ N = Nat
    OBVIOUS
  <2>2. out \in Seq(L) /\ L \subseteq N
    BY <1>10, <2>1
  <2>3. out \in Seq(N)
    BY <2>2, WiderSeq
  <2>. QED BY <2>1, <2>3
<1>13. Once(out)
  <2>1. DOMAIN out = 1..Len(out) /\ Len(out) \in Nat
    BY <1>12
  <2>. SUFFICES ASSUME NEW h \in DOMAIN out, NEW k \in DOMAIN out, out[h] = out[k] PROVE h = k
    BY Zenon DEF Once
  <2>2. \A i, j \in DOMAIN out : i < j => out[i] < out[j]
    BY <1>7, <1>10 DEF Chain
  <2>3. out[h] \in Nat /\ out[k] \in Nat
    BY <1>12
  <2>4. ~(h < k) /\ ~(k < h)
    BY <2>2, <2>3
  <2>. QED BY <2>1, <2>4
<1>14. ToSet(list) = 1..n
  BY <1>3 DEF ToSet
<1>15. ToSet(out) = {d \in DOMAIN rows : rows[d] = status}
  BY <1>1, <1>4, <1>10, <1>14
<1>. QED BY <1>11, <1>12, <1>13, <1>15

\* The first rows of a list that has each once.
LEMMA ForemostOnce ==
  ASSUME NEW S, NEW list \in Seq(S), Once(list)
  PROVE  /\ Once(Foremost(list)) /\ ToSet(Foremost(list)) \subseteq ToSet(list)
         /\ Len(Foremost(list)) = Min({Hits, Len(list)})
<1>1. PICK l \in Nat : l = Len(list) /\ DOMAIN list = 1..l
  OBVIOUS
<1>2. PICK n, part : n = Min({Len(list), Hits}) /\ part = Foremost(list)
  OBVIOUS
<1>3. n \in 0..l /\ n = (IF l <= Hits THEN l ELSE Hits) /\ Extract(S, list, 1, n, part)
  BY <1>1, <1>2, ForemostCut
<1>4. part \in Seq(S) /\ Len(part) = n - 1 + 1 /\ \A i \in 1..(n - 1 + 1) : part[i] = list[1 + i - 1]
  BY <1>3 DEF Extract
<1>5. n - 1 + 1 = n /\ \A i \in 1..n : 1 + i - 1 = i
  BY <1>3
<1>6. DOMAIN part = 1..n /\ Len(part) = n
  BY <1>4, <1>5
<1>7. \A i \in 1..n : part[i] = list[i]
  <2>. SUFFICES ASSUME NEW i \in 1..n PROVE part[i] = list[i]
    OBVIOUS
  <2>1. part[i] = list[1 + i - 1]
    BY <1>4, <1>5, Zenon
  <2>2. 1 + i - 1 = i
    BY <1>5
  <2>. QED BY <2>1, <2>2, Zenon
<1>8. \A i \in 1..n : i \in DOMAIN list
  BY <1>1, <1>3
<1>9. Once(part)
  <2>. SUFFICES ASSUME NEW i \in 1..n, NEW j \in 1..n, part[i] = part[j] PROVE i = j
    BY <1>6, Zenon DEF Once
  <2>1. list[i] = list[j]
    BY <1>7, Zenon
  <2>. QED BY <1>8, <2>1, Zenon DEF Once
<1>10. ToSet(part) \subseteq ToSet(list)
  BY <1>6, <1>7, <1>8 DEF ToSet
<1>11. Min({Hits, l}) = n
  <2>1. Hits \in Nat
    BY HitsAssumption
  <2>2. Min({Hits, l}) = IF Hits <= l THEN Hits ELSE l
    BY <2>1, LesserOfTwo
  <2>. QED BY <1>1, <1>3, <2>1, <2>2
<1>. QED BY <1>1, <1>2, <1>6, <1>9, <1>10, <1>11

\* What is waiting, as home counts it and as control lists it.
TasksOf(c) ==
  c.kind = "tasks" =>
    \A t \in c.tasks : t.tab # "managed" =>
      /\ c.control[t.tab].code = 200
      /\ LET shown == Tab(c.control[t.tab], t.tab)
         IN  /\ Once(shown) /\ Len(shown) = Min({Hits, t.count})
             /\ "assertions" \in c.may =>
                  ToSet(c.control["konflikter"].assertions) \cap ToSet(c.control["uverifisert"].assertions) = {}
Waits(shown, count) == Once(shown) /\ Len(shown) = Min({Hits, count})

LEMMA TasksWait ==
  ASSUME NEW d, DeskOf(d), ListTasks(d)
  PROVE  call'.kind = "tasks" /\ TasksOf(call')
<1>1. PICK db, may : db = d.db /\ may = d.request.may
  OBVIOUS
<1>2. /\ d.of = "tasks" /\ call'.kind = "tasks" /\ call'.may = may /\ call'.tasks = Home(db, may)
      /\ \A t \in {"dubletter", "uverifisert", "konflikter", "other"} : call'.control[t] = Control(db, may, t)
  BY <1>1 DEF ListTasks
<1>3. db.duplicates \in Seq(STRING) /\ db.assertions \in Seq(STRING)
  BY <1>1, <1>2, Zenon DEF DeskOf
<1>4. OpenCases(db) = InStatus(db.duplicates, "open")
      /\ Waiting(db, "unverified") = InStatus(db.assertions, "unverified")
      /\ Waiting(db, "disputed") = InStatus(db.assertions, "disputed")
  BY Zenon DEF OpenCases, Waiting, InStatus, Filtered
<1>5. PICK N : N = Nat
  OBVIOUS
<1>6. OpenCases(db) \in Seq(N) /\ Once(OpenCases(db))
  BY <1>3, <1>4, <1>5, InStatusOnce
<1>7. \A status \in {"unverified", "disputed"} :
        /\ Waiting(db, status) \in Seq(N) /\ Once(Waiting(db, status))
        /\ ToSet(Waiting(db, status)) = {a \in DOMAIN db.assertions : db.assertions[a] = status}
  <2>. SUFFICES ASSUME NEW status \in {"unverified", "disputed"}
                PROVE  /\ Waiting(db, status) \in Seq(N) /\ Once(Waiting(db, status))
                       /\ ToSet(Waiting(db, status)) = {a \in DOMAIN db.assertions : db.assertions[a] = status}
    OBVIOUS
  <2>1. Waiting(db, status) = InStatus(db.assertions, status)
    BY <1>4
  <2>. QED BY <1>3, <1>5, <2>1, InStatusOnce
<1>8. Waits(Foremost(OpenCases(db)), Len(OpenCases(db)))
  BY <1>6, ForemostOnce DEF Waits
<1>9. \A status \in {"unverified", "disputed"} :
        /\ Waits(Foremost(Waiting(db, status)), Len(Waiting(db, status)))
        /\ ToSet(Foremost(Waiting(db, status))) \subseteq {a \in DOMAIN db.assertions : db.assertions[a] = status}
  <2>. SUFFICES ASSUME NEW status \in {"unverified", "disputed"}
                PROVE  /\ Waits(Foremost(Waiting(db, status)), Len(Waiting(db, status)))
                       /\ ToSet(Foremost(Waiting(db, status))) \subseteq {a \in DOMAIN db.assertions : db.assertions[a] = status}
    OBVIOUS
  <2>1. PICK list : list = Waiting(db, status)
    OBVIOUS
  <2>2. list \in Seq(N) /\ Once(list) /\ ToSet(list) = {a \in DOMAIN db.assertions : db.assertions[a] = status}
    BY <1>7, <2>1
  <2>. QED BY <2>1, <2>2, ForemostOnce DEF Waits
<1>10. "assertions" \in may =>
         ToSet(Control(db, may, "konflikter").assertions) \cap ToSet(Control(db, may, "uverifisert").assertions) = {}
  <2>. SUFFICES ASSUME "assertions" \in may
                PROVE  ToSet(Control(db, may, "konflikter").assertions)
                         \cap ToSet(Control(db, may, "uverifisert").assertions) = {}
    OBVIOUS
  <2>1. "assertions" \in may \cap {"duplicates", "assertions", "maintenance"}
    OBVIOUS
  <2>2. /\ Control(db, may, "konflikter").assertions = Foremost(Waiting(db, "disputed"))
        /\ Control(db, may, "uverifisert").assertions = Foremost(Waiting(db, "unverified"))
    BY <2>1 DEF Control
  <2>3. \A a : ~(a \in ToSet(Foremost(Waiting(db, "disputed"))) /\ a \in ToSet(Foremost(Waiting(db, "unverified"))))
    BY <1>9
  <2>. QED BY <2>2, <2>3
<1>11. \A t \in Home(db, may) : t.tab # "managed" =>
         /\ t.tab \in {"dubletter", "uverifisert", "konflikter"} /\ Control(db, may, t.tab).code = 200
         /\ Waits(Tab(Control(db, may, t.tab), t.tab), t.count)
  <2>. SUFFICES ASSUME NEW t \in Home(db, may), t.tab # "managed"
                PROVE  /\ t.tab \in {"dubletter", "uverifisert", "konflikter"} /\ Control(db, may, t.tab).code = 200
                       /\ Waits(Tab(Control(db, may, t.tab), t.tab), t.count)
    OBVIOUS
  <2>1. PICK managed : managed = MapThenSumSet(LAMBDA i : Len(Filtered(db.entries[i].claims,
                                         LAMBDA c : c.status \in {"unverified", "disputed"})), DOMAIN db.entries)
    OBVIOUS
  <2>2. Home(db, may) =
          (IF "duplicates" \in may THEN {[tab |-> "dubletter", count |-> Len(OpenCases(db))]} ELSE {})
          \cup (IF "assertions" \in may
                THEN {[tab |-> "uverifisert", count |-> Len(Waiting(db, "unverified"))],
                      [tab |-> "konflikter", count |-> Len(Waiting(db, "disputed"))]}
                ELSE {})
          \cup (IF "claims" \in may THEN {[tab |-> "managed", count |-> managed]} ELSE {})
    BY <2>1, Zenon DEF Home
  <2>3. \/ "duplicates" \in may /\ t.tab = "dubletter" /\ t.count = Len(OpenCases(db))
        \/ "assertions" \in may /\ t.tab = "uverifisert" /\ t.count = Len(Waiting(db, "unverified"))
        \/ "assertions" \in may /\ t.tab = "konflikter" /\ t.count = Len(Waiting(db, "disputed"))
    BY <2>2
  <2>4. CASE "duplicates" \in may /\ t.tab = "dubletter" /\ t.count = Len(OpenCases(db))
    <3>1. "duplicates" \in may \cap {"duplicates", "assertions", "maintenance"}
      BY <2>4
    <3>2. Control(db, may, t.tab).code = 200 /\ Control(db, may, t.tab).duplicates = Foremost(OpenCases(db))
      BY <2>4, <3>1 DEF Control
    <3>. QED BY <1>8, <2>4, <3>2 DEF Tab
  <2>5. CASE "assertions" \in may /\ t.tab = "uverifisert" /\ t.count = Len(Waiting(db, "unverified"))
    <3>1. "assertions" \in may \cap {"duplicates", "assertions", "maintenance"}
      BY <2>5
    <3>2. Control(db, may, t.tab).code = 200 /\ Control(db, may, t.tab).assertions = Foremost(Waiting(db, "unverified"))
      BY <2>5, <3>1 DEF Control
    <3>. QED BY <1>9, <2>5, <3>2 DEF Tab
  <2>6. CASE "assertions" \in may /\ t.tab = "konflikter" /\ t.count = Len(Waiting(db, "disputed"))
    <3>1. "assertions" \in may \cap {"duplicates", "assertions", "maintenance"}
      BY <2>6
    <3>2. Control(db, may, t.tab).code = 200 /\ Control(db, may, t.tab).assertions = Foremost(Waiting(db, "disputed"))
      BY <2>6, <3>1 DEF Control
    <3>. QED BY <1>9, <2>6, <3>2 DEF Tab
  <2>. QED BY <2>3, <2>4, <2>5, <2>6
<1>12. TasksOf(call')
  <2>. SUFFICES ASSUME NEW t \in Home(db, may), t.tab # "managed"
                PROVE  /\ call'.control[t.tab].code = 200
                       /\ LET shown == Tab(call'.control[t.tab], t.tab)
                          IN  /\ Once(shown) /\ Len(shown) = Min({Hits, t.count})
                              /\ "assertions" \in may =>
                                   ToSet(call'.control["konflikter"].assertions)
                                     \cap ToSet(call'.control["uverifisert"].assertions) = {}
    BY <1>2, Zenon DEF TasksOf
  <2>1. t.tab \in {"dubletter", "uverifisert", "konflikter", "other"}
    BY <1>11
  <2>2. call'.control[t.tab] = Control(db, may, t.tab)
    BY <1>2, <2>1
  <2>3. /\ call'.control["konflikter"] = Control(db, may, "konflikter")
        /\ call'.control["uverifisert"] = Control(db, may, "uverifisert")
    BY <1>2
  <2>4. call'.control[t.tab].code = 200 /\ Waits(Tab(call'.control[t.tab], t.tab), t.count)
    BY <1>11, <2>2, Zenon
  <2>5. "assertions" \in may =>
          ToSet(call'.control["konflikter"].assertions) \cap ToSet(call'.control["uverifisert"].assertions) = {}
    BY <1>10, <2>3, Zenon
  <2>. QED BY <2>4, <2>5, Zenon DEF Waits
<1>. QED BY <1>2, <1>12

-----------------------------------------------------------------------------
(* What each search returns.                                               *)

\* What is found in rows with one related table, or with none.
LEMMA CellsOfOne ==
  ASSUME NEW table
  PROVE  Cells(<<table>>) = ToSet(table) /\ Cells(<<>>) = {}
<1>1. PICK T, tables : T = ToSet(table) /\ tables = <<table>>
  OBVIOUS
<1>2. DOMAIN tables = {1} /\ tables[1] = table
  BY <1>1
<1>3. \A t \in DOMAIN tables : ToSet(tables[t]) = T
  BY <1>1, <1>2
<1>4. {ToSet(tables[t]) : t \in DOMAIN tables} = {T}
  BY <1>2, <1>3
<1>5. Cells(tables) = T
  BY <1>4 DEF Cells
<1>6. DOMAIN <<>> = {}
  OBVIOUS
<1>7. Cells(<<>>) = {}
  BY <1>6 DEF Cells
<1>. QED BY <1>1, <1>5, <1>7

\* The parties, by their names and those of their artists (parties_list).
PartyRows(db, q) ==
  FoundRows(db.parties, q, LAMBDA p : {p.name}, LAMBDA p : <<IdentityTable(db, p)>>, LAMBDA p : p.name)
PeopleThrough(db, q, asked) ==
  Concat([p \in 1..PartiesPage(db, q, asked).pages |-> PartiesPage(db, q, p).parties])
PartyTexts(db, p) == {db.parties[p].name} \cup UNION ToSet(IdentityTable(db, db.parties[p]))

LEMMA PeopleFound ==
  ASSUME NEW db, NEW n \in Nat, NEW k \in Nat, SearchOfTables(db, n, k), NEW q, NEW asked
  PROVE  /\ Once(PeopleThrough(db, q, asked))
         /\ ToSet(PeopleThrough(db, q, asked)) = {p \in 1..n : Says(q, PartyTexts(db, p))}
<1>1. DOMAIN db.parties = 1..n /\ \A p \in 1..n : db.parties[p].name \in Nat
  BY DEF SearchOfTables
<1>2. PICK titles : titles = [p \in 1..n |-> db.parties[p].name]
  OBVIOUS
<1>3. titles \in [1..n -> Int]
  BY <1>1, <1>2
<1>4. PICK times : times = [p \in 1..n |-> Occurrences(Matching({db.parties[p].name},
                              <<IdentityTable(db, db.parties[p])>>, q))]
  OBVIOUS
<1>5. \A p \in 1..n : times[p] \in {0, 1} /\ (times[p] = 1 <=> Says(q, PartyTexts(db, p)))
  <2>. SUFFICES ASSUME NEW p \in 1..n
                PROVE  times[p] \in {0, 1} /\ (times[p] = 1 <=> Says(q, PartyTexts(db, p)))
    OBVIOUS
  <2>1. PICK own, table, tables, W : /\ own = {db.parties[p].name} /\ table = IdentityTable(db, db.parties[p])
                                     /\ tables = <<table>> /\ W = Nat
    OBVIOUS
  <2>2. own \in SUBSET W
    BY <1>1, <2>1
  <2>3. table \in Seq(SUBSET W)
    BY <2>1, IdentityCells
  <2>4. tables \in Seq(Seq(SUBSET W))
    <3>1. PICK Z : Z = Seq(SUBSET W)
      OBVIOUS
    <3>2. table \in Z
      BY <2>3, <3>1
    <3>3. tables \in Seq(Z)
      BY <2>1, <3>2
    <3>. QED BY <3>1, <3>3
  <2>5. times[p] = Occurrences(Matching(own, tables, q))
    BY <1>4, <2>1
  <2>6. /\ Occurrences(Matching(own, tables, q)) \in {0, 1}
        /\ Occurrences(Matching(own, tables, q)) = 1 <=> Says(q, own \cup UNION Cells(tables))
    BY <2>2, <2>4, SearchFinds
  <2>7. own \cup UNION Cells(tables) = PartyTexts(db, p)
    BY <2>1, CellsOfOne, Zenon DEF PartyTexts
  <2>. QED BY <2>5, <2>6, <2>7, Zenon
<1>6. PartyRows(db, q) = Rows(titles, times)
  <2>1. [i \in DOMAIN titles |-> <<titles[i], i>>] = [i \in DOMAIN db.parties |-> <<db.parties[i].name, i>>]
    BY <1>1, <1>2
  <2>2. times = [i \in DOMAIN db.parties |-> Occurrences(Matching({db.parties[i].name},
                              <<IdentityTable(db, db.parties[i])>>, q))]
    BY <1>1, <1>4, Zenon
  <2>. QED BY <2>1, <2>2, Zenon DEF Rows, PartyRows, FoundRows
<1>7. PICK list : list = PartyRows(db, q)
  OBVIOUS
<1>8. PeopleThrough(db, q, asked) = Concat([p \in 1..Pages(list, PageRows) |-> PageOf(list, PageRows, p)])
  <2>1. /\ PartiesPage(db, q, asked).pages = Pages(list, PageRows)
        /\ \A p : PartiesPage(db, q, p).parties = PageOf(list, PageRows, p)
    BY <1>7 DEF PartiesPage, PartyRows
  <2>2. PICK N : N = Pages(list, PageRows)
    OBVIOUS
  <2>3. [p \in 1..N |-> PartiesPage(db, q, p).parties] = [p \in 1..N |-> PageOf(list, PageRows, p)]
    BY <2>1
  <2>. QED BY <2>1, <2>2, <2>3, Zenon DEF PeopleThrough
<1>9. PICK through : through = Concat([p \in 1..Pages(list, PageRows) |-> PageOf(list, PageRows, p)])
  OBVIOUS
<1>10. Once(through) /\ ToSet(through) = {p \in 1..n : times[p] = 1}
  <2>1. DOMAIN times = 1..n /\ \A p \in 1..n : times[p] = 0 \/ times[p] = 1
    BY <1>4, <1>5
  <2>. QED BY <1>3, <1>6, <1>7, <1>9, <2>1, PagedRows
<1>11. {p \in 1..n : times[p] = 1} = {p \in 1..n : Says(q, PartyTexts(db, p))}
  <2>1. \A p : p \in {i \in 1..n : times[i] = 1} <=> p \in {i \in 1..n : Says(q, PartyTexts(db, i))}
    BY <1>5, Zenon
  <2>. QED BY <2>1, Zenon
<1>. QED BY <1>8, <1>9, <1>10, <1>11, Zenon

\* The artists, by their names and those of their parties.
ArtistRows(db, q) ==
  FoundRows(db.artists, q, LAMBDA a : {a.name, PartyName(db, a.party)}, LAMBDA a : <<>>, LAMBDA a : a.name)
ArtistTexts(db, a) == {db.artists[a].name, PartyName(db, db.artists[a].party)}

LEMMA ArtistsFound ==
  ASSUME NEW db, NEW n \in Nat, NEW k \in Nat, SearchOfTables(db, n, k), NEW q, NEW asked
  PROVE  /\ ForemostOf(PartiesPage(db, q, asked).artists, [a \in 1..k |-> db.artists[a].name],
                       {a \in 1..k : Says(q, ArtistTexts(db, a))})
         /\ \A a \in ToSet(PartiesPage(db, q, asked).artists) :
              db.artists[a].party \in ToSet(PeopleThrough(db, q, asked))
<1>1. /\ DOMAIN db.parties = 1..n /\ \A p \in 1..n : db.parties[p].name \in Nat
      /\ DOMAIN db.artists = 1..k
      /\ \A a \in 1..k : db.artists[a].name \in Nat /\ db.artists[a].party \in 1..n
  BY DEF SearchOfTables
<1>2. PICK titles : titles = [a \in 1..k |-> db.artists[a].name]
  OBVIOUS
<1>3. titles \in [1..k -> Int]
  BY <1>1, <1>2
<1>4. PICK times : times = [a \in 1..k |->
                              Occurrences(Matching({db.artists[a].name, PartyName(db, db.artists[a].party)}, <<>>, q))]
  OBVIOUS
<1>5. \A a \in 1..k : times[a] \in {0, 1} /\ (times[a] = 1 <=> Says(q, ArtistTexts(db, a)))
  <2>. SUFFICES ASSUME NEW a \in 1..k
                PROVE  times[a] \in {0, 1} /\ (times[a] = 1 <=> Says(q, ArtistTexts(db, a)))
    OBVIOUS
  <2>1. PICK own, W : own = {db.artists[a].name, PartyName(db, db.artists[a].party)} /\ W = Nat
    OBVIOUS
  <2>2. own \in SUBSET W
    BY <1>1, <2>1 DEF PartyName
  <2>3. <<>> \in Seq(Seq(SUBSET W))
    OBVIOUS
  <2>4. times[a] = Occurrences(Matching(own, <<>>, q))
    BY <1>4, <2>1
  <2>5. /\ Occurrences(Matching(own, <<>>, q)) \in {0, 1}
        /\ Occurrences(Matching(own, <<>>, q)) = 1 <=> Says(q, own \cup UNION Cells(<<>>))
    BY <2>2, <2>3, SearchFinds
  <2>6. own \cup UNION Cells(<<>>) = ArtistTexts(db, a)
    BY <2>1, CellsOfOne DEF ArtistTexts
  <2>. QED BY <2>4, <2>5, <2>6, Zenon
<1>6. ArtistRows(db, q) = Rows(titles, times)
  <2>1. [i \in DOMAIN titles |-> <<titles[i], i>>] = [i \in DOMAIN db.artists |-> <<db.artists[i].name, i>>]
    BY <1>1, <1>2
  <2>2. times = [i \in DOMAIN db.artists |->
                   Occurrences(Matching({db.artists[i].name, PartyName(db, db.artists[i].party)}, <<>>, q))]
    BY <1>1, <1>4, Zenon
  <2>. QED BY <2>1, <2>2, Zenon DEF Rows, ArtistRows, FoundRows
<1>7. PICK list : list = PartiesPage(db, q, asked).artists
  OBVIOUS
<1>8. list = Foremost(ArtistRows(db, q))
  BY <1>7 DEF PartiesPage, ArtistRows
<1>9. ForemostOf(list, titles, {a \in 1..k : times[a] = 1})
  <2>1. DOMAIN times = 1..k /\ \A a \in 1..k : times[a] = 0 \/ times[a] = 1
    BY <1>4, <1>5
  <2>. QED BY <1>3, <1>6, <1>8, <2>1, ForemostRows
<1>10. {a \in 1..k : times[a] = 1} = {a \in 1..k : Says(q, ArtistTexts(db, a))}
  <2>1. \A a : a \in {i \in 1..k : times[i] = 1} <=> a \in {i \in 1..k : Says(q, ArtistTexts(db, i))}
    BY <1>5, Zenon
  <2>. QED BY <2>1, Zenon
<1>11. \A a \in ToSet(list) : db.artists[a].party \in ToSet(PeopleThrough(db, q, asked))
  <2>. SUFFICES ASSUME NEW a \in ToSet(list)
                PROVE  db.artists[a].party \in ToSet(PeopleThrough(db, q, asked))
    OBVIOUS
  <2>1. a \in 1..k /\ Says(q, ArtistTexts(db, a))
    BY <1>9, <1>10 DEF ForemostOf
  <2>2. PICK p \in 1..n : p = db.artists[a].party
    BY <1>1, <2>1
  <2>3. {db.artists[a].name} \in ToSet(IdentityTable(db, db.parties[p]))
    BY <2>1, <2>2, IdentityCells
  <2>4. ArtistTexts(db, a) \subseteq PartyTexts(db, p)
    BY <2>2, <2>3 DEF ArtistTexts, PartyTexts, PartyName
  <2>5. Says(q, PartyTexts(db, p))
    BY <2>1, <2>4 DEF Says
  <2>. QED BY <2>2, <2>5, PeopleFound
<1>. QED BY <1>2, <1>7, <1>9, <1>10, <1>11

\* Agreements (agreement_list).
AgreementsThrough(db, q, asked) ==
  Concat([p \in 1..Agreements(db, q, asked).pages |-> Agreements(db, q, p).list])

LEMMA AgreementsOnce ==
  ASSUME NEW db, NEW m \in Nat, DOMAIN db.agreements = 1..m,
         \A i \in 1..m : db.agreements[i].title \in Nat, NEW q, NEW asked
  PROVE  Once(AgreementsThrough(db, q, asked))
<1>1. PICK titles : titles = [i \in 1..m |-> db.agreements[i].title]
  OBVIOUS
<1>2. titles \in [1..m -> Int]
  BY <1>1
<1>3. PICK times : times = [i \in 1..m |-> Occurrences(Matching({db.agreements[i].title, db.agreements[i].reference},
          <<[n \in DOMAIN db.agreements[i].parties |-> {PartyName(db, db.agreements[i].parties[n])}]>>, q))]
  OBVIOUS
<1>4. DOMAIN times = 1..m /\ \A i \in 1..m : times[i] = 0 \/ times[i] = 1
  BY <1>3 DEF Occurrences
<1>5. PICK list : list = FoundRows(db.agreements, q, LAMBDA a : {a.title, a.reference},
                    LAMBDA a : <<[n \in DOMAIN a.parties |-> {PartyName(db, a.parties[n])}]>>,
                    LAMBDA a : a.title)
  OBVIOUS
<1>6. list = Rows(titles, times)
  <2>1. [i \in DOMAIN titles |-> <<titles[i], i>>] = [i \in DOMAIN db.agreements |-> <<db.agreements[i].title, i>>]
    BY <1>1
  <2>2. times = [i \in DOMAIN db.agreements |->
          Occurrences(Matching({db.agreements[i].title, db.agreements[i].reference},
            <<[n \in DOMAIN db.agreements[i].parties |-> {PartyName(db, db.agreements[i].parties[n])}]>>, q))]
    BY <1>3, Zenon
  <2>. QED BY <1>5, <2>1, <2>2, Zenon DEF Rows, FoundRows
<1>7. /\ Agreements(db, q, asked).pages = Pages(list, PageRows)
      /\ \A p : Agreements(db, q, p).list = PageOf(list, PageRows, p)
  BY <1>5 DEF Agreements
<1>8. PICK N : N = Pages(list, PageRows)
  OBVIOUS
<1>9. [p \in 1..N |-> Agreements(db, q, p).list] = [p \in 1..N |-> PageOf(list, PageRows, p)]
  BY <1>7
<1>10. AgreementsThrough(db, q, asked) = Concat([p \in 1..Pages(list, PageRows) |-> PageOf(list, PageRows, p)])
  BY <1>7, <1>8, <1>9, Zenon DEF AgreementsThrough
<1>. QED BY <1>2, <1>4, <1>6, <1>10, PagedRows

\* Files (files_list).
FilesThrough(db, q, asked) == Concat([p \in 1..Files(db, q, asked).pages |-> Files(db, q, p).list])
FileTexts(db, f) ==
  {db.files[f].name} \cup ToSet(db.files[f].paths)
    \cup {TitleOf(db.entries, db.files[f].recording), TitleOf(db.releases, db.files[f].release)}
FilesNamed(db, m) ==
  /\ DOMAIN db.files = 1..m
  /\ \A f \in 1..m : /\ db.files[f].name \in Nat /\ db.files[f].paths \in Seq(Nat)
                     /\ TitleOf(db.entries, db.files[f].recording) \in Nat
                     /\ TitleOf(db.releases, db.files[f].release) \in Nat

LEMMA FilesFound ==
  ASSUME NEW db, NEW m \in Nat, FilesNamed(db, m), NEW q, NEW asked
  PROVE  /\ Once(FilesThrough(db, q, asked))
         /\ ToSet(FilesThrough(db, q, asked)) = {f \in 1..m : Says(q, FileTexts(db, f))}
<1>1. /\ DOMAIN db.files = 1..m
      /\ \A f \in 1..m : /\ db.files[f].name \in Nat /\ db.files[f].paths \in Seq(Nat)
                         /\ TitleOf(db.entries, db.files[f].recording) \in Nat
                         /\ TitleOf(db.releases, db.files[f].release) \in Nat
  BY DEF FilesNamed
<1>2. PICK titles : titles = [f \in 1..m |-> db.files[f].name]
  OBVIOUS
<1>3. titles \in [1..m -> Int]
  BY <1>1, <1>2
<1>4. PICK times : times = [f \in 1..m |-> Occurrences(Matching({db.files[f].name,
          TitleOf(db.entries, db.files[f].recording), TitleOf(db.releases, db.files[f].release)},
          <<[n \in DOMAIN db.files[f].paths |-> {db.files[f].paths[n]}]>>, q))]
  OBVIOUS
<1>5. \A f \in 1..m : times[f] \in {0, 1} /\ (times[f] = 1 <=> Says(q, FileTexts(db, f)))
  <2>. SUFFICES ASSUME NEW f \in 1..m
                PROVE  times[f] \in {0, 1} /\ (times[f] = 1 <=> Says(q, FileTexts(db, f)))
    OBVIOUS
  <2>1. PICK own, paths, table, tables, W :
          /\ own = {db.files[f].name, TitleOf(db.entries, db.files[f].recording),
                    TitleOf(db.releases, db.files[f].release)}
          /\ paths = db.files[f].paths /\ table = [n \in DOMAIN paths |-> {paths[n]}]
          /\ tables = <<table>> /\ W = Nat
    OBVIOUS
  <2>2. own \in SUBSET W /\ paths \in Seq(W)
    BY <1>1, <2>1
  <2>3. table \in Seq(SUBSET W)
    <3>1. PICK l \in Nat : DOMAIN paths = 1..l /\ \A i \in 1..l : paths[i] \in W
      BY <2>2
    <3>2. PICK Z : Z = SUBSET W
      OBVIOUS
    <3>3. table = [i \in 1..l |-> {paths[i]}] /\ \A i \in 1..l : {paths[i]} \in Z
      BY <2>1, <3>1, <3>2
    <3>4. table \in Seq(Z)
      BY <3>3
    <3>. QED BY <3>2, <3>4
  <2>4. tables \in Seq(Seq(SUBSET W))
    <3>1. PICK Z : Z = Seq(SUBSET W)
      OBVIOUS
    <3>2. table \in Z
      BY <2>3, <3>1
    <3>3. tables \in Seq(Z)
      BY <2>1, <3>2
    <3>. QED BY <3>1, <3>3
  <2>5. times[f] = Occurrences(Matching(own, tables, q))
    BY <1>4, <2>1
  <2>6. /\ Occurrences(Matching(own, tables, q)) \in {0, 1}
        /\ Occurrences(Matching(own, tables, q)) = 1 <=> Says(q, own \cup UNION Cells(tables))
    BY <2>2, <2>4, SearchFinds
  <2>7. Cells(tables) = {{paths[i]} : i \in DOMAIN paths}
    <3>1. Cells(tables) = ToSet(table)
      BY <2>1, CellsOfOne
    <3>2. DOMAIN table = DOMAIN paths /\ \A i \in DOMAIN paths : table[i] = {paths[i]}
      BY <2>1
    <3>. QED BY <3>1, <3>2 DEF ToSet
  <2>8. own \cup UNION Cells(tables) = FileTexts(db, f)
    <3>1. UNION Cells(tables) = {paths[i] : i \in DOMAIN paths}
      BY <2>7
    <3>2. FileTexts(db, f) = own \cup ToSet(paths)
      BY <2>1 DEF FileTexts
    <3>. QED BY <3>1, <3>2 DEF ToSet
  <2>. QED BY <2>5, <2>6, <2>8, Zenon
<1>6. PICK list : list = FoundRows(db.files, q,
                    LAMBDA f : {f.name, TitleOf(db.entries, f.recording), TitleOf(db.releases, f.release)},
                    LAMBDA f : <<[n \in DOMAIN f.paths |-> {f.paths[n]}]>>, LAMBDA f : f.name)
  OBVIOUS
<1>7. list = Rows(titles, times)
  <2>1. [i \in DOMAIN titles |-> <<titles[i], i>>] = [i \in DOMAIN db.files |-> <<db.files[i].name, i>>]
    BY <1>1, <1>2
  <2>2. times = [i \in DOMAIN db.files |-> Occurrences(Matching({db.files[i].name,
          TitleOf(db.entries, db.files[i].recording), TitleOf(db.releases, db.files[i].release)},
          <<[n \in DOMAIN db.files[i].paths |-> {db.files[i].paths[n]}]>>, q))]
    BY <1>1, <1>4, Zenon
  <2>. QED BY <1>6, <2>1, <2>2, Zenon DEF Rows, FoundRows
<1>8. /\ Files(db, q, asked).pages = Pages(list, PageRows)
      /\ \A p : Files(db, q, p).list = PageOf(list, PageRows, p)
  BY <1>6 DEF Files
<1>9. PICK N : N = Pages(list, PageRows)
  OBVIOUS
<1>10. [p \in 1..N |-> Files(db, q, p).list] = [p \in 1..N |-> PageOf(list, PageRows, p)]
  BY <1>8
<1>11. FilesThrough(db, q, asked) = Concat([p \in 1..Pages(list, PageRows) |-> PageOf(list, PageRows, p)])
  BY <1>8, <1>9, <1>10, Zenon DEF FilesThrough
<1>12. Once(FilesThrough(db, q, asked)) /\ ToSet(FilesThrough(db, q, asked)) = {f \in 1..m : times[f] = 1}
  <2>1. DOMAIN times = 1..m /\ \A f \in 1..m : times[f] = 0 \/ times[f] = 1
    BY <1>4, <1>5
  <2>. QED BY <1>3, <1>7, <1>11, <2>1, PagedRows
<1>13. {f \in 1..m : times[f] = 1} = {f \in 1..m : Says(q, FileTexts(db, f))}
  <2>1. \A f : f \in {i \in 1..m : times[i] = 1} <=> f \in {i \in 1..m : Says(q, FileTexts(db, i))}
    BY <1>5, Zenon
  <2>. QED BY <2>1, Zenon
<1>. QED BY <1>12, <1>13, Zenon

-----------------------------------------------------------------------------
(* The searches put together.                                              *)

\* What a search shows, with its lists through all pages written out.
SearchOf(c) ==
  c.kind = "search" =>
    LET db == c.db
        says(words) == c.q = <<>> \/ words \cap c.q[1] # {}
        credit(e, columns) == UNION {{k[x] : x \in columns} : k \in ToSet(e.credits)}
        foremost(list, rows, found(_), heading(_)) ==
          LET all == {i \in DOMAIN rows : found(rows[i])}
          IN  /\ Once(list) /\ ToSet(list) \subseteq all /\ Len(list) = Min({Hits, Cardinality(all)})
              /\ \A i \in ToSet(list), j \in all \ ToSet(list) : heading(rows[i]) <= heading(rows[j])
        people == Concat([p \in 1..c.people.pages |-> PartiesPage(db, c.q, p).parties])
        files == Concat([p \in 1..c.files.pages |-> Files(db, c.q, p).list])
        agreements == Concat([p \in 1..c.agreements.pages |-> Agreements(db, c.q, p).list])
    IN  /\ c.long =>
             /\ foremost(c.credits, db.entries,
                         LAMBDA e : says({e.title, e.code} \cup credit(e, {"credited"})), LAMBDA e : e.title)
             /\ foremost(c.parties, db.entries,
                         LAMBDA e : says({e.title, e.code} \cup credit(e, {"party", "identity"})),
                         LAMBDA e : e.title)
        /\ Once(people) /\ Once(files) /\ Once(agreements)
        /\ foremost(c.people.artists, db.artists,
                    LAMBDA a : says({a.name, PartyName(db, a.party)}), LAMBDA a : a.name)
        /\ \A a \in ToSet(c.people.artists) : db.artists[a].party \in ToSet(people)
        /\ \A f \in DOMAIN db.files :
             f \in ToSet(files) <=>
               says({db.files[f].name} \cup ToSet(db.files[f].paths)
                      \cup {TitleOf(db.entries, db.files[f].recording), TitleOf(db.releases, db.files[f].release)})

LEMMA SearchesCalled ==
  /\ SearchesHonest <=> SearchOf(call) /\ TasksOf(call)
  /\ SearchesHonest' <=> SearchOf(call') /\ TasksOf(call')
BY Zenon DEF SearchesHonest, SearchOf, TasksOf, Through

\* Three lists that show the first of what they find, one by one.
EntriesForemost(c, list, columns) ==
  LET all == {i \in DOMAIN c.db.entries : Says(c.q, EntryTexts(c.db.entries[i], columns))}
  IN  /\ Once(list) /\ ToSet(list) \subseteq all /\ Len(list) = Min({Hits, Cardinality(all)})
      /\ \A i \in ToSet(list), j \in all \ ToSet(list) : c.db.entries[i].title <= c.db.entries[j].title
ArtistsForemost(c) ==
  LET list == c.people.artists
      all == {a \in DOMAIN c.db.artists : Says(c.q, ArtistTexts(c.db, a))}
  IN  /\ Once(list) /\ ToSet(list) \subseteq all /\ Len(list) = Min({Hits, Cardinality(all)})
      /\ \A i \in ToSet(list), j \in all \ ToSet(list) : c.db.artists[i].name <= c.db.artists[j].name

LEMMA SearchSettled ==
  ASSUME NEW c, NEW asked,
         c.people.pages = PartiesPage(c.db, c.q, asked).pages,
         c.files.pages = Files(c.db, c.q, asked).pages,
         c.agreements.pages = Agreements(c.db, c.q, asked).pages,
         c.long => EntriesForemost(c, c.credits, {"credited"})
                   /\ EntriesForemost(c, c.parties, {"party", "identity"}),
         Once(PeopleThrough(c.db, c.q, asked)), Once(FilesThrough(c.db, c.q, asked)),
         Once(AgreementsThrough(c.db, c.q, asked)), ArtistsForemost(c),
         \A a \in ToSet(c.people.artists) : c.db.artists[a].party \in ToSet(PeopleThrough(c.db, c.q, asked)),
         \A f \in DOMAIN c.db.files :
           f \in ToSet(FilesThrough(c.db, c.q, asked)) <=> Says(c.q, FileTexts(c.db, f))
  PROVE  SearchOf(c)
BY Zenon DEF SearchOf, EntriesForemost, ArtistsForemost, PeopleThrough, FilesThrough, AgreementsThrough,
             EntryTexts, ArtistTexts, FileTexts, Says

\* What is first of a list's rows by their titles is so by the titles of the rows themselves.
LEMMA ForemostByTitle ==
  ASSUME NEW list, NEW m \in Nat, NEW titles, NEW F, titles = [i \in 1..m |-> F[i]], NEW all \in SUBSET (1..m),
         ForemostOf(list, titles, all)
  PROVE  /\ Once(list) /\ ToSet(list) \subseteq all /\ Len(list) = Min({Hits, Cardinality(all)})
         /\ \A i \in ToSet(list), j \in all \ ToSet(list) : F[i] <= F[j]
<1>1. \A i \in 1..m : titles[i] = F[i]
  OBVIOUS
<1>2. /\ Once(list) /\ ToSet(list) \subseteq all /\ Len(list) = Min({Hits, Cardinality(all)})
      /\ \A i \in ToSet(list), j \in all \ ToSet(list) : titles[i] <= titles[j]
  BY DEF ForemostOf
<1>3. \A i \in ToSet(list), j \in all \ ToSet(list) : F[i] <= F[j]
  <2>. SUFFICES ASSUME NEW i \in ToSet(list), NEW j \in all \ ToSet(list) PROVE F[i] <= F[j]
    OBVIOUS
  <2>1. i \in 1..m /\ j \in 1..m
    BY <1>2
  <2>2. titles[i] <= titles[j]
    BY <1>2
  <2>3. titles[i] = F[i] /\ titles[j] = F[j]
    BY <1>1, <2>1
  <2>. QED BY <2>2, <2>3, Zenon
<1>. QED BY <1>2, <1>3

\* The recordings that a search of two characters or more shows.
LEMMA EntriesShown ==
  ASSUME NEW c, NEW m \in Nat, ShelfOf(c.db, m), c.q \in Sought,
         NEW columns \in SUBSET {"party", "identity", "credited"}, NEW list,
         list = Foremost(EntrySearch(c.db, c.q, columns))
  PROVE  EntriesForemost(c, list, columns)
<1>1. PICK db, q : db = c.db /\ q = c.q
  OBVIOUS
<1>2. PICK F : F = [i \in 1..m |-> db.entries[i].title]
  OBVIOUS
<1>3. PICK all : all = {i \in 1..m : Says(q, EntryTexts(db.entries[i], columns))}
  OBVIOUS
<1>4. ForemostOf(list, F, all)
  BY <1>1, <1>2, <1>3, EntriesFound
<1>5. F = [i \in 1..m |-> F[i]] /\ all \in SUBSET (1..m)
  BY <1>2, <1>3
<1>6. /\ Once(list) /\ ToSet(list) \subseteq all /\ Len(list) = Min({Hits, Cardinality(all)})
      /\ \A i \in ToSet(list), j \in all \ ToSet(list) : F[i] <= F[j]
  BY <1>4, <1>5, ForemostByTitle
<1>7. \A i \in ToSet(list), j \in all \ ToSet(list) : db.entries[i].title <= db.entries[j].title
  <2>. SUFFICES ASSUME NEW i \in ToSet(list), NEW j \in all \ ToSet(list)
                PROVE  db.entries[i].title <= db.entries[j].title
    OBVIOUS
  <2>1. i \in 1..m /\ j \in 1..m /\ F[i] <= F[j]
    BY <1>5, <1>6
  <2>2. F[i] = db.entries[i].title /\ F[j] = db.entries[j].title
    BY <1>2, <2>1
  <2>. QED BY <2>1, <2>2, Zenon
<1>8. DOMAIN c.db.entries = 1..m
  BY DEF ShelfOf
<1>. QED BY <1>1, <1>3, <1>6, <1>7, <1>8, Zenon DEF EntriesForemost

\* The artists of a search.
LEMMA ArtistsShown ==
  ASSUME NEW c, NEW n \in Nat, NEW k \in Nat, SearchOfTables(c.db, n, k), NEW asked,
         c.people = PartiesPage(c.db, c.q, asked)
  PROVE  ArtistsForemost(c)
<1>1. PICK db, q, list : db = c.db /\ q = c.q /\ list = c.people.artists
  OBVIOUS
<1>2. PICK F : F = [a \in 1..k |-> db.artists[a].name]
  OBVIOUS
<1>3. PICK all : all = {a \in 1..k : Says(q, ArtistTexts(db, a))}
  OBVIOUS
<1>4. ForemostOf(list, F, all)
  BY <1>1, <1>2, <1>3, ArtistsFound
<1>5. F = [a \in 1..k |-> F[a]] /\ all \in SUBSET (1..k)
  BY <1>2, <1>3
<1>6. /\ Once(list) /\ ToSet(list) \subseteq all /\ Len(list) = Min({Hits, Cardinality(all)})
      /\ \A i \in ToSet(list), j \in all \ ToSet(list) : F[i] <= F[j]
  BY <1>4, <1>5, ForemostByTitle
<1>7. \A i \in ToSet(list), j \in all \ ToSet(list) : db.artists[i].name <= db.artists[j].name
  <2>. SUFFICES ASSUME NEW i \in ToSet(list), NEW j \in all \ ToSet(list)
                PROVE  db.artists[i].name <= db.artists[j].name
    OBVIOUS
  <2>1. i \in 1..k /\ j \in 1..k /\ F[i] <= F[j]
    BY <1>5, <1>6
  <2>2. F[i] = db.artists[i].name /\ F[j] = db.artists[j].name
    BY <1>2, <2>1
  <2>. QED BY <2>1, <2>2, Zenon
<1>8. DOMAIN c.db.artists = 1..k
  BY DEF SearchOfTables
<1>. QED BY <1>1, <1>3, <1>6, <1>7, <1>8, Zenon DEF ArtistsForemost

\* What the searches show (Search).
LEMMA SearchesFound ==
  ASSUME NEW d, DeskOf(d), NEW long \in BOOLEAN, Search(d, long)
  PROVE  call'.kind = "search" /\ SearchOf(call')
<1>1. PICK db, q, asked : db = d.db /\ q = d.request.q /\ asked = d.request.page
  OBVIOUS
<1>2. /\ d.of = "search" /\ call'.kind = "search" /\ call'.db = db /\ call'.q = q /\ call'.long = long
      /\ call'.credits = CreditSearch(db, q, long) /\ call'.parties = PartySearch(db, q, long)
      /\ call'.people = PartiesPage(db, q, asked) /\ call'.agreements = Agreements(db, q, asked)
      /\ call'.files = Files(db, q, asked)
  BY <1>1 DEF Search
<1>3. PICK ct, cp, ca, cg, cf : /\ ct = {"title"} /\ cp = {"id", "name"} /\ ca = {"name"}
                                /\ cg = {"title", "reference"} /\ cf = {"name"}
  OBVIOUS
<1>4. /\ q \in Sought /\ Shelf(db.entries) /\ TableOf(db.releases, ct)
      /\ TableOf(db.parties, cp) /\ \A p \in DOMAIN db.parties : db.parties[p].id = p
      /\ TableOf(db.artists, ca) /\ \A a \in Range(db.artists) : a.party \in DOMAIN db.parties
      /\ TableOf(db.agreements, cg) /\ TableOf(db.files, cf)
      /\ \A f \in Range(db.files) :
           /\ f.recording \in {0} \cup DOMAIN db.entries /\ f.release \in {0} \cup DOMAIN db.releases
           /\ f.paths \in Seq(Nat)
  BY <1>1, <1>2, <1>3, Zenon DEF DeskOf
<1>5. PICK m \in Nat : ShelfOf(db, m)
  BY <1>4, ShelfRows
<1>6. PICK n \in Nat : DOMAIN db.parties = 1..n /\ \A i \in 1..n : \A x \in cp : db.parties[i][x] \in Nat
  BY <1>4, TableRows
<1>7. PICK k \in Nat : /\ DOMAIN db.artists = 1..k /\ Range(db.artists) = {db.artists[i] : i \in 1..k}
                       /\ \A i \in 1..k : \A x \in ca : db.artists[i][x] \in Nat
  BY <1>4, TableRows
<1>8. PICK g \in Nat : DOMAIN db.agreements = 1..g /\ \A i \in 1..g : \A x \in cg : db.agreements[i][x] \in Nat
  BY <1>4, TableRows
<1>9. PICK f \in Nat : /\ DOMAIN db.files = 1..f /\ Range(db.files) = {db.files[i] : i \in 1..f}
                       /\ \A i \in 1..f : \A x \in cf : db.files[i][x] \in Nat
  BY <1>4, TableRows
<1>10. PICK s \in Nat : DOMAIN db.releases = 1..s /\ \A i \in 1..s : \A x \in ct : db.releases[i][x] \in Nat
  BY <1>4, TableRows
<1>11. SearchOfTables(db, n, k)
  <2>1. db.artists \in Seq(Range(db.artists))
    BY <1>4 DEF TableOf
  <2>2. Len(db.artists) = k
    <3>1. PICK R, artists : R = Range(db.artists) /\ artists = db.artists
      OBVIOUS
    <3>2. artists \in Seq(R) /\ DOMAIN artists = 1..k
      BY <1>7, <2>1, <3>1
    <3>. QED BY <3>1, <3>2
  <2>3. \A p \in 1..n : db.parties[p].id = p /\ db.parties[p].name \in Nat
    BY <1>3, <1>4, <1>6
  <2>4. \A a \in 1..k : db.artists[a].name \in Nat /\ db.artists[a].party \in 1..n
    BY <1>3, <1>4, <1>6, <1>7
  <2>. QED BY <1>6, <1>7, <2>1, <2>2, <2>3, <2>4, Zenon DEF SearchOfTables
<1>12. FilesNamed(db, f)
  <2>1. \A i \in 0..m : i = 0 \/ db.entries[i].title \in Nat
    BY <1>5 DEF ShelfOf
  <2>2. \A i \in 1..s : db.releases[i].title \in Nat
    BY <1>3, <1>10
  <2>3. DOMAIN db.entries = 1..m
    BY <1>5 DEF ShelfOf
  <2>4. \A i \in 1..f : /\ db.files[i].name \in Nat /\ db.files[i].paths \in Seq(Nat)
                        /\ db.files[i].recording \in {0} \cup 1..m /\ db.files[i].release \in {0} \cup 1..s
    BY <1>3, <1>4, <1>9, <1>10, <2>3
  <2>5. \A i \in 1..f : /\ TitleOf(db.entries, db.files[i].recording) \in Nat
                        /\ TitleOf(db.releases, db.files[i].release) \in Nat
    BY <2>1, <2>2, <2>4 DEF TitleOf
  <2>. QED BY <1>9, <2>4, <2>5, Zenon DEF FilesNamed
<1>13. /\ Once(PeopleThrough(db, q, asked))
       /\ \A a \in ToSet(PartiesPage(db, q, asked).artists) :
            db.artists[a].party \in ToSet(PeopleThrough(db, q, asked))
  BY <1>11, PeopleFound, ArtistsFound
<1>14. Once(FilesThrough(db, q, asked))
       /\ ToSet(FilesThrough(db, q, asked)) = {i \in 1..f : Says(q, FileTexts(db, i))}
  BY <1>12, FilesFound
<1>15. Once(AgreementsThrough(db, q, asked))
  <2>1. \A i \in 1..g : db.agreements[i].title \in Nat
    BY <1>3, <1>8
  <2>. QED BY <1>8, <2>1, AgreementsOnce
<1>16. PICK c : c = call'
  OBVIOUS
<1>17. c.long => EntriesForemost(c, c.credits, {"credited"}) /\ EntriesForemost(c, c.parties, {"party", "identity"})
  <2>. SUFFICES ASSUME long
                PROVE  EntriesForemost(c, c.credits, {"credited"}) /\ EntriesForemost(c, c.parties, {"party", "identity"})
    BY <1>2, <1>16, Zenon
  <2>1. CreditSearch(db, q, long) = Foremost(EntrySearch(db, q, {"credited"}))
    BY Zenon DEF CreditSearch, EntrySearch, FoundRows
  <2>2. PartySearch(db, q, long) = Foremost(EntrySearch(db, q, {"party", "identity"}))
    BY Zenon DEF PartySearch, EntrySearch, FoundRows
  <2>3. EntriesForemost(c, c.credits, {"credited"})
    <3>1. {"credited"} \in SUBSET {"party", "identity", "credited"}
      OBVIOUS
    <3>2. c.db = db /\ c.q = q /\ c.credits = Foremost(EntrySearch(db, q, {"credited"}))
      BY <1>2, <1>16, <2>1, Zenon
    <3>3. ShelfOf(c.db, m) /\ c.q \in Sought /\ c.credits = Foremost(EntrySearch(c.db, c.q, {"credited"}))
      BY <1>4, <1>5, <3>2, Zenon
    <3>. QED BY <3>1, <3>3, EntriesShown
  <2>4. EntriesForemost(c, c.parties, {"party", "identity"})
    <3>1. {"party", "identity"} \in SUBSET {"party", "identity", "credited"}
      OBVIOUS
    <3>2. c.db = db /\ c.q = q /\ c.parties = Foremost(EntrySearch(db, q, {"party", "identity"}))
      BY <1>2, <1>16, <2>2, Zenon
    <3>3. /\ ShelfOf(c.db, m) /\ c.q \in Sought
          /\ c.parties = Foremost(EntrySearch(c.db, c.q, {"party", "identity"}))
      BY <1>4, <1>5, <3>2, Zenon
    <3>. QED BY <3>1, <3>3, EntriesShown
  <2>. QED BY <2>3, <2>4
<1>18. ArtistsForemost(c)
  <2>1. SearchOfTables(c.db, n, k) /\ c.people = PartiesPage(c.db, c.q, asked)
    BY <1>2, <1>11, <1>16, Zenon
  <2>. QED BY <2>1, ArtistsShown
<1>19. c.db = db /\ c.q = q
  BY <1>2, <1>16
<1>20. c.people.pages = PartiesPage(c.db, c.q, asked).pages /\ c.files.pages = Files(c.db, c.q, asked).pages
       /\ c.agreements.pages = Agreements(c.db, c.q, asked).pages
  BY <1>2, <1>16, <1>19, Zenon
<1>21. \A i \in DOMAIN c.db.files :
         i \in ToSet(FilesThrough(c.db, c.q, asked)) <=> Says(c.q, FileTexts(c.db, i))
  BY <1>9, <1>14, <1>19
<1>22. \A a \in ToSet(c.people.artists) : c.db.artists[a].party \in ToSet(PeopleThrough(c.db, c.q, asked))
  BY <1>2, <1>13, <1>16, Zenon
<1>23. SearchOf(c)
  BY <1>13, <1>14, <1>15, <1>17, <1>18, <1>19, <1>20, <1>21, <1>22, SearchSettled, Zenon
<1>. QED BY <1>2, <1>16, <1>23

-----------------------------------------------------------------------------
(* Genres, and the texts of a recording.                                   *)

\* Where a piece of a text is.
At(s, t, k) == Len(s) + k <= Len(t) /\ \A i \in 1..Len(s) : s[i] = t[k + i]

LEMMA PieceOf ==
  ASSUME NEW S, NEW t \in Seq(S), NEW k \in Nat, NEW n \in Nat, n \in 1..Len(t), k + n <= Len(t)
  PROVE  /\ SubSeq(t, k + 1, k + n) \in Seq(S) /\ Len(SubSeq(t, k + 1, k + n)) = n
         /\ \A i \in 1..n : SubSeq(t, k + 1, k + n)[i] = t[k + i]
<1>1. PICK m \in Nat : m = Len(t)
  OBVIOUS
<1>2. PICK part : part = SubSeq(t, k + 1, k + n)
  OBVIOUS
<1>3. k + 1 \in 1..(m + 1) /\ k + n \in 0..m /\ k + 1 <= k + n /\ k + n - (k + 1) + 1 = n
  BY <1>1
<1>4. /\ part \in Seq(S) /\ Len(part) = n
      /\ \A i \in 1..n : part[i] = t[k + 1 + i - 1]
  BY <1>1, <1>2, <1>3, SubSeqProperties
<1>5. \A i \in 1..n : k + 1 + i - 1 = k + i
  OBVIOUS
<1>6. \A i \in 1..n : part[i] = t[k + i]
  <2>. SUFFICES ASSUME NEW i \in 1..n PROVE part[i] = t[k + i]
    OBVIOUS
  <2>1. part[i] = t[k + 1 + i - 1] /\ k + 1 + i - 1 = k + i
    BY <1>4, <1>5, Zenon
  <2>. QED BY <2>1, Zenon
<1>. QED BY <1>2, <1>4, <1>6

\* A piece is one of the text where the text has its elements.
LEMMA PiecesAt ==
  ASSUME NEW S, NEW t \in Seq(S), NEW s \in Seq(S), s # <<>>
  PROVE  s \in SubSeqs(t) <=> \E k \in 0..Len(t) : At(s, t, k)
<1>1. PICK m \in Nat, n \in Nat : m = Len(t) /\ n = Len(s)
  OBVIOUS
<1>2. n # 0 /\ DOMAIN s = 1..n
  BY <1>1
<1>3. ASSUME s \in SubSeqs(t) PROVE \E k \in 0..m : At(s, t, k)
  <2>1. PICK i \in 0..m, j \in 0..m : s = SubSeq(t, i + 1, j)
    BY <1>1, <1>3 DEF SubSeqs
  <2>2. CASE i < j
    <3>1. PICK l \in Nat : l = j - i
      BY <2>2
    <3>2. l \in 1..m /\ i + l <= m /\ j = i + l /\ i \in Nat
      BY <2>2, <3>1
    <3>3. Len(s) = l /\ \A h \in 1..l : s[h] = t[i + h]
      <4>1. s = SubSeq(t, i + 1, i + l)
        BY <2>1, <3>2
      <4>. QED BY <1>1, <3>2, <4>1, PieceOf
    <3>4. At(s, t, i)
      BY <1>1, <3>2, <3>3 DEF At
    <3>. QED BY <3>4
  <2>3. CASE ~(i < j)
    <3>1. SubSeq(t, i + 1, j) = <<>>
      <4>1. i + 1 > j
        BY <2>3
      <4>. QED BY <4>1, SubSeqEmpty
    <3>. QED BY <2>1, <3>1
  <2>. QED BY <2>2, <2>3
<1>4. ASSUME NEW k \in 0..m, At(s, t, k) PROVE s \in SubSeqs(t)
  <2>1. n + k <= m /\ \A i \in 1..n : s[i] = t[k + i]
    BY <1>1, <1>4 DEF At
  <2>2. n \in 1..m /\ k + n <= m /\ k + n \in 0..m
    BY <1>2, <2>1
  <2>3. PICK part : part = SubSeq(t, k + 1, k + n)
    OBVIOUS
  <2>4. part \in Seq(S) /\ Len(part) = n /\ \A i \in 1..n : part[i] = t[k + i]
    BY <1>1, <2>2, <2>3, PieceOf
  <2>5. part = s
    <3>1. DOMAIN part = 1..n
      BY <2>4
    <3>2. \A i \in 1..n : part[i] = s[i]
      BY <2>1, <2>4
    <3>3. part = [i \in 1..n |-> part[i]] /\ s = [i \in 1..n |-> s[i]]
      BY <1>2, <2>4, <3>1
    <3>. QED BY <3>2, <3>3
  <2>. QED BY <1>1, <2>2, <2>3, <2>5 DEF SubSeqs
<1>. QED BY <1>1, <1>3, <1>4

\* A prefix is a piece at the beginning, a suffix one at the end.
LEMMA PrefixAt ==
  ASSUME NEW S, NEW t \in Seq(S), NEW s \in Seq(S), s # <<>>
  PROVE  IsPrefix(s, t) <=> At(s, t, 0)
<1>1. PICK m \in Nat, n \in Nat : m = Len(t) /\ n = Len(s)
  OBVIOUS
<1>2. n # 0 /\ DOMAIN s = 1..n
  BY <1>1
<1>3. CASE n <= m
  <2>1. n \in 1..m /\ 0 + n <= m /\ n \in 1..n
    BY <1>2, <1>3
  <2>2. PICK p, whole : p = SubSeq(t, 0 + 1, 0 + n) /\ whole = SubSeq(s, 0 + 1, 0 + n)
    OBVIOUS
  <2>3. p \in Seq(S) /\ Len(p) = n /\ \A i \in 1..n : p[i] = t[0 + i]
    BY <1>1, <2>1, <2>2, PieceOf
  <2>4. whole \in Seq(S) /\ Len(whole) = n /\ \A i \in 1..n : whole[i] = s[0 + i]
    BY <1>1, <2>1, <2>2, PieceOf
  <2>5. p = SubSeq(t, 1, n) /\ whole = SubSeq(s, 1, n)
    BY <2>2
  <2>6. whole = p <=> \A i \in 1..n : s[i] = t[i]
    <3>1. \A i \in 1..n : p[i] = t[i] /\ whole[i] = s[i]
      BY <2>3, <2>4
    <3>2. p = [i \in 1..n |-> p[i]] /\ whole = [i \in 1..n |-> whole[i]]
      BY <2>3, <2>4
    <3>. QED BY <3>1, <3>2
  <2>7. \A i \in 1..n : 0 + i = i
    OBVIOUS
  <2>8. At(s, t, 0) <=> \A i \in 1..n : s[i] = t[i]
    BY <1>1, <1>3, <2>7 DEF At
  <2>9. IsPrefix(s, t) <=> whole = p
    BY <1>1, <1>3, <2>5 DEF IsPrefix
  <2>. QED BY <2>6, <2>8, <2>9
<1>4. CASE ~(n <= m)
  BY <1>1, <1>4 DEF IsPrefix, At
<1>. QED BY <1>3, <1>4

LEMMA SuffixAt ==
  ASSUME NEW S, NEW t \in Seq(S), NEW s \in Seq(S), s # <<>>
  PROVE  IsSuffix(s, t) <=> \E k \in 0..Len(t) : k + Len(s) = Len(t) /\ At(s, t, k)
<1>1. PICK m \in Nat, n \in Nat : m = Len(t) /\ n = Len(s)
  OBVIOUS
<1>2. n # 0 /\ DOMAIN s = 1..n /\ DOMAIN t = 1..m
  BY <1>1
<1>3. PICK u, v : u = Reverse(t) /\ v = Reverse(s)
  OBVIOUS
<1>4. u = [i \in 1..m |-> t[(m - i) + 1]] /\ v = [i \in 1..n |-> s[(n - i) + 1]]
  BY <1>1, <1>3 DEF Reverse
<1>5. u \in Seq(S) /\ Len(u) = m /\ v \in Seq(S) /\ Len(v) = n /\ v # <<>>
  <2>1. \A i \in 1..m : t[(m - i) + 1] \in S
    BY <1>2
  <2>2. \A i \in 1..n : s[(n - i) + 1] \in S
    BY <1>2
  <2>3. u \in Seq(S) /\ Len(u) = m
    BY <1>4, <2>1
  <2>4. v \in Seq(S) /\ Len(v) = n
    BY <1>4, <2>2
  <2>. QED BY <1>2, <2>3, <2>4
<1>6. IsSuffix(s, t) <=> At(v, u, 0)
  BY <1>3, <1>5, PrefixAt DEF IsSuffix
<1>7. At(v, u, 0) <=> n <= m /\ \A i \in 1..n : s[(n - i) + 1] = t[(m - i) + 1]
  <2>1. At(v, u, 0) <=> n + 0 <= m /\ \A i \in 1..n : v[i] = u[0 + i]
    BY <1>5 DEF At
  <2>2. ASSUME n <= m, NEW i \in 1..n
        PROVE  v[i] = s[(n - i) + 1] /\ u[0 + i] = t[(m - i) + 1]
    <3>1. 0 + i = i /\ i \in 1..m
      BY <2>2
    <3>2. v[i] = s[(n - i) + 1] /\ u[i] = t[(m - i) + 1]
      BY <1>4, <3>1
    <3>. QED BY <3>1, <3>2, Zenon
  <2>. QED BY <2>1, <2>2
<1>8. ASSUME n <= m, \A i \in 1..n : s[(n - i) + 1] = t[(m - i) + 1]
      PROVE  \E k \in 0..m : k + n = m /\ At(s, t, k)
  <2>1. PICK k \in 0..m : k = m - n
    BY <1>8
  <2>2. \A i \in 1..n : s[i] = t[k + i]
    <3>. SUFFICES ASSUME NEW i \in 1..n PROVE s[i] = t[k + i]
      OBVIOUS
    <3>1. PICK j \in 1..n : j = n - i + 1
      OBVIOUS
    <3>2. (n - j) + 1 = i /\ (m - j) + 1 = k + i
      BY <2>1, <3>1
    <3>3. s[(n - j) + 1] = t[(m - j) + 1]
      BY <1>8, Zenon
    <3>. QED BY <3>2, <3>3, Zenon
  <2>3. k + n = m /\ n + k <= m
    BY <2>1
  <2>4. At(s, t, k)
    BY <1>1, <2>2, <2>3, Zenon DEF At
  <2>. QED BY <2>3, <2>4
<1>9. ASSUME NEW k \in 0..m, k + n = m, At(s, t, k)
      PROVE  n <= m /\ \A i \in 1..n : s[(n - i) + 1] = t[(m - i) + 1]
  <2>1. n <= m /\ \A i \in 1..n : s[i] = t[k + i]
    BY <1>1, <1>9 DEF At
  <2>2. \A i \in 1..n : s[(n - i) + 1] = t[(m - i) + 1]
    <3>. SUFFICES ASSUME NEW i \in 1..n PROVE s[(n - i) + 1] = t[(m - i) + 1]
      OBVIOUS
    <3>1. PICK j \in 1..n : j = (n - i) + 1
      OBVIOUS
    <3>2. (m - i) + 1 = k + j
      BY <1>9, <3>1
    <3>3. s[j] = t[k + j]
      BY <2>1, Zenon
    <3>. QED BY <3>1, <3>2, <3>3, Zenon
  <2>. QED BY <2>1, <2>2
<1>. QED BY <1>1, <1>6, <1>7, <1>8, <1>9

\* A genre text's elements, and where a name of it is.
PiecesOf(t, g, a, b) ==
  /\ t = <<g>> <=> Len(t) = 1 /\ t[1] = g
  /\ IsPrefix(<<g, a>>, t) <=> Len(t) >= 2 /\ t[1] = g /\ t[2] = a
  /\ IsSuffix(<<a, g>>, t) <=> Len(t) >= 2 /\ t[Len(t) - 1] = a /\ t[Len(t)] = g
  /\ IsSuffix(<<a, b, g>>, t) <=>
       Len(t) >= 3 /\ t[Len(t) - 2] = a /\ t[Len(t) - 1] = b /\ t[Len(t)] = g
  /\ <<a, b>> \in SubSeqs(t) <=> \E k \in 1..(Len(t) - 1) : t[k] = a /\ t[k + 1] = b
  /\ <<a, g, a>> \in SubSeqs(t) <=> \E k \in 2..(Len(t) - 1) : t[k - 1] = a /\ t[k] = g /\ t[k + 1] = a
  /\ <<a, b, g, a>> \in SubSeqs(t) <=>
       \E k \in 3..(Len(t) - 1) : t[k - 2] = a /\ t[k - 1] = b /\ t[k] = g /\ t[k + 1] = a

LEMMA GenrePieces ==
  ASSUME NEW S, NEW t \in Seq(S), NEW g \in S, NEW a \in S, NEW b \in S
  PROVE  PiecesOf(t, g, a, b)
<1>1. PICK m \in Nat : m = Len(t) /\ DOMAIN t = 1..m
  OBVIOUS
<1>2. t = <<g>> <=> m = 1 /\ t[1] = g
  <2>1. ASSUME m = 1, t[1] = g PROVE t = <<g>>
    <3>1. t = [i \in 1..1 |-> t[i]] /\ \A i \in 1..1 : t[i] = g
      BY <1>1, <2>1
    <3>. QED BY <3>1
  <2>. QED BY <1>1, <2>1
<1>3. IsPrefix(<<g, a>>, t) <=> m >= 2 /\ t[1] = g /\ t[2] = a
  <2>1. PICK s : s = <<g, a>>
    OBVIOUS
  <2>2. s \in Seq(S) /\ s # <<>> /\ Len(s) = 2 /\ s[1] = g /\ s[2] = a
    BY <2>1
  <2>3. IsPrefix(s, t) <=> At(s, t, 0)
    BY <2>2, PrefixAt
  <2>4. At(s, t, 0) <=> m >= 2 /\ t[1] = g /\ t[2] = a
    <3>1. At(s, t, 0) <=> 2 + 0 <= m /\ \A i \in 1..2 : s[i] = t[0 + i]
      BY <1>1, <2>2, Zenon DEF At
    <3>2. (\A i \in 1..2 : s[i] = t[0 + i]) <=> s[1] = t[1] /\ s[2] = t[2]
      OBVIOUS
    <3>. QED BY <2>2, <3>1, <3>2
  <2>. QED BY <2>1, <2>3, <2>4
<1>4. IsSuffix(<<a, g>>, t) <=> m >= 2 /\ t[m - 1] = a /\ t[m] = g
  <2>1. PICK s : s = <<a, g>>
    OBVIOUS
  <2>2. s \in Seq(S) /\ s # <<>> /\ Len(s) = 2 /\ s[1] = a /\ s[2] = g
    BY <2>1
  <2>3. IsSuffix(s, t) <=> \E k \in 0..m : k + Len(s) = m /\ At(s, t, k)
    BY <1>1, <2>2, SuffixAt
  <2>4. \A k \in 0..m : k + 2 = m => (At(s, t, k) <=> t[m - 1] = a /\ t[m] = g)
    <3>. SUFFICES ASSUME NEW k \in 0..m, k + 2 = m PROVE At(s, t, k) <=> t[m - 1] = a /\ t[m] = g
      OBVIOUS
    <3>1. At(s, t, k) <=> 2 + k <= m /\ \A i \in 1..2 : s[i] = t[k + i]
      BY <1>1, <2>2, Zenon DEF At
    <3>2. (\A i \in 1..2 : s[i] = t[k + i]) <=> s[1] = t[k + 1] /\ s[2] = t[k + 2]
      OBVIOUS
    <3>3. k + 1 = m - 1 /\ k + 2 = m
      OBVIOUS
    <3>4. t[k + 1] = t[m - 1] /\ t[k + 2] = t[m]
      BY <3>3, Zenon
    <3>. QED BY <2>2, <3>1, <3>2, <3>4
  <2>5. (\E k \in 0..m : k + 2 = m) <=> m >= 2
    <3>1. m >= 2 => m - 2 \in 0..m /\ (m - 2) + 2 = m
      OBVIOUS
    <3>. QED BY <3>1
  <2>. QED BY <2>1, <2>2, <2>3, <2>4, <2>5
<1>5. IsSuffix(<<a, b, g>>, t) <=> m >= 3 /\ t[m - 2] = a /\ t[m - 1] = b /\ t[m] = g
  <2>1. PICK s : s = <<a, b, g>>
    OBVIOUS
  <2>2. s \in Seq(S) /\ s # <<>> /\ Len(s) = 3 /\ s[1] = a /\ s[2] = b /\ s[3] = g
    BY <2>1
  <2>3. IsSuffix(s, t) <=> \E k \in 0..m : k + Len(s) = m /\ At(s, t, k)
    BY <1>1, <2>2, SuffixAt
  <2>4. \A k \in 0..m : k + 3 = m => (At(s, t, k) <=> t[m - 2] = a /\ t[m - 1] = b /\ t[m] = g)
    <3>. SUFFICES ASSUME NEW k \in 0..m, k + 3 = m
                  PROVE  At(s, t, k) <=> t[m - 2] = a /\ t[m - 1] = b /\ t[m] = g
      OBVIOUS
    <3>1. At(s, t, k) <=> 3 + k <= m /\ \A i \in 1..3 : s[i] = t[k + i]
      BY <1>1, <2>2, Zenon DEF At
    <3>2. (\A i \in 1..3 : s[i] = t[k + i]) <=> s[1] = t[k + 1] /\ s[2] = t[k + 2] /\ s[3] = t[k + 3]
      OBVIOUS
    <3>3. k + 1 = m - 2 /\ k + 2 = m - 1 /\ k + 3 = m
      OBVIOUS
    <3>4. t[k + 1] = t[m - 2] /\ t[k + 2] = t[m - 1] /\ t[k + 3] = t[m]
      BY <3>3, Zenon
    <3>. QED BY <2>2, <3>1, <3>2, <3>4
  <2>5. (\E k \in 0..m : k + 3 = m) <=> m >= 3
    <3>1. m >= 3 => m - 3 \in 0..m /\ (m - 3) + 3 = m
      OBVIOUS
    <3>. QED BY <3>1
  <2>. QED BY <2>1, <2>2, <2>3, <2>4, <2>5
<1>6. <<a, b>> \in SubSeqs(t) <=> \E k \in 1..(m - 1) : t[k] = a /\ t[k + 1] = b
  <2>1. PICK s : s = <<a, b>>
    OBVIOUS
  <2>2. s \in Seq(S) /\ s # <<>> /\ Len(s) = 2 /\ s[1] = a /\ s[2] = b
    BY <2>1
  <2>3. s \in SubSeqs(t) <=> \E k \in 0..m : At(s, t, k)
    BY <1>1, <2>2, PiecesAt
  <2>4. \A k \in 0..m : At(s, t, k) <=> k + 2 <= m /\ t[k + 1] = a /\ t[k + 2] = b
    <3>. SUFFICES ASSUME NEW k \in 0..m PROVE At(s, t, k) <=> k + 2 <= m /\ t[k + 1] = a /\ t[k + 2] = b
      OBVIOUS
    <3>1. At(s, t, k) <=> 2 + k <= m /\ \A i \in 1..2 : s[i] = t[k + i]
      BY <1>1, <2>2, Zenon DEF At
    <3>2. (\A i \in 1..2 : s[i] = t[k + i]) <=> s[1] = t[k + 1] /\ s[2] = t[k + 2]
      OBVIOUS
    <3>. QED BY <2>2, <3>1, <3>2
  <2>5. ASSUME NEW k \in 0..m, k + 2 <= m, t[k + 1] = a, t[k + 2] = b
        PROVE  \E h \in 1..(m - 1) : t[h] = a /\ t[h + 1] = b
    <3>1. PICK h \in 1..(m - 1) : h = k + 1 /\ h + 1 = k + 2
      BY <2>5
    <3>. QED BY <2>5, <3>1, Zenon
  <2>6. ASSUME NEW h \in 1..(m - 1), t[h] = a, t[h + 1] = b
        PROVE  \E k \in 0..m : k + 2 <= m /\ t[k + 1] = a /\ t[k + 2] = b
    <3>1. PICK k \in 0..m : k + 1 = h /\ k + 2 = h + 1 /\ k + 2 <= m
      <4>1. h - 1 \in 0..m /\ (h - 1) + 1 = h /\ (h - 1) + 2 = h + 1 /\ (h - 1) + 2 <= m
        OBVIOUS
      <4>. QED BY <4>1
    <3>. QED BY <2>6, <3>1, Zenon
  <2>. QED BY <2>1, <2>3, <2>4, <2>5, <2>6
<1>7. <<a, g, a>> \in SubSeqs(t) <=> \E k \in 2..(m - 1) : t[k - 1] = a /\ t[k] = g /\ t[k + 1] = a
  <2>1. PICK s : s = <<a, g, a>>
    OBVIOUS
  <2>2. s \in Seq(S) /\ s # <<>> /\ Len(s) = 3 /\ s[1] = a /\ s[2] = g /\ s[3] = a
    BY <2>1
  <2>3. s \in SubSeqs(t) <=> \E k \in 0..m : At(s, t, k)
    BY <1>1, <2>2, PiecesAt
  <2>4. \A k \in 0..m : At(s, t, k) <=> k + 3 <= m /\ t[k + 1] = a /\ t[k + 2] = g /\ t[k + 3] = a
    <3>. SUFFICES ASSUME NEW k \in 0..m
                  PROVE  At(s, t, k) <=> k + 3 <= m /\ t[k + 1] = a /\ t[k + 2] = g /\ t[k + 3] = a
      OBVIOUS
    <3>1. At(s, t, k) <=> 3 + k <= m /\ \A i \in 1..3 : s[i] = t[k + i]
      BY <1>1, <2>2, Zenon DEF At
    <3>2. (\A i \in 1..3 : s[i] = t[k + i]) <=> s[1] = t[k + 1] /\ s[2] = t[k + 2] /\ s[3] = t[k + 3]
      OBVIOUS
    <3>. QED BY <2>2, <3>1, <3>2
  <2>5. ASSUME NEW k \in 0..m, k + 3 <= m, t[k + 1] = a, t[k + 2] = g, t[k + 3] = a
        PROVE  \E h \in 2..(m - 1) : t[h - 1] = a /\ t[h] = g /\ t[h + 1] = a
    <3>1. PICK h \in 2..(m - 1) : h - 1 = k + 1 /\ h = k + 2 /\ h + 1 = k + 3
      BY <2>5
    <3>. QED BY <2>5, <3>1, Zenon
  <2>6. ASSUME NEW h \in 2..(m - 1), t[h - 1] = a, t[h] = g, t[h + 1] = a
        PROVE  \E k \in 0..m : k + 3 <= m /\ t[k + 1] = a /\ t[k + 2] = g /\ t[k + 3] = a
    <3>1. PICK k \in 0..m : k + 1 = h - 1 /\ k + 2 = h /\ k + 3 = h + 1 /\ k + 3 <= m
      <4>1. h - 2 \in 0..m /\ (h - 2) + 1 = h - 1 /\ (h - 2) + 2 = h /\ (h - 2) + 3 = h + 1 /\ (h - 2) + 3 <= m
        OBVIOUS
      <4>. QED BY <4>1
    <3>. QED BY <2>6, <3>1, Zenon
  <2>. QED BY <2>1, <2>3, <2>4, <2>5, <2>6
<1>8. <<a, b, g, a>> \in SubSeqs(t) <=>
        \E k \in 3..(m - 1) : t[k - 2] = a /\ t[k - 1] = b /\ t[k] = g /\ t[k + 1] = a
  <2>1. PICK s : s = <<a, b, g, a>>
    OBVIOUS
  <2>2. s \in Seq(S) /\ s # <<>> /\ Len(s) = 4 /\ s[1] = a /\ s[2] = b /\ s[3] = g /\ s[4] = a
    BY <2>1
  <2>3. s \in SubSeqs(t) <=> \E k \in 0..m : At(s, t, k)
    BY <1>1, <2>2, PiecesAt
  <2>4. \A k \in 0..m : At(s, t, k) <=> k + 4 <= m /\ t[k + 1] = a /\ t[k + 2] = b /\ t[k + 3] = g /\ t[k + 4] = a
    <3>. SUFFICES ASSUME NEW k \in 0..m
                  PROVE  At(s, t, k) <=> k + 4 <= m /\ t[k + 1] = a /\ t[k + 2] = b /\ t[k + 3] = g /\ t[k + 4] = a
      OBVIOUS
    <3>1. At(s, t, k) <=> 4 + k <= m /\ \A i \in 1..4 : s[i] = t[k + i]
      BY <1>1, <2>2, Zenon DEF At
    <3>2. (\A i \in 1..4 : s[i] = t[k + i]) <=> s[1] = t[k + 1] /\ s[2] = t[k + 2] /\ s[3] = t[k + 3] /\ s[4] = t[k + 4]
      OBVIOUS
    <3>. QED BY <2>2, <3>1, <3>2
  <2>5. ASSUME NEW k \in 0..m, k + 4 <= m, t[k + 1] = a, t[k + 2] = b, t[k + 3] = g, t[k + 4] = a
        PROVE  \E h \in 3..(m - 1) : t[h - 2] = a /\ t[h - 1] = b /\ t[h] = g /\ t[h + 1] = a
    <3>1. PICK h \in 3..(m - 1) : h - 2 = k + 1 /\ h - 1 = k + 2 /\ h = k + 3 /\ h + 1 = k + 4
      BY <2>5
    <3>. QED BY <2>5, <3>1, Zenon
  <2>6. ASSUME NEW h \in 3..(m - 1), t[h - 2] = a, t[h - 1] = b, t[h] = g, t[h + 1] = a
        PROVE  \E k \in 0..m : k + 4 <= m /\ t[k + 1] = a /\ t[k + 2] = b /\ t[k + 3] = g /\ t[k + 4] = a
    <3>1. PICK k \in 0..m : k + 1 = h - 2 /\ k + 2 = h - 1 /\ k + 3 = h /\ k + 4 = h + 1 /\ k + 4 <= m
      <4>1. /\ h - 3 \in 0..m /\ (h - 3) + 1 = h - 2 /\ (h - 3) + 2 = h - 1 /\ (h - 3) + 3 = h
            /\ (h - 3) + 4 = h + 1 /\ (h - 3) + 4 <= m
        OBVIOUS
      <4>. QED BY <4>1
    <3>. QED BY <2>6, <3>1, Zenon
  <2>. QED BY <2>1, <2>3, <2>4, <2>5, <2>6
<1>. QED BY <1>1, <1>2, <1>3, <1>4, <1>5, <1>6, <1>7, <1>8, Zenon DEF PiecesOf

\* The filter finds a genre only in texts that have it, and in all that are written as the
\* genres of the library are (observed_genres, music_library).
LEMMA GenreFound ==
  ASSUME NEW text, GenreText(text), NEW g \in GenreNames
  PROVE  /\ HasGenre(text, g) => g \in ObservedGenres(text)
         /\ g \in ObservedGenres(text) /\ Canonical(text) => HasGenre(text, g)
<1>1. PICK a, b, S : a = ";" /\ b = " " /\ S = STRING \cup {";", " "}
  OBVIOUS
<1>2. a \in S /\ b \in S /\ a # b /\ g \in S /\ g # a /\ g # b
  <2>1. g \in STRING /\ g # ";" /\ g # " "
    BY Zenon DEF GenreNames
  <2>2. a # b
    BY <1>1
  <2>3. a \in S /\ b \in S /\ g \in S
    BY <1>1, <2>1, Zenon
  <2>4. g # a /\ g # b
    BY <1>1, <2>1, Zenon
  <2>. QED BY <2>2, <2>3, <2>4
<1>3. /\ text \in Seq(S)
      /\ \A i, j \in DOMAIN text :
           i < j /\ {text[i], text[j]} \cap {a, b} = {} => \E k \in i..j : text[k] = a
  <2>1. PICK T : T = STRING /\ T \subseteq S
    BY <1>1, Zenon
  <2>2. text \in Seq(T)
    BY <2>1, Zenon DEF GenreText
  <2>3. text \in Seq(S)
    BY <2>1, <2>2, WiderSeq
  <2>. QED BY <1>1, <2>3, Zenon DEF GenreText
<1>4. PICK m \in Nat : m = Len(text) /\ DOMAIN text = 1..m
  BY <1>3
<1>10. PiecesOf(text, g, a, b)
  BY <1>2, <1>3, GenrePieces
<1>5. /\ text = <<g>> <=> m = 1 /\ text[1] = g
      /\ IsPrefix(<<g, a>>, text) <=> m >= 2 /\ text[1] = g /\ text[2] = a
      /\ IsSuffix(<<a, g>>, text) <=> m >= 2 /\ text[m - 1] = a /\ text[m] = g
      /\ IsSuffix(<<a, b, g>>, text) <=> m >= 3 /\ text[m - 2] = a /\ text[m - 1] = b /\ text[m] = g
      /\ <<a, g, a>> \in SubSeqs(text) <=>
           \E k \in 2..(m - 1) : text[k - 1] = a /\ text[k] = g /\ text[k + 1] = a
      /\ <<a, b, g, a>> \in SubSeqs(text) <=>
           \E k \in 3..(m - 1) : text[k - 2] = a /\ text[k - 1] = b /\ text[k] = g /\ text[k + 1] = a
  <2>1. /\ text = <<g>> <=> Len(text) = 1 /\ text[1] = g
        /\ IsPrefix(<<g, a>>, text) <=> Len(text) >= 2 /\ text[1] = g /\ text[2] = a
        /\ IsSuffix(<<a, g>>, text) <=> Len(text) >= 2 /\ text[Len(text) - 1] = a /\ text[Len(text)] = g
        /\ IsSuffix(<<a, b, g>>, text) <=>
             Len(text) >= 3 /\ text[Len(text) - 2] = a /\ text[Len(text) - 1] = b /\ text[Len(text)] = g
        /\ <<a, g, a>> \in SubSeqs(text) <=>
             \E k \in 2..(Len(text) - 1) : text[k - 1] = a /\ text[k] = g /\ text[k + 1] = a
        /\ <<a, b, g, a>> \in SubSeqs(text) <=>
             \E k \in 3..(Len(text) - 1) : text[k - 2] = a /\ text[k - 1] = b /\ text[k] = g /\ text[k + 1] = a
    BY <1>10, Zenon DEF PiecesOf
  <2>. QED BY <1>4, <2>1, Zenon
<1>6. HasGenre(text, g) <=>
        \/ m = 1 /\ text[1] = g
        \/ m >= 2 /\ text[1] = g /\ text[2] = a
        \/ m >= 3 /\ text[m - 2] = a /\ text[m - 1] = b /\ text[m] = g
        \/ m >= 2 /\ text[m - 1] = a /\ text[m] = g
        \/ \E k \in 3..(m - 1) : text[k - 2] = a /\ text[k - 1] = b /\ text[k] = g /\ text[k + 1] = a
        \/ \E k \in 2..(m - 1) : text[k - 1] = a /\ text[k] = g /\ text[k + 1] = a
  <2>1. HasGenre(text, g) <=>
          \/ text = <<g>> \/ IsPrefix(<<g, a>>, text)
          \/ IsSuffix(<<a, b, g>>, text) \/ IsSuffix(<<a, g>>, text)
          \/ <<a, b, g, a>> \in SubSeqs(text) \/ <<a, g, a>> \in SubSeqs(text)
    BY <1>1, Zenon DEF HasGenre
  <2>. QED BY <1>5, <2>1, Zenon
<1>7. g \in ObservedGenres(text) <=> \E k \in 1..m : text[k] = g
  <2>1. ObservedGenres(text) = ToSet(text) \ {a, b}
    BY <1>1, Zenon DEF ObservedGenres
  <2>. QED BY <1>2, <1>4, <2>1 DEF ToSet
<1>8. HasGenre(text, g) => \E k \in 1..m : text[k] = g
  BY <1>6
<1>9. ASSUME NEW k \in 1..m, text[k] = g, Canonical(text) PROVE HasGenre(text, g)
  <2>1. /\ \A h \in 1..(m - 1) : ~(text[h] = b /\ text[h + 1] = a)
        /\ \A h \in 1..(m - 1) : ~(text[h] = b /\ text[h + 1] = b)
        /\ text[1] # b /\ text[m] # b
    <3>1. <<b, a>> \in SubSeqs(text) <=> \E h \in 1..(m - 1) : text[h] = b /\ text[h + 1] = a
      <4>0. PiecesOf(text, g, b, a)
        BY <1>2, <1>3, GenrePieces
      <4>1. <<b, a>> \in SubSeqs(text) <=> \E h \in 1..(Len(text) - 1) : text[h] = b /\ text[h + 1] = a
        BY <4>0, Zenon DEF PiecesOf
      <4>. QED BY <1>4, <4>1, Zenon
    <3>2. <<b, b>> \in SubSeqs(text) <=> \E h \in 1..(m - 1) : text[h] = b /\ text[h + 1] = b
      <4>0. PiecesOf(text, g, b, b)
        BY <1>2, <1>3, GenrePieces
      <4>1. <<b, b>> \in SubSeqs(text) <=> \E h \in 1..(Len(text) - 1) : text[h] = b /\ text[h + 1] = b
        BY <4>0, Zenon DEF PiecesOf
      <4>. QED BY <1>4, <4>1, Zenon
    <3>3. /\ <<b, a>> \notin SubSeqs(text) /\ <<b, b>> \notin SubSeqs(text)
          /\ text # <<>> => text[1] # b /\ text[Len(text)] # b
      BY <1>1, <1>9, Zenon DEF Canonical
    <3>4. text # <<>>
      BY <1>4
    <3>. QED BY <1>4, <3>1, <3>2, <3>3, <3>4, Zenon
  <2>2. k = 1 \/ (k >= 2 /\ text[k - 1] = a) \/ (k >= 3 /\ text[k - 2] = a /\ text[k - 1] = b)
    <3>. SUFFICES ASSUME k # 1, text[k - 1] # a PROVE k >= 3 /\ text[k - 2] = a /\ text[k - 1] = b
      OBVIOUS
    <3>1. PICK h \in 1..(m - 1) : h = k - 1 /\ h + 1 = k
      OBVIOUS
    <3>2. text[h] = b
      <4>. SUFFICES ASSUME text[h] # b PROVE FALSE
        OBVIOUS
      <4>1. h \in DOMAIN text /\ k \in DOMAIN text /\ h < k /\ {text[h], text[k]} \cap {a, b} = {}
        BY <1>2, <1>4, <1>9, <3>1
      <4>2. PICK x \in h..k : text[x] = a
        BY <1>3, <4>1
      <4>3. x = h \/ x = k
        BY <3>1
      <4>. QED BY <1>2, <1>9, <3>1, <4>2, <4>3
    <3>3. h # 1
      BY <2>1, <3>2
    <3>4. PICK f \in 1..(m - 1) : f = k - 2 /\ f + 1 = h
      BY <3>1, <3>3
    <3>5. text[f] # b
      BY <2>1, <3>2, <3>4
    <3>6. text[f] = a
      <4>. SUFFICES ASSUME text[f] # a PROVE FALSE
        OBVIOUS
      <4>1. f \in DOMAIN text /\ k \in DOMAIN text /\ f < k /\ {text[f], text[k]} \cap {a, b} = {}
        BY <1>2, <1>4, <1>9, <3>4, <3>5
      <4>2. PICK x \in f..k : text[x] = a
        BY <1>3, <4>1
      <4>3. x = f \/ x = h \/ x = k
        BY <3>1, <3>4
      <4>. QED BY <1>2, <1>9, <3>2, <4>2, <4>3
    <3>. QED BY <3>1, <3>2, <3>4, <3>6
  <2>3. k = m \/ (k + 1 <= m /\ text[k + 1] = a)
    <3>. SUFFICES ASSUME k # m, text[k + 1] # a PROVE FALSE
      OBVIOUS
    <3>1. PICK h \in 2..m : h = k + 1
      OBVIOUS
    <3>2. text[h] = b
      <4>. SUFFICES ASSUME text[h] # b PROVE FALSE
        OBVIOUS
      <4>1. h \in DOMAIN text /\ k \in DOMAIN text /\ k < h /\ {text[k], text[h]} \cap {a, b} = {}
        BY <1>2, <1>4, <1>9, <3>1
      <4>2. PICK x \in k..h : text[x] = a
        BY <1>3, <4>1
      <4>3. x = h \/ x = k
        BY <3>1
      <4>. QED BY <1>2, <1>9, <3>1, <4>2, <4>3
    <3>3. h # m
      BY <2>1, <3>2
    <3>4. PICK f \in 1..m : f = h + 1 /\ h \in 1..(m - 1)
      BY <3>1, <3>3
    <3>5. text[f] # b /\ text[f] # a
      BY <2>1, <3>2, <3>4
    <3>6. f \in DOMAIN text /\ k \in DOMAIN text /\ k < f /\ {text[k], text[f]} \cap {a, b} = {}
      BY <1>2, <1>4, <1>9, <3>1, <3>4, <3>5
    <3>7. PICK x \in k..f : text[x] = a
      BY <1>3, <3>6
    <3>8. x = k \/ x = h \/ x = f
      BY <3>1, <3>4
    <3>. QED BY <1>2, <1>9, <3>2, <3>5, <3>7, <3>8
  <2>4. CASE k = m
    <3>1. k = 1 => m = 1
      BY <2>4
    <3>2. k - 1 = m - 1 /\ k - 2 = m - 2
      BY <2>4
    <3>3. \/ m = 1 /\ text[1] = g
          \/ m >= 2 /\ text[m - 1] = a /\ text[m] = g
          \/ m >= 3 /\ text[m - 2] = a /\ text[m - 1] = b /\ text[m] = g
      BY <1>9, <2>2, <2>4
    <3>. QED BY <1>6, <3>3, Zenon
  <2>5. CASE k + 1 <= m /\ text[k + 1] = a
    <3>1. CASE k = 1
      <4>1. m >= 2 /\ text[1] = g /\ text[2] = a
        BY <1>9, <2>5, <3>1
      <4>. QED BY <1>6, <4>1, Zenon
    <3>2. CASE k >= 2 /\ text[k - 1] = a
      <4>1. k \in 2..(m - 1)
        BY <2>5, <3>2
      <4>. QED BY <1>6, <1>9, <2>5, <3>2, <4>1, Zenon
    <3>3. CASE k >= 3 /\ text[k - 2] = a /\ text[k - 1] = b
      <4>1. k \in 3..(m - 1)
        BY <2>5, <3>3
      <4>. QED BY <1>6, <1>9, <2>5, <3>3, <4>1, Zenon
    <3>. QED BY <2>2, <3>1, <3>2, <3>3
  <2>. QED BY <2>3, <2>4, <2>5
<1>. QED BY <1>7, <1>8, <1>9

-----------------------------------------------------------------------------
(* The filters a reader sees.                                              *)

AllChips == {"q", "genre", "language", "energy", "gender", "rotation", "file", "managed", "follow",
             "channels", "collision"}
TimesOf(e, q) == Occurrences(Matching({e.title}, <<CreditTable(e, {"credited"}), Code(e)>>, q))

Among(value, values) == ToSet(values) # {} => value \in ToSet(values)

\* What one filter asks of an entry.
PassesChip(e, r, c) ==
  /\ c = "q" => TimesOf(e, r.q) # 0
  /\ c = "genre" => (ToSet(r.genre) # {} => \E g \in ToSet(r.genre) : HasGenre(e.genre, g))
  /\ c = "language" => Among(e.language, r.language)
  /\ c = "energy" => Among(e.energy, r.energy)
  /\ c = "gender" => (r.gender # NotGiven => e.gender = r.gender)
  /\ c = "rotation" => (r.facts.rotation # {} => RotationSelects(e, r.facts.rotation))
  /\ c = "file" => (r.facts.file # {} => FileSelects(e, r.facts.file))
  /\ c = "managed" => Answered(r.facts.managed, e.managed)
  /\ c = "follow" => Answered(r.facts.follow, NeedsFollowUp(e))
  /\ c = "channels" => (r.facts.channels # {} => ChannelsSelect(e, r.facts.channels, r.facts.all))
  /\ c = "collision" => (r.facts.collision => Collides(e))

\* What each asks, by its name.
LEMMA ChipAsked ==
  ASSUME NEW e, NEW r
  PROVE  /\ PassesChip(e, r, "q") <=> TimesOf(e, r.q) # 0
         /\ PassesChip(e, r, "genre") <=> (ToSet(r.genre) # {} => \E g \in ToSet(r.genre) : HasGenre(e.genre, g))
         /\ PassesChip(e, r, "language") <=> Among(e.language, r.language)
         /\ PassesChip(e, r, "energy") <=> Among(e.energy, r.energy)
         /\ PassesChip(e, r, "gender") <=> (r.gender # NotGiven => e.gender = r.gender)
         /\ PassesChip(e, r, "rotation") <=> (r.facts.rotation # {} => RotationSelects(e, r.facts.rotation))
         /\ PassesChip(e, r, "file") <=> (r.facts.file # {} => FileSelects(e, r.facts.file))
         /\ PassesChip(e, r, "managed") <=> Answered(r.facts.managed, e.managed)
         /\ PassesChip(e, r, "follow") <=> Answered(r.facts.follow, NeedsFollowUp(e))
         /\ PassesChip(e, r, "channels") <=> (r.facts.channels # {} => ChannelsSelect(e, r.facts.channels, r.facts.all))
         /\ PassesChip(e, r, "collision") <=> (r.facts.collision => Collides(e))
<1>1. PassesChip(e, r, "q") <=> TimesOf(e, r.q) # 0
  BY Zenon DEF PassesChip
<1>2. PassesChip(e, r, "genre") <=> (ToSet(r.genre) # {} => \E g \in ToSet(r.genre) : HasGenre(e.genre, g))
  BY Zenon DEF PassesChip
<1>3. PassesChip(e, r, "language") <=> Among(e.language, r.language)
  BY Zenon DEF PassesChip
<1>4. PassesChip(e, r, "energy") <=> Among(e.energy, r.energy)
  BY Zenon DEF PassesChip
<1>5. PassesChip(e, r, "gender") <=> (r.gender # NotGiven => e.gender = r.gender)
  BY Zenon DEF PassesChip
<1>6. PassesChip(e, r, "rotation") <=> (r.facts.rotation # {} => RotationSelects(e, r.facts.rotation))
  BY Zenon DEF PassesChip
<1>7. PassesChip(e, r, "file") <=> (r.facts.file # {} => FileSelects(e, r.facts.file))
  BY Zenon DEF PassesChip
<1>8. PassesChip(e, r, "managed") <=> Answered(r.facts.managed, e.managed)
  BY Zenon DEF PassesChip
<1>9. PassesChip(e, r, "follow") <=> Answered(r.facts.follow, NeedsFollowUp(e))
  BY Zenon DEF PassesChip
<1>10. PassesChip(e, r, "channels") <=> (r.facts.channels # {} => ChannelsSelect(e, r.facts.channels, r.facts.all))
  BY Zenon DEF PassesChip
<1>11. PassesChip(e, r, "collision") <=> (r.facts.collision => Collides(e))
  BY Zenon DEF PassesChip
<1>. QED BY <1>1, <1>2, <1>3, <1>4, <1>5, <1>6, <1>7, <1>8, <1>9, <1>10, <1>11, Zenon

\* A valid form lists what passes each filter.
LEMMA ListedByChips ==
  ASSUME NEW db, NEW i \in DOMAIN db.entries, NEW r, FormValid(db, r)
  PROVE  LibraryTimes(db, r)[i] = IF \A c \in AllChips : PassesChip(db.entries[i], r, c) THEN 1 ELSE 0
<1>1. PICK e : e = db.entries[i]
  OBVIOUS
<1>2. TimesOf(e, r.q) \in {0, 1}
  BY DEF TimesOf, Occurrences
<1>3. LibraryTimes(db, r)[i] = IF ~LibrarySelects(e, r) THEN 0 ELSE TimesOf(e, r.q)
  BY <1>1 DEF LibraryTimes, TimesOf
<1>4. (\A c \in AllChips : PassesChip(e, r, c)) <=> LibrarySelects(e, r) /\ TimesOf(e, r.q) # 0
  <2>1. ASSUME \A c \in AllChips : PassesChip(e, r, c) PROVE LibrarySelects(e, r) /\ TimesOf(e, r.q) # 0
    <3>1. /\ PassesChip(e, r, "q") /\ PassesChip(e, r, "genre") /\ PassesChip(e, r, "language")
          /\ PassesChip(e, r, "energy") /\ PassesChip(e, r, "gender") /\ PassesChip(e, r, "rotation")
          /\ PassesChip(e, r, "file") /\ PassesChip(e, r, "managed") /\ PassesChip(e, r, "follow")
          /\ PassesChip(e, r, "channels") /\ PassesChip(e, r, "collision")
      BY <2>1 DEF AllChips
    <3>. QED BY <3>1, Zenon DEF PassesChip, LibrarySelects, Selects, Among
  <2>2. ASSUME LibrarySelects(e, r), TimesOf(e, r.q) # 0 PROVE \A c \in AllChips : PassesChip(e, r, c)
    BY <2>2, Zenon DEF PassesChip, LibrarySelects, Selects, Among
  <2>. QED BY <2>1, <2>2
<1>. QED BY <1>1, <1>2, <1>3, <1>4

\* Only the filters that are shown ask for anything.
LEMMA UnshownPass ==
  ASSUME NEW db, NEW r \in LibraryRequest, FormValid(db, r), NEW c \in AllChips \ Chips(db, r), NEW e
  PROVE  PassesChip(e, r, c)
<1>1. c \in AllChips /\ ~(c \in Chips(db, r))
  OBVIOUS
<1>2. /\ r \in [q : Sought, genre : Seq(GenreNames), language : Seq(STRING), energy : Seq(Int), gender : Choice,
                facts : [rotation : SUBSET STRING, file : SUBSET STRING, channels : SUBSET STRING, all : BOOLEAN,
                         managed : SUBSET STRING, follow : SUBSET STRING, collision : BOOLEAN],
                by : {"title", "artist", "isrc", "duration", "energy", "file_status", "managed", "follow_up", "updated"},
                down : BOOLEAN, page : Int, all : BOOLEAN, selected : Nat, fragment : BOOLEAN]
  BY Zenon DEF LibraryRequest
<1>3. {"rotation", "file", "managed", "follow", "channels"} \subseteq DOMAIN r.facts
  BY <1>2
<1>4. Chips(db, r) = {a \in AllChips :
          \/ a = "q" /\ r.q # <<>>
          \/ a = "gender" /\ r.gender # NotGiven
          \/ a \in {"genre", "language", "energy"} /\ ToSet(r[a]) # {}
          \/ a = "collision" /\ r.facts.collision
          \/ a \in DOMAIN r.facts \ {"collision"} /\ r.facts[a] # {}}
  BY Zenon DEF Chips, AllChips
<1>5. CASE c = "q"
  <2>1. r.q = <<>>
    BY <1>1, <1>4, <1>5
  <2>2. TimesOf(e, r.q) = 1
    BY <2>1 DEF TimesOf, Occurrences, Matching
  <2>. QED BY <1>5, <2>2, ChipAsked
<1>6. CASE c = "gender"
  <2>1. r.gender = NotGiven
    BY <1>1, <1>4, <1>6
  <2>. QED BY <1>6, <2>1, ChipAsked
<1>7. CASE c \in {"genre", "language", "energy"}
  <2>1. ToSet(r[c]) = {}
    BY <1>1, <1>4, <1>7
  <2>. QED BY <1>7, <2>1, ChipAsked DEF Among
<1>8. CASE c = "collision"
  <2>1. ~r.facts.collision
    BY <1>1, <1>4, <1>8
  <2>. QED BY <1>8, <2>1, ChipAsked
<1>9. CASE c \in {"rotation", "file", "managed", "follow", "channels"}
  <2>1. r.facts[c] = {}
    BY <1>1, <1>3, <1>4, <1>9
  <2>2. \A fact : Answered({}, fact)
    BY DEF Answered
  <2>3. CASE c = "rotation"
    <3>1. r.facts.rotation = {}
      BY <2>1, <2>3
    <3>2. PassesChip(e, r, "rotation")
      BY <2>2, <3>1, ChipAsked, Zenon
    <3>. QED BY <2>3, <3>2
  <2>4. CASE c = "file"
    <3>1. r.facts.file = {}
      BY <2>1, <2>4
    <3>2. PassesChip(e, r, "file")
      BY <2>2, <3>1, ChipAsked, Zenon
    <3>. QED BY <2>4, <3>2
  <2>5. CASE c = "managed"
    <3>1. r.facts.managed = {}
      BY <2>1, <2>5
    <3>2. PassesChip(e, r, "managed")
      BY <2>2, <3>1, ChipAsked, Zenon
    <3>. QED BY <2>5, <3>2
  <2>6. CASE c = "follow"
    <3>1. r.facts.follow = {}
      BY <2>1, <2>6
    <3>2. PassesChip(e, r, "follow")
      BY <2>2, <3>1, ChipAsked, Zenon
    <3>. QED BY <2>6, <3>2
  <2>7. CASE c = "channels"
    <3>1. r.facts.channels = {}
      BY <2>1, <2>7
    <3>2. PassesChip(e, r, "channels")
      BY <2>2, <3>1, ChipAsked, Zenon
    <3>. QED BY <2>7, <3>2
  <2>. QED BY <1>9, <2>3, <2>4, <2>5, <2>6, <2>7
<1>. QED BY <1>1, <1>5, <1>6, <1>7, <1>8, <1>9 DEF AllChips

\* A request without one filter, and otherwise the same.
Without(r, t, c) ==
  /\ t \in LibraryRequest
  /\ t.q = (IF c = "q" THEN <<>> ELSE r.q) /\ t.genre = (IF c = "genre" THEN <<>> ELSE r.genre)
  /\ t.language = (IF c = "language" THEN <<>> ELSE r.language)
  /\ t.energy = (IF c = "energy" THEN <<>> ELSE r.energy)
  /\ t.gender = (IF c = "gender" THEN NotGiven ELSE r.gender)
  /\ t.facts.rotation = (IF c = "rotation" THEN {} ELSE r.facts.rotation)
  /\ t.facts.file = (IF c = "file" THEN {} ELSE r.facts.file)
  /\ t.facts.managed = (IF c = "managed" THEN {} ELSE r.facts.managed)
  /\ t.facts.follow = (IF c = "follow" THEN {} ELSE r.facts.follow)
  /\ t.facts.channels = (IF c = "channels" THEN {} ELSE r.facts.channels)
  /\ t.facts.all = (IF c = "channels" THEN FALSE ELSE r.facts.all)
  /\ t.facts.collision = (IF c = "collision" THEN FALSE ELSE r.facts.collision)

LEMMA ChipDropped ==
  ASSUME NEW r \in LibraryRequest, NEW c \in AllChips
  PROVE  Without(r, WithoutChip(r, c), c)
<1>1. PICK facts, F : /\ facts = r.facts
                      /\ F = [rotation : SUBSET STRING, file : SUBSET STRING, channels : SUBSET STRING, all : BOOLEAN,
                              managed : SUBSET STRING, follow : SUBSET STRING, collision : BOOLEAN]
  OBVIOUS
<1>2. PICK Q, G, L, N, H, B :
        Q = Sought /\ G = Seq(GenreNames) /\ L = Seq(STRING) /\ N = Seq(Int) /\ H = Choice
        /\ B = {"title", "artist", "isrc", "duration", "energy", "file_status", "managed", "follow_up", "updated"}
  OBVIOUS
<1>3. LibraryRequest = [q : Q, genre : G, language : L, energy : N, gender : H, facts : F, by : B,
                        down : BOOLEAN, page : Int, all : BOOLEAN, selected : Nat, fragment : BOOLEAN]
  BY <1>1, <1>2, Zenon DEF LibraryRequest
<1>4. <<>> \in Q /\ <<>> \in G /\ <<>> \in L /\ <<>> \in N /\ NotGiven \in H
  <2>1. NotGiven \in H
    BY <1>2, Zenon DEF Choice
  <2>2. <<>> \in Q
    BY <1>2 DEF Sought
  <2>3. <<>> \in G /\ <<>> \in L /\ <<>> \in N
    BY <1>2
  <2>. QED BY <2>1, <2>2, <2>3
<1>5. r \in [q : Q, genre : G, language : L, energy : N, gender : H, facts : F, by : B,
             down : BOOLEAN, page : Int, all : BOOLEAN, selected : Nat, fragment : BOOLEAN]
  BY <1>3
<1>6. PICK first : first = [r EXCEPT !.page = 1]
  OBVIOUS
<1>7. /\ first \in [q : Q, genre : G, language : L, energy : N, gender : H, facts : F, by : B,
                    down : BOOLEAN, page : Int, all : BOOLEAN, selected : Nat, fragment : BOOLEAN]
      /\ first.q = r.q /\ first.genre = r.genre /\ first.language = r.language /\ first.energy = r.energy
      /\ first.gender = r.gender /\ first.facts = facts
  BY <1>1, <1>5, <1>6
<1>8. PICK t : t = WithoutChip(r, c)
  OBVIOUS
<1>9. WithoutChip(r, c) =
        CASE c \in {"q", "genre", "language", "energy"} -> [first EXCEPT ![c] = <<>>]
          [] c = "gender"    -> [first EXCEPT !.gender = NotGiven]
          [] c = "collision" -> [first EXCEPT !.facts.collision = FALSE]
          [] c = "channels"  -> [first EXCEPT !.facts.channels = {}, !.facts.all = FALSE]
          [] OTHER           -> [first EXCEPT !.facts[c] = {}]
  BY <1>6, Zenon DEF WithoutChip
<1>10. CASE c \in {"q", "genre", "language", "energy"}
  <2>1. t = [first EXCEPT ![c] = <<>>]
    BY <1>8, <1>9, <1>10
  <2>2. CASE c = "q"
    BY <1>1, <1>3, <1>4, <1>7, <1>8, <2>1, <2>2 DEF Without
  <2>3. CASE c = "genre"
    BY <1>1, <1>3, <1>4, <1>7, <1>8, <2>1, <2>3 DEF Without
  <2>4. CASE c = "language"
    BY <1>1, <1>3, <1>4, <1>7, <1>8, <2>1, <2>4 DEF Without
  <2>5. CASE c = "energy"
    BY <1>1, <1>3, <1>4, <1>7, <1>8, <2>1, <2>5 DEF Without
  <2>. QED BY <1>10, <2>2, <2>3, <2>4, <2>5
<1>11. CASE c = "gender"
  <2>1. t = [first EXCEPT !.gender = NotGiven]
    BY <1>8, <1>9, <1>11
  <2>. QED BY <1>1, <1>3, <1>4, <1>7, <1>8, <1>11, <2>1 DEF Without
<1>12. CASE c = "collision"
  <2>1. t = [first EXCEPT !.facts.collision = FALSE]
    BY <1>8, <1>9, <1>12
  <2>2. PICK f : f = [facts EXCEPT !.collision = FALSE]
    OBVIOUS
  <2>3. /\ f \in F /\ f.rotation = facts.rotation /\ f.file = facts.file /\ f.managed = facts.managed
        /\ f.follow = facts.follow /\ f.channels = facts.channels /\ f.all = facts.all /\ f.collision = FALSE
    BY <1>1, <1>7, <2>2
  <2>4. t = [first EXCEPT !.facts = f]
    BY <1>7, <2>1, <2>2
  <2>. QED BY <1>1, <1>3, <1>4, <1>7, <1>8, <1>12, <2>3, <2>4 DEF Without
<1>13. CASE c = "channels"
  <2>1. t = [first EXCEPT !.facts.channels = {}, !.facts.all = FALSE]
    BY <1>8, <1>9, <1>13
  <2>2. PICK f : f = [facts EXCEPT !.channels = {}, !.all = FALSE]
    OBVIOUS
  <2>3. /\ f \in F /\ f.rotation = facts.rotation /\ f.file = facts.file /\ f.managed = facts.managed
        /\ f.follow = facts.follow /\ f.channels = {} /\ f.all = FALSE /\ f.collision = facts.collision
    BY <1>1, <1>7, <2>2
  <2>4. t = [first EXCEPT !.facts = f]
    BY <1>7, <2>1, <2>2
  <2>. QED BY <1>1, <1>3, <1>4, <1>7, <1>8, <1>13, <2>3, <2>4 DEF Without
<1>14. CASE c \in {"rotation", "file", "managed", "follow"}
  <2>1. t = [first EXCEPT !.facts[c] = {}]
    BY <1>8, <1>9, <1>14
  <2>2. CASE c = "rotation"
    BY <1>1, <1>3, <1>4, <1>7, <1>8, <2>1, <2>2 DEF Without
  <2>3. CASE c = "file"
    BY <1>1, <1>3, <1>4, <1>7, <1>8, <2>1, <2>3 DEF Without
  <2>4. CASE c = "managed"
    BY <1>1, <1>3, <1>4, <1>7, <1>8, <2>1, <2>4 DEF Without
  <2>5. CASE c = "follow"
    BY <1>1, <1>3, <1>4, <1>7, <1>8, <2>1, <2>5 DEF Without
  <2>. QED BY <1>14, <2>2, <2>3, <2>4, <2>5
<1>. QED BY <1>10, <1>11, <1>12, <1>13, <1>14 DEF AllChips

\* It is valid, and asks the same but for that filter.
LEMMA OthersAsk ==
  ASSUME NEW db, NEW r \in LibraryRequest, FormValid(db, r), NEW c \in AllChips
  PROVE  LET t == WithoutChip(r, c)
         IN  /\ t \in LibraryRequest /\ FormValid(db, t)
             /\ \A i \in DOMAIN db.entries, a \in AllChips :
                  (PassesChip(db.entries[i], t, a) <=> a = c \/ PassesChip(db.entries[i], r, a))
<1>1. PICK t : t = WithoutChip(r, c)
  OBVIOUS
<1>2. Without(r, t, c)
  BY <1>1, ChipDropped
<1>3. t \in LibraryRequest
  BY <1>2 DEF Without
<1>4. FormValid(db, t)
  <2>1. LastOf(<<>>, NotGiven) = NotGiven /\ LastOf(<<>>, 0) = 0
    BY Zenon DEF LastOf
  <2>2. PICK G, L : G = {NotGiven} \cup UNION {ObservedGenres(e.genre) : e \in ToSet(db.entries)}
                    /\ L = {NotGiven} \cup {e.language : e \in ToSet(db.entries)}
    OBVIOUS
  <2>3. /\ LastOf(r.genre, NotGiven) \in G /\ LastOf(r.language, NotGiven) \in L
        /\ LastOf(r.energy, 0) \in 0..5 /\ r.facts.channels \subseteq db.channels
    BY <2>2, Zenon DEF FormValid
  <2>4. NotGiven \in G /\ NotGiven \in L /\ 0 \in 0..5
    BY <2>2
  <2>5. LastOf(t.genre, NotGiven) \in G
    BY <1>2, <2>1, <2>3, <2>4, Zenon DEF Without
  <2>6. LastOf(t.language, NotGiven) \in L
    BY <1>2, <2>1, <2>3, <2>4, Zenon DEF Without
  <2>7. LastOf(t.energy, 0) \in 0..5
    BY <1>2, <2>1, <2>3, <2>4, Zenon DEF Without
  <2>8. t.facts.channels \subseteq db.channels
    BY <1>2, <2>3 DEF Without
  <2>. QED BY <2>2, <2>5, <2>6, <2>7, <2>8, Zenon DEF FormValid
<1>5. \A i \in DOMAIN db.entries, a \in AllChips :
        (PassesChip(db.entries[i], t, a) <=> a = c \/ PassesChip(db.entries[i], r, a))
  <2>. SUFFICES ASSUME NEW i \in DOMAIN db.entries, NEW a \in AllChips, NEW e, e = db.entries[i]
                PROVE  PassesChip(e, t, a) <=> a = c \/ PassesChip(e, r, a)
    OBVIOUS
  <2>1. CASE a = c
    <3>1. TimesOf(e, <<>>) = 1
      BY DEF TimesOf, Occurrences, Matching
    <3>2. ToSet(<<>>) = {}
      BY DEF ToSet
    <3>3. \A fact : Answered({}, fact)
      BY DEF Answered
    <3>4. /\ c = "q" => t.q = <<>>
          /\ c = "genre" => t.genre = <<>>
          /\ c = "language" => t.language = <<>>
          /\ c = "energy" => t.energy = <<>>
          /\ c = "gender" => t.gender = NotGiven
          /\ c = "rotation" => t.facts.rotation = {}
          /\ c = "file" => t.facts.file = {}
          /\ c = "managed" => t.facts.managed = {}
          /\ c = "follow" => t.facts.follow = {}
          /\ c = "channels" => t.facts.channels = {}
          /\ c = "collision" => ~t.facts.collision
      BY <1>2 DEF Without
    <3>5. PassesChip(e, t, c)
      <4>1. CASE c = "q"
        <5>1. PassesChip(e, t, "q")
          <6>1. TimesOf(e, t.q) # 0
            BY <3>1, <3>4, <4>1
          <6>. QED BY <6>1, ChipAsked, Zenon
        <5>. QED BY <4>1, <5>1
      <4>2. CASE c = "genre"
        <5>1. PassesChip(e, t, "genre")
          <6>1. ToSet(t.genre) = {}
            BY <3>2, <3>4, <4>2
          <6>. QED BY <6>1, ChipAsked
        <5>. QED BY <4>2, <5>1
      <4>3. CASE c = "language"
        <5>1. PassesChip(e, t, "language")
          BY <3>1, <3>2, <3>3, <3>4, <4>3, ChipAsked, Zenon DEF Among
        <5>. QED BY <4>3, <5>1
      <4>4. CASE c = "energy"
        <5>1. PassesChip(e, t, "energy")
          BY <3>1, <3>2, <3>3, <3>4, <4>4, ChipAsked, Zenon DEF Among
        <5>. QED BY <4>4, <5>1
      <4>5. CASE c = "gender"
        <5>1. PassesChip(e, t, "gender")
          BY <3>1, <3>2, <3>3, <3>4, <4>5, ChipAsked, Zenon DEF Among
        <5>. QED BY <4>5, <5>1
      <4>6. CASE c = "rotation"
        <5>1. PassesChip(e, t, "rotation")
          BY <3>1, <3>2, <3>3, <3>4, <4>6, ChipAsked, Zenon DEF Among
        <5>. QED BY <4>6, <5>1
      <4>7. CASE c = "file"
        <5>1. PassesChip(e, t, "file")
          BY <3>1, <3>2, <3>3, <3>4, <4>7, ChipAsked, Zenon DEF Among
        <5>. QED BY <4>7, <5>1
      <4>8. CASE c = "managed"
        <5>1. PassesChip(e, t, "managed")
          BY <3>1, <3>2, <3>3, <3>4, <4>8, ChipAsked, Zenon DEF Among
        <5>. QED BY <4>8, <5>1
      <4>9. CASE c = "follow"
        <5>1. PassesChip(e, t, "follow")
          BY <3>1, <3>2, <3>3, <3>4, <4>9, ChipAsked, Zenon DEF Among
        <5>. QED BY <4>9, <5>1
      <4>10. CASE c = "channels"
        <5>1. PassesChip(e, t, "channels")
          BY <3>1, <3>2, <3>3, <3>4, <4>10, ChipAsked, Zenon DEF Among
        <5>. QED BY <4>10, <5>1
      <4>11. CASE c = "collision"
        <5>1. PassesChip(e, t, "collision")
          BY <3>1, <3>2, <3>3, <3>4, <4>11, ChipAsked, Zenon DEF Among
        <5>. QED BY <4>11, <5>1
      <4>. QED BY <4>1, <4>2, <4>3, <4>4, <4>5, <4>6, <4>7, <4>8, <4>9, <4>10, <4>11 DEF AllChips
    <3>. QED BY <2>1, <3>5
  <2>2. CASE a # c
    <3>1. CASE a = "q"
      BY <1>2, <2>2, <3>1, ChipAsked DEF Without
    <3>2. CASE a = "genre"
      <4>1. t.genre = r.genre
        BY <1>2, <2>2, <3>2 DEF Without
      <4>2. PassesChip(e, t, "genre") <=> PassesChip(e, r, "genre")
        BY <4>1, ChipAsked, Zenon
      <4>. QED BY <2>2, <3>2, <4>2
    <3>3. CASE a = "language"
      <4>1. t.language = r.language
        BY <1>2, <2>2, <3>3 DEF Without
      <4>2. PassesChip(e, t, "language") <=> PassesChip(e, r, "language")
        BY <4>1, ChipAsked, Zenon
      <4>. QED BY <2>2, <3>3, <4>2
    <3>4. CASE a = "energy"
      <4>1. t.energy = r.energy
        BY <1>2, <2>2, <3>4 DEF Without
      <4>2. PassesChip(e, t, "energy") <=> PassesChip(e, r, "energy")
        BY <4>1, ChipAsked, Zenon
      <4>. QED BY <2>2, <3>4, <4>2
    <3>5. CASE a = "gender"
      BY <1>2, <2>2, <3>5, ChipAsked DEF Without
    <3>6. CASE a = "rotation"
      BY <1>2, <2>2, <3>6, ChipAsked DEF Without
    <3>7. CASE a = "file"
      BY <1>2, <2>2, <3>7, ChipAsked DEF Without
    <3>8. CASE a = "managed"
      BY <1>2, <2>2, <3>8, ChipAsked DEF Without
    <3>9. CASE a = "follow"
      BY <1>2, <2>2, <3>9, ChipAsked DEF Without
    <3>10. CASE a = "channels"
      BY <1>2, <2>2, <3>10, ChipAsked DEF Without
    <3>11. CASE a = "collision"
      BY <1>2, <2>2, <3>11, ChipAsked DEF Without
    <3>. QED BY <3>1, <3>2, <3>3, <3>4, <3>5, <3>6, <3>7, <3>8, <3>9, <3>10, <3>11 DEF AllChips
  <2>. QED BY <2>1, <2>2
<1>. QED BY <1>1, <1>3, <1>4, <1>5

-----------------------------------------------------------------------------
(* The library under its filters.                                          *)

\* Requests that are valid.
ValidRequest(db) == {s \in LibraryRequest : FormValid(db, s)}

\* g has the requests without the first filters of the list.
DroppedOneByOne(db, r, list, g) ==
  /\ g[0] = r /\ g[Len(list)] = FoldLeft(WithoutChip, r, list)
  /\ \A k \in 0..Len(list) : g[k] \in ValidRequest(db)
  /\ \A k \in 1..Len(list) : g[k] = WithoutChip(g[k - 1], list[k])

\* The filters are dropped in turn.
LEMMA FiltersDropped ==
  ASSUME NEW db, NEW r \in ValidRequest(db), NEW list \in Seq(AllChips)
  PROVE  \E g : DroppedOneByOne(db, r, list, g)
<1>. DEFINE Drops(f) == f = [S \in SUBSET DOMAIN list |->
                               IF S = {} THEN r ELSE WithoutChip(f[S \ {Max(S)}], list[Max(S)])]
<1>1. PICK c : c = CHOOSE f : Drops(f)
  OBVIOUS
<1>2. FoldLeft(WithoutChip, r, list) = c[DOMAIN list]
  BY <1>1, Zenon DEF FoldLeft, MapThenFoldSet
<1>3. PICK m \in Nat : m = Len(list) /\ DOMAIN list = 1..m
  OBVIOUS
<1>4. PICK Q : Q = ValidRequest(db)
  OBVIOUS
<1>5. \A s \in Q, k \in 1..m : WithoutChip(s, list[k]) \in Q
  <2>. SUFFICES ASSUME NEW s \in Q, NEW k \in 1..m PROVE WithoutChip(s, list[k]) \in Q
    OBVIOUS
  <2>1. list[k] \in AllChips
    BY <1>3
  <2>2. s \in LibraryRequest /\ FormValid(db, s)
    BY <1>4, Zenon DEF ValidRequest
  <2>3. WithoutChip(s, list[k]) \in LibraryRequest /\ FormValid(db, WithoutChip(s, list[k]))
    BY <2>1, <2>2, OthersAsk, Zenon
  <2>. QED BY <1>4, <2>3, Zenon DEF ValidRequest
<1>6. PICK step \in [Q \X (1..m) -> Q] :
        \A k \in 1..m, s \in Q : step[<<s, k>>] = WithoutChip(s, list[k])
  <2>1. [x \in Q \X (1..m) |-> WithoutChip(x[1], list[x[2]])] \in [Q \X (1..m) -> Q]
    BY <1>5
  <2>. QED BY <2>1
<1>7. r \in Q
  BY <1>4
<1>8. PICK f : Folds(m, Q, r, step, f)
  BY <1>6, <1>7, FoldDefined
<1>9. Drops(f)
  <2>1. ASSUME NEW S \in SUBSET (1..m), S # {}
        PROVE  f[S] = WithoutChip(f[S \ {Max(S)}], list[Max(S)])
    <3>1. PICK x : x = Max(S)
      OBVIOUS
    <3>2. x \in 1..m /\ S \ {x} \in SUBSET (1..m)
      BY <2>1, <3>1, LastPosition
    <3>. QED BY <1>6, <1>8, <2>1, <3>1, <3>2 DEF Folds
  <2>2. f = [S \in SUBSET (1..m) |->
               IF S = {} THEN r ELSE WithoutChip(f[S \ {Max(S)}], list[Max(S)])]
    BY <1>8, <2>1 DEF Folds
  <2>. QED BY <1>3, <2>2
<1>10. Drops(c)
  BY <1>1, <1>9, Zenon
<1>11. c[{}] = r /\ \A k \in 1..m : c[1..k] = WithoutChip(c[1..(k - 1)], list[k])
  <2>1. ASSUME NEW k \in 1..m PROVE c[1..k] = WithoutChip(c[1..(k - 1)], list[k])
    <3>1. 1..k \in SUBSET DOMAIN list /\ 1..k # {} /\ k \in Nat /\ k > 0
      <4>1. 1..k \subseteq 1..m /\ k \in 1..k /\ k \in Nat /\ k > 0
        OBVIOUS
      <4>2. 1..k # {}
        BY <4>1
      <4>. QED BY <1>3, <4>1, <4>2
    <3>2. Max(1..k) = k /\ (1..k) \ {Max(1..k)} = 1..(k - 1)
      BY <3>1, LastOfSegment
    <3>3. c[1..k] = WithoutChip(c[(1..k) \ {Max(1..k)}], list[Max(1..k)])
      BY <1>10, <3>1
    <3>. QED BY <3>2, <3>3
  <2>2. {} \in SUBSET DOMAIN list
    OBVIOUS
  <2>. QED BY <1>10, <2>1, <2>2
<1>12. Follows(m, Q, r, step, c)
  BY <1>6, <1>11 DEF Follows
<1>13. PICK g : Runs(m, Q, r, step, c, g)
  BY <1>6, <1>7, <1>12, FoldRuns
<1>14. \A k \in 1..m : g[k - 1] \in Q /\ g[k] = WithoutChip(g[k - 1], list[k])
  <2>1. \A k \in 1..m : k - 1 \in 0..m
    OBVIOUS
  <2>. QED BY <1>6, <1>13, <2>1 DEF Runs
<1>15. g[0] = r /\ g[m] = FoldLeft(WithoutChip, r, list) /\ \A k \in 0..m : g[k] \in Q
  BY <1>2, <1>3, <1>13 DEF Runs
<1>. QED BY <1>3, <1>4, <1>14, <1>15, Zenon DEF DroppedOneByOne

\* Without some of the filters, the others ask what they did.
LEMMA AskedByOthers ==
  ASSUME NEW db, NEW r \in ValidRequest(db), NEW list \in Seq(AllChips)
  PROVE  LET s == FoldLeft(WithoutChip, r, list)
         IN  /\ s \in ValidRequest(db)
             /\ \A i \in DOMAIN db.entries, a \in AllChips :
                  (PassesChip(db.entries[i], s, a) <=> a \in ToSet(list) \/ PassesChip(db.entries[i], r, a))
<1>1. PICK g : DroppedOneByOne(db, r, list, g)
  BY FiltersDropped
<1>2. PICK m \in Nat : m = Len(list) /\ DOMAIN list = 1..m
  OBVIOUS
<1>3. PICK first : first = [k \in 0..m |-> {list[j] : j \in 1..k}]
  OBVIOUS
<1>4. PICK A : A = {k \in 0..m : \A i \in DOMAIN db.entries, a \in AllChips :
                      (PassesChip(db.entries[i], g[k], a) <=> a \in first[k] \/ PassesChip(db.entries[i], r, a))}
  OBVIOUS
<1>5. 0 \in A
  <2>1. g[0] = r
    BY <1>1 DEF DroppedOneByOne
  <2>2. first[0] = {} /\ 0 \in 0..m
    BY <1>3
  <2>. QED BY <1>4, <2>1, <2>2
<1>6. ASSUME NEW k \in 0..m, k \in A, k < m PROVE k + 1 \in A
  <2>1. k + 1 \in 1..m /\ (k + 1) - 1 = k /\ k + 1 \in 0..m
    BY <1>6
  <2>2. PICK c, s, t : c \in AllChips /\ c = list[k + 1] /\ s = g[k] /\ t = g[k + 1]
    BY <1>2, <2>1
  <2>3. t = WithoutChip(s, c) /\ s \in ValidRequest(db)
    <3>1. \A n \in 0..m : g[n] \in ValidRequest(db)
      BY <1>1, <1>2, Zenon DEF DroppedOneByOne
    <3>2. \A n \in 1..m : g[n] = WithoutChip(g[n - 1], list[n])
      BY <1>1, <1>2, Zenon DEF DroppedOneByOne
    <3>3. g[k + 1] = WithoutChip(g[(k + 1) - 1], list[k + 1])
      BY <2>1, <3>2
    <3>. QED BY <2>1, <2>2, <3>1, <3>3
  <2>4. s \in LibraryRequest /\ FormValid(db, s)
    BY <2>3, Zenon DEF ValidRequest
  <2>5. \A i \in DOMAIN db.entries, a \in AllChips :
          (PassesChip(db.entries[i], t, a) <=> a = c \/ PassesChip(db.entries[i], s, a))
    <3>1. \A i \in DOMAIN db.entries, a \in AllChips :
            (PassesChip(db.entries[i], WithoutChip(s, c), a) <=> a = c \/ PassesChip(db.entries[i], s, a))
      BY <2>2, <2>4, OthersAsk
    <3>. QED BY <2>3, <3>1
  <2>6. \A i \in DOMAIN db.entries, a \in AllChips :
          (PassesChip(db.entries[i], s, a) <=> a \in first[k] \/ PassesChip(db.entries[i], r, a))
    BY <1>4, <1>6, <2>2
  <2>7. \A a : a \in first[k + 1] <=> a = c \/ a \in first[k]
    <3>1. \A j \in 1..(k + 1) : j \in 1..k \/ j = k + 1
      OBVIOUS
    <3>2. \A j \in 1..k : j \in 1..(k + 1)
      OBVIOUS
    <3>3. k + 1 \in 1..(k + 1)
      OBVIOUS
    <3>4. first[k + 1] = {list[j] : j \in 1..(k + 1)} /\ first[k] = {list[j] : j \in 1..k}
      BY <1>3, <2>1
    <3>. QED BY <2>2, <3>1, <3>2, <3>3, <3>4
  <2>8. \A i \in DOMAIN db.entries, a \in AllChips :
          (PassesChip(db.entries[i], t, a) <=> a \in first[k + 1] \/ PassesChip(db.entries[i], r, a))
    BY <2>5, <2>6, <2>7, Zenon
  <2>. QED BY <1>4, <2>1, <2>2, <2>8
<1>7. m \in A
  BY <1>5, <1>6, UpTo
<1>8. first[m] = ToSet(list)
  BY <1>2, <1>3 DEF ToSet
<1>9. g[m] = FoldLeft(WithoutChip, r, list) /\ g[m] \in ValidRequest(db)
  <2>1. m \in 0..m
    OBVIOUS
  <2>. QED BY <1>1, <1>2, <2>1, Zenon DEF DroppedOneByOne
<1>. QED BY <1>4, <1>7, <1>8, <1>9

\* A finite set as a list has all of its elements.
LEMMA ListedSet ==
  ASSUME NEW S, IsFiniteSet(S)
  PROVE  SetToSeq(S) \in Seq(S) /\ ToSet(SetToSeq(S)) = S
<1>1. PICK n \in Nat : n = Cardinality(S)
  BY FS_CardinalityType
<1>2. \E f \in Bijection(1..n, S) : TRUE
  BY <1>1, FS_CardinalityType DEF ExistsBijection
<1>3. \E f \in [1..n -> S] : IsInjective(f)
  <2>1. PICK f : f \in Bijection(1..n, S)
    BY <1>2
  <2>2. f \in Injection(1..n, S)
    BY <2>1 DEF Bijection
  <2>. QED BY <2>2, Zenon DEF Injection
<1>4. PICK list : list = SetToSeq(S)
  OBVIOUS
<1>5. list \in [1..n -> S] /\ IsInjective(list)
  BY <1>1, <1>3, <1>4 DEF SetToSeq
<1>6. list \in Surjection(1..n, S)
  <2>1. IsFiniteSet(1..n) /\ Cardinality(1..n) = n
    BY FS_Interval
  <2>2. list \in Injection(1..n, S)
    BY <1>5 DEF Injection
  <2>. QED BY <1>1, <2>1, <2>2, FS_Injection
<1>7. ToSet(list) = S
  <2>1. DOMAIN list = 1..n
    BY <1>5
  <2>2. \A s \in S : \E k \in 1..n : list[k] = s
    BY <1>6 DEF Surjection
  <2>. QED BY <1>5, <2>1, <2>2 DEF ToSet
<1>. QED BY <1>4, <1>5, <1>7

\* What a request lists, and what passes some of the filters.
ListedBy(db, r) == LET times == LibraryTimes(db, r) IN {i \in DOMAIN times : times[i] > 0}
PassAll(db, r, C) == {i \in DOMAIN db.entries : \A c \in C : PassesChip(db.entries[i], r, c)}

LEMMA ListedPass ==
  ASSUME NEW db, NEW r, FormValid(db, r)
  PROVE  ListedBy(db, r) = PassAll(db, r, AllChips)
<1>1. PICK times : times = LibraryTimes(db, r)
  OBVIOUS
<1>2. DOMAIN times = DOMAIN db.entries
  BY <1>1 DEF LibraryTimes
<1>3. \A i \in DOMAIN db.entries :
        times[i] = IF \A c \in AllChips : PassesChip(db.entries[i], r, c) THEN 1 ELSE 0
  BY <1>1, ListedByChips
<1>4. \A i \in DOMAIN db.entries : times[i] > 0 <=> i \in PassAll(db, r, AllChips)
  BY <1>3 DEF PassAll
<1>5. ListedBy(db, r) = {i \in DOMAIN times : times[i] > 0}
  BY <1>1 DEF ListedBy
<1>. QED BY <1>2, <1>4, <1>5 DEF PassAll

\* The filters that are shown are those that are applied.
LEMMA ShownApply ==
  ASSUME NEW db, NEW r \in ValidRequest(db)
  PROVE  /\ Chips(db, r) \subseteq AllChips
         /\ ListedBy(db, r) = PassAll(db, r, Chips(db, r))
<1>1. r \in LibraryRequest /\ FormValid(db, r)
  BY Zenon DEF ValidRequest
<1>2. PICK C : C = Chips(db, r)
  OBVIOUS
<1>3. C \subseteq AllChips
  BY <1>1, <1>2 DEF Chips, AllChips
<1>4. \A c \in AllChips \ C : \A e : PassesChip(e, r, c)
  BY <1>1, <1>2, UnshownPass
<1>5. PassAll(db, r, AllChips) = PassAll(db, r, C)
  <2>1. \A i : (\A c \in AllChips : PassesChip(db.entries[i], r, c)) <=> (\A c \in C : PassesChip(db.entries[i], r, c))
    BY <1>3, <1>4
  <2>. QED BY <2>1, Zenon DEF PassAll
<1>. QED BY <1>1, <1>2, <1>3, <1>5, ListedPass

\* Without a filter that is shown, what passes the others is listed.
LEMMA ListedWithout ==
  ASSUME NEW db, NEW r \in ValidRequest(db), NEW c \in Chips(db, r)
  PROVE  ListedBy(db, WithoutChip(r, c)) = PassAll(db, r, Chips(db, r) \ {c})
<1>1. r \in LibraryRequest /\ FormValid(db, r)
  BY Zenon DEF ValidRequest
<1>2. PICK C : C = Chips(db, r)
  OBVIOUS
<1>3. C \subseteq AllChips /\ c \in C /\ c \in AllChips
  BY <1>2, ShownApply
<1>4. \A a \in AllChips \ C : \A e : PassesChip(e, r, a)
  BY <1>1, <1>2, UnshownPass
<1>5. PICK t : t = WithoutChip(r, c)
  OBVIOUS
<1>6. FormValid(db, t)
  BY <1>1, <1>3, <1>5, OthersAsk
<1>7. \A i \in DOMAIN db.entries, a \in AllChips :
        (PassesChip(db.entries[i], t, a) <=> a = c \/ PassesChip(db.entries[i], r, a))
  BY <1>1, <1>3, <1>5, OthersAsk
<1>8. \A i \in DOMAIN db.entries :
        (\A a \in AllChips : PassesChip(db.entries[i], t, a)) <=> (\A a \in C \ {c} : PassesChip(db.entries[i], r, a))
  BY <1>3, <1>4, <1>7
<1>9. ListedBy(db, t) = PassAll(db, t, AllChips)
  BY <1>6, ListedPass
<1>10. PassAll(db, t, AllChips) = PassAll(db, r, C \ {c})
  BY <1>8 DEF PassAll
<1>. QED BY <1>2, <1>5, <1>9, <1>10

\* With no other filter, what passes it is.
LEMMA ListedAlone ==
  ASSUME NEW db, NEW r \in ValidRequest(db), NEW c \in Chips(db, r)
  PROVE  ListedBy(db, FoldLeft(WithoutChip, r, SetToSeq(Chips(db, r) \ {c}))) = PassAll(db, r, {c})
<1>1. r \in LibraryRequest /\ FormValid(db, r)
  BY Zenon DEF ValidRequest
<1>2. PICK C, others : C = Chips(db, r) /\ others = C \ {c}
  OBVIOUS
<1>3. C \subseteq AllChips /\ c \in C /\ c \in AllChips /\ others \subseteq AllChips
  BY <1>2, ShownApply
<1>4. \A a \in AllChips \ C : \A e : PassesChip(e, r, a)
  BY <1>1, <1>2, UnshownPass
<1>5. IsFiniteSet(others)
  <2>1. IsFiniteSet({})
    BY FS_EmptySet
  <2>2. IsFiniteSet(AllChips)
    <3>1. \A S, x : IsFiniteSet(S) => IsFiniteSet(S \cup {x})
      BY FS_AddElement
    <3>2. PICK A, B : /\ A = (((({} \cup {"q"}) \cup {"genre"}) \cup {"language"}) \cup {"energy"}) \cup {"gender"}
                      /\ B = (((((A \cup {"rotation"}) \cup {"file"}) \cup {"managed"}) \cup {"follow"})
                                \cup {"channels"}) \cup {"collision"}
      OBVIOUS
    <3>3. IsFiniteSet(A)
      BY <2>1, <3>1, <3>2
    <3>4. IsFiniteSet(B)
      BY <3>1, <3>2, <3>3
    <3>5. B = AllChips
      BY <3>2 DEF AllChips
    <3>. QED BY <3>4, <3>5
  <2>. QED BY <1>3, <2>2, FS_Subset
<1>6. PICK list : list = SetToSeq(others)
  OBVIOUS
<1>7. list \in Seq(AllChips) /\ ToSet(list) = others
  <2>1. list \in Seq(others) /\ ToSet(list) = others
    BY <1>5, <1>6, ListedSet
  <2>. QED BY <1>3, <2>1, WiderSeq
<1>8. PICK s : s = FoldLeft(WithoutChip, r, list)
  OBVIOUS
<1>9. s \in ValidRequest(db)
  BY <1>7, <1>8, AskedByOthers
<1>10. \A i \in DOMAIN db.entries, a \in AllChips :
         (PassesChip(db.entries[i], s, a) <=> a \in others \/ PassesChip(db.entries[i], r, a))
  BY <1>7, <1>8, AskedByOthers
<1>11. \A i \in DOMAIN db.entries :
         (\A a \in AllChips : PassesChip(db.entries[i], s, a)) <=> (\A a \in {c} : PassesChip(db.entries[i], r, a))
  BY <1>2, <1>3, <1>4, <1>10
<1>12. FormValid(db, s)
  BY <1>9, Zenon DEF ValidRequest
<1>13. ListedBy(db, s) = PassAll(db, s, AllChips)
  BY <1>12, ListedPass
<1>14. PassAll(db, s, AllChips) = PassAll(db, r, {c})
  BY <1>11 DEF PassAll
<1>. QED BY <1>2, <1>6, <1>8, <1>13, <1>14

-----------------------------------------------------------------------------
(* Keys and reasons of a library entry.                                    *)

\* Keys of three parts tell rows apart by the last, their number.
LEMMA TripleKeyed ==
  ASSUME NEW m \in Nat, NEW t, NEW u, \A i \in 1..m : t[i] \in Int /\ u[i] \in Int
  PROVE  Keyed([i \in 1..m |-> <<t[i], u[i], i>>], 3)
<1>1. PICK keys : keys = [i \in 1..m |-> <<t[i], u[i], i>>]
  OBVIOUS
<1>2. IsFiniteSet(1..m) /\ DOMAIN keys = 1..m
  BY <1>1, FS_Interval
<1>3. \A i \in 1..m : keys[i] \in [1..3 -> Int] /\ keys[i][3] = i
  <2>1. \A a, b, c \in Int : <<a, b, c>> \in [1..3 -> Int] /\ <<a, b, c>>[3] = c
    OBVIOUS
  <2>2. \A i \in 1..m : i \in Int /\ keys[i] = <<t[i], u[i], i>>
    BY <1>1
  <2>. QED BY <2>1, <2>2
<1>4. \A i, j \in 1..m : keys[i] = keys[j] => i = j
  <2>. SUFFICES ASSUME NEW i \in 1..m, NEW j \in 1..m, keys[i] = keys[j] PROVE i = j
    OBVIOUS
  <2>1. keys[i][3] = i /\ keys[j][3] = j
    BY <1>3
  <2>. QED BY <2>1
<1>. QED BY <1>1, <1>2, <1>3, <1>4 DEF Keyed

\* What is in its order already stays in it.
LEMMA AlreadyInOrder ==
  ASSUME NEW m \in Nat, NEW keys, DOMAIN keys = 1..m,
         \A i, j \in 1..m : Precedes(keys[j], keys[i]) <=> j < i
  PROVE  InKeyOrder(keys) = [n \in 1..m |-> n]
<1>1. Cardinality(DOMAIN keys) = m
  BY FS_Interval
<1>2. \A i \in 1..m : Cardinality(Before(keys, i)) = i - 1
  <2>. SUFFICES ASSUME NEW i \in 1..m PROVE Cardinality(Before(keys, i)) = i - 1
    OBVIOUS
  <2>1. Before(keys, i) = 1..(i - 1)
    BY DEF Before
  <2>2. Cardinality(1..(i - 1)) = i - 1
    <3>1. PICK k \in Nat : k = i - 1
      OBVIOUS
    <3>2. Cardinality(1..k) = k
      BY <3>1, FS_Interval
    <3>. QED BY <3>1, <3>2
  <2>. QED BY <2>1, <2>2
<1>3. \A n \in 1..m : (CHOOSE i \in DOMAIN keys : Cardinality(Before(keys, i)) = n - 1) = n
  BY <1>2
<1>. QED BY <1>1, <1>3 DEF InKeyOrder

\* Credits whose order is told by their display order alone are in it.
CreditSet == [id : Nat, order : Nat, role : STRING, credited : Nat, identity : Nat, party : Nat]

LEMMA CreditsInOrder ==
  ASSUME NEW e, CreditsOrdered(e)
  PROVE  /\ InOrder(e) \in Seq(CreditSet)
         /\ (\A m, n \in DOMAIN e.credits : e.credits[m].order = e.credits[n].order => m = n)
              => InOrder(e) = e.credits
<1>1. PICK S : S = CreditSet
  OBVIOUS
<1>2. /\ e.credits \in Seq(S)
      /\ \A m, n \in DOMAIN e.credits : m < n => e.credits[m].order <= e.credits[n].order
      /\ \A m, n \in DOMAIN e.credits : e.credits[m].id = e.credits[n].id => m = n
  BY <1>1, Zenon DEF CreditsOrdered, CreditSet
<1>3. \A c \in S : c.order \in Nat /\ c.id \in Nat
  BY <1>1 DEF CreditSet
<1>4. PICK credits \in Seq(S) : credits = e.credits
  BY <1>2
<1>5. PICK N \in Nat : N = Len(credits) /\ DOMAIN credits = 1..N
  OBVIOUS
<1>6. PICK t, id : t = [n \in 1..N |-> credits[n].order] /\ id = [n \in 1..N |-> credits[n].id]
  OBVIOUS
<1>7. \A n \in 1..N : credits[n] \in S /\ t[n] \in Nat /\ id[n] \in Nat
  <2>1. \A n \in 1..N : credits[n] \in S
    BY <1>5
  <2>. QED BY <1>3, <1>6, <2>1
<1>8. /\ \A m, n \in 1..N : m < n => t[m] <= t[n]
      /\ \A m, n \in 1..N : id[m] = id[n] => m = n
  <2>1. \A n \in 1..N : t[n] = credits[n].order /\ id[n] = credits[n].id
    BY <1>6
  <2>2. /\ \A m, n \in 1..N : m < n => credits[m].order <= credits[n].order
        /\ \A m, n \in 1..N : credits[m].id = credits[n].id => m = n
    BY <1>2, <1>4, <1>5, Zenon
  <2>. QED BY <2>1, <2>2
<1>9. PICK keys : keys = [n \in 1..N |-> <<t[n], id[n]>>]
  OBVIOUS
<1>10. DOMAIN keys = 1..N /\ \A n \in 1..N : keys[n] = <<t[n], id[n]>>
  BY <1>9
<1>11. Keyed(keys, 2)
  <2>1. IsFiniteSet(1..N)
    BY FS_Interval
  <2>2. \A a, b \in Int : <<a, b>> \in [1..2 -> Int] /\ <<a, b>>[2] = b
    OBVIOUS
  <2>3. \A n \in 1..N : keys[n] \in [1..2 -> Int] /\ keys[n][2] = id[n]
    <3>1. \A n \in 1..N : t[n] \in Int /\ id[n] \in Int
      BY <1>7
    <3>2. \A n \in 1..N : <<t[n], id[n]>> \in [1..2 -> Int] /\ <<t[n], id[n]>>[2] = id[n]
      BY <2>2, <3>1, Zenon
    <3>. QED BY <1>10, <3>2, Zenon
  <2>4. \A m, n \in 1..N : keys[m] = keys[n] => m = n
    <3>. SUFFICES ASSUME NEW m \in 1..N, NEW n \in 1..N, keys[m] = keys[n] PROVE m = n
      OBVIOUS
    <3>1. id[m] = id[n]
      BY <2>3
    <3>. QED BY <1>8, <3>1
  <2>. QED BY <1>10, <2>1, <2>3, <2>4 DEF Keyed
<1>12. PICK order : order = InKeyOrder(keys)
  OBVIOUS
<1>13. Cardinality(DOMAIN keys) = N
  <2>1. Cardinality(1..N) = N
    BY FS_Interval
  <2>. QED BY <1>10, <2>1
<1>14. order \in [1..N -> 1..N]
  <2>1. Sequenced(keys, order)
    BY <1>11, <1>12, KeysSequenced
  <2>. QED BY <1>10, <1>13, <2>1, Zenon DEF Sequenced
<1>15. InOrder(e) = [n \in DOMAIN order |-> credits[order[n]]]
  <2>1. [n \in DOMAIN e.credits |-> <<e.credits[n].order, e.credits[n].id>>] = keys
    BY <1>4, <1>5, <1>6, <1>9
  <2>. QED BY <1>4, <1>12, <2>1, Zenon DEF InOrder
<1>16. InOrder(e) \in Seq(S)
  <2>1. PICK list : list = [n \in 1..N |-> credits[order[n]]]
    OBVIOUS
  <2>2. \A n \in 1..N : credits[order[n]] \in S
    BY <1>7, <1>14
  <2>3. list \in Seq(S)
    BY <2>1, <2>2
  <2>4. DOMAIN order = 1..N
    BY <1>14
  <2>. QED BY <1>15, <2>1, <2>3, <2>4
<1>17. ASSUME \A m, n \in DOMAIN e.credits : e.credits[m].order = e.credits[n].order => m = n
       PROVE  InOrder(e) = e.credits
  <2>1. \A m, n \in 1..N : t[m] = t[n] => m = n
    BY <1>4, <1>5, <1>6, <1>17
  <2>2. \A i, j \in 1..N : Precedes(keys[j], keys[i]) <=> j < i
    <3>. SUFFICES ASSUME NEW i \in 1..N, NEW j \in 1..N PROVE Precedes(keys[j], keys[i]) <=> j < i
      OBVIOUS
    <3>1. PICK a, b : a = keys[j] /\ b = keys[i]
      OBVIOUS
    <3>2. DOMAIN a = {1, 2} /\ a[1] = t[j] /\ a[2] = id[j] /\ b[1] = t[i] /\ b[2] = id[i]
      BY <1>10, <3>1
    <3>3. Precedes(a, b) <=> t[j] < t[i] \/ (t[j] = t[i] /\ id[j] < id[i])
      <4>1. ASSUME Precedes(a, b) PROVE t[j] < t[i] \/ (t[j] = t[i] /\ id[j] < id[i])
        <5>1. PICK x \in {1, 2} : a[x] < b[x] /\ \A y \in 1..(x - 1) : a[y] = b[y]
          BY <3>2, <4>1 DEF Precedes
        <5>2. CASE x = 1
          BY <3>2, <5>1, <5>2
        <5>3. CASE x = 2
          BY <3>2, <5>1, <5>3
        <5>. QED BY <5>2, <5>3
      <4>2. ASSUME t[j] < t[i] PROVE Precedes(a, b)
        <5>1. \A y \in 1..(1 - 1) : a[y] = b[y]
          OBVIOUS
        <5>. QED BY <3>2, <4>2, <5>1 DEF Precedes
      <4>3. ASSUME t[j] = t[i], id[j] < id[i] PROVE Precedes(a, b)
        <5>1. \A y \in 1..(2 - 1) : a[y] = b[y]
          BY <3>2, <4>3
        <5>. QED BY <3>2, <4>3, <5>1 DEF Precedes
      <4>. QED BY <4>1, <4>2, <4>3
    <3>4. i = j \/ i < j \/ j < i
      OBVIOUS
    <3>. QED BY <1>7, <1>8, <2>1, <3>1, <3>3, <3>4
  <2>3. order = [n \in 1..N |-> n]
    BY <1>10, <1>12, <2>2, AlreadyInOrder
  <2>4. InOrder(e) = [n \in 1..N |-> credits[n]]
    BY <1>15, <2>3
  <2>. QED BY <1>4, <1>5, <2>4
<1>. QED BY <1>1, <1>16, <1>17

\* The artist an entry is ordered by is a number, and is the first that is shown when
\* the display order tells the credits apart.
LEMMA ArtistKey ==
  ASSUME NEW e, CreditsOrdered(e)
  PROVE  /\ SortArtist(e) \in Int
         /\ (\A m, n \in DOMAIN e.credits : e.credits[m].order = e.credits[n].order => m = n)
              => SortArtist(e) = IF ArtistText(e) = <<>> THEN Absent ELSE ArtistText(e)[1]
<1>1. PICK S : S = CreditSet
  OBVIOUS
<1>2. PICK K : K = {c \in S : Performs(c)}
  OBVIOUS
<1>3. \A c \in S : CreditName(c) \in Nat
  <2>1. \A c \in S : c.credited \in Nat /\ c.identity \in Nat /\ c.party \in Nat
    BY <1>1 DEF CreditSet
  <2>. QED BY <2>1 DEF CreditName
<1>4. ASSUME NEW list \in Seq(S) PROVE Filtered(list, Performs) \in Seq(S)
  <2>1. PICK seqs : seqs = [i \in DOMAIN list |-> If(Performs(list[i]), <<list[i]>>)]
    OBVIOUS
  <2>2. Singly(list, K, seqs)
    <3>1. \A i \in DOMAIN list : Performs(list[i]) <=> list[i] \in K
      <4>1. \A i \in DOMAIN list : list[i] \in S
        OBVIOUS
      <4>. QED BY <1>2, <4>1
    <3>. QED BY <2>1, <3>1, Zenon DEF Singly, If
  <2>3. Concat(seqs) \in Seq(S \cap K)
    BY <2>2, PassedInTurn
  <2>4. Concat(seqs) \in Seq(S)
    <3>1. S \cap K \subseteq S
      OBVIOUS
    <3>. QED BY <2>3, <3>1, WiderSeq
  <2>. QED BY <2>1, <2>4, Zenon DEF Filtered
<1>5. InOrder(e) \in Seq(S) /\ e.credits \in Seq(S)
  <2>1. InOrder(e) \in Seq(S)
    BY <1>1, CreditsInOrder
  <2>2. e.credits \in Seq(S)
    BY <1>1, Zenon DEF CreditsOrdered, CreditSet
  <2>. QED BY <2>1, <2>2
<1>6. PICK first : first = Filtered(InOrder(e), Performs)
  OBVIOUS
<1>7. first \in Seq(S) /\ SortArtist(e) = IF first = <<>> THEN Absent ELSE CreditName(first[1])
  <2>1. first \in Seq(S)
    BY <1>4, <1>5, <1>6
  <2>2. SortArtist(e) = IF first = <<>> THEN Absent ELSE CreditName(first[1])
    BY <1>6, Zenon DEF SortArtist
  <2>. QED BY <2>1, <2>2
<1>8. SortArtist(e) \in Int
  <2>1. Absent \in Int
    BY PageAssumption
  <2>2. first # <<>> => first[1] \in S
    BY <1>7
  <2>3. first # <<>> => CreditName(first[1]) \in Int
    BY <1>3, <2>2
  <2>. QED BY <1>7, <2>1, <2>3
<1>9. ASSUME \A m, n \in DOMAIN e.credits : e.credits[m].order = e.credits[n].order => m = n
      PROVE  SortArtist(e) = IF ArtistText(e) = <<>> THEN Absent ELSE ArtistText(e)[1]
  <2>1. InOrder(e) = e.credits
    BY <1>9, CreditsInOrder
  <2>2. first = Filtered(e.credits, Performs)
    BY <1>6, <2>1
  <2>3. PICK names : names = [i \in DOMAIN first |-> CreditName(first[i])]
    OBVIOUS
  <2>4. ArtistText(e) = EachOnce(names)
    BY <2>2, <2>3, Zenon DEF ArtistText
  <2>5. names \in Seq(Nat) /\ (first = <<>> <=> names = <<>>) /\ (first # <<>> => names[1] = CreditName(first[1]))
    <3>1. PICK n \in Nat : n = Len(first) /\ DOMAIN first = 1..n
      BY <1>7
    <3>2. \A i \in 1..n : names[i] = CreditName(first[i]) /\ first[i] \in S
      BY <1>7, <2>3, <3>1
    <3>3. \A i \in 1..n : names[i] \in Nat
      BY <1>3, <3>2
    <3>4. names \in Seq(Nat) /\ Len(names) = n
      <4>1. names = [i \in 1..n |-> names[i]]
        BY <2>3, <3>1
      <4>. QED BY <3>3, <4>1
    <3>5. first = <<>> <=> n = 0
      BY <1>7, <3>1
    <3>6. names = <<>> <=> n = 0
      BY <3>4
    <3>7. n # 0 => 1 \in 1..n
      OBVIOUS
    <3>. QED BY <3>2, <3>4, <3>5, <3>6, <3>7
  <2>6. /\ names = <<>> => EachOnce(names) = <<>>
        /\ names # <<>> => EachOnce(names) # <<>> /\ EachOnce(names)[1] = names[1]
    BY <2>5, FirstCollected
  <2>7. CASE first = <<>>
    BY <1>7, <2>4, <2>5, <2>6, <2>7
  <2>8. CASE first # <<>>
    BY <1>7, <2>4, <2>5, <2>6, <2>8
  <2>. QED BY <2>7, <2>8
<1>. QED BY <1>8, <1>9

\* A row gives a reason just when it needs to be followed up.
LEMMA ReasonsGiven ==
  ASSUME NEW e
  PROVE  Reasons(e) # {} <=> NeedsFollowUp(e)
<1>1. Reasons(e) # {} => NeedsFollowUp(e)
  BY Zenon DEF Reasons, NeedsFollowUp
<1>2. /\ Radio(e) = {} => "no file" \in Reasons(e)
      /\ Radio(e) # {} /\ ~HasActiveLocation(e) => "unavailable" \in Reasons(e)
      /\ HasFileProblem(e) => "file problem" \in Reasons(e)
      /\ ~e.release => "no release" \in Reasons(e)
      /\ e.duplicate => "duplicate" \in Reasons(e)
      /\ e.issue => "issue" \in Reasons(e)
      /\ Collides(e) => "collision" \in Reasons(e)
  BY DEF Reasons
<1>. QED BY <1>1, <1>2 DEF NeedsFollowUp

\* What an entry is ordered by.
Orders == {"title", "artist", "isrc", "duration", "energy", "file_status", "managed", "follow_up", "updated"}
OrderedBy(e, by) ==
  IF by = "title" THEN e.title ELSE IF by = "updated" THEN e.updated ELSE LibraryKey(e, by)
EntryListed(e) ==
  /\ e.title \in Nat /\ e.updated \in Nat /\ e.code \in Nat /\ e.duration \in Nat /\ e.energy \in Nat
  /\ CreditsOrdered(e)

\* It is a number, and is what the reader sees.
LEMMA KeyShown ==
  ASSUME NEW e, EntryListed(e), NEW by \in Orders
  PROVE  /\ OrderedBy(e, by) \in Int
         /\ (\A m, n \in DOMAIN e.credits : e.credits[m].order = e.credits[n].order => m = n)
              => ShownBy(e, LibraryRow(e), by) = OrderedBy(e, by)
<1>1. PICK row : row = LibraryRow(e)
  OBVIOUS
<1>2. row.artists = ArtistText(e) /\ row.code = e.code /\ row.facts = RowOf(e)
  BY <1>1 DEF LibraryRow
<1>3. row.facts.file_key = SortFileStatus(e) /\ row.facts.managed = e.managed /\ row.facts.reasons = Reasons(e)
  <2>1. RowOf(e).file_key = SortFileStatus(e) /\ RowOf(e).managed = e.managed /\ RowOf(e).reasons = Reasons(e)
    BY DEF RowOf
  <2>. QED BY <1>2, <2>1
<1>4. e.title \in Int /\ e.updated \in Int /\ e.code \in Int /\ e.duration \in Int /\ e.energy \in Int /\ Absent \in Int
  BY PageAssumption DEF EntryListed
<1>5. /\ SortArtist(e) \in Int
      /\ (\A m, n \in DOMAIN e.credits : e.credits[m].order = e.credits[n].order => m = n)
              => SortArtist(e) = IF ArtistText(e) = <<>> THEN Absent ELSE ArtistText(e)[1]
  BY ArtistKey DEF EntryListed
<1>6. SortFileStatus(e) \in Int
  BY DEF SortFileStatus
<1>7. CASE by = "title"
  BY <1>4, <1>7 DEF OrderedBy, ShownBy
<1>8. CASE by = "updated"
  BY <1>4, <1>8 DEF OrderedBy, ShownBy
<1>9. CASE by = "artist"
  <2>1. OrderedBy(e, by) = SortArtist(e)
    BY <1>9 DEF OrderedBy, LibraryKey
  <2>2. ShownBy(e, row, by) = IF row.artists = <<>> THEN Absent ELSE row.artists[1]
    BY <1>9 DEF ShownBy
  <2>3. row.artists = ArtistText(e)
    BY <1>2
  <2>. QED BY <1>1, <1>5, <2>1, <2>2, <2>3
<1>10. CASE by = "isrc"
  BY <1>1, <1>2, <1>4, <1>10 DEF OrderedBy, ShownBy, LibraryKey
<1>11. CASE by = "energy"
  BY <1>1, <1>2, <1>4, <1>11 DEF OrderedBy, ShownBy, LibraryKey
<1>12. CASE by = "duration"
  BY <1>1, <1>2, <1>4, <1>12 DEF OrderedBy, ShownBy, LibraryKey
<1>13. CASE by = "file_status"
  BY <1>1, <1>3, <1>6, <1>13 DEF OrderedBy, ShownBy, LibraryKey
<1>14. CASE by = "managed"
  <2>1. OrderedBy(e, by) = IF e.managed THEN 1 ELSE 0
    BY <1>14 DEF OrderedBy, LibraryKey
  <2>2. ShownBy(e, row, by) = IF row.facts.managed THEN 1 ELSE 0
    BY <1>14 DEF ShownBy
  <2>. QED BY <1>1, <1>3, <2>1, <2>2
<1>15. CASE by = "follow_up"
  <2>1. OrderedBy(e, by) = IF NeedsFollowUp(e) THEN 1 ELSE 0
    BY <1>15 DEF OrderedBy, LibraryKey
  <2>2. ShownBy(e, row, by) = IF row.facts.reasons # {} THEN 1 ELSE 0
    BY <1>15 DEF ShownBy
  <2>3. row.facts.reasons # {} <=> NeedsFollowUp(e)
    BY <1>3, ReasonsGiven
  <2>. QED BY <1>1, <2>1, <2>2, <2>3
<1>. QED BY <1>7, <1>8, <1>9, <1>10, <1>11, <1>12, <1>13, <1>14, <1>15 DEF Orders

-----------------------------------------------------------------------------
(* The library as a list of rows.                                          *)

\* The entries of the library are numbered from one and say what the list is ordered by.
EntriesListed(db, m) == DOMAIN db.entries = 1..m /\ \A i \in 1..m : EntryListed(db.entries[i])

\* What the library is listed by.
LibraryBy(db, r)   == IF FormValid(db, r) THEN r.by ELSE "title"
LibraryDown(db, r) == FormValid(db, r) /\ r.down
LibraryRows(db, r) == Returned(LibraryKeys(db, LibraryBy(db, r), LibraryDown(db, r)), LibraryTimes(db, r))

\* The first part of each key is what the list is ordered by.
LEMMA LibraryKeyed ==
  ASSUME NEW db, NEW m \in Nat, EntriesListed(db, m), NEW by \in Orders, NEW down \in BOOLEAN
  PROVE  /\ \E n \in {2, 3} : Keyed(LibraryKeys(db, by, down), n)
         /\ DOMAIN LibraryKeys(db, by, down) = 1..m
         /\ \A i \in 1..m : LibraryKeys(db, by, down)[i][1] = Turned(OrderedBy(db.entries[i], by), down)
<1>1. PICK keys : keys = LibraryKeys(db, by, down)
  OBVIOUS
<1>2. PICK t : t = [i \in 1..m |-> Turned(OrderedBy(db.entries[i], by), down)]
  OBVIOUS
<1>3. PICK u : u = [i \in 1..m |-> db.entries[i].title]
  OBVIOUS
<1>4. \A i \in 1..m : t[i] \in Int /\ u[i] \in Int
  <2>. SUFFICES ASSUME NEW i \in 1..m PROVE t[i] \in Int /\ u[i] \in Int
    OBVIOUS
  <2>1. EntryListed(db.entries[i])
    BY DEF EntriesListed
  <2>2. OrderedBy(db.entries[i], by) \in Int
    BY <2>1, KeyShown
  <2>3. db.entries[i].title \in Int
    BY <2>1 DEF EntryListed
  <2>. QED BY <1>2, <1>3, <2>2, <2>3 DEF Turned
<1>5. DOMAIN db.entries = 1..m
  BY DEF EntriesListed
<1>6. keys = [i \in 1..m |-> IF by = "title" THEN <<Turned(db.entries[i].title, down), i>>
                              ELSE IF by = "updated" THEN <<Turned(db.entries[i].updated, down), i>>
                              ELSE <<Turned(LibraryKey(db.entries[i], by), down), db.entries[i].title, i>>]
  BY <1>1, <1>5, Zenon DEF LibraryKeys, Turned
<1>7. by \in {"title", "updated"} => keys = [i \in 1..m |-> <<t[i], i>>]
  BY <1>2, <1>6 DEF OrderedBy
<1>8. by \notin {"title", "updated"} => keys = [i \in 1..m |-> <<t[i], u[i], i>>]
  BY <1>2, <1>3, <1>6 DEF OrderedBy
<1>9. CASE by \in {"title", "updated"}
  <2>1. 1..m \in SUBSET (1..m)
    OBVIOUS
  <2>2. Keyed(keys, 2)
    BY <1>4, <1>7, <1>9, <2>1, TitleKeyed
  <2>3. DOMAIN keys = 1..m /\ \A i \in 1..m : keys[i][1] = t[i]
    BY <1>7, <1>9
  <2>. QED BY <1>1, <1>2, <2>2, <2>3
<1>10. CASE by \notin {"title", "updated"}
  <2>1. Keyed([i \in 1..m |-> <<t[i], u[i], i>>], 3)
    BY <1>4, TripleKeyed
  <2>2. Keyed(keys, 3)
    BY <1>8, <1>10, <2>1
  <2>3. DOMAIN keys = 1..m /\ \A i \in 1..m : keys[i][1] = t[i]
    BY <1>8, <1>10
  <2>. QED BY <1>1, <1>2, <2>2, <2>3
<1>. QED BY <1>9, <1>10

\* The library lists what its request does, once, in order.
LEMMA LibraryListsRows ==
  ASSUME NEW db, NEW m \in Nat, EntriesListed(db, m), NEW r \in LibraryRequest
  PROVE  ListsRows(LibraryKeys(db, LibraryBy(db, r), LibraryDown(db, r)), ListedBy(db, r), LibraryRows(db, r))
<1>1. PICK by, down : by = LibraryBy(db, r) /\ down \in BOOLEAN /\ down = LibraryDown(db, r)
  BY DEF LibraryDown
<1>2. by \in Orders
  BY <1>1 DEF LibraryBy, LibraryRequest, Orders
<1>3. PICK keys : keys = LibraryKeys(db, by, down)
  OBVIOUS
<1>4. PICK n : n \in {2, 3} /\ Keyed(keys, n)
  BY <1>1, <1>2, <1>3, LibraryKeyed
<1>5. DOMAIN keys = 1..m
  BY <1>1, <1>2, <1>3, LibraryKeyed
<1>6. PICK times : times = LibraryTimes(db, r)
  OBVIOUS
<1>7. DOMAIN db.entries = 1..m
  BY DEF EntriesListed
<1>8. DOMAIN times = 1..m /\ \A i \in 1..m : times[i] \in {0, 1}
  BY <1>6, <1>7 DEF LibraryTimes, Occurrences
<1>9. PICK K : K = ListedBy(db, r)
  OBVIOUS
<1>10. \A i \in 1..m : i \in K <=> times[i] > 0
  BY <1>6, <1>8, <1>9 DEF ListedBy
<1>11. \A i \in 1..m : times[i] = IF i \in K THEN 1 ELSE 0
  BY <1>8, <1>10
<1>12. ListsRows(keys, K, Returned(keys, times))
  BY <1>4, <1>5, <1>8, <1>11, ReturnedLists
<1>. QED BY <1>1, <1>3, <1>6, <1>9, <1>12, Zenon DEF LibraryRows

\* All of a page, or all on one.
LibrarySize(db, r) == IF FormValid(db, r) /\ r.all THEN Max({Len(LibraryRows(db, r)), 1}) ELSE PageRows
LibraryShown(db, r) ==
  Concat([p \in 1..Library(db, [r EXCEPT !.fragment = FALSE, !.page = 1]).pages |->
            Library(db, [r EXCEPT !.fragment = FALSE, !.page = p])["list"]])

\* The answer to a request that is not for one row.
LEMMA LibraryWhole ==
  ASSUME NEW db, NEW m \in Nat, EntriesListed(db, m), NEW r \in LibraryRequest, r.fragment = FALSE
  PROVE  /\ LibrarySize(db, r) \in Nat \ {0}
         /\ Library(db, r).list = PageOf(LibraryRows(db, r), LibrarySize(db, r), r.page)
         /\ Library(db, r).pages = Pages(LibraryRows(db, r), LibrarySize(db, r))
<1>1. PICK keys : keys = LibraryKeys(db, LibraryBy(db, r), LibraryDown(db, r))
  OBVIOUS
<1>2. PICK list : list = LibraryRows(db, r)
  OBVIOUS
<1>3. PICK D : D = DOMAIN keys
  OBVIOUS
<1>4. list \in Seq(D)
  BY <1>1, <1>2, <1>3, LibraryListsRows DEF ListsRows
<1>5. PICK size : size = LibrarySize(db, r)
  OBVIOUS
<1>6. size \in Nat \ {0}
  <2>1. Len(list) \in Nat
    BY <1>4
  <2>2. Max({Len(list), 1}) \in Nat \ {0}
    <3>1. Max({Len(list), 1}) = IF Len(list) >= 1 THEN Len(list) ELSE 1
      BY <2>1, GreaterOfTwo
    <3>. QED BY <2>1, <3>1
  <2>. QED BY <1>2, <1>5, <2>2, PageAssumption DEF LibrarySize
<1>7. PICK seqs : seqs = [i \in DOMAIN list |-> If(r.fragment => list[i] = r.selected, <<list[i]>>)]
  OBVIOUS
<1>8. Concat(seqs) = list
  <2>1. \A i \in DOMAIN list : list[i] \in D
    BY <1>4
  <2>2. \A i \in DOMAIN list : seqs[i] = <<list[i]>>
    BY <1>7 DEF If
  <2>3. Singly(list, D, seqs)
    BY <1>7, <2>1, <2>2 DEF Singly
  <2>4. D \subseteq D
    OBVIOUS
  <2>. QED BY <1>4, <2>3, <2>4, AllPassed
<1>9. Library(db, r) = LibraryPage(db, r, FormValid(db, r), Concat(seqs))
  BY <1>2, <1>7, Zenon DEF Library, LibraryRows, LibraryBy, LibraryDown, Filtered
<1>10. PICK valid : valid = FormValid(db, r)
  OBVIOUS
<1>11. PICK shown : shown = LibraryPage(db, r, valid, list)
  OBVIOUS
<1>13. /\ shown.list = PageOf(list, IF valid /\ r.all THEN Max({Len(list), 1}) ELSE PageRows, r.page)
       /\ shown.pages = Pages(list, IF valid /\ r.all THEN Max({Len(list), 1}) ELSE PageRows)
  BY <1>11 DEF LibraryPage
<1>12. size = IF FormValid(db, r) /\ r.all THEN Max({Len(list), 1}) ELSE PageRows
  BY <1>2, <1>5, Zenon DEF LibrarySize
<1>. QED BY <1>2, <1>5, <1>6, <1>8, <1>9, <1>10, <1>11, <1>12, <1>13, Zenon

\* Another page of the list asks for the same rows.
LEMMA SameLibrary ==
  ASSUME NEW db, NEW r \in LibraryRequest, NEW p \in Int
  PROVE  LET s == [r EXCEPT !.fragment = FALSE, !.page = p]
         IN  /\ s \in LibraryRequest /\ s.fragment = FALSE /\ s.page = p
             /\ LibraryRows(db, s) = LibraryRows(db, r) /\ LibrarySize(db, s) = LibrarySize(db, r)
<1>1. PICK s : s = [r EXCEPT !.fragment = FALSE, !.page = p]
  OBVIOUS
<1>2. PICK F : F = [rotation : SUBSET STRING, file : SUBSET STRING, channels : SUBSET STRING, all : BOOLEAN,
                    managed : SUBSET STRING, follow : SUBSET STRING, collision : BOOLEAN]
  OBVIOUS
<1>3. LibraryRequest = [q : Sought, genre : Seq(GenreNames), language : Seq(STRING), energy : Seq(Int), gender : Choice,
                        facts : F, by : Orders, down : BOOLEAN, page : Int, all : BOOLEAN, selected : Nat, fragment : BOOLEAN]
  BY <1>2 DEF LibraryRequest, Orders
<1>4. /\ s.q = r.q /\ s.genre = r.genre /\ s.language = r.language /\ s.energy = r.energy
      /\ s.gender = r.gender /\ s.facts = r.facts /\ s.by = r.by /\ s.down = r.down /\ s.all = r.all
      /\ s.fragment = FALSE /\ s.page = p
  BY <1>1, <1>3
<1>5. s \in LibraryRequest
  BY <1>1, <1>3
<1>6. FormValid(db, s) <=> FormValid(db, r)
  BY <1>4, Zenon DEF FormValid
<1>7. LibraryTimes(db, s) = LibraryTimes(db, r)
  <2>1. \A i : LibrarySelects(db.entries[i], s) <=> LibrarySelects(db.entries[i], r)
    BY <1>4, Zenon DEF LibrarySelects
  <2>2. PICK t, u : t = LibraryTimes(db, s) /\ u = LibraryTimes(db, r)
    OBVIOUS
  <2>3. t = [i \in DOMAIN db.entries |-> t[i]] /\ u = [i \in DOMAIN db.entries |-> u[i]]
    BY <2>2 DEF LibraryTimes
  <2>4. \A i \in DOMAIN db.entries : t[i] = u[i]
    <3>. SUFFICES ASSUME NEW i \in DOMAIN db.entries PROVE t[i] = u[i]
      OBVIOUS
    <3>1. t[i] = IF ~FormValid(db, s) THEN 1 ELSE IF ~LibrarySelects(db.entries[i], s) THEN 0
                 ELSE TimesOf(db.entries[i], s.q)
      BY <2>2 DEF LibraryTimes, TimesOf
    <3>2. u[i] = IF ~FormValid(db, r) THEN 1 ELSE IF ~LibrarySelects(db.entries[i], r) THEN 0
                 ELSE TimesOf(db.entries[i], r.q)
      BY <2>2 DEF LibraryTimes, TimesOf
    <3>. QED BY <1>4, <1>6, <2>1, <3>1, <3>2
  <2>. QED BY <2>2, <2>3, <2>4
<1>8. LibraryRows(db, s) = LibraryRows(db, r)
  <2>1. LibraryBy(db, s) = LibraryBy(db, r)
    BY <1>4, <1>6 DEF LibraryBy
  <2>2. LibraryDown(db, s) = LibraryDown(db, r)
    BY <1>4, <1>6 DEF LibraryDown
  <2>. QED BY <1>7, <2>1, <2>2, Zenon DEF LibraryRows
<1>9. LibrarySize(db, s) = LibrarySize(db, r)
  BY <1>4, <1>6, <1>8 DEF LibrarySize
<1>. QED BY <1>1, <1>4, <1>5, <1>8, <1>9

\* Its pages, one after another, are the list.
LEMMA LibraryPaged ==
  ASSUME NEW db, NEW m \in Nat, EntriesListed(db, m), NEW r \in LibraryRequest
  PROVE  LibraryShown(db, r) = LibraryRows(db, r)
<1>1. PICK keys : keys = LibraryKeys(db, LibraryBy(db, r), LibraryDown(db, r))
  OBVIOUS
<1>2. PICK list : list = LibraryRows(db, r)
  OBVIOUS
<1>3. PICK D : D = DOMAIN keys
  OBVIOUS
<1>4. list \in Seq(D)
  BY <1>1, <1>2, <1>3, LibraryListsRows DEF ListsRows
<1>5. PICK size : size = LibrarySize(db, r)
  OBVIOUS
<1>6. ASSUME NEW p \in Int
      PROVE  LET a == Library(db, [r EXCEPT !.fragment = FALSE, !.page = p])
             IN  size \in Nat \ {0} /\ a.list = PageOf(list, size, p) /\ a.pages = Pages(list, size)
  <2>1. PICK s : s = [r EXCEPT !.fragment = FALSE, !.page = p]
    OBVIOUS
  <2>2. /\ s \in LibraryRequest /\ s.fragment = FALSE /\ s.page = p
        /\ LibraryRows(db, s) = list /\ LibrarySize(db, s) = size
    BY <1>2, <1>5, <2>1, SameLibrary
  <2>3. /\ LibrarySize(db, s) \in Nat \ {0}
        /\ Library(db, s).list = PageOf(LibraryRows(db, s), LibrarySize(db, s), s.page)
        /\ Library(db, s).pages = Pages(LibraryRows(db, s), LibrarySize(db, s))
    BY <2>2, LibraryWhole
  <2>. QED BY <2>1, <2>2, <2>3
<1>7. size \in Nat \ {0}
  <2>1. 0 \in Int
    OBVIOUS
  <2>. QED BY <1>6, <2>1
<1>8. PICK n : n = Pages(list, size)
  OBVIOUS
<1>9. PICK pages : pages = [p \in 1..n |-> PageOf(list, size, p)]
  OBVIOUS
<1>10. Concat(pages) = list
  <2>1. Concat(PagesOf(list, size)) = list
    BY <1>4, <1>7, PagesThrough
  <2>2. PagesOf(list, size) = pages
    BY <1>8, <1>9, Zenon DEF PagesOf
  <2>. QED BY <2>1, <2>2
<1>11. Library(db, [r EXCEPT !.fragment = FALSE, !.page = 1]).pages = n
  <2>1. 1 \in Int
    OBVIOUS
  <2>. QED BY <1>6, <1>8, <2>1
<1>12. [p \in 1..n |-> Library(db, [r EXCEPT !.fragment = FALSE, !.page = p])["list"]] = pages
  <2>1. \A p \in 1..n : Library(db, [r EXCEPT !.fragment = FALSE, !.page = p])["list"] = pages[p]
    <3>. SUFFICES ASSUME NEW p \in 1..n
                  PROVE  Library(db, [r EXCEPT !.fragment = FALSE, !.page = p])["list"] = pages[p]
      OBVIOUS
    <3>1. p \in Int
      OBVIOUS
    <3>2. Library(db, [r EXCEPT !.fragment = FALSE, !.page = p]).list = PageOf(list, size, p)
      BY <1>6, <3>1
    <3>. QED BY <1>9, <3>2
  <2>2. pages = [p \in 1..n |-> pages[p]]
    BY <1>9
  <2>. QED BY <2>1, <2>2
<1>. QED BY <1>2, <1>10, <1>11, <1>12, Zenon DEF LibraryShown

-----------------------------------------------------------------------------
(* A row read again on its own page.                                       *)

\* The library is in the order of the column the reader sees.
LEMMA LibraryInOrder ==
  ASSUME NEW db, NEW m \in Nat, EntriesListed(db, m), NEW r \in LibraryRequest
  PROVE  LibraryOrdered(db, r, LibraryRows(db, r))
<1>1. PICK list : list = LibraryRows(db, r)
  OBVIOUS
<1>2. PICK credited \in BOOLEAN :
        credited <=> \A i \in DOMAIN db.entries :
                       \A k, n \in DOMAIN db.entries[i].credits :
                         db.entries[i].credits[k].order = db.entries[i].credits[n].order => k = n
  OBVIOUS
<1>3. PICK shown : shown = [n \in DOMAIN list |-> ShownBy(db.entries[list[n]], LibraryRow(db.entries[list[n]]), r.by)]
  OBVIOUS
<1>4. FormValid(db, r) /\ credited => Ordered(shown, r.down)
  <2>. SUFFICES ASSUME FormValid(db, r), credited PROVE Ordered(shown, r.down)
    OBVIOUS
  <2>1. PICK by, down : by \in Orders /\ down \in BOOLEAN /\ by = r.by /\ down = r.down
    BY DEF LibraryRequest, Orders
  <2>2. LibraryBy(db, r) = by
    BY <2>1 DEF LibraryBy
  <2>3. LibraryDown(db, r) = down
    BY <2>1 DEF LibraryDown
  <2>4. PICK keys : keys = LibraryKeys(db, by, down)
    OBVIOUS
  <2>5. PICK S : S = 1..m
    OBVIOUS
  <2>6. DOMAIN keys = S /\ \A i \in S : keys[i][1] = Turned(OrderedBy(db.entries[i], by), down)
    BY <2>1, <2>4, <2>5, LibraryKeyed
  <2>7. ListsRows(keys, ListedBy(db, r), list)
    BY <1>1, <2>2, <2>3, <2>4, LibraryListsRows
  <2>8. PICK w : w \in {2, 3} /\ Keyed(keys, w)
    BY <2>1, <2>4, LibraryKeyed
  <2>9. \A h, k \in DOMAIN list : h < k => keys[list[h]][1] <= keys[list[k]][1]
    <3>1. w \in Nat \ {0}
      BY <2>8
    <3>. QED BY <2>7, <2>8, <3>1, FirstKeyOrdered
  <2>10. list \in Seq(S)
    BY <2>6, <2>7 DEF ListsRows
  <2>11. \A i \in S : ShownBy(db.entries[i], LibraryRow(db.entries[i]), by) = OrderedBy(db.entries[i], by)
                       /\ OrderedBy(db.entries[i], by) \in Int
    <3>. SUFFICES ASSUME NEW i \in S
                  PROVE  /\ ShownBy(db.entries[i], LibraryRow(db.entries[i]), by) = OrderedBy(db.entries[i], by)
                         /\ OrderedBy(db.entries[i], by) \in Int
      OBVIOUS
    <3>1. EntryListed(db.entries[i]) /\ i \in DOMAIN db.entries
      BY <2>5 DEF EntriesListed
    <3>2. \A k, n \in DOMAIN db.entries[i].credits :
            db.entries[i].credits[k].order = db.entries[i].credits[n].order => k = n
      BY <1>2, <3>1, Zenon
    <3>. QED BY <2>1, <3>1, <3>2, KeyShown
  <2>12. \A k \in DOMAIN list : list[k] \in S /\ shown[k] \in Int /\ keys[list[k]][1] = Turned(shown[k], down)
    <3>. SUFFICES ASSUME NEW k \in DOMAIN list
                  PROVE  list[k] \in S /\ shown[k] \in Int /\ keys[list[k]][1] = Turned(shown[k], down)
      OBVIOUS
    <3>1. list[k] \in S
      BY <2>10
    <3>2. shown[k] = ShownBy(db.entries[list[k]], LibraryRow(db.entries[list[k]]), by)
      BY <1>3, <2>1
    <3>3. shown[k] = OrderedBy(db.entries[list[k]], by) /\ shown[k] \in Int
      BY <2>11, <3>1, <3>2
    <3>. QED BY <2>6, <3>1, <3>3
  <2>13. PICK n \in Nat : n = Len(list) /\ DOMAIN list = 1..n /\ Len(shown) = n
    BY <1>3, <2>10
  <2>. SUFFICES ASSUME NEW k \in 1..(n - 1)
                PROVE  IF down THEN shown[k] >= shown[k + 1] ELSE shown[k] <= shown[k + 1]
    BY <2>1, <2>13, Zenon DEF Ordered
  <2>14. k \in DOMAIN list /\ k + 1 \in DOMAIN list /\ k < k + 1
    BY <2>13
  <2>15. Turned(shown[k], down) <= Turned(shown[k + 1], down)
    BY <2>9, <2>12, <2>14
  <2>16. PICK x \in Int, y \in Int : x = shown[k] /\ y = shown[k + 1]
    BY <2>12, <2>14
  <2>. QED BY <2>15, <2>16 DEF Turned
<1>. QED BY <1>1, <1>2, <1>3, <1>4, Zenon DEF LibraryOrdered

\* At most one row is all of its page.
LEMMA RowAlone ==
  ASSUME NEW S, NEW list \in Seq(S), Len(list) <= 1, NEW size \in Nat \ {0}, NEW asked
  PROVE  PageOf(list, size, asked) = list
<1>1. PICK n \in Nat : n = Len(list) /\ n <= 1
  OBVIOUS
<1>2. Pages(list, size) = 1
  <2>1. CASE list = <<>>
    BY <2>1 DEF Pages
  <2>2. CASE list # <<>>
    <3>1. n = 1
      BY <1>1, <2>2
    <3>2. Pages(list, size) = (1 + size - 1) \div size
      BY <1>1, <2>2, <3>1 DEF Pages
    <3>3. (1 + size - 1) \div size = 1
      <4>1. 1 + size - 1 = size
        OBVIOUS
      <4>2. size \div size = 1
        OBVIOUS
      <4>. QED BY <4>1, <4>2
    <3>. QED BY <3>2, <3>3
  <2>. QED BY <2>1, <2>2
<1>3. PageOf(list, size, asked) = PageOf(list, size, 1)
  <2>1. PICK p : p = IF asked \in 1..1 THEN asked ELSE 1
    OBVIOUS
  <2>2. p = 1
    BY <2>1
  <2>3. PageOf(list, size, asked) = SubSeq(list, (p - 1) * size + 1, Min({p * size, Len(list)}))
    BY <1>2, <2>1, Zenon DEF PageOf
  <2>4. PageOf(list, size, 1) = SubSeq(list, (1 - 1) * size + 1, Min({1 * size, Len(list)}))
    <3>1. 1 \in 1..1
      OBVIOUS
    <3>. QED BY <1>2, <3>1, Zenon DEF PageOf
  <2>. QED BY <2>2, <2>3, <2>4, Zenon
<1>4. \E to \in ((1 - 1) * size)..Len(list) :
        /\ Extract(S, list, (1 - 1) * size + 1, to, PageOf(list, size, 1))
        /\ to = IF 1 * size <= Len(list) THEN 1 * size ELSE Len(list)
  <2>1. 1 \in 1..Pages(list, size)
    BY <1>2
  <2>. QED BY <2>1, PageCut
<1>5. (1 - 1) * size = 0 /\ 1 * size = size
  OBVIOUS
<1>6. PICK to : /\ Extract(S, list, (1 - 1) * size + 1, to, PageOf(list, size, 1))
                /\ to = IF 1 * size <= Len(list) THEN 1 * size ELSE Len(list)
  BY <1>4
<1>7. to = n /\ Extract(S, list, 1, n, PageOf(list, size, 1))
  <2>1. to = n
    BY <1>1, <1>5, <1>6
  <2>2. (1 - 1) * size + 1 = 1
    BY <1>5
  <2>. QED BY <1>6, <2>1, <2>2
<1>8. PICK cut : cut = PageOf(list, size, 1)
  OBVIOUS
<1>9. cut \in Seq(S) /\ Len(cut) = n /\ \A i \in 1..n : cut[i] = list[i]
  <2>1. n - 1 + 1 = n /\ \A i \in 1..n : 1 + i - 1 = i
    OBVIOUS
  <2>. QED BY <1>7, <1>8, <2>1 DEF Extract
<1>10. cut = list
  BY <1>1, <1>9
<1>. QED BY <1>3, <1>8, <1>10

\* A row that is reloaded is the one asked for, if it is listed.
LEMMA RowReloaded ==
  ASSUME NEW db, NEW m \in Nat, EntriesListed(db, m), NEW r \in LibraryRequest, r.fragment, Library(db, r).code # 500
  PROVE  IF Library(db, r).code = 200 THEN Library(db, r).list = <<r.selected>>
         ELSE r.selected \notin ToSet(LibraryRows(db, r))
<1>1. PICK keys : keys = LibraryKeys(db, LibraryBy(db, r), LibraryDown(db, r))
  OBVIOUS
<1>2. PICK list : list = LibraryRows(db, r)
  OBVIOUS
<1>3. PICK D : D = DOMAIN keys
  OBVIOUS
<1>4. PICK A : A = ListedBy(db, r)
  OBVIOUS
<1>5. ListsRows(keys, A, list)
  BY <1>1, <1>2, <1>4, LibraryListsRows
<1>6. list \in Seq(D) /\ ToSet(list) = D \cap A
  BY <1>3, <1>5 DEF ListsRows
<1>7. PICK n : n \in {2, 3} /\ Keyed(keys, n)
  <2>1. LibraryBy(db, r) \in Orders
    BY DEF LibraryBy, LibraryRequest, Orders
  <2>2. LibraryDown(db, r) \in BOOLEAN
    BY DEF LibraryDown
  <2>. QED BY <1>1, <2>1, <2>2, LibraryKeyed
<1>8. PICK x : x = r.selected
  OBVIOUS
<1>9. PICK seqs : seqs = [i \in DOMAIN list |-> If(r.fragment => list[i] = x, <<list[i]>>)]
  OBVIOUS
<1>10. PICK found : found = Concat(seqs)
  OBVIOUS
<1>11. Singly(list, {x}, seqs)
  BY <1>9 DEF Singly, If
<1>12. ListsRows(keys, A \cap {x}, found)
  BY <1>5, <1>7, <1>10, <1>11, FilteredRows
<1>13. found \in Seq(D) /\ ToSet(found) = D \cap (A \cap {x}) /\ \A h, k \in DOMAIN found : found[h] = found[k] => h = k
  BY <1>3, <1>12 DEF ListsRows
<1>14. \A k \in DOMAIN found : found[k] = x /\ x \in ToSet(list)
  <2>1. \A k \in DOMAIN found : found[k] \in ToSet(found)
    BY DEF ToSet
  <2>. QED BY <1>6, <1>13, <2>1
<1>15. PICK l \in Nat : l = Len(found) /\ DOMAIN found = 1..l
  BY <1>13
<1>16. l <= 1
  <2>. SUFFICES ASSUME l > 1 PROVE FALSE
    BY <1>15
  <2>1. 1 \in DOMAIN found /\ 2 \in DOMAIN found
    BY <1>15
  <2>2. found[1] = found[2]
    BY <1>14, <2>1
  <2>3. 1 = 2
    BY <1>13, <2>1, <2>2
  <2>. QED BY <2>3
<1>17. found # <<>> => found = <<x>>
  <2>. SUFFICES ASSUME found # <<>> PROVE found = <<x>>
    OBVIOUS
  <2>1. l = 1
    BY <1>13, <1>15, <1>16
  <2>2. found[1] = x
    BY <1>14, <1>15, <2>1
  <2>. QED BY <1>13, <1>15, <2>1, <2>2
<1>18. found = <<>> => x \notin ToSet(list)
  <2>1. found = <<>> => ToSet(found) = {}
    BY DEF ToSet
  <2>. QED BY <1>6, <1>13, <2>1
<1>19. PICK valid \in BOOLEAN : valid <=> FormValid(db, r)
  OBVIOUS
<1>20. PICK size : size = IF valid /\ r.all THEN Max({Len(found), 1}) ELSE PageRows
  OBVIOUS
<1>21. size \in Nat \ {0}
  <2>1. Max({l, 1}) = IF l >= 1 THEN l ELSE 1
    BY GreaterOfTwo
  <2>2. Max({Len(found), 1}) \in Nat \ {0}
    BY <1>15, <2>1
  <2>. QED BY <1>20, <2>2, PageAssumption
<1>22. PageOf(found, size, r.page) = found
  BY <1>13, <1>15, <1>16, <1>21, RowAlone
<1>23. PICK answer : answer = Library(db, r)
  OBVIOUS
<1>24. answer = LibraryPage(db, r, FormValid(db, r), found)
  BY <1>2, <1>8, <1>9, <1>10, <1>23, Zenon DEF Library, LibraryRows, LibraryBy, LibraryDown, Filtered
<1>25. PICK bad \in BOOLEAN : bad <=> (FormValid(db, r) /\ \E k \in ToSet(r.energy) : k < 0)
  OBVIOUS
<1>26. /\ answer.list = PageOf(found, IF FormValid(db, r) /\ r.all THEN Max({Len(found), 1}) ELSE PageRows, r.page)
       /\ answer.code = IF FormValid(db, r) /\ \E k \in ToSet(r.energy) : k < 0 THEN 500
                        ELSE IF r.fragment /\ PageOf(found, IF FormValid(db, r) /\ r.all THEN Max({Len(found), 1}) ELSE PageRows, r.page) = <<>>
                             THEN 404 ELSE 200
  BY <1>24 DEF LibraryPage
<1>27. size = IF FormValid(db, r) /\ r.all THEN Max({Len(found), 1}) ELSE PageRows
  BY <1>19, <1>20
<1>28. answer.list = found /\ answer.code = IF bad THEN 500 ELSE IF found = <<>> THEN 404 ELSE 200
  <2>1. answer.list = found
    BY <1>22, <1>26, <1>27
  <2>2. answer.code = IF bad THEN 500 ELSE IF r.fragment /\ found = <<>> THEN 404 ELSE 200
    BY <1>22, <1>25, <1>26, <1>27
  <2>. QED BY <2>1, <2>2
<1>29. answer.code = IF found = <<>> THEN 404 ELSE 200
  BY <1>23, <1>28
<1>. QED BY <1>2, <1>8, <1>17, <1>18, <1>23, <1>28, <1>29

-----------------------------------------------------------------------------
(* The library's answer to a request.                                      *)

\* A genre filter finds what has the genre.
LEMMA GenreTold ==
  ASSUME NEW db, NEW r \in ValidRequest(db), "genre" \in Chips(db, r), NEW i \in DOMAIN db.entries,
         GenreText(db.entries[i].genre)
  PROVE  LET genre == LibraryRow(db.entries[i]).genre
             has == ToSet(r.genre) \cap ObservedGenres(genre) # {}
         IN  /\ i \in PassAll(db, r, {"genre"}) => has
             /\ has /\ Canonical(genre) => i \in PassAll(db, r, {"genre"})
<1>1. PICK e, text, asked : e = db.entries[i] /\ text = e.genre /\ asked = ToSet(r.genre)
  OBVIOUS
<1>2. LibraryRow(e).genre = text
  BY <1>1 DEF LibraryRow
<1>3. r \in LibraryRequest
  BY Zenon DEF ValidRequest
<1>4. asked \subseteq GenreNames
  <2>1. r.genre \in Seq(GenreNames)
    BY <1>3 DEF LibraryRequest
  <2>2. PICK names, G : names = r.genre /\ G = GenreNames
    OBVIOUS
  <2>3. names \in Seq(G)
    BY <2>1, <2>2
  <2>4. ToSet(names) \subseteq G
    BY <2>3 DEF ToSet
  <2>. QED BY <1>1, <2>2, <2>4
<1>5. asked # {}
  <2>1. PICK F : F = [rotation : SUBSET STRING, file : SUBSET STRING, channels : SUBSET STRING, all : BOOLEAN,
                      managed : SUBSET STRING, follow : SUBSET STRING, collision : BOOLEAN]
    OBVIOUS
  <2>2. r.facts \in F
    BY <1>3, <2>1 DEF LibraryRequest
  <2>3. "genre" \notin DOMAIN r.facts
    BY <2>1, <2>2
  <2>4. ToSet(r["genre"]) # {}
    BY <2>3 DEF Chips
  <2>. QED BY <1>1, <2>4
<1>6. i \in PassAll(db, r, {"genre"}) <=> \E g \in asked : HasGenre(text, g)
  <2>1. PassesChip(e, r, "genre") <=> (asked # {} => \E g \in asked : HasGenre(text, g))
    BY <1>1, ChipAsked
  <2>2. i \in PassAll(db, r, {"genre"}) <=> PassesChip(e, r, "genre")
    BY <1>1 DEF PassAll
  <2>. QED BY <1>5, <2>1, <2>2
<1>7. \A g \in asked : /\ HasGenre(text, g) => g \in ObservedGenres(text)
                       /\ g \in ObservedGenres(text) /\ Canonical(text) => HasGenre(text, g)
  <2>. SUFFICES ASSUME NEW g \in asked
                PROVE  /\ HasGenre(text, g) => g \in ObservedGenres(text)
                       /\ g \in ObservedGenres(text) /\ Canonical(text) => HasGenre(text, g)
    OBVIOUS
  <2>1. g \in GenreNames /\ GenreText(text)
    BY <1>1, <1>4
  <2>. QED BY <2>1, GenreFound
<1>. QED BY <1>1, <1>2, <1>6, <1>7

\* The list says what was asked for, of every filter that is shown.
LEMMA LibraryTold ==
  ASSUME NEW db, NEW m \in Nat, EntriesListed(db, m), \A i \in 1..m : GenreText(db.entries[i].genre),
         NEW r \in LibraryRequest, Library(db, r).code # 500,
         NEW without, without = [c \in Chips(db, r) |-> ListedBy(db, WithoutChip(r, c))],
         NEW only, only = [c \in Chips(db, r) |-> ListedBy(db, FoldLeft(WithoutChip, r, SetToSeq(Chips(db, r) \ {c})))]
  PROVE  LibraryListed(db, r, Library(db, r), LibraryRows(db, r), without, only)
<1>1. PICK list : list = LibraryRows(db, r)
  OBVIOUS
<1>2. PICK keys : keys = LibraryKeys(db, LibraryBy(db, r), LibraryDown(db, r))
  OBVIOUS
<1>3. PICK E : E = DOMAIN db.entries
  OBVIOUS
<1>4. PICK chips : chips = Chips(db, r)
  OBVIOUS
<1>5. DOMAIN keys = E /\ E = 1..m
  <2>1. DOMAIN keys = E
    BY <1>2, <1>3 DEF LibraryKeys
  <2>. QED BY <1>3, <2>1 DEF EntriesListed
<1>6. /\ Once(list) /\ ToSet(list) = E \cap ListedBy(db, r)
  <2>1. ListsRows(keys, ListedBy(db, r), list)
    BY <1>1, <1>2, LibraryListsRows
  <2>. QED BY <1>5, <2>1 DEF ListsRows, Once
<1>7. FormValid(db, r) => r \in ValidRequest(db)
  BY Zenon DEF ValidRequest
<1>8. FormValid(db, r) => /\ ListedBy(db, r) = PassAll(db, r, chips)
                          /\ \A c \in chips : only[c] = PassAll(db, r, {c})
                          /\ \A c \in chips : without[c] = PassAll(db, r, chips \ {c})
  <2>. SUFFICES ASSUME FormValid(db, r)
                PROVE  /\ ListedBy(db, r) = PassAll(db, r, chips)
                       /\ \A c \in chips : only[c] = PassAll(db, r, {c})
                       /\ \A c \in chips : without[c] = PassAll(db, r, chips \ {c})
    BY Zenon
  <2>1. ListedBy(db, r) = PassAll(db, r, chips)
    BY <1>4, <1>7, ShownApply
  <2>2. ASSUME NEW c \in chips PROVE only[c] = PassAll(db, r, {c})
    <3>1. c \in Chips(db, r)
      BY <1>4, <2>2
    <3>2. only[c] = ListedBy(db, FoldLeft(WithoutChip, r, SetToSeq(Chips(db, r) \ {c})))
      BY <3>1, Zenon
    <3>3. ListedBy(db, FoldLeft(WithoutChip, r, SetToSeq(Chips(db, r) \ {c}))) = PassAll(db, r, {c})
      BY <1>7, <3>1, ListedAlone
    <3>. QED BY <3>2, <3>3, Zenon
  <2>3. ASSUME NEW c \in chips PROVE without[c] = PassAll(db, r, chips \ {c})
    <3>1. c \in Chips(db, r)
      BY <1>4, <2>3
    <3>2. without[c] = ListedBy(db, WithoutChip(r, c))
      BY <3>1, Zenon
    <3>3. ListedBy(db, WithoutChip(r, c)) = PassAll(db, r, Chips(db, r) \ {c})
      BY <1>7, <3>1, ListedWithout
    <3>. QED BY <1>4, <3>2, <3>3, Zenon
  <2>. QED BY <2>1, <2>2, <2>3
<1>9. ~FormValid(db, r) => chips = {} /\ E \subseteq ListedBy(db, r)
  <2>1. ~FormValid(db, r) => chips = {}
    BY <1>4 DEF Chips
  <2>2. ~FormValid(db, r) => E \subseteq ListedBy(db, r)
    BY <1>3 DEF ListedBy, LibraryTimes
  <2>. QED BY <2>1, <2>2
<1>10. DOMAIN only = chips
  BY <1>4
<1>11. PICK passed : passed = [C \in SUBSET chips |-> {i \in E : \A c \in C : i \in only[c]}]
  OBVIOUS
<1>12. \A C \in SUBSET chips : FormValid(db, r) => passed[C] = PassAll(db, r, C)
  <2>. SUFFICES ASSUME NEW C \in SUBSET chips, FormValid(db, r) PROVE passed[C] = PassAll(db, r, C)
    OBVIOUS
  <2>1. \A i \in E, c \in C : i \in only[c] <=> PassesChip(db.entries[i], r, c)
    <3>. SUFFICES ASSUME NEW i \in E, NEW c \in C PROVE i \in only[c] <=> PassesChip(db.entries[i], r, c)
      OBVIOUS
    <3>1. only[c] = PassAll(db, r, {c})
      BY <1>8
    <3>2. i \in PassAll(db, r, {c}) <=> PassesChip(db.entries[i], r, c)
      BY <1>3 DEF PassAll
    <3>. QED BY <3>1, <3>2
  <2>2. passed[C] = {i \in E : \A c \in C : i \in only[c]}
    BY <1>11
  <2>3. PassAll(db, r, C) = {i \in E : \A c \in C : PassesChip(db.entries[i], r, c)}
    BY <1>3, Zenon DEF PassAll
  <2>4. \A i : i \in passed[C] <=> i \in PassAll(db, r, C)
    BY <2>1, <2>2, <2>3
  <2>. QED BY <2>4
<1>13. Once(list) /\ ToSet(list) = passed[chips]
  <2>1. CASE FormValid(db, r)
    <3>1. PassAll(db, r, chips) \subseteq E
      BY <1>3 DEF PassAll
    <3>2. passed[chips] = PassAll(db, r, chips)
      BY <1>12, <2>1
    <3>. QED BY <1>6, <1>8, <2>1, <3>1, <3>2
  <2>2. CASE ~FormValid(db, r)
    <3>1. passed[{}] = E
      BY <1>11
    <3>. QED BY <1>6, <1>9, <2>2, <3>1
  <2>. QED BY <2>1, <2>2
<1>14. \A c \in chips : without[c] = passed[chips \ {c}]
  <2>. SUFFICES ASSUME NEW c \in chips PROVE without[c] = passed[chips \ {c}]
    OBVIOUS
  <2>1. FormValid(db, r)
    BY <1>9
  <2>2. chips \ {c} \in SUBSET chips
    OBVIOUS
  <2>. QED BY <1>8, <1>12, <2>1, <2>2
<1>15. "genre" \in chips => \A i \in E :
         LET genre == LibraryRow(db.entries[i]).genre
             has == ToSet(r.genre) \cap ObservedGenres(genre) # {}
         IN  /\ i \in only["genre"] => has
             /\ has /\ Canonical(genre) => i \in only["genre"]
  <2>. SUFFICES ASSUME "genre" \in chips, NEW i \in E
                PROVE  LET genre == LibraryRow(db.entries[i]).genre
                           has == ToSet(r.genre) \cap ObservedGenres(genre) # {}
                       IN  /\ i \in only["genre"] => has
                           /\ has /\ Canonical(genre) => i \in only["genre"]
    OBVIOUS
  <2>1. FormValid(db, r)
    BY <1>9
  <2>2. only["genre"] = PassAll(db, r, {"genre"})
    BY <1>8, <2>1
  <2>3. r \in ValidRequest(db) /\ "genre" \in Chips(db, r) /\ i \in DOMAIN db.entries /\ GenreText(db.entries[i].genre)
    BY <1>3, <1>4, <1>5, <1>7, <2>1
  <2>4. LET genre == LibraryRow(db.entries[i]).genre
            has == ToSet(r.genre) \cap ObservedGenres(genre) # {}
        IN  /\ i \in PassAll(db, r, {"genre"}) => has
            /\ has /\ Canonical(genre) => i \in PassAll(db, r, {"genre"})
    BY <2>3, GenreTold
  <2>. QED BY <2>2, <2>4, Zenon
<1>16. r.fragment => IF Library(db, r).code = 200 THEN Library(db, r).list = <<r.selected>>
                     ELSE r.selected \notin ToSet(list)
  BY <1>1, RowReloaded
<1>17. /\ Once(list) /\ ToSet(list) = {i \in E : \A c \in chips : i \in only[c]}
       /\ \A c \in chips : without[c] = {i \in E : \A d \in chips \ {c} : i \in only[d]}
  <2>1. chips \in SUBSET chips /\ \A c \in chips : chips \ {c} \in SUBSET chips
    OBVIOUS
  <2>2. \A C \in SUBSET chips : passed[C] = {i \in E : \A c \in C : i \in only[c]}
    BY <1>11, Zenon
  <2>. QED BY <1>13, <1>14, <2>1, <2>2, Zenon
<1>18. ToSet(list) = {i \in DOMAIN db.entries : \A c \in DOMAIN only : i \in only[c]}
  BY <1>3, <1>10, <1>17
<1>19. \A c \in DOMAIN only : without[c] = {i \in DOMAIN db.entries : \A d \in DOMAIN only \ {c} : i \in only[d]}
  BY <1>3, <1>10, <1>17
<1>20. "genre" \in DOMAIN only => \A i \in DOMAIN db.entries :
         LET genre == LibraryRow(db.entries[i]).genre
             has == ToSet(r.genre) \cap ObservedGenres(genre) # {}
         IN  /\ i \in only["genre"] => has
             /\ has /\ Canonical(genre) => i \in only["genre"]
  BY <1>3, <1>10, <1>15, Zenon
<1>21. LibraryListed(db, r, Library(db, r), list, without, only)
  BY <1>16, <1>17, <1>18, <1>19, <1>20, Zenon DEF LibraryListed
<1>. QED BY <1>1, <1>21

\* LibraryHonest, of a call.
LibraryOf(c) ==
  c.kind = "library" /\ c.answer.code # 500 =>
    LET db == c.db
        r == c.request
        chips == c.answer.chips
        list == Concat([p \in 1..Library(db, [r EXCEPT !.fragment = FALSE, !.page = 1]).pages |->
                          Library(db, [r EXCEPT !.fragment = FALSE, !.page = p])["list"]])
        listed(request) == LET times == LibraryTimes(db, request)
                           IN  {i \in DOMAIN times : times[i] > 0}
        alone(x) == FoldLeft(WithoutChip, r, SetToSeq(chips \ {x}))
    IN  /\ LibraryListed(db, r, c.answer, list, [x \in chips |-> listed(WithoutChip(r, x))],
                         [x \in chips |-> listed(alone(x))])
        /\ LibraryOrdered(db, r, list)

LEMMA LibraryCalled ==
  (LibraryHonest <=> LibraryOf(call)) /\ (LibraryHonest' <=> LibraryOf(call'))
BY Zenon DEF LibraryHonest, LibraryOf, AllRows

\* What the library lists (ListLibrary) is what was asked for.
LEMMA LibraryIsHonest ==
  ASSUME NEW d, DeskOf(d), ListLibrary(d)
  PROVE  LibraryHonest'
<1>1. d.of = "library"
  BY DEF ListLibrary
<1>2. PICK db, r : db = d.db /\ r = d.request
  OBVIOUS
<1>3. PICK c : c = call'
  OBVIOUS
<1>4. c.kind = "library" /\ c.db = db /\ c.request = r /\ c.answer = Library(db, r)
  BY <1>2, <1>3 DEF ListLibrary
<1>5. /\ r \in LibraryRequest /\ Shelf(db.entries) /\ TableOf(db.entries, {"duration", "energy"})
      /\ \A e \in Range(db.entries) : GenreText(e.genre)
  BY <1>1, <1>2, Zenon DEF DeskOf
<1>6. PICK m \in Nat : EntriesListed(db, m) /\ \A i \in 1..m : GenreText(db.entries[i].genre)
  <2>1. PICK columns, more : columns = {"title", "code", "updated"} /\ more = {"duration", "energy"}
    OBVIOUS
  <2>2. TableOf(db.entries, columns) /\ TableOf(db.entries, more) /\ \A e \in Range(db.entries) : CreditsOrdered(e)
    BY <1>5, <2>1, Zenon DEF Shelf
  <2>3. PICK m \in Nat : /\ m = Len(db.entries) /\ DOMAIN db.entries = 1..m
                         /\ Range(db.entries) = {db.entries[i] : i \in 1..m}
                         /\ \A i \in 1..m : \A x \in columns : db.entries[i][x] \in Nat
    BY <2>2, TableRows
  <2>4. PICK n \in Nat : n = Len(db.entries) /\ \A i \in 1..n : \A x \in more : db.entries[i][x] \in Nat
    BY <2>2, TableRows
  <2>5. \A i \in 1..m : EntryListed(db.entries[i])
    BY <2>1, <2>2, <2>3, <2>4 DEF EntryListed
  <2>. QED BY <1>5, <2>3, <2>5 DEF EntriesListed
<1>7. PICK chips : chips = Chips(db, r)
  OBVIOUS
<1>8. c.answer.chips = chips
  <2>1. Library(db, r).chips = Chips(db, r)
    BY DEF Library, LibraryPage
  <2>. QED BY <1>4, <1>7, <2>1
<1>9. PICK list : list = LibraryRows(db, r)
  OBVIOUS
<1>10. Concat([p \in 1..Library(db, [r EXCEPT !.fragment = FALSE, !.page = 1]).pages |->
                 Library(db, [r EXCEPT !.fragment = FALSE, !.page = p])["list"]]) = list
  <2>1. LibraryShown(db, r) = list
    BY <1>5, <1>6, <1>9, LibraryPaged
  <2>. QED BY <2>1, Zenon DEF LibraryShown
<1>11. PICK without : without = [x \in chips |-> ListedBy(db, WithoutChip(r, x))]
  OBVIOUS
<1>12. PICK only : only = [x \in chips |-> ListedBy(db, FoldLeft(WithoutChip, r, SetToSeq(chips \ {x})))]
  OBVIOUS
<1>13. c.answer.code # 500 => LibraryListed(db, r, c.answer, list, without, only)
  <2>. SUFFICES ASSUME c.answer.code # 500 PROVE LibraryListed(db, r, c.answer, list, without, only)
    OBVIOUS
  <2>1. Library(db, r).code # 500
    BY <1>4
  <2>2. LibraryListed(db, r, Library(db, r), LibraryRows(db, r), without, only)
    BY <1>5, <1>6, <1>7, <1>11, <1>12, <2>1, LibraryTold
  <2>. QED BY <1>4, <1>9, <2>2
<1>14. LibraryOrdered(db, r, list)
  BY <1>5, <1>6, <1>9, LibraryInOrder
<1>15. LibraryOf(c)
  BY <1>4, <1>8, <1>10, <1>11, <1>12, <1>13, <1>14, Zenon DEF LibraryOf, ListedBy
<1>. QED BY <1>3, <1>15, LibraryCalled
-----------------------------------------------------------------------------
(* All the lists.                                                          *)

\* A list, of a call.
MatchesOf(c) ==
  c.kind = "browse" =>
    LET filter == c.filter
        row    == c.row
        reasons == row.reasons
        asked(chosen, fact) == Cardinality(chosen) = 1 => (chosen = {"yes"} <=> fact)
        shown  ==
          /\ filter.rotation # {} => row.rotation \in filter.rotation
          /\ filter.file # {} => \/ row.file \in filter.file
                                 \/ "problem" \in filter.file /\ "file problem" \in reasons
          /\ filter.channels # {} =>
               Cardinality(row.channels \cap filter.channels)
                 >= (IF filter.all THEN Cardinality(filter.channels) ELSE 1)
          /\ asked(filter.managed, row.managed) /\ asked(filter.follow, reasons # {})
          /\ filter.collision => "collision" \in reasons
    IN  /\ shown => c.listed
        /\ c.listed /\ "missing" \notin filter.file => shown
        /\ (row.file_key = 0) <=> (row.file = "none")
        /\ row.file_key = 2 => row.file = "available"

CoversOf(c) ==
  c.kind = "covers" =>
    LET releases == c.db.releases
        on == {r \in DOMAIN releases : 1 \in ToSet(releases[r].tracks)}
        pictured == {r \in on : c.pages[r] # 0}
        readable(r, x) == \A p \in ToSet(releases[r].covers[x].places) : p.reads
        shown == {<<r, c.pages[r]>> : r \in {x \in DOMAIN releases : c.pages[x] # 0}}
    IN  /\ c.pages = c.tracks
        /\ c.recording = <<>> <=> pictured = {}
        /\ c.recording # <<>> =>
             /\ c.recording[1] \in pictured
             /\ \A r \in pictured : releases[c.recording[1]].year <= releases[r].year
        /\ \A s \in shown : readable(s[1], s[2]) => s \in c.served

ManagedOf(c) ==
  c.kind = "managed" /\ c.request.valid => ManagedHonest(c.db, c.request, c.today)

\* The conjuncts of ListingsHonest, of a call.
LEMMA ListingsCalled ==
  /\ (ListMatchesFilters <=> MatchesOf(call)) /\ (ListMatchesFilters' <=> MatchesOf(call'))
  /\ (CoversAgree <=> CoversOf(call)) /\ (CoversAgree' <=> CoversOf(call'))
  /\ (ManagedListAgrees <=> ManagedOf(call)) /\ (ManagedListAgrees' <=> ManagedOf(call'))
  /\ (WorkbenchHonest <=> WorkbenchOf(call)) /\ (WorkbenchHonest' <=> WorkbenchOf(call'))
  /\ (SearchesHonest <=> SearchOf(call) /\ TasksOf(call)) /\ (SearchesHonest' <=> SearchOf(call') /\ TasksOf(call'))
  /\ (LibraryHonest <=> LibraryOf(call)) /\ (LibraryHonest' <=> LibraryOf(call'))
<1>1. (ListMatchesFilters <=> MatchesOf(call)) /\ (ListMatchesFilters' <=> MatchesOf(call'))
  BY Zenon DEF ListMatchesFilters, MatchesOf
<1>2. (CoversAgree <=> CoversOf(call)) /\ (CoversAgree' <=> CoversOf(call'))
  BY Zenon DEF CoversAgree, CoversOf
<1>3. (ManagedListAgrees <=> ManagedOf(call)) /\ (ManagedListAgrees' <=> ManagedOf(call'))
  BY Zenon DEF ManagedListAgrees, ManagedOf, ManagedHonest, AllRows
<1>. QED BY <1>1, <1>2, <1>3, WorkbenchCalled, SearchesCalled, LibraryCalled, Zenon

\* Each of the conjuncts is about answers of its own kinds.
LEMMA ListedKinds ==
  /\ call'.kind # "browse" => ListMatchesFilters'
  /\ call'.kind # "covers" => CoversAgree'
  /\ call'.kind # "managed" => ManagedListAgrees'
  /\ call'.kind \notin {"archive", "releases"} => WorkbenchHonest'
  /\ call'.kind \notin {"search", "tasks"} => SearchesHonest'
  /\ call'.kind # "library" => LibraryHonest'
<1>1. /\ call'.kind # "browse" => MatchesOf(call') 
      /\ call'.kind # "covers" => CoversOf(call')
      /\ call'.kind # "managed" => ManagedOf(call')
      /\ call'.kind # "library" => LibraryOf(call')
  BY Zenon DEF MatchesOf, CoversOf, ManagedOf, LibraryOf
<1>2. call'.kind # "archive" /\ call'.kind # "releases" => WorkbenchOf(call')
  BY Zenon DEF WorkbenchOf
<1>3. call'.kind # "search" /\ call'.kind # "tasks" => SearchOf(call') /\ TasksOf(call')
  BY Zenon DEF SearchOf, TasksOf
<1>. QED BY <1>1, <1>2, <1>3, ListingsCalled, Zenon

\* An answer is that of the request of its kind.
LEMMA Requested ==
  ASSUME [Next]_call, call' # call
  PROVE  /\ call'.kind = "check" =>
              \E c \in Codes, i \in 1..18, digit \in 0..9 : Check(c, i, digit)
         /\ call'.kind = "ownership" =>
              \E claims \in Claims, local \in {1, Nobody} : Summarise(claims, local)
         /\ call'.kind = "royalties" => \E s \in Statements : Distribute(s)
         /\ call'.kind = "play" => \E s \in Streams : Play(s.entry, s.size, s.range, s.head)
         /\ call'.kind = "assemble" => \E b \in Batches : Assemble(b)
         /\ call'.kind = "json" => \E db \in Repertoires, today \in 1..2 : Publish(db, today)
         /\ call'.kind = "export" => \E works \in Works, type \in FileTypes : Export(works, type)
         /\ call'.kind = "transfer" =>
              \E works \in Catalogues, ignore \in BOOLEAN : Transfer(works, ignore)
         /\ call'.kind = "sync" => \E t \in Tagged : Synchronise(t.catalogue, t.file)
         /\ call'.kind = "generate" =>
              \E t \in Tagged, managed \in BOOLEAN : Generate(t.catalogue, t.file, managed)
         /\ call'.kind = "browse" => \E l \in Listings : Browse(l.entry, l.filter)
         /\ call'.kind = "library" => \E d \in Desks : ListLibrary(d)
         /\ call'.kind = "archive" => \E d \in Desks : ListArchive(d)
         /\ call'.kind = "managed" => \E d \in Desks, today \in 1..3 : ListManaged(d, today)
         /\ call'.kind = "releases" => \E d \in Desks, wide \in BOOLEAN : ListReleases(d, wide)
         /\ call'.kind = "search" => \E d \in Desks, long \in BOOLEAN : Search(d, long)
         /\ call'.kind = "tasks" => \E d \in Desks : ListTasks(d)
         /\ call'.kind = "covers" => \E d \in Desks : Picture(d)
<1>1. /\ \A works, type : Export(works, type) => call'.kind = "export"
      /\ \A works, ignore : Transfer(works, ignore) => call'.kind = "transfer"
      /\ \A s : Distribute(s) => call'.kind = "royalties"
      /\ \A claims, local : Summarise(claims, local) => call'.kind = "ownership"
      /\ \A c, i, digit : Check(c, i, digit) => call'.kind = "check"
  BY DEF Export, Transfer, Distribute, Summarise, Check
<1>2. /\ \A e, filter : Browse(e, filter) => call'.kind = "browse"
      /\ \A e, size, range, head : Play(e, size, range, head) => call'.kind = "play"
      /\ \A c, file : Synchronise(c, file) => call'.kind = "sync"
      /\ \A c, file, managed : Generate(c, file, managed) => call'.kind = "generate"
      /\ \A db, today : Publish(db, today) => call'.kind = "json"
      /\ \A b : Assemble(b) => call'.kind = "assemble"
  BY DEF Browse, Play, Synchronise, Generate, Publish, Assemble
<1>3. /\ \A d : ListLibrary(d) => call'.kind = "library"
      /\ \A d : ListArchive(d) => call'.kind = "archive"
      /\ \A d, today : ListManaged(d, today) => call'.kind = "managed"
      /\ \A d, wide : ListReleases(d, wide) => call'.kind = "releases"
      /\ \A d, long : Search(d, long) => call'.kind = "search"
      /\ \A d : ListTasks(d) => call'.kind = "tasks"
      /\ \A d : Picture(d) => call'.kind = "covers"
  BY DEF ListLibrary, ListArchive, ListManaged, ListReleases, Search, ListTasks, Picture
<1>4. Return => call'.kind = "idle"
  BY DEF Return, Idle
<1>. QED BY <1>1, <1>2, <1>3, <1>4 DEF Next, Request

\* What a request lists is listed honestly.
LEMMA ListsAreHonest ==
  ASSUME [Next]_call, call' # call
  PROVE  ListingsHonest'
<1>1. \A d \in Desks : DeskOf(d)
  BY DesksAssumption, Zenon DEF DesksAssumption
<1>2. ListMatchesFilters'
  <2>1. CASE call'.kind = "browse"
    <3>1. PICK l \in Listings : Browse(l.entry, l.filter)
      BY <2>1, Requested, Zenon
    <3>. QED BY <3>1, ListingMatched
  <2>. QED BY <2>1, ListedKinds, Zenon
<1>3. LibraryHonest'
  <2>1. CASE call'.kind = "library"
    <3>1. PICK d \in Desks : ListLibrary(d)
      BY <2>1, Requested, Zenon
    <3>. QED BY <1>1, <3>1, LibraryIsHonest
  <2>. QED BY <2>1, ListedKinds, Zenon
<1>4. WorkbenchHonest'
  <2>1. CASE call'.kind = "archive"
    <3>1. PICK d \in Desks : ListArchive(d)
      BY <2>1, Requested, Zenon
    <3>. QED BY <1>1, <3>1, ArchiveOnWorkbench
  <2>2. CASE call'.kind = "releases"
    <3>1. PICK d \in Desks, wide \in BOOLEAN : ListReleases(d, wide)
      BY <2>2, Requested, Zenon
    <3>. QED BY <1>1, <3>1, ReleasesShown
  <2>3. CASE call'.kind \notin {"archive", "releases"}
    BY <2>3, ListedKinds, Zenon
  <2>. QED BY <2>1, <2>2, <2>3
<1>5. ManagedListAgrees'
  <2>1. CASE call'.kind = "managed"
    <3>1. PICK d \in Desks, today \in 1..3 : ListManaged(d, today)
      BY <2>1, Requested, Zenon
    <3>. QED BY <1>1, <3>1, ManagedShown
  <2>. QED BY <2>1, ListedKinds, Zenon
<1>6. SearchesHonest'
  <2>1. CASE call'.kind = "search"
    <3>1. PICK d \in Desks, long \in BOOLEAN : Search(d, long)
      BY <2>1, Requested, Zenon
    <3>2. SearchOf(call')
      BY <1>1, <3>1, SearchesFound
    <3>3. TasksOf(call')
      <4>1. call'.kind # "tasks"
        BY <2>1
      <4>. QED BY <4>1, Zenon DEF TasksOf
    <3>. QED BY <3>2, <3>3, ListingsCalled, Zenon
  <2>2. CASE call'.kind = "tasks"
    <3>1. PICK d \in Desks : ListTasks(d)
      BY <2>2, Requested, Zenon
    <3>2. TasksOf(call')
      BY <1>1, <3>1, TasksWait
    <3>3. SearchOf(call')
      <4>1. call'.kind # "search"
        BY <2>2
      <4>. QED BY <4>1, Zenon DEF SearchOf
    <3>. QED BY <3>2, <3>3, ListingsCalled, Zenon
  <2>3. CASE call'.kind \notin {"search", "tasks"}
    BY <2>3, ListedKinds, Zenon
  <2>. QED BY <2>1, <2>2, <2>3
<1>7. CoversAgree'
  <2>1. CASE call'.kind = "covers"
    <3>1. PICK d \in Desks : Picture(d)
      BY <2>1, Requested, Zenon
    <3>. QED BY <1>1, <3>1, CoversPictured
  <2>. QED BY <2>1, ListedKinds, Zenon
<1>. QED BY <1>2, <1>3, <1>4, <1>5, <1>6, <1>7, Zenon DEF ListingsHonest

\* Whatever the rows of the desk, and whatever is asked: a list shows the rows it says it
\* shows, once, in its order and through all its pages, with columns and pictures that agree
\* with the filters, though the rows are chosen in SQL and the columns computed in Python.
THEOREM ListingsTrue == Spec => []ListingsHonest
<1>1. Init => ListingsHonest
  <2>. SUFFICES ASSUME Init PROVE ListingsHonest
    OBVIOUS
  <2>1. call.kind = "idle"
    BY DEF Init, Idle
  <2>2. /\ call.kind # "browse" /\ call.kind # "covers" /\ call.kind # "managed" /\ call.kind # "library"
        /\ call.kind # "archive" /\ call.kind # "releases" /\ call.kind # "search" /\ call.kind # "tasks"
    BY <2>1
  <2>3. MatchesOf(call) /\ CoversOf(call) /\ ManagedOf(call) /\ LibraryOf(call)
    BY <2>2, Zenon DEF MatchesOf, CoversOf, ManagedOf, LibraryOf
  <2>4. WorkbenchOf(call) /\ SearchOf(call) /\ TasksOf(call)
    BY <2>2, Zenon DEF WorkbenchOf, SearchOf, TasksOf
  <2>. QED BY <2>3, <2>4, ListingsCalled, Zenon DEF ListingsHonest
<1>2. ListingsHonest /\ [Next]_call => ListingsHonest'
  <2>. SUFFICES ASSUME ListingsHonest, [Next]_call PROVE ListingsHonest'
    OBVIOUS
  <2>1. CASE call' = call
    BY <2>1, ListingsCalled, Zenon DEF ListingsHonest
  <2>2. CASE call' # call
    BY <2>2, ListsAreHonest
  <2>. QED BY <2>1, <2>2
<1>. QED BY <1>1, <1>2, PTL DEF Spec

=============================================================================

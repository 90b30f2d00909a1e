------------------------- MODULE CalculationsProofs -------------------------
(***************************************************************************)
(* Answers that are right for every input: the check of an identifier      *)
(* finds any one misread character, the ownership summary concludes only   *)
(* from confirmed claims, the player is sent the bytes it asked for of the *)
(* one file the pages mark, an amount is paid out in full, the files of an *)
(* album come to one release, exports agree, a registration states the     *)
(* whole of every right, the tags of a file agree with the catalogue after *)
(* they were written, and works that were exported are read back as they   *)
(* were. Each property is about the answers of one request, so every step  *)
(* but that request keeps it; the work is in what the request computes.    *)
(* CatalogueProofs has the lemmas about sequences and sums, and what is    *)
(* computed for the catalogue; here each rounded part of an amount is      *)
(* shown near the exact one, and a file of registrations is followed line  *)
(* by line.                                                                *)
(***************************************************************************)
EXTENDS DeskProofs

-----------------------------------------------------------------------------
(* Sums of lists.                                                          *)

\* g has the sums of the first numbers of the list.
ListAdded(Q, list, g) ==
  /\ g \in [0..Len(list) -> Q] /\ g[0] = 0 /\ g[Len(list)] = Added(list)
  /\ \A k \in 1..Len(list) : g[k] = g[k - 1] + list[k]

\* The numbers of a list are added in turn.
LEMMA AddedUp ==
  ASSUME NEW Q \in {Nat, Int}, NEW list \in Seq(Q)
  PROVE  \E g : ListAdded(Q, list, g)
<1>. DEFINE Sums(f) == f = [S \in SUBSET DOMAIN list |->
                               IF S = {} THEN 0 ELSE f[S \ {Max(S)}] + list[Max(S)]]
<1>1. PICK c : c = CHOOSE f : Sums(f)
  OBVIOUS
<1>2. Added(list) = c[DOMAIN list]
  BY <1>1, Zenon DEF Added, FoldLeft, MapThenFoldSet
<1>3. PICK m \in Nat : m = Len(list) /\ DOMAIN list = 1..m
  OBVIOUS
<1>4. /\ \A k \in 1..m : list[k] \in Q
      /\ 0 \in Q /\ \A r, s \in Q : r + s \in Q
  <2>1. CASE Q = Nat
    BY <1>3, <2>1
  <2>2. CASE Q = Int
    BY <1>3, <2>2
  <2>. QED BY <2>1, <2>2
<1>5. PICK step \in [Q \X (1..m) -> Q] :
        \A k \in 1..m, s \in Q : step[<<s, k>>] = s + list[k]
  <2>1. [x \in Q \X (1..m) |-> x[1] + list[x[2]]] \in [Q \X (1..m) -> Q]
    BY <1>4
  <2>. QED BY <2>1
<1>6. PICK z : z = 0
  OBVIOUS
<1>7. z \in Q /\ step \in [Q \X (1..m) -> Q]
  BY <1>4, <1>6
<1>8. PICK f : Folds(m, Q, z, step, f)
  BY <1>7, FoldDefined
<1>9. Sums(f)
  <2>1. ASSUME NEW S \in SUBSET (1..m), S # {}
        PROVE  f[S] = f[S \ {Max(S)}] + list[Max(S)]
    <3>1. PICK x : x = Max(S)
      OBVIOUS
    <3>2. x \in 1..m /\ S \ {x} \in SUBSET (1..m)
      BY <2>1, <3>1, LastPosition
    <3>. QED BY <1>5, <1>6, <1>8, <2>1, <3>1, <3>2 DEF Folds
  <2>2. f = [S \in SUBSET (1..m) |-> IF S = {} THEN 0 ELSE f[S \ {Max(S)}] + list[Max(S)]]
    BY <1>6, <1>8, <2>1 DEF Folds
  <2>. QED BY <1>3, <2>2
<1>10. Sums(c)
  BY <1>1, <1>9, Zenon
<1>11. c[{}] = 0 /\ \A k \in 1..m : c[1..k] = c[1..(k - 1)] + list[k]
  <2>1. ASSUME NEW k \in 1..m PROVE c[1..k] = c[1..(k - 1)] + list[k]
    <3>1. 1..k \in SUBSET DOMAIN list /\ 1..k # {} /\ k \in Nat /\ k > 0
      <4>1. 1..k \subseteq 1..m /\ k \in 1..k /\ k \in Nat /\ k > 0
        OBVIOUS
      <4>2. 1..k # {}
        BY <4>1
      <4>. QED BY <1>3, <4>1, <4>2
    <3>2. Max(1..k) = k /\ (1..k) \ {Max(1..k)} = 1..(k - 1)
      BY <3>1, LastOfSegment
    <3>3. c[1..k] = c[(1..k) \ {Max(1..k)}] + list[Max(1..k)]
      BY <1>10, <3>1
    <3>. QED BY <3>2, <3>3
  <2>2. {} \in SUBSET DOMAIN list
    OBVIOUS
  <2>. QED BY <1>10, <2>1, <2>2
<1>12. Follows(m, Q, z, step, c)
  BY <1>5, <1>6, <1>11 DEF Follows
<1>13. PICK g : Runs(m, Q, z, step, c, g)
  BY <1>7, <1>12, FoldRuns
<1>14. g \in [0..m -> Q] /\ g[0] = 0 /\ g[m] = c[1..m]
  BY <1>6, <1>13 DEF Runs
<1>15. \A k \in 1..m : g[k] = g[k - 1] + list[k]
  <2>1. \A k \in 1..m : k - 1 \in 0..m
    OBVIOUS
  <2>. QED BY <1>5, <1>13, <1>14, <2>1 DEF Runs
<1>. QED BY <1>2, <1>3, <1>14, <1>15 DEF ListAdded

\* The lines of a work that are added are lines of the statement.
LEMMA WorkAdded ==
  ASSUME NEW lines \in Seq(RoyaltyLine), NEW list \in Seq(RoyaltyLine)
  PROVE  FoldLeft(AddControlled, lines, list) \in Seq(RoyaltyLine)
<1>. DEFINE Adds(f) == f = [S \in SUBSET DOMAIN list |->
                               IF S = {} THEN lines ELSE AddControlled(f[S \ {Max(S)}], list[Max(S)])]
<1>1. PICK c : c = CHOOSE f : Adds(f)
  OBVIOUS
<1>2. FoldLeft(AddControlled, lines, list) = c[DOMAIN list]
  BY <1>1, Zenon DEF FoldLeft, MapThenFoldSet
<1>3. PICK m \in Nat : m = Len(list) /\ DOMAIN list = 1..m
  OBVIOUS
<1>4. PICK Q : Q = Seq(RoyaltyLine)
  OBVIOUS
<1>5. \A s \in Q, k \in 1..m : AddControlled(s, list[k]) \in Q
  BY <1>3, <1>4 DEF AddControlled
<1>6. PICK step \in [Q \X (1..m) -> Q] :
        \A k \in 1..m, s \in Q : step[<<s, k>>] = AddControlled(s, list[k])
  <2>1. [x \in Q \X (1..m) |-> AddControlled(x[1], list[x[2]])] \in [Q \X (1..m) -> Q]
    BY <1>5
  <2>. QED BY <2>1
<1>7. PICK f : Folds(m, Q, lines, step, f)
  BY <1>4, <1>6, FoldDefined
<1>8. Adds(f)
  <2>1. ASSUME NEW S \in SUBSET (1..m), S # {}
        PROVE  f[S] = AddControlled(f[S \ {Max(S)}], list[Max(S)])
    <3>1. PICK x : x = Max(S)
      OBVIOUS
    <3>2. x \in 1..m /\ S \ {x} \in SUBSET (1..m)
      BY <2>1, <3>1, LastPosition
    <3>. QED BY <1>6, <1>7, <2>1, <3>1, <3>2 DEF Folds
  <2>2. f = [S \in SUBSET (1..m) |->
               IF S = {} THEN lines ELSE AddControlled(f[S \ {Max(S)}], list[Max(S)])]
    BY <1>7, <2>1 DEF Folds
  <2>. QED BY <1>3, <2>2
<1>9. Adds(c)
  BY <1>1, <1>8, Zenon
<1>10. c[{}] = lines /\ \A k \in 1..m : c[1..k] = AddControlled(c[1..(k - 1)], list[k])
  <2>1. ASSUME NEW k \in 1..m PROVE c[1..k] = AddControlled(c[1..(k - 1)], list[k])
    <3>1. 1..k \in SUBSET DOMAIN list /\ 1..k # {} /\ k \in Nat /\ k > 0
      <4>1. 1..k \subseteq 1..m /\ k \in 1..k /\ k \in Nat /\ k > 0
        OBVIOUS
      <4>2. 1..k # {}
        BY <4>1
      <4>. QED BY <1>3, <4>1, <4>2
    <3>2. Max(1..k) = k /\ (1..k) \ {Max(1..k)} = 1..(k - 1)
      BY <3>1, LastOfSegment
    <3>3. c[1..k] = AddControlled(c[(1..k) \ {Max(1..k)}], list[Max(1..k)])
      BY <1>9, <3>1
    <3>. QED BY <3>2, <3>3
  <2>2. {} \in SUBSET DOMAIN list
    OBVIOUS
  <2>. QED BY <1>9, <2>1, <2>2
<1>11. Follows(m, Q, lines, step, c)
  BY <1>6, <1>10 DEF Follows
<1>12. PICK g : Runs(m, Q, lines, step, c, g)
  BY <1>4, <1>6, <1>11, FoldRuns
<1>13. c[1..m] \in Q
  <2>1. m \in 0..m
    OBVIOUS
  <2>. QED BY <1>12, <2>1 DEF Runs
<1>. QED BY <1>2, <1>3, <1>4, <1>13

\* The lines that an identifier names are lines of the statement.
LEMMA LinesAdded ==
  ASSUME NEW W, NEW list \in Seq(W), \A w \in W : w.lines \in Seq(RoyaltyLine), NEW id
  PROVE  LinesOf(list, id) \in Seq(RoyaltyLine)
<1>. DEFINE Adds(f) == f = [S \in SUBSET DOMAIN list |->
                               IF S = {} THEN <<>> ELSE AddWork(f[S \ {Max(S)}], list[Max(S)], id)]
<1>1. PICK c : c = CHOOSE f : Adds(f)
  OBVIOUS
<1>2. LinesOf(list, id) = c[DOMAIN list]
  BY <1>1, Zenon DEF LinesOf, FoldLeft, MapThenFoldSet
<1>3. PICK m \in Nat : m = Len(list) /\ DOMAIN list = 1..m
  OBVIOUS
<1>4. PICK Q, z : Q = Seq(RoyaltyLine) /\ z = <<>> /\ z \in Q
  <2>1. <<>> \in Seq(RoyaltyLine)
    OBVIOUS
  <2>. QED BY <2>1, Zenon
<1>5. \A s \in Q, k \in 1..m : AddWork(s, list[k], id) \in Q
  BY <1>3, <1>4, WorkAdded DEF AddWork
<1>6. PICK step \in [Q \X (1..m) -> Q] :
        \A k \in 1..m, s \in Q : step[<<s, k>>] = AddWork(s, list[k], id)
  <2>1. [x \in Q \X (1..m) |-> AddWork(x[1], list[x[2]], id)] \in [Q \X (1..m) -> Q]
    BY <1>5
  <2>. QED BY <2>1
<1>7. PICK f : Folds(m, Q, z, step, f)
  BY <1>4, <1>6, FoldDefined
<1>8. Adds(f)
  <2>1. ASSUME NEW S \in SUBSET (1..m), S # {}
        PROVE  f[S] = AddWork(f[S \ {Max(S)}], list[Max(S)], id)
    <3>1. PICK x : x = Max(S)
      OBVIOUS
    <3>2. x \in 1..m /\ S \ {x} \in SUBSET (1..m)
      BY <2>1, <3>1, LastPosition
    <3>. QED BY <1>6, <1>7, <2>1, <3>1, <3>2 DEF Folds
  <2>2. f = [S \in SUBSET (1..m) |->
               IF S = {} THEN <<>> ELSE AddWork(f[S \ {Max(S)}], list[Max(S)], id)]
    BY <1>4, <1>7, <2>1 DEF Folds
  <2>. QED BY <1>3, <2>2
<1>9. Adds(c)
  BY <1>1, <1>8, Zenon
<1>10. c[{}] = <<>> /\ \A k \in 1..m : c[1..k] = AddWork(c[1..(k - 1)], list[k], id)
  <2>1. ASSUME NEW k \in 1..m PROVE c[1..k] = AddWork(c[1..(k - 1)], list[k], id)
    <3>1. 1..k \in SUBSET DOMAIN list /\ 1..k # {} /\ k \in Nat /\ k > 0
      <4>1. 1..k \subseteq 1..m /\ k \in 1..k /\ k \in Nat /\ k > 0
        OBVIOUS
      <4>2. 1..k # {}
        BY <4>1
      <4>. QED BY <1>3, <4>1, <4>2
    <3>2. Max(1..k) = k /\ (1..k) \ {Max(1..k)} = 1..(k - 1)
      BY <3>1, LastOfSegment
    <3>3. c[1..k] = AddWork(c[(1..k) \ {Max(1..k)}], list[Max(1..k)], id)
      BY <1>9, <3>1
    <3>. QED BY <3>2, <3>3
  <2>2. {} \in SUBSET DOMAIN list
    OBVIOUS
  <2>. QED BY <1>9, <2>1, <2>2
<1>11. Follows(m, Q, z, step, c)
  BY <1>4, <1>6, <1>10 DEF Follows
<1>12. PICK g : Runs(m, Q, z, step, c, g)
  BY <1>4, <1>6, <1>11, FoldRuns
<1>13. c[1..m] \in Q
  <2>1. m \in 0..m
    OBVIOUS
  <2>. QED BY <1>12, <2>1 DEF Runs
<1>. QED BY <1>2, <1>3, <1>4, <1>13

\* What grows by the numbers of a list is their sum.
LEMMA AddedIs ==
  ASSUME NEW list \in Seq(Int), NEW h, h[0] = 0, \A k \in 1..Len(list) : h[k] = h[k - 1] + list[k]
  PROVE  Added(list) = h[Len(list)] /\ Added(list) \in Int
<1>1. PICK g : ListAdded(Int, list, g)
  BY AddedUp
<1>2. PICK n \in Nat : n = Len(list)
  OBVIOUS
<1>3. g \in [0..n -> Int] /\ g[0] = 0 /\ g[n] = Added(list) /\ \A k \in 1..n : g[k] = g[k - 1] + list[k]
  BY <1>1, <1>2 DEF ListAdded
<1>4. PICK K : K = {k \in 0..n : h[k] = g[k]}
  OBVIOUS
<1>5. 0 \in K
  BY <1>3, <1>4
<1>6. ASSUME NEW k \in 0..n, k \in K, k < n PROVE k + 1 \in K
  <2>1. k + 1 \in 1..n /\ (k + 1) - 1 = k /\ k + 1 \in 0..n
    BY <1>6
  <2>2. h[k + 1] = h[k] + list[k + 1] /\ g[k + 1] = g[k] + list[k + 1] /\ h[k] = g[k]
    BY <1>2, <1>3, <1>4, <1>6, <2>1
  <2>. QED BY <1>4, <2>1, <2>2
<1>7. n \in K
  BY <1>5, <1>6, UpTo
<1>. QED BY <1>2, <1>3, <1>4, <1>7

\* Nothing adds up to nothing.
LEMMA ZerosAdded ==
  ASSUME NEW list \in Seq(Int), \A k \in 1..Len(list) : list[k] = 0
  PROVE  Added(list) = 0
<1>1. PICK h : h = [k \in 0..Len(list) |-> 0]
  OBVIOUS
<1>2. h[0] = 0 /\ h[Len(list)] = 0 /\ \A k \in 1..Len(list) : h[k] = h[k - 1] + list[k]
  BY <1>1
<1>. QED BY <1>2, AddedIs

\* Lists that are added number by number are added.
LEMMA AddedTogether ==
  ASSUME NEW n \in Nat, NEW a \in Seq(Int), Len(a) = n, NEW b \in Seq(Int), Len(b) = n, NEW c \in Seq(Int), Len(c) = n,
         \A k \in 1..n : c[k] = a[k] + b[k]
  PROVE  Added(c) = Added(a) + Added(b)
<1>1. PICK f, g : ListAdded(Int, a, f) /\ ListAdded(Int, b, g)
  BY AddedUp
<1>2. /\ f \in [0..n -> Int] /\ f[0] = 0 /\ f[n] = Added(a) /\ \A k \in 1..n : f[k] = f[k - 1] + a[k]
      /\ g \in [0..n -> Int] /\ g[0] = 0 /\ g[n] = Added(b) /\ \A k \in 1..n : g[k] = g[k - 1] + b[k]
  BY <1>1 DEF ListAdded
<1>3. PICK h : h = [k \in 0..n |-> f[k] + g[k]]
  OBVIOUS
<1>4. h[0] = 0 /\ h[n] = f[n] + g[n]
  BY <1>2, <1>3
<1>5. ASSUME NEW k \in 1..n PROVE h[k] = h[k - 1] + c[k]
  <2>1. k \in 0..n /\ k - 1 \in 0..n /\ k \in DOMAIN a /\ k \in DOMAIN b
    OBVIOUS
  <2>2. f[k - 1] \in Int /\ g[k - 1] \in Int /\ a[k] \in Int /\ b[k] \in Int
    BY <1>2, <2>1
  <2>. QED BY <1>2, <1>3, <2>1, <2>2
<1>6. Added(c) = h[n]
  BY <1>4, <1>5, AddedIs
<1>. QED BY <1>2, <1>4, <1>6

\* The sum of two lists put together.
LEMMA AddedJoined ==
  ASSUME NEW a \in Seq(Int), NEW b \in Seq(Int)
  PROVE  Added(a \o b) = Added(a) + Added(b) /\ Added(a) \in Int /\ Added(b) \in Int
<1>1. PICK m \in Nat, n \in Nat : m = Len(a) /\ n = Len(b)
  OBVIOUS
<1>2. PICK f, g : ListAdded(Int, a, f) /\ ListAdded(Int, b, g)
  BY AddedUp
<1>3. /\ f \in [0..m -> Int] /\ f[0] = 0 /\ f[m] = Added(a) /\ \A k \in 1..m : f[k] = f[k - 1] + a[k]
      /\ g \in [0..n -> Int] /\ g[0] = 0 /\ g[n] = Added(b) /\ \A k \in 1..n : g[k] = g[k - 1] + b[k]
  BY <1>1, <1>2 DEF ListAdded
<1>4. PICK c : c = a \o b
  OBVIOUS
<1>5. /\ c \in Seq(Int) /\ Len(c) = m + n /\ \A k \in 1..m : c[k] = a[k]
      /\ \A k \in (m + 1)..(m + n) : c[k] = b[k - m]
  BY <1>1, <1>4
<1>6. PICK h : h = [k \in 0..(m + n) |-> IF k <= m THEN f[k] ELSE f[m] + g[k - m]]
  OBVIOUS
<1>7. h[0] = 0 /\ h[m + n] = f[m] + g[n]
  <2>1. 0 <= m /\ 0 \in 0..(m + n) /\ m + n \in 0..(m + n)
    OBVIOUS
  <2>2. m + n <= m => n = 0
    OBVIOUS
  <2>3. (m + n) - m = n /\ m \in 0..m /\ f[m] \in Int
    BY <1>3
  <2>4. h[0] = 0
    BY <1>3, <1>6, <2>1
  <2>5. CASE n = 0
    BY <1>3, <1>6, <2>1, <2>3, <2>4, <2>5
  <2>6. CASE n # 0
    <3>1. h[m + n] = f[m] + g[(m + n) - m]
      BY <1>6, <2>1, <2>2, <2>6
    <3>. QED BY <2>3, <2>4, <3>1
  <2>. QED BY <2>5, <2>6
<1>8. ASSUME NEW k \in 1..(m + n) PROVE h[k] = h[k - 1] + c[k]
  <2>1. k \in 0..(m + n) /\ k - 1 \in 0..(m + n)
    OBVIOUS
  <2>2. CASE k <= m
    <3>1. k \in 1..m /\ k - 1 <= m
      BY <2>2
    <3>. QED BY <1>3, <1>5, <1>6, <2>1, <2>2, <3>1
  <2>3. CASE k > m
    <3>1. k - m \in 1..n /\ (k - m) - 1 \in 0..n /\ k \in (m + 1)..(m + n) /\ m \in 0..m
      BY <2>3
    <3>2. h[k] = f[m] + g[k - m] /\ c[k] = b[k - m] /\ g[k - m] = g[(k - m) - 1] + b[k - m]
      BY <1>3, <1>5, <1>6, <2>1, <2>3, <3>1
    <3>3. h[k - 1] = f[m] + g[(k - m) - 1]
      <4>1. CASE k - 1 = m
        <5>1. (k - m) - 1 = 0
          BY <4>1
        <5>. QED BY <1>3, <1>6, <2>1, <3>1, <4>1, <5>1
      <4>2. CASE k - 1 # m
        <5>1. ~ (k - 1 <= m) /\ (k - 1) - m = (k - m) - 1
          BY <2>3, <4>2
        <5>. QED BY <1>6, <2>1, <5>1
      <4>. QED BY <4>1, <4>2
    <3>4. f[m] \in Int /\ g[(k - m) - 1] \in Int
      BY <1>3, <3>1
    <3>5. b[k - m] \in Int
      <4>1. \A i \in 1..n : b[i] \in Int
        BY <1>1
      <4>. QED BY <3>1, <4>1
    <3>. QED BY <3>2, <3>3, <3>4, <3>5
  <2>. QED BY <2>2, <2>3
<1>9. Added(c) = h[m + n]
  BY <1>5, <1>7, <1>8, AddedIs
<1>10. f[m] \in Int /\ g[n] \in Int
  <2>1. m \in 0..m /\ n \in 0..n
    OBVIOUS
  <2>. QED BY <1>3, <2>1
<1>. QED BY <1>3, <1>4, <1>7, <1>9, <1>10

-----------------------------------------------------------------------------
(* Check digits.                                                           *)

\* The weighted sums of the digits before the last, as check_ean_digit takes them.
EanSums(code, g) ==
  LET n == Len(code)
  IN  /\ g \in [0..(n - 1) -> Nat] /\ g[0] = 0
      /\ \A k \in 1..(n - 1) :
           g[k] = g[k - 1] + (IF (n - k) % 2 = 1 THEN 3 ELSE 1) * code[k]
      /\ ValidEAN(code) <=> code[n] = (10 - (g[n - 1] % 10)) % 10

\* ValidEAN compares the last digit with the last of these sums.
LEMMA EanSummed ==
  ASSUME NEW code \in Seq(0..9), code # <<>>
  PROVE  \E g : EanSums(code, g)
<1>. DEFINE n == Len(code)
            d == Front(code)
            p == [i \in DOMAIN d |-> i]
            Weight(k) == IF (n - k) % 2 = 1 THEN 3 ELSE 1
            Summed(f) == f = [S \in SUBSET DOMAIN p |->
                                IF S = {} THEN 0
                                ELSE f[S \ {Max(S)}] + Weight(p[Max(S)]) * d[p[Max(S)]]]
<1>1. PICK c : c = CHOOSE f : Summed(f)
  OBVIOUS
<1>2. ValidEAN(code) <=> code[n] = (10 - (c[DOMAIN p] % 10)) % 10
  BY <1>1, Zenon DEF ValidEAN, Weighted, FoldLeftDomain, FoldLeft, MapThenFoldSet, Last
<1>3. PICK m \in Nat : n = m + 1
  <2>1. n \in Nat /\ n > 0
    OBVIOUS
  <2>2. n - 1 \in Nat /\ n = (n - 1) + 1
    BY <2>1
  <2>. QED BY <2>2
<1>4. /\ \A k \in 1..n : code[k] \in 0..9
      /\ DOMAIN d = 1..m /\ \A k \in 1..m : d[k] = code[k]
  BY <1>3 DEF Front
<1>5. DOMAIN p = 1..m /\ \A k \in 1..m : p[k] = k
  BY <1>4
<1>6. PICK v : v = [k \in 1..m |-> Weight(k) * d[k]]
  OBVIOUS
<1>7. v \in [1..m -> Nat]
  <2>1. \A k \in 1..m : d[k] \in 0..9
    BY <1>3, <1>4
  <2>2. \A x \in 0..9 : 3 * x \in Nat /\ 1 * x \in Nat
    OBVIOUS
  <2>. HIDE DEF d
  <2>. QED BY <1>6, <2>1, <2>2
<1>8. PICK step \in [Nat \X (1..m) -> Nat] : \A k \in 1..m, s \in Nat : step[<<s, k>>] = s + v[k]
  <2>1. [x \in Nat \X (1..m) |-> x[1] + v[x[2]]] \in [Nat \X (1..m) -> Nat]
    BY <1>7
  <2>. QED BY <2>1
<1>. HIDE DEF n, d, p, Weight
<1>9. PICK Q, z : Q = Nat /\ z = 0
  OBVIOUS
<1>10. z \in Q /\ step \in [Q \X (1..m) -> Q]
  BY <1>9
<1>11. PICK f \in [SUBSET (1..m) -> Nat] : \A S \in SUBSET (1..m) :
         f[S] = IF S = {} THEN 0 ELSE step[<<f[S \ {Max(S)}], Max(S)>>]
  <2>1. \E f : Folds(m, Q, z, step, f)
    BY <1>10, FoldDefined
  <2>. QED BY <1>9, <2>1 DEF Folds
<1>12. Summed(f)
  <2>1. ASSUME NEW S \in SUBSET (1..m), S # {}
        PROVE  f[S] = f[S \ {Max(S)}] + Weight(p[Max(S)]) * d[p[Max(S)]]
    <3>1. PICK x : x = Max(S)
      OBVIOUS
    <3>2. x \in 1..m /\ S \ {x} \in SUBSET (1..m)
      BY <2>1, <3>1, LastPosition
    <3>3. f[S] = f[S \ {x}] + v[x] /\ p[x] = x
      BY <1>5, <1>8, <1>11, <2>1, <3>1, <3>2
    <3>. QED BY <1>6, <3>1, <3>2, <3>3
  <2>2. f = [S \in SUBSET (1..m) |->
               IF S = {} THEN 0 ELSE f[S \ {Max(S)}] + Weight(p[Max(S)]) * d[p[Max(S)]]]
    BY <1>11, <2>1
  <2>. QED BY <1>5, <2>2
<1>13. Summed(c)
  BY <1>1, <1>12, Zenon
<1>14. c[{}] = 0 /\ \A k \in 1..m : c[1..k] = c[1..(k - 1)] + v[k]
  <2>1. ASSUME NEW k \in 1..m PROVE c[1..k] = c[1..(k - 1)] + v[k]
    <3>1. 1..k \in SUBSET DOMAIN p /\ 1..k # {} /\ k \in Nat /\ k > 0
      BY <1>5
    <3>2. Max(1..k) = k /\ (1..k) \ {Max(1..k)} = 1..(k - 1)
      BY <3>1, LastOfSegment
    <3>3. c[1..k] = c[(1..k) \ {Max(1..k)}] + Weight(p[Max(1..k)]) * d[p[Max(1..k)]]
      BY <1>13, <3>1
    <3>. QED BY <1>5, <1>6, <3>2, <3>3
  <2>2. {} \in SUBSET DOMAIN p
    OBVIOUS
  <2>. QED BY <1>13, <2>1, <2>2
<1>15. PICK g \in [0..m -> Nat] :
         /\ g[0] = 0 /\ g[m] = c[1..m]
         /\ \A k \in 1..m : g[k] = step[<<g[k - 1], k>>]
  <2>1. Follows(m, Q, z, step, c)
    BY <1>8, <1>9, <1>14 DEF Follows
  <2>2. \E g : Runs(m, Q, z, step, c, g)
    BY <1>3, <1>10, <2>1, FoldRuns
  <2>. QED BY <1>9, <2>2 DEF Runs
<1>16. \A k \in 1..m : g[k] = g[k - 1] + Weight(k) * code[k]
  <2>1. \A k \in 1..m : k - 1 \in 0..m
    OBVIOUS
  <2>. QED BY <1>4, <1>6, <1>8, <1>15, <2>1
<1>17. ValidEAN(code) <=> code[n] = (10 - (g[m] % 10)) % 10
  BY <1>2, <1>5, <1>15
<1>18. m = n - 1 /\ n = Len(code)
  BY <1>3 DEF n
<1>. QED BY <1>15, <1>16, <1>17, <1>18 DEF EanSums, Weight, n

\* A sequence with one value replaced.
LEMMA Replaced ==
  ASSUME NEW D, NEW code \in Seq(D), NEW i \in DOMAIN code, NEW digit \in D
  PROVE  /\ [code EXCEPT ![i] = digit] \in Seq(D) /\ [code EXCEPT ![i] = digit] # <<>>
         /\ Len([code EXCEPT ![i] = digit]) = Len(code)
         /\ Len(code) \in Nat \ {0} /\ i \in 1..Len(code)
         /\ \A k \in 1..Len(code) :
              /\ code[k] \in D
              /\ [code EXCEPT ![i] = digit][k] = IF k = i THEN digit ELSE code[k]
OBVIOUS

\* A digit misread makes the sum another one modulo 10, since 3 and 10 have no
\* common factor, or it is the last one, which is no other than the sum demands.
LEMMA MisreadEAN ==
  ASSUME NEW code \in Seq(0..9), NEW i \in DOMAIN code, NEW digit \in 0..9, digit # code[i],
         ValidEAN(code)
  PROVE  ~ ValidEAN([code EXCEPT ![i] = digit])
<1>1. PICK n : n = Len(code)
  OBVIOUS
<1>2. PICK other : other = [code EXCEPT ![i] = digit]
  OBVIOUS
<1>3. /\ other \in Seq(0..9) /\ other # <<>> /\ Len(other) = n /\ n \in Nat \ {0} /\ i \in 1..n
      /\ \A k \in 1..n : code[k] \in 0..9 /\ other[k] = IF k = i THEN digit ELSE code[k]
  BY <1>1, <1>2, Replaced
<1>4. code # <<>>
  OBVIOUS
<1>5. PICK g : EanSums(code, g)
  BY <1>4, EanSummed
<1>6. PICK h : EanSums(other, h)
  BY <1>3, EanSummed
<1>. DEFINE Weight(k) == IF (n - k) % 2 = 1 THEN 3 ELSE 1
<1>7. PICK m \in Nat : n = m + 1 /\ n - 1 = m
  BY <1>3
<1>8. /\ g \in [0..m -> Nat] /\ g[0] = 0 /\ \A k \in 1..m : g[k] = g[k - 1] + Weight(k) * code[k]
      /\ h \in [0..m -> Nat] /\ h[0] = 0 /\ \A k \in 1..m : h[k] = h[k - 1] + Weight(k) * other[k]
  BY <1>1, <1>3, <1>5, <1>6, <1>7 DEF EanSums
<1>9. code[n] = (10 - (g[m] % 10)) % 10 /\ (ValidEAN(other) <=> other[n] = (10 - (h[m] % 10)) % 10)
  BY <1>1, <1>3, <1>5, <1>6, <1>7 DEF EanSums
<1>10. PICK e : e = IF i = n THEN 0 ELSE Weight(i) * (digit - code[i])
  OBVIOUS
<1>11. PICK K : K = {k \in 0..m : h[k] = g[k] + (IF k < i THEN 0 ELSE e)}
  OBVIOUS
<1>12. 0 \in K
  BY <1>3, <1>8, <1>11
<1>13. ASSUME NEW k \in 0..m, k \in K, k < m PROVE k + 1 \in K
  <2>1. k + 1 \in 1..m /\ k + 1 \in 0..m /\ (k + 1) - 1 = k /\ k + 1 \in 1..n /\ k + 1 # n
    BY <1>7, <1>13
  <2>2. g[k] \in Nat /\ g[k + 1] = g[k] + Weight(k + 1) * code[k + 1] /\ h[k + 1] = h[k] + Weight(k + 1) * other[k + 1]
    BY <1>8, <2>1
  <2>3. code[k + 1] \in 0..9 /\ digit \in 0..9 /\ (other[k + 1] = IF k + 1 = i THEN digit ELSE code[k + 1])
    BY <1>3, <2>1
  <2>4. PICK w : w = Weight(k + 1) /\ w \in {1, 3}
    OBVIOUS
  <2>5. k + 1 = i => e = w * (digit - code[k + 1])
    BY <1>10, <2>1, <2>4
  <2>6. e \in Int
    BY <1>3, <1>10
  <2>. HIDE DEF Weight
  <2>7. CASE k + 1 < i
    <3>1. h[k] = g[k] /\ other[k + 1] = code[k + 1]
      BY <1>11, <1>13, <2>2, <2>3, <2>7
    <3>2. h[k + 1] = g[k + 1]
      BY <2>2, <3>1
    <3>. QED BY <1>11, <2>1, <2>2, <2>3, <2>4, <2>7, <3>2
  <2>8. CASE k + 1 = i
    <3>1. h[k] = g[k]
      BY <1>11, <1>13, <2>2, <2>8
    <3>2. PICK a, b : a = w * digit /\ b = w * code[k + 1]
      OBVIOUS
    <3>3. a \in Nat /\ b \in Nat /\ a = b + e
      <4>1. PICK x \in Nat, y \in Nat : x = digit /\ y = code[k + 1]
        BY <2>3
      <4>2. a = w * x /\ b = w * y /\ e = w * (x - y)
        BY <2>5, <2>8, <3>2, <4>1
      <4>3. CASE w = 1
        BY <4>2, <4>3
      <4>4. CASE w = 3
        BY <4>2, <4>4
      <4>. QED BY <2>4, <4>3, <4>4
    <3>4. h[k + 1] = h[k] + a /\ g[k + 1] = g[k] + b
      BY <2>2, <2>3, <2>4, <2>8, <3>2
    <3>5. h[k + 1] = g[k + 1] + e
      BY <2>2, <2>6, <3>1, <3>3, <3>4
    <3>. QED BY <1>11, <2>1, <2>8, <3>5
  <2>9. CASE k + 1 > i
    <3>1. h[k] = g[k] + e /\ other[k + 1] = code[k + 1]
      BY <1>3, <1>11, <1>13, <2>1, <2>3, <2>9
    <3>2. w * code[k + 1] \in Nat
      BY <2>3, <2>4
    <3>3. h[k + 1] = g[k + 1] + e
      BY <2>2, <2>4, <2>6, <3>1, <3>2
    <3>. QED BY <1>3, <1>11, <2>1, <2>9, <3>3
  <2>. QED BY <1>3, <2>1, <2>7, <2>8, <2>9
<1>14. m \in K
  BY <1>7, <1>12, <1>13, UpTo
<1>15. g[m] \in Nat /\ h[m] \in Nat
  BY <1>7, <1>8
<1>16. CASE i = n
  <2>1. h[m] = g[m]
    BY <1>7, <1>11, <1>14, <1>15, <1>16
  <2>. QED BY <1>2, <1>3, <1>9, <1>16, <2>1
<1>17. CASE i # n
  <2>1. h[m] = g[m] + e /\ other[n] = code[n]
    BY <1>3, <1>7, <1>11, <1>14, <1>17
  <2>2. e \in Int /\ e % 10 # 0
    <3>1. code[i] \in 0..9
      BY <1>3
    <3>2. \A x \in 0..9, y \in 0..9 : x # y => (1 * (x - y)) % 10 # 0 /\ (3 * (x - y)) % 10 # 0
      OBVIOUS
    <3>3. PICK w : w = Weight(i) /\ w \in {1, 3}
      OBVIOUS
    <3>4. e = w * (digit - code[i])
      BY <1>10, <1>17, <3>3
    <3>5. e = 1 * (digit - code[i]) \/ e = 3 * (digit - code[i])
      BY <3>3, <3>4
    <3>6. (1 * (digit - code[i])) % 10 # 0 /\ (3 * (digit - code[i])) % 10 # 0
      BY <3>1, <3>2
    <3>. QED BY <3>1, <3>5, <3>6
  <2>3. \A x \in Nat, y \in Int : y % 10 # 0 /\ x + y \in Nat
          => (10 - ((x + y) % 10)) % 10 # (10 - (x % 10)) % 10
    OBVIOUS
  <2>. QED BY <1>2, <1>9, <1>15, <2>1, <2>2, <2>3
<1>. QED BY <1>16, <1>17
\* The totals of the characters before the last, as check_isni_digit takes them.
IsniTotals(code, g) ==
  LET n == Len(code)
  IN  /\ g \in [0..(n - 1) -> Nat] /\ g[0] = 0
      /\ \A k \in 1..(n - 1) : g[k] = 2 * (g[k - 1] + code[k])
      /\ ValidISNI(code) <=> code[n] = (12 - (g[n - 1] % 11)) % 11

\* ValidISNI compares the last character with the last of these totals.
LEMMA IsniTotalled ==
  ASSUME NEW code \in Seq(0..10), code # <<>>
  PROVE  \E g : IsniTotals(code, g)
<1>. DEFINE n == Len(code)
            d == Front(code)
            Totalled(f) == f = [S \in SUBSET DOMAIN d |->
                                  IF S = {} THEN 0 ELSE 2 * (f[S \ {Max(S)}] + d[Max(S)])]
<1>1. PICK c : c = CHOOSE f : Totalled(f)
  OBVIOUS
<1>2. ValidISNI(code) <=> code[n] = (12 - (c[DOMAIN d] % 11)) % 11
  BY <1>1, Zenon DEF ValidISNI, FoldLeft, MapThenFoldSet, Last
<1>3. PICK m \in Nat : n = m + 1
  <2>1. n \in Nat /\ n > 0
    OBVIOUS
  <2>2. n - 1 \in Nat /\ n = (n - 1) + 1
    BY <2>1
  <2>. QED BY <2>2
<1>4. /\ \A k \in 1..n : code[k] \in 0..10
      /\ DOMAIN d = 1..m /\ \A k \in 1..m : d[k] = code[k] /\ d[k] \in Nat
  BY <1>3 DEF Front
<1>. HIDE DEF n, d
<1>5. PICK step \in [Nat \X (1..m) -> Nat] :
        \A k \in 1..m, s \in Nat : step[<<s, k>>] = 2 * (s + d[k])
  <2>1. [x \in Nat \X (1..m) |-> 2 * (x[1] + d[x[2]])] \in [Nat \X (1..m) -> Nat]
    BY <1>4
  <2>. QED BY <2>1
<1>6. PICK Q, z : Q = Nat /\ z = 0
  OBVIOUS
<1>7. z \in Q /\ step \in [Q \X (1..m) -> Q]
  BY <1>6
<1>8. PICK f : Folds(m, Q, z, step, f)
  BY <1>7, FoldDefined
<1>9. Totalled(f)
  <2>1. ASSUME NEW S \in SUBSET (1..m), S # {}
        PROVE  f[S] = 2 * (f[S \ {Max(S)}] + d[Max(S)])
    <3>1. PICK x : x = Max(S)
      OBVIOUS
    <3>2. x \in 1..m /\ S \ {x} \in SUBSET (1..m)
      BY <2>1, <3>1, LastPosition
    <3>. QED BY <1>5, <1>6, <1>8, <2>1, <3>1, <3>2 DEF Folds
  <2>2. f = [S \in SUBSET (1..m) |-> IF S = {} THEN 0 ELSE 2 * (f[S \ {Max(S)}] + d[Max(S)])]
    BY <1>6, <1>8, <2>1 DEF Folds
  <2>. QED BY <1>4, <2>2
<1>10. Totalled(c)
  BY <1>1, <1>9, Zenon
<1>11. c[{}] = 0 /\ \A k \in 1..m : c[1..k] = 2 * (c[1..(k - 1)] + d[k])
  <2>1. ASSUME NEW k \in 1..m PROVE c[1..k] = 2 * (c[1..(k - 1)] + d[k])
    <3>1. 1..k \in SUBSET DOMAIN d /\ 1..k # {} /\ k \in Nat /\ k > 0
      <4>1. 1..k \subseteq 1..m /\ k \in 1..k /\ k \in Nat /\ k > 0
        OBVIOUS
      <4>2. 1..k # {}
        BY <4>1
      <4>. QED BY <1>4, <4>1, <4>2
    <3>2. Max(1..k) = k /\ (1..k) \ {Max(1..k)} = 1..(k - 1)
      BY <3>1, LastOfSegment
    <3>3. c[1..k] = 2 * (c[(1..k) \ {Max(1..k)}] + d[Max(1..k)])
      BY <1>10, <3>1
    <3>. QED BY <3>2, <3>3
  <2>2. {} \in SUBSET DOMAIN d
    OBVIOUS
  <2>. QED BY <1>10, <2>1, <2>2
<1>12. Follows(m, Q, z, step, c)
  BY <1>5, <1>6, <1>11 DEF Follows
<1>13. PICK g : Runs(m, Q, z, step, c, g)
  BY <1>7, <1>12, FoldRuns
<1>14. g \in [0..m -> Nat] /\ g[0] = 0 /\ g[m] = c[1..m]
  BY <1>6, <1>13 DEF Runs
<1>15. \A k \in 1..m : g[k] = 2 * (g[k - 1] + code[k])
  <2>1. \A k \in 1..m : k - 1 \in 0..m
    OBVIOUS
  <2>. QED BY <1>4, <1>5, <1>13, <1>14, <2>1 DEF Runs
<1>16. ValidISNI(code) <=> code[n] = (12 - (g[m] % 11)) % 11
  BY <1>2, <1>4, <1>14
<1>17. m = n - 1 /\ n = Len(code)
  BY <1>3 DEF n
<1>. QED BY <1>14, <1>15, <1>16, <1>17 DEF IsniTotals

\* The checks after each character, as check_dpid takes them.
Doubled(check) == ((IF check = 0 THEN 36 ELSE check) * 2) % 37
DpidChecks(code, g) ==
  LET n == Len(code)
  IN  /\ g \in [0..n -> 0..35]
      /\ \A k \in 1..n : g[k] = (Doubled(g[k - 1]) + code[k]) % 36
      /\ g[0] = 18 /\ (ValidDPID(code) <=> g[n] = 1)

\* ValidDPID asks whether the last of these checks is 1.
LEMMA DpidChecked ==
  ASSUME NEW code \in Seq(0..35)
  PROVE  \E g : DpidChecks(code, g)
<1>. DEFINE After(check, d) == ((((IF check = 0 THEN 36 ELSE check) * 2) % 37) + d) % 36
            Checked(f) == f = [S \in SUBSET DOMAIN code |->
                                 IF S = {} THEN 18 ELSE After(f[S \ {Max(S)}], code[Max(S)])]
<1>1. PICK c : c = CHOOSE f : Checked(f)
  OBVIOUS
<1>2. ValidDPID(code) <=> c[DOMAIN code] = 1
  BY <1>1, Zenon DEF ValidDPID, FoldLeft, MapThenFoldSet
<1>3. PICK n \in Nat : n = Len(code) /\ DOMAIN code = 1..n
  OBVIOUS
<1>4. \A k \in 1..n : code[k] \in 0..35
  BY <1>3
<1>5. \A s \in 0..35, x \in 0..35 : After(s, x) \in 0..35 /\ After(s, x) = (Doubled(s) + x) % 36
  BY DEF Doubled
<1>. HIDE DEF After
<1>6. PICK Q, z : Q = 0..35 /\ z = 18
  OBVIOUS
<1>7. PICK step \in [Q \X (1..n) -> Q] :
        \A k \in 1..n, s \in Q : step[<<s, k>>] = After(s, code[k])
  <2>1. [x \in Q \X (1..n) |-> After(x[1], code[x[2]])] \in [Q \X (1..n) -> Q]
    BY <1>4, <1>5, <1>6
  <2>. QED BY <2>1
<1>8. z \in Q
  BY <1>6
<1>9. PICK f : Folds(n, Q, z, step, f)
  BY <1>7, <1>8, FoldDefined
<1>10. Checked(f)
  <2>1. ASSUME NEW S \in SUBSET (1..n), S # {}
        PROVE  f[S] = After(f[S \ {Max(S)}], code[Max(S)])
    <3>1. PICK x : x = Max(S)
      OBVIOUS
    <3>2. x \in 1..n /\ S \ {x} \in SUBSET (1..n)
      BY <2>1, <3>1, LastPosition
    <3>. QED BY <1>7, <1>9, <2>1, <3>1, <3>2 DEF Folds
  <2>2. f = [S \in SUBSET (1..n) |-> IF S = {} THEN 18 ELSE After(f[S \ {Max(S)}], code[Max(S)])]
    BY <1>6, <1>9, <2>1 DEF Folds
  <2>. QED BY <1>3, <2>2
<1>11. Checked(c)
  BY <1>1, <1>10, Zenon
<1>12. c[{}] = 18 /\ \A k \in 1..n : c[1..k] = After(c[1..(k - 1)], code[k])
  <2>1. ASSUME NEW k \in 1..n PROVE c[1..k] = After(c[1..(k - 1)], code[k])
    <3>1. 1..k \in SUBSET DOMAIN code /\ 1..k # {} /\ k \in Nat /\ k > 0
      <4>1. 1..k \subseteq 1..n /\ k \in 1..k /\ k \in Nat /\ k > 0
        OBVIOUS
      <4>2. 1..k # {}
        BY <4>1
      <4>. QED BY <1>3, <4>1, <4>2
    <3>2. Max(1..k) = k /\ (1..k) \ {Max(1..k)} = 1..(k - 1)
      BY <3>1, LastOfSegment
    <3>3. c[1..k] = After(c[(1..k) \ {Max(1..k)}], code[Max(1..k)])
      BY <1>11, <3>1
    <3>. QED BY <3>2, <3>3
  <2>2. {} \in SUBSET DOMAIN code
    OBVIOUS
  <2>. QED BY <1>11, <2>1, <2>2
<1>13. Follows(n, Q, z, step, c)
  BY <1>6, <1>7, <1>12 DEF Follows
<1>14. PICK g : Runs(n, Q, z, step, c, g)
  BY <1>7, <1>8, <1>13, FoldRuns
<1>15. g \in [0..n -> 0..35] /\ g[0] = 18 /\ g[n] = c[1..n]
  BY <1>6, <1>14 DEF Runs
<1>16. \A k \in 1..n : g[k] = (Doubled(g[k - 1]) + code[k]) % 36
  <2>1. \A k \in 1..n : k - 1 \in 0..n
    OBVIOUS
  <2>2. \A k \in 1..n : g[k] = After(g[k - 1], code[k])
    BY <1>6, <1>7, <1>14, <1>15, <2>1 DEF Runs
  <2>. QED BY <1>4, <1>5, <1>15, <2>1, <2>2
<1>. QED BY <1>2, <1>3, <1>15, <1>16 DEF DpidChecks

\* A character misread makes the total another one modulo 11, and doubling keeps it so,
\* since 2 and 11 have no common factor.
LEMMA MisreadISNI ==
  ASSUME NEW code \in Seq(0..10), NEW i \in DOMAIN code, NEW digit \in 0..10, digit # code[i],
         ValidISNI(code)
  PROVE  ~ ValidISNI([code EXCEPT ![i] = digit])
<1>1. PICK n : n = Len(code)
  OBVIOUS
<1>2. PICK other : other = [code EXCEPT ![i] = digit]
  OBVIOUS
<1>3. /\ other \in Seq(0..10) /\ other # <<>> /\ Len(other) = n /\ n \in Nat \ {0} /\ i \in 1..n
      /\ \A k \in 1..n : code[k] \in 0..10 /\ other[k] = IF k = i THEN digit ELSE code[k]
  BY <1>1, <1>2, Replaced
<1>4. code # <<>>
  OBVIOUS
<1>5. PICK g : IsniTotals(code, g)
  BY <1>4, IsniTotalled
<1>6. PICK h : IsniTotals(other, h)
  BY <1>3, IsniTotalled
<1>7. PICK m \in Nat : n = m + 1 /\ n - 1 = m
  BY <1>3
<1>8. /\ g \in [0..m -> Nat] /\ g[0] = 0 /\ \A k \in 1..m : g[k] = 2 * (g[k - 1] + code[k])
      /\ h \in [0..m -> Nat] /\ h[0] = 0 /\ \A k \in 1..m : h[k] = 2 * (h[k - 1] + other[k])
  BY <1>1, <1>3, <1>5, <1>6, <1>7 DEF IsniTotals
<1>9. code[n] = (12 - (g[m] % 11)) % 11 /\ (ValidISNI(other) <=> other[n] = (12 - (h[m] % 11)) % 11)
  BY <1>1, <1>3, <1>5, <1>6, <1>7 DEF IsniTotals
<1>10. PICK K : K = {k \in 0..m : IF k < i THEN h[k] = g[k] ELSE (h[k] - g[k]) % 11 # 0}
  OBVIOUS
<1>11. 0 \in K
  BY <1>3, <1>8, <1>10
<1>12. ASSUME NEW k \in 0..m, k \in K, k < m PROVE k + 1 \in K
  <2>1. k + 1 \in 1..m /\ k + 1 \in 0..m /\ (k + 1) - 1 = k /\ k + 1 \in 1..n
    BY <1>7, <1>12
  <2>2. PICK x, y, a, b : x = g[k] /\ y = h[k] /\ a = code[k + 1] /\ b = other[k + 1]
    OBVIOUS
  <2>3. x \in Nat /\ y \in Nat /\ g[k + 1] = 2 * (x + a) /\ h[k + 1] = 2 * (y + b)
    BY <1>8, <2>1, <2>2
  <2>4. a \in 0..10 /\ b \in 0..10 /\ (b = IF k + 1 = i THEN digit ELSE a)
    BY <1>3, <2>1, <2>2
  <2>5. CASE k + 1 < i
    <3>1. x = y /\ a = b
      BY <1>10, <1>12, <2>2, <2>4, <2>5
    <3>. QED BY <1>10, <2>1, <2>3, <2>4, <2>5, <3>1
  <2>6. CASE k + 1 = i
    <3>1. x = y /\ a # b /\ b \in 0..10
      BY <1>10, <1>12, <2>2, <2>4, <2>6
    <3>2. (2 * (y + b) - 2 * (x + a)) % 11 # 0
      <4>1. PICK d \in (-10)..10 : d = b - a /\ d # 0
        BY <2>4, <3>1
      <4>2. 2 * (y + b) - 2 * (x + a) = 2 * d
        BY <2>3, <2>4, <3>1, <4>1
      <4>3. (2 * d) % 11 # 0
        <5>1. d \in 1..5 \/ d \in 6..10 \/ d \in (-5)..(-1) \/ d \in (-10)..(-6)
          BY <4>1
        <5>2. CASE d \in 1..5
          BY <5>2
        <5>3. CASE d \in 6..10
          BY <5>3
        <5>4. CASE d \in (-5)..(-1)
          BY <5>4
        <5>5. CASE d \in (-10)..(-6)
          BY <5>5
        <5>. QED BY <5>1, <5>2, <5>3, <5>4, <5>5
      <4>. QED BY <4>2, <4>3
    <3>. QED BY <1>10, <2>1, <2>3, <2>6, <3>2
  <2>7. CASE k + 1 > i
    <3>1. (y - x) % 11 # 0 /\ a = b
      BY <1>3, <1>10, <1>12, <2>1, <2>2, <2>4, <2>7
    <3>2. (2 * (y + b) - 2 * (x + a)) % 11 # 0
      BY <2>3, <2>4, <3>1
    <3>. QED BY <1>3, <1>10, <2>1, <2>3, <2>7, <3>2
  <2>. QED BY <1>3, <2>1, <2>5, <2>6, <2>7
<1>13. m \in K
  BY <1>7, <1>11, <1>12, UpTo
<1>14. g[m] \in Nat /\ h[m] \in Nat
  BY <1>7, <1>8
<1>15. CASE i = n
  <2>1. h[m] = g[m]
    BY <1>7, <1>10, <1>13, <1>14, <1>15
  <2>. QED BY <1>2, <1>3, <1>9, <1>15, <2>1
<1>16. CASE i # n
  <2>1. (h[m] - g[m]) % 11 # 0 /\ other[n] = code[n]
    BY <1>3, <1>7, <1>10, <1>13, <1>16
  <2>2. \A x \in Nat, y \in Nat : (y - x) % 11 # 0 => (12 - (y % 11)) % 11 # (12 - (x % 11)) % 11
    OBVIOUS
  <2>. QED BY <1>2, <1>9, <1>14, <2>1, <2>2
<1>. QED BY <1>15, <1>16

\* Neither a check nor a character is confused with another by the next check.
LEMMA MisreadDPID ==
  ASSUME NEW code \in Seq(0..35), NEW i \in DOMAIN code, NEW digit \in 0..35, digit # code[i],
         ValidDPID(code)
  PROVE  ~ ValidDPID([code EXCEPT ![i] = digit])
<1>1. PICK n : n = Len(code)
  OBVIOUS
<1>2. PICK other : other = [code EXCEPT ![i] = digit]
  OBVIOUS
<1>3. /\ other \in Seq(0..35) /\ Len(other) = n /\ n \in Nat \ {0} /\ i \in 1..n
      /\ \A k \in 1..n : code[k] \in 0..35 /\ other[k] = IF k = i THEN digit ELSE code[k]
  BY <1>1, <1>2, Replaced
<1>4. PICK g : DpidChecks(code, g)
  BY DpidChecked
<1>5. PICK h : DpidChecks(other, h)
  BY <1>3, DpidChecked
<1>6. /\ g \in [0..n -> 0..35] /\ g[0] = 18 /\ \A k \in 1..n : g[k] = (Doubled(g[k - 1]) + code[k]) % 36
      /\ h \in [0..n -> 0..35] /\ h[0] = 18 /\ \A k \in 1..n : h[k] = (Doubled(h[k - 1]) + other[k]) % 36
  BY <1>1, <1>3, <1>4, <1>5 DEF DpidChecks
<1>7. g[n] = 1 /\ (ValidDPID(other) <=> h[n] = 1)
  BY <1>1, <1>3, <1>4, <1>5 DEF DpidChecks
<1>8. \A s \in 0..35 : Doubled(s) \in 1..36
  BY DEF Doubled
<1>9. \A s \in 0..35, t \in 0..35 : s # t => Doubled(s) # Doubled(t)
  <2>1. \A s \in 0..35 : Doubled(s) = IF s = 0 THEN 35 ELSE IF s <= 18 THEN 2 * s ELSE 2 * s - 37
    BY DEF Doubled
  <2>2. ASSUME NEW s \in 0..35, NEW t \in 0..35, s # t PROVE Doubled(s) # Doubled(t)
    <3>1. PICK x, y : x = Doubled(s) /\ y = Doubled(t)
      OBVIOUS
    <3>2. x = (IF s = 0 THEN 35 ELSE IF s <= 18 THEN 2 * s ELSE 2 * s - 37)
      BY <2>1, <3>1
    <3>3. y = (IF t = 0 THEN 35 ELSE IF t <= 18 THEN 2 * t ELSE 2 * t - 37)
      BY <2>1, <3>1
    <3>. QED BY <2>2, <3>1, <3>2, <3>3
  <2>. QED BY <2>2
<1>10. \A s \in 1..36, a \in 0..35 : (s + a) % 36 = IF s + a < 36 THEN s + a ELSE s + a - 36
  OBVIOUS
<1>11. \A s \in 1..36, t \in 1..36, a \in 0..35, b \in 0..35 :
         (s = t <=> a # b) => (s + a) % 36 # (t + b) % 36
  <2>1. ASSUME NEW s \in 1..36, NEW t \in 1..36, NEW a \in 0..35, NEW b \in 0..35, s = t <=> a # b
        PROVE  (s + a) % 36 # (t + b) % 36
    <3>1. (s + a) % 36 = IF s + a < 36 THEN s + a ELSE s + a - 36
      BY <1>10
    <3>2. (t + b) % 36 = IF t + b < 36 THEN t + b ELSE t + b - 36
      BY <1>10
    <3>. QED BY <2>1, <3>1, <3>2
  <2>. QED BY <2>1
<1>12. PICK K : K = {k \in 0..n : g[k] = h[k] <=> k < i}
  OBVIOUS
<1>13. 0 \in K
  BY <1>3, <1>6, <1>12
<1>14. ASSUME NEW k \in 0..n, k \in K, k < n PROVE k + 1 \in K
  <2>1. k + 1 \in 1..n /\ k + 1 \in 0..n /\ (k + 1) - 1 = k
    BY <1>3, <1>14
  <2>2. PICK x, y, a, b : x = g[k] /\ y = h[k] /\ a = code[k + 1] /\ b = other[k + 1]
    OBVIOUS
  <2>3. /\ x \in 0..35 /\ y \in 0..35
        /\ g[k + 1] = (Doubled(x) + a) % 36 /\ h[k + 1] = (Doubled(y) + b) % 36
    BY <1>6, <2>1, <2>2
  <2>4. a \in 0..35 /\ b \in 0..35 /\ (k + 1 # i => a = b) /\ (k + 1 = i => a # b)
    BY <1>3, <2>1, <2>2
  <2>5. Doubled(x) \in 1..36 /\ Doubled(y) \in 1..36 /\ (x # y => Doubled(x) # Doubled(y))
    BY <1>8, <1>9, <2>3
  <2>6. CASE k + 1 < i
    <3>1. x = y
      BY <1>3, <1>12, <1>14, <2>2, <2>6
    <3>. QED BY <1>12, <2>1, <2>3, <2>4, <2>6, <3>1
  <2>7. CASE k + 1 = i
    <3>1. x = y
      BY <1>12, <1>14, <2>2, <2>7
    <3>2. g[k + 1] # h[k + 1]
      BY <1>11, <2>3, <2>4, <2>5, <2>7, <3>1
    <3>. QED BY <1>12, <2>1, <2>7, <3>2
  <2>8. CASE k + 1 > i
    <3>1. x # y
      BY <1>3, <1>12, <1>14, <2>1, <2>2, <2>8
    <3>2. a = b /\ Doubled(x) # Doubled(y)
      BY <1>3, <2>1, <2>4, <2>5, <2>8, <3>1
    <3>3. g[k + 1] # h[k + 1]
      BY <1>11, <2>3, <2>4, <2>5, <3>2
    <3>. QED BY <1>3, <1>12, <2>1, <2>8, <3>3
  <2>. QED BY <1>3, <2>1, <2>6, <2>7, <2>8
<1>15. n \in K
  BY <1>3, <1>13, <1>14, UpTo
<1>16. g[n] # h[n]
  BY <1>3, <1>12, <1>15
<1>. QED BY <1>2, <1>7, <1>16

-----------------------------------------------------------------------------
(* Sums over finite sets.                                                  *)

\* The first element of a set, as MapThenSumSet takes them.
Chosen(S) == CHOOSE x \in S : TRUE

\* g has the sums of f over the subsets of D.
AddsUp(f, D, g) ==
  g = [S \in SUBSET D |-> IF S = {} THEN 0 ELSE f[Chosen(S)] + g[S \ {Chosen(S)}]]

\* A function has sums over the subsets of a finite set.
LEMMA SumsDefined ==
  ASSUME NEW D, IsFiniteSet(D), NEW f
  PROVE  \E g : AddsUp(f, D, g)
<1>. DEFINE Small(n) == {S \in SUBSET D : Cardinality(S) <= n}
            Adds(n, g) == g = [S \in Small(n) |-> IF S = {} THEN 0
                                                 ELSE f[Chosen(S)] + g[S \ {Chosen(S)}]]
<1>1. PICK N \in Nat : N = Cardinality(D)
  BY FS_CardinalityType
<1>2. \A S \in SUBSET D : IsFiniteSet(S) /\ Cardinality(S) \in 0..N
  BY <1>1, FS_Subset, FS_CardinalityType
<1>3. Small(N) = SUBSET D
  BY <1>2
<1>4. \A S \in SUBSET D : S # {} =>
        /\ Chosen(S) \in S /\ S \ {Chosen(S)} \in SUBSET D
        /\ Cardinality(S \ {Chosen(S)}) = Cardinality(S) - 1
  BY <1>2, FS_RemoveElement DEF Chosen
<1>5. PICK K : K = {k \in 0..N : \E g : Adds(k, g)}
  OBVIOUS
<1>6. 0 \in K
  <2>1. Small(0) = {{}}
    BY <1>2, FS_EmptySet
  <2>2. PICK g : g = [S \in Small(0) |-> 0]
    OBVIOUS
  <2>3. Adds(0, g)
    BY <2>1, <2>2
  <2>4. \E i : Adds(0, i)
    BY <2>3
  <2>5. 0 \in 0..N
    BY <1>1
  <2>. HIDE DEF Adds
  <2>. QED BY <1>5, <2>4, <2>5
<1>7. ASSUME NEW k \in 0..N, k \in K, k < N
      PROVE  k + 1 \in K
  <2>1. PICK g : Adds(k, g)
    BY <1>5, <1>7
  <2>2. PICK h : h = [S \in Small(k + 1) |-> IF S = {} THEN 0
                                             ELSE f[Chosen(S)] + g[S \ {Chosen(S)}]]
    OBVIOUS
  <2>3. ASSUME NEW S \in Small(k + 1), S # {}
        PROVE  S \ {Chosen(S)} \in Small(k) /\ S \ {Chosen(S)} \in Small(k + 1)
    BY <1>2, <1>4, <2>3
  <2>4. \A S \in Small(k) : g[S] = h[S]
    <3>1. Small(k) \subseteq Small(k + 1)
      BY <1>2
    <3>. QED BY <2>1, <2>2, <3>1
  <2>5. h = [S \in Small(k + 1) |-> IF S = {} THEN 0 ELSE f[Chosen(S)] + h[S \ {Chosen(S)}]]
    BY <2>2, <2>3, <2>4
  <2>6. \E i : Adds(k + 1, i)
    BY <2>5
  <2>7. k + 1 \in 0..N
    BY <1>7
  <2>. QED BY <1>5, <2>6, <2>7
<1>8. N \in K
  BY <1>6, <1>7, UpTo
<1>9. \E g : g = [S \in SUBSET D |-> IF S = {} THEN 0 ELSE f[Chosen(S)] + g[S \ {Chosen(S)}]]
  BY <1>3, <1>5, <1>8
<1>. QED BY <1>9 DEF AddsUp

\* A sum of natural numbers is one.
LEMMA SumsNat ==
  ASSUME NEW D, IsFiniteSet(D), NEW f \in [D -> Nat], NEW g, AddsUp(f, D, g)
  PROVE  \A S \in SUBSET D : g[S] \in Nat
<1>1. \A S \in SUBSET D : g[S] = IF S = {} THEN 0 ELSE f[Chosen(S)] + g[S \ {Chosen(S)}]
  BY DEF AddsUp
<1>2. PICK K : K = {S \in SUBSET D : g[S] \in Nat}
  OBVIOUS
<1>3. ASSUME NEW S \in SUBSET D, \A T \in SUBSET S : T # S => T \in K
      PROVE  S \in K
  <2>1. CASE S = {}
    <3>1. g[S] = 0
      BY <1>1, <2>1
    <3>. QED BY <1>2, <3>1
  <2>2. CASE S # {}
    <3>1. PICK a : a = Chosen(S)
      OBVIOUS
    <3>2. a \in S /\ g[S] = f[a] + g[S \ {a}]
      BY <1>1, <2>2, <3>1 DEF Chosen
    <3>3. g[S \ {a}] \in Nat /\ f[a] \in Nat
      BY <1>2, <1>3, <3>2
    <3>. QED BY <1>2, <3>2, <3>3
  <2>. QED BY <2>1, <2>2
<1>4. SUBSET D \subseteq K
  BY <1>3, BySubsets
<1>. QED BY <1>2, <1>4

\* The sums take the elements of a set in any order.
AnyOrder(f, D, g) == \A S \in SUBSET D : \A c \in S : g[S] = f[c] + g[S \ {c}]

\* The sums of natural numbers do.
LEMMA SumsRemove ==
  ASSUME NEW D, IsFiniteSet(D), NEW f \in [D -> Nat], NEW g, AddsUp(f, D, g)
  PROVE  AnyOrder(f, D, g)
<1>1. \A S \in SUBSET D : g[S] = IF S = {} THEN 0 ELSE f[Chosen(S)] + g[S \ {Chosen(S)}]
  BY DEF AddsUp
<1>2. \A S \in SUBSET D : g[S] \in Nat
  BY SumsNat
<1>3. PICK K : K = {S \in SUBSET D : \A c \in S : g[S] = f[c] + g[S \ {c}]}
  OBVIOUS
<1>4. ASSUME NEW S \in SUBSET D, \A T \in SUBSET S : T # S => T \in K
      PROVE  S \in K
  <2>1. ASSUME NEW c \in S PROVE g[S] = f[c] + g[S \ {c}]
    <3>1. PICK a : a = Chosen(S)
      OBVIOUS
    <3>2. a \in S /\ g[S] = f[a] + g[S \ {a}]
      BY <1>1, <3>1 DEF Chosen
    <3>3. CASE c = a
      BY <3>2, <3>3
    <3>4. CASE c # a
      <4>1. S \ {a} \in K /\ c \in S \ {a} /\ S \ {c} \in K /\ a \in S \ {c}
        BY <1>4, <3>2, <3>4
      <4>2. g[S \ {a}] = f[c] + g[(S \ {a}) \ {c}] /\ g[S \ {c}] = f[a] + g[(S \ {c}) \ {a}]
        BY <1>3, <4>1
      <4>3. (S \ {a}) \ {c} = (S \ {c}) \ {a}
        OBVIOUS
      <4>4. PICK rest : rest = g[(S \ {a}) \ {c}]
        OBVIOUS
      <4>5. rest \in Nat /\ f[a] \in Nat /\ f[c] \in Nat
        BY <1>2, <3>2, <4>4
      <4>6. g[S] = f[a] + (f[c] + rest) /\ g[S \ {c}] = f[a] + rest
        BY <3>2, <4>2, <4>3, <4>4
      <4>. QED BY <4>5, <4>6
    <3>. QED BY <3>3, <3>4
  <2>. QED BY <1>3, <2>1
<1>5. SUBSET D \subseteq K
  BY <1>4, BySubsets
<1>. QED BY <1>3, <1>5 DEF AnyOrder

\* What is nothing elsewhere adds up to the same over a part.
LEMMA SumsPart ==
  ASSUME NEW D, IsFiniteSet(D), NEW f \in [D -> Nat], NEW g, AddsUp(f, D, g),
         NEW T \in SUBSET D, NEW h \in [T -> Nat], NEW k, AddsUp(h, T, k),
         \A c \in D : f[c] = IF c \in T THEN h[c] ELSE 0
  PROVE  g[D] = k[T]
<1>1. IsFiniteSet(T)
  BY FS_Subset
<1>2. \A S \in SUBSET D : g[S] = IF S = {} THEN 0 ELSE f[Chosen(S)] + g[S \ {Chosen(S)}]
  BY DEF AddsUp
<1>3. \A S \in SUBSET D : g[S] \in Nat
  BY SumsNat
<1>4. \A S \in SUBSET T : \A c \in S : k[S] = h[c] + k[S \ {c}]
  <2>1. AnyOrder(h, T, k)
    BY <1>1, SumsRemove
  <2>. QED BY <2>1 DEF AnyOrder
<1>5. PICK K : K = {S \in SUBSET D : g[S] = k[S \cap T]}
  OBVIOUS
<1>6. ASSUME NEW S \in SUBSET D, \A R \in SUBSET S : R # S => R \in K
      PROVE  S \in K
  <2>1. CASE S = {}
    <3>1. g[{}] = 0 /\ k[{}] = 0 /\ {} \cap T = {}
      BY <1>2 DEF AddsUp
    <3>. QED BY <1>5, <2>1, <3>1
  <2>2. CASE S # {}
    <3>1. PICK a : a = Chosen(S)
      OBVIOUS
    <3>2. a \in S /\ g[S] = f[a] + g[S \ {a}]
      BY <1>2, <2>2, <3>1 DEF Chosen
    <3>3. g[S \ {a}] = k[(S \ {a}) \cap T]
      BY <1>5, <1>6, <3>2
    <3>4. CASE a \in T
      <4>1. a \in S \cap T /\ S \cap T \in SUBSET T /\ (S \cap T) \ {a} = (S \ {a}) \cap T
        BY <3>2, <3>4
      <4>2. k[S \cap T] = h[a] + k[(S \cap T) \ {a}]
        BY <1>4, <4>1
      <4>. QED BY <1>5, <3>2, <3>3, <3>4, <4>1, <4>2
    <3>5. CASE a \notin T
      <4>1. (S \ {a}) \cap T = S \cap T /\ f[a] = 0 /\ g[S \ {a}] \in Nat
        BY <1>3, <3>2, <3>5
      <4>2. g[S] = g[S \ {a}]
        BY <3>2, <4>1
      <4>3. g[S] = k[S \cap T]
        BY <3>3, <4>1, <4>2
      <4>. QED BY <1>5, <4>3
    <3>. QED BY <3>4, <3>5
  <2>. QED BY <2>1, <2>2
<1>7. SUBSET D \subseteq K
  BY <1>6, BySubsets
<1>8. D \cap T = T /\ D \in SUBSET D
  OBVIOUS
<1>. QED BY <1>5, <1>7, <1>8

-----------------------------------------------------------------------------
(* Ownership.                                                              *)

\* h maps claims of known extent to their shares, and k adds these up.
SharesAdded(claims, cs, h, k) ==
  /\ h \in [Known(claims, cs) -> Nat] /\ \A c \in Known(claims, cs) : h[c] = claims[c].share
  /\ AddsUp(h, Known(claims, cs), k) /\ TotalShare(claims, cs) = k[Known(claims, cs)]

\* The total of some claims is the sum of the shares that are known.
LEMMA SharesTotal ==
  ASSUME NEW claims \in Claims, NEW cs \in SUBSET DOMAIN claims
  PROVE  \E h, k : SharesAdded(claims, cs, h, k)
<1>. DEFINE D == Known(claims, cs)
            Adds(f) == f = [S \in SUBSET D |->
                             IF S = {} THEN 0
                             ELSE claims[CHOOSE x \in S : TRUE].share + f[S \ {CHOOSE x \in S : TRUE}]]
<1>1. PICK k : k = CHOOSE f : Adds(f)
  OBVIOUS
<1>2. TotalShare(claims, cs) = k[D]
  BY <1>1, Zenon DEF TotalShare, MapThenSumSet, MapThenFoldSet
<1>3. D \in SUBSET DOMAIN claims /\ \A c \in D : claims[c].share \in Nat
  BY ClaimsAssumption DEF ClaimsAssumption, Known
<1>4. IsFiniteSet(D)
  BY <1>3, ClaimsAssumption, FS_Subset DEF ClaimsAssumption
<1>. HIDE DEF D
<1>5. PICK h : h = [c \in D |-> claims[c].share]
  OBVIOUS
<1>6. h \in [D -> Nat]
  BY <1>3, <1>5
<1>7. PICK g : AddsUp(h, D, g)
  BY <1>4, SumsDefined
<1>8. Adds(g)
  <2>1. \A S \in SUBSET D : S # {} => Chosen(S) \in D /\ h[Chosen(S)] = claims[Chosen(S)].share
    BY <1>5 DEF Chosen
  <2>2. g = [S \in SUBSET D |-> IF S = {} THEN 0 ELSE claims[Chosen(S)].share + g[S \ {Chosen(S)}]]
    BY <1>7, <2>1 DEF AddsUp
  <2>. QED BY <2>2, Zenon DEF Chosen
<1>9. Adds(k)
  <2>. HIDE DEF Adds
  <2>. QED BY <1>1, <1>8
<1>10. k = [S \in SUBSET D |-> IF S = {} THEN 0 ELSE claims[Chosen(S)].share + k[S \ {Chosen(S)}]]
  BY <1>9, Zenon DEF Chosen
<1>11. AddsUp(h, D, k)
  <2>1. \A S \in SUBSET D : S # {} => Chosen(S) \in D /\ h[Chosen(S)] = claims[Chosen(S)].share
    BY <1>5 DEF Chosen
  <2>. QED BY <1>10, <2>1 DEF AddsUp
<1>. QED BY <1>2, <1>5, <1>6, <1>11 DEF SharesAdded, D

\* The claims that count for what these holders own worldwide.
Worldwide(claims, whom) ==
  {c \in Active(claims) : /\ claims[c].holder \in whom /\ claims[c].status = "confirmed"
                          /\ claims[c].world}

\* What they own is the total of these claims.
LEMMA OwnedIsTotal ==
  ASSUME NEW claims \in Claims, NEW whom
  PROVE  OwnedWorldwide(claims, whom) = TotalShare(claims, Worldwide(claims, whom))
<1>. DEFINE D == Active(claims)
            Part(c) == IF /\ claims[c].holder \in whom /\ claims[c].status = "confirmed"
                          /\ claims[c].world /\ claims[c].share # Unstated
                       THEN claims[c].share ELSE 0
            Adds(f) == f = [S \in SUBSET D |->
                             IF S = {} THEN 0
                             ELSE Part(CHOOSE x \in S : TRUE) + f[S \ {CHOOSE x \in S : TRUE}]]
            T == Known(claims, Worldwide(claims, whom))
<1>1. PICK e : e = CHOOSE f : Adds(f)
  OBVIOUS
<1>2. OwnedWorldwide(claims, whom) = e[D]
  BY <1>1, Zenon DEF OwnedWorldwide, MapThenSumSet, MapThenFoldSet
<1>3. D \in SUBSET DOMAIN claims
  BY DEF Active
<1>4. \A c \in D : Part(c) \in Nat
  BY <1>3, ClaimsAssumption DEF ClaimsAssumption
<1>5. IsFiniteSet(D)
  BY <1>3, ClaimsAssumption, FS_Subset DEF ClaimsAssumption
<1>6. Worldwide(claims, whom) \in SUBSET D
  BY DEF Worldwide
<1>7. T \in SUBSET D /\ \A c \in D : Part(c) = IF c \in T THEN claims[c].share ELSE 0
  BY DEF Worldwide, Known
<1>8. PICK h, k : SharesAdded(claims, Worldwide(claims, whom), h, k)
  BY <1>3, <1>6, SharesTotal
<1>9. h \in [T -> Nat] /\ AddsUp(h, T, k) /\ \A c \in T : h[c] = claims[c].share
  BY <1>8 DEF SharesAdded
<1>. HIDE DEF D, Part, T
<1>10. PICK f : f = [c \in D |-> Part(c)]
  OBVIOUS
<1>11. f \in [D -> Nat]
  BY <1>4, <1>10
<1>12. PICK g : AddsUp(f, D, g)
  BY <1>5, SumsDefined
<1>13. \A S \in SUBSET D : S # {} => Chosen(S) \in D /\ f[Chosen(S)] = Part(Chosen(S))
  BY <1>10 DEF Chosen
<1>14. Adds(g)
  <2>1. g = [S \in SUBSET D |-> IF S = {} THEN 0 ELSE Part(Chosen(S)) + g[S \ {Chosen(S)}]]
    BY <1>12, <1>13 DEF AddsUp
  <2>. QED BY <2>1, Zenon DEF Chosen
<1>15. Adds(e)
  <2>. HIDE DEF Adds
  <2>. QED BY <1>1, <1>14
<1>16. AddsUp(f, D, e)
  <2>1. e = [S \in SUBSET D |-> IF S = {} THEN 0 ELSE Part(Chosen(S)) + e[S \ {Chosen(S)}]]
    BY <1>15, Zenon DEF Chosen
  <2>. QED BY <1>13, <2>1 DEF AddsUp
<1>17. \A c \in D : f[c] = IF c \in T THEN h[c] ELSE 0
  BY <1>7, <1>9, <1>10
<1>18. e[D] = k[T]
  BY <1>5, <1>7, <1>9, <1>11, <1>16, <1>17, SumsPart
<1>19. TotalShare(claims, Worldwide(claims, whom)) = k[T]
  BY <1>8 DEF SharesAdded, T
<1>. QED BY <1>2, <1>18, <1>19

\* No claims, no shares.
LEMMA NothingTotal ==
  ASSUME NEW claims \in Claims
  PROVE  TotalShare(claims, {}) = 0 /\ World(claims, {}) = {}
<1>1. PICK h, k : SharesAdded(claims, {}, h, k)
  BY SharesTotal
<1>2. Known(claims, {}) = {} /\ World(claims, {}) = {}
  BY DEF Known, World
<1>3. AddsUp(h, {}, k) /\ TotalShare(claims, {}) = k[{}]
  BY <1>1, <1>2 DEF SharesAdded
<1>4. k[{}] = 0
  BY <1>3 DEF AddsUp
<1>. QED BY <1>2, <1>3, <1>4

-----------------------------------------------------------------------------
(* The bytes of a stream.                                                  *)

\* Nothing is sent in no piece.
LEMMA SentNothing == <<>> \in Seq(Nat) /\ Added(<<>>) = 0
<1>1. <<>> \in Seq(Nat) /\ Len(<<>>) = 0
  OBVIOUS
<1>2. PICK e : ListAdded(Nat, <<>>, e)
  BY <1>1, AddedUp
<1>. QED BY <1>1, <1>2 DEF ListAdded

\* One more piece before the others adds its bytes.
LEMMA SentFirst ==
  ASSUME NEW n \in Nat, NEW rest \in Seq(Nat)
  PROVE  Added(rest) \in Nat /\ Added(<<n>> \o rest) = n + Added(rest)
<1>1. PICK all : all = <<n>> \o rest
  OBVIOUS
<1>2. PICK m \in Nat : m = Len(rest)
  OBVIOUS
<1>3. /\ all \in Seq(Nat) /\ Len(all) = m + 1 /\ all[1] = n
      /\ \A k \in 1..m : all[k + 1] = rest[k]
  BY <1>1, <1>2
<1>4. PICK g : ListAdded(Nat, rest, g)
  BY AddedUp
<1>5. PICK h : ListAdded(Nat, all, h)
  BY <1>3, AddedUp
<1>6. /\ g \in [0..m -> Nat] /\ g[0] = 0 /\ g[m] = Added(rest)
      /\ \A k \in 1..m : g[k] = g[k - 1] + rest[k]
  BY <1>2, <1>4 DEF ListAdded
<1>7. /\ h \in [0..(m + 1) -> Nat] /\ h[0] = 0 /\ h[m + 1] = Added(all)
      /\ \A k \in 1..(m + 1) : h[k] = h[k - 1] + all[k]
  BY <1>3, <1>5 DEF ListAdded
<1>8. PICK K : K = {k \in 0..m : h[k + 1] = n + g[k]}
  OBVIOUS
<1>9. 0 \in K
  <2>1. 1 \in 1..(m + 1) /\ 0 \in 0..m /\ 1 - 1 = 0 /\ 0 + 1 = 1
    OBVIOUS
  <2>2. h[1] = n
    BY <1>3, <1>7, <2>1
  <2>. QED BY <1>6, <1>8, <2>1, <2>2
<1>10. ASSUME NEW k \in 0..m, k \in K, k < m PROVE k + 1 \in K
  <2>1. k + 1 \in 1..m /\ k + 1 \in 0..m /\ (k + 1) + 1 \in 1..(m + 1)
    BY <1>10
  <2>2. h[(k + 1) + 1] = h[((k + 1) + 1) - 1] + all[(k + 1) + 1] /\ ((k + 1) + 1) - 1 = k + 1
    BY <1>7, <2>1
  <2>3. all[(k + 1) + 1] = rest[k + 1] /\ rest[k + 1] \in Nat
    BY <1>2, <1>3, <2>1
  <2>4. g[k + 1] = g[(k + 1) - 1] + rest[k + 1] /\ (k + 1) - 1 = k /\ g[k] \in Nat
    BY <1>6, <2>1
  <2>5. h[k + 1] = n + g[k]
    BY <1>8, <1>10
  <2>6. h[(k + 1) + 1] = n + g[k + 1]
    BY <2>2, <2>3, <2>4, <2>5
  <2>. QED BY <1>8, <2>1, <2>6
<1>11. m \in K
  BY <1>9, <1>10, UpTo
<1>12. Added(all) = n + Added(rest) /\ Added(rest) \in Nat
  BY <1>6, <1>7, <1>8, <1>11
<1>. QED BY <1>1, <1>12

\* A file that has the bytes is read to the last of them, in pieces of at most Chunk.
LEMMA PiecesWhole ==
  ASSUME NEW length \in Nat, NEW left \in Nat, length <= left
  PROVE  Added(FileRange(length, left)) = length
<1>. DEFINE Wish(n) == IF n < Chunk THEN n ELSE Chunk
            Have(n) == left - (length - n)
            Read(n) == IF Wish(n) < Have(n) THEN Wish(n) ELSE Have(n)
            Piece(n, f) == IF n = 0 \/ Read(n) <= 0 THEN <<>> ELSE <<Read(n)>> \o f[n - Read(n)]
            Pieces(f) == f = [n \in 0..length |-> Piece(n, f)]
<1>1. PICK p : p = CHOOSE f : Pieces(f)
  OBVIOUS
<1>2. FileRange(length, left) = p[length]
  BY <1>1, Zenon DEF FileRange
<1>3. \A n \in 1..length : Read(n) \in 1..n /\ n - Read(n) \in 0..(n - 1)
  BY ChunkAssumption DEF ChunkAssumption
<1>. HIDE DEF Wish, Have, Read
<1>4. PICK K : K = {k \in 0..length : \E f : f = [n \in 0..k |-> Piece(n, f)]}
  OBVIOUS
<1>5. 0 \in K
  <2>1. PICK f : f = [n \in 0..0 |-> <<>>]
    OBVIOUS
  <2>2. f = [n \in 0..0 |-> Piece(n, f)]
    BY <2>1
  <2>3. 0 \in 0..length /\ \E e : e = [n \in 0..0 |-> Piece(n, e)]
    BY <2>2
  <2>. HIDE DEF Piece
  <2>. QED BY <1>4, <2>3
<1>6. ASSUME NEW k \in 0..length, k \in K, k < length PROVE k + 1 \in K
  <2>1. PICK f : f = [n \in 0..k |-> Piece(n, f)]
    BY <1>4, <1>6
  <2>2. k + 1 \in 0..length /\ 0..k \subseteq 0..(k + 1)
    BY <1>6
  <2>3. PICK h : h = [n \in 0..(k + 1) |-> Piece(n, f)]
    OBVIOUS
  <2>4. \A n \in 0..k : h[n] = f[n]
    BY <2>1, <2>2, <2>3
  <2>5. \A n \in 0..(k + 1) : n # 0 => n - Read(n) \in 0..k
    <3>1. ASSUME NEW n \in 0..(k + 1), n # 0 PROVE n - Read(n) \in 0..k
      <4>1. n \in 1..length
        BY <2>2, <3>1
      <4>2. PICK r : r = n - Read(n) /\ r \in 0..(n - 1)
        BY <1>3, <4>1
      <4>. QED BY <4>2
    <3>. QED BY <3>1
  <2>6. \A n \in 0..(k + 1) : Piece(n, f) = Piece(n, h)
    BY <2>4, <2>5
  <2>. HIDE DEF Piece
  <2>7. h = [n \in 0..(k + 1) |-> Piece(n, h)]
    BY <2>3, <2>6
  <2>8. \E e : e = [n \in 0..(k + 1) |-> Piece(n, e)]
    BY <2>7
  <2>. QED BY <1>4, <2>2, <2>8
<1>7. length \in K
  BY <1>5, <1>6, UpTo
<1>8. Pieces(p)
  <2>1. \E f : f = [n \in 0..length |-> Piece(n, f)]
    <3>. HIDE DEF Piece
    <3>. QED BY <1>4, <1>7
  <2>. QED BY <1>1, <2>1, Zenon
<1>9. p[0] = <<>> /\ \A n \in 1..length : p[n] = <<Read(n)>> \o p[n - Read(n)]
  <2>1. \A n \in 1..length : ~ (n = 0 \/ Read(n) <= 0) /\ n \in 0..length
    BY <1>3
  <2>2. 0 \in 0..length
    OBVIOUS
  <2>. QED BY <1>8, <2>1, <2>2
<1>10. PICK L : L = {k \in 0..length : \A n \in 0..k : p[n] \in Seq(Nat) /\ Added(p[n]) = n}
  OBVIOUS
<1>11. 0 \in L
  <2>1. p[0] \in Seq(Nat) /\ Added(p[0]) = 0
    BY <1>9, SentNothing
  <2>2. 0 \in 0..length /\ \A n \in 0..0 : n = 0
    OBVIOUS
  <2>. QED BY <1>10, <2>1, <2>2
<1>12. ASSUME NEW k \in 0..length, k \in L, k < length PROVE k + 1 \in L
  <2>1. k + 1 \in 1..length /\ k + 1 \in 0..length
    BY <1>12
  <2>2. PICK r : r = Read(k + 1)
    OBVIOUS
  <2>3. r \in 1..(k + 1) /\ r \in Nat /\ (k + 1) - r \in 0..k
    BY <1>3, <2>1, <2>2
  <2>4. PICK rest : rest = p[(k + 1) - r]
    OBVIOUS
  <2>5. rest \in Seq(Nat) /\ Added(rest) = (k + 1) - r /\ p[k + 1] = <<r>> \o rest
    BY <1>9, <1>10, <1>12, <2>1, <2>2, <2>3, <2>4
  <2>6. Added(p[k + 1]) = r + Added(rest) /\ p[k + 1] \in Seq(Nat)
    BY <2>3, <2>5, SentFirst
  <2>7. Added(p[k + 1]) = k + 1
    BY <2>3, <2>5, <2>6
  <2>8. \A n \in 0..(k + 1) : n \in 0..k \/ n = k + 1
    OBVIOUS
  <2>. QED BY <1>10, <1>12, <2>1, <2>6, <2>7, <2>8
<1>13. length \in L /\ length \in 0..length
  BY <1>11, <1>12, UpTo
<1>. QED BY <1>2, <1>10, <1>13

-----------------------------------------------------------------------------
(* The file that is played, and the part of it.                            *)

\* A recording's file is the one that is resolved: the only one of those that compete
\* that can be played, at one location.
Sole(e, i) ==
  /\ i \in Competing(e) /\ e.files[i].sync \notin Lost
  /\ Cardinality(Playable(e.files[i])) = 1
  /\ \A j \in Competing(e) :
       e.files[j].sync \notin Lost /\ Cardinality(Playable(e.files[j])) = 1 => j = i
  /\ \A j \in Competing(e) :
       e.files[j].sync \notin Lost => ~ Cardinality(Playable(e.files[j])) > 1

\* The place a file is resolved to.
PlaceOf(e, i) == CHOOSE l \in Playable(e.files[i]) : TRUE

\* What the checks of the storage leave, v, of an answer that is found without them, r.
Alike(e, r, v) ==
  \/ /\ r.asset = 0 /\ r.status \in {"no_radio_file", "ambiguous", "file_unavailable"}
     /\ v.asset = 0 /\ v.status = r.status
  \/ /\ Sole(e, r.asset) /\ r.status = "available" /\ v.asset = r.asset
     /\ v.status = IF Readable(e.files[r.asset].locations[PlaceOf(e, r.asset)])
                   THEN "available" ELSE "file_unavailable"
ResolvesAlike(e) == Alike(e, Resolve(e, FALSE), Resolve(e, TRUE))

\* A recording as the requests see it.
Stream(e) ==
  /\ IsFiniteSet(DOMAIN e.files) /\ 0 \notin DOMAIN e.files
  /\ \A i \in DOMAIN e.files : IsFiniteSet(DOMAIN e.files[i].locations) /\ e.files[i].sync # "current"
  /\ e.current \in {0} \cup Radio(e)

\* What competes are radio files of the recording, finitely many.
LEMMA CompetingAreRadio ==
  ASSUME NEW e, Stream(e)
  PROVE  /\ Competing(e) \subseteq Radio(e) /\ Radio(e) \subseteq DOMAIN e.files
         /\ IsFiniteSet(Competing(e))
<1>1. Competing(e) \subseteq Radio(e) /\ Radio(e) \subseteq DOMAIN e.files
  BY DEF Stream, Competing, Radio
<1>. QED BY <1>1, FS_Subset DEF Stream

\* Two members of a finite set that has no more than one are the same.
LEMMA NoMoreThanOne ==
  ASSUME NEW S, IsFiniteSet(S), ~ Cardinality(S) > 1, NEW x \in S, NEW y \in S
  PROVE  x = y /\ Cardinality(S) = 1
<1>1. Cardinality(S) \in Nat /\ Cardinality(S) # 0
  BY FS_CardinalityType, FS_EmptySet
<1>2. Cardinality(S) = 1
  BY <1>1
<1>3. PICK z : S = {z}
  BY <1>2, FS_Singleton
<1>. QED BY <1>2, <1>3

\* With and without a look at the storage, the same file is resolved.
LEMMA ResolvedAlike ==
  ASSUME NEW e, Stream(e)
  PROVE  ResolvesAlike(e)
<1>. DEFINE sound == {i \in Competing(e) : e.files[i].sync \notin Lost}
            candidates == {i \in sound : Cardinality(Playable(e.files[i])) = 1}
            i == CHOOSE c \in candidates : TRUE
            l == PlaceOf(e, i)
            several == \/ \E k \in sound : Cardinality(Playable(e.files[k])) > 1
                       \/ Cardinality(candidates) > 1
<1>1. Competing(e) \subseteq DOMAIN e.files /\ IsFiniteSet(candidates)
  <2>1. candidates \subseteq Competing(e)
    OBVIOUS
  <2>. QED BY <2>1, CompetingAreRadio, FS_Subset
<1>2. CASE Competing(e) = {}
  BY <1>2 DEF ResolvesAlike, Alike, Resolve, Unresolved
<1>3. CASE Competing(e) # {} /\ several
  BY <1>3 DEF ResolvesAlike, Alike, Resolve, Unresolved
<1>4. CASE Competing(e) # {} /\ ~several /\ candidates = {}
  BY <1>4 DEF ResolvesAlike, Alike, Resolve, Unresolved
<1>5. CASE Competing(e) # {} /\ ~several /\ candidates # {}
  <2>1. i \in candidates
    BY <1>5
  <2>2. \A j \in candidates : j = i
    BY <1>1, <1>5, <2>1, NoMoreThanOne
  <2>3. Sole(e, i)
    BY <1>5, <2>1, <2>2 DEF Sole
  <2>4. Resolve(e, FALSE) = [status |-> "available", asset |-> i]
    BY <1>5, Zenon DEF Resolve, PlaceOf
  <2>5. Resolve(e, TRUE) = IF ~ Readable(e.files[i].locations[l])
                           THEN [status |-> "file_unavailable", asset |-> i]
                           ELSE [status |-> "available", asset |-> i]
    BY <1>5, Zenon DEF Resolve, PlaceOf
  <2>6. \E k : /\ Sole(e, k)
               /\ Resolve(e, FALSE) = [status |-> "available", asset |-> k]
               /\ Resolve(e, TRUE) = IF ~ Readable(e.files[k].locations[PlaceOf(e, k)])
                                     THEN [status |-> "file_unavailable", asset |-> k]
                                     ELSE [status |-> "available", asset |-> k]
    <3>. HIDE DEF i
    <3>. QED BY <2>3, <2>4, <2>5, Zenon
  <2>7. PICK k : /\ Sole(e, k)
                 /\ Resolve(e, FALSE) = [status |-> "available", asset |-> k]
                 /\ Resolve(e, TRUE) = IF ~ Readable(e.files[k].locations[PlaceOf(e, k)])
                                       THEN [status |-> "file_unavailable", asset |-> k]
                                       ELSE [status |-> "available", asset |-> k]
    BY <2>6
  <2>8. \A r, v : /\ r = [status |-> "available", asset |-> k]
                  /\ v = IF ~ Readable(e.files[k].locations[PlaceOf(e, k)])
                         THEN [status |-> "file_unavailable", asset |-> k]
                         ELSE [status |-> "available", asset |-> k]
                  => Alike(e, r, v)
    BY <2>7 DEF Alike
  <2>. QED BY <2>7, <2>8, Zenon DEF ResolvesAlike
<1>. QED BY <1>2, <1>3, <1>4, <1>5

\* The file that is resolved is at one place: it can be played when its file is there.
LEMMA SolePlace ==
  ASSUME NEW e, Stream(e), NEW i, Sole(e, i)
  PROVE  /\ PlaceOf(e, i) \in Playable(e.files[i])
         /\ Readable(e.files[i].locations[PlaceOf(e, i)]) <=> AtHand(e.files[i])
<1>. DEFINE f == e.files[i]
<1>1. Playable(f) \subseteq DOMAIN f.locations /\ IsFiniteSet(DOMAIN f.locations)
  BY CompetingAreRadio DEF Playable, CurrentAt, ActiveAt, Stream, Sole
<1>2. IsFiniteSet(Playable(f)) /\ Cardinality(Playable(f)) = 1
  BY <1>1, FS_Subset DEF Sole
<1>3. PICK l : Playable(f) = {l}
  BY <1>2, FS_Singleton
<1>4. PlaceOf(e, i) = l
  BY <1>3 DEF PlaceOf
<1>5. Readable(f.locations[l]) <=> AtHand(f)
  BY <1>3 DEF Readable, Resolvable, AtHand, Playable, CurrentAt, ActiveAt
<1>. QED BY <1>3, <1>4, <1>5

\* The files page marks the file that is resolved, and no other.
LEMMA MarkedIsResolved ==
  ASSUME NEW e, Stream(e), NEW i \in DOMAIN e.files
  PROVE  FileStatus(e, i) = "current" <=> i = Resolve(e, FALSE).asset
<1>1. e.files[i].sync # "current"
  BY DEF Stream
<1>. QED BY <1>1 DEF FileStatus

\* A part of a file are the bytes that were asked for, and no part is none of them.
Serves(part, r, size) ==
  IF part = <<>> THEN AskedFor(<<r>>, size) = {}
  ELSE \E from, to \in 0..(size - 1) :
         part = <<from, to>> /\ from <= to /\ AskedFor(<<r>>, size) = from..to

\* A range is the bytes that are asked for (_parse_byte_range).
LEMMA RangeServed ==
  ASSUME NEW r, NEW size \in Nat, {r.first, r.last} \subseteq Nat \cup {NoBound}
  PROVE  Serves(ParseByteRange(r, size), r, size)
<1>1. PICK first, last : first = r.first /\ last = r.last
  OBVIOUS
<1>2. /\ first \in Nat \/ first = NoBound
      /\ last \in Nat \/ last = NoBound
  BY <1>1
<1>2a. AskedFor(<<r>>, size) =
        {b \in 0..(size - 1) : IF first # NoBound
                               THEN b >= first /\ (last # NoBound => b <= last)
                               ELSE last # NoBound /\ b + last >= size}
  <2>1. <<r>> # <<>> /\ <<r>>[1] = r
    OBVIOUS
  <2>. QED BY <1>1, <2>1, Zenon DEF AskedFor
<1>3. CASE size <= 0 \/ (first = NoBound /\ last = NoBound)
  <2>1. ParseByteRange(r, size) = <<>>
    BY <1>1, <1>3 DEF ParseByteRange
  <2>2. AskedFor(<<r>>, size) = {}
    BY <1>2a, <1>3
  <2>. QED BY <2>1, <2>2 DEF Serves
<1>4. CASE size > 0 /\ first = NoBound /\ last # NoBound
  <2>1. last \in Nat
    BY <1>2, <1>4
  <2>2. CASE last <= 0
    <3>1. ParseByteRange(r, size) = <<>>
      BY <1>1, <1>4, <2>2 DEF ParseByteRange
    <3>2. AskedFor(<<r>>, size) = {}
      BY <1>2a, <1>4, <2>1, <2>2
    <3>. QED BY <3>1, <3>2 DEF Serves
  <2>3. CASE last > 0
    <3>1. PICK from : from = IF size > last THEN size - last ELSE 0
      OBVIOUS
    <3>2. ParseByteRange(r, size) = <<from, size - 1>>
      BY <1>1, <1>4, <2>3, <3>1 DEF ParseByteRange
    <3>3. from \in 0..(size - 1) /\ size - 1 \in 0..(size - 1) /\ from <= size - 1
      BY <1>4, <2>1, <2>3, <3>1
    <3>4. AskedFor(<<r>>, size) = from..(size - 1)
      <4>1. \A b \in 0..(size - 1) : b + last >= size <=> b \in from..(size - 1)
        BY <2>1, <2>3, <3>1
      <4>2. AskedFor(<<r>>, size) = {b \in 0..(size - 1) : b + last >= size}
        BY <1>2a, <1>4
      <4>3. from..(size - 1) \subseteq 0..(size - 1)
        BY <3>3
      <4>. QED BY <4>1, <4>2, <4>3
    <3>. QED BY <3>2, <3>3, <3>4 DEF Serves
  <2>. QED BY <2>1, <2>2, <2>3
<1>5. CASE size > 0 /\ first # NoBound
  <2>1. PICK to : to = IF last = NoBound THEN size - 1 ELSE last
    OBVIOUS
  <2>2. first \in Nat /\ to \in Nat
    BY <1>2, <1>5, <2>1
  <2>3. AskedFor(<<r>>, size) = {b \in 0..(size - 1) : first <= b /\ b <= to}
    BY <1>2a, <1>2, <1>5, <2>1
  <2>4. CASE first >= size \/ to < first
    <3>1. ParseByteRange(r, size) = <<>>
      BY <1>1, <1>5, <2>1, <2>4 DEF ParseByteRange
    <3>2. AskedFor(<<r>>, size) = {}
      BY <2>2, <2>3, <2>4
    <3>. QED BY <3>1, <3>2 DEF Serves
  <2>5. CASE first < size /\ to >= first
    <3>1. PICK end : end = IF to < size THEN to ELSE size - 1
      OBVIOUS
    <3>2. ParseByteRange(r, size) = <<first, end>>
      BY <1>1, <1>5, <2>1, <2>2, <2>5, <3>1 DEF ParseByteRange
    <3>3. first \in 0..(size - 1) /\ end \in 0..(size - 1) /\ first <= end
      BY <2>2, <2>5, <3>1
    <3>4. AskedFor(<<r>>, size) = first..end
      <4>1. \A b \in 0..(size - 1) : first <= b /\ b <= to <=> b \in first..end
        BY <2>2, <2>5, <3>1
      <4>2. first..end \subseteq 0..(size - 1)
        BY <3>3
      <4>. QED BY <2>3, <4>1, <4>2
    <3>. QED BY <3>2, <3>3, <3>4 DEF Serves
  <2>. QED BY <2>2, <2>4, <2>5
<1>. QED BY <1>3, <1>4, <1>5

\* The file that is played competes with no other that can be, and every page knows it.
LEMMA PlayedAlone ==
  ASSUME NEW e, Stream(e), NEW i, Sole(e, i), AtHand(e.files[i])
  PROVE  /\ i \in DOMAIN e.files /\ e.current \in {0, i}
         /\ e.current = 0 =>
              \A j \in DOMAIN e.files \ {i} :
                /\ e.files[j].radio /\ e.files[j].life \notin {"candidate", "historical"}
                /\ e.files[j].sync \notin {"missing", "failed"}
                => ~ AtHand(e.files[j])
         /\ OverviewRemark(e) \notin {"no file", "unavailable"}
         /\ FileState(e) \in {"verified", "unchecked"}
<1>1. i \in Radio(e) /\ i \in DOMAIN e.files /\ e.files[i].sync \notin Lost
  BY CompetingAreRadio DEF Sole
<1>2. e.current \in {0, i}
  BY DEF Sole, Competing
<1>3. ASSUME e.current = 0, NEW j \in DOMAIN e.files \ {i}, e.files[j].radio,
             e.files[j].life \notin {"candidate", "historical"},
             e.files[j].sync \notin {"missing", "failed"}, AtHand(e.files[j])
      PROVE  FALSE
  <2>1. j \in Competing(e) /\ e.files[j].sync \notin Lost
    BY <1>3 DEF Competing, Radio, Lost
  <2>2. PICK l : l \in Playable(e.files[j])
    BY <1>3 DEF AtHand, Playable, CurrentAt, ActiveAt
  <2>3. IsFiniteSet(Playable(e.files[j]))
    <3>1. Playable(e.files[j]) \subseteq DOMAIN e.files[j].locations
      BY DEF Playable, CurrentAt, ActiveAt
    <3>. QED BY <3>1, FS_Subset DEF Stream
  <2>4. Cardinality(Playable(e.files[j])) = 1
    BY <2>1, <2>2, <2>3, NoMoreThanOne DEF Sole
  <2>. QED BY <2>1, <2>4 DEF Sole
<1>4. PICK l \in DOMAIN e.files[i].locations :
        e.files[i].locations[l].status = "active" /\ e.files[i].locations[l].current
  BY DEF AtHand
<1>5. l \in CurrentAt(e.files[i]) /\ l \in DOMAIN e.files[i].locations /\ e.files[i].locations[l].current
  BY <1>4 DEF CurrentAt, ActiveAt
<1>6. OverviewRemark(e) \notin {"no file", "unavailable"}
  <2>1. Radio(e) # {} /\ Available(e.files[i])
    BY <1>1, <1>5 DEF Available
  <2>. QED BY <1>1, <2>1 DEF OverviewRemark
<1>7. FileState(e) \in {"verified", "unchecked"}
  BY <1>1, <1>5 DEF FileState
<1>. QED BY <1>1, <1>2, <1>3, <1>6, <1>7

\* The answer of the player to a request, by what is resolved.
Answers(answer, r, v, size, range, head) ==
  /\ answer.asset = r.asset
  /\ v.status = "available" =>
       \/ range = <<>> /\ answer.code = 200 /\ answer.from = 0 /\ answer.length = size
          /\ (~head => Added(answer.body) = answer.length)
       \/ /\ range # <<>> /\ answer.code = 416 /\ AskedFor(range, size) = {}
       \/ /\ range # <<>> /\ answer.code = 206 /\ answer.from \in Nat /\ answer.length \in Nat
          /\ AskedFor(range, size) = answer.from..(answer.from + answer.length - 1)
          /\ (~head => Added(answer.body) = answer.length)
  /\ v.status # "available" => answer.code \in {404, 409}

\* The player is sent the part of the file that it asked for (recording_audio).
LEMMA AudioServed ==
  ASSUME NEW e, NEW size \in Nat, NEW range, NEW head \in BOOLEAN,
         NEW r, NEW v, v = Resolve(e, TRUE), Alike(e, r, v),
         range = <<>> \/ (/\ range = <<range[1]>>
                          /\ {range[1].first, range[1].last} \subseteq Nat \cup {NoBound})
  PROVE  Answers(Audio(e, size, range, head), r, v, size, range, head)
<1>. DEFINE part == IF range = <<>> THEN <<0, IF size = 0 THEN 0 ELSE size - 1>>
                    ELSE ParseByteRange(range[1], size)
            length == IF size = 0 THEN 0 ELSE part[2] - part[1] + 1
            given == [code |-> IF range = <<>> THEN 200 ELSE 206, asset |-> v.asset,
                      length |-> length, from |-> part[1],
                      body |-> IF head THEN <<>> ELSE FileRange(length, size - part[1])]
<1>1. PICK answer : answer = Audio(e, size, range, head)
  OBVIOUS
<1>2. answer = IF v.status = "ambiguous" THEN Refused(409, v.asset)
               ELSE IF v.status # "available" THEN Refused(404, v.asset)
               ELSE IF part = <<>> THEN Refused(416, v.asset)
               ELSE given
  BY <1>1, ZenonT(30) DEF Audio
<1>3. v.asset = r.asset
  BY DEF Alike
<1>4. CASE v.status # "available"
  <2>1. answer.asset = r.asset /\ answer.code \in {404, 409}
    BY <1>2, <1>3, <1>4 DEF Refused
  <2>. QED BY <1>1, <1>4, <2>1 DEF Answers
<1>5. CASE v.status = "available" /\ range = <<>>
  <2>1. part = <<0, IF size = 0 THEN 0 ELSE size - 1>> /\ part # <<>> /\ part[1] = 0
    BY <1>5
  <2>2. length = size
    BY <2>1
  <2>3. answer.code = 200 /\ answer.asset = v.asset /\ answer.length = size /\ answer.from = 0
    BY <1>2, <1>5, <2>1, <2>2
  <2>4. ~head => answer.body = FileRange(size, size)
    <3>1. size - part[1] = size
      BY <2>1
    <3>. HIDE DEF part, length
    <3>2. ~head => answer.body = FileRange(length, size - part[1])
      BY <1>2, <1>5, <2>1
    <3>. QED BY <2>2, <3>1, <3>2
  <2>5. ~head => Added(answer.body) = size
    BY <2>4, PiecesWhole
  <2>. QED BY <1>1, <1>3, <1>5, <2>3, <2>5 DEF Answers
<1>6. CASE v.status = "available" /\ range # <<>>
  <2>1. PICK bounds : bounds = range[1]
    OBVIOUS
  <2>2. part = ParseByteRange(bounds, size) /\ Serves(part, bounds, size)
    BY <1>6, <2>1, RangeServed
  <2>3. CASE part = <<>>
    <3>1. answer.code = 416 /\ answer.asset = v.asset
      BY <1>2, <1>6, <2>3 DEF Refused
    <3>2. AskedFor(range, size) = {}
      BY <1>6, <2>1, <2>2, <2>3 DEF Serves
    <3>. QED BY <1>1, <1>3, <1>6, <3>1, <3>2 DEF Answers
  <2>4. CASE part # <<>>
    <3>1. PICK from, to \in 0..(size - 1) :
            part = <<from, to>> /\ from <= to /\ AskedFor(<<bounds>>, size) = from..to
      BY <2>2, <2>4 DEF Serves
    <3>2. size > 0 /\ part[1] = from /\ part[2] = to
      BY <3>1
    <3>3. PICK n \in Nat : n = to - from + 1
      BY <3>1
    <3>4. length = n /\ n <= size - from /\ size - from \in Nat
      BY <3>1, <3>2, <3>3
    <3>. HIDE DEF part
    <3>5. /\ answer.code = 206 /\ answer.asset = v.asset
          /\ answer.length = n /\ answer.from = from
      BY <1>2, <1>6, <2>4, <3>2, <3>4
    <3>6. ~head => answer.body = FileRange(n, size - from)
      BY <1>2, <1>6, <2>4, <3>2, <3>4
    <3>7. ~head => Added(answer.body) = n
      BY <3>4, <3>6, PiecesWhole
    <3>8. AskedFor(range, size) = from..(from + n - 1) /\ from \in Nat
      <4>1. range = <<bounds>>
        BY <1>6, <2>1
      <4>2. from + n - 1 = to /\ from \in Nat
        BY <3>1, <3>3
      <4>. QED BY <3>1, <4>1, <4>2
    <3>. QED BY <1>1, <1>3, <1>6, <3>5, <3>7, <3>8 DEF Answers
  <2>. QED BY <2>3, <2>4
<1>. QED BY <1>4, <1>5, <1>6

-----------------------------------------------------------------------------
(* Royalties.                                                              *)

\* A factor can be cancelled.
LEMMA Cancelled ==
  ASSUME NEW e \in Nat, e > 0, NEW a \in Int, NEW b \in Int, e * a <= e * b
  PROVE  a <= b
<1>. SUFFICES ASSUME a > b PROVE FALSE
  OBVIOUS
<1>1. PICK d \in Nat : d > 0 /\ a = b + d
  <2>1. a - b \in Nat /\ a - b > 0 /\ a = b + (a - b)
    OBVIOUS
  <2>. QED BY <2>1
<1>2. e * a = e * b + e * d
  BY <1>1
<1>3. e * d > 0
  BY <1>1
<1>. QED BY <1>2, <1>3

\* A quotient is rounded by at most a half.
LEMMA RoundedNear ==
  ASSUME NEW n \in Int, NEW d \in Nat, d > 0
  PROVE  /\ Rounded(n, d) \in Int
         /\ 2 * (Rounded(n, d) * d) <= 2 * (n * Unit) + d
         /\ 2 * (n * Unit) <= 2 * (Rounded(n, d) * d) + d
<1>1. PICK N \in Int : N = n * Unit
  BY UnitAssumption
<1>2. PICK q, r : q = (n * Unit) \div d /\ r = (n * Unit) % d
  OBVIOUS
<1>3. q \in Int /\ r \in 0..(d - 1) /\ N = q * d + r
  BY <1>1, <1>2
<1>4. \/ Rounded(n, d) = q /\ 2 * r <= d
      \/ Rounded(n, d) = q + 1 /\ 2 * r >= d
  <2>1. Rounded(n, d) = IF 2 * r > d \/ (2 * r = d /\ q % 2 = 1) THEN q + 1 ELSE q
    <3>1. Rounded(n, d) = HalfEven(n, d)
      BY DEF Rounded
    <3>. QED BY <1>2, <3>1, Zenon DEF HalfEven
  <2>. QED BY <1>3, <2>1
<1>5. (q + 1) * d = q * d + d
  BY <1>3
<1>6. PICK p \in Int : p = q * d
  BY <1>3
<1>. QED BY <1>1, <1>3, <1>4, <1>5, <1>6

\* A quotient of opposites is rounded alike.
LEMMA Mirrored ==
  ASSUME NEW n \in Int, NEW d \in Int, d # 0
  PROVE  Rounded(- n, - d) = Rounded(n, d)
<1>1. - (- n) = n /\ - (- d) = d
  OBVIOUS
<1>. QED BY <1>1 DEF Rounded

\* Near(w, v, C, t): the part w of t is v / C of it, to a half.
Near(w, v, C, t) ==
  w \in Int /\ 2 * (w * C) <= 2 * (v * t) + C /\ 2 * (v * t) <= 2 * (w * C) + C

\* The part of a line with the share v, when its right has m of e parts, of t.
Part(v, m, C, e) == Rounded(v * m, e * C)
Whole(m, e, t) == m * Unit = e * t

\* The part of a line, of what is left when others have their percentage.
LEMMA PartNear ==
  ASSUME NEW v \in Int, NEW m \in Nat, NEW C \in Nat, C > 0, NEW e \in Nat, e > 0,
         NEW t \in Nat, Whole(m, e, t)
  PROVE  Near(Part(v, m, C, e), v, C, t)
<1>1. v * m \in Int /\ e * C \in Nat /\ e * C > 0
  OBVIOUS
<1>2. PICK w : w = Rounded(v * m, e * C)
  OBVIOUS
<1>3. /\ w \in Int
      /\ 2 * (w * (e * C)) <= 2 * ((v * m) * Unit) + e * C
      /\ 2 * ((v * m) * Unit) <= 2 * (w * (e * C)) + e * C
  BY <1>1, <1>2, RoundedNear
<1>4. (v * m) * Unit = v * (e * t)
  <2>1. (v * m) * Unit = v * (m * Unit)
    BY UnitAssumption
  <2>. QED BY <2>1 DEF Whole
<1>5. PICK x \in Int, y \in Int : x = w * C /\ y = v * t
  BY <1>3
<1>6. w * (e * C) = e * x /\ v * (e * t) = e * y
  BY <1>3, <1>5
<1>7. e * (2 * x) <= e * (2 * y + C) /\ e * (2 * y) <= e * (2 * x + C)
  <2>1. /\ e * (2 * x) = 2 * (e * x) /\ e * (2 * y) = 2 * (e * y)
        /\ e * (2 * y + C) = 2 * (e * y) + e * C /\ e * (2 * x + C) = 2 * (e * x) + e * C
    BY <1>5
  <2>. QED BY <1>3, <1>4, <1>6, <2>1
<1>8. 2 * x <= 2 * y + C /\ 2 * y <= 2 * x + C
  BY <1>5, <1>7, Cancelled
<1>. QED BY <1>2, <1>3, <1>5, <1>8 DEF Near, Part

\* Summing(n, v, F): F has the sums of the first values of v.
Summing(n, v, F) == F \in [0..n -> Int] /\ F[0] = 0 /\ \A k \in 1..n : F[k] = F[k - 1] + v[k]

\* Two near totals stay near with one near part more.
LEMMA NearerByOne ==
  ASSUME NEW C \in Nat, NEW t \in Nat, NEW k \in Nat,
         NEW f \in Int, NEW g \in Int, NEW a \in Int, NEW b \in Int,
         2 * (b * C) <= 2 * (a * t) + C, 2 * (a * t) <= 2 * (b * C) + C,
         2 * (g * C) <= 2 * (f * t) + k * C, 2 * (f * t) <= 2 * (g * C) + k * C
  PROVE  /\ 2 * ((g + b) * C) <= 2 * ((f + a) * t) + (k + 1) * C
         /\ 2 * ((f + a) * t) <= 2 * ((g + b) * C) + (k + 1) * C
<1>1. /\ (g + b) * C = g * C + b * C /\ (f + a) * t = f * t + a * t
      /\ (k + 1) * C = k * C + C
  OBVIOUS
<1>2. g * C \in Int /\ b * C \in Int /\ f * t \in Int /\ a * t \in Int /\ k * C \in Int
  OBVIOUS
<1>. QED BY <1>1, <1>2

\* Within(g, t, n): g is t, but for the rounding of n parts.
Within(g, t, n) == 2 * g <= 2 * t + n /\ 2 * t <= 2 * g + n

\* Parts that are near to what they stand for add up to a total that is as near to it, for
\* each of them.
LEMMA PartsNear ==
  ASSUME NEW n \in Nat, NEW C \in Nat, C > 0, NEW t \in Nat,
         NEW v \in [1..n -> Int], NEW w, \A k \in 1..n : Near(w[k], v[k], C, t),
         NEW F, Summing(n, v, F), F[n] = C, NEW G, Summing(n, w, G)
  PROVE  G[n] \in Int /\ Within(G[n], t, n)
<1>. DEFINE Close(k) == /\ 2 * (G[k] * C) <= 2 * (F[k] * t) + k * C
                        /\ 2 * (F[k] * t) <= 2 * (G[k] * C) + k * C
<1>1. PICK K : K = {k \in 0..n : Close(k)}
  OBVIOUS
<1>2. 0 \in K
  BY <1>1 DEF Summing
<1>3. ASSUME NEW k \in 0..n, k \in K, k < n PROVE k + 1 \in K
  <2>1. k + 1 \in 1..n /\ (k + 1) - 1 = k /\ k \in 0..n /\ k + 1 \in 0..n
    BY <1>3
  <2>2. /\ F[k] \in Int /\ v[k + 1] \in Int /\ F[k + 1] = F[k] + v[k + 1]
        /\ G[k] \in Int /\ w[k + 1] \in Int /\ G[k + 1] = G[k] + w[k + 1]
    <3>1. F[k] \in Int /\ v[k + 1] \in Int /\ F[k + 1] = F[k] + v[k + 1]
      BY <2>1 DEF Summing
    <3>2. G[k] \in Int /\ G[k + 1] = G[k] + w[k + 1]
      BY <2>1 DEF Summing
    <3>. QED BY <2>1, <3>1, <3>2 DEF Near
  <2>3. PICK f \in Int, g \in Int, a \in Int, b \in Int :
          /\ f = F[k] /\ g = G[k] /\ a = v[k + 1] /\ b = w[k + 1]
          /\ F[k + 1] = f + a /\ G[k + 1] = g + b
    BY <2>2
  <2>4. /\ 2 * (b * C) <= 2 * (a * t) + C /\ 2 * (a * t) <= 2 * (b * C) + C
    BY <2>1, <2>3 DEF Near
  <2>5. 2 * (g * C) <= 2 * (f * t) + k * C /\ 2 * (f * t) <= 2 * (g * C) + k * C
    BY <1>1, <1>3, <2>3
  <2>6. /\ 2 * ((g + b) * C) <= 2 * ((f + a) * t) + (k + 1) * C
        /\ 2 * ((f + a) * t) <= 2 * ((g + b) * C) + (k + 1) * C
    <3>1. k \in Nat
      BY <1>3
    <3>. QED BY <2>4, <2>5, <3>1, NearerByOne
  <2>7. Close(k + 1)
    BY <2>3, <2>6
  <2>. QED BY <1>1, <2>1, <2>7
<1>4. n \in K
  BY <1>2, <1>3, UpTo
<1>5. PICK g \in Int : g = G[n]
  BY DEF Summing
<1>6. 2 * (g * C) <= 2 * (C * t) + n * C /\ 2 * (C * t) <= 2 * (g * C) + n * C
  BY <1>1, <1>4, <1>5
<1>7. C * (2 * g) <= C * (2 * t + n) /\ C * (2 * t) <= C * (2 * g + n)
  <2>1. /\ C * (2 * g) = 2 * (g * C) /\ C * (2 * t) = 2 * (C * t)
        /\ C * (2 * t + n) = 2 * (C * t) + n * C /\ C * (2 * g + n) = 2 * (g * C) + n * C
    BY <1>5
  <2>. QED BY <1>6, <2>1
<1>8. 2 * g <= 2 * t + n /\ 2 * t <= 2 * g + n
  BY <1>5, <1>7, Cancelled
<1>. QED BY <1>5, <1>8 DEF Within

\* Balanced(a, x, n): x is nothing, but for the rounding of n parts of a.
Balanced(a, x, n) == 2 * Magnitude(x) <= Magnitude(a) * n

\* An amount times such a total.
LEMMA AmountNear ==
  ASSUME NEW a \in Int, NEW g \in Int, NEW t \in Int, NEW n \in Nat, Within(g, t, n)
  PROVE  Balanced(a, a * g - a * t, n)
<1>1. PICK d \in Int : d = g - t
  OBVIOUS
<1>2. a * g - a * t = a * d
  BY <1>1
<1>3. 2 * d <= n /\ - n <= 2 * d
  BY <1>1 DEF Within
<1>4. PICK m \in Nat, h \in Nat : m = Magnitude(a) /\ h = Magnitude(d)
  BY DEF Magnitude
<1>5. Magnitude(a * d) = m * h
  <2>1. a * d = m * h \/ a * d = - (m * h)
    BY <1>4 DEF Magnitude
  <2>2. m * h \in Nat
    BY <1>4
  <2>. QED BY <2>1, <2>2 DEF Magnitude
<1>6. 2 * h <= n
  BY <1>3, <1>4 DEF Magnitude
<1>7. m * (2 * h) <= m * n /\ m * (2 * h) = 2 * (m * h)
  <2>1. PICK x \in Nat : n = 2 * h + x
    <3>1. n - 2 * h \in Nat /\ n = 2 * h + (n - 2 * h)
      BY <1>4, <1>6
    <3>. QED BY <3>1
  <2>2. m * n = m * (2 * h) + m * x /\ m * x \in Nat
    BY <1>4, <2>1
  <2>. QED BY <1>4, <2>2
<1>. QED BY <1>2, <1>4, <1>5, <1>7 DEF Balanced

\* A fee that is a percentage comes out of the part it is taken from.
LEMMA FeeComesOut ==
  ASSUME NEW b \in Int, NEW f \in 0..100
  PROVE  Magnitude(100 * b - b * f) + Magnitude(b * f) = 100 * Magnitude(b)
<1>1. PICK r \in Nat : 100 = f + r
  <2>1. 100 - f \in Nat /\ 100 = f + (100 - f)
    OBVIOUS
  <2>. QED BY <2>1
<1>2. 100 * b = b * f + b * r
  <2>1. b * (f + r) = b * f + b * r
    OBVIOUS
  <2>. QED BY <1>1, <2>1
<1>3. CASE b >= 0
  <2>1. b * f \in Nat /\ b * r \in Nat
    BY <1>1, <1>3
  <2>. QED BY <1>2, <1>3, <2>1 DEF Magnitude
<1>4. CASE b < 0
  <2>1. PICK d \in Nat : b = - d /\ d > 0
    <3>1. - b \in Nat /\ b = - (- b) /\ - b > 0
      BY <1>4
    <3>. QED BY <3>1
  <2>2. d * f \in Nat /\ d * r \in Nat /\ b * f = - (d * f) /\ b * r = - (d * r)
    BY <1>1, <2>1
  <2>3. PICK x \in Nat, y \in Nat : x = d * f /\ y = d * r
    BY <2>2
  <2>4. Magnitude(b * f) = x /\ Magnitude(100 * b - b * f) = y /\ Magnitude(b) = d /\ 100 * b = - x - y
    BY <1>2, <1>4, <2>1, <2>2, <2>3 DEF Magnitude
  <2>. QED BY <2>1, <2>3, <2>4
<1>. QED BY <1>3, <1>4

\* Shared(lines, C, v, F): the shares of the lines and their sums, C in the end.
Shared(lines, C, v, F) ==
  /\ v \in [1..Len(lines) -> Int] /\ \A k \in 1..Len(lines) : v[k] = lines[k].share
  /\ Summing(Len(lines), v, F) /\ F[Len(lines)] = C

\* Divided(lines, C, v, F): the same for shares that have the ratios of those of the lines,
\* to a sum that is positive.
Divided(lines, C, v, F) ==
  /\ C \in Nat /\ C > 0 /\ v \in [1..Len(lines) -> Int] /\ Summing(Len(lines), v, F) /\ F[Len(lines)] = C
  /\ \A k \in 1..Len(lines), m, e \in Nat \ {0} :
       Rounded(lines[k].share * m, e * Controlled(lines)) = Part(v[k], m, C, e)

\* What is controlled is the sum of the shares.
LEMMA ControlledSummed ==
  ASSUME NEW lines \in Seq(RoyaltyLine)
  PROVE  Controlled(lines) \in Int /\ \E v, F : Shared(lines, Controlled(lines), v, F)
<1>1. PICK v : v = [i \in DOMAIN lines |-> lines[i].share]
  OBVIOUS
<1>2. PICK n \in Nat : n = Len(lines) /\ DOMAIN lines = 1..n
  OBVIOUS
<1>3. \A k \in 1..n : lines[k].share \in Int
  <2>1. \A k \in 1..n : lines[k] \in RoyaltyLine
    BY <1>2
  <2>2. \A l \in RoyaltyLine : l.share \in Int
    BY DEF RoyaltyLine
  <2>. QED BY <2>1, <2>2
<1>4. v \in [1..n -> Int] /\ v \in Seq(Int) /\ Len(v) = n /\ \A k \in 1..n : v[k] = lines[k].share
  BY <1>1, <1>2, <1>3
<1>5. PICK F : ListAdded(Int, v, F)
  BY <1>4, AddedUp
<1>6. Controlled(lines) = Added(v)
  BY <1>1, Zenon DEF Controlled
<1>7. F \in [0..n -> Int] /\ F[0] = 0 /\ F[n] = Added(v) /\ \A k \in 1..n : F[k] = F[k - 1] + v[k]
  BY <1>4, <1>5 DEF ListAdded
<1>8. Summing(n, v, F) /\ F[n] \in Int
  BY <1>7 DEF Summing
<1>9. Shared(lines, Controlled(lines), v, F)
  BY <1>2, <1>4, <1>6, <1>7, <1>8 DEF Shared
<1>. QED BY <1>6, <1>7, <1>8, <1>9

\* Shares that add up to something divide an amount as their opposites do, so that the sum
\* can be taken to be positive.
LEMMA InRatio ==
  ASSUME NEW lines \in Seq(RoyaltyLine), Controlled(lines) # 0
  PROVE  \E C \in Nat : \E v, F : Divided(lines, C, v, F)
<1>1. PICK D \in Int : D = Controlled(lines) /\ D # 0
  BY ControlledSummed
<1>2. PICK v, F : Shared(lines, D, v, F)
  BY <1>1, ControlledSummed
<1>3. PICK n \in Nat : n = Len(lines)
  OBVIOUS
<1>4. v \in [1..n -> Int] /\ Summing(n, v, F) /\ F[n] = D /\ \A k \in 1..n : v[k] = lines[k].share
  BY <1>2, <1>3 DEF Shared
<1>5. CASE D > 0
  <2>1. \A k \in 1..n, m, e \in Nat \ {0} :
          Rounded(lines[k].share * m, e * Controlled(lines)) = Part(v[k], m, D, e)
    BY <1>1, <1>4 DEF Part
  <2>2. D \in Nat
    BY <1>5
  <2>. QED BY <1>4, <1>5, <1>3, <2>1, <2>2 DEF Divided
<1>6. CASE D < 0
  <2>1. PICK C \in Nat : C = - D /\ C > 0
    BY <1>6
  <2>2. PICK x, G : x = [k \in 1..n |-> - v[k]] /\ G = [k \in 0..n |-> - F[k]]
    OBVIOUS
  <2>3. x \in [1..n -> Int] /\ Summing(n, x, G) /\ G[n] = C
    <3>1. x \in [1..n -> Int]
      BY <1>4, <2>2
    <3>2. G \in [0..n -> Int] /\ G[0] = 0 /\ G[n] = C
      BY <1>4, <2>1, <2>2 DEF Summing
    <3>3. ASSUME NEW k \in 1..n PROVE G[k] = G[k - 1] + x[k]
      <4>1. k \in 0..n /\ k - 1 \in 0..n
        OBVIOUS
      <4>2. F[k] \in Int /\ F[k - 1] \in Int /\ v[k] \in Int /\ F[k] = F[k - 1] + v[k]
        BY <1>4, <4>1 DEF Summing
      <4>. QED BY <2>2, <4>1, <4>2
    <3>. QED BY <3>1, <3>2, <3>3 DEF Summing
  <2>4. ASSUME NEW k \in 1..n, NEW m \in Nat \ {0}, NEW e \in Nat \ {0}
        PROVE  Rounded(lines[k].share * m, e * Controlled(lines)) = Part(x[k], m, C, e)
    <3>1. PICK a \in Int : a = v[k] /\ lines[k].share = a /\ x[k] = - a
      BY <1>4, <2>2
    <3>2. PICK p \in Int, d \in Int : p = a * m /\ d = e * D
      OBVIOUS
    <3>3. d # 0 /\ (- a) * m = - p /\ e * C = - d
      <4>1. e * C \in Nat /\ e * C > 0
        BY <2>1
      <4>2. e * (- D) = - (e * D) /\ (- a) * m = - (a * m)
        OBVIOUS
      <4>. QED BY <2>1, <3>2, <4>1, <4>2
    <3>4. Rounded(- p, - d) = Rounded(p, d)
      BY <3>3, Mirrored
    <3>. QED BY <1>1, <3>1, <3>2, <3>3, <3>4 DEF Part
  <2>. QED BY <1>3, <2>1, <2>3, <2>4 DEF Divided
<1>. QED BY <1>1, <1>5, <1>6

\* Multiplied(a, n, w, parts, G, H): G and H sum the numbers and the parts, H is a times G.
Multiplied(a, n, w, parts, G, H) ==
  Summing(n, w, G) /\ ListAdded(Int, parts, H) /\ H[n] = a * G[n]

\* Parts of an amount add up to the amount of the sum of the parts.
LEMMA AmountsAdded ==
  ASSUME NEW a \in Int, NEW n \in Nat, NEW w \in [1..n -> Int], NEW parts \in Seq(Int),
         n <= Len(parts), \A k \in 1..n : parts[k] = a * w[k]
  PROVE  \E G, H : Multiplied(a, n, w, parts, G, H)
<1>1. w \in Seq(Int) /\ Len(w) = n
  OBVIOUS
<1>2. PICK G : ListAdded(Int, w, G)
  BY <1>1, AddedUp
<1>3. PICK H : ListAdded(Int, parts, H)
  BY AddedUp
<1>4. G \in [0..n -> Int] /\ G[0] = 0 /\ \A k \in 1..n : G[k] = G[k - 1] + w[k]
  BY <1>1, <1>2 DEF ListAdded
<1>5. H[0] = 0 /\ \A k \in 1..n : H[k] = H[k - 1] + parts[k]
  BY <1>3 DEF ListAdded
<1>6. PICK K : K = {k \in 0..n : H[k] = a * G[k]}
  OBVIOUS
<1>7. 0 \in K
  BY <1>4, <1>5, <1>6
<1>8. ASSUME NEW k \in 0..n, k \in K, k < n PROVE k + 1 \in K
  <2>1. k + 1 \in 1..n /\ (k + 1) - 1 = k /\ k + 1 \in 0..n
    BY <1>8
  <2>2. H[k + 1] = a * G[k] + a * w[k + 1] /\ G[k + 1] = G[k] + w[k + 1]
    BY <1>4, <1>5, <1>6, <1>8, <2>1
  <2>3. PICK g \in Int, b \in Int : g = G[k] /\ b = w[k + 1]
    BY <1>4, <2>1
  <2>4. a * (g + b) = a * g + a * b
    OBVIOUS
  <2>. QED BY <1>6, <2>1, <2>2, <2>3, <2>4
<1>9. n \in K
  BY <1>7, <1>8, UpTo
<1>10. Summing(n, w, G)
  BY <1>4 DEF Summing
<1>. QED BY <1>3, <1>6, <1>9, <1>10 DEF Multiplied

\* ByFees(paid, amount, default, n): the amount is paid out to n lines, after fees.
ByFees(paid, amount, default, n) ==
  /\ 2 * Magnitude(Added([i \in DOMAIN paid |-> paid[i].before]) - amount * Unit) <= Magnitude(amount) * n
  /\ \A i \in DOMAIN paid :
       /\ paid[i].net + paid[i].fee = 100 * paid[i].before
       /\ default \in 0..100 =>
            Magnitude(paid[i].net) + Magnitude(paid[i].fee) = 100 * Magnitude(paid[i].before)

\* Split after fees: the parts before fees are the amount, but for their rounding.
LEMMA FeesPaid ==
  ASSUME NEW lines \in Seq(RoyaltyLine), NEW amount \in Int, NEW default \in Int,
         Controlled(lines) # 0
  PROVE  ByFees(ByFee(lines, amount, default), amount, default, Len(lines))
<1>1. PICK C \in Nat : \E v, F : Divided(lines, C, v, F)
  BY InRatio
<1>2. PICK v, F : Divided(lines, C, v, F)
  BY <1>1
<1>3. PICK n \in Nat : n = Len(lines) /\ DOMAIN lines = 1..n
  OBVIOUS
<1>4. C > 0 /\ v \in [1..n -> Int] /\ Summing(n, v, F) /\ F[n] = C
  BY <1>2, <1>3 DEF Divided
<1>5. PICK w : w = [k \in 1..n |-> Part(v[k], 1, C, 1)]
  OBVIOUS
<1>6. \A k \in 1..n : Near(w[k], v[k], C, Unit)
  <2>1. ASSUME NEW k \in 1..n PROVE Near(w[k], v[k], C, Unit)
    <3>1. PICK x \in Int : x = v[k]
      BY <1>4
    <3>2. PICK m \in Nat, e \in Nat : m = 1 /\ e = 1 /\ e > 0
      OBVIOUS
    <3>3. Whole(m, e, Unit) /\ Unit \in Nat
      BY <3>2, UnitAssumption DEF Whole
    <3>4. Near(Part(x, m, C, e), x, C, Unit)
      BY <1>4, <3>2, <3>3, PartNear
    <3>. QED BY <1>5, <3>1, <3>2, <3>4
  <2>. QED BY <2>1
<1>7. w \in [1..n -> Int]
  BY <1>5, <1>6 DEF Near
<1>8. PICK paid : paid = ByFee(lines, amount, default)
  OBVIOUS
<1>9. /\ DOMAIN paid = 1..n
      /\ \A i \in 1..n : /\ paid[i].before = amount * w[i]
                         /\ paid[i].fee = (amount * w[i]) * FeeOf(lines[i], default)
                         /\ paid[i].net = 100 * (amount * w[i]) - (amount * w[i]) * FeeOf(lines[i], default)
  <2>1. \A k \in 1..n : w[k] = Rounded(lines[k].share, Controlled(lines))
    <3>1. ASSUME NEW k \in 1..n PROVE w[k] = Rounded(lines[k].share, Controlled(lines))
      <4>1. Rounded(lines[k].share * 1, 1 * Controlled(lines)) = w[k]
        BY <1>2, <1>3, <1>5 DEF Divided
      <4>2. lines[k] \in RoyaltyLine
        BY <1>3
      <4>3. lines[k].share \in Int /\ Controlled(lines) \in Int
        BY <4>2, ControlledSummed DEF RoyaltyLine
      <4>4. \A a \in Int : a * 1 = a /\ 1 * a = a
        OBVIOUS
      <4>. QED BY <4>1, <4>3, <4>4
    <3>. QED BY <3>1
  <2>. QED BY <1>3, <1>8, <2>1 DEF ByFee
<1>10. PICK parts : parts = [i \in DOMAIN paid |-> paid[i].before]
  OBVIOUS
<1>11. parts \in Seq(Int) /\ Len(parts) = n /\ \A k \in 1..n : parts[k] = amount * w[k]
  <2>1. \A k \in 1..n : amount * w[k] \in Int
    BY <1>7
  <2>2. parts = [i \in 1..n |-> amount * w[i]]
    BY <1>9, <1>10
  <2>. QED BY <2>1, <2>2
<1>12. PICK G, H : Summing(n, w, G) /\ ListAdded(Int, parts, H) /\ H[n] = amount * G[n]
  <2>1. n <= Len(parts)
    BY <1>11
  <2>2. \E G, H : Multiplied(amount, n, w, parts, G, H)
    BY <1>7, <1>11, <2>1, AmountsAdded
  <2>. QED BY <2>2 DEF Multiplied
<1>13. Added(parts) = amount * G[n]
  BY <1>11, <1>12 DEF ListAdded
<1>14. G[n] \in Int /\ Within(G[n], Unit, n)
  BY <1>4, <1>6, <1>12, UnitAssumption, PartsNear
<1>15. Balanced(amount, Added(parts) - amount * Unit, n)
  <2>1. PICK g \in Int, u \in Int : g = G[n] /\ u = Unit
    BY <1>14, UnitAssumption
  <2>2. Balanced(amount, amount * g - amount * u, n)
    BY <1>14, <2>1, AmountNear
  <2>. QED BY <1>13, <2>1, <2>2, Zenon
<1>16. ASSUME NEW i \in DOMAIN paid
       PROVE  /\ paid[i].net + paid[i].fee = 100 * paid[i].before
              /\ default \in 0..100 =>
                   Magnitude(paid[i].net) + Magnitude(paid[i].fee) = 100 * Magnitude(paid[i].before)
  <2>1. PICK b \in Int : b = amount * w[i]
    BY <1>7, <1>9, <1>16
  <2>2. lines[i] \in RoyaltyLine
    BY <1>3, <1>9, <1>16
  <2>3. PICK f : f = FeeOf(lines[i], default)
    OBVIOUS
  <2>4. f \in Int /\ (default \in 0..100 => f \in 0..100)
    <3>1. \A l \in RoyaltyLine : l.fee \in (0..100) \cup {NoFee} /\ l.general \in (0..100) \cup {NoFee}
      BY DEF RoyaltyLine
    <3>2. PICK g, h : g = lines[i].fee /\ h = lines[i].general
      OBVIOUS
    <3>3. g \in (0..100) \cup {NoFee} /\ h \in (0..100) \cup {NoFee}
      BY <2>2, <3>1, <3>2
    <3>4. f = IF g # NoFee /\ g # 0 THEN g ELSE IF h # NoFee /\ h # 0 THEN h ELSE default
      BY <2>3, <3>2, Zenon DEF FeeOf, Entered
    <3>. QED BY <3>3, <3>4
  <2>5. paid[i].before = b /\ paid[i].fee = b * f /\ paid[i].net = 100 * b - b * f
    BY <1>9, <1>16, <2>1, <2>3
  <2>6. b * f \in Int
    BY <2>4
  <2>7. 100 * b - b * f + b * f = 100 * b
    BY <2>6
  <2>8. default \in 0..100 => Magnitude(100 * b - b * f) + Magnitude(b * f) = 100 * Magnitude(b)
    BY <2>4, FeeComesOut
  <2>. QED BY <2>5, <2>7, <2>8
<1>. QED BY <1>3, <1>8, <1>10, <1>15, <1>16, Zenon DEF Balanced, ByFees

\* A list with one number more.
Extended(q, x, p) ==
  /\ p \in Seq(Int) /\ Len(p) = Len(q) + 1 /\ p[Len(q) + 1] = x
  /\ \A k \in 1..Len(q) : p[k] = q[k]

\* Adding it leaves the others where they are.
LEMMA OneMore ==
  ASSUME NEW q \in Seq(Int), NEW x \in Int
  PROVE  Extended(q, x, q \o <<x>>)
BY DEF Extended

\* Split by calculated share: the parts of the writers and of the publisher are the amount,
\* but for the rounding of the writers' parts.
LEMMA SharesPaid ==
  ASSUME NEW lines \in Seq(RoyaltyLine), NEW amount \in Int, NEW right \in {"p", "m", "s"},
         Controlled(lines) # 0
  PROVE  Balanced(amount, Added(ByShare(lines, amount, right)) - amount * Unit, Len(lines))
<1>1. PICK C \in Nat : \E v, F : Divided(lines, C, v, F)
  BY InRatio
<1>2. PICK v, F : Divided(lines, C, v, F)
  BY <1>1
<1>3. PICK n \in Nat : n = Len(lines) /\ DOMAIN lines = 1..n
  OBVIOUS
<1>4. C > 0 /\ v \in [1..n -> Int] /\ Summing(n, v, F) /\ F[n] = C
  BY <1>2, <1>3 DEF Divided
<1>5. PICK m \in Nat, s \in Nat : s = Split[right] /\ m = 100 - s /\ m + s = 100
  <2>1. PICK s \in 0..100 : s = Split[right]
    BY SplitAssumption
  <2>2. PICK m \in Nat : m = 100 - s
    OBVIOUS
  <2>3. s \in Nat /\ m + s = 100
    BY <2>2
  <2>. QED BY <2>1, <2>2, <2>3
<1>6. PICK u \in Nat : Unit = 100 * u
  <2>1. Unit \div 100 \in Nat /\ Unit = 100 * (Unit \div 100)
    BY UnitAssumption
  <2>. QED BY <2>1
<1>7. m * u \in Nat /\ u * s \in Nat /\ amount * (u * s) \in Int
  OBVIOUS
<1>8. PICK rest \in Int : rest = amount * (u * s)
  BY <1>7
<1>9. (amount * Unit * s) \div 100 = rest
  <2>1. amount * Unit * s = 100 * rest
    <3>1. amount * (100 * u) * s = 100 * (amount * (u * s))
      BY <1>5
    <3>. QED BY <1>6, <1>8, <3>1
  <2>2. (100 * rest) \div 100 = rest
    OBVIOUS
  <2>. QED BY <2>1, <2>2
<1>10. amount * Unit = amount * (m * u) + rest
  <2>1. 100 * u = m * u + u * s
    <3>1. (m + s) * u = m * u + u * s
      BY <1>5
    <3>. QED BY <1>5, <3>1
  <2>2. PICK x \in Nat, y \in Nat : x = m * u /\ y = u * s
    BY <1>7
  <2>3. amount * (x + y) = amount * x + amount * y
    BY <2>2
  <2>. QED BY <1>6, <1>8, <2>1, <2>2, <2>3
<1>11. PICK w : w = [k \in 1..n |-> Part(v[k], m, C, 100)]
  OBVIOUS
<1>12. \A k \in 1..n : Near(w[k], v[k], C, m * u)
  <2>1. ASSUME NEW k \in 1..n PROVE Near(w[k], v[k], C, m * u)
    <3>1. PICK x \in Int : x = v[k]
      BY <1>4
    <3>2. PICK e \in Nat, t \in Nat : e = 100 /\ t = m * u
      BY <1>7
    <3>3. e > 0 /\ C > 0
      BY <1>4, <3>2
    <3>4. Whole(m, e, t)
      <4>1. m * (100 * u) = 100 * (m * u)
        BY <1>5
      <4>. QED BY <1>6, <3>2, <4>1 DEF Whole
    <3>5. Near(Part(x, m, C, e), x, C, t)
      BY <3>3, <3>4, PartNear
    <3>. QED BY <1>11, <3>1, <3>2, <3>5
  <2>. QED BY <2>1
<1>13. w \in [1..n -> Int]
  BY <1>11, <1>12 DEF Near
<1>14. PICK paid : paid = ByShare(lines, amount, right)
  OBVIOUS
<1>15. CASE m = 0
  <2>1. Split[right] = 100 /\ s = 100
    BY <1>5, <1>15
  <2>2. paid = <<>> \o <<rest>>
    BY <1>5, <1>9, <1>14, <2>1 DEF ByShare
  <2>3. paid \in Seq(Int) /\ Len(paid) = 1 /\ paid[1] = rest
    BY <2>2
  <2>4. PICK H : ListAdded(Int, paid, H)
    BY <2>3, AddedUp
  <2>5. Added(paid) = rest
    <3>1. 1 \in 1..1 /\ 1 - 1 = 0
      OBVIOUS
    <3>. QED BY <2>3, <2>4, <3>1 DEF ListAdded
  <2>6. amount * (m * u) = 0
    BY <1>15
  <2>7. Added(paid) - amount * Unit = 0
    BY <1>10, <2>5, <2>6
  <2>8. PICK b \in Nat : b = Magnitude(amount)
    BY DEF Magnitude
  <2>9. Balanced(amount, 0, n)
    <3>1. b * n \in Nat
      BY <2>8
    <3>. QED BY <2>8, <3>1 DEF Balanced, Magnitude
  <2>. QED BY <1>3, <1>14, <2>7, <2>9
<1>16. CASE m # 0
  <2>1. Split[right] # 100
    BY <1>5, <1>16
  <2>2. PICK nets : nets = [k \in 1..n |-> amount * w[k]]
    OBVIOUS
  <2>3. nets \in Seq(Int) /\ Len(nets) = n /\ \A k \in 1..n : nets[k] = amount * w[k]
    <3>1. \A k \in 1..n : amount * w[k] \in Int
      BY <1>13
    <3>. QED BY <2>2, <3>1
  <2>4. \A k \in 1..n : w[k] = Rounded(lines[k].share * (100 - Split[right]), 100 * Controlled(lines))
    <3>1. \A k \in 1..n : Rounded(lines[k].share * m, 100 * Controlled(lines)) = Part(v[k], m, C, 100)
      BY <1>2, <1>3, <1>16 DEF Divided
    <3>. QED BY <1>5, <1>11, <3>1
  <2>5. paid = nets \o <<rest>>
    <3>1. nets = [i \in DOMAIN lines |-> amount * Rounded(lines[i].share * (100 - Split[right]), 100 * Controlled(lines))]
      BY <1>3, <2>2, <2>4
    <3>2. (amount * Unit * Split[right]) \div 100 = rest
      BY <1>5, <1>9
    <3>. QED BY <1>14, <2>1, <3>1, <3>2, Zenon DEF ByShare
  <2>6. /\ paid \in Seq(Int) /\ Len(paid) = n + 1 /\ paid[n + 1] = rest
        /\ \A k \in 1..n : paid[k] = amount * w[k]
    <3>1. Extended(nets, rest, paid)
      BY <2>3, <2>5, OneMore
    <3>2. paid \in Seq(Int) /\ Len(paid) = n + 1 /\ paid[n + 1] = rest
      BY <2>3, <3>1 DEF Extended
    <3>3. \A k \in 1..n : paid[k] = nets[k]
      BY <2>3, <3>1 DEF Extended
    <3>. QED BY <2>3, <3>2, <3>3
  <2>7. PICK G, H : Summing(n, w, G) /\ ListAdded(Int, paid, H) /\ H[n] = amount * G[n]
    <3>1. n <= Len(paid)
      BY <2>6
    <3>2. \E G, H : Multiplied(amount, n, w, paid, G, H)
      BY <1>13, <2>6, <3>1, AmountsAdded
    <3>. QED BY <3>2 DEF Multiplied
  <2>8. Added(paid) = amount * G[n] + rest
    <3>1. n + 1 \in 1..(n + 1) /\ (n + 1) - 1 = n
      OBVIOUS
    <3>. QED BY <2>6, <2>7, <3>1 DEF ListAdded
  <2>9. PICK t \in Nat : t = m * u
    BY <1>7
  <2>10. G[n] \in Int /\ Within(G[n], t, n)
    BY <1>4, <1>12, <2>7, <2>9, PartsNear
  <2>11. PICK g \in Int : g = G[n]
    BY <2>10
  <2>12. Balanced(amount, amount * g - amount * t, n)
    BY <2>10, <2>11, AmountNear
  <2>13. Added(paid) - amount * Unit = amount * g - amount * t
    <3>1. PICK x \in Int, y \in Int : x = amount * g /\ y = amount * t
      BY <2>9, <2>11
    <3>2. Added(paid) = x + rest /\ amount * Unit = y + rest
      BY <1>10, <2>8, <2>9, <2>11, <3>1
    <3>. QED BY <3>1, <3>2
  <2>. QED BY <1>3, <1>14, <2>12, <2>13
<1>. QED BY <1>15, <1>16

\* The answer to a row of a statement.
LEMMA RowPaid ==
  ASSUME NEW s \in Statements, NEW c, c.row = s.row, c.lines = LinesOf(s.works, s.row.id),
         c.answer = ProcessRow(c.lines, c.row)
  PROVE  FullyPaid(c)
<1>1. PICK row, works : row = s.row /\ works = s.works
  OBVIOUS
<1>2. /\ works \in Seq(Range(works)) /\ \A w \in Range(works) : w.lines \in Seq(RoyaltyLine)
      /\ row.amount \in Int \cup {NoAmount} /\ row.default \in Int
      /\ row.right \in {"p", "m", "s"}
  BY <1>1, StatementsAssumption DEF StatementsAssumption
<1>3. PICK lines : lines = c.lines
  OBVIOUS
<1>4. lines \in Seq(RoyaltyLine)
  BY <1>1, <1>2, <1>3, LinesAdded
<1>5. SUFFICES ASSUME "paid" \in DOMAIN c.answer PROVE FullyPaid(c)
  BY DEF FullyPaid
<1>6. c.answer = ProcessRow(lines, row)
  BY <1>1, <1>3
<1>7. PICK fee, share : fee = ByFee(lines, row.amount, row.default) /\ share = ByShare(lines, row.amount, row.right)
  OBVIOUS
<1>8. c.answer = IF lines = <<>> THEN [error |-> "Work not found"]
                  ELSE IF row.amount = NoAmount THEN [error |-> "Invalid amount"]
                  ELSE IF Controlled(lines) = 0 THEN [error |-> "Controlled share is zero"]
                  ELSE IF row.algo = "fee" THEN [paid |-> fee] ELSE [paid |-> share]
  BY <1>6, <1>7, Zenon DEF ProcessRow
<1>9. /\ Controlled(lines) # 0 /\ row.amount # NoAmount
       /\ c.answer.paid = IF row.algo = "fee" THEN fee ELSE share
  <2>1. \A x : "paid" \notin DOMAIN [error |-> x]
    OBVIOUS
  <2>2. \/ \E x : c.answer = [error |-> x]
        \/ /\ Controlled(lines) # 0 /\ row.amount # NoAmount
           /\ c.answer = IF row.algo = "fee" THEN [paid |-> fee] ELSE [paid |-> share]
    BY <1>8, Zenon
  <2>3. /\ Controlled(lines) # 0 /\ row.amount # NoAmount
        /\ c.answer = IF row.algo = "fee" THEN [paid |-> fee] ELSE [paid |-> share]
    BY <1>5, <2>1, <2>2, Zenon
  <2>4. [paid |-> fee].paid = fee /\ [paid |-> share].paid = share
    OBVIOUS
  <2>. QED BY <2>3, <2>4, Zenon
<1>10. row.amount \in Int
  BY <1>2, <1>9
<1>11. PICK paid : paid = c.answer.paid
  OBVIOUS
<1>12. CASE row.algo = "fee"
  <2>1. paid = ByFee(lines, row.amount, row.default)
    BY <1>7, <1>11, <1>12, <1>9
  <2>2. Parts(row.algo, paid) = [i \in DOMAIN paid |-> paid[i].before]
    BY <1>12 DEF Parts
  <2>3. ByFees(paid, row.amount, row.default, Len(lines))
    BY <1>2, <1>4, <1>10, <1>9, <2>1, FeesPaid
  <2>4. c.row = row /\ c.lines = lines
    BY <1>1, <1>3
  <2>5. ByFees(paid, c.row.amount, c.row.default, Len(c.lines))
    BY <2>3, <2>4
  <2>6. Parts(c.row.algo, paid) = [i \in DOMAIN paid |-> paid[i].before]
    BY <2>2, <2>4
  <2>. QED BY <1>11, <2>5, <2>6, Zenon DEF FullyPaid, ByFees
<1>13. CASE row.algo # "fee"
  <2>1. paid = ByShare(lines, row.amount, row.right)
    BY <1>7, <1>11, <1>13, <1>9
  <2>2. Balanced(row.amount, Added(paid) - row.amount * Unit, Len(lines))
    BY <1>2, <1>4, <1>10, <1>9, <2>1, SharesPaid
  <2>3. Parts(row.algo, paid) = paid
    <3>1. paid = [i \in DOMAIN paid |-> paid[i]]
      BY <2>1 DEF ByShare
    <3>. QED BY <1>13, <3>1 DEF Parts
  <2>. QED BY <1>1, <1>3, <1>11, <1>13, <2>2, <2>3, Zenon DEF FullyPaid, Balanced
<1>. QED BY <1>12, <1>13

-----------------------------------------------------------------------------
(* What the newest acknowledgements say.                                   *)

\* Acknowledgements with dates, told apart by their numbers.
Dated(acks) ==
  /\ IsFiniteSet(acks) /\ \A a \in acks : a.id \in Nat /\ a.date \in Int
  /\ \A a, b \in acks : a.id = b.id => a = b

\* The newest first.
NewestFirst(list) == \A i, j \in DOMAIN list : i < j => Newer(list[i], list[j])

\* Of two acknowledgements one is the newer one.
LEMMA OneIsNewer ==
  ASSUME NEW acks, Dated(acks), NEW a \in acks, NEW b \in acks, a # b
  PROVE  (Newer(a, b) \/ Newer(b, a)) /\ ~ (Newer(a, b) /\ Newer(b, a)) /\ ~ Newer(a, a)
<1>1. a.id \in Nat /\ b.id \in Nat /\ a.date \in Int /\ b.date \in Int /\ a.id # b.id
  BY DEF Dated
<1>. QED BY <1>1 DEF Newer

\* No acknowledgement is newer than itself or than a newer one.
LEMMA NewerOrders ==
  ASSUME NEW acks, Dated(acks), NEW a \in acks, NEW b \in acks
  PROVE  ~ Newer(a, a) /\ (Newer(a, b) => ~ Newer(b, a))
         /\ \A c \in acks : Newer(a, b) /\ Newer(b, c) => Newer(a, c)
<1>1. \A x \in acks : x.id \in Nat /\ x.date \in Int
  BY DEF Dated
<1>. QED BY <1>1 DEF Newer

\* Among finitely many there is one that all others are newer than.
LEMMA OldestAmong ==
  ASSUME NEW acks, Dated(acks), NEW S \in SUBSET acks, S # {}
  PROVE  \E m \in S : \A a \in S \ {m} : Newer(a, m)
<1>1. PICK K : K = {T \in SUBSET acks : T # {} => \E m \in T : \A a \in T \ {m} : Newer(a, m)}
  OBVIOUS
<1>2. ASSUME NEW T \in SUBSET acks, \A U \in SUBSET T : U # T => U \in K PROVE T \in K
  <2>1. CASE T = {}
    BY <1>1, <2>1
  <2>2. CASE T # {}
    <3>1. PICK x \in T : TRUE
      BY <2>2
    <3>2. T \ {x} \in K
      BY <1>2, <3>1
    <3>3. CASE T \ {x} = {}
      <4>1. \A a \in T \ {x} : Newer(a, x)
        BY <3>3
      <4>. QED BY <1>1, <3>1, <4>1
    <3>4. CASE T \ {x} # {}
      <4>1. PICK m \in T \ {x} : \A a \in (T \ {x}) \ {m} : Newer(a, m)
        BY <1>1, <3>2, <3>4
      <4>2. x \in acks /\ m \in acks /\ x # m /\ m \in T
        BY <3>1, <4>1
      <4>3. CASE Newer(x, m)
        <5>1. \A a \in T \ {m} : Newer(a, m)
          BY <4>1, <4>3
        <5>. QED BY <1>1, <4>2, <5>1
      <4>4. CASE Newer(m, x)
        <5>1. ASSUME NEW a \in T \ {x} PROVE Newer(a, x)
          <6>1. a \in acks
            OBVIOUS
          <6>2. a = m \/ Newer(a, m)
            BY <4>1
          <6>. QED BY <4>2, <4>4, <6>1, <6>2, NewerOrders
        <5>. QED BY <1>1, <3>1, <5>1
      <4>. QED BY <4>2, <4>3, <4>4, OneIsNewer
    <3>. QED BY <3>3, <3>4
  <2>. QED BY <2>1, <2>2
<1>3. IsFiniteSet(acks)
  BY DEF Dated
<1>4. S \in K
  BY <1>2, <1>3, BySubsets
<1>. QED BY <1>1, <1>4

\* Finitely many can be listed, the newest first.
LEMMA CanBeListed ==
  ASSUME NEW acks, Dated(acks)
  PROVE  \E list \in [1..Cardinality(acks) -> acks] : NewestFirst(list)
<1>1. PICK K : K = {T \in SUBSET acks : \E list \in [1..Cardinality(T) -> T] : NewestFirst(list)}
  OBVIOUS
<1>2. IsFiniteSet(acks)
  BY DEF Dated
<1>3. ASSUME NEW T \in SUBSET acks, \A U \in SUBSET T : U # T => U \in K PROVE T \in K
  <2>1. IsFiniteSet(T)
    BY <1>2, FS_Subset
  <2>2. CASE T = {}
    <3>1. Cardinality(T) = 0
      BY <2>1, <2>2, FS_EmptySet
    <3>2. PICK list : list = [i \in 1..0 |-> i]
      OBVIOUS
    <3>3. list \in [1..Cardinality(T) -> T] /\ NewestFirst(list)
      <4>1. DOMAIN list = 1..0 /\ \A i \in 1..0 : FALSE
        BY <3>2
      <4>. QED BY <3>1, <3>2, <4>1 DEF NewestFirst
    <3>. QED BY <1>1, <3>3
  <2>3. CASE T # {}
    <3>1. PICK m \in T : \A a \in T \ {m} : Newer(a, m)
      BY <2>3, OldestAmong, Zenon
    <3>2. T \ {m} \in K
      BY <1>3, <3>1
    <3>3. PICK list \in [1..Cardinality(T \ {m}) -> T \ {m}] : NewestFirst(list)
      BY <1>1, <3>2
    <3>4. PICK n \in Nat : n = Cardinality(T) /\ Cardinality(T \ {m}) = n - 1 /\ n > 0
      <4>1. Cardinality(T) \in Nat /\ Cardinality(T \ {m}) = Cardinality(T) - 1
        BY <2>1, <3>1, FS_CardinalityType, FS_RemoveElement
      <4>2. Cardinality(T \ {m}) \in Nat
        <5>1. IsFiniteSet(T \ {m})
          BY <2>1, FS_Subset
        <5>. QED BY <5>1, FS_CardinalityType
      <4>. QED BY <4>1, <4>2
    <3>5. PICK longer : longer = [i \in 1..n |-> IF i = n THEN m ELSE list[i]]
      OBVIOUS
    <3>8. \A i \in 1..(n - 1) : list[i] \in T \ {m}
      BY <3>3, <3>4
    <3>9. \A i \in 1..n : i # n => i \in 1..(n - 1)
      BY <3>4
    <3>6. longer \in [1..n -> T]
      BY <3>1, <3>5, <3>8, <3>9
    <3>7. NewestFirst(longer)
      <4>1. ASSUME NEW i \in 1..n, NEW j \in 1..n, i < j PROVE Newer(longer[i], longer[j])
        <5>1. i \in 1..(n - 1) /\ longer[i] = list[i] /\ list[i] \in T \ {m}
          <6>1. i # n
            BY <3>4, <4>1
          <6>. QED BY <3>5, <3>8, <3>9, <6>1
        <5>2. CASE j = n
          BY <3>1, <3>5, <5>1, <5>2
        <5>3. CASE j # n
          <6>1. j \in 1..(n - 1) /\ longer[j] = list[j]
            BY <3>5, <3>9, <5>3
          <6>. QED BY <3>3, <3>4, <4>1, <5>1, <6>1 DEF NewestFirst
        <5>. QED BY <5>2, <5>3
      <4>. QED BY <3>5, <4>1 DEF NewestFirst
    <3>. QED BY <1>1, <3>4, <3>6, <3>7
  <2>. QED BY <2>2, <2>3
<1>4. acks \in K
  BY <1>2, <1>3, BySubsets
<1>. QED BY <1>1, <1>4

\* The acknowledgements of a work, in the order in which they are gone through.
LEMMA AcknowledgedInOrder ==
  ASSUME NEW work, Dated(work.acks)
  PROVE  /\ Acknowledged(work) \in [1..Cardinality(work.acks) -> work.acks]
         /\ NewestFirst(Acknowledged(work)) /\ Cardinality(work.acks) \in Nat
         /\ \A a \in work.acks : \E i \in 1..Cardinality(work.acks) : Acknowledged(work)[i] = a
<1>. DEFINE n == Cardinality(work.acks)
<1>1. IsFiniteSet(work.acks) /\ n \in Nat
  BY FS_CardinalityType DEF Dated
<1>2. PICK list : list = Acknowledged(work)
  OBVIOUS
<1>3. list \in [1..n -> work.acks] /\ \A i, j \in DOMAIN list : i < j => Newer(list[i], list[j])
  <2>1. \E acks \in [1..n -> work.acks] : \A i, j \in DOMAIN acks : i < j => Newer(acks[i], acks[j])
    BY CanBeListed, Zenon DEF NewestFirst
  <2>. QED BY <1>2, <2>1, Zenon DEF Acknowledged
<1>4. list \in Injection(1..n, work.acks)
  <2>1. ASSUME NEW i \in 1..n, NEW j \in 1..n, list[i] = list[j] PROVE i = j
    <3>1. ~ Newer(list[i], list[j]) /\ ~ Newer(list[j], list[i])
      BY <1>3, <2>1, NewerOrders
    <3>. QED BY <1>3, <3>1
  <2>. QED BY <1>3, <2>1 DEF Injection, IsInjective
<1>5. list \in Surjection(1..n, work.acks)
  <2>1. Cardinality(1..n) = n
    BY <1>1, FS_Interval
  <2>. QED BY <1>1, <1>4, <2>1, FS_Injection
<1>. QED BY <1>1, <1>2, <1>3, <1>5 DEF Surjection, NewestFirst

\* What acknowledgements can be referred to by.
References(acks) == {[organization |-> a.society, identifier |-> a.remote] : a \in acks}

\* g has the references after the first acknowledgements of the list.
ReferredInTurn(list, g) ==
  /\ g[0] = <<>> /\ g[Len(list)] = FoldLeft(Referred, <<>>, list)
  /\ \A k \in 1..Len(list) : g[k - 1] \in Seq(References(Range(list))) /\ g[k] = Referred(g[k - 1], list[k])

\* The acknowledgements are referred to in turn.
LEMMA AcksReferred ==
  ASSUME NEW acks, NEW list \in Seq(acks)
  PROVE  \E g : ReferredInTurn(list, g)
<1>. DEFINE Adds(f) == f = [S \in SUBSET DOMAIN list |->
                               IF S = {} THEN <<>> ELSE Referred(f[S \ {Max(S)}], list[Max(S)])]
<1>1. PICK c : c = CHOOSE f : Adds(f)
  OBVIOUS
<1>2. FoldLeft(Referred, <<>>, list) = c[DOMAIN list]
  BY <1>1, Zenon DEF FoldLeft, MapThenFoldSet
<1>3. PICK m \in Nat : m = Len(list) /\ DOMAIN list = 1..m
  OBVIOUS
<1>4. PICK Q : Q = Seq(References(Range(list)))
  OBVIOUS
<1>5. \A s \in Q, k \in 1..m : Referred(s, list[k]) \in Q
  <2>1. ASSUME NEW k \in 1..m
        PROVE  [organization |-> list[k].society, identifier |-> list[k].remote] \in References(Range(list))
    BY <1>3 DEF References, Range
  <2>. QED BY <1>4, <2>1 DEF Referred
<1>6. PICK step \in [Q \X (1..m) -> Q] :
        \A k \in 1..m, s \in Q : step[<<s, k>>] = Referred(s, list[k])
  <2>1. [x \in Q \X (1..m) |-> Referred(x[1], list[x[2]])] \in [Q \X (1..m) -> Q]
    BY <1>5
  <2>. QED BY <2>1
<1>7. <<>> \in Q
  BY <1>4
<1>8. PICK f : Folds(m, Q, <<>>, step, f)
  BY <1>6, <1>7, FoldDefined
<1>9. Adds(f)
  <2>1. ASSUME NEW S \in SUBSET (1..m), S # {}
        PROVE  f[S] = Referred(f[S \ {Max(S)}], list[Max(S)])
    <3>1. PICK x : x = Max(S)
      OBVIOUS
    <3>2. x \in 1..m /\ S \ {x} \in SUBSET (1..m)
      BY <2>1, <3>1, LastPosition
    <3>. QED BY <1>6, <1>8, <2>1, <3>1, <3>2 DEF Folds
  <2>2. f = [S \in SUBSET (1..m) |->
               IF S = {} THEN <<>> ELSE Referred(f[S \ {Max(S)}], list[Max(S)])]
    BY <1>8, <2>1 DEF Folds
  <2>. QED BY <1>3, <2>2
<1>10. Adds(c)
  BY <1>1, <1>9, Zenon
<1>11. c[{}] = <<>> /\ \A k \in 1..m : c[1..k] = Referred(c[1..(k - 1)], list[k])
  <2>1. ASSUME NEW k \in 1..m PROVE c[1..k] = Referred(c[1..(k - 1)], list[k])
    <3>1. 1..k \in SUBSET DOMAIN list /\ 1..k # {} /\ k \in Nat /\ k > 0
      <4>1. 1..k \subseteq 1..m /\ k \in 1..k /\ k \in Nat /\ k > 0
        OBVIOUS
      <4>2. 1..k # {}
        BY <4>1
      <4>. QED BY <1>3, <4>1, <4>2
    <3>2. Max(1..k) = k /\ (1..k) \ {Max(1..k)} = 1..(k - 1)
      BY <3>1, LastOfSegment
    <3>3. c[1..k] = Referred(c[(1..k) \ {Max(1..k)}], list[Max(1..k)])
      BY <1>10, <3>1
    <3>. QED BY <3>2, <3>3
  <2>2. {} \in SUBSET DOMAIN list
    OBVIOUS
  <2>. QED BY <1>10, <2>1, <2>2
<1>12. Follows(m, Q, <<>>, step, c)
  BY <1>6, <1>11 DEF Follows
<1>13. PICK g : Runs(m, Q, <<>>, step, c, g)
  BY <1>6, <1>7, <1>12, FoldRuns
<1>14. \A k \in 1..m : g[k - 1] \in Q /\ g[k] = Referred(g[k - 1], list[k])
  <2>1. \A k \in 1..m : k - 1 \in 0..m
    OBVIOUS
  <2>. QED BY <1>6, <1>13, <2>1 DEF Runs
<1>. QED BY <1>2, <1>3, <1>4, <1>13, <1>14 DEF ReferredInTurn, Runs

\* The references after the first k acknowledgements: one to every society that has sent
\* an identifier, the first one it sent.
Refers(list, k, refs) ==
  /\ \A i \in 1..k : list[i].remote # NoValue => \E x \in Range(refs) : x.organization = list[i].society
  /\ \A x \in Range(refs) : \E i \in 1..k :
       /\ list[i].remote # NoValue /\ x.organization = list[i].society /\ x.identifier = list[i].remote
       /\ \A j \in 1..k : list[j].remote # NoValue /\ list[j].society = list[i].society => i <= j
  /\ \A i, j \in DOMAIN refs : refs[i].organization = refs[j].organization => i = j

\* One more acknowledgement is referred to.
LEMMA OneMoreReferred ==
  ASSUME NEW acks, NEW list \in Seq(acks), NEW k \in 1..Len(list),
         NEW refs \in Seq(References(Range(list))), Refers(list, k - 1, refs)
  PROVE  Refers(list, k, Referred(refs, list[k]))
<1>1. PICK a : a = list[k]
  OBVIOUS
<1>2. k - 1 \in Nat /\ \A i \in 1..k : i = k \/ i \in 1..(k - 1)
  OBVIOUS
<1>3. CASE a.remote = NoValue \/ \E x \in Range(refs) : x.organization = a.society
  <2>1. Referred(refs, a) = refs
    BY <1>3 DEF Referred
  <2>2. \A i \in 1..k : list[i].remote # NoValue => \E x \in Range(refs) : x.organization = list[i].society
    BY <1>1, <1>2, <1>3 DEF Refers
  <2>3. ASSUME NEW x \in Range(refs)
        PROVE  \E i \in 1..k :
                 /\ list[i].remote # NoValue /\ x.organization = list[i].society /\ x.identifier = list[i].remote
                 /\ \A j \in 1..k : list[j].remote # NoValue /\ list[j].society = list[i].society => i <= j
    <3>1. PICK i \in 1..(k - 1) :
            /\ list[i].remote # NoValue /\ x.organization = list[i].society /\ x.identifier = list[i].remote
            /\ \A j \in 1..(k - 1) : list[j].remote # NoValue /\ list[j].society = list[i].society => i <= j
      BY DEF Refers
    <3>2. i \in 1..k /\ i <= k
      OBVIOUS
    <3>3. \A j \in 1..k : list[j].remote # NoValue /\ list[j].society = list[i].society => i <= j
      BY <1>2, <3>1, <3>2
    <3>. QED BY <3>1, <3>2, <3>3
  <2>. QED BY <1>1, <2>1, <2>2, <2>3 DEF Refers
<1>4. CASE a.remote # NoValue /\ ~ \E x \in Range(refs) : x.organization = a.society
  <2>1. PICK last : last = [organization |-> a.society, identifier |-> a.remote]
    OBVIOUS
  <2>2. Referred(refs, a) = Append(refs, last)
    BY <1>4, <2>1 DEF Referred
  <2>3. PICK n \in Nat : n = Len(refs) /\ DOMAIN refs = 1..n
    OBVIOUS
  <2>4. PICK longer : longer = Append(refs, last)
    OBVIOUS
  <2>5. /\ DOMAIN longer = 1..(n + 1) /\ longer[n + 1] = last
        /\ \A i \in 1..n : longer[i] = refs[i]
    BY <2>3, <2>4
  <2>6. Range(longer) = Range(refs) \cup {last}
    BY <2>3, <2>5 DEF Range
  <2>7. \A i \in 1..k : list[i].remote # NoValue => \E x \in Range(longer) : x.organization = list[i].society
    BY <1>1, <1>2, <2>1, <2>6 DEF Refers
  <2>8. ASSUME NEW x \in Range(longer)
        PROVE  \E i \in 1..k :
                 /\ list[i].remote # NoValue /\ x.organization = list[i].society /\ x.identifier = list[i].remote
                 /\ \A j \in 1..k : list[j].remote # NoValue /\ list[j].society = list[i].society => i <= j
    <3>1. CASE x = last
      <4>1. \A j \in 1..k : list[j].remote # NoValue /\ list[j].society = a.society => k <= j
        BY <1>2, <1>4 DEF Refers
      <4>. QED BY <1>1, <1>4, <2>1, <3>1, <4>1
    <3>2. CASE x \in Range(refs)
      <4>1. PICK i \in 1..(k - 1) :
              /\ list[i].remote # NoValue /\ x.organization = list[i].society /\ x.identifier = list[i].remote
              /\ \A j \in 1..(k - 1) : list[j].remote # NoValue /\ list[j].society = list[i].society => i <= j
        BY <3>2 DEF Refers
      <4>2. i \in 1..k /\ i <= k
        OBVIOUS
      <4>3. \A j \in 1..k : list[j].remote # NoValue /\ list[j].society = list[i].society => i <= j
        BY <1>2, <4>1, <4>2
      <4>. QED BY <4>1, <4>2, <4>3
    <3>. QED BY <2>6, <3>1, <3>2
  <2>9. ASSUME NEW i \in 1..(n + 1), NEW j \in 1..(n + 1), longer[i].organization = longer[j].organization
        PROVE  i = j
    <3>1. ASSUME NEW h \in 1..n PROVE longer[h].organization # last.organization
      <4>1. refs[h] \in Range(refs)
        BY <2>3 DEF Range
      <4>2. refs[h].organization # a.society
        BY <1>4, <4>1
      <4>3. last.organization = a.society
        BY <2>1
      <4>. QED BY <2>5, <4>2, <4>3
    <3>2. \A h \in 1..(n + 1) : h = n + 1 \/ h \in 1..n
      OBVIOUS
    <3>3. CASE i \in 1..n /\ j \in 1..n
      BY <2>3, <2>5, <2>9, <3>3 DEF Refers
    <3>4. CASE i = n + 1 \/ j = n + 1
      BY <2>5, <2>9, <3>1, <3>2, <3>4
    <3>. QED BY <3>2, <3>3, <3>4
  <2>. QED BY <1>1, <2>2, <2>4, <2>5, <2>7, <2>8, <2>9 DEF Refers
<1>. QED BY <1>3, <1>4

\* All acknowledgements of a list are referred to.
LEMMA ListReferred ==
  ASSUME NEW acks, NEW list \in Seq(acks)
  PROVE  Refers(list, Len(list), FoldLeft(Referred, <<>>, list))
<1>1. PICK g : ReferredInTurn(list, g)
  BY AcksReferred
<1>2. PICK n \in Nat : n = Len(list)
  OBVIOUS
<1>3. PICK K : K = {k \in 0..n : Refers(list, k, g[k])}
  OBVIOUS
<1>4. 0 \in K
  <2>1. g[0] = <<>> /\ 0 \in 0..n /\ Range(<<>>) = {} /\ \A i \in 1..0 : FALSE
    BY <1>1 DEF ReferredInTurn, Range
  <2>. QED BY <1>3, <2>1 DEF Refers
<1>5. ASSUME NEW k \in 0..n, k \in K, k < n PROVE k + 1 \in K
  <2>1. k + 1 \in 1..n /\ (k + 1) - 1 = k /\ k + 1 \in 0..n
    BY <1>5
  <2>2. g[k] \in Seq(References(Range(list))) /\ g[k + 1] = Referred(g[k], list[k + 1])
    BY <1>1, <1>2, <2>1 DEF ReferredInTurn
  <2>3. Refers(list, k, g[k])
    BY <1>3, <1>5
  <2>4. Refers(list, k + 1, Referred(g[k], list[k + 1]))
    BY <1>2, <2>1, <2>2, <2>3, OneMoreReferred
  <2>. QED BY <1>3, <2>1, <2>2, <2>4
<1>6. n \in K
  BY <1>4, <1>5, UpTo
<1>. QED BY <1>1, <1>2, <1>3, <1>6 DEF ReferredInTurn

\* The references of a work: to every society that has sent an identifier, once, the
\* newest one it sent.
Refer(work, refs) ==
  /\ {r.organization : r \in Range(refs)} = {a.society : a \in {b \in work.acks : b.remote # NoValue}}
  /\ \A i, j \in DOMAIN refs : refs[i].organization = refs[j].organization => i = j
  /\ \A r \in Range(refs) :
       \E a \in {b \in work.acks : b.society = r.organization /\ b.remote # NoValue} :
         /\ a.remote = r.identifier
         /\ \A b \in {c \in work.acks : c.society = r.organization /\ c.remote # NoValue} : ~ Newer(b, a)

\* They are what its acknowledgements are exported as.
LEMMA NewestReferred ==
  ASSUME NEW work, Dated(work.acks)
  PROVE  Refer(work, CrossReferences(work))
<1>0. PICK refs : refs = CrossReferences(work)
  OBVIOUS
<1>1. PICK n, list, acks : n = Cardinality(work.acks) /\ list = Acknowledged(work) /\ acks = work.acks
  OBVIOUS
<1>2. /\ list \in [1..n -> acks] /\ NewestFirst(list) /\ n \in Nat
      /\ \A a \in acks : \E i \in 1..n : list[i] = a
  BY <1>1, AcknowledgedInOrder
<1>3. list \in Seq(acks) /\ Len(list) = n
  BY <1>2
<1>4. Refers(list, n, refs)
  BY <1>0, <1>1, <1>3, ListReferred DEF CrossReferences
<1>5. ASSUME NEW r \in Range(refs)
      PROVE  \E a \in {b \in acks : b.society = r.organization /\ b.remote # NoValue} :
               /\ a.remote = r.identifier
               /\ \A b \in {c \in acks : c.society = r.organization /\ c.remote # NoValue} : ~ Newer(b, a)
  <2>1. PICK i \in 1..n :
          /\ list[i].remote # NoValue /\ r.organization = list[i].society /\ r.identifier = list[i].remote
          /\ \A j \in 1..n : list[j].remote # NoValue /\ list[j].society = list[i].society => i <= j
    BY <1>4 DEF Refers
  <2>2. list[i] \in {b \in acks : b.society = r.organization /\ b.remote # NoValue}
    BY <1>2, <2>1
  <2>3. ASSUME NEW b \in {c \in acks : c.society = r.organization /\ c.remote # NoValue}
        PROVE  ~ Newer(b, list[i])
    <3>1. PICK j \in 1..n : list[j] = b
      BY <1>2
    <3>2. i <= j
      BY <2>1, <3>1
    <3>3. i = j \/ Newer(list[i], b)
      BY <1>2, <3>1, <3>2 DEF NewestFirst
    <3>4. list[i] \in acks /\ b \in acks
      BY <1>2
    <3>. QED BY <1>1, <3>1, <3>3, <3>4, NewerOrders
  <2>. QED BY <2>1, <2>2, <2>3
<1>6. \A a \in acks : a.remote # NoValue => \E r \in Range(refs) : r.organization = a.society
  BY <1>2, <1>4 DEF Refers
<1>7. {r.organization : r \in Range(refs)} = {a.society : a \in {b \in acks : b.remote # NoValue}}
  <2>1. ASSUME NEW r \in Range(refs)
        PROVE  r.organization \in {a.society : a \in {b \in acks : b.remote # NoValue}}
    <3>1. PICK a \in acks : a.society = r.organization /\ a.remote # NoValue
      BY <1>5
    <3>. QED BY <3>1
  <2>. QED BY <1>6, <2>1
<1>8. \A i, j \in DOMAIN refs : refs[i].organization = refs[j].organization => i = j
  BY <1>4 DEF Refers
<1>. QED BY <1>0, <1>1, <1>5, <1>7, <1>8, Zenon DEF Refer

-----------------------------------------------------------------------------
(* What is exported of a repertoire.                                       *)

\* Titles put together are empty only if both are.
LEMMA TitlesJoined ==
  ASSUME NEW s, s \in Seq(Range(s)), NEW t, t \in Seq(Range(t))
  PROVE  (t # <<>> => s \o t # <<>>) /\ s \o <<>> = s
<1>1. PICK W : W = Range(s) \cup Range(t)
  OBVIOUS
<1>2. s \in Seq(W) /\ t \in Seq(W)
  BY <1>1
<1>3. s \o <<>> = s
  BY <1>2
<1>4. ASSUME t # <<>> PROVE s \o t # <<>>
  <2>1. Len(t) > 0 /\ Len(s) >= 0
    BY <1>2, <1>4, EmptySeq
  <2>2. Len(s \o t) = Len(s) + Len(t)
    BY <1>2
  <2>. QED BY <1>2, <2>1, <2>2
<1>. QED BY <1>3, <1>4

\* The title a recording is shown under is the one that is exported.
LEMMA TitleIsShown ==
  ASSUME NEW work, work.title \in Seq(Range(work.title)), NEW r, r.title \in Seq(Range(r.title))
  PROVE  ShownTitle(work, r) = IF r.version # <<>> THEN CompleteVersionTitle(work, r) ELSE WrittenTitle(work, r)
<1>1. (r.title # <<>> => work.title \o r.title # <<>>) /\ work.title \o <<>> = work.title
  BY TitlesJoined
<1>2. CASE r.version # <<>>
  BY <1>2 DEF ShownTitle
<1>3. CASE r.version = <<>> /\ r.title # <<>>
  <2>1. ShownTitle(work, r) = CompleteRecordingTitle(work, r)
    BY <1>3 DEF ShownTitle
  <2>2. CompleteRecordingTitle(work, r) # <<>>
    BY <1>1, <1>3 DEF CompleteRecordingTitle
  <2>. QED BY <1>3, <2>1, <2>2 DEF WrittenTitle
<1>4. CASE r.version = <<>> /\ r.title = <<>>
  <2>1. ShownTitle(work, r) = work.title
    BY <1>4 DEF ShownTitle
  <2>2. WrittenTitle(work, r) = work.title
    BY <1>1, <1>4 DEF WrittenTitle, CompleteRecordingTitle
  <2>. QED BY <1>4, <2>1, <2>2
<1>. QED BY <1>2, <1>3, <1>4

\* A controlled line names both societies.
LEMMA LineNamesSocieties ==
  ASSUME NEW l, l.controlled,
         l.writer # Unknown => "PR" \in DOMAIN l.writer.societies /\ l.writer.societies["PR"] # NoValue,
         NEW p \in LineDict(l).publishers, NEW person \in LineDict(l).writer
  PROVE  (\E a \in p.publisher.affiliations : a[1] = "PR") /\ \E a \in person.affiliations : a[1] = "PR"
<1>1. p.publisher = PublisherDict
  BY DEF LineDict
<1>2. PublisherDict.affiliations = {<<"PR", PublisherSocieties.PR>>} \cup Affiliations(PublisherSocieties)
  BY DEF PublisherDict
<1>3. <<"PR", PublisherSocieties.PR>> \in p.publisher.affiliations /\ <<"PR", PublisherSocieties.PR>>[1] = "PR"
  BY <1>1, <1>2
<1>4. l.writer # Unknown /\ person = WriterDict(l.writer)
  BY DEF LineDict
<1>5. person.affiliations = Affiliations(l.writer.societies)
  BY <1>4 DEF WriterDict
<1>6. <<"PR", l.writer.societies["PR"]>> \in Affiliations(l.writer.societies)
  BY <1>4 DEF Affiliations
<1>7. <<"PR", l.writer.societies["PR"]>>[1] = "PR"
  OBVIOUS
<1>. QED BY <1>3, <1>5, <1>6, <1>7

\* What the file of the works says of a work is complete.
LEMMA WorkComplete ==
  ASSUME NEW db, Wellformed(db), NEW w \in WorksFile(db)
  PROVE  CompleteIn(db, w)
<1>1. PICK id \in DOMAIN db.works : w = WorkDict(db, id)
  BY DEF WorksFile
<1>2. PICK work : work = db.works[id]
  OBVIOUS
<1>3. /\ w.facts = WorkFacts(db, id)
      /\ w.recordings = {RecordingOnReleases(db, r) : r \in {r \in DOMAIN db.recordings : db.recordings[r].work = id}}
  BY <1>1 DEF WorkDict
<1>4. /\ w.facts.id = id /\ w.facts.cross_references = CrossReferences(work)
      /\ w.facts.writers = [i \in DOMAIN work.writers |-> LineDict(work.writers[i])]
  BY <1>2, <1>3 DEF WorkFacts
<1>5. /\ work.title \in Seq(Range(work.title)) /\ Dated(work.acks)
      /\ \A i \in DOMAIN work.writers :
           work.writers[i].controlled /\ work.writers[i].writer # Unknown =>
             /\ "PR" \in DOMAIN work.writers[i].writer.societies
             /\ work.writers[i].writer.societies["PR"] # NoValue
  BY <1>1, <1>2 DEF Wellformed, Dated
<1>6. PICK refs : refs = w.facts.cross_references
  OBVIOUS
<1>7. Refer(work, refs)
  BY <1>4, <1>5, <1>6, NewestReferred
<1>8. ASSUME NEW r \in w.recordings
      PROVE  ShownTitle(work, db.recordings[r.facts.id])
               = IF db.recordings[r.facts.id].version # <<>> THEN r.facts.version_title ELSE r.facts.recording_title
  <2>1. PICK k \in DOMAIN db.recordings : db.recordings[k].work = id /\ r = RecordingOnReleases(db, k)
    BY <1>3
  <2>2. r.facts = RecordingFacts(db, k)
    BY <2>1 DEF RecordingOnReleases
  <2>3. /\ r.facts.id = k /\ r.facts.recording_title = WrittenTitle(work, db.recordings[k])
        /\ r.facts.version_title = CompleteVersionTitle(work, db.recordings[k])
    BY <1>2, <2>1, <2>2 DEF RecordingFacts
  <2>4. db.recordings[k].title \in Seq(Range(db.recordings[k].title))
    BY <2>1 DEF Wellformed
  <2>. QED BY <1>5, <2>3, <2>4, TitleIsShown
<1>9. ASSUME NEW l \in Range(w.facts.writers), l.controlled, NEW p \in l.publishers, NEW person \in l.writer
      PROVE  (\E a \in p.publisher.affiliations : a[1] = "PR") /\ \E a \in person.affiliations : a[1] = "PR"
  <2>1. PICK i \in DOMAIN work.writers : l = LineDict(work.writers[i])
    BY <1>4 DEF Range
  <2>2. work.writers[i].controlled
    BY <1>9, <2>1 DEF LineDict
  <2>. QED BY <1>5, <1>9, <2>1, <2>2, LineNamesSocieties
<1>. QED BY <1>2, <1>4, <1>6, <1>7, <1>8, <1>9, Zenon DEF CompleteIn, Refer

\* The tracks of a repertoire: a release, the cut and the recording.
TracksOf(db) ==
  UNION {{<<r, track.cut, track.recording>> : track \in Range(db.releases[r].tracks)} : r \in DOMAIN db.releases}

\* The recordings that the file of the works contains.
LEMMA RecordingsContained ==
  ASSUME NEW db, Wellformed(db)
  PROVE  UNION {w.recordings : w \in WorksFile(db)} = {RecordingOnReleases(db, k) : k \in DOMAIN db.recordings}
<1>1. \A id \in DOMAIN db.works : WorkDict(db, id).recordings =
        {RecordingOnReleases(db, k) : k \in {r \in DOMAIN db.recordings : db.recordings[r].work = id}}
  BY DEF WorkDict
<1>2. ASSUME NEW k \in DOMAIN db.recordings
      PROVE  RecordingOnReleases(db, k) \in UNION {w.recordings : w \in WorksFile(db)}
  <2>1. PICK id \in DOMAIN db.works : db.recordings[k].work = id
    BY DEF Wellformed
  <2>2. RecordingOnReleases(db, k) \in WorkDict(db, id).recordings
    BY <1>1, <2>1
  <2>3. WorkDict(db, id) \in WorksFile(db)
    BY DEF WorksFile
  <2>. QED BY <2>2, <2>3
<1>3. ASSUME NEW w \in WorksFile(db), NEW r \in w.recordings
      PROVE  r \in {RecordingOnReleases(db, k) : k \in DOMAIN db.recordings}
  <2>1. PICK id \in DOMAIN db.works : w = WorkDict(db, id)
    BY DEF WorksFile
  <2>. QED BY <1>1, <1>3, <2>1
<1>. QED BY <1>2, <1>3

\* The file of the works lists the tracks of the repertoire.
LEMMA TracksByWork ==
  ASSUME NEW db, Wellformed(db)
  PROVE  UNION {{<<t.release.id, t.cut_number, r.facts.id>> : t \in r.tracks} :
                  r \in {RecordingOnReleases(db, k) : k \in DOMAIN db.recordings}} = TracksOf(db)
<1>. DEFINE contained == {RecordingOnReleases(db, k) : k \in DOMAIN db.recordings}
            byWork == UNION {{<<t.release.id, t.cut_number, r.facts.id>> : t \in r.tracks} : r \in contained}
<1>1. ASSUME NEW k \in DOMAIN db.recordings
      PROVE  RecordingOnReleases(db, k).facts.id = k /\ RecordingOnReleases(db, k).tracks = RecordingTracks(db, k)
  BY DEF RecordingOnReleases, RecordingFacts
<1>2. \A x \in DOMAIN db.releases : ReleaseDict(db, x).id = x
  BY DEF ReleaseDict
<1>3. ASSUME NEW x \in TracksOf(db) PROVE x \in byWork
  <2>0. PICK r \in DOMAIN db.releases :
          x \in {<<r, track.cut, track.recording>> : track \in Range(db.releases[r].tracks)}
    BY DEF TracksOf
  <2>1. PICK track \in Range(db.releases[r].tracks) : x = <<r, track.cut, track.recording>>
    BY <2>0
  <2>2. PICK k \in DOMAIN db.recordings : track.recording = k
    BY <2>1 DEF Wellformed
  <2>3. PICK t : t = [release |-> ReleaseDict(db, r), cut_number |-> track.cut]
    OBVIOUS
  <2>4. t \in RecordingTracks(db, k)
    BY <2>2, <2>3 DEF RecordingTracks
  <2>5. PICK d \in contained : d = RecordingOnReleases(db, k)
    OBVIOUS
  <2>6. t \in d.tracks /\ x = <<t.release.id, t.cut_number, d.facts.id>>
    BY <1>1, <1>2, <2>1, <2>2, <2>3, <2>4, <2>5
  <2>. QED BY <2>6
<1>4. ASSUME NEW d \in contained, NEW t \in d.tracks
      PROVE  <<t.release.id, t.cut_number, d.facts.id>> \in TracksOf(db)
  <2>1. PICK k \in DOMAIN db.recordings : d = RecordingOnReleases(db, k)
    OBVIOUS
  <2>2. t \in RecordingTracks(db, k)
    BY <1>1, <1>4, <2>1
  <2>5. PICK r \in DOMAIN db.releases :
          t \in {[release |-> ReleaseDict(db, r), cut_number |-> track.cut] :
                   track \in {x \in Range(db.releases[r].tracks) : x.recording = k}}
    BY <2>2 DEF RecordingTracks
  <2>3. PICK track \in Range(db.releases[r].tracks) :
          track.recording = k /\ t = [release |-> ReleaseDict(db, r), cut_number |-> track.cut]
    BY <2>5
  <2>4. <<t.release.id, t.cut_number, d.facts.id>> = <<r, track.cut, track.recording>>
    BY <1>1, <1>2, <2>1, <2>3
  <2>. QED BY <2>4 DEF TracksOf
<1>. QED BY <1>3, <1>4

\* The files of the releases list them as well.
LEMMA TracksByRelease ==
  ASSUME NEW db, Wellformed(db)
  PROVE  UNION {{<<e.facts.id, t.cut_number, t.recording.facts.id>> : t \in e.tracks} :
                  e \in ReleasesFile(db, DOMAIN db.releases)} = TracksOf(db)
<1>. DEFINE backup == ReleasesFile(db, DOMAIN db.releases)
            byRelease == UNION {{<<e.facts.id, t.cut_number, t.recording.facts.id>> : t \in e.tracks} : e \in backup}
<1>1. \A r \in DOMAIN db.releases :
        /\ ReleaseWithTracks(db, r).facts.id = r
        /\ ReleaseWithTracks(db, r).tracks = {TrackDict(db, track) : track \in Range(db.releases[r].tracks)}
  BY DEF ReleaseWithTracks, ReleaseDict
<1>2. \A track : /\ TrackDict(db, track).cut_number = track.cut
                  /\ TrackDict(db, track).recording.facts.id = track.recording
  BY DEF TrackDict, RecordingOfWork, RecordingFacts
<1>3. ASSUME NEW x \in TracksOf(db) PROVE x \in byRelease
  <2>0. PICK r \in DOMAIN db.releases :
          x \in {<<r, track.cut, track.recording>> : track \in Range(db.releases[r].tracks)}
    BY DEF TracksOf
  <2>1. PICK track \in Range(db.releases[r].tracks) : x = <<r, track.cut, track.recording>>
    BY <2>0
  <2>2. PICK e \in backup : e = ReleaseWithTracks(db, r)
    BY DEF ReleasesFile
  <2>3. PICK t \in e.tracks : t = TrackDict(db, track)
    BY <1>1, <2>2
  <2>4. x = <<e.facts.id, t.cut_number, t.recording.facts.id>>
    BY <1>1, <1>2, <2>1, <2>2, <2>3
  <2>. QED BY <2>4
<1>4. ASSUME NEW e \in backup, NEW t \in e.tracks
      PROVE  <<e.facts.id, t.cut_number, t.recording.facts.id>> \in TracksOf(db)
  <2>1. PICK r \in DOMAIN db.releases : e = ReleaseWithTracks(db, r)
    BY DEF ReleasesFile
  <2>2. PICK track \in Range(db.releases[r].tracks) : t = TrackDict(db, track)
    BY <1>1, <1>4, <2>1
  <2>3. <<e.facts.id, t.cut_number, t.recording.facts.id>> = <<r, track.cut, track.recording>>
    BY <1>1, <1>2, <2>1, <2>2
  <2>. QED BY <2>3 DEF TracksOf
<1>. QED BY <1>3, <1>4

\* The kinds of release, by their managers and by the forms they were entered in.
KindOf(db, k) == {r \in DOMAIN db.releases : db.releases[r].kind = k}

\* Each manager has the releases of its form.
LEMMA KindsManaged ==
  ASSUME NEW db, Wellformed(db)
  PROVE  /\ LibraryReleases(db) = KindOf(db, "library") /\ CommercialReleases(db) = KindOf(db, "commercial")
         /\ Playlists(db) = KindOf(db, "playlist")
         /\ DOMAIN db.releases = KindOf(db, "library") \cup KindOf(db, "commercial") \cup KindOf(db, "playlist")
<1>1. \A r \in DOMAIN db.releases :
        /\ db.releases[r].kind \in {"library", "commercial", "playlist"}
        /\ db.releases[r].library # NoValue <=> db.releases[r].kind = "library"
        /\ db.releases[r].cd # NoValue <=> db.releases[r].kind # "commercial"
  BY DEF Wellformed
<1>. QED BY <1>1 DEF KindOf, LibraryReleases, CommercialReleases, Playlists, ReleasesWith

\* A file has its releases, by their keys.
LEMMA FileHasReleases ==
  ASSUME NEW db, NEW S
  PROVE  {r.facts.id : r \in ReleasesFile(db, S)} = S
<1>1. \A id \in S : ReleaseWithTracks(db, id).facts.id = id
  BY DEF ReleaseWithTracks, ReleaseDict
<1>2. ReleasesFile(db, S) = {ReleaseWithTracks(db, id) : id \in S}
  BY DEF ReleasesFile
<1>. QED BY <1>1, <1>2

\* Files together are the file of all their releases.
LEMMA FilesTogether ==
  ASSUME NEW db, NEW S, NEW T, NEW U
  PROVE  ReleasesFile(db, S \cup T \cup U) = ReleasesFile(db, S) \cup ReleasesFile(db, T) \cup ReleasesFile(db, U)
<1>1. \A V : ReleasesFile(db, V) = {ReleaseWithTracks(db, id) : id \in V}
  BY DEF ReleasesFile
<1>. QED BY <1>1

\* What the file of a release says of a recording the file of the works says too, and
\* it says the same of the recording's work.
LEMMA SidesAgree ==
  ASSUME NEW db, Wellformed(db), NEW e \in ReleasesFile(db, DOMAIN db.releases), NEW t \in e.tracks
  PROVE  \E k \in DOMAIN db.recordings :
           /\ t.recording.facts = RecordingFacts(db, k)
           /\ t.recording.works = {WorkFacts(db, db.recordings[k].work)}
           /\ db.recordings[k].work \in DOMAIN db.works
<1>1. PICK r \in DOMAIN db.releases : e = ReleaseWithTracks(db, r)
  BY DEF ReleasesFile
<1>2. PICK track \in Range(db.releases[r].tracks) : t = TrackDict(db, track)
  BY <1>1 DEF ReleaseWithTracks
<1>3. PICK k \in DOMAIN db.recordings : k = track.recording
  BY <1>2 DEF Wellformed
<1>4. t.recording = RecordingOfWork(db, k)
  BY <1>2, <1>3 DEF TrackDict
<1>5. db.recordings[k].work \in DOMAIN db.works
  BY <1>3 DEF Wellformed
<1>. QED BY <1>4, <1>5 DEF RecordingOfWork

\* A playlist is found under its secret as long as its link is shown.
LEMMA PlaylistsServed ==
  ASSUME NEW db, Wellformed(db), NEW today \in Int, NEW s
  PROVE  LET links == {r \in KindOf(db, "playlist") : db.releases[r].cd = s /\ LinkShown(db.releases[r], today)}
         IN  ServedPlaylists(db, s, today) = links /\ ShownPlaylists(db, s, today) = links
<1>1. Playlists(db) = KindOf(db, "playlist")
  BY KindsManaged
<1>2. \A r \in KindOf(db, "playlist") : db.releases[r].date \in Int \cup {NoValue}
  BY DEF Wellformed, KindOf
<1>3. \A r \in KindOf(db, "playlist") :
        LinkShown(db.releases[r], today) <=> db.releases[r].date = NoValue \/ db.releases[r].date >= today
  BY <1>2 DEF LinkShown
<1>4. \A r : LinkShown(db.releases[r], today) <=> ~ (db.releases[r].date # NoValue /\ db.releases[r].date < today)
  BY DEF LinkShown
<1>. QED BY <1>1, <1>3, <1>4 DEF ServedPlaylists, ShownPlaylists

\* What is exported agrees.
LEMMA ExportsAreHonest ==
  ASSUME NEW db \in Repertoires, NEW today \in 1..2, NEW c,
         c = [kind |-> "json", db |-> db, today |-> today, works |-> WorksFile(db),
              libraries |-> ReleasesFile(db, LibraryReleases(db)),
              commercial |-> ReleasesFile(db, CommercialReleases(db)),
              playlists |-> ReleasesFile(db, Playlists(db)),
              backup |-> ReleasesFile(db, DOMAIN db.releases),
              served |-> ServedReleases(db)]
  PROVE  Agreeing(c)
<1>. DEFINE contained == UNION {w.recordings : w \in c.works}
            onRelease == UNION {{t.recording : t \in e.tracks} : e \in c.backup}
<1>1. Wellformed(db)
  BY RepertoiresAssumption DEF RepertoiresAssumption
<1>2. /\ c.db = db /\ c.today = today /\ c.works = WorksFile(db)
      /\ c.libraries = ReleasesFile(db, LibraryReleases(db))
      /\ c.commercial = ReleasesFile(db, CommercialReleases(db))
      /\ c.playlists = ReleasesFile(db, Playlists(db))
      /\ c.backup = ReleasesFile(db, DOMAIN db.releases)
      /\ c.served = ServedReleases(db)
  OBVIOUS
<1>3. /\ {r.facts.id : r \in c.libraries} = KindOf(db, "library")
      /\ {r.facts.id : r \in c.commercial} = KindOf(db, "commercial")
      /\ {r.facts.id : r \in c.playlists} = KindOf(db, "playlist")
  <2>1. /\ {r.facts.id : r \in c.libraries} = LibraryReleases(db)
        /\ {r.facts.id : r \in c.commercial} = CommercialReleases(db)
        /\ {r.facts.id : r \in c.playlists} = Playlists(db)
    BY <1>2, FileHasReleases
  <2>. QED BY <1>1, <2>1, KindsManaged
<1>4. c.backup = c.libraries \cup c.commercial \cup c.playlists
  BY <1>1, <1>2, KindsManaged, FilesTogether
<1>5. contained = {RecordingOnReleases(db, k) : k \in DOMAIN db.recordings}
  BY <1>1, <1>2, RecordingsContained
<1>6. UNION {{<<t.release.id, t.cut_number, r.facts.id>> : t \in r.tracks} : r \in contained}
        = UNION {{<<e.facts.id, t.cut_number, t.recording.facts.id>> : t \in e.tracks} : e \in c.backup}
  <2>1. UNION {{<<t.release.id, t.cut_number, r.facts.id>> : t \in r.tracks} : r \in contained} = TracksOf(db)
    BY <1>1, <1>5, TracksByWork
  <2>2. UNION {{<<e.facts.id, t.cut_number, t.recording.facts.id>> : t \in e.tracks} : e \in c.backup} = TracksOf(db)
    BY <1>1, <1>2, TracksByRelease
  <2>. QED BY <2>1, <2>2
<1>7. ASSUME NEW r \in onRelease
      PROVE  /\ r.facts \in {q.facts : q \in contained}
             /\ \A w \in r.works : \E v \in c.works : w = v.facts /\ r.facts \in {q.facts : q \in v.recordings}
  <2>1. PICK e \in c.backup : r \in {t.recording : t \in e.tracks}
    OBVIOUS
  <2>2. PICK t \in e.tracks : r = t.recording
    BY <2>1
  <2>3. PICK k \in DOMAIN db.recordings :
          /\ r.facts = RecordingFacts(db, k) /\ r.works = {WorkFacts(db, db.recordings[k].work)}
          /\ db.recordings[k].work \in DOMAIN db.works
    BY <1>1, <1>2, <2>2, SidesAgree
  <2>4. PICK q : q = RecordingOnReleases(db, k)
    OBVIOUS
  <2>5. q \in contained /\ q.facts = r.facts
    BY <1>5, <2>3, <2>4 DEF RecordingOnReleases
  <2>6. PICK v : v = WorkDict(db, db.recordings[k].work)
    OBVIOUS
  <2>7. v \in c.works
    BY <1>2, <2>3, <2>6 DEF WorksFile
  <2>8. v.facts = WorkFacts(db, db.recordings[k].work) /\ q \in v.recordings
    BY <2>4, <2>6 DEF WorkDict
  <2>. QED BY <2>3, <2>5, <2>7, <2>8
<1>8. c.served \cap KindOf(db, "playlist") = {}
  BY <1>1, <1>2 DEF ServedReleases, KindOf, Wellformed
<1>9. \A s : /\ ServedPlaylists(db, s, today)
                   = {r \in KindOf(db, "playlist") : db.releases[r].cd = s /\ LinkShown(db.releases[r], today)}
              /\ ShownPlaylists(db, s, today)
                   = {r \in KindOf(db, "playlist") : db.releases[r].cd = s /\ LinkShown(db.releases[r], today)}
  BY <1>1, PlaylistsServed
<1>10. {r.facts : r \in onRelease} \subseteq {q.facts : q \in contained}
  BY <1>7
<1>11. /\ c.db = db /\ c.today = today
  BY <1>2
<1>. QED BY <1>3, <1>4, <1>6, <1>7, <1>8, <1>9, <1>10, <1>11 DEF Agreeing, KindOf

-----------------------------------------------------------------------------
(* The shares a file states.                                               *)

\* The lines of S state a share, or nothing, for every right.
Stating(S) == \A l \in S : l.part \in [Rights -> Int]

\* What a line states.
StatedBy(l, version, right) == IF l.type \in ShareTypes(version) THEN l.part[right] ELSE 0

\* Lines state the sum of what each of them states.
LEMMA StatedSum ==
  ASSUME NEW S, Stating(S), NEW lines \in Seq(S), NEW version, NEW right \in Rights
  PROVE  \E list \in Seq(Int) :
           /\ Len(list) = Len(lines) /\ Stated(lines, version, right) = Added(list)
           /\ \A i \in 1..Len(lines) : list[i] = StatedBy(lines[i], version, right)
<1>1. PICK list : list = [i \in DOMAIN lines |-> IF lines[i].type \in ShareTypes(version) THEN lines[i].part[right] ELSE 0]
  OBVIOUS
<1>2. Stated(lines, version, right) = Added(list)
  BY <1>1, Zenon DEF Stated
<1>3. \A i \in 1..Len(lines) : list[i] = StatedBy(lines[i], version, right)
  BY <1>1 DEF StatedBy
<1>4. \A i \in 1..Len(lines) : list[i] \in Int
  BY <1>3 DEF StatedBy, Stating
<1>5. list \in Seq(Int) /\ Len(list) = Len(lines)
  <2>1. DOMAIN lines = 1..Len(lines) /\ Len(lines) \in Nat
    OBVIOUS
  <2>2. DOMAIN list = 1..Len(lines) /\ list = [i \in DOMAIN list |-> list[i]]
    BY <1>1, <2>1
  <2>. QED BY <1>4, <2>1, <2>2, ListMade
<1>. QED BY <1>2, <1>3, <1>5

\* One line.
LEMMA StatedByOne ==
  ASSUME NEW S, Stating(S), NEW l \in S, NEW version, NEW right \in Rights
  PROVE  Stated(<<l>>, version, right) = StatedBy(l, version, right)
<1>1. <<l>> \in Seq(S) /\ Len(<<l>>) = 1 /\ <<l>>[1] = l
  OBVIOUS
<1>2. PICK list \in Seq(Int) :
        /\ Len(list) = 1 /\ Stated(<<l>>, version, right) = Added(list)
        /\ \A i \in 1..1 : list[i] = StatedBy(<<l>>[i], version, right)
  BY <1>1, StatedSum
<1>3. list[1] = StatedBy(l, version, right) /\ list[1] \in Int
  <2>1. 1 \in 1..1
    OBVIOUS
  <2>2. list[1] = StatedBy(<<l>>[1], version, right)
    BY <1>2, <2>1
  <2>3. \A i \in 1..Len(list) : list[i] \in Int
    OBVIOUS
  <2>4. list[1] \in Int
    BY <1>2, <2>1, <2>3
  <2>. QED BY <1>1, <2>2, <2>4
<1>4. PICK h : h = [k \in 0..1 |-> IF k = 0 THEN 0 ELSE list[1]]
  OBVIOUS
<1>5. h[0] = 0 /\ h[1] = list[1] /\ \A k \in 1..1 : h[k] = h[k - 1] + list[k]
  BY <1>3, <1>4
<1>6. Added(list) = h[1]
  BY <1>2, <1>5, AddedIs
<1>. QED BY <1>2, <1>3, <1>5, <1>6

\* Lines that are of other types state nothing.
LEMMA StatedNothing ==
  ASSUME NEW S, Stating(S), NEW lines \in Seq(S), NEW version, NEW right \in Rights,
         \A l \in S : l.type \notin ShareTypes(version)
  PROVE  Stated(lines, version, right) = 0
<1>1. PICK list \in Seq(Int) :
        /\ Len(list) = Len(lines) /\ Stated(lines, version, right) = Added(list)
        /\ \A i \in 1..Len(lines) : list[i] = StatedBy(lines[i], version, right)
  BY StatedSum
<1>2. \A i \in 1..Len(list) : list[i] = 0
  BY <1>1 DEF StatedBy
<1>. QED BY <1>1, <1>2, ZerosAdded

\* No lines state nothing.
LEMMA StatedByNone ==
  ASSUME NEW version, NEW right \in Rights
  PROVE  Stated(<<>>, version, right) = 0
<1>1. PICK list : list = [i \in DOMAIN <<>> |-> IF <<>>[i].type \in ShareTypes(version) THEN <<>>[i].part[right] ELSE 0]
  OBVIOUS
<1>2. Stated(<<>>, version, right) = Added(list)
  BY <1>1, Zenon DEF Stated
<1>3. list \in Seq(Int) /\ Len(list) = 0
  <2>1. DOMAIN <<>> = 1..0
    OBVIOUS
  <2>2. DOMAIN list = 1..0 /\ list = [i \in DOMAIN list |-> list[i]]
    BY <1>1, <2>1
  <2>. QED BY <2>2, ListMade
<1>4. \A k \in 1..Len(list) : list[k] = 0
  BY <1>3
<1>. QED BY <1>2, <1>3, <1>4, ZerosAdded

\* Lines put together.
LEMMA StatedJoined ==
  ASSUME NEW S, Stating(S), NEW a \in Seq(S), NEW b \in Seq(S), NEW version, NEW right \in Rights
  PROVE  /\ Stated(a \o b, version, right) = Stated(a, version, right) + Stated(b, version, right)
         /\ Stated(a, version, right) \in Int /\ Stated(b, version, right) \in Int
<1>1. PICK v \in Seq(Int) :
        /\ Len(v) = Len(a) /\ Stated(a, version, right) = Added(v)
        /\ \A i \in 1..Len(a) : v[i] = StatedBy(a[i], version, right)
  BY StatedSum
<1>2. PICK w \in Seq(Int) :
        /\ Len(w) = Len(b) /\ Stated(b, version, right) = Added(w)
        /\ \A i \in 1..Len(b) : w[i] = StatedBy(b[i], version, right)
  BY StatedSum
<1>3. a \o b \in Seq(S)
  OBVIOUS
<1>4. PICK u \in Seq(Int) :
        /\ Len(u) = Len(a \o b) /\ Stated(a \o b, version, right) = Added(u)
        /\ \A i \in 1..Len(a \o b) : u[i] = StatedBy((a \o b)[i], version, right)
  BY <1>3, StatedSum
<1>5. PICK m \in Nat, n \in Nat : m = Len(a) /\ n = Len(b) /\ Len(a \o b) = m + n
  OBVIOUS
<1>6. \A i \in 1..(m + n) : (v \o w)[i] = StatedBy((a \o b)[i], version, right)
  <2>1. ASSUME NEW i \in 1..m PROVE (v \o w)[i] = StatedBy((a \o b)[i], version, right)
    BY <1>1, <1>5
  <2>2. ASSUME NEW i \in (m + 1)..(m + n) PROVE (v \o w)[i] = StatedBy((a \o b)[i], version, right)
    <3>1. i - m \in 1..n
      BY <2>2
    <3>2. (v \o w)[i] = w[i - m] /\ (a \o b)[i] = b[i - m]
      BY <1>1, <1>2, <1>5, <3>1
    <3>. QED BY <1>2, <1>5, <3>1, <3>2
  <2>3. \A i \in 1..(m + n) : i \in 1..m \/ i \in (m + 1)..(m + n)
    OBVIOUS
  <2>. QED BY <2>1, <2>2, <2>3
<1>7. v \o w \in Seq(Int) /\ Len(v \o w) = m + n
  <2>1. v \in Seq(Int) /\ w \in Seq(Int)
    BY <1>1, <1>2
  <2>2. Len(v) = m /\ Len(w) = n
    BY <1>1, <1>2, <1>5
  <2>3. v \o w \in Seq(Int)
    BY <2>1
  <2>4. Len(v \o w) = Len(v) + Len(w)
    BY <2>1
  <2>. QED BY <2>2, <2>3, <2>4
<1>8. u = v \o w
  <2>1. PICK x : x = v \o w
    OBVIOUS
  <2>2. x \in Seq(Int) /\ Len(x) = m + n /\ u \in Seq(Int) /\ Len(u) = m + n
    BY <1>4, <1>5, <1>7, <2>1
  <2>3. \A i \in 1..(m + n) : u[i] = x[i]
    BY <1>4, <1>5, <1>6, <2>1
  <2>4. u = x
    BY <2>2, <2>3
  <2>. QED BY <2>1, <2>4
<1>. QED BY <1>1, <1>2, <1>4, <1>8, AddedJoined

\* Lists of lines put together.
LEMMA StatedInTurn ==
  ASSUME NEW S, Stating(S), NEW seqs \in Seq(Seq(S)), NEW version, NEW right \in Rights,
         NEW list, list = [i \in DOMAIN seqs |-> Stated(seqs[i], version, right)]
  PROVE  list \in Seq(Int) /\ Stated(Concat(seqs), version, right) = Added(list)
<1>1. PICK g : PutTogether(S, seqs, g)
  BY JoinedInTurn
<1>2. PICK n \in Nat : n = Len(seqs) /\ DOMAIN seqs = 1..n
  OBVIOUS
<1>3. /\ g \in [0..n -> Seq(S)] /\ g[0] = <<>> /\ g[n] = Concat(seqs)
      /\ \A k \in 1..n : g[k] = g[k - 1] \o seqs[k]
  BY <1>1, <1>2 DEF PutTogether
<1>4. \A k \in 1..n : seqs[k] \in Seq(S) /\ k - 1 \in 0..n /\ k \in 0..n
  BY <1>2
<1>5. \A k \in 1..n : Stated(seqs[k], version, right) \in Int
  BY <1>4, StatedJoined
<1>6. list \in Seq(Int) /\ Len(list) = n /\ \A k \in 1..n : list[k] = Stated(seqs[k], version, right)
  BY <1>2, <1>5
<1>7. PICK h : h = [k \in 0..n |-> Stated(g[k], version, right)]
  OBVIOUS
<1>8. h[0] = 0
  <2>1. Stated(<<>>, version, right) = 0
    BY StatedByNone
  <2>. QED BY <1>3, <1>7, <2>1
<1>9. ASSUME NEW k \in 1..n PROVE h[k] = h[k - 1] + list[k]
  <2>1. g[k] = g[k - 1] \o seqs[k] /\ g[k - 1] \in Seq(S) /\ seqs[k] \in Seq(S)
    BY <1>3, <1>4
  <2>2. Stated(g[k], version, right) = Stated(g[k - 1], version, right) + Stated(seqs[k], version, right)
    BY <2>1, StatedJoined
  <2>. QED BY <1>4, <1>6, <1>7, <2>2
<1>10. Added(list) = h[n]
  BY <1>6, <1>8, <1>9, AddedIs
<1>. QED BY <1>3, <1>6, <1>7, <1>10

Versions == {"21", "22", "30", "31"}

\* What is printed is of the lines, and states what the lines do: the templates that are
\* empty are those of lines that state no share.
LEMMA StatedPrinted ==
  ASSUME NEW S, Stating(S), NEW lines \in Seq(S), NEW version \in Versions, NEW right \in Rights
  PROVE  Stated(Printed(lines, version), version, right) = Stated(lines, version, right)
<1>1. PICK seqs : seqs = [i \in DOMAIN lines |-> If(~ Blank(lines[i], version), <<lines[i]>>)]
  OBVIOUS
<1>2. Printed(lines, version) = Concat(seqs)
  BY <1>1, Zenon DEF Printed, Filtered
<1>3. \A i \in 1..Len(lines) : seqs[i] = IF Blank(lines[i], version) THEN <<>> ELSE <<lines[i]>>
  BY <1>1 DEF If
<1>4. \A i \in 1..Len(lines) : lines[i] \in S /\ seqs[i] \in Seq(S)
  <2>1. \A i \in 1..Len(lines) : lines[i] \in S
    OBVIOUS
  <2>2. \A l \in S : <<>> \in Seq(S) /\ <<l>> \in Seq(S)
    OBVIOUS
  <2>. QED BY <1>3, <2>1, <2>2
<1>5. seqs \in Seq(Seq(S)) /\ Len(seqs) = Len(lines)
  <2>1. DOMAIN lines = 1..Len(lines) /\ Len(lines) \in Nat
    OBVIOUS
  <2>2. DOMAIN seqs = 1..Len(lines) /\ seqs = [i \in DOMAIN seqs |-> seqs[i]]
    BY <1>1, <2>1
  <2>3. PICK T : T = Seq(S)
    OBVIOUS
  <2>4. seqs \in Seq(T) /\ Len(seqs) = Len(lines)
    BY <1>4, <2>1, <2>2, <2>3, ListMade
  <2>. QED BY <2>3, <2>4
<1>6. ASSUME NEW i \in 1..Len(lines)
      PROVE  Stated(seqs[i], version, right) = StatedBy(lines[i], version, right)
  <2>1. CASE Blank(lines[i], version)
    <3>1. lines[i].type \notin ShareTypes(version)
      BY <2>1 DEF Blank, Empty, ShareTypes, Versions
    <3>2. Stated(<<>>, version, right) = 0
      BY StatedByNone
    <3>. QED BY <1>3, <2>1, <3>1, <3>2 DEF StatedBy
  <2>2. CASE ~ Blank(lines[i], version)
    BY <1>3, <1>4, <2>2, StatedByOne
  <2>. QED BY <2>1, <2>2
<1>7. PICK list : list = [i \in DOMAIN seqs |-> Stated(seqs[i], version, right)]
  OBVIOUS
<1>8. list \in Seq(Int) /\ Stated(Concat(seqs), version, right) = Added(list)
  BY <1>5, <1>7, StatedInTurn
<1>9. PICK values \in Seq(Int) :
        /\ Len(values) = Len(lines) /\ Stated(lines, version, right) = Added(values)
        /\ \A i \in 1..Len(lines) : values[i] = StatedBy(lines[i], version, right)
  BY StatedSum
<1>10. Len(list) = Len(lines) /\ \A i \in 1..Len(lines) : list[i] = values[i]
  BY <1>5, <1>6, <1>7, <1>9
<1>11. list = values
  BY <1>8, <1>9, <1>10
<1>. QED BY <1>2, <1>8, <1>9, <1>11

-----------------------------------------------------------------------------
(* The shares of the lines of a form that are picked out.                  *)

Sized(work) ==
  /\ work.writers \in Seq(Range(work.writers))
  /\ \A l \in Lines(work.writers) : l.share \in Int /\ l.controlled \in BOOLEAN

Picked(form, P) == [i \in DOMAIN form |-> IF i \in P THEN form[i].share ELSE 0]
ControlledAt(form) == {i \in DOMAIN form : form[i].controlled}
CopublishedAt(work) == {i \in DOMAIN work.writers : CopublishedLine(work, work.writers[i])}
OfWriter(form, w) == {i \in DOMAIN form : form[i].writer = w}

\* Shares that are picked out are a list of numbers.
LEMMA PickedTyped ==
  ASSUME NEW work, Sized(work), NEW P
  PROVE  /\ Picked(work.writers, P) \in Seq(Int) /\ Len(Picked(work.writers, P)) = Len(work.writers)
         /\ Added(Picked(work.writers, P)) \in Int
<1>0. PICK form : form = work.writers
  OBVIOUS
<1>1. PICK n \in Nat : form = work.writers /\ n = Len(form) /\ DOMAIN form = 1..n
  BY <1>0 DEF Sized
<1>2. \A i \in 1..n : form[i].share \in Int
  BY <1>1 DEF Sized, Lines, Range
<1>3. PICK list : list = Picked(form, P)
  OBVIOUS
<1>4. DOMAIN list = 1..n /\ list = [i \in DOMAIN list |-> list[i]] /\ \A i \in 1..n : list[i] \in Int
  BY <1>1, <1>2, <1>3 DEF Picked
<1>5. list \in Seq(Int) /\ Len(list) = n
  BY <1>4, ListMade
<1>6. \E g : ListAdded(Int, list, g)
  BY <1>5, AddedUp
<1>7. Added(list) \in Int
  <2>1. n \in 0..n
    OBVIOUS
  <2>. QED BY <1>5, <1>6, <2>1 DEF ListAdded
<1>. QED BY <1>1, <1>3, <1>5, <1>7

\* Shares that are picked out apart are added.
LEMMA PickedApart ==
  ASSUME NEW work, Sized(work), NEW P, NEW Q, P \cap Q = {}
  PROVE  Added(Picked(work.writers, P \cup Q)) = Added(Picked(work.writers, P)) + Added(Picked(work.writers, Q))
<1>0. PICK form : form = work.writers
  OBVIOUS
<1>1. PICK n \in Nat : form = work.writers /\ n = Len(form) /\ DOMAIN form = 1..n
  BY <1>0 DEF Sized
<1>2. PICK a, b, c : a = Picked(form, P) /\ b = Picked(form, Q) /\ c = Picked(form, P \cup Q)
  OBVIOUS
<1>3. /\ a \in Seq(Int) /\ Len(a) = n /\ b \in Seq(Int) /\ Len(b) = n /\ c \in Seq(Int) /\ Len(c) = n
  BY <1>1, <1>2, PickedTyped
<1>4. \A i \in 1..n : form[i].share \in Int
  BY <1>1 DEF Sized, Lines, Range
<1>5. \A i \in 1..n : c[i] = a[i] + b[i]
  BY <1>1, <1>2, <1>4 DEF Picked
<1>6. Added(c) = Added(a) + Added(b)
  BY <1>3, <1>5, AddedTogether
<1>. QED BY <1>1, <1>2, <1>6

\* The sums the export computes.
LEMMA SharesArePicked ==
  ASSUME NEW work, Sized(work)
  PROVE  /\ ControlledShare(work) = Added(Picked(work.writers, ControlledAt(work.writers)))
         /\ OtherPublisherShare(work) = Added(Picked(work.writers, CopublishedAt(work)))
         /\ \A w : ShareOfWriter(work, w) = Added(Picked(work.writers, OfWriter(work.writers, w)))
         /\ ManuscriptTotal(work.writers) = Added(Picked(work.writers, DOMAIN work.writers))
<1>1. PICK form : form = work.writers
  OBVIOUS
<1>2. [i \in DOMAIN form |-> IF form[i].controlled THEN form[i].share ELSE 0] = Picked(form, ControlledAt(form))
  BY DEF Picked, ControlledAt
<1>3. [i \in DOMAIN form |-> IF CopublishedLine(work, form[i]) THEN form[i].share ELSE 0]
        = Picked(form, CopublishedAt(work))
  BY <1>1 DEF Picked, CopublishedAt
<1>4. ASSUME NEW w
      PROVE  [i \in DOMAIN form |-> IF form[i].writer = w THEN form[i].share ELSE 0] = Picked(form, OfWriter(form, w))
  BY DEF Picked, OfWriter
<1>5. [i \in DOMAIN form |-> form[i].share] = Picked(form, DOMAIN form)
  BY DEF Picked
<1>6. ControlledShare(work) = Added([i \in DOMAIN form |-> IF form[i].controlled THEN form[i].share ELSE 0])
  BY <1>1, Zenon DEF ControlledShare, Sum
<1>7. OtherPublisherShare(work) = Added([i \in DOMAIN form |-> IF CopublishedLine(work, form[i]) THEN form[i].share ELSE 0])
  BY <1>1, Zenon DEF OtherPublisherShare, Sum
<1>8. \A w : ShareOfWriter(work, w) = Added([i \in DOMAIN form |-> IF form[i].writer = w THEN form[i].share ELSE 0])
  BY <1>1, Zenon DEF ShareOfWriter, Sum
<1>9. ManuscriptTotal(form) = Added([i \in DOMAIN form |-> form[i].share])
  BY Zenon DEF ManuscriptTotal
<1>10. ASSUME NEW w PROVE ShareOfWriter(work, w) = Added(Picked(form, OfWriter(form, w)))
  <2>1. [i \in DOMAIN form |-> IF form[i].writer = w THEN form[i].share ELSE 0] = Picked(form, OfWriter(form, w))
    BY <1>4
  <2>2. ShareOfWriter(work, w) = Added([i \in DOMAIN form |-> IF form[i].writer = w THEN form[i].share ELSE 0])
    BY <1>8, Zenon
  <2>. QED BY <2>1, <2>2, Zenon
<1>. QED BY <1>1, <1>2, <1>3, <1>5, <1>6, <1>7, <1>9, <1>10, Zenon

-----------------------------------------------------------------------------
(* The lines of a registration.                                            *)

\* The lines that are written about a work.
LineOf(work) ==
  [type : Templates3, party : {l.writer : l \in Lines(work.writers)} \cup {Unknown},
   part : [Rights -> Int], publisher : {NoPublisher, 1, 2}]

\* The lines of a work have the fields that a statement of shares is read from.
LEMMA LinesState ==
  ASSUME NEW work
  PROVE  Stating(LineOf(work))
BY DEF Stating, LineOf

\* A part that is rounded is a whole number near the exact one, and nothing of nothing.
LEMMA PercentNear ==
  ASSUME NEW share \in Int, NEW p \in 0..100
  PROVE  /\ Percent(share, p) \in Int
         /\ 100 * Percent(share, p) <= share * p + 50 /\ share * p <= 100 * Percent(share, p) + 50
         /\ share = 0 => Percent(share, p) = 0
<1>1. PICK m \in Int : m = share * p
  OBVIOUS
<1>2. PICK q \in Int : q = (m + 50) \div 100
  OBVIOUS
<1>3. 100 * q <= m + 50 /\ m + 50 < 100 * q + 100
  BY <1>2
<1>4. share = 0 => m = 0
  BY <1>1
<1>5. m = 0 => q = 0
  BY <1>2
<1>6. Percent(share, p) = q
  BY <1>1, <1>2 DEF Percent
<1>. QED BY <1>1, <1>3, <1>4, <1>5, <1>6

\* The parts that lines state are numbers.
LEMMA PartsTyped ==
  ASSUME NEW share \in Int
  PROVE  /\ PublisherPart(share) \in [Rights -> Int] /\ WriterPart(share) \in [Rights -> Int]
         /\ WholePart(share) \in [Rights -> Int] /\ NoPart \in [Rights -> Int]
         /\ \A right \in Rights : /\ PublisherPart(share)[right] = Percent(share, Agreement[right])
                                  /\ WriterPart(share)[right] = Percent(share, 100 - Agreement[right])
                                  /\ WholePart(share)[right] = share
<1>1. \A right \in Rights : Agreement[right] \in 0..100 /\ 100 - Agreement[right] \in 0..100
  BY AgreementAssumption DEF Rights
<1>2. \A right \in Rights : Percent(share, Agreement[right]) \in Int /\ Percent(share, 100 - Agreement[right]) \in Int
  BY <1>1, PercentNear
<1>. QED BY <1>2 DEF PublisherPart, WriterPart, WholePart, NoPart

\* One line of a work.
LEMMA LineMade ==
  ASSUME NEW work, NEW type \in Templates3, NEW party \in {l.writer : l \in Lines(work.writers)} \cup {Unknown},
         NEW part \in [Rights -> Int], NEW publisher \in {NoPublisher, 1, 2}
  PROVE  /\ Line(type, party, part, publisher) \in LineOf(work)
         /\ Line(type, party, part, publisher).type = type /\ Line(type, party, part, publisher).part = part
BY DEF Line, LineOf

\* Whether the lines of S are written or none.
LEMMA IfTyped ==
  ASSUME NEW S, NEW lines \in Seq(S), NEW condition
  PROVE  If(condition, lines) \in Seq(S)
<1>1. <<>> \in Seq(S)
  OBVIOUS
<1>. QED BY <1>1, Zenon DEF If

\* What is stated if lines are written or none.
LEMMA IfStated ==
  ASSUME NEW lines, NEW condition, NEW version, NEW right \in Rights
  PROVE  Stated(If(condition, lines), version, right) = IF condition THEN Stated(lines, version, right) ELSE 0
<1>1. Stated(<<>>, version, right) = 0
  BY StatedByNone
<1>. QED BY <1>1, Zenon DEF If

\* Two lines.
LEMMA StatedByTwo ==
  ASSUME NEW S, Stating(S), NEW k \in S, NEW l \in S, NEW version, NEW right \in Rights
  PROVE  /\ <<k, l>> \in Seq(S)
         /\ Stated(<<k, l>>, version, right) = StatedBy(k, version, right) + StatedBy(l, version, right)
<1>1. PICK pair : pair = <<k, l>>
  OBVIOUS
<1>2. pair \in Seq(S) /\ Len(pair) = 2 /\ pair[1] = k /\ pair[2] = l
  BY <1>1
<1>3. PICK list \in Seq(Int) :
        /\ Len(list) = Len(pair) /\ Stated(pair, version, right) = Added(list)
        /\ \A i \in 1..Len(pair) : list[i] = StatedBy(pair[i], version, right)
  BY <1>2, StatedSum
<1>4. list[1] = StatedBy(k, version, right) /\ list[2] = StatedBy(l, version, right)
  <2>1. 1 \in 1..2 /\ 2 \in 1..2
    OBVIOUS
  <2>. QED BY <1>2, <1>3, <2>1
<1>5. list[1] \in Int /\ list[2] \in Int
  <2>1. \A i \in 1..Len(list) : list[i] \in Int
    OBVIOUS
  <2>2. 1 \in 1..2 /\ 2 \in 1..2 /\ 1..Len(list) = 1..2
    BY <1>2, <1>3
  <2>3. list[1] \in Int
    BY <2>1, <2>2
  <2>4. list[2] \in Int
    BY <2>1, <2>2
  <2>. QED BY <2>3, <2>4
<1>6. PICK x \in Int, y \in Int : x = list[1] /\ y = list[2]
  BY <1>5
<1>7. PICK h : h = [i \in 0..2 |-> IF i = 0 THEN 0 ELSE IF i = 1 THEN x ELSE x + y]
  OBVIOUS
<1>8. h[0] = 0 /\ h[2] = x + y /\ \A i \in 1..2 : h[i] = h[i - 1] + list[i]
  <2>1. h[0] = 0 /\ h[1] = x /\ h[2] = x + y
    BY <1>7
  <2>2. h[1] = h[1 - 1] + list[1] /\ h[2] = h[2 - 1] + list[2]
    BY <1>6, <2>1
  <2>3. \A i \in 1..2 : i = 1 \/ i = 2
    OBVIOUS
  <2>. QED BY <2>1, <2>2, <2>3
<1>9. Added(list) = h[2]
  <2>1. Len(list) = 2
    BY <1>2, <1>3
  <2>. QED BY <1>8, <2>1, AddedIs
<1>. QED BY <1>1, <1>2, <1>3, <1>4, <1>6, <1>8, <1>9

\* The lines of the publisher state its part of the controlled shares.
LEMMA PublisherStates ==
  ASSUME NEW work, Sized(work), NEW version \in Versions, NEW right \in Rights
  PROVE  /\ PublisherLines(work) \in Seq(LineOf(work))
         /\ Stated(PublisherLines(work), version, right) = Percent(ControlledShare(work), Agreement[right])
<1>1. PICK S : S = LineOf(work) /\ Stating(S)
  BY LinesState
<1>2. PICK share \in Int : share = ControlledShare(work)
  BY SharesArePicked, PickedTyped
<1>3. PICK part \in [Rights -> Int] : part = PublisherPart(share) /\ part[right] = Percent(share, Agreement[right])
  BY PartsTyped
<1>4. PICK k \in S, l \in S : /\ k = Line("SPU", Unknown, part, 1) /\ l = Line("SPT", Unknown, part, NoPublisher)
                              /\ k.type = "SPU" /\ l.type = "SPT" /\ k.part = part /\ l.part = part
  BY <1>1, LineMade DEF Templates3, Templates2
<1>5. PICK rest : rest = If(share # 0, <<l>>)
  OBVIOUS
<1>6. <<k>> \in Seq(S) /\ <<l>> \in Seq(S) /\ rest \in Seq(S) /\ <<k>> \o rest \in Seq(S)
  <2>1. <<k>> \in Seq(S) /\ <<l>> \in Seq(S)
    OBVIOUS
  <2>2. rest \in Seq(S)
    BY <1>5, <2>1, IfTyped
  <2>. QED BY <2>1, <2>2
<1>7. PublisherLines(work) = <<k>> \o rest
  BY <1>2, <1>3, <1>4, <1>5, Zenon DEF PublisherLines
<1>8. Stated(<<k>> \o rest, version, right)
        = StatedBy(k, version, right) + (IF share # 0 THEN StatedBy(l, version, right) ELSE 0)
  <2>1. Stated(<<k>> \o rest, version, right) = Stated(<<k>>, version, right) + Stated(rest, version, right)
    BY <1>1, <1>6, StatedJoined
  <2>2. Stated(rest, version, right) = IF share # 0 THEN Stated(<<l>>, version, right) ELSE 0
    BY <1>5, IfStated
  <2>3. /\ Stated(<<k>>, version, right) = StatedBy(k, version, right)
        /\ Stated(<<l>>, version, right) = StatedBy(l, version, right)
    BY <1>1, StatedByOne
  <2>. QED BY <2>1, <2>2, <2>3
<1>9. share = 0 => Percent(share, Agreement[right]) = 0
  BY AgreementAssumption, PercentNear DEF Rights
<1>10. Percent(share, Agreement[right]) \in Int
  BY <1>3
<1>11. /\ StatedBy(k, version, right) = IF version \in {"30", "31"} THEN 0 ELSE Percent(share, Agreement[right])
       /\ StatedBy(l, version, right) = IF version \in {"30", "31"} THEN Percent(share, Agreement[right]) ELSE 0
  BY <1>3, <1>4 DEF StatedBy, ShareTypes, Versions
<1>. QED BY <1>1, <1>2, <1>6, <1>7, <1>8, <1>9, <1>10, <1>11

\* The lines of the other publisher state its part of the shares that are copublished.
LEMMA OtherPublisherStates ==
  ASSUME NEW work, Sized(work), NEW version \in Versions, NEW right \in Rights
  PROVE  /\ OtherPublisherLines(work) \in Seq(LineOf(work))
         /\ Stated(OtherPublisherLines(work), version, right) = Percent(OtherPublisherShare(work), Agreement[right])
<1>1. PICK S : S = LineOf(work) /\ Stating(S)
  BY LinesState
<1>2. PICK share \in Int : share = OtherPublisherShare(work)
  BY SharesArePicked, PickedTyped
<1>3. PICK part \in [Rights -> Int] : part = PublisherPart(share) /\ part[right] = Percent(share, Agreement[right])
  BY PartsTyped
<1>4. PICK k \in S, l \in S : /\ k = Line("OPU", Unknown, part, 2) /\ l = Line("OPT", Unknown, part, NoPublisher)
                              /\ k.type = "OPU" /\ l.type = "OPT" /\ k.part = part /\ l.part = part
  BY <1>1, LineMade DEF Templates3, Templates2
<1>5. /\ <<k, l>> \in Seq(S)
      /\ Stated(<<k, l>>, version, right) = StatedBy(k, version, right) + StatedBy(l, version, right)
  BY <1>1, StatedByTwo
<1>6. OtherPublisherLines(work) = If(share # 0, <<k, l>>)
  BY <1>2, <1>3, <1>4, Zenon DEF OtherPublisherLines
<1>7. If(share # 0, <<k, l>>) \in Seq(S)
  BY <1>5, IfTyped
<1>8. Stated(If(share # 0, <<k, l>>), version, right) = IF share # 0 THEN Stated(<<k, l>>, version, right) ELSE 0
  BY IfStated
<1>9. share = 0 => Percent(share, Agreement[right]) = 0
  BY AgreementAssumption, PercentNear DEF Rights
<1>10. Percent(share, Agreement[right]) \in Int
  BY <1>3
<1>11. /\ StatedBy(k, version, right) = IF version \in {"30", "31"} THEN 0 ELSE Percent(share, Agreement[right])
       /\ StatedBy(l, version, right) = IF version \in {"30", "31"} THEN Percent(share, Agreement[right]) ELSE 0
  BY <1>3, <1>4 DEF StatedBy, ShareTypes, Versions
<1>. QED BY <1>1, <1>2, <1>5, <1>6, <1>7, <1>8, <1>9, <1>10, <1>11

\* Three lists put together, and four.
LEMMA ThreeStated ==
  ASSUME NEW S, Stating(S), NEW a \in Seq(S), NEW b \in Seq(S), NEW c \in Seq(S),
         NEW version, NEW right \in Rights
  PROVE  /\ a \o b \o c \in Seq(S)
         /\ Stated(a \o b \o c, version, right)
              = Stated(a, version, right) + Stated(b, version, right) + Stated(c, version, right)
         /\ Stated(a, version, right) \in Int /\ Stated(b, version, right) \in Int
         /\ Stated(c, version, right) \in Int
<1>0. PICK x : x = a \o b
  OBVIOUS
<1>1. x = a \o b /\ x \in Seq(S)
  BY <1>0
<1>2. /\ Stated(x, version, right) = Stated(a, version, right) + Stated(b, version, right)
      /\ Stated(a, version, right) \in Int /\ Stated(b, version, right) \in Int
  BY <1>1, StatedJoined
<1>3. /\ Stated(x \o c, version, right) = Stated(x, version, right) + Stated(c, version, right)
      /\ Stated(c, version, right) \in Int
  BY <1>1, StatedJoined
<1>4. x \o c \in Seq(S)
  BY <1>1
<1>. QED BY <1>1, <1>2, <1>3, <1>4

\* What four lists state, put together, is the sum of what each states.
LEMMA FourStated ==
  ASSUME NEW S, Stating(S), NEW a \in Seq(S), NEW b \in Seq(S), NEW c \in Seq(S), NEW d \in Seq(S),
         NEW version, NEW right \in Rights
  PROVE  /\ a \o b \o c \o d \in Seq(S)
         /\ Stated(a \o b \o c \o d, version, right)
              = Stated(a, version, right) + Stated(b, version, right) + Stated(c, version, right)
                + Stated(d, version, right)
         /\ Stated(d, version, right) \in Int
<1>1. PICK x : x = a \o b \o c
  OBVIOUS
<1>2. /\ x \in Seq(S)
      /\ Stated(x, version, right)
           = Stated(a, version, right) + Stated(b, version, right) + Stated(c, version, right)
  BY <1>1, ThreeStated
<1>3. /\ Stated(x \o d, version, right) = Stated(x, version, right) + Stated(d, version, right)
      /\ Stated(d, version, right) \in Int
  BY <1>2, StatedJoined
<1>4. x \o d \in Seq(S)
  BY <1>2
<1>. QED BY <1>1, <1>2, <1>3, <1>4

\* The lines of a controlled writer state the writer's part of all the writer's shares.
LEMMA ControlledStates ==
  ASSUME NEW work, Sized(work), NEW version \in Versions, NEW right \in Rights, NEW line \in Lines(work.writers)
  PROVE  /\ LinesOfControlled(work, line, version) \in Seq(LineOf(work))
         /\ Stated(LinesOfControlled(work, line, version), version, right)
              = Percent(ShareOfWriter(work, line.writer), 100 - Agreement[right])
<1>1. PICK S : S = LineOf(work) /\ Stating(S)
  BY LinesState
<1>2. PICK share \in Int : share = ShareOfWriter(work, line.writer)
  BY SharesArePicked, PickedTyped
<1>3. PICK part \in [Rights -> Int] :
        part = WriterPart(share) /\ part[right] = Percent(share, 100 - Agreement[right])
  BY PartsTyped
<1>4. PICK whole \in [Rights -> Int], none \in [Rights -> Int] : whole = WholePart(share) /\ none = NoPart
  BY PartsTyped
<1>5. PICK who : who = line.writer /\ who \in {l.writer : l \in Lines(work.writers)} \cup {Unknown}
  OBVIOUS
<1>6. PICK j \in S, k \in S : /\ j = Line("SWR", who, part, NoPublisher) /\ k = Line("SWT", who, part, NoPublisher)
                              /\ j.type = "SWR" /\ k.type = "SWT" /\ j.part = part /\ k.part = part
  BY <1>1, <1>5, LineMade DEF Templates3, Templates2
<1>7. PICK m, p, q : /\ m = Line("MAN", who, whole, NoPublisher) /\ p = Line("PWR", who, none, 1)
                     /\ q = Line("PWR", who, none, 2)
  OBVIOUS
<1>21. m \in S /\ m.type = "MAN"
  BY <1>1, <1>5, <1>7, LineMade DEF Templates3, Templates2
<1>24. "PWR" \in Templates3 /\ 1 \in {NoPublisher, 1, 2}
  BY DEF Templates3, Templates2
<1>25. "PWR" \in Templates3 /\ 2 \in {NoPublisher, 1, 2}
  BY DEF Templates3, Templates2
<1>22. p \in S /\ p.type = "PWR"
  <2>1. Line("PWR", who, none, 1) \in LineOf(work) /\ Line("PWR", who, none, 1).type = "PWR"
    BY <1>5, <1>24, LineMade
  <2>. QED BY <1>1, <1>7, <2>1
<1>23. q \in S /\ q.type = "PWR"
  <2>1. Line("PWR", who, none, 2) \in LineOf(work) /\ Line("PWR", who, none, 2).type = "PWR"
    BY <1>5, <1>25, LineMade
  <2>. QED BY <1>1, <1>7, <2>1
<1>8. PICK also : also = (/\ version \in {"30", "31"} /\ OtherPublisherShare(work) # 0
                          /\ line.writer \in Copublished(work))
  OBVIOUS
<1>9. PICK a, b, c, d : a = <<j>> /\ b = If(share # 0, <<k, m>>) /\ c = <<p>> /\ d = If(also, <<q>>)
  OBVIOUS
<1>10. LinesOfControlled(work, line, version) = a \o b \o c \o d
  BY <1>2, <1>3, <1>4, <1>5, <1>6, <1>7, <1>8, <1>9, Zenon DEF LinesOfControlled
<1>11. /\ <<k, m>> \in Seq(S)
       /\ Stated(<<k, m>>, version, right) = StatedBy(k, version, right) + StatedBy(m, version, right)
  BY <1>1, <1>21, StatedByTwo
<1>12. a \in Seq(S) /\ b \in Seq(S) /\ c \in Seq(S) /\ d \in Seq(S)
  <2>1. <<j>> \in Seq(S) /\ <<p>> \in Seq(S) /\ <<q>> \in Seq(S)
    BY <1>22, <1>23
  <2>2. If(share # 0, <<k, m>>) \in Seq(S)
    BY <1>11, IfTyped
  <2>3. If(also, <<q>>) \in Seq(S)
    BY <2>1, IfTyped
  <2>. QED BY <1>9, <2>1, <2>2, <2>3
<1>13. /\ a \o b \o c \o d \in Seq(S)
       /\ Stated(a \o b \o c \o d, version, right)
              = Stated(a, version, right) + Stated(b, version, right) + Stated(c, version, right)
                + Stated(d, version, right)
  BY <1>1, <1>12, FourStated
<1>14. /\ StatedBy(j, version, right) = IF version \in {"30", "31"} THEN 0 ELSE part[right]
       /\ StatedBy(k, version, right) = IF version \in {"30", "31"} THEN part[right] ELSE 0
       /\ StatedBy(m, version, right) = 0 /\ StatedBy(p, version, right) = 0 /\ StatedBy(q, version, right) = 0
  BY <1>6, <1>21, <1>22, <1>23 DEF StatedBy, ShareTypes, Versions
<1>15. /\ Stated(a, version, right) = StatedBy(j, version, right)
       /\ Stated(c, version, right) = 0
  <2>1. /\ Stated(<<j>>, version, right) = StatedBy(j, version, right)
        /\ Stated(<<p>>, version, right) = StatedBy(p, version, right)
    BY <1>1, <1>22, <1>23, StatedByOne
  <2>. QED BY <1>9, <1>14, <2>1
<1>16. Stated(d, version, right) = 0
  <2>1. Stated(<<q>>, version, right) = StatedBy(q, version, right)
    BY <1>1, <1>22, <1>23, StatedByOne
  <2>2. Stated(If(also, <<q>>), version, right) = IF also THEN Stated(<<q>>, version, right) ELSE 0
    BY IfStated
  <2>. QED BY <1>9, <1>14, <2>1, <2>2
<1>17. Stated(b, version, right) = IF share # 0 THEN StatedBy(k, version, right) ELSE 0
  <2>1. Stated(If(share # 0, <<k, m>>), version, right) = IF share # 0 THEN Stated(<<k, m>>, version, right) ELSE 0
    BY IfStated
  <2>2. StatedBy(k, version, right) \in Int
    BY <1>3, <1>14
  <2>. QED BY <1>9, <1>11, <1>14, <2>1, <2>2
<1>18. share = 0 => part[right] = 0
  <2>1. 100 - Agreement[right] \in 0..100
    BY AgreementAssumption DEF Rights
  <2>. QED BY <1>3, <2>1, PercentNear
<1>19. part[right] \in Int
  BY <1>3
<1>20. Stated(a \o b \o c \o d, version, right) = part[right]
  BY <1>13, <1>14, <1>15, <1>16, <1>17, <1>18, <1>19
<1>. QED BY <1>1, <1>2, <1>3, <1>10, <1>13, <1>20

\* The lines of another writer state the share of the line.
LEMMA OtherStates ==
  ASSUME NEW work, Sized(work), NEW version \in Versions, NEW right \in Rights, NEW line \in Lines(work.writers)
  PROVE  /\ LinesOfOther(work, line, version) \in Seq(LineOf(work))
         /\ Stated(LinesOfOther(work, line, version), version, right) = line.share
<1>1. PICK S : S = LineOf(work) /\ Stating(S)
  BY LinesState
<1>2. PICK share \in Int : share = line.share
  BY DEF Sized
<1>3. PICK part \in [Rights -> Int] : part = WholePart(share) /\ part[right] = share
  BY PartsTyped
<1>4. PICK none \in [Rights -> Int] : none = NoPart
  BY PartsTyped
<1>5. PICK who : who = line.writer /\ who \in {l.writer : l \in Lines(work.writers)} \cup {Unknown}
  OBVIOUS
<1>6. PICK j \in S, k \in S : /\ j = Line("OWR", who, part, NoPublisher) /\ k = Line("OWT", who, part, NoPublisher)
                              /\ j.type = "OWR" /\ k.type = "OWT" /\ j.part = part /\ k.part = part
  BY <1>1, <1>5, LineMade DEF Templates3, Templates2
<1>7. PICK m, q : m = Line("MAN", who, part, NoPublisher) /\ q = Line("PWR", who, none, 2)
  OBVIOUS
<1>21. m \in S /\ m.type = "MAN"
  BY <1>1, <1>5, <1>7, LineMade DEF Templates3, Templates2
<1>23. "PWR" \in Templates3 /\ 2 \in {NoPublisher, 1, 2}
  BY DEF Templates3, Templates2
<1>22. q \in S /\ q.type = "PWR"
  <2>1. none \in [Rights -> Int] /\ who \in {l.writer : l \in Lines(work.writers)} \cup {Unknown}
    BY <1>4, <1>5
  <2>2. Line("PWR", who, none, 2) \in LineOf(work) /\ Line("PWR", who, none, 2).type = "PWR"
    BY <1>23, <2>1, LineMade
  <2>. QED BY <1>1, <1>7, <2>2
<1>8. PICK also : also = (version \in {"30", "31"} /\ OtherPublisherShare(work) # 0)
  OBVIOUS
<1>9. PICK a, b, d : a = <<j>> /\ b = If(share # 0, <<k, m>>) /\ d = If(also, <<q>>)
  OBVIOUS
<1>10. LinesOfOther(work, line, version) = a \o b \o d
  BY <1>2, <1>3, <1>4, <1>5, <1>6, <1>7, <1>8, <1>9, Zenon DEF LinesOfOther
<1>11. /\ <<k, m>> \in Seq(S)
       /\ Stated(<<k, m>>, version, right) = StatedBy(k, version, right) + StatedBy(m, version, right)
  BY <1>1, <1>21, StatedByTwo
<1>12. a \in Seq(S) /\ b \in Seq(S) /\ d \in Seq(S)
  <2>1. <<j>> \in Seq(S) /\ <<q>> \in Seq(S)
    BY <1>22
  <2>2. If(share # 0, <<k, m>>) \in Seq(S)
    BY <1>11, IfTyped
  <2>3. If(also, <<q>>) \in Seq(S)
    BY <2>1, IfTyped
  <2>. QED BY <1>9, <2>1, <2>2, <2>3
<1>13. /\ a \o b \o d \in Seq(S)
       /\ Stated(a \o b \o d, version, right)
              = Stated(a, version, right) + Stated(b, version, right) + Stated(d, version, right)
  BY <1>1, <1>12, ThreeStated
<1>14. /\ StatedBy(j, version, right) = IF version \in {"30", "31"} THEN 0 ELSE share
       /\ StatedBy(k, version, right) = IF version \in {"30", "31"} THEN share ELSE 0
       /\ StatedBy(m, version, right) = 0 /\ StatedBy(q, version, right) = 0
  BY <1>3, <1>6, <1>21, <1>22 DEF StatedBy, ShareTypes, Versions
<1>15. Stated(a, version, right) = StatedBy(j, version, right)
  <2>1. Stated(<<j>>, version, right) = StatedBy(j, version, right)
    BY <1>1, <1>22, StatedByOne
  <2>. QED BY <1>9, <2>1
<1>16. Stated(d, version, right) = 0
  <2>1. Stated(<<q>>, version, right) = StatedBy(q, version, right)
    BY <1>1, <1>22, StatedByOne
  <2>2. Stated(If(also, <<q>>), version, right) = IF also THEN Stated(<<q>>, version, right) ELSE 0
    BY IfStated
  <2>. QED BY <1>9, <1>14, <2>1, <2>2
<1>17. Stated(b, version, right) = IF share # 0 THEN StatedBy(k, version, right) ELSE 0
  <2>1. Stated(If(share # 0, <<k, m>>), version, right) = IF share # 0 THEN Stated(<<k, m>>, version, right) ELSE 0
    BY IfStated
  <2>2. StatedBy(k, version, right) \in Int
    BY <1>14
  <2>. QED BY <1>9, <1>11, <1>14, <2>1, <2>2
<1>18. Stated(a \o b \o d, version, right) = share
  BY <1>13, <1>14, <1>15, <1>16, <1>17
<1>. QED BY <1>1, <1>2, <1>10, <1>13, <1>18

\* A work as it is registered.
Sound(work) ==
  /\ Sized(work)
  /\ work.recordings \in Seq(Range(work.recordings))
  /\ IsFiniteSet(AlternateTitles(work)) /\ IsFiniteSet(Artists(work)) /\ work.references \in Nat

\* The lines that are about nobody's share.
Remarks == {Plain(type) : type \in {"WRK", "ISR", "WRI", "ALT", "OWK", "PER", "REC", "ORN", "XRF"}}

\* The remarks about a work are among its lines and state no share.
LEMMA RemarksOf ==
  ASSUME NEW work, Sized(work), NEW version
  PROVE  /\ Remarks \subseteq LineOf(work) /\ Stating(Remarks)
         /\ \A l \in Remarks : l.type \notin ShareTypes(version)
<1>1. NoPart \in [Rights -> Int]
  BY PartsTyped
<1>2. ASSUME NEW type \in {"WRK", "ISR", "WRI", "ALT", "OWK", "PER", "REC", "ORN", "XRF"}
      PROVE  Plain(type) \in LineOf(work) /\ Plain(type).type = type
  <2>1. type \in Templates3 /\ NoPublisher \in {NoPublisher, 1, 2}
        /\ Unknown \in {l.writer : l \in Lines(work.writers)} \cup {Unknown}
    BY DEF Templates3, Templates2
  <2>. QED BY <1>1, <2>1, LineMade DEF Plain
<1>3. Remarks \subseteq LineOf(work)
  BY <1>2 DEF Remarks
<1>4. Stating(Remarks)
  BY <1>3, LinesState DEF Stating
<1>5. \A l \in Remarks : l.type \notin ShareTypes(version)
  BY <1>2 DEF Remarks, ShareTypes
<1>. QED BY <1>3, <1>4, <1>5

\* So many lines of a kind.
LEMMA ManyRemarks ==
  ASSUME NEW n \in Nat, NEW l \in Remarks
  PROVE  [i \in 1..n |-> l] \in Seq(Remarks)
OBVIOUS

\* The recordings that are listed.
LEMMA RecordingsTyped ==
  ASSUME NEW work, Sound(work), NEW version
  PROVE  RecordingLines(work, version) \in Seq(Remarks)
<1>1. PICK list, rec : list = work.recordings /\ rec = Plain("REC")
  OBVIOUS
<1>2. PICK n \in Nat : n = Len(list) /\ DOMAIN list = 1..n
  BY <1>1 DEF Sound
<1>3. PICK seqs : seqs = [i \in DOMAIN list |-> If(list[i].dated \/ version \in {"30", "31"}, <<rec>>)]
  OBVIOUS
<1>4. RecordingLines(work, version) = Concat(seqs)
  BY <1>1, <1>3, Zenon DEF RecordingLines
<1>5. rec \in Remarks
  BY <1>1 DEF Remarks
<1>6. PICK T : T = Seq(Remarks)
  OBVIOUS
<1>7. \A i \in 1..n : seqs[i] \in T
  <2>1. <<rec>> \in Seq(Remarks)
    BY <1>5
  <2>2. \A condition : If(condition, <<rec>>) \in Seq(Remarks)
    BY <2>1, IfTyped
  <2>. QED BY <1>2, <1>3, <1>6, <2>2
<1>8. seqs \in Seq(T)
  <2>1. DOMAIN seqs = 1..n /\ seqs = [i \in DOMAIN seqs |-> seqs[i]]
    BY <1>2, <1>3
  <2>. QED BY <1>7, <2>1, ListMade
<1>9. Concat(seqs) \in Seq(Remarks)
  BY <1>6, <1>8, ConcatTyped
<1>. QED BY <1>4, <1>9

\* Titles, artists, recordings and references.
LEMMA OthersTyped ==
  ASSUME NEW work, Sound(work), NEW version
  PROVE  OtherLines(work, version) \in Seq(Remarks)
<1>1. PICK alt, per, xrf : /\ alt = [t \in 1..Cardinality(AlternateTitles(work)) |-> Plain("ALT")]
                           /\ per = [a \in 1..Cardinality(Artists(work)) |-> Plain("PER")]
                           /\ xrf = [x \in 1..work.references |-> Plain("XRF")]
  OBVIOUS
<1>2. /\ Plain("ALT") \in Remarks /\ Plain("PER") \in Remarks /\ Plain("XRF") \in Remarks
      /\ Plain("OWK") \in Remarks /\ Plain("ORN") \in Remarks
  BY DEF Remarks
<1>3. alt \in Seq(Remarks)
  <2>1. Cardinality(AlternateTitles(work)) \in Nat
    BY FS_CardinalityType DEF Sound
  <2>. QED BY <1>1, <1>2, <2>1, ManyRemarks
<1>4. per \in Seq(Remarks)
  <2>1. Cardinality(Artists(work)) \in Nat
    BY FS_CardinalityType DEF Sound
  <2>. QED BY <1>1, <1>2, <2>1, ManyRemarks
<1>5. xrf \in Seq(Remarks)
  BY <1>1, <1>2, ManyRemarks DEF Sound
<1>6. PICK owk, rec, orn : /\ owk = If(work.modification, <<Plain("OWK")>>)
                           /\ rec = RecordingLines(work, version) /\ orn = If(work.library, <<Plain("ORN")>>)
  OBVIOUS
<1>7. rec \in Seq(Remarks)
  BY <1>6, RecordingsTyped
<1>8. owk \in Seq(Remarks) /\ orn \in Seq(Remarks)
  <2>1. <<Plain("OWK")>> \in Seq(Remarks) /\ <<Plain("ORN")>> \in Seq(Remarks)
    BY <1>2
  <2>. QED BY <1>6, <2>1, IfTyped
<1>9. OtherLines(work, version) = alt \o owk \o per \o rec \o orn \o xrf
  BY <1>1, <1>6, Zenon DEF OtherLines
<1>10. \A a, b \in Seq(Remarks) : a \o b \in Seq(Remarks)
  OBVIOUS
<1>11. alt \o owk \o per \in Seq(Remarks)
  BY <1>3, <1>4, <1>8, <1>10
<1>12. alt \o owk \o per \o rec \o orn \in Seq(Remarks)
  BY <1>7, <1>8, <1>10, <1>11
<1>. QED BY <1>5, <1>9, <1>10, <1>12

WritersParts(work, right) ==
  [i \in DOMAIN work.writers |->
     IF work.writers[i].controlled
     THEN Percent(ShareOfWriter(work, work.writers[i].writer), 100 - Agreement[right]) ELSE 0]

\* The lines of the controlled writers.
LEMMA ControlledWritersState ==
  ASSUME NEW work, Sized(work), NEW version \in Versions, NEW right \in Rights
  PROVE  /\ ControlledWriterLines(work, version) \in Seq(LineOf(work))
         /\ Stated(ControlledWriterLines(work, version), version, right) = Added(WritersParts(work, right))
         /\ WritersParts(work, right) \in Seq(Int)
<1>0. PICK form : form = work.writers
  OBVIOUS
<1>1. PICK n \in Nat : form = work.writers /\ n = Len(form) /\ DOMAIN form = 1..n
  BY <1>0 DEF Sized
<1>2. PICK seqs : seqs = [i \in DOMAIN form |-> If(form[i].controlled, LinesOfControlled(work, form[i], version))]
  OBVIOUS
<1>3. ControlledWriterLines(work, version) = Concat(seqs)
  BY <1>1, <1>2, Zenon DEF ControlledWriterLines
<1>4. PICK S : S = LineOf(work) /\ Stating(S)
  BY LinesState
<1>5. \A i \in 1..n : form[i] \in Lines(form)
  BY <1>1 DEF Lines, Range
<1>6. \A i \in 1..n : /\ LinesOfControlled(work, form[i], version) \in Seq(S)
                      /\ Stated(LinesOfControlled(work, form[i], version), version, right)
                           = Percent(ShareOfWriter(work, form[i].writer), 100 - Agreement[right])
  BY <1>1, <1>4, <1>5, ControlledStates
<1>7. \A i \in 1..n : seqs[i] = If(form[i].controlled, LinesOfControlled(work, form[i], version))
  BY <1>1, <1>2
<1>8. \A i \in 1..n : seqs[i] \in Seq(S)
  BY <1>6, <1>7, IfTyped
<1>9. DOMAIN seqs = 1..n /\ seqs = [i \in DOMAIN seqs |-> seqs[i]]
  BY <1>1, <1>2
<1>10. PICK list : list = [i \in DOMAIN seqs |-> Stated(seqs[i], version, right)]
  OBVIOUS
<1>11. /\ Concat(seqs) \in Seq(S) /\ Stated(Concat(seqs), version, right) = Added(list)
       /\ list \in Seq(Int)
  <2>1. seqs \in Seq(Seq(S))
    BY <1>8, <1>9, ListsMade
  <2>2. Concat(seqs) \in Seq(S)
    BY <2>1, ConcatTyped
  <2>3. list \in Seq(Int) /\ Stated(Concat(seqs), version, right) = Added(list)
    BY <1>4, <1>10, <2>1, StatedInTurn
  <2>. QED BY <2>2, <2>3
<1>12. list = WritersParts(work, right)
  <2>1. \A i \in 1..n : Stated(seqs[i], version, right)
                          = IF form[i].controlled
                            THEN Percent(ShareOfWriter(work, form[i].writer), 100 - Agreement[right]) ELSE 0
    BY <1>6, <1>7, IfStated
  <2>. QED BY <1>1, <1>9, <1>10, <2>1 DEF WritersParts
<1>. QED BY <1>3, <1>4, <1>11, <1>12

RestAt(work) == {i \in DOMAIN work.writers :
                   ~ work.writers[i].controlled /\ ~ CopublishedLine(work, work.writers[i])}

\* The lines of the other writers.
LEMMA OtherWritersState ==
  ASSUME NEW work, Sized(work), NEW version \in Versions, NEW right \in Rights
  PROVE  /\ OtherWriterLines(work, version) \in Seq(LineOf(work))
         /\ Stated(OtherWriterLines(work, version), version, right) = Added(Picked(work.writers, RestAt(work)))
<1>0. PICK form : form = work.writers
  OBVIOUS
<1>1. PICK n \in Nat : form = work.writers /\ n = Len(form) /\ DOMAIN form = 1..n
  BY <1>0 DEF Sized
<1>2. PICK seqs : seqs = [i \in DOMAIN form |->
                            If(~ form[i].controlled /\ ~ CopublishedLine(work, form[i]),
                               LinesOfOther(work, form[i], version))]
  OBVIOUS
<1>3. OtherWriterLines(work, version) = Concat(seqs)
  BY <1>1, <1>2, Zenon DEF OtherWriterLines
<1>4. PICK S : S = LineOf(work) /\ Stating(S)
  BY LinesState
<1>5. \A i \in 1..n : form[i] \in Lines(form)
  BY <1>1 DEF Lines, Range
<1>6. \A i \in 1..n : /\ LinesOfOther(work, form[i], version) \in Seq(S)
                      /\ Stated(LinesOfOther(work, form[i], version), version, right) = form[i].share
  BY <1>1, <1>4, <1>5, OtherStates
<1>7. \A i \in 1..n : seqs[i] = If(~ form[i].controlled /\ ~ CopublishedLine(work, form[i]),
                                   LinesOfOther(work, form[i], version))
  BY <1>1, <1>2
<1>8. \A i \in 1..n : seqs[i] \in Seq(S)
  BY <1>6, <1>7, IfTyped
<1>9. DOMAIN seqs = 1..n /\ seqs = [i \in DOMAIN seqs |-> seqs[i]]
  BY <1>1, <1>2
<1>10. PICK list : list = [i \in DOMAIN seqs |-> Stated(seqs[i], version, right)]
  OBVIOUS
<1>11. /\ Concat(seqs) \in Seq(S) /\ Stated(Concat(seqs), version, right) = Added(list)
       /\ list \in Seq(Int)
  <2>1. seqs \in Seq(Seq(S))
    BY <1>8, <1>9, ListsMade
  <2>2. Concat(seqs) \in Seq(S)
    BY <2>1, ConcatTyped
  <2>3. list \in Seq(Int) /\ Stated(Concat(seqs), version, right) = Added(list)
    BY <1>4, <1>10, <2>1, StatedInTurn
  <2>. QED BY <2>2, <2>3
<1>12. list = Picked(form, RestAt(work))
  <2>1. \A i \in 1..n : Stated(seqs[i], version, right) = IF i \in RestAt(work) THEN form[i].share ELSE 0
    <3>1. ASSUME NEW i \in 1..n
          PROVE  Stated(seqs[i], version, right) = IF i \in RestAt(work) THEN form[i].share ELSE 0
      <4>1. i \in RestAt(work) <=> ~ form[i].controlled /\ ~ CopublishedLine(work, form[i])
        BY <1>1 DEF RestAt
      <4>2. Stated(seqs[i], version, right) = IF ~ form[i].controlled /\ ~ CopublishedLine(work, form[i])
                                              THEN Stated(LinesOfOther(work, form[i], version), version, right) ELSE 0
        <5>1. PICK other : other = (~ form[i].controlled /\ ~ CopublishedLine(work, form[i]))
          OBVIOUS
        <5>2. Stated(If(other, LinesOfOther(work, form[i], version)), version, right)
                = IF other THEN Stated(LinesOfOther(work, form[i], version), version, right) ELSE 0
          BY IfStated
        <5>. QED BY <1>7, <5>1, <5>2
      <4>. QED BY <1>6, <4>1, <4>2
    <3>. QED BY <3>1
  <2>2. list = [i \in 1..n |-> IF i \in RestAt(work) THEN form[i].share ELSE 0]
    BY <1>9, <1>10, <2>1
  <2>. QED BY <1>1, <2>2 DEF Picked
<1>. QED BY <1>1, <1>3, <1>4, <1>11, <1>12

\* What the parties of a registration state.
LEMMA PartiesState ==
  ASSUME NEW work, Sized(work), NEW version \in Versions, NEW right \in Rights
  PROVE  /\ PartyLines(work, version) \in Seq(LineOf(work))
         /\ Stated(PartyLines(work, version), version, right)
              = Percent(ControlledShare(work), Agreement[right])
                + Percent(OtherPublisherShare(work), Agreement[right])
                + Added(WritersParts(work, right)) + Added(Picked(work.writers, RestAt(work)))
<1>1. PICK S : S = LineOf(work) /\ Stating(S)
  BY LinesState
<1>3. PICK a, b, c, d : /\ a = PublisherLines(work) /\ b = OtherPublisherLines(work)
                        /\ c = ControlledWriterLines(work, version) /\ d = OtherWriterLines(work, version)
  OBVIOUS
<1>4. a \in Seq(S) /\ Stated(a, version, right) = Percent(ControlledShare(work), Agreement[right])
  BY <1>1, <1>3, PublisherStates
<1>5. b \in Seq(S) /\ Stated(b, version, right) = Percent(OtherPublisherShare(work), Agreement[right])
  BY <1>1, <1>3, OtherPublisherStates
<1>6. c \in Seq(S) /\ Stated(c, version, right) = Added(WritersParts(work, right))
  BY <1>1, <1>3, ControlledWritersState
<1>7. d \in Seq(S) /\ Stated(d, version, right) = Added(Picked(work.writers, RestAt(work)))
  BY <1>1, <1>3, OtherWritersState
<1>8. PartyLines(work, version) = a \o b \o c \o d
  BY <1>3, Zenon DEF PartyLines
<1>9. /\ a \o b \o c \o d \in Seq(S)
      /\ Stated(a \o b \o c \o d, version, right)
           = Stated(a, version, right) + Stated(b, version, right) + Stated(c, version, right)
             + Stated(d, version, right)
  BY <1>1, <1>4, <1>5, <1>6, <1>7, FourStated
<1>. QED BY <1>1, <1>4, <1>5, <1>6, <1>7, <1>8, <1>9

\* What a registration states.
LEMMA RegistrationStates ==
  ASSUME NEW work, Sound(work), NEW version \in Versions, NEW right \in Rights
  PROVE  /\ RegistrationLines(work, version) \in Seq(LineOf(work))
         /\ Stated(RegistrationLines(work, version), version, right)
              = Percent(ControlledShare(work), Agreement[right])
                + Percent(OtherPublisherShare(work), Agreement[right])
                + Added(WritersParts(work, right)) + Added(Picked(work.writers, RestAt(work)))
<1>1. PICK S : S = LineOf(work) /\ Stating(S)
  BY LinesState
<1>2. Sized(work)
  BY DEF Sound
<1>8. PICK party : party = PartyLines(work, version)
  OBVIOUS
<1>9. /\ party \in Seq(S)
      /\ Stated(party, version, right)
              = Percent(ControlledShare(work), Agreement[right])
                + Percent(OtherPublisherShare(work), Agreement[right])
                + Added(WritersParts(work, right)) + Added(Picked(work.writers, RestAt(work)))
  BY <1>1, <1>2, <1>8, PartiesState
<1>10. PICK head, tail : head = <<Plain("WRK")>> /\ tail = OtherLines(work, version)
  OBVIOUS
<1>11. /\ Remarks \subseteq S /\ Stating(Remarks)
       /\ \A l \in Remarks : l.type \notin ShareTypes(version)
  BY <1>1, <1>2, RemarksOf
<1>12. head \in Seq(Remarks) /\ tail \in Seq(Remarks)
  <2>1. Plain("WRK") \in Remarks
    BY DEF Remarks
  <2>2. <<Plain("WRK")>> \in Seq(Remarks)
    BY <2>1
  <2>. QED BY <1>10, <2>2, OthersTyped
<1>13. Stated(head, version, right) = 0 /\ Stated(tail, version, right) = 0
  BY <1>11, <1>12, StatedNothing
<1>14. head \in Seq(S) /\ tail \in Seq(S)
  BY <1>11, <1>12
<1>15. /\ head \o party \o tail \in Seq(S)
       /\ Stated(head \o party \o tail, version, right)
            = Stated(head, version, right) + Stated(party, version, right) + Stated(tail, version, right)
       /\ Stated(party, version, right) \in Int
  BY <1>1, <1>9, <1>14, ThreeStated
<1>16. RegistrationLines(work, version) = head \o party \o tail
  BY <1>8, <1>10, Zenon DEF RegistrationLines
<1>. QED BY <1>1, <1>9, <1>13, <1>15, <1>16

\* The lines of the writers whose controlled line is one of the first k, and those lines.
WrittenBy(form, k) == {i \in DOMAIN form : \E j \in 1..k : form[j].controlled /\ form[i].writer = form[j].writer}
ControlledTo(form, k) == {j \in 1..k : form[j].controlled}

\* A rounded part is near the exact one.
Nearly(share, p) ==
  /\ Percent(share, p) \in Int
  /\ 100 * Percent(share, p) <= share * p + 50 /\ share * p <= 100 * Percent(share, p) + 50

\* The percentage of a share is near the exact part.
LEMMA PercentNearly ==
  ASSUME NEW share \in Int, NEW p \in 0..100
  PROVE  Nearly(share, p)
BY PercentNear DEF Nearly

\* With one more rounded part a sum is as near, but for the rounding of that part.
LEMMA NearlyMore ==
  ASSUME NEW g \in Int, NEW q \in Int, NEW x \in Int, NEW y \in Int, NEW m \in Int,
         100 * g <= x + 50 * m, x <= 100 * g + 50 * m, 100 * q <= y + 50, y <= 100 * q + 50
  PROVE  100 * (g + q) <= (x + y) + 50 * (m + 1) /\ x + y <= 100 * (g + q) + 50 * (m + 1)
OBVIOUS

\* The lines up to the next one: a line that is not controlled adds no writer to those
\* written, a controlled one adds its writer.
LEMMA NextWritten ==
  ASSUME NEW form, NEW n \in Nat, DOMAIN form = 1..n, ControlledOnce(form), NEW k \in 0..n, k < n
  PROVE  /\ ~ form[k + 1].controlled => /\ WrittenBy(form, k + 1) = WrittenBy(form, k)
                                        /\ ControlledTo(form, k + 1) = ControlledTo(form, k)
         /\ form[k + 1].controlled =>
              /\ WrittenBy(form, k + 1) = WrittenBy(form, k) \cup OfWriter(form, form[k + 1].writer)
              /\ WrittenBy(form, k) \cap OfWriter(form, form[k + 1].writer) = {}
              /\ ControlledTo(form, k + 1) = ControlledTo(form, k) \cup {k + 1}
              /\ k + 1 \notin ControlledTo(form, k)
<1>1. /\ k + 1 \in 1..n /\ k + 1 \notin 1..k /\ 1..k \subseteq 1..n
      /\ \A j : j \in 1..(k + 1) <=> j \in 1..k \/ j = k + 1
  OBVIOUS
<1>2. CASE ~ form[k + 1].controlled
  <2>1. WrittenBy(form, k + 1) = WrittenBy(form, k)
    BY <1>1, <1>2, Zenon DEF WrittenBy
  <2>2. ControlledTo(form, k + 1) = ControlledTo(form, k)
    BY <1>1, <1>2, Zenon DEF ControlledTo
  <2>. QED BY <1>2, <2>1, <2>2
<1>3. CASE form[k + 1].controlled
  <2>1. WrittenBy(form, k + 1) = WrittenBy(form, k) \cup OfWriter(form, form[k + 1].writer)
    BY <1>1, <1>3 DEF WrittenBy, OfWriter
  <2>2. ASSUME NEW i \in WrittenBy(form, k), i \in OfWriter(form, form[k + 1].writer)
        PROVE  FALSE
    <3>1. PICK j \in 1..k : form[j].controlled /\ form[i].writer = form[j].writer
      BY DEF WrittenBy
    <3>2. form[i].writer = form[k + 1].writer
      BY <2>2 DEF OfWriter
    <3>3. j \in DOMAIN form /\ k + 1 \in DOMAIN form /\ j # k + 1
      BY <1>1
    <3>. QED BY <1>3, <3>1, <3>2, <3>3 DEF ControlledOnce
  <2>3. ControlledTo(form, k + 1) = ControlledTo(form, k) \cup {k + 1}
    BY <1>1, <1>3 DEF ControlledTo
  <2>4. k + 1 \notin ControlledTo(form, k)
    BY <1>1 DEF ControlledTo
  <2>. QED BY <1>3, <2>1, <2>2, <2>3, <2>4
<1>. QED BY <1>2, <1>3

\* The parts of the controlled writers are near the exact ones.
LEMMA WritersNear ==
  ASSUME NEW work, Sized(work), ControlledOnce(work.writers), NEW right \in Rights
  PROVE  /\ Cardinality(ControlledAt(work.writers)) \in Nat
         /\ 100 * Added(WritersParts(work, right))
              <= (100 - Agreement[right]) * (ControlledShare(work) + OtherPublisherShare(work))
                 + 50 * Cardinality(ControlledAt(work.writers))
         /\ (100 - Agreement[right]) * (ControlledShare(work) + OtherPublisherShare(work))
              <= 100 * Added(WritersParts(work, right)) + 50 * Cardinality(ControlledAt(work.writers))
         /\ Added(WritersParts(work, right)) \in Int
<1>0. PICK form : form = work.writers
  OBVIOUS
<1>1. PICK n \in Nat : form = work.writers /\ n = Len(form) /\ DOMAIN form = 1..n
  BY <1>0 DEF Sized
<1>2. PICK p \in 0..100 : p = 100 - Agreement[right]
  BY AgreementAssumption DEF Rights
<1>3. PICK list \in Seq(Int) : list = WritersParts(work, right) /\ Len(list) = n
  <2>1. \A w : ShareOfWriter(work, w) \in Int
    BY SharesArePicked, PickedTyped
  <2>2. \A w : Percent(ShareOfWriter(work, w), p) \in Int
    BY <2>1, PercentNear
  <2>3. PICK parts : parts = WritersParts(work, right)
    OBVIOUS
  <2>4. DOMAIN parts = 1..n /\ parts = [i \in DOMAIN parts |-> parts[i]] /\ \A i \in 1..n : parts[i] \in Int
    BY <1>1, <1>2, <2>2, <2>3 DEF WritersParts
  <2>5. parts \in Seq(Int) /\ Len(parts) = n
    BY <2>4, ListMade
  <2>. QED BY <2>3, <2>5
<1>4. \A k \in 1..n : list[k] = IF form[k].controlled THEN Percent(ShareOfWriter(work, form[k].writer), p) ELSE 0
  BY <1>1, <1>2, <1>3 DEF WritersParts
<1>5. PICK g : ListAdded(Int, list, g)
  BY AddedUp
<1>6. g \in [0..n -> Int] /\ g[0] = 0 /\ g[n] = Added(list) /\ \A k \in 1..n : g[k] = g[k - 1] + list[k]
  BY <1>3, <1>5 DEF ListAdded
<1>7. PICK X : X = [k \in 0..n |-> Added(Picked(form, WrittenBy(form, k)))]
  OBVIOUS
<1>8. \A k \in 0..n : X[k] \in Int
  BY <1>1, <1>7, PickedTyped
<1>9. PICK N : N = [k \in 0..n |-> Cardinality(ControlledTo(form, k))]
  OBVIOUS
<1>10. PICK K : K = {k \in 0..n : /\ IsFiniteSet(ControlledTo(form, k)) /\ N[k] \in Nat
                                  /\ 100 * g[k] <= p * X[k] + 50 * N[k]
                                  /\ p * X[k] <= 100 * g[k] + 50 * N[k]}
  OBVIOUS
<1>11. 0 \in K
  <2>1. ControlledTo(form, 0) = {} /\ WrittenBy(form, 0) = {} /\ 0 \in 0..n
    BY DEF ControlledTo, WrittenBy
  <2>2. IsFiniteSet(ControlledTo(form, 0)) /\ N[0] = 0
    BY <1>9, <2>1, FS_EmptySet
  <2>3. X[0] = 0
    <3>1. PICK none : none = Picked(form, {})
      OBVIOUS
    <3>2. none \in Seq(Int) /\ Len(none) = n
      BY <1>1, <3>1, PickedTyped
    <3>3. \A k \in 1..Len(none) : none[k] = 0
      BY <1>1, <3>1, <3>2 DEF Picked
    <3>4. Added(none) = 0
      BY <3>2, <3>3, ZerosAdded
    <3>. QED BY <1>7, <2>1, <3>1, <3>4
  <2>. QED BY <1>6, <1>10, <2>1, <2>2, <2>3
<1>12. ASSUME NEW k \in 0..n, k \in K, k < n PROVE k + 1 \in K
  <2>1. k + 1 \in 1..n /\ (k + 1) - 1 = k /\ k + 1 \in 0..n
    BY <1>12
  <2>2. /\ IsFiniteSet(ControlledTo(form, k)) /\ N[k] \in Nat
        /\ 100 * g[k] <= p * X[k] + 50 * N[k] /\ p * X[k] <= 100 * g[k] + 50 * N[k]
    BY <1>10, <1>12
  <2>3. g[k + 1] = g[k] + list[k + 1] /\ g[k] \in Int /\ X[k] \in Int
    BY <1>6, <1>8, <2>1
  <2>4. CASE ~ form[k + 1].controlled
    <3>1. WrittenBy(form, k + 1) = WrittenBy(form, k) /\ ControlledTo(form, k + 1) = ControlledTo(form, k)
      BY <1>1, <1>12, <2>4, NextWritten
    <3>2. N[k + 1] = N[k] /\ X[k + 1] = X[k]
      BY <1>7, <1>9, <2>1, <3>1
    <3>3. list[k + 1] = 0
      BY <1>4, <2>1, <2>4
    <3>4. g[k + 1] = g[k]
      BY <2>3, <3>3
    <3>. QED BY <1>10, <2>1, <2>2, <3>1, <3>2, <3>4
  <2>5. CASE form[k + 1].controlled
    <3>1. /\ WrittenBy(form, k + 1) = WrittenBy(form, k) \cup OfWriter(form, form[k + 1].writer)
          /\ WrittenBy(form, k) \cap OfWriter(form, form[k + 1].writer) = {}
          /\ ControlledTo(form, k + 1) = ControlledTo(form, k) \cup {k + 1}
          /\ k + 1 \notin ControlledTo(form, k)
      BY <1>1, <1>12, <2>5, NextWritten
    <3>2. IsFiniteSet(ControlledTo(form, k + 1)) /\ N[k + 1] = N[k] + 1
      BY <1>9, <2>1, <2>2, <3>1, FS_AddElement
    <3>3. PICK s : s = ShareOfWriter(work, form[k + 1].writer)
      OBVIOUS
    <3>4. s = Added(Picked(form, OfWriter(form, form[k + 1].writer))) /\ s \in Int
      <4>1. s = Added(Picked(form, OfWriter(form, form[k + 1].writer)))
        BY <1>1, <3>3, SharesArePicked
      <4>2. Added(Picked(form, OfWriter(form, form[k + 1].writer))) \in Int
        BY <1>1, PickedTyped
      <4>. QED BY <4>1, <4>2
    <3>5. X[k + 1] = X[k] + s
      BY <1>1, <1>7, <2>1, <3>1, <3>4, PickedApart
    <3>6. list[k + 1] = Percent(s, p)
      BY <1>4, <2>1, <2>5, <3>3
    <3>7. PICK q : q = Percent(s, p)
      OBVIOUS
    <3>8. PICK x : x = p * X[k]
      OBVIOUS
    <3>12. PICK y : y = s * p
      OBVIOUS
    <3>13. q \in Int /\ 100 * q <= y + 50 /\ y <= 100 * q + 50
      <4>1. Nearly(s, p)
        BY <3>4, PercentNearly
      <4>. QED BY <3>7, <3>12, <4>1 DEF Nearly
    <3>14. x \in Int /\ y \in Int
      BY <2>3, <3>4, <3>8, <3>12
    <3>9. p * X[k + 1] = x + y
      BY <2>3, <3>4, <3>5, <3>8, <3>12
    <3>15. 100 * g[k] <= x + 50 * N[k] /\ x <= 100 * g[k] + 50 * N[k]
      BY <2>2, <3>8
    <3>10. g[k + 1] = g[k] + q
      BY <2>3, <3>6, <3>7
    <3>11. /\ 100 * g[k + 1] <= p * X[k + 1] + 50 * N[k + 1]
           /\ p * X[k + 1] <= 100 * g[k + 1] + 50 * N[k + 1]
      <4>1. PICK u : u = p * X[k + 1]
        OBVIOUS
      <4>2. u = x + y
        BY <3>9, <4>1
      <4>3. 100 * g[k + 1] <= u + 50 * N[k + 1] /\ u <= 100 * g[k + 1] + 50 * N[k + 1]
        <5>1. N[k] \in Int /\ g[k] \in Int
          BY <2>2, <2>3
        <5>2. /\ 100 * (g[k] + q) <= (x + y) + 50 * (N[k] + 1)
              /\ x + y <= 100 * (g[k] + q) + 50 * (N[k] + 1)
          BY <3>13, <3>14, <3>15, <5>1, NearlyMore
        <5>. QED BY <3>2, <3>10, <4>2, <5>2
      <4>. QED BY <4>1, <4>3
    <3>. QED BY <1>10, <2>1, <2>2, <3>2, <3>11
  <2>. QED BY <2>4, <2>5
<1>13. n \in K
  BY <1>11, <1>12, UpTo
<1>14. ControlledTo(form, n) = ControlledAt(form)
  BY <1>1 DEF ControlledTo, ControlledAt
<1>15. WrittenBy(form, n) = ControlledAt(form) \cup CopublishedAt(work)
  <2>1. \A w : w \in ControlledWriters(work) <=> \E j \in 1..n : form[j].controlled /\ w = form[j].writer
    BY <1>1 DEF ControlledWriters, Lines, Range
  <2>2. \A i \in DOMAIN form : i \in WrittenBy(form, n) <=> form[i].writer \in ControlledWriters(work)
    BY <2>1 DEF WrittenBy
  <2>3. \A i \in DOMAIN form : i \in CopublishedAt(work)
                                 <=> ~ form[i].controlled /\ form[i].writer \in ControlledWriters(work)
    BY <1>1 DEF CopublishedAt, CopublishedLine
  <2>4. \A i \in DOMAIN form : form[i].controlled => form[i].writer \in ControlledWriters(work)
    BY <1>1, <2>1
  <2>5. WrittenBy(form, n) \subseteq DOMAIN form /\ CopublishedAt(work) \subseteq DOMAIN form
    BY <1>1 DEF WrittenBy, CopublishedAt
  <2>. QED BY <2>2, <2>3, <2>4, <2>5 DEF ControlledAt
<1>16. X[n] = ControlledShare(work) + OtherPublisherShare(work)
  <2>1. ControlledAt(form) \cap CopublishedAt(work) = {}
    BY <1>1 DEF ControlledAt, CopublishedAt, CopublishedLine
  <2>2. Added(Picked(form, ControlledAt(form) \cup CopublishedAt(work)))
          = Added(Picked(form, ControlledAt(form))) + Added(Picked(form, CopublishedAt(work)))
    BY <1>1, <2>1, PickedApart
  <2>3. n \in 0..n
    OBVIOUS
  <2>. QED BY <1>1, <1>7, <1>15, <2>2, <2>3, SharesArePicked
<1>17. /\ N[n] \in Nat /\ 100 * g[n] <= p * X[n] + 50 * N[n] /\ p * X[n] <= 100 * g[n] + 50 * N[n]
       /\ n \in 0..n /\ g[n] \in Int
  BY <1>6, <1>10, <1>13
<1>18. N[n] = Cardinality(ControlledAt(form))
  BY <1>9, <1>14, <1>17
<1>. QED BY <1>1, <1>2, <1>3, <1>6, <1>16, <1>17, <1>18

CoveredAt(work) == ControlledAt(work.writers) \cup CopublishedAt(work)

\* Every line is controlled, copublished or another's.
LEMMA SharesDivided ==
  ASSUME NEW work, Sized(work)
  PROVE  ManuscriptTotal(work.writers)
           = ControlledShare(work) + OtherPublisherShare(work) + Added(Picked(work.writers, RestAt(work)))
<1>1. ControlledAt(work.writers) \cap CopublishedAt(work) = {}
  BY DEF ControlledAt, CopublishedAt, CopublishedLine
<1>2. Added(Picked(work.writers, CoveredAt(work)))
        = Added(Picked(work.writers, ControlledAt(work.writers))) + Added(Picked(work.writers, CopublishedAt(work)))
  BY <1>1, PickedApart DEF CoveredAt
<1>3. CoveredAt(work) \cap RestAt(work) = {}
  BY DEF CoveredAt, ControlledAt, CopublishedAt, RestAt, CopublishedLine
<1>4. CoveredAt(work) \cup RestAt(work) = DOMAIN work.writers
  BY DEF CoveredAt, ControlledAt, CopublishedAt, RestAt, CopublishedLine
<1>5. Added(Picked(work.writers, CoveredAt(work) \cup RestAt(work)))
        = Added(Picked(work.writers, CoveredAt(work))) + Added(Picked(work.writers, RestAt(work)))
  BY <1>3, PickedApart
<1>6. /\ ControlledShare(work) = Added(Picked(work.writers, ControlledAt(work.writers)))
      /\ OtherPublisherShare(work) = Added(Picked(work.writers, CopublishedAt(work)))
      /\ ManuscriptTotal(work.writers) = Added(Picked(work.writers, DOMAIN work.writers))
  BY SharesArePicked
<1>. QED BY <1>2, <1>4, <1>5, <1>6

\* The shares a registration states are the whole, but for the rounding.
LEMMA WholeIsStated ==
  ASSUME NEW work, Sound(work), TotalIsWhole(work.writers), ControlledOnce(work.writers),
         NEW version \in Versions, NEW right \in Rights
  PROVE  2 * Magnitude(Stated(RegistrationLines(work, version), version, right) - 10000)
           <= Cardinality(ControlledAt(work.writers)) + 4
<1>1. Sized(work)
  BY DEF Sound
<1>2. PICK form : form = work.writers
  OBVIOUS
<1>3. PICK C \in Int, O \in Int, R \in Int :
        C = ControlledShare(work) /\ O = OtherPublisherShare(work) /\ R = Added(Picked(form, RestAt(work)))
  BY <1>1, <1>2, SharesArePicked, PickedTyped
<1>4. PICK total \in 9999..10001 : total = ManuscriptTotal(form)
  BY <1>2 DEF TotalIsWhole
<1>5. total = C + O + R
  BY <1>1, <1>2, <1>3, <1>4, SharesDivided
<1>6. PICK A \in 0..100 : A = Agreement[right]
  BY AgreementAssumption DEF Rights
<1>7. PICK W \in Int, N \in Nat :
        /\ W = Added(WritersParts(work, right)) /\ N = Cardinality(ControlledAt(form))
        /\ 100 * W <= (100 - A) * (C + O) + 50 * N /\ (100 - A) * (C + O) <= 100 * W + 50 * N
  BY <1>1, <1>2, <1>3, <1>6, WritersNear
<1>8. PICK c : c = Percent(C, A)
  OBVIOUS
<1>9. PICK o : o = Percent(O, A)
  OBVIOUS
<1>10. PICK x \in Int : x = C * A
  OBVIOUS
<1>16. PICK y \in Int : y = O * A
  OBVIOUS
<1>17. c \in Int /\ 100 * c <= x + 50 /\ x <= 100 * c + 50
  <2>1. Nearly(C, A)
    BY PercentNearly
  <2>. QED BY <1>8, <1>10, <2>1 DEF Nearly
<1>18. o \in Int /\ 100 * o <= y + 50 /\ y <= 100 * o + 50
  <2>1. Nearly(O, A)
    BY PercentNearly
  <2>. QED BY <1>9, <1>16, <2>1 DEF Nearly
<1>11. (100 - A) * (C + O) = 100 * C + 100 * O - x - y
  BY <1>10, <1>16
<1>19. /\ 100 * W <= 100 * C + 100 * O - x - y + 50 * N
       /\ 100 * C + 100 * O - x - y <= 100 * W + 50 * N
  BY <1>7, <1>11
<1>12. PICK t : t = Stated(RegistrationLines(work, version), version, right)
  OBVIOUS
<1>13. t = c + o + W + R
  BY <1>2, <1>3, <1>6, <1>7, <1>8, <1>9, <1>12, RegistrationStates
<1>14. 2 * (t - 10000) <= N + 4 /\ 2 * (10000 - t) <= N + 4
  BY <1>4, <1>5, <1>13, <1>17, <1>18, <1>19
<1>15. t \in Int
  BY <1>13, <1>17, <1>18
<1>. QED BY <1>2, <1>7, <1>12, <1>14, <1>15 DEF Magnitude

\* What every version registers for the works the form accepted.
LEMMA SharesAreWhole ==
  ASSUME NEW c, DOMAIN c.works = 1..Len(c.works), c.type \in FileTypes,
         \A t \in DOMAIN c.works : Sound(c.works[t]) /\ TotalIsWhole(c.works[t].writers)
  PROVE  SharesWhole(c)
<1>1. PICK version : version = Version(c.type) /\ version \in Versions
  BY DEF Version, Versions, FileTypes
<1>2. ASSUME NEW t \in DOMAIN c.works, ControlledOnce(c.works[t].writers), NEW right \in Rights
      PROVE  LET work  == c.works[t]
                 lines == Printed(RegistrationLines(work, version), version)
                 split == {i \in DOMAIN work.writers : work.writers[i].controlled}
             IN  2 * Magnitude(Stated(lines, version, right) - 10000) <= Cardinality(split) + 4
  <2>1. PICK work : work = c.works[t] /\ Sound(work) /\ TotalIsWhole(work.writers) /\ ControlledOnce(work.writers)
    BY <1>2
  <2>2. 2 * Magnitude(Stated(RegistrationLines(work, version), version, right) - 10000)
          <= Cardinality(ControlledAt(work.writers)) + 4
    BY <1>1, <2>1, WholeIsStated
  <2>3. RegistrationLines(work, version) \in Seq(LineOf(work)) /\ Stating(LineOf(work))
    BY <1>1, <2>1, RegistrationStates, LinesState
  <2>4. Stated(Printed(RegistrationLines(work, version), version), version, right)
          = Stated(RegistrationLines(work, version), version, right)
    BY <1>1, <2>3, StatedPrinted
  <2>. QED BY <2>1, <2>2, <2>4 DEF ControlledAt
<1>. QED BY <1>1, <1>2 DEF SharesWhole

-----------------------------------------------------------------------------
(* The transactions of a file.                                             *)

KnownAt(form) == {i \in DOMAIN form : form[i].writer # Unknown}

\* The writers and roles of a form are finitely many.
LEMMA NamedFinite ==
  ASSUME NEW work, Sized(work)
  PROVE  Cardinality({<<l.writer, l.role>> : l \in {m \in Lines(work.writers) : m.writer # Unknown}}) \in Nat
<1>0. PICK form : form = work.writers
  OBVIOUS
<1>1. PICK n \in Nat : form = work.writers /\ n = Len(form) /\ DOMAIN form = 1..n
  BY <1>0 DEF Sized
<1>2. PICK named : named = {<<l.writer, l.role>> : l \in {m \in Lines(form) : m.writer # Unknown}}
  OBVIOUS
<1>3. IsFiniteSet(KnownAt(form))
  <2>1. IsFiniteSet(1..n)
    BY FS_Interval
  <2>2. KnownAt(form) \in SUBSET (1..n)
    BY <1>1 DEF KnownAt
  <2>. QED BY <2>1, <2>2, FS_Subset
<1>4. PICK g : g = [i \in KnownAt(form) |-> <<form[i].writer, form[i].role>>]
  OBVIOUS
<1>5. g \in Surjection(KnownAt(form), named)
  <2>1. \A i \in KnownAt(form) : g[i] \in named
    BY <1>2, <1>4 DEF KnownAt, Lines, Range
  <2>2. \A x \in named : \E i \in KnownAt(form) : g[i] = x
    BY <1>2, <1>4 DEF KnownAt, Lines, Range
  <2>. QED BY <1>4, <2>1, <2>2 DEF Surjection
<1>6. IsFiniteSet(named)
  BY <1>3, <1>5, FS_Surjection
<1>. QED BY <1>1, <1>2, <1>6, FS_CardinalityType

\* A transaction is a line that is printed in its version, and lines after it.
Headed(S, lines, version) ==
  lines \in Seq(S) /\ Len(lines) > 0 /\ ~ Blank(lines[1], version)

\* Every transaction about a work is such a list.
LEMMA TransactionHeaded ==
  ASSUME NEW work, Sound(work), NEW type \in FileTypes
  PROVE  Headed(LineOf(work), Transaction(work, type), Version(type))
<1>1. PICK S : S = LineOf(work)
  OBVIOUS
<1>2. Sized(work)
  BY DEF Sound
<1>3. PICK version : version = Version(type) /\ version \in Versions
  BY DEF Version, Versions, FileTypes
<1>4. /\ Remarks \subseteq S
      /\ Plain("ISR") \in Remarks /\ Plain("WRI") \in Remarks /\ Plain("WRK") \in Remarks
  <2>1. Remarks \subseteq S
    BY <1>1, <1>2, RemarksOf
  <2>. QED BY <2>1 DEF Remarks
<1>5. CASE type = "ISR"
  <2>1. PICK rest : rest = [w \in 1..Cardinality({<<l.writer, l.role>> :
                              l \in {m \in Lines(work.writers) : m.writer # Unknown}}) |-> Plain("WRI")]
    OBVIOUS
  <2>2. rest \in Seq(Remarks)
    BY <1>2, <1>4, <2>1, NamedFinite, ManyRemarks
  <2>3. Transaction(work, type) = <<Plain("ISR")>> \o rest
    BY <1>5, <2>1, Zenon DEF Transaction, IswcRequestLines
  <2>4. PICK head : head = Plain("ISR")
    OBVIOUS
  <2>5. rest \in Seq(S) /\ <<head>> \in Seq(S) /\ Len(<<head>>) = 1 /\ <<head>>[1] = head
    BY <1>4, <2>2, <2>4
  <2>6. <<head>> \o rest \in Seq(S) /\ Len(<<head>> \o rest) > 0 /\ (<<head>> \o rest)[1] = head
    BY <2>5
  <2>7. ~ Blank(head, version)
    BY <1>3, <2>4 DEF Blank, Plain, Line, Empty, Versions
  <2>. QED BY <1>1, <1>3, <2>3, <2>4, <2>6, <2>7 DEF Headed
<1>6. CASE type # "ISR"
  <2>1. PICK party : party = PartyLines(work, version)
    OBVIOUS
  <2>2. PICK rest : rest = OtherLines(work, version)
    OBVIOUS
  <2>3. RegistrationLines(work, version) \in Seq(S)
    <3>1. PICK right \in Rights : TRUE
      BY AgreementAssumption DEF Rights
    <3>. QED BY <1>1, <1>3, RegistrationStates
  <2>4. PICK head : head = Plain("WRK")
    OBVIOUS
  <2>5. RegistrationLines(work, version) = <<head>> \o party \o rest
    BY <2>1, <2>2, <2>4, Zenon DEF RegistrationLines
  <2>6. party \in Seq(S)
    <3>1. PICK right \in Rights : TRUE
      BY AgreementAssumption DEF Rights
    <3>. QED BY <1>1, <1>2, <1>3, <2>1, PartiesState
  <2>7. rest \in Seq(S)
    <3>1. rest \in Seq(Remarks)
      BY <2>2, OthersTyped
    <3>. QED BY <1>4, <3>1
  <2>8. Len(<<head>>) = 1 /\ <<head>>[1] = head /\ <<head>> \in Seq(S)
    BY <1>4, <2>4
  <2>9. PICK front : front = <<head>> \o party
    OBVIOUS
  <2>10. front \in Seq(S) /\ Len(front) > 0 /\ front[1] = head
    BY <2>6, <2>8, <2>9
  <2>11. Len(front \o rest) > 0 /\ (front \o rest)[1] = head
    BY <2>7, <2>10
  <2>12. ~ Blank(head, version)
    BY <1>3, <2>4 DEF Blank, Plain, Line, Empty, Versions
  <2>13. Transaction(work, type) = RegistrationLines(work, version)
    BY <1>3, <1>6, Zenon DEF Transaction
  <2>. QED BY <1>1, <1>3, <2>3, <2>5, <2>9, <2>11, <2>12, <2>13 DEF Headed
<1>. QED BY <1>5, <1>6

\* What is printed of it is a list that is not empty.
LEMMA HeadIsPrinted ==
  ASSUME NEW S, NEW lines, NEW version, Headed(S, lines, version)
  PROVE  Printed(lines, version) \in Seq(S) /\ Len(Printed(lines, version)) > 0
<1>1. PICK n \in Nat : n = Len(lines) /\ n > 0 /\ DOMAIN lines = 1..n /\ lines \in Seq(S)
  BY DEF Headed
<1>2. PICK seqs : seqs = [i \in DOMAIN lines |-> If(~ Blank(lines[i], version), <<lines[i]>>)]
  OBVIOUS
<1>3. Printed(lines, version) = Concat(seqs)
  BY <1>2, Zenon DEF Printed, Filtered
<1>4. \A i \in 1..n : seqs[i] = IF Blank(lines[i], version) THEN <<>> ELSE <<lines[i]>>
  BY <1>1, <1>2 DEF If
<1>5. \A i \in 1..n : seqs[i] \in Seq(S)
  <2>1. \A i \in 1..n : lines[i] \in S
    BY <1>1
  <2>2. \A l \in S : <<>> \in Seq(S) /\ <<l>> \in Seq(S)
    OBVIOUS
  <2>. QED BY <1>4, <2>1, <2>2
<1>6. DOMAIN seqs = 1..n /\ seqs = [i \in DOMAIN seqs |-> seqs[i]]
  BY <1>1, <1>2
<1>7. seqs \in Seq(Seq(S))
  BY <1>5, <1>6, ListsMade
<1>8. PICK g : PutTogether(S, seqs, g)
  BY <1>7, JoinedInTurn
<1>9. Len(seqs) = n
  BY <1>6, <1>7
<1>10. /\ g \in [0..n -> Seq(S)] /\ g[0] = <<>> /\ g[n] = Concat(seqs)
       /\ \A k \in 1..n : g[k] = g[k - 1] \o seqs[k]
  BY <1>8, <1>9 DEF PutTogether
<1>11. Len(seqs[1]) = 1
  <2>1. 1 \in 1..n /\ ~ Blank(lines[1], version)
    BY <1>1 DEF Headed
  <2>2. seqs[1] = <<lines[1]>>
    BY <1>4, <2>1
  <2>. QED BY <2>2
<1>12. PICK K : K = {k \in 0..n : k > 0 => Len(g[k]) > 0}
  OBVIOUS
<1>13. 0 \in K
  BY <1>12
<1>14. ASSUME NEW k \in 0..n, k \in K, k < n PROVE k + 1 \in K
  <2>1. k + 1 \in 1..n /\ (k + 1) - 1 = k /\ k + 1 \in 0..n
    BY <1>14
  <2>2. g[k + 1] = g[k] \o seqs[k + 1] /\ g[k] \in Seq(S) /\ seqs[k + 1] \in Seq(S)
    BY <1>5, <1>10, <2>1
  <2>3. Len(g[k + 1]) = Len(g[k]) + Len(seqs[k + 1]) /\ Len(g[k]) \in Nat /\ Len(seqs[k + 1]) \in Nat
    BY <2>2
  <2>4. k > 0 => Len(g[k]) > 0
    BY <1>12, <1>14
  <2>5. k = 0 => Len(seqs[k + 1]) = 1
    BY <1>11
  <2>6. PICK x \in Nat, y \in Nat : x = Len(g[k]) /\ y = Len(seqs[k + 1])
    BY <2>3
  <2>7. Len(g[k + 1]) = x + y
    BY <2>3, <2>6
  <2>8. x > 0 \/ y > 0
    BY <2>4, <2>5, <2>6
  <2>. QED BY <1>12, <2>1, <2>7, <2>8
<1>15. n \in K
  BY <1>13, <1>14, UpTo
<1>16. g[n] \in Seq(S) /\ Len(g[n]) > 0
  <2>1. n \in 0..n
    OBVIOUS
  <2>. QED BY <1>1, <1>10, <1>12, <1>15, <2>1
<1>. QED BY <1>3, <1>10, <1>16

-----------------------------------------------------------------------------
(* The file.                                                               *)

\* A record follows another one: in its transaction, or as the first of the next one.
Follow(a, b) ==
  \/ b.record_sequence = a.record_sequence + 1
  \/ /\ b.record_sequence = 0
     /\ b.transaction_sequence = a.transaction_sequence + 1

\* The places, two lines down, of the records that begin a transaction.
Begins(p) == {i \in 3..(Len(p) + 2) : p[i - 2].record_sequence = 0}

\* The records p of the first k transactions.
WellCounted(p, k) ==
  /\ IsFiniteSet(Begins(p)) /\ Cardinality(Begins(p)) = k
  /\ \A i \in 2..Len(p) : Follow(p[i - 1], p[i])
  /\ IF k = 0 THEN Len(p) = 0 ELSE Len(p) > 0 /\ p[Len(p)].transaction_sequence = k - 1

\* The records s of transaction number t.
NumberedAs(s, t) ==
  /\ Len(s) > 0
  /\ \A i \in 1..Len(s) : s[i].record_sequence = i - 1 /\ s[i].transaction_sequence = t - 1

\* One transaction more.
LEMMA OneTransactionMore ==
  ASSUME NEW U, NEW p \in Seq(U), NEW s \in Seq(U), NEW k \in Nat, WellCounted(p, k), NumberedAs(s, k + 1)
  PROVE  WellCounted(p \o s, k + 1)
<1>1. PICK m \in Nat : m = Len(p)
  OBVIOUS
<1>2. PICK l \in Nat : l = Len(s) /\ l > 0
  BY DEF NumberedAs
<1>3. PICK q : q = p \o s
  OBVIOUS
<1>4. /\ q \in Seq(U) /\ Len(q) = m + l
      /\ \A i \in 1..m : q[i] = p[i]
      /\ \A i \in (m + 1)..(m + l) : q[i] = s[i - m]
  BY <1>1, <1>2, <1>3
<1>5. \A i \in 1..l : s[i].record_sequence = i - 1 /\ s[i].transaction_sequence = k
  BY <1>2 DEF NumberedAs
<1>6. /\ IsFiniteSet(Begins(p)) /\ Cardinality(Begins(p)) = k
      /\ \A i \in 2..m : Follow(p[i - 1], p[i])
      /\ IF k = 0 THEN m = 0 ELSE m > 0 /\ p[m].transaction_sequence = k - 1
  BY <1>1 DEF WellCounted
<1>7. Begins(q) = Begins(p) \cup {m + 3} /\ m + 3 \notin Begins(p)
  <2>1. \A i \in 3..(m + 2) : i - 2 \in 1..m /\ q[i - 2] = p[i - 2]
    BY <1>4
  <2>2. ASSUME NEW i \in (m + 3)..(m + l + 2) PROVE q[i - 2].record_sequence = i - (m + 3)
    <3>1. i - 2 \in (m + 1)..(m + l) /\ (i - 2) - m \in 1..l
      BY <2>2
    <3>2. q[i - 2] = s[(i - 2) - m]
      BY <1>4, <3>1
    <3>3. s[(i - 2) - m].record_sequence = ((i - 2) - m) - 1
      BY <1>5, <3>1
    <3>. QED BY <3>2, <3>3
  <2>3. \A i \in 3..(m + l + 2) : i \in 3..(m + 2) \/ i \in (m + 3)..(m + l + 2)
    OBVIOUS
  <2>4. m + 3 \in (m + 3)..(m + l + 2) /\ m + 3 \in 3..(m + l + 2) /\ m + 3 \notin 3..(m + 2)
    BY <1>2
  <2>5. \A i \in 3..(m + 2) : i \in 3..(m + l + 2)
    OBVIOUS
  <2>6. Begins(p) = {i \in 3..(m + 2) : p[i - 2].record_sequence = 0}
    BY <1>1 DEF Begins
  <2>7. Begins(q) = {i \in 3..(m + l + 2) : q[i - 2].record_sequence = 0}
    BY <1>4 DEF Begins
  <2>8. \A i \in (m + 3)..(m + l + 2) : q[i - 2].record_sequence = 0 <=> i = m + 3
    BY <2>2
  <2>9. m + 3 \notin Begins(p)
    BY <2>4, <2>6
  <2>10. \A i \in 3..(m + 2) : i \in Begins(q) <=> i \in Begins(p)
    BY <2>1, <2>5, <2>6, <2>7
  <2>11. \A i \in (m + 3)..(m + l + 2) : i \in Begins(q) <=> i = m + 3
    <3>1. \A i \in (m + 3)..(m + l + 2) : i \in 3..(m + l + 2)
      OBVIOUS
    <3>. QED BY <2>7, <2>8, <3>1
  <2>12. \A i \in Begins(q) : i \in Begins(p) \/ i = m + 3
    BY <2>3, <2>7, <2>10, <2>11
  <2>13. \A i \in Begins(p) : i \in Begins(q)
    BY <2>6, <2>10
  <2>14. m + 3 \in Begins(q)
    BY <2>4, <2>11
  <2>. QED BY <2>9, <2>12, <2>13, <2>14
<1>8. IsFiniteSet(Begins(q)) /\ Cardinality(Begins(q)) = k + 1
  <2>1. PICK B : B = Begins(p)
    OBVIOUS
  <2>2. PICK x : x = m + 3
    OBVIOUS
  <2>3. IsFiniteSet(B) /\ Cardinality(B) = k /\ x \notin B /\ Begins(q) = B \cup {x}
    BY <1>6, <1>7, <2>1, <2>2
  <2>4. IsFiniteSet(B \cup {x}) /\ Cardinality(B \cup {x}) = Cardinality(B) + 1
    BY <2>3, FS_AddElement
  <2>. QED BY <2>3, <2>4
<1>9. \A i \in 2..(m + l) : Follow(q[i - 1], q[i])
  <2>1. ASSUME NEW i \in 2..(m + l), i <= m PROVE Follow(q[i - 1], q[i])
    <3>1. i \in 2..m /\ i \in 1..m /\ i - 1 \in 1..m
      BY <2>1
    <3>. QED BY <1>4, <1>6, <3>1
  <2>2. ASSUME NEW i \in 2..(m + l), i = m + 1 PROVE Follow(q[i - 1], q[i])
    <3>1. m \in 1..m /\ i \in (m + 1)..(m + l) /\ i - m = 1 /\ 1 \in 1..l /\ i - 1 = m /\ m > 0
      BY <1>2, <2>2
    <3>2. q[i - 1] = p[m] /\ q[i] = s[1]
      BY <1>4, <3>1
    <3>3. k # 0
      BY <1>6, <3>1
    <3>4. p[m].transaction_sequence = k - 1
      BY <1>6, <3>3
    <3>5. s[1].record_sequence = 0 /\ s[1].transaction_sequence = k
      BY <1>5, <3>1
    <3>. QED BY <3>2, <3>4, <3>5 DEF Follow
  <2>3. ASSUME NEW i \in 2..(m + l), i > m + 1 PROVE Follow(q[i - 1], q[i])
    <3>1. i - 1 \in (m + 1)..(m + l) /\ i \in (m + 1)..(m + l) /\ i - m \in 1..l /\ (i - 1) - m \in 1..l
      BY <2>3
    <3>2. q[i - 1] = s[(i - 1) - m] /\ q[i] = s[i - m]
      BY <1>4, <3>1
    <3>3. /\ s[(i - 1) - m].record_sequence = ((i - 1) - m) - 1
          /\ s[i - m].record_sequence = (i - m) - 1
      BY <1>5, <3>1
    <3>. QED BY <3>2, <3>3 DEF Follow
  <2>. QED BY <2>1, <2>2, <2>3
<1>10. Len(q) > 0 /\ q[Len(q)].transaction_sequence = k
  <2>1. m + l \in (m + 1)..(m + l) /\ (m + l) - m \in 1..l
    BY <1>2
  <2>2. q[m + l] = s[(m + l) - m]
    BY <1>4, <2>1
  <2>3. s[(m + l) - m].transaction_sequence = k
    BY <1>5, <2>1
  <2>. QED BY <1>2, <1>4, <2>2, <2>3
<1>. QED BY <1>3, <1>4, <1>8, <1>9, <1>10 DEF WellCounted

\* Two headers, the records and two trailers.
LEMMA FileCounted ==
  ASSUME NEW U, NEW p \in Seq(U), NEW k \in Nat, WellCounted(p, k), NEW hdr, NEW grh, NEW grt, NEW trl,
         trl.record_count = Len(p) + 4, grt.record_count = Len(p) + 2, grt.transaction_count = k
  PROVE  CountsTrue(<<hdr, grh>> \o p \o <<grt, trl>>)
<1>1. PICK m \in Nat : m = Len(p)
  OBVIOUS
<1>2. PICK V : V = U \cup {hdr, grh, grt, trl}
  OBVIOUS
<1>3. PICK head, tail : head = <<hdr, grh>> /\ tail = <<grt, trl>>
  OBVIOUS
<1>4. /\ head \in Seq(V) /\ Len(head) = 2
      /\ tail \in Seq(V) /\ Len(tail) = 2 /\ tail[1] = grt /\ tail[2] = trl
  BY <1>2, <1>3
<1>5. p \in Seq(V)
  BY <1>2
<1>6. PICK front : front = head \o p
  OBVIOUS
<1>16. /\ front \in Seq(V) /\ Len(front) = 2 + m
       /\ \A i \in 1..m : front[2 + i] = p[i]
  <2>1. Chained(V, head, p, 2, m)
    BY <1>1, <1>4, <1>5, PutAfter
  <2>. QED BY <1>6, <2>1 DEF Chained
<1>7. front \in Seq(V) /\ Len(front) = m + 2 /\ \A i \in 3..(m + 2) : front[i] = p[i - 2]
  <2>1. ASSUME NEW i \in 3..(m + 2) PROVE front[i] = p[i - 2]
    <3>1. i - 2 \in 1..m /\ 2 + (i - 2) = i
      OBVIOUS
    <3>2. front[2 + (i - 2)] = p[i - 2]
      BY <1>16, <3>1
    <3>. QED BY <3>1, <3>2
  <2>. QED BY <1>16, <2>1
<1>8. PICK file : file = front \o tail
  OBVIOUS
<1>17. /\ file \in Seq(V) /\ Len(file) = (m + 2) + 2
       /\ \A i \in 1..(m + 2) : file[i] = front[i]
       /\ \A i \in 1..2 : file[(m + 2) + i] = tail[i]
  <2>1. PICK n \in Nat : n = m + 2
    OBVIOUS
  <2>2. Chained(V, front, tail, n, 2)
    BY <1>4, <1>7, <2>1, PutAfter
  <2>. QED BY <1>8, <2>1, <2>2 DEF Chained
<1>9. /\ file \in Seq(V) /\ Len(file) = m + 4
      /\ \A i \in 1..(m + 2) : file[i] = front[i]
      /\ file[m + 3] = grt /\ file[m + 4] = trl
  <2>1. 1 \in 1..2 /\ (m + 2) + 1 = m + 3 /\ 2 \in 1..2 /\ (m + 2) + 2 = m + 4
    OBVIOUS
  <2>2. file[(m + 2) + 1] = tail[1] /\ file[(m + 2) + 2] = tail[2]
    BY <1>17, <2>1
  <2>. QED BY <1>4, <1>17, <2>1, <2>2
<1>10. \A i \in 3..(m + 2) : file[i] = p[i - 2]
  <2>1. \A i \in 3..(m + 2) : i \in 1..(m + 2)
    OBVIOUS
  <2>. QED BY <1>7, <1>9, <2>1
<1>11. {i \in 3..(m + 2) : file[i].record_sequence = 0} = Begins(p)
  BY <1>1, <1>10 DEF Begins
<1>12. \A i \in 4..(m + 2) : Follow(file[i - 1], file[i])
  <2>1. ASSUME NEW i \in 4..(m + 2) PROVE Follow(file[i - 1], file[i])
    <3>1. i \in 3..(m + 2) /\ i - 1 \in 3..(m + 2) /\ i - 2 \in 2..m /\ (i - 1) - 2 = (i - 2) - 1
      BY <2>1
    <3>2. file[i] = p[i - 2] /\ file[i - 1] = p[(i - 2) - 1]
      BY <1>10, <3>1
    <3>3. Follow(p[(i - 2) - 1], p[i - 2])
      BY <1>1, <3>1 DEF WellCounted
    <3>. QED BY <3>2, <3>3
  <2>. QED BY <2>1
<1>13. Cardinality({i \in 3..(m + 2) : file[i].record_sequence = 0}) = k
  BY <1>11 DEF WellCounted
<1>14. Len(file) - 1 = m + 3 /\ Len(file) - 2 = m + 2 /\ Len(file) = m + 4
  BY <1>9
<1>15. CountsTrue(file)
  <2>1. /\ file[Len(file)].record_count = Len(file)
        /\ file[Len(file) - 1].record_count = Len(file) - 2
        /\ file[Len(file) - 1].transaction_count = k
    BY <1>1, <1>9, <1>14
  <2>2. Cardinality({i \in 3..(Len(file) - 2) : file[i].record_sequence = 0}) = k
    BY <1>13, <1>14
  <2>3. \A i \in 4..(Len(file) - 2) : Follow(file[i - 1], file[i])
    BY <1>12, <1>14
  <2>. QED BY <2>1, <2>2, <2>3, Zenon DEF CountsTrue, Follow
<1>. QED BY <1>3, <1>6, <1>8, <1>15

RecordOf(S) == [line : S, transaction_sequence : Int, record_sequence : Int]

\* What is printed of a transaction is numbered from nought.
LEMMA NumberedIs ==
  ASSUME NEW S, NEW lines \in Seq(S), Len(lines) > 0, NEW t \in Nat
  PROVE  /\ Numbered(lines, t) \in Seq(RecordOf(S))
         /\ Len(Numbered(lines, t)) = Len(lines) /\ NumberedAs(Numbered(lines, t), t)
<1>1. PICK n \in Nat : n = Len(lines) /\ DOMAIN lines = 1..n /\ n > 0
  OBVIOUS
<1>2. PICK R : R = RecordOf(S)
  OBVIOUS
<1>3. PICK s : s = Numbered(lines, t)
  OBVIOUS
<1>8. DOMAIN s = 1..n /\ \A i \in 1..n :
        s[i] = [line |-> lines[i], transaction_sequence |-> t - 1, record_sequence |-> i - 1]
  BY <1>1, <1>3 DEF Numbered
<1>4. /\ DOMAIN s = 1..n /\ s = [i \in DOMAIN s |-> s[i]]
      /\ \A i \in 1..n : s[i] = [line |-> lines[i], transaction_sequence |-> t - 1, record_sequence |-> i - 1]
  <2>1. s = [i \in DOMAIN s |-> s[i]]
    BY <1>1, <1>3 DEF Numbered
  <2>. QED BY <1>8, <2>1
<1>5. \A i \in 1..n : s[i] \in R
  <2>1. \A i \in 1..n : lines[i] \in S /\ i - 1 \in Int /\ t - 1 \in Int
    BY <1>1
  <2>. QED BY <1>2, <1>8, <2>1 DEF RecordOf
<1>6. s \in Seq(R) /\ Len(s) = n
  BY <1>4, <1>5, ListMade
<1>7. NumberedAs(s, t)
  BY <1>1, <1>4, <1>6 DEF NumberedAs
<1>. QED BY <1>1, <1>2, <1>3, <1>6, <1>7

\* The counts of the file of works are true.
LEMMA FileIsCounted ==
  ASSUME NEW n \in Nat, NEW works, DOMAIN works = 1..n, Len(works) = n, NEW type \in FileTypes,
         \A t \in 1..n : Sound(works[t])
  PROVE  CountsTrue(File(works, type))
<1>1. PICK version : version = Version(type)
  OBVIOUS
<1>2. PICK lines : lines = [t \in 1..n |-> Printed(Transaction(works[t], type), version)]
  OBVIOUS
<1>3. \A t \in 1..n : lines[t] \in Seq(LineOf(works[t])) /\ Len(lines[t]) > 0
  BY <1>1, <1>2, TransactionHeaded, HeadIsPrinted
<1>4. PICK T : T = Transactions(works, type)
  OBVIOUS
<1>5. DOMAIN T = 1..n /\ T = [t \in DOMAIN T |-> T[t]] /\ \A t \in 1..n : T[t] = Numbered(lines[t], t)
  BY <1>1, <1>2, <1>4 DEF Transactions
<1>6. PICK U : U = UNION {RecordOf(LineOf(works[t])) : t \in 1..n}
  OBVIOUS
<1>7. ASSUME NEW t \in 1..n
      PROVE  T[t] \in Seq(U) /\ Len(T[t]) = Len(lines[t]) /\ NumberedAs(T[t], t)
  <2>1. PICK R : R = RecordOf(LineOf(works[t]))
    OBVIOUS
  <2>2. /\ Numbered(lines[t], t) \in Seq(R) /\ Len(Numbered(lines[t], t)) = Len(lines[t])
        /\ NumberedAs(Numbered(lines[t], t), t)
    BY <1>3, <2>1, NumberedIs
  <2>3. R \subseteq U
    BY <1>6, <2>1, Zenon
  <2>5. PICK s : s = Numbered(lines[t], t)
    OBVIOUS
  <2>4. s \in Seq(U)
    BY <2>2, <2>3, <2>5
  <2>. QED BY <1>5, <2>2, <2>4, <2>5
<1>8. T \in Seq(Seq(U)) /\ Len(T) = n
  <2>1. T \in Seq(Seq(U))
    BY <1>5, <1>7, ListsMade
  <2>. QED BY <1>5, <2>1
<1>9. PICK g : PutTogether(U, T, g)
  BY <1>8, JoinedInTurn
<1>10. /\ g \in [0..n -> Seq(U)] /\ g[0] = <<>> /\ g[n] = Concat(T)
       /\ \A k \in 1..n : g[k] = g[k - 1] \o T[k]
  BY <1>8, <1>9 DEF PutTogether
<1>11. PICK K : K = {k \in 0..n : WellCounted(g[k], k)}
  OBVIOUS
<1>12. 0 \in K
  <2>1. PICK p : p = g[0]
    OBVIOUS
  <2>2. p = <<>> /\ Len(p) = 0
    BY <1>10, <2>1
  <2>3. Begins(p) = {}
    BY <2>2 DEF Begins
  <2>4. IsFiniteSet(Begins(p)) /\ Cardinality(Begins(p)) = 0
    BY <2>3, FS_EmptySet
  <2>5. WellCounted(p, 0)
    BY <2>2, <2>4 DEF WellCounted
  <2>. QED BY <1>11, <2>1, <2>5
<1>13. ASSUME NEW k \in 0..n, k \in K, k < n PROVE k + 1 \in K
  <2>1. k + 1 \in 1..n /\ (k + 1) - 1 = k /\ k + 1 \in 0..n /\ k \in Nat
    BY <1>13
  <2>2. g[k + 1] = g[k] \o T[k + 1] /\ g[k] \in Seq(U) /\ T[k + 1] \in Seq(U) /\ NumberedAs(T[k + 1], k + 1)
    BY <1>7, <1>10, <2>1
  <2>3. WellCounted(g[k], k)
    BY <1>11, <1>13
  <2>4. WellCounted(g[k] \o T[k + 1], k + 1)
    BY <2>1, <2>2, <2>3, OneTransactionMore
  <2>. QED BY <1>11, <2>1, <2>2, <2>4
<1>14. n \in K
  BY <1>12, <1>13, UpTo
<1>15. WellCounted(g[n], n)
  BY <1>11, <1>14
<1>16. PICK counts : counts = [t \in DOMAIN works |-> Counted(Transaction(works[t], type), Version(type))]
  OBVIOUS
<1>17. \A t \in 1..n : counts[t] = Len(T[t]) /\ Len(T[t]) \in Int
  <2>1. \A t \in 1..n : counts[t] = Len(lines[t])
    BY <1>1, <1>2, <1>16 DEF Counted
  <2>2. \A t \in 1..n : Len(T[t]) \in Int
    BY <1>7
  <2>. QED BY <1>7, <2>1, <2>2
<1>18. counts \in Seq(Int) /\ Len(counts) = n
  <2>1. DOMAIN counts = 1..n /\ counts = [t \in DOMAIN counts |-> counts[t]]
    BY <1>16
  <2>2. \A t \in 1..n : counts[t] \in Int
    BY <1>17
  <2>. QED BY <2>1, <2>2, ListMade
<1>19. PICK h : h = [k \in 0..n |-> Len(g[k])]
  OBVIOUS
<1>20. h[0] = 0 /\ h[n] = Len(g[n])
  BY <1>10, <1>19
<1>21. ASSUME NEW k \in 1..n PROVE h[k] = h[k - 1] + counts[k]
  <2>1. k - 1 \in 0..n /\ k \in 0..n
    OBVIOUS
  <2>2. g[k] = g[k - 1] \o T[k] /\ g[k - 1] \in Seq(U) /\ T[k] \in Seq(U)
    BY <1>7, <1>10, <2>1
  <2>3. Len(g[k]) = Len(g[k - 1]) + Len(T[k])
    BY <2>2
  <2>. QED BY <1>17, <1>19, <2>1, <2>3
<1>22. Added(counts) = Len(g[n])
  BY <1>18, <1>20, <1>21, AddedIs
<1>23. PICK total : total = RecordCount(works, type)
  OBVIOUS
<1>24. total = Len(g[n])
  <2>1. RecordCount(works, type) = Added(counts)
    BY <1>16, Zenon DEF RecordCount
  <2>. QED BY <1>22, <1>23, <2>1
<1>25. PICK hdr, grh, grt, trl : /\ hdr = [type |-> "HDR"] /\ grh = [type |-> "GRH"]
                                 /\ grt = Trailer("GRT", Len(works), total + 2)
                                 /\ trl = Trailer("TRL", Len(works), total + 4)
  OBVIOUS
<1>26. File(works, type) = <<hdr, grh>> \o g[n] \o <<grt, trl>>
  <2>1. g[n] = Concat(Transactions(works, type))
    BY <1>4, <1>10
  <2>. QED BY <1>23, <1>25, <2>1, Zenon DEF File
<1>27. /\ trl.record_count = Len(g[n]) + 4 /\ grt.record_count = Len(g[n]) + 2 /\ grt.transaction_count = n
  BY <1>24, <1>25 DEF Trailer
<1>28. g[n] \in Seq(U)
  BY <1>10
<1>29. CountsTrue(<<hdr, grh>> \o g[n] \o <<grt, trl>>)
  BY <1>15, <1>27, <1>28, FileCounted
<1>. QED BY <1>26, <1>29

\* The answer to an export is sound.
LEMMA ExportsAreSound ==
  ASSUME NEW works \in Works, NEW type \in FileTypes, Export(works, type)
  PROVE  SharesWhole(call') /\ CountsTrue(call'.file)
<1>1. PICK n \in Nat : n = Len(works) /\ DOMAIN works = 1..n
  BY WorksAssumption DEF WorksAssumption
<1>2. PICK c : c = call'
  OBVIOUS
<1>3. c = [kind |-> "export", type |-> type, works |-> works, file |-> File(works, type)]
  BY <1>2 DEF Export
<1>4. ASSUME NEW t \in 1..n PROVE Sound(works[t]) /\ TotalIsWhole(works[t].writers)
  <2>1. PICK w : w = works[t]
    OBVIOUS
  <2>2. w \in Range(works)
    BY <1>1, <2>1 DEF Range
  <2>3. /\ w.writers \in Seq(Range(w.writers)) /\ w.recordings \in Seq(Range(w.recordings))
        /\ \A l \in Lines(w.writers) : l.share \in Int /\ l.controlled \in BOOLEAN
        /\ IsFiniteSet(AlternateTitles(w)) /\ IsFiniteSet(Artists(w)) /\ w.references \in Nat
    BY <2>2, WorksAssumption DEF WorksAssumption
  <2>4. Sound(w)
    BY <2>3 DEF Sound, Sized
  <2>5. Accepted(w.writers, w.modification)
    BY <1>1, <2>1 DEF Export
  <2>6. TotalIsWhole(w.writers)
    BY <2>5, Zenon DEF Accepted
  <2>. QED BY <2>1, <2>4, <2>6
<1>5. CountsTrue(File(works, type))
  BY <1>1, <1>4, FileIsCounted
<1>6. SharesWhole(c)
  <2>1. c.works = works /\ c.type = type
    BY <1>3
  <2>. QED BY <1>1, <1>4, <2>1, SharesAreWhole
<1>. QED BY <1>2, <1>3, <1>5, <1>6

-----------------------------------------------------------------------------
(* Works that are read back.                                               *)

\* A writer of the catalogue from which one that was imported may come.
Sourced(v, src) ==
  \E x \in src : /\ x.name = v.name /\ x.ipi = v.ipi /\ x.pro = v.pro
                 /\ v.general => x.general /\ x.saan = v.saan

\* An imported writer has the data of one in the catalogue; it has a general agreement
\* only if that one has it, and then the identifiers that control requires.
ImportedFrom(v, src) ==
  /\ v \in Contributor /\ Sourced(v, src)
  /\ v.able = (v.ipi # NoValue /\ v.pro # NoValue)
  /\ v.general => v.able
  /\ ~ v.general => v.saan = NoValue

\* The imported writers can be told apart.
Imports(writers, src) ==
  /\ \A v \in writers : ImportedFrom(v, src)
  /\ \A v, w \in writers : v.name = w.name /\ v.ipi = w.ipi => v = w

\* An imported writer stays, up to an agreement that is taken over.
StillIn(writers, w) ==
  \E v \in writers : v.name = w.name /\ v.ipi = w.ipi /\ v.pro = w.pro /\ (w.general => v.general)

\* What a line was read as.
ReadAs(line, l, src) ==
  /\ line \in WriterLine
  /\ line.role = l.role /\ line.share = l.share /\ line.controlled = l.controlled
  /\ line.writer = Unknown =>
       /\ Of(l.writer, "name") = NoValue /\ Of(l.writer, "ipi") = NoValue
       /\ Of(l.writer, "pro") = NoValue /\ ~ UnderGeneral(l)
  /\ line.writer # Unknown =>
       /\ l.writer # Unknown /\ ImportedFrom(line.writer, src)
       /\ line.writer.name = l.writer.name /\ line.writer.ipi = l.writer.ipi
       /\ line.writer.pro = l.writer.pro
       /\ UnderGeneral(l) => line.writer.general
  /\ line.saan \in {NoValue, WriterCells(l).saan}
  /\ line.saan = NoValue /\ WriterCells(l).saan # NoValue =>
       /\ line.writer # Unknown /\ line.writer.general
       /\ line.writer.saan = WriterCells(l).saan

\* A line of the catalogue, as the form accepts it.
ALine(l, src) == l \in WriterLine /\ l.writer \in src \cup {Unknown} /\ SoundLine(AsForm(l))

\* The marks of control are told apart.
LEMMA MarksDiffer ==
  "General Agreement" # "Yes" /\ "General Agreement" # "No" /\ "Yes" # "No"
OBVIOUS

\* The cells of a line.
LEMMA CellsOf ==
  ASSUME NEW src \in SUBSET Contributor, Unknown \notin Contributor, NEW l, ALine(l, src)
  PROVE  LET cells == WriterCells(l) IN
         /\ cells.name \in Cell /\ cells.ipi \in Cell /\ cells.pro \in Cell /\ cells.saan \in Cell
         /\ cells.role = l.role /\ cells.manuscript_share = l.share
         /\ General(cells) = UnderGeneral(l) /\ UnderGeneral(l) \in BOOLEAN
         /\ (cells.controlled # "No") = l.controlled
         /\ l.writer = Unknown => /\ cells.name = NoValue /\ cells.ipi = NoValue
                                  /\ cells.pro = NoValue /\ ~ UnderGeneral(l)
         /\ l.writer # Unknown => /\ cells.name = l.writer.name /\ cells.ipi = l.writer.ipi
                                  /\ cells.pro = l.writer.pro /\ l.writer \in src
         /\ UnderGeneral(l) => cells.saan = l.writer.saan /\ l.writer.general /\ l.controlled
<1>1. PICK cells : cells = WriterCells(l)
  OBVIOUS
<1>2. /\ cells.name = Of(l.writer, "name") /\ cells.ipi = Of(l.writer, "ipi")
      /\ cells.pro = Of(l.writer, "pro") /\ cells.role = l.role /\ cells.manuscript_share = l.share
      /\ cells.controlled = IF UnderGeneral(l) THEN "General Agreement"
                            ELSE IF l.controlled THEN "Yes" ELSE "No"
      /\ cells.saan = IF l.controlled THEN AgreementNumber(l) ELSE NoValue
  BY <1>1 DEF WriterCells
<1>3. l \in WriterLine /\ l.writer \in src \cup {Unknown} /\ NoValue \in Cell /\ l.saan \in Cell
      /\ l.controlled \in BOOLEAN
  BY DEF ALine, WriterLine, Cell
<1>4. l.controlled => l.writer # Unknown
  BY DEF ALine, SoundLine, AsForm
<1>5. l.writer # Unknown => l.writer \in src /\ l.writer \in Contributor
  BY <1>3
<1>6. l.writer # Unknown =>
        /\ l.writer.name \in Cell /\ l.writer.ipi \in Cell /\ l.writer.pro \in Cell
        /\ l.writer.saan \in Cell /\ l.writer.general \in BOOLEAN
  BY <1>5 DEF Contributor
<1>7. UnderGeneral(l) \in BOOLEAN
  BY DEF UnderGeneral
<1>8. General(cells) = UnderGeneral(l) /\ (cells.controlled # "No") = l.controlled
  BY <1>2, <1>3, MarksDiffer DEF General, UnderGeneral
<1>9. UnderGeneral(l) => cells.saan = l.writer.saan /\ l.writer.general /\ l.controlled
  BY <1>2 DEF UnderGeneral, AgreementNumber
<1>10. cells.saan \in Cell
  BY <1>2, <1>3, <1>4, <1>6, <1>9 DEF AgreementNumber
<1>11. /\ l.writer = Unknown => cells.name = NoValue /\ cells.ipi = NoValue /\ cells.pro = NoValue
       /\ l.writer # Unknown => /\ cells.name = l.writer.name /\ cells.ipi = l.writer.ipi
                                /\ cells.pro = l.writer.pro
  BY <1>2 DEF Of
<1>12. l.writer = Unknown => ~ UnderGeneral(l)
  BY <1>4, <1>9
<1>. QED BY <1>1, <1>2, <1>3, <1>5, <1>6, <1>7, <1>8, <1>9, <1>10, <1>11, <1>12

\* The writer a line of the file asks for.
LookedFor(k, l, src) ==
  /\ k \in Contributor /\ Sourced(k, src) /\ l.writer \in src
  /\ k.name = l.writer.name /\ k.ipi = l.writer.ipi /\ k.pro = l.writer.pro
  /\ k.able = (k.ipi # NoValue /\ k.pro # NoValue)
  /\ k.general = UnderGeneral(l)
  /\ ~ k.general => k.saan = NoValue
  /\ k.general => k.saan = WriterCells(l).saan

LEMMA LookupAsks ==
  ASSUME NEW src \in SUBSET Contributor, Unknown \notin Contributor, NEW l, ALine(l, src),
         NamesWriter(WriterCells(l))
  PROVE  LookedFor(Lookup(WriterCells(l)), l, src)
<1>1. PICK cells : cells = WriterCells(l)
  OBVIOUS
<1>2. PICK k : k = Lookup(cells)
  OBVIOUS
<1>3. /\ cells.name \in Cell /\ cells.ipi \in Cell /\ cells.pro \in Cell /\ cells.saan \in Cell
      /\ General(cells) = UnderGeneral(l) /\ UnderGeneral(l) \in BOOLEAN
      /\ l.writer = Unknown => /\ cells.name = NoValue /\ cells.ipi = NoValue
                               /\ cells.pro = NoValue /\ ~ UnderGeneral(l)
      /\ l.writer # Unknown => /\ cells.name = l.writer.name /\ cells.ipi = l.writer.ipi
                               /\ cells.pro = l.writer.pro /\ l.writer \in src
      /\ UnderGeneral(l) => cells.saan = l.writer.saan /\ l.writer.general /\ l.controlled
  BY <1>1, CellsOf
<1>4. l.writer # Unknown
  BY <1>1, <1>3 DEF NamesWriter
<1>5. /\ k = [name |-> cells.name, ipi |-> cells.ipi, pro |-> cells.pro, general |-> General(cells),
             saan |-> IF General(cells) THEN cells.saan ELSE NoValue,
             able |-> cells.ipi # NoValue /\ cells.pro # NoValue]
      /\ NoValue \in Cell
  BY <1>2, Zenon DEF Lookup, Cell
<1>6. /\ k.name = cells.name /\ k.ipi = cells.ipi /\ k.pro = cells.pro /\ k.general = General(cells)
      /\ k.saan = IF General(cells) THEN cells.saan ELSE NoValue
      /\ k.able = (cells.ipi # NoValue /\ cells.pro # NoValue)
  BY <1>5
<1>7. k \in Contributor
  BY <1>3, <1>5 DEF Contributor
<1>8. Sourced(k, src)
  BY <1>3, <1>4, <1>6 DEF Sourced
<1>. QED BY <1>1, <1>2, <1>3, <1>4, <1>6, <1>7, <1>8 DEF LookedFor

\* The writer a line is given: the one that is found, or a new one.
LEMMA MergedIs ==
  ASSUME NEW src, NEW writers, Imports(writers, src), NEW k, NEW l, LookedFor(k, l, src),
         Mergeable(writers, k)
  PROVE  LET w == Merged(writers, k) IN
         /\ ImportedFrom(w, src) /\ w.name = k.name /\ w.ipi = k.ipi /\ w.pro = k.pro
         /\ k.general => w.general /\ w.saan = k.saan
         /\ \A v \in Found(writers, k.name, k.ipi) : v.pro = w.pro /\ (v.general => w.general)
<1>1. PICK w : w = Merged(writers, k)
  OBVIOUS
<1>2. PICK found : found = Found(writers, k.name, k.ipi)
  OBVIOUS
<1>3. /\ k.general => k.able
      /\ k.general => w.saan = k.saan
      /\ w.pro = k.pro
  BY <1>1, Zenon DEF Mergeable, SoundWriter
<1>4. /\ k \in Contributor /\ Sourced(k, src) /\ k.able = (k.ipi # NoValue /\ k.pro # NoValue)
      /\ ~ k.general => k.saan = NoValue
  BY DEF LookedFor
<1>5. CASE found = {}
  <2>1. w = k
    BY <1>1, <1>2, <1>5, Zenon DEF Merged
  <2>2. ImportedFrom(k, src)
    BY <1>3, <1>4 DEF ImportedFrom
  <2>. QED BY <1>1, <1>2, <1>5, <2>1, <2>2
<1>6. CASE found # {}
  <2>1. PICK v \in found : w = Adopted(v, k)
    <3>1. w = Adopted(CHOOSE x \in found : TRUE, k)
      BY <1>1, <1>2, <1>6, Zenon DEF Merged
    <3>2. (CHOOSE x \in found : TRUE) \in found
      BY <1>6, Zenon
    <3>. QED BY <3>1, <3>2
  <2>2. v \in writers /\ v.name = k.name /\ v.ipi = k.ipi
    BY <1>2, <2>1 DEF Found
  <2>3. \A x \in found : x = v
    BY <1>2, <2>2 DEF Found, Imports
  <2>4. ImportedFrom(v, src)
    BY <2>2 DEF Imports
  <2>5. v \in Contributor /\ v.able = (v.ipi # NoValue /\ v.pro # NoValue)
    BY <2>4 DEF ImportedFrom
  <2>6. CASE k.general /\ ~ v.general
    <3>1. w = [v EXCEPT !.general = TRUE, !.saan = k.saan]
      BY <2>1, <2>6 DEF Adopted
    <3>2. /\ w \in Contributor /\ w.name = v.name /\ w.ipi = v.ipi /\ w.pro = v.pro /\ w.general
          /\ w.saan = k.saan /\ w.able = v.able
      BY <1>4, <2>5, <3>1 DEF Contributor
    <3>3. Sourced(w, src)
      BY <1>3, <1>4, <2>2, <2>6, <3>2 DEF Sourced
    <3>4. v.pro = k.pro
      BY <1>3, <3>2
    <3>5. w.able = (w.ipi # NoValue /\ w.pro # NoValue) /\ w.able
      <4>1. w.able = (w.ipi # NoValue /\ w.pro # NoValue)
        BY <2>5, <3>2
      <4>2. k.ipi # NoValue /\ k.pro # NoValue
        BY <1>3, <1>4, <2>6
      <4>. QED BY <1>3, <2>2, <3>2, <4>1, <4>2
    <3>6. ImportedFrom(w, src)
      BY <3>2, <3>3, <3>5 DEF ImportedFrom
    <3>. QED BY <1>1, <1>2, <2>2, <2>3, <3>2, <3>4, <3>6, <1>3
  <2>7. CASE ~ (k.general /\ ~ v.general)
    <3>1. w = v
      BY <2>1, <2>7 DEF Adopted
    <3>. QED BY <1>1, <1>2, <1>3, <2>2, <2>3, <2>4, <2>7, <3>1
  <2>. QED BY <2>6, <2>7
<1>. QED BY <1>5, <1>6

\* Where the import of a row stands.
Reading == [ok : BOOLEAN, writers : SUBSET Contributor, lines : Seq(WriterLine)]

\* A line is read into a writer and a line, whether they are accepted or not.
LineRead(s, l, t, w, line) ==
  LET cells == WriterCells(l)
      k == Lookup(cells)
  IN  /\ line \in WriterLine /\ line.writer = w /\ line.role = l.role /\ line.share = l.share
      /\ line.controlled = l.controlled
      /\ line.saan = IF cells.saan = Of(w, "saan") THEN NoValue ELSE cells.saan
      /\ NamesWriter(cells) => w \in Contributor /\ w = Merged(s.writers, k)
      /\ ~ NamesWriter(cells) => w = Unknown
      /\ t.ok <=> /\ s.ok /\ (NamesWriter(cells) => Mergeable(s.writers, k))
                  /\ SoundLine(AsForm(line))
      /\ t.writers = IF NamesWriter(cells) THEN (s.writers \ Found(s.writers, k.name, k.ipi)) \cup {w}
                     ELSE s.writers
      /\ t.lines = Append(s.lines, line)

LEMMA MergedTyped ==
  ASSUME NEW writers \in SUBSET Contributor, NEW k \in Contributor
  PROVE  Merged(writers, k) \in Contributor
<1>1. PICK found : found = Found(writers, k.name, k.ipi)
  OBVIOUS
<1>2. CASE found = {}
  <2>1. Merged(writers, k) = k
    BY <1>1, <1>2, Zenon DEF Merged
  <2>. QED BY <2>1
<1>3. CASE found # {}
  <2>1. PICK v \in found : Merged(writers, k) = Adopted(v, k)
    <3>1. Merged(writers, k) = Adopted(CHOOSE x \in found : TRUE, k)
      BY <1>1, <1>3, Zenon DEF Merged
    <3>2. (CHOOSE x \in found : TRUE) \in found
      BY <1>3, Zenon
    <3>. QED BY <3>1, <3>2
  <2>2. v \in Contributor
    BY <1>1, <2>1 DEF Found
  <2>3. [v EXCEPT !.general = TRUE, !.saan = k.saan] \in Contributor
    BY <2>2 DEF Contributor
  <2>. QED BY <2>1, <2>2, <2>3 DEF Adopted
<1>. QED BY <1>2, <1>3

LEMMA LineIsRead ==
  ASSUME NEW src \in SUBSET Contributor, Unknown \notin Contributor, NEW l, ALine(l, src),
         NEW s \in Reading
  PROVE  /\ ImportLine(s, WriterCells(l)) \in Reading
         /\ \E w, line : LineRead(s, l, ImportLine(s, WriterCells(l)), w, line)
<1>1. PICK cells : cells = WriterCells(l)
  OBVIOUS
<1>2. PICK k : k = Lookup(cells)
  OBVIOUS
<1>3. PICK w : w = IF NamesWriter(cells) THEN Merged(s.writers, k) ELSE Unknown
  OBVIOUS
<1>4. PICK line : line = [writer |-> w, role |-> cells.role, share |-> cells.manuscript_share,
               controlled |-> cells.controlled # "No",
               saan |-> IF cells.saan = Of(w, "saan") THEN NoValue ELSE cells.saan]
  OBVIOUS
<1>5. PICK t : t = ImportLine(s, cells)
  OBVIOUS
<1>6. t = [ok      |-> /\ s.ok
                       /\ NamesWriter(cells) => Mergeable(s.writers, k)
                       /\ SoundLine(AsForm(line)),
           writers |-> IF NamesWriter(cells) THEN (s.writers \ Found(s.writers, k.name, k.ipi)) \cup {w}
                                         ELSE s.writers,
           lines   |-> Append(s.lines, line)]
  BY <1>2, <1>3, <1>4, <1>5, Zenon DEF ImportLine
<1>7. s.ok \in BOOLEAN /\ s.writers \in SUBSET Contributor /\ s.lines \in Seq(WriterLine)
  BY DEF Reading
<1>8. NamesWriter(cells) => w \in Contributor
  <2>1. NamesWriter(cells) => k \in Contributor
    BY <1>1, <1>2, LookupAsks DEF LookedFor
  <2>. QED BY <1>3, <1>7, <2>1, MergedTyped
<1>9. line \in WriterLine
  <2>1. /\ cells.saan \in Cell /\ cells.role = l.role /\ cells.manuscript_share = l.share
        /\ (cells.controlled # "No") = l.controlled
    BY <1>1, CellsOf
  <2>2. l.role \in Roles \cup {NoRole} /\ l.share \in Int /\ l.controlled \in BOOLEAN /\ NoValue \in Cell
    BY DEF ALine, WriterLine, Cell
  <2>3. w \in Contributor \cup {Unknown}
    BY <1>3, <1>8
  <2>. QED BY <1>4, <2>1, <2>2, <2>3 DEF WriterLine
<1>10. /\ line.writer = w /\ line.role = l.role /\ line.share = l.share /\ line.controlled = l.controlled
       /\ line.saan = IF cells.saan = Of(w, "saan") THEN NoValue ELSE cells.saan
  BY <1>1, <1>4, CellsOf
<1>11. /\ t.ok <=> /\ s.ok /\ (NamesWriter(cells) => Mergeable(s.writers, k))
                   /\ SoundLine(AsForm(line))
       /\ t.writers = IF NamesWriter(cells) THEN (s.writers \ Found(s.writers, k.name, k.ipi)) \cup {w}
                      ELSE s.writers
       /\ t.lines = Append(s.lines, line)
  BY <1>6
<1>12. t \in Reading
  <2>1. Append(s.lines, line) \in Seq(WriterLine)
    BY <1>7, <1>9
  <2>2. (IF NamesWriter(cells) THEN (s.writers \ Found(s.writers, k.name, k.ipi)) \cup {w}
         ELSE s.writers) \in SUBSET Contributor
    BY <1>7, <1>8
  <2>3. (s.ok /\ (NamesWriter(cells) => Mergeable(s.writers, k)) /\ SoundLine(AsForm(line))) \in BOOLEAN
    OBVIOUS
  <2>. QED BY <1>6, <2>1, <2>2, <2>3 DEF Reading
<1>13. LineRead(s, l, t, w, line)
  BY <1>1, <1>2, <1>3, <1>8, <1>9, <1>10, <1>11 DEF LineRead
<1>. QED BY <1>1, <1>5, <1>12, <1>13

\* A line that is accepted is read for what it is, and nothing read before is lost.
LEMMA ReadSoundly ==
  ASSUME NEW src \in SUBSET Contributor, Unknown \notin Contributor, NEW l, ALine(l, src),
         NEW s, Imports(s.writers, src), NEW t, NEW w, NEW line, LineRead(s, l, t, w, line), t.ok
  PROVE  /\ Imports(t.writers, src) /\ ReadAs(line, l, src) /\ SoundLine(AsForm(line))
         /\ \A x : StillIn(s.writers, x) => StillIn(t.writers, x)
         /\ line.writer # Unknown => StillIn(t.writers, line.writer)
<1>1. PICK cells : cells = WriterCells(l)
  OBVIOUS
<1>2. PICK k : k = Lookup(cells)
  OBVIOUS
<1>3. /\ line \in WriterLine /\ line.writer = w /\ line.role = l.role /\ line.share = l.share
      /\ line.controlled = l.controlled
      /\ line.saan = IF cells.saan = Of(w, "saan") THEN NoValue ELSE cells.saan
      /\ NamesWriter(cells) => w \in Contributor /\ w = Merged(s.writers, k)
      /\ ~ NamesWriter(cells) => w = Unknown
      /\ NamesWriter(cells) => Mergeable(s.writers, k)
      /\ SoundLine(AsForm(line))
      /\ t.writers = IF NamesWriter(cells) THEN (s.writers \ Found(s.writers, k.name, k.ipi)) \cup {w}
                     ELSE s.writers
  BY <1>1, <1>2, Zenon DEF LineRead
<1>4. /\ cells.name = Of(l.writer, "name") /\ cells.ipi = Of(l.writer, "ipi")
      /\ cells.pro = Of(l.writer, "pro") /\ General(cells) = UnderGeneral(l)
      /\ UnderGeneral(l) \in BOOLEAN
  <2>1. General(cells) = UnderGeneral(l) /\ UnderGeneral(l) \in BOOLEAN
    BY <1>1, CellsOf
  <2>2. /\ cells.name = Of(l.writer, "name") /\ cells.ipi = Of(l.writer, "ipi")
        /\ cells.pro = Of(l.writer, "pro")
    BY <1>1 DEF WriterCells
  <2>. QED BY <2>1, <2>2
<1>5. CASE ~ NamesWriter(cells)
  <2>1. w = Unknown /\ t.writers = s.writers
    BY <1>3, <1>5
  <2>2. cells.name = NoValue /\ cells.ipi = NoValue /\ cells.pro = NoValue /\ ~ UnderGeneral(l)
    BY <1>4, <1>5 DEF NamesWriter
  <2>3. line.saan \in {NoValue, cells.saan} /\ (line.saan = NoValue => cells.saan = NoValue)
    BY <1>3, <2>1 DEF Of
  <2>4. ReadAs(line, l, src)
    BY <1>1, <1>3, <1>4, <2>1, <2>2, <2>3 DEF ReadAs
  <2>. QED BY <1>3, <2>1, <2>4
<1>6. CASE NamesWriter(cells)
  <2>1. LookedFor(k, l, src)
    BY <1>1, <1>2, <1>6, LookupAsks
  <2>2. /\ w = Merged(s.writers, k) /\ w \in Contributor /\ Mergeable(s.writers, k)
        /\ t.writers = (s.writers \ Found(s.writers, k.name, k.ipi)) \cup {w}
    BY <1>3, <1>6
  <2>3. /\ ImportedFrom(w, src) /\ w.name = k.name /\ w.ipi = k.ipi /\ w.pro = k.pro
        /\ k.general => w.general /\ w.saan = k.saan
        /\ \A v \in Found(s.writers, k.name, k.ipi) : v.pro = w.pro /\ (v.general => w.general)
    BY <2>1, <2>2, MergedIs
  <2>4. /\ l.writer \in src /\ l.writer # Unknown
        /\ k.name = l.writer.name /\ k.ipi = l.writer.ipi
        /\ k.pro = l.writer.pro /\ k.general = UnderGeneral(l)
    BY <2>1 DEF LookedFor
  <2>5. w # Unknown
    BY <2>2
  <2>6. Imports(t.writers, src)
    <3>1. \A v \in s.writers : v \notin Found(s.writers, k.name, k.ipi) => v.name # w.name \/ v.ipi # w.ipi
      BY <2>3 DEF Found
    <3>. QED BY <2>2, <2>3, <3>1 DEF Imports
  <2>7. ASSUME NEW x, StillIn(s.writers, x) PROVE StillIn(t.writers, x)
    <3>1. PICK v \in s.writers : v.name = x.name /\ v.ipi = x.ipi /\ v.pro = x.pro /\ (x.general => v.general)
      BY <2>7 DEF StillIn
    <3>2. CASE v \in Found(s.writers, k.name, k.ipi)
      <4>1. v.name = k.name /\ v.ipi = k.ipi
        BY <3>2 DEF Found
      <4>2. w \in t.writers /\ w.name = x.name /\ w.ipi = x.ipi /\ w.pro = x.pro /\ (x.general => w.general)
        BY <2>2, <2>3, <3>1, <3>2, <4>1
      <4>. QED BY <4>2 DEF StillIn
    <3>3. CASE v \notin Found(s.writers, k.name, k.ipi)
      <4>1. v \in t.writers
        BY <2>2, <3>3
      <4>. QED BY <3>1, <4>1 DEF StillIn
    <3>. QED BY <3>2, <3>3
  <2>8. StillIn(t.writers, w)
    BY <2>2 DEF StillIn
  <2>9. /\ line.saan \in {NoValue, cells.saan}
        /\ line.saan = NoValue /\ cells.saan # NoValue => w.general /\ w.saan = cells.saan
    <3>1. Of(w, "saan") = w.saan
      BY <2>5 DEF Of
    <3>2. ~ w.general => w.saan = NoValue
      BY <2>3 DEF ImportedFrom
    <3>. QED BY <1>3, <3>1, <3>2
  <2>10. ReadAs(line, l, src)
    BY <1>1, <1>3, <2>3, <2>4, <2>5, <2>9 DEF ReadAs
  <2>. QED BY <1>3, <2>6, <2>7, <2>8, <2>10
<1>. QED BY <1>5, <1>6

\* Writers that can be told apart, each IPI number that of one.
ToldApart(src) ==
  \A x, y \in src :
    (x.ipi = y.ipi /\ x.ipi # NoValue) \/ (x.name = y.name /\ x.ipi = y.ipi) => x = y

\* Of such writers every line is accepted, if the controlled ones have identifiers.
LEMMA LineIsAccepted ==
  ASSUME NEW src \in SUBSET Contributor, Unknown \notin Contributor, ToldApart(src),
         NEW l, ALine(l, src), l.controlled => l.writer.ipi # NoValue /\ l.writer.pro # NoValue,
         NEW s, Imports(s.writers, src), s.ok, NEW t, NEW w, NEW line, LineRead(s, l, t, w, line)
  PROVE  t.ok
<1>1. PICK cells : cells = WriterCells(l)
  OBVIOUS
<1>2. PICK k : k = Lookup(cells)
  OBVIOUS
<1>3. /\ line.writer = w /\ line.role = l.role /\ line.controlled = l.controlled
      /\ line.saan = IF cells.saan = Of(w, "saan") THEN NoValue ELSE cells.saan
      /\ NamesWriter(cells) => w \in Contributor /\ w = Merged(s.writers, k)
      /\ ~ NamesWriter(cells) => w = Unknown
      /\ t.ok <=> /\ s.ok /\ (NamesWriter(cells) => Mergeable(s.writers, k))
                  /\ SoundLine(AsForm(line))
  BY <1>1, <1>2, Zenon DEF LineRead
<1>4. /\ l.controlled => l.role # NoRole /\ l.writer # Unknown
      /\ ~ l.controlled => (l.writer # Unknown => ~ l.writer.general) /\ l.saan = NoValue
      /\ l.controlled \in BOOLEAN
  BY DEF ALine, SoundLine, AsForm, WriterLine
<1>5. /\ l.writer # Unknown => /\ cells.name = l.writer.name /\ cells.ipi = l.writer.ipi
                               /\ cells.pro = l.writer.pro /\ l.writer \in src
      /\ UnderGeneral(l) => cells.saan = l.writer.saan /\ l.writer.general /\ l.controlled
  BY <1>1, CellsOf
<1>6. ~ l.controlled => cells.saan = NoValue
  BY <1>1, <1>4 DEF WriterCells
<1>7. ASSUME NamesWriter(cells) PROVE Mergeable(s.writers, k)
  <2>1. LookedFor(k, l, src)
    BY <1>1, <1>2, <1>7, LookupAsks
  <2>2. /\ l.writer \in src /\ k.name = l.writer.name /\ k.ipi = l.writer.ipi /\ k.pro = l.writer.pro
        /\ k.able = (k.ipi # NoValue /\ k.pro # NoValue) /\ k.general = UnderGeneral(l)
        /\ k.general => k.saan = l.writer.saan
    BY <1>1, <1>5, <2>1 DEF LookedFor
  <2>3. SoundWriter(k)
    BY <1>5, <2>2 DEF SoundWriter
  <2>4. ASSUME NEW v \in s.writers, v.ipi = k.ipi, k.ipi # NoValue \/ v.name = k.name
        PROVE  v.name = k.name /\ v.pro = k.pro /\ (v.general /\ k.general => v.saan = k.saan)
    <3>1. PICK x \in src : /\ x.name = v.name /\ x.ipi = v.ipi /\ x.pro = v.pro
                           /\ v.general => x.general /\ x.saan = v.saan
      BY <2>4 DEF Imports, ImportedFrom, Sourced
    <3>2. x = l.writer
      BY <2>2, <2>4, <3>1 DEF ToldApart
    <3>. QED BY <2>2, <3>1, <3>2
  <2>5. \A v \in s.writers \ Found(s.writers, k.name, k.ipi) : k.ipi = NoValue \/ v.ipi # k.ipi
    BY <2>4 DEF Found
  <2>6. PICK m : m = Merged(s.writers, k)
    OBVIOUS
  <2>7. (k.general => m.saan = k.saan) /\ m.pro = k.pro
    <3>1. PICK found : found = Found(s.writers, k.name, k.ipi)
      OBVIOUS
    <3>2. CASE found = {}
      <4>1. m = k
        BY <2>6, <3>1, <3>2, Zenon DEF Merged
      <4>. QED BY <4>1
    <3>3. CASE found # {}
      <4>1. PICK v \in found : m = Adopted(v, k)
        <5>1. m = Adopted(CHOOSE x \in found : TRUE, k)
          BY <2>6, <3>1, <3>3, Zenon DEF Merged
        <5>2. (CHOOSE x \in found : TRUE) \in found
          BY <3>3, Zenon
        <5>. QED BY <5>1, <5>2
      <4>2. v \in s.writers /\ v.name = k.name /\ v.ipi = k.ipi
        BY <3>1, <4>1 DEF Found
      <4>3. v.pro = k.pro /\ (v.general /\ k.general => v.saan = k.saan)
        BY <2>4, <4>2
      <4>4. v \in Contributor
        BY <4>2 DEF Imports, ImportedFrom
      <4>5. CASE k.general /\ ~ v.general
        <5>1. m = [v EXCEPT !.general = TRUE, !.saan = k.saan]
          BY <4>1, <4>5 DEF Adopted
        <5>. QED BY <4>3, <4>4, <5>1 DEF Contributor
      <4>6. CASE ~ (k.general /\ ~ v.general)
        <5>1. m = v
          BY <4>1, <4>6 DEF Adopted
        <5>. QED BY <4>3, <4>6, <5>1
      <4>. QED BY <4>5, <4>6
    <3>. QED BY <3>2, <3>3
  <2>. QED BY <2>3, <2>5, <2>6, <2>7, Zenon DEF Mergeable
<1>8. SoundLine(AsForm(line))
  <2>1. /\ AsForm(line).controlled = l.controlled /\ AsForm(line).role = l.role
        /\ AsForm(line).writer = w /\ AsForm(line).agreement = (line.saan # NoValue)
    BY <1>3 DEF AsForm
  <2>2. ASSUME NamesWriter(cells)
        PROVE  /\ w # Unknown /\ l.writer \in src
               /\ l.controlled => w.able
               /\ w.general => l.writer.general
    <3>1. LookedFor(k, l, src)
      BY <1>1, <1>2, <2>2, LookupAsks
    <3>2. Mergeable(s.writers, k)
      BY <1>7, <2>2
    <3>3. w = Merged(s.writers, k) /\ w \in Contributor
      BY <1>3, <2>2
    <3>4. ImportedFrom(w, src) /\ w.name = k.name /\ w.ipi = k.ipi /\ w.pro = k.pro
      BY <3>1, <3>2, <3>3, MergedIs
    <3>5. l.writer \in src /\ k.name = l.writer.name /\ k.ipi = l.writer.ipi /\ k.pro = l.writer.pro
      BY <3>1 DEF LookedFor
    <3>6. w.able = (w.ipi # NoValue /\ w.pro # NoValue)
      BY <3>4 DEF ImportedFrom
    <3>7. PICK x \in src : /\ x.name = w.name /\ x.ipi = w.ipi /\ x.pro = w.pro
                           /\ w.general => x.general /\ x.saan = w.saan
      BY <3>4 DEF ImportedFrom, Sourced
    <3>8. x = l.writer
      BY <3>4, <3>5, <3>7 DEF ToldApart
    <3>. QED BY <3>3, <3>4, <3>5, <3>6, <3>7, <3>8
  <2>3. CASE l.controlled
    <3>1. NamesWriter(cells)
      BY <1>4, <1>5, <2>3 DEF NamesWriter
    <3>2. w # Unknown /\ w.able
      BY <2>2, <2>3, <3>1
    <3>. QED BY <1>4, <2>1, <2>3, <3>2 DEF SoundLine
  <2>4. CASE ~ l.controlled
    <3>1. line.saan = NoValue
      BY <1>3, <1>6, <2>4
    <3>2. w # Unknown => ~ w.general
      BY <1>3, <1>4, <2>2, <2>4
    <3>. QED BY <2>1, <2>4, <3>1, <3>2 DEF SoundLine
  <2>. QED BY <2>3, <2>4
<1>. QED BY <1>3, <1>7, <1>8

\* The lines of a work, as the form accepted them.
ALines(lines, n, src) == DOMAIN lines = 1..n /\ \A i \in 1..n : ALine(lines[i], src)

\* The cells of the lines.
CellsFor(lines) == [i \in DOMAIN lines |-> WriterCells(lines[i])]

\* What is read of the lines of a row, one line after another.
ReadsOn(n, begin, lines, g) ==
  /\ g \in [0..n -> Reading] /\ g[0] = begin
  /\ g[n] = FoldLeft(ImportLine, begin, CellsFor(lines))
  /\ \A k \in 1..n : g[k] = ImportLine(g[k - 1], WriterCells(lines[k]))

LEMMA LinesReadInTurn ==
  ASSUME NEW src \in SUBSET Contributor, Unknown \notin Contributor, NEW n \in Nat, NEW lines,
         ALines(lines, n, src), NEW begin \in Reading
  PROVE  \E g : ReadsOn(n, begin, lines, g)
<1>. DEFINE cells == CellsFor(lines)
            Joins(f) == f = [T \in SUBSET DOMAIN cells |->
                               IF T = {} THEN begin
                               ELSE ImportLine(f[T \ {Max(T)}], cells[Max(T)])]
<1>1. PICK c : c = CHOOSE f : Joins(f)
  OBVIOUS
<1>2. FoldLeft(ImportLine, begin, cells) = c[DOMAIN cells]
  BY <1>1, Zenon DEF FoldLeft, MapThenFoldSet
<1>3. DOMAIN lines = 1..n /\ \A k \in 1..n : ALine(lines[k], src)
  BY Zenon DEF ALines
<1>4. DOMAIN cells = 1..n /\ \A k \in 1..n : cells[k] = WriterCells(lines[k])
  BY <1>3 DEF CellsFor
<1>. HIDE DEF cells
<1>5. PICK Q : Q = Reading
  OBVIOUS
<1>6. ASSUME NEW s \in Q, NEW k \in 1..n PROVE ImportLine(s, cells[k]) \in Q
  <2>1. ALine(lines[k], src) /\ s \in Reading
    BY <1>3, <1>5
  <2>2. ImportLine(s, WriterCells(lines[k])) \in Reading
    BY <2>1, LineIsRead
  <2>. QED BY <1>4, <1>5, <2>2
<1>7. PICK step \in [Q \X (1..n) -> Q] :
        \A k \in 1..n, s \in Q : step[<<s, k>>] = ImportLine(s, cells[k])
  <2>1. [x \in Q \X (1..n) |-> ImportLine(x[1], cells[x[2]])] \in [Q \X (1..n) -> Q]
    BY <1>6
  <2>. QED BY <2>1
<1>8. begin \in Q
  BY <1>5
<1>9. PICK f : Folds(n, Q, begin, step, f)
  BY <1>7, <1>8, FoldDefined
<1>10. Joins(f)
  <2>1. ASSUME NEW T \in SUBSET (1..n), T # {}
        PROVE  f[T] = ImportLine(f[T \ {Max(T)}], cells[Max(T)])
    <3>1. PICK x : x = Max(T)
      OBVIOUS
    <3>2. x \in 1..n /\ T \ {x} \in SUBSET (1..n)
      BY <2>1, <3>1, LastPosition
    <3>. QED BY <1>7, <1>9, <2>1, <3>1, <3>2 DEF Folds
  <2>2. f = [T \in SUBSET (1..n) |->
               IF T = {} THEN begin ELSE ImportLine(f[T \ {Max(T)}], cells[Max(T)])]
    BY <1>9, <2>1 DEF Folds
  <2>. QED BY <1>4, <2>2
<1>11. Joins(c)
  BY <1>1, <1>10, Zenon
<1>12. c[{}] = begin /\ \A k \in 1..n : c[1..k] = ImportLine(c[1..(k - 1)], cells[k])
  <2>1. ASSUME NEW k \in 1..n PROVE c[1..k] = ImportLine(c[1..(k - 1)], cells[k])
    <3>1. 1..k \in SUBSET DOMAIN cells /\ 1..k # {} /\ k \in Nat /\ k > 0
      <4>1. 1..k \subseteq 1..n /\ k \in 1..k /\ k \in Nat /\ k > 0
        OBVIOUS
      <4>2. 1..k # {}
        BY <4>1
      <4>. QED BY <1>4, <4>1, <4>2
    <3>2. Max(1..k) = k /\ (1..k) \ {Max(1..k)} = 1..(k - 1)
      BY <3>1, LastOfSegment
    <3>3. c[1..k] = ImportLine(c[(1..k) \ {Max(1..k)}], cells[Max(1..k)])
      BY <1>11, <3>1
    <3>. QED BY <3>2, <3>3
  <2>2. {} \in SUBSET DOMAIN cells
    OBVIOUS
  <2>. QED BY <1>11, <2>1, <2>2
<1>13. Follows(n, Q, begin, step, c)
  BY <1>7, <1>12 DEF Follows
<1>14. PICK g : Runs(n, Q, begin, step, c, g)
  BY <1>7, <1>8, <1>13, FoldRuns
<1>15. g \in [0..n -> Q] /\ g[0] = begin /\ g[n] = c[1..n]
  BY <1>14 DEF Runs
<1>16. \A k \in 1..n : g[k] = ImportLine(g[k - 1], WriterCells(lines[k]))
  <2>1. \A k \in 1..n : k - 1 \in 0..n
    OBVIOUS
  <2>. QED BY <1>4, <1>7, <1>14, <1>15, <2>1 DEF Runs
<1>17. g[n] = FoldLeft(ImportLine, begin, CellsFor(lines))
  BY <1>2, <1>4, <1>15 DEF cells
<1>. QED BY <1>5, <1>15, <1>16, <1>17 DEF ReadsOn

\* The first k lines are read for what they are.
LinesFollow(k, lines, s, src) ==
  /\ Imports(s.writers, src) /\ Len(s.lines) = k
  /\ \A i \in 1..k : /\ ReadAs(s.lines[i], lines[i], src) /\ SoundLine(AsForm(s.lines[i]))
                     /\ s.lines[i].writer # Unknown => StillIn(s.writers, s.lines[i].writer)

\* Lines that control, and writers with stored identifiers.
Stored(lines, n) ==
  \A i \in 1..n : lines[i].controlled => lines[i].writer.ipi # NoValue /\ lines[i].writer.pro # NoValue

\* The lines of a row, and what was read before them.
LEMMA LinesReadSoundly ==
  ASSUME NEW src \in SUBSET Contributor, Unknown \notin Contributor, NEW n \in Nat, NEW lines,
         ALines(lines, n, src), NEW begin \in Reading, begin.lines = <<>>,
         begin.ok => Imports(begin.writers, src),
         NEW read, read = FoldLeft(ImportLine, begin, CellsFor(lines))
  PROVE  /\ read \in Reading
         /\ read.ok => /\ begin.ok /\ LinesFollow(n, lines, read, src)
                       /\ \A x : StillIn(begin.writers, x) => StillIn(read.writers, x)
         /\ begin.ok /\ ToldApart(src) /\ Stored(lines, n) => read.ok
<1>1. PICK g : ReadsOn(n, begin, lines, g)
  BY LinesReadInTurn
<1>2. /\ g \in [0..n -> Reading] /\ g[0] = begin /\ g[n] = read
      /\ \A k \in 1..n : g[k] = ImportLine(g[k - 1], WriterCells(lines[k]))
  BY <1>1 DEF ReadsOn
<1>. DEFINE Faithful(k) == g[k].ok => /\ begin.ok /\ LinesFollow(k, lines, g[k], src)
                                   /\ \A x : StillIn(begin.writers, x) => StillIn(g[k].writers, x)
            Open(k) == begin.ok /\ ToldApart(src) /\ Stored(lines, n) => g[k].ok
<1>3. PICK A : A = {k \in 0..n : Faithful(k) /\ Open(k)}
  OBVIOUS
<1>4. 0 \in A
  <2>1. Faithful(0)
    BY <1>2 DEF LinesFollow
  <2>2. Open(0)
    BY <1>2
  <2>. QED BY <1>3, <2>1, <2>2
<1>5. ASSUME NEW k \in 0..n, k \in A, k < n PROVE k + 1 \in A
  <2>1. k + 1 \in 1..n /\ (k + 1) - 1 = k /\ k + 1 \in 0..n /\ 1..(k + 1) = (1..k) \cup {k + 1}
    BY <1>5
  <2>2. PICK s, t, l : /\ s = g[k] /\ t = g[k + 1] /\ l = lines[k + 1]
                       /\ s \in Reading /\ t \in Reading
    BY <1>2, <2>1
  <2>3. t = ImportLine(s, WriterCells(l)) /\ ALine(l, src)
    BY <1>2, <2>1, <2>2 DEF ALines
  <2>4. PICK w, line : LineRead(s, l, t, w, line)
    <3>1. s \in Reading
      BY <2>2
    <3>2. \E w, line : LineRead(s, l, ImportLine(s, WriterCells(l)), w, line)
      BY <2>3, <3>1, LineIsRead
    <3>. QED BY <2>3, <3>2
  <2>5. Faithful(k) /\ Open(k)
    BY <1>3, <1>5
  <2>6. t.ok => s.ok
    BY <2>4, Zenon DEF LineRead
  <2>7. /\ s.ok => LinesFollow(k, lines, s, src)
        /\ s.ok => begin.ok /\ \A x : StillIn(begin.writers, x) => StillIn(s.writers, x)
        /\ s.ok => Imports(s.writers, src)
    <3>1. s.ok => LinesFollow(k, lines, s, src)
      BY <2>2, <2>5, Zenon
    <3>2. s.ok => begin.ok /\ \A x : StillIn(begin.writers, x) => StillIn(s.writers, x)
      BY <2>2, <2>5, Zenon
    <3>. QED BY <3>1, <3>2, Zenon DEF LinesFollow
  <2>8. Faithful(k + 1)
    <3>. SUFFICES ASSUME t.ok
         PROVE  /\ begin.ok /\ LinesFollow(k + 1, lines, t, src)
                /\ \A x : StillIn(begin.writers, x) => StillIn(t.writers, x)
      BY <2>2
    <3>1. /\ s.ok /\ begin.ok /\ LinesFollow(k, lines, s, src)
          /\ \A x : StillIn(begin.writers, x) => StillIn(s.writers, x)
      BY <2>6, <2>7, Zenon
    <3>2. /\ Imports(t.writers, src) /\ ReadAs(line, l, src) /\ SoundLine(AsForm(line))
          /\ \A x : StillIn(s.writers, x) => StillIn(t.writers, x)
          /\ line.writer # Unknown => StillIn(t.writers, line.writer)
      BY <2>3, <2>4, <2>7, <3>1, ReadSoundly
    <3>3. t.lines = Append(s.lines, line) /\ line \in WriterLine
      BY <2>4, Zenon DEF LineRead
    <3>4. s.lines \in Seq(WriterLine) /\ Len(s.lines) = k
      BY <2>2, <3>1 DEF Reading, LinesFollow
    <3>5. Len(t.lines) = k + 1 /\ t.lines[k + 1] = line /\ \A i \in 1..k : t.lines[i] = s.lines[i]
      BY <3>3, <3>4
    <3>6. ASSUME NEW i \in 1..k
          PROVE  /\ ReadAs(t.lines[i], lines[i], src) /\ SoundLine(AsForm(t.lines[i]))
                 /\ t.lines[i].writer # Unknown => StillIn(t.writers, t.lines[i].writer)
      BY <3>1, <3>2, <3>5 DEF LinesFollow
    <3>7. LinesFollow(k + 1, lines, t, src)
      BY <2>1, <2>2, <3>2, <3>5, <3>6 DEF LinesFollow
    <3>. QED BY <3>1, <3>2, <3>7
  <2>9. Open(k + 1)
    <3>. SUFFICES ASSUME begin.ok, ToldApart(src), Stored(lines, n) PROVE t.ok
      BY <2>2
    <3>1. s.ok
      BY <2>2, <2>5
    <3>2. l.controlled => l.writer.ipi # NoValue /\ l.writer.pro # NoValue
      BY <2>1, <2>2 DEF Stored
    <3>. QED BY <2>3, <2>4, <2>7, <3>1, <3>2, LineIsAccepted
  <2>. QED BY <1>3, <2>1, <2>8, <2>9
<1>6. n \in A
  BY <1>4, <1>5, UpTo
<1>7. n \in 0..n
  OBVIOUS
<1>. QED BY <1>2, <1>3, <1>6, <1>7

\* The form of the lines.
FormOf(lines) == [i \in DOMAIN lines |-> AsForm(lines[i])]

\* The lines that were read are accepted as those that were written.
LEMMA FormIsAccepted ==
  ASSUME NEW src \in SUBSET Contributor, Unknown \notin Contributor, ToldApart(src),
         NEW n \in Nat, NEW lines, ALines(lines, n, src),
         NEW made, DOMAIN made = 1..n,
         \A i \in 1..n : ReadAs(made[i], lines[i], src) /\ SoundLine(AsForm(made[i])),
         NEW modification, Accepted(FormOf(lines), modification)
  PROVE  Accepted(FormOf(made), modification)
<1>1. PICK F, G : F = FormOf(lines) /\ G = FormOf(made)
  OBVIOUS
<1>2. /\ F = [i \in 1..n |-> AsForm(lines[i])] /\ G = [i \in 1..n |-> AsForm(made[i])]
      /\ DOMAIN F = 1..n /\ DOMAIN G = 1..n
  BY <1>1 DEF FormOf, ALines
<1>3. ASSUME NEW i \in 1..n
      PROVE  /\ F[i].role = lines[i].role /\ F[i].share = lines[i].share
             /\ F[i].controlled = lines[i].controlled /\ F[i].writer = lines[i].writer
             /\ G[i].role = made[i].role /\ G[i].share = made[i].share
             /\ G[i].controlled = made[i].controlled /\ G[i].writer = made[i].writer
  <2>1. F[i] = AsForm(lines[i]) /\ G[i] = AsForm(made[i])
    BY <1>2
  <2>. QED BY <2>1 DEF AsForm
<1>4. ASSUME NEW i \in 1..n
      PROVE  /\ G[i].role = F[i].role /\ G[i].share = F[i].share /\ G[i].controlled = F[i].controlled
             /\ SoundLine(G[i]) /\ SoundLine(F[i])
  <2>1. ReadAs(made[i], lines[i], src) /\ SoundLine(AsForm(made[i])) /\ ALine(lines[i], src)
    BY DEF ALines
  <2>2. made[i].role = lines[i].role /\ made[i].share = lines[i].share /\ made[i].controlled = lines[i].controlled
    BY <2>1 DEF ReadAs
  <2>3. F[i] = AsForm(lines[i]) /\ G[i] = AsForm(made[i])
    BY <1>2
  <2>. QED BY <1>3, <2>1, <2>2, <2>3 DEF ALine
<1>5. /\ Len(F) >= 1 /\ RolesFit(F, modification) /\ HasControlled(F) /\ HasComposer(F)
      /\ TotalIsWhole(F) /\ SameRole(F, modification)
  BY <1>1, Zenon DEF Accepted
<1>6. Len(G) = Len(F)
  <2>1. PICK S : S = {F[i] : i \in 1..n} \cup {G[i] : i \in 1..n}
    OBVIOUS
  <2>2. F \in Seq(S) /\ Len(F) = n
    BY <1>2, <2>1, ListMade
  <2>3. G \in Seq(S) /\ Len(G) = n
    BY <1>2, <2>1, ListMade
  <2>. QED BY <2>2, <2>3
<1>7. /\ \A l \in Lines(F) : \E i \in 1..n : l = F[i]
      /\ \A l \in Lines(G) : \E i \in 1..n : l = G[i]
      /\ \A i \in 1..n : F[i] \in Lines(F) /\ G[i] \in Lines(G)
  BY <1>2 DEF Lines, Range
<1>8. \A l \in Lines(G) : SoundLine(l)
  BY <1>4, <1>7
<1>15. /\ \A l \in Lines(F) : \E m \in Lines(G) : m.role = l.role /\ m.controlled = l.controlled
       /\ \A m \in Lines(G) : \E l \in Lines(F) : m.role = l.role
  <2>1. ASSUME NEW l \in Lines(F)
        PROVE  \E m \in Lines(G) : m.role = l.role /\ m.controlled = l.controlled
    <3>1. PICK i \in 1..n : l = F[i]
      BY <1>7
    <3>. QED BY <1>4, <1>7, <3>1
  <2>2. ASSUME NEW m \in Lines(G) PROVE \E l \in Lines(F) : m.role = l.role
    <3>1. PICK i \in 1..n : m = G[i]
      BY <1>7
    <3>. QED BY <1>4, <1>7, <3>1
  <2>. QED BY <2>1, <2>2
<1>9. RolesFit(G, modification)
  <2>1. CASE modification
    <3>1. PICK l \in Lines(F) : l.role \notin OriginalRoles \cup {NoRole}
      BY <1>5, <2>1, Zenon DEF RolesFit
    <3>2. PICK m \in Lines(G) : m.role = l.role
      BY <1>15, <3>1, Zenon
    <3>. QED BY <2>1, <3>1, <3>2, Zenon DEF RolesFit
  <2>2. CASE ~ modification
    <3>1. \A l \in Lines(F) : l.role \in OriginalRoles \cup {NoRole}
      BY <1>5, <2>2, Zenon DEF RolesFit
    <3>2. ASSUME NEW m \in Lines(G) PROVE m.role \in OriginalRoles \cup {NoRole}
      BY <1>15, <3>1, Zenon
    <3>. QED BY <2>2, <3>2, Zenon DEF RolesFit
  <2>. QED BY <2>1, <2>2
<1>10. HasControlled(G) /\ HasComposer(G)
  <2>1. PICK l \in Lines(F) : l.controlled
    BY <1>5, Zenon DEF HasControlled
  <2>2. PICK m \in Lines(G) : m.role = l.role /\ m.controlled = l.controlled
    BY <1>15, Zenon
  <2>3. HasControlled(G)
    BY <2>1, <2>2, Zenon DEF HasControlled
  <2>4. PICK k \in Lines(F) : k.role \in {"C ", "CA"}
    BY <1>5, Zenon DEF HasComposer
  <2>5. PICK j \in Lines(G) : j.role = k.role
    BY <1>15, Zenon
  <2>6. HasComposer(G)
    BY <2>4, <2>5, Zenon DEF HasComposer
  <2>. QED BY <2>3, <2>6
<1>11. TotalIsWhole(G)
  <2>1. [i \in DOMAIN F |-> F[i].share] = [i \in DOMAIN G |-> G[i].share]
    BY <1>2, <1>4
  <2>2. ManuscriptTotal(F) = ManuscriptTotal(G)
    BY <2>1 DEF ManuscriptTotal
  <2>. QED BY <1>5, <2>2 DEF TotalIsWhole
<1>12. ASSUME NEW i \in 1..n, G[i].writer # Unknown, ~ G[i].controlled
       PROVE  F[i].writer # Unknown /\ ControlledRole(G, G[i].writer) = ControlledRole(F, F[i].writer)
  <2>1. PICK x, m : x = lines[i].writer /\ m = made[i].writer
    OBVIOUS
  <2>2. G[i].writer = m /\ F[i].writer = x /\ m # Unknown /\ ~ lines[i].controlled
    BY <1>3, <1>4, <1>12, <2>1
  <2>3. /\ x # Unknown /\ ImportedFrom(m, src) /\ m.name = x.name /\ m.ipi = x.ipi /\ m.pro = x.pro
    BY <2>1, <2>2 DEF ReadAs
  <2>4. x \in src /\ ~ x.general
    <3>1. ALine(lines[i], src)
      BY DEF ALines
    <3>2. SoundLine(F[i])
      BY <1>4
    <3>. QED BY <1>3, <2>1, <2>2, <2>3, <3>1, <3>2 DEF ALine, SoundLine
  <2>5. ASSUME NEW j \in 1..n, lines[j].controlled
        PROVE  (made[j].writer = m) <=> (lines[j].writer = x)
    <3>1. PICK y, v : y = lines[j].writer /\ v = made[j].writer
      OBVIOUS
    <3>2. /\ ReadAs(made[j], lines[j], src) /\ SoundLine(AsForm(made[j])) /\ ALine(lines[j], src)
      BY DEF ALines
    <3>3. v # Unknown
      <4>1. made[j].controlled
        BY <2>5, <3>2 DEF ReadAs
      <4>. QED BY <3>1, <3>2, <4>1 DEF SoundLine, AsForm
    <3>4. /\ y # Unknown /\ ImportedFrom(v, src) /\ v.name = y.name /\ v.ipi = y.ipi /\ v.pro = y.pro
      BY <3>1, <3>2, <3>3 DEF ReadAs
    <3>5. y \in src
      BY <3>1, <3>2, <3>4 DEF ALine
    <3>6. v = m => y = x
      BY <2>3, <2>4, <3>4, <3>5 DEF ToldApart
    <3>7. ASSUME y = x PROVE v = m
      <4>1. ~ v.general /\ ~ m.general
        <5>1. ASSUME NEW u, ImportedFrom(u, src), u.name = x.name, u.ipi = x.ipi PROVE ~ u.general
          BY <2>4, <5>1 DEF ImportedFrom, Sourced, ToldApart
        <5>. QED BY <2>3, <3>4, <3>7, <5>1
      <4>2. /\ v \in Contributor /\ m \in Contributor /\ v.saan = NoValue /\ m.saan = NoValue
            /\ v.able = (v.ipi # NoValue /\ v.pro # NoValue) /\ m.able = (m.ipi # NoValue /\ m.pro # NoValue)
        BY <2>3, <3>4, <4>1 DEF ImportedFrom
      <4>3. v.name = m.name /\ v.ipi = m.ipi /\ v.pro = m.pro /\ v.saan = m.saan /\ v.able = m.able
        BY <2>3, <3>4, <3>7, <4>2
      <4>4. v.general = m.general
        BY <4>1, <4>2 DEF Contributor
      <4>. QED BY <4>2, <4>3, <4>4 DEF Contributor
    <3>. QED BY <3>1, <3>6, <3>7
  <2>6. PICK at : at = {j \in 1..n : F[j].controlled /\ F[j].writer = x}
    OBVIOUS
  <2>7. at = {j \in DOMAIN F : F[j].controlled /\ F[j].writer = x}
    BY <1>2, <2>6
  <2>8. at = {j \in DOMAIN G : G[j].controlled /\ G[j].writer = m}
    <3>1. ASSUME NEW j \in 1..n
          PROVE  (F[j].controlled /\ F[j].writer = x) <=> (G[j].controlled /\ G[j].writer = m)
      <4>1. /\ F[j].controlled = lines[j].controlled /\ F[j].writer = lines[j].writer
            /\ G[j].controlled = lines[j].controlled /\ G[j].writer = made[j].writer
        BY <1>3, <1>4
      <4>2. lines[j].controlled => ((made[j].writer = m) <=> (lines[j].writer = x))
        BY <2>5
      <4>. QED BY <4>1, <4>2
    <3>. QED BY <1>2, <2>6, <3>1
  <2>9. ControlledRole(F, x) = IF at = {} THEN NoRole ELSE F[Max(at)].role
    BY <2>7, Zenon DEF ControlledRole
  <2>10. ControlledRole(G, m) = IF at = {} THEN NoRole ELSE G[Max(at)].role
    BY <2>8, Zenon DEF ControlledRole
  <2>11. at # {} => Max(at) \in 1..n
    BY <2>6, LastPosition
  <2>. QED BY <1>4, <2>2, <2>3, <2>9, <2>10, <2>11
<1>13. SameRole(G, modification)
  <2>. SUFFICES ASSUME modification, NEW i \in 1..n, G[i].writer # Unknown, ~ G[i].controlled,
                       ControlledRole(G, G[i].writer) # NoRole
                PROVE  G[i].role = ControlledRole(G, G[i].writer)
    BY <1>7 DEF SameRole
  <2>1. F[i].writer # Unknown /\ ControlledRole(G, G[i].writer) = ControlledRole(F, F[i].writer)
    BY <1>12
  <2>2. ~ F[i].controlled /\ F[i] \in Lines(F)
    BY <1>4, <1>7
  <2>3. F[i].role = ControlledRole(F, F[i].writer)
    BY <1>5, <2>1, <2>2 DEF SameRole
  <2>. QED BY <1>4, <2>1, <2>3
<1>14. Len(G) >= 1
  BY <1>5, <1>6
<1>. QED BY <1>1, <1>8, <1>9, <1>10, <1>11, <1>13, <1>14, Zenon DEF Accepted

\* What the importer takes over of the works.
Isrcs(work) == {r.isrc : r \in Range(Row(work).recordings)}
TakenOver(works) ==
  [id : {w.id : w \in Range(works)}, modification : {w.modification : w \in Range(works)},
   writers : Seq(WriterLine), recordings : {Isrcs(w) : w \in Range(works)}]
Importing(works) == [ok : BOOLEAN, writers : SUBSET Contributor, works : Seq(TakenOver(works))]

\* A work of the catalogue.
AWork(w, src) ==
  /\ ALines(w.writers, Len(w.writers), src) /\ Len(w.writers) \in Nat
  /\ Accepted(FormOf(w.writers), w.modification)

\* A row is read into a work.
RowRead(s, w, ignore, t, read, made) ==
  /\ read = FoldLeft(ImportLine, [ok |-> s.ok, writers |-> s.writers, lines |-> <<>>],
                     CellsFor(w.writers))
  /\ made.id = w.id /\ made.writers = read.lines
  /\ t.ok <=> /\ read.ok /\ KnownColumns(Row(w), ignore)
              /\ Complete(FormOf(read.lines), w.modification)
              /\ \A x \in Range(s.works) : x.id # w.id
  /\ t.writers = read.writers /\ t.works = Append(s.works, made)

LEMMA RowIsRead ==
  ASSUME NEW src \in SUBSET Contributor, Unknown \notin Contributor, NEW works,
         NEW w \in Range(works), AWork(w, src), NEW ignore, NEW s \in Importing(works)
  PROVE  /\ ImportRow(s, Row(w), ignore) \in Importing(works)
         /\ \E read : \E made \in TakenOver(works) : RowRead(s, w, ignore, ImportRow(s, Row(w), ignore), read, made)
<1>1. PICK row : row = Row(w)
  OBVIOUS
<1>2. /\ row.work_id = w.id /\ row.original_title = w.modification
      /\ row.writers = CellsFor(w.writers)
  BY <1>1 DEF Row, CellsFor
<1>3. PICK begin : begin = [ok |-> s.ok, writers |-> s.writers, lines |-> <<>>]
  OBVIOUS
<1>4. PICK read : read = FoldLeft(ImportLine, begin, CellsFor(w.writers))
  OBVIOUS
<1>5. PICK made : made = [id |-> row.work_id, modification |-> row.original_title,
                          writers |-> read.lines,
                          recordings |-> {r.isrc : r \in Range(row.recordings)}]
  OBVIOUS
<1>6. PICK t : t = ImportRow(s, row, ignore)
  OBVIOUS
<1>7. t = [ok      |-> /\ read.ok /\ KnownColumns(row, ignore)
                       /\ Complete(FormOf(read.lines), row.original_title)
                       /\ \A x \in Range(s.works) : x.id # row.work_id,
           writers |-> read.writers,
           works   |-> Append(s.works, made)]
  <2>1. FormOf(read.lines) = [i \in DOMAIN read.lines |-> AsForm(read.lines[i])]
    BY Zenon DEF FormOf
  <2>2. read = FoldLeft(ImportLine, [ok |-> s.ok, writers |-> s.writers, lines |-> <<>>], row.writers)
    BY <1>2, <1>3, <1>4, Zenon
  <2>. QED BY <1>5, <1>6, <2>1, <2>2, Zenon DEF ImportRow
<1>8. s.ok \in BOOLEAN /\ s.writers \in SUBSET Contributor /\ s.works \in Seq(TakenOver(works))
  BY DEF Importing
<1>9. read \in Reading
  <2>1. begin \in Reading
    BY <1>3, <1>8 DEF Reading
  <2>2. PICK n \in Nat : n = Len(w.writers)
    BY DEF AWork
  <2>3. ALines(w.writers, n, src)
    BY <2>2 DEF AWork
  <2>4. PICK g : ReadsOn(n, begin, w.writers, g)
    BY <2>1, <2>3, LinesReadInTurn
  <2>5. g \in [0..n -> Reading] /\ g[n] = read /\ n \in 0..n
    BY <1>4, <2>4 DEF ReadsOn
  <2>. QED BY <2>5
<1>10. made \in TakenOver(works)
  <2>1. w.id \in {x.id : x \in Range(works)} /\ w.modification \in {x.modification : x \in Range(works)}
    OBVIOUS
  <2>2. {r.isrc : r \in Range(row.recordings)} \in {Isrcs(x) : x \in Range(works)}
    BY <1>1 DEF Isrcs
  <2>3. read.lines \in Seq(WriterLine)
    BY <1>9 DEF Reading
  <2>. QED BY <1>2, <1>5, <2>1, <2>2, <2>3 DEF TakenOver
<1>11. made.id = w.id /\ made.writers = read.lines
  BY <1>2, <1>5
<1>12. /\ t.ok <=> /\ read.ok /\ KnownColumns(row, ignore)
                   /\ Complete(FormOf(read.lines), w.modification)
                   /\ \A x \in Range(s.works) : x.id # w.id
       /\ t.writers = read.writers /\ t.works = Append(s.works, made)
  BY <1>2, <1>7
<1>13. t \in Importing(works)
  <2>1. read.writers \in SUBSET Contributor
    BY <1>9 DEF Reading
  <2>2. Append(s.works, made) \in Seq(TakenOver(works))
    <3>1. PICK S : S = TakenOver(works)
      OBVIOUS
    <3>2. Append(s.works, made) \in Seq(S)
      BY <1>8, <1>10, <3>1
    <3>. QED BY <3>1, <3>2
  <2>3. t.ok \in BOOLEAN
    BY <1>7
  <2>. QED BY <1>7, <2>1, <2>2, <2>3 DEF Importing
<1>14. RowRead(s, w, ignore, t, read, made)
  <2>1. read = FoldLeft(ImportLine, [ok |-> s.ok, writers |-> s.writers, lines |-> <<>>],
                        CellsFor(w.writers))
    BY <1>3, <1>4, Zenon
  <2>2. t.ok <=> /\ read.ok /\ KnownColumns(Row(w), ignore)
                 /\ Complete(FormOf(read.lines), w.modification)
                 /\ \A x \in Range(s.works) : x.id # w.id
    BY <1>1, <1>12, Zenon
  <2>. QED BY <1>11, <1>12, <2>1, <2>2, Zenon DEF RowRead
<1>. QED BY <1>1, <1>6, <1>10, <1>13, <1>14

\* The works of a catalogue.
AWorks(works, n, src) == DOMAIN works = 1..n /\ \A i \in 1..n : AWork(works[i], src)

\* An import begins in a database without works.
Begun == [ok |-> TRUE, writers |-> {}, works |-> <<>>]

\* The file with the works is imported.
ImportOf(works, ignore) == FoldLeft(LAMBDA t, w : ImportRow(t, Row(w), ignore), Begun, works)

\* What is read of the works, one after another.
RowsOn(n, works, ignore, g) ==
  /\ g \in [0..n -> Importing(works)] /\ g[0] = Begun
  /\ g[n] = ImportOf(works, ignore)
  /\ \A k \in 1..n : g[k] = ImportRow(g[k - 1], Row(works[k]), ignore)

LEMMA RowsReadInTurn ==
  ASSUME NEW src \in SUBSET Contributor, Unknown \notin Contributor, NEW n \in Nat, NEW works,
         AWorks(works, n, src), NEW ignore
  PROVE  \E g : RowsOn(n, works, ignore, g)
<1>. DEFINE Joins(f) == f = [T \in SUBSET DOMAIN works |->
                               IF T = {} THEN Begun
                               ELSE ImportRow(f[T \ {Max(T)}], Row(works[Max(T)]), ignore)]
<1>1. PICK c : c = CHOOSE f : Joins(f)
  OBVIOUS
<1>2. ImportOf(works, ignore) = c[DOMAIN works]
  BY <1>1, Zenon DEF ImportOf, FoldLeft, MapThenFoldSet
<1>3. DOMAIN works = 1..n /\ \A k \in 1..n : AWork(works[k], src) /\ works[k] \in Range(works)
  BY DEF AWorks, Range
<1>4. PICK Q : Q = Importing(works)
  OBVIOUS
<1>5. ASSUME NEW s \in Q, NEW k \in 1..n PROVE ImportRow(s, Row(works[k]), ignore) \in Q
  <2>1. AWork(works[k], src) /\ works[k] \in Range(works) /\ s \in Importing(works)
    BY <1>3, <1>4
  <2>2. ImportRow(s, Row(works[k]), ignore) \in Importing(works)
    BY <2>1, RowIsRead
  <2>. QED BY <1>4, <2>2
<1>6. PICK step \in [Q \X (1..n) -> Q] :
        \A k \in 1..n, s \in Q : step[<<s, k>>] = ImportRow(s, Row(works[k]), ignore)
  <2>1. [x \in Q \X (1..n) |-> ImportRow(x[1], Row(works[x[2]]), ignore)] \in [Q \X (1..n) -> Q]
    BY <1>5
  <2>. QED BY <2>1
<1>7. Begun \in Q
  BY <1>4 DEF Importing, Begun
<1>8. PICK f : Folds(n, Q, Begun, step, f)
  BY <1>6, <1>7, FoldDefined
<1>9. Joins(f)
  <2>1. ASSUME NEW T \in SUBSET (1..n), T # {}
        PROVE  f[T] = ImportRow(f[T \ {Max(T)}], Row(works[Max(T)]), ignore)
    <3>1. PICK x : x = Max(T)
      OBVIOUS
    <3>2. x \in 1..n /\ T \ {x} \in SUBSET (1..n)
      BY <2>1, <3>1, LastPosition
    <3>. QED BY <1>6, <1>8, <2>1, <3>1, <3>2 DEF Folds
  <2>2. f = [T \in SUBSET (1..n) |->
               IF T = {} THEN Begun ELSE ImportRow(f[T \ {Max(T)}], Row(works[Max(T)]), ignore)]
    BY <1>8, <2>1 DEF Folds
  <2>. QED BY <1>3, <2>2
<1>10. Joins(c)
  BY <1>1, <1>9, Zenon
<1>11. c[{}] = Begun /\ \A k \in 1..n : c[1..k] = ImportRow(c[1..(k - 1)], Row(works[k]), ignore)
  <2>1. ASSUME NEW k \in 1..n PROVE c[1..k] = ImportRow(c[1..(k - 1)], Row(works[k]), ignore)
    <3>1. 1..k \in SUBSET DOMAIN works /\ 1..k # {} /\ k \in Nat /\ k > 0
      <4>1. 1..k \subseteq 1..n /\ k \in 1..k /\ k \in Nat /\ k > 0
        OBVIOUS
      <4>2. 1..k # {}
        BY <4>1
      <4>. QED BY <1>3, <4>1, <4>2
    <3>2. Max(1..k) = k /\ (1..k) \ {Max(1..k)} = 1..(k - 1)
      BY <3>1, LastOfSegment
    <3>3. c[1..k] = ImportRow(c[(1..k) \ {Max(1..k)}], Row(works[Max(1..k)]), ignore)
      BY <1>10, <3>1
    <3>. QED BY <3>2, <3>3
  <2>2. {} \in SUBSET DOMAIN works
    OBVIOUS
  <2>. QED BY <1>10, <2>1, <2>2
<1>12. Follows(n, Q, Begun, step, c)
  BY <1>6, <1>11 DEF Follows
<1>13. PICK g : Runs(n, Q, Begun, step, c, g)
  BY <1>6, <1>7, <1>12, FoldRuns
<1>14. g \in [0..n -> Q] /\ g[0] = Begun /\ g[n] = c[1..n]
  BY <1>13 DEF Runs
<1>15. \A k \in 1..n : g[k] = ImportRow(g[k - 1], Row(works[k]), ignore)
  <2>1. \A k \in 1..n : k - 1 \in 0..n
    OBVIOUS
  <2>. QED BY <1>6, <1>13, <1>14, <2>1 DEF Runs
<1>16. g[n] = ImportOf(works, ignore)
  BY <1>2, <1>3, <1>14
<1>. QED BY <1>4, <1>14, <1>15, <1>16 DEF RowsOn

\* A work was read for what it is, and its writers are among the imported ones.
ReadWork(made, w, writers, src) ==
  /\ made.id = w.id /\ DOMAIN made.writers = DOMAIN w.writers
  /\ \A j \in DOMAIN w.writers :
       /\ ReadAs(made.writers[j], w.writers[j], src) /\ SoundLine(AsForm(made.writers[j]))
       /\ made.writers[j].writer # Unknown => StillIn(writers, made.writers[j].writer)

\* What was accepted so far was read for what it is.
SoFar(s, src) == s.ok => Imports(s.writers, src)

\* From s to t a work was read.
ReadOn(s, w, ignore, t, made, src) ==
  /\ t.ok => /\ s.ok /\ Imports(t.writers, src) /\ ReadWork(made, w, t.writers, src)
             /\ \A x : StillIn(s.writers, x) => StillIn(t.writers, x)
  /\ (/\ s.ok /\ ToldApart(src) /\ Stored(w.writers, Len(w.writers))
      /\ KnownColumns(Row(w), ignore) /\ \A x \in Range(s.works) : x.id # w.id)
     => t.ok

LEMMA RowReadSoundly ==
  ASSUME NEW src \in SUBSET Contributor, Unknown \notin Contributor, NEW works,
         NEW w, AWork(w, src), NEW ignore, NEW s \in Importing(works), SoFar(s, src),
         NEW t, NEW read, NEW made, RowRead(s, w, ignore, t, read, made)
  PROVE  ReadOn(s, w, ignore, t, made, src)
<1>1. PICK n, lines : n = Len(w.writers) /\ lines = w.writers
  OBVIOUS
<1>2. n \in Nat /\ ALines(lines, n, src) /\ Accepted(FormOf(lines), w.modification)
  BY <1>1 DEF AWork
<1>3. PICK begin : begin = [ok |-> s.ok, writers |-> s.writers, lines |-> <<>>]
  OBVIOUS
<1>4. begin \in Reading /\ begin.ok = s.ok /\ begin.writers = s.writers /\ begin.lines = <<>>
  <2>1. s.ok \in BOOLEAN /\ s.writers \in SUBSET Contributor
    BY DEF Importing
  <2>. QED BY <1>3, <2>1 DEF Reading
<1>5. /\ read = FoldLeft(ImportLine, begin, CellsFor(lines))
      /\ made.id = w.id /\ made.writers = read.lines
      /\ t.ok <=> /\ read.ok /\ KnownColumns(Row(w), ignore)
                  /\ Complete(FormOf(read.lines), w.modification)
                  /\ \A x \in Range(s.works) : x.id # w.id
      /\ t.writers = read.writers
  BY <1>1, <1>3, Zenon DEF RowRead
<1>6. begin.ok => Imports(begin.writers, src)
  BY <1>4 DEF SoFar
<1>7. /\ read \in Reading
      /\ read.ok => /\ begin.ok /\ LinesFollow(n, lines, read, src)
                    /\ \A x : StillIn(begin.writers, x) => StillIn(read.writers, x)
      /\ begin.ok /\ ToldApart(src) /\ Stored(lines, n) => read.ok
  BY <1>2, <1>4, <1>5, <1>6, LinesReadSoundly
<1>8. read.ok => DOMAIN read.lines = 1..n
  <2>1. read.lines \in Seq(WriterLine)
    BY <1>7 DEF Reading
  <2>2. read.ok => Len(read.lines) = n
    BY <1>7 DEF LinesFollow
  <2>. QED BY <2>1, <2>2
<1>9. DOMAIN lines = 1..n
  BY <1>2 DEF ALines
<1>10. ASSUME read.ok PROVE Imports(read.writers, src) /\ ReadWork(made, w, read.writers, src)
  <2>1. LinesFollow(n, lines, read, src)
    BY <1>7, <1>10
  <2>2. Imports(read.writers, src)
    BY <2>1, Zenon DEF LinesFollow
  <2>3. \A i \in 1..n : /\ ReadAs(read.lines[i], lines[i], src) /\ SoundLine(AsForm(read.lines[i]))
                        /\ read.lines[i].writer # Unknown => StillIn(read.writers, read.lines[i].writer)
    BY <2>1, Zenon DEF LinesFollow
  <2>4. made.writers = read.lines /\ DOMAIN made.writers = DOMAIN w.writers /\ DOMAIN w.writers = 1..n
    BY <1>1, <1>5, <1>8, <1>9, <1>10
  <2>5. ReadWork(made, w, read.writers, src)
    BY <1>1, <1>5, <2>3, <2>4, Zenon DEF ReadWork
  <2>. QED BY <2>2, <2>5
<1>11. ASSUME t.ok
       PROVE  /\ s.ok /\ Imports(t.writers, src) /\ ReadWork(made, w, t.writers, src)
              /\ \A x : StillIn(s.writers, x) => StillIn(t.writers, x)
  <2>1. read.ok
    BY <1>5, <1>11
  <2>. QED BY <1>4, <1>5, <1>7, <1>10, <2>1
<1>12. ASSUME s.ok, ToldApart(src), Stored(w.writers, Len(w.writers)),
              KnownColumns(Row(w), ignore), \A x \in Range(s.works) : x.id # w.id
       PROVE  t.ok
  <2>1. Stored(lines, n)
    BY <1>1, <1>12
  <2>2. read.ok
    BY <1>4, <1>7, <1>12, <2>1
  <2>3. LinesFollow(n, lines, read, src)
    BY <1>7, <2>2
  <2>4. \A i \in 1..n : ReadAs(read.lines[i], lines[i], src) /\ SoundLine(AsForm(read.lines[i]))
    BY <2>3, Zenon DEF LinesFollow
  <2>5. DOMAIN read.lines = 1..n
    BY <1>8, <2>2
  <2>6. Accepted(FormOf(read.lines), w.modification)
    BY <1>2, <1>12, <2>4, <2>5, FormIsAccepted
  <2>7. Complete(FormOf(read.lines), w.modification)
    BY <2>6, Zenon DEF Accepted, Complete, RolesFit
  <2>. QED BY <1>5, <1>12, <2>2, <2>7
<1>. QED BY <1>11, <1>12, Zenon DEF ReadOn

\* What no later writer takes away from a work that was read.
LEMMA WorkStaysRead ==
  ASSUME NEW made, NEW w, NEW src, NEW old, NEW new, ReadWork(made, w, old, src),
         \A x : StillIn(old, x) => StillIn(new, x)
  PROVE  ReadWork(made, w, new, src)
BY DEF ReadWork

\* The first k works were read.
WorksFollow(k, works, s, src) ==
  /\ Imports(s.writers, src) /\ Len(s.works) = k
  /\ \A i \in 1..k : ReadWork(s.works[i], works[i], s.writers, src)

\* Works that can be read back: identifiers are stored, writers told apart, columns known.
CanBeRead(works, n, ignore, src) ==
  /\ ToldApart(src)
  /\ \A i \in 1..n : /\ Stored(works[i].writers, Len(works[i].writers))
                     /\ KnownColumns(Row(works[i]), ignore)

\* The works of a file are read for what they are, and accepted if they are readable.
LEMMA WorksReadSoundly ==
  ASSUME NEW src \in SUBSET Contributor, Unknown \notin Contributor, NEW n \in Nat, NEW works,
         AWorks(works, n, src), \A i, j \in 1..n : works[i].id = works[j].id => i = j, NEW ignore,
         NEW s, s = ImportOf(works, ignore)
  PROVE  /\ s \in Importing(works)
         /\ s.ok => WorksFollow(n, works, s, src)
         /\ CanBeRead(works, n, ignore, src) => s.ok
<1>1. PICK g : RowsOn(n, works, ignore, g)
  BY RowsReadInTurn
<1>2. /\ g \in [0..n -> Importing(works)] /\ g[0] = Begun /\ g[n] = s
      /\ \A k \in 1..n : g[k] = ImportRow(g[k - 1], Row(works[k]), ignore)
  BY <1>1 DEF RowsOn
<1>3. PICK A : A = {k \in 0..n : /\ g[k].ok => WorksFollow(k, works, g[k], src)
                                 /\ CanBeRead(works, n, ignore, src) => g[k].ok /\ WorksFollow(k, works, g[k], src)}
  OBVIOUS
<1>4. 0 \in A
  <2>1. g[0].ok /\ g[0].writers = {} /\ g[0].works = <<>> /\ 0 \in 0..n
    BY <1>2 DEF Begun
  <2>2. Imports(g[0].writers, src) /\ Len(g[0].works) = 0
    BY <2>1 DEF Imports
  <2>3. WorksFollow(0, works, g[0], src)
    BY <2>2 DEF WorksFollow
  <2>. QED BY <1>3, <2>1, <2>3
<1>5. ASSUME NEW k \in 0..n, k \in A, k < n PROVE k + 1 \in A
  <2>1. k + 1 \in 1..n /\ (k + 1) - 1 = k /\ k + 1 \in 0..n /\ 1..(k + 1) = (1..k) \cup {k + 1}
    BY <1>5
  <2>2. PICK p, t, w : /\ p = g[k] /\ t = g[k + 1] /\ w = works[k + 1]
                       /\ p \in Importing(works) /\ t \in Importing(works)
    BY <1>2, <2>1
  <2>3. t = ImportRow(p, Row(w), ignore) /\ AWork(w, src) /\ w \in Range(works)
    BY <1>2, <2>1, <2>2 DEF AWorks, Range
  <2>4. PICK read : \E made \in TakenOver(works) : RowRead(p, w, ignore, t, read, made)
    <3>1. \E read : \E made \in TakenOver(works) :
            RowRead(p, w, ignore, ImportRow(p, Row(w), ignore), read, made)
      BY <2>2, <2>3, RowIsRead
    <3>. QED BY <2>3, <3>1
  <2>5. PICK made \in TakenOver(works) : RowRead(p, w, ignore, t, read, made)
    BY <2>4
  <2>6. /\ p.ok => WorksFollow(k, works, p, src)
        /\ CanBeRead(works, n, ignore, src) => p.ok /\ WorksFollow(k, works, p, src)
    BY <1>3, <1>5, <2>2
  <2>7. SoFar(p, src)
    BY <2>6, Zenon DEF WorksFollow, SoFar
  <2>8. /\ t.ok => /\ p.ok /\ Imports(t.writers, src) /\ ReadWork(made, w, t.writers, src)
                   /\ \A x : StillIn(p.writers, x) => StillIn(t.writers, x)
        /\ (/\ p.ok /\ ToldApart(src) /\ Stored(w.writers, Len(w.writers))
            /\ KnownColumns(Row(w), ignore) /\ \A x \in Range(p.works) : x.id # w.id)
           => t.ok
    <3>1. p \in Importing(works) /\ AWork(w, src)
      BY <2>2, <2>3
    <3>2. RowRead(p, w, ignore, t, read, made)
      BY <2>5
    <3>3. ReadOn(p, w, ignore, t, made, src)
      BY <2>7, <3>1, <3>2, RowReadSoundly
    <3>. QED BY <3>3, Zenon DEF ReadOn
  <2>9. t.works = Append(p.works, made) /\ p.works \in Seq(TakenOver(works))
    BY <2>2, <2>5 DEF RowRead, Importing
  <2>10. ASSUME t.ok PROVE WorksFollow(k + 1, works, t, src)
    <3>1. /\ Imports(t.writers, src) /\ ReadWork(made, w, t.writers, src)
          /\ \A x : StillIn(p.writers, x) => StillIn(t.writers, x)
          /\ WorksFollow(k, works, p, src)
      BY <2>6, <2>8, <2>10
    <3>2. Len(p.works) = k /\ \A i \in 1..k : ReadWork(p.works[i], works[i], p.writers, src)
      BY <3>1 DEF WorksFollow
    <3>3. PICK S : S = TakenOver(works)
      OBVIOUS
    <3>4. p.works \in Seq(S) /\ made \in S
      BY <2>9, <3>3
    <3>5. Len(t.works) = k + 1 /\ t.works[k + 1] = made /\ \A i \in 1..k : t.works[i] = p.works[i]
      BY <2>9, <3>2, <3>4
    <3>6. ASSUME NEW i \in 1..k PROVE ReadWork(t.works[i], works[i], t.writers, src)
      <4>1. ReadWork(p.works[i], works[i], p.writers, src)
        BY <3>2
      <4>2. ReadWork(p.works[i], works[i], t.writers, src)
        BY <3>1, <4>1, WorkStaysRead
      <4>. QED BY <3>5, <4>2
    <3>7. ReadWork(t.works[k + 1], works[k + 1], t.writers, src)
      BY <2>2, <3>1, <3>5
    <3>8. \A i \in 1..(k + 1) : ReadWork(t.works[i], works[i], t.writers, src)
      BY <2>1, <3>6, <3>7
    <3>. QED BY <3>1, <3>5, <3>8, Zenon DEF WorksFollow
  <2>11. ASSUME CanBeRead(works, n, ignore, src) PROVE t.ok
    <3>1. p.ok /\ WorksFollow(k, works, p, src)
      BY <2>6, <2>11
    <3>2. ToldApart(src) /\ Stored(w.writers, Len(w.writers)) /\ KnownColumns(Row(w), ignore)
      BY <2>1, <2>2, <2>11 DEF CanBeRead
    <3>3. ASSUME NEW x \in Range(p.works) PROVE x.id # w.id
      <4>1. Len(p.works) = k /\ \A i \in 1..k : ReadWork(p.works[i], works[i], p.writers, src)
        BY <3>1 DEF WorksFollow
      <4>2. PICK S : S = TakenOver(works)
        OBVIOUS
      <4>3. p.works \in Seq(S)
        BY <2>9, <4>2
      <4>4. DOMAIN p.works = 1..k
        BY <4>1, <4>3
      <4>5. PICK i \in 1..k : x = p.works[i]
        BY <4>4 DEF Range
      <4>6. x.id = works[i].id
        BY <4>1, <4>5 DEF ReadWork
      <4>7. i \in 1..n /\ i # k + 1
        BY <1>5
      <4>. QED BY <2>1, <2>2, <4>6, <4>7
    <3>. QED BY <2>8, <3>1, <3>2, <3>3
  <2>12. /\ t.ok => WorksFollow(k + 1, works, t, src)
         /\ CanBeRead(works, n, ignore, src) => t.ok /\ WorksFollow(k + 1, works, t, src)
    BY <2>10, <2>11
  <2>. QED BY <1>3, <2>1, <2>2, <2>12
<1>6. n \in A
  BY <1>4, <1>5, UpTo
<1>7. n \in 0..n
  OBVIOUS
<1>. QED BY <1>2, <1>3, <1>6, <1>7

\* A line that points to its writer as it is in the end.
LineInTheEnd(writers, line) ==
  IF line.writer = Unknown THEN line
  ELSE [line EXCEPT !.writer = CHOOSE w \in Found(writers, line.writer.name, line.writer.ipi) : TRUE]

\* Each IPI number is that of one writer.
NumbersTell(src) == \A x, y \in src : x.ipi = y.ipi /\ x.ipi # NoValue => x = y

\* A line registers in the end what the one it was written from registers.
LEMMA LineRegisters ==
  ASSUME NEW src \in SUBSET Contributor, Unknown \notin Contributor, NumbersTell(src),
         NEW l, ALine(l, src), NEW line, ReadAs(line, l, src), SoundLine(AsForm(line)),
         NEW writers, Imports(writers, src), line.writer # Unknown => StillIn(writers, line.writer)
  PROVE  Registered(LineInTheEnd(writers, line)) = Registered(l)
<1>1. PICK r : r = LineInTheEnd(writers, line)
  OBVIOUS
<1>2. PICK cells : cells = WriterCells(l)
  OBVIOUS
<1>3. line \in WriterLine /\ line.role = l.role /\ line.share = l.share /\ line.controlled = l.controlled
  BY DEF ReadAs
<1>4. ASSUME Of(r.writer, "name") = Of(l.writer, "name"), Of(r.writer, "ipi") = Of(l.writer, "ipi"),
             Of(r.writer, "pro") = Of(l.writer, "pro"),
             r.role = l.role, r.share = l.share, r.controlled = l.controlled,
             l.controlled => AgreementNumber(r) = AgreementNumber(l)
      PROVE  Registered(r) = Registered(l)
  BY <1>4 DEF Registered
<1>5. CASE line.writer = Unknown
  <2>1. r = line
    BY <1>1, <1>5 DEF LineInTheEnd
  <2>2. Of(l.writer, "name") = NoValue /\ Of(l.writer, "ipi") = NoValue /\ Of(l.writer, "pro") = NoValue
    BY <1>5 DEF ReadAs
  <2>3. ~ l.controlled
    BY <1>3, <1>5 DEF SoundLine, AsForm
  <2>4. Of(r.writer, "name") = NoValue /\ Of(r.writer, "ipi") = NoValue /\ Of(r.writer, "pro") = NoValue
    BY <1>5, <2>1 DEF Of
  <2>. QED BY <1>1, <1>3, <1>4, <2>1, <2>2, <2>3, <2>4
<1>6. CASE line.writer # Unknown
  <2>1. PICK m, x : m = line.writer /\ x = l.writer
    OBVIOUS
  <2>2. /\ x # Unknown /\ ImportedFrom(m, src) /\ m.name = x.name /\ m.ipi = x.ipi /\ m.pro = x.pro
        /\ UnderGeneral(l) => m.general
        /\ line.saan \in {NoValue, cells.saan}
        /\ line.saan = NoValue /\ cells.saan # NoValue => m.general /\ m.saan = cells.saan
    BY <1>2, <1>6, <2>1 DEF ReadAs
  <2>3. x \in src /\ l.controlled \in BOOLEAN
    BY <2>1, <2>2 DEF ALine, WriterLine
  <2>4. PICK v \in writers : v.name = m.name /\ v.ipi = m.ipi /\ v.pro = m.pro /\ (m.general => v.general)
    BY <1>6, <2>1 DEF StillIn
  <2>5. Found(writers, m.name, m.ipi) = {v}
    <3>1. v \in Found(writers, m.name, m.ipi)
      BY <2>4 DEF Found
    <3>2. \A w \in Found(writers, m.name, m.ipi) : w = v
      BY <2>4 DEF Found, Imports
    <3>. QED BY <3>1, <3>2
  <2>6. (CHOOSE w \in Found(writers, m.name, m.ipi) : TRUE) = v
    BY <2>5
  <2>7. ImportedFrom(v, src) /\ v # Unknown
    BY <2>4 DEF Imports, ImportedFrom
  <2>8. r = [line EXCEPT !.writer = v]
    BY <1>1, <1>6, <2>1, <2>6, Zenon DEF LineInTheEnd
  <2>9. /\ r.writer = v /\ r.role = line.role /\ r.share = line.share /\ r.controlled = line.controlled
        /\ r.saan = line.saan
    BY <1>3, <2>8 DEF WriterLine
  <2>10. /\ Of(r.writer, "name") = v.name /\ Of(r.writer, "ipi") = v.ipi /\ Of(r.writer, "pro") = v.pro
         /\ Of(l.writer, "name") = x.name /\ Of(l.writer, "ipi") = x.ipi /\ Of(l.writer, "pro") = x.pro
    BY <2>1, <2>2, <2>7, <2>9 DEF Of
  <2>11. ASSUME NEW u, ImportedFrom(u, src), u.ipi = x.ipi, u.general PROVE x.general /\ u.saan = x.saan
    <3>1. u.ipi # NoValue
      BY <2>11 DEF ImportedFrom
    <3>2. PICK y \in src : y.ipi = u.ipi /\ y.general /\ y.saan = u.saan
      BY <2>11 DEF ImportedFrom, Sourced
    <3>3. y = x
      BY <2>3, <2>11, <3>1, <3>2 DEF NumbersTell
    <3>. QED BY <3>2, <3>3
  <2>12. /\ v.general => x.general /\ v.saan = x.saan
         /\ m.general => x.general /\ m.saan = x.saan
    BY <2>2, <2>4, <2>7, <2>11
  <2>13. ASSUME l.controlled PROVE AgreementNumber(r) = AgreementNumber(l)
    <3>1. cells.saan = AgreementNumber(l)
      BY <1>2, <2>13 DEF WriterCells
    <3>2. UnderGeneral(r) = (v.general /\ line.saan = NoValue)
      BY <1>3, <2>9, <2>13 DEF UnderGeneral
    <3>3. AgreementNumber(r) = IF v.general /\ line.saan = NoValue THEN v.saan ELSE line.saan
      BY <2>9, <3>2 DEF AgreementNumber
    <3>4. AgreementNumber(l) = IF x.general /\ l.saan = NoValue THEN x.saan ELSE l.saan
      BY <2>1, <2>13 DEF AgreementNumber, UnderGeneral
    <3>5. CASE line.saan # NoValue
      <4>1. line.saan = cells.saan
        BY <2>2, <3>5
      <4>. QED BY <3>1, <3>3, <3>5, <4>1
    <3>6. CASE line.saan = NoValue /\ v.general
      <4>1. AgreementNumber(r) = x.saan /\ x.general
        BY <2>12, <3>3, <3>6
      <4>2. CASE cells.saan = NoValue
        BY <3>1, <3>4, <4>1, <4>2
      <4>3. CASE cells.saan # NoValue
        BY <2>2, <2>12, <3>1, <3>6, <4>1, <4>3
      <4>. QED BY <4>2, <4>3
    <3>7. CASE line.saan = NoValue /\ ~ v.general
      <4>1. cells.saan = NoValue
        BY <2>2, <2>4, <3>7
      <4>. QED BY <3>1, <3>3, <3>7, <4>1
    <3>. QED BY <3>5, <3>6, <3>7
  <2>. QED BY <1>1, <1>3, <1>4, <2>2, <2>4, <2>9, <2>10, <2>13
<1>. QED BY <1>5, <1>6

\* What is registered of the lines of a work.
RegisteredOf(w) == [i \in DOMAIN w.writers |-> Registered(w.writers[i])]

\* A work registers in the end what the one it was written from registers.
LEMMA WorkRegisters ==
  ASSUME NEW src \in SUBSET Contributor, Unknown \notin Contributor, NumbersTell(src),
         NEW w, AWork(w, src), NEW works, NEW made \in TakenOver(works),
         NEW s, Imports(s.writers, src), ReadWork(made, w, s.writers, src)
  PROVE  Resolved(s, made).id = w.id /\ RegisteredOf(Resolved(s, made)) = RegisteredOf(w)
<1>1. PICK lines : lines = [i \in DOMAIN made.writers |-> LineInTheEnd(s.writers, made.writers[i])]
  OBVIOUS
<1>2. Resolved(s, made) = [made EXCEPT !.writers = lines]
  BY <1>1, Zenon DEF Resolved, LineInTheEnd
<1>3. Resolved(s, made).id = made.id /\ Resolved(s, made).writers = lines
  BY <1>2 DEF TakenOver
<1>4. made.id = w.id /\ DOMAIN made.writers = DOMAIN w.writers
  BY DEF ReadWork
<1>5. ASSUME NEW j \in DOMAIN w.writers PROVE Registered(lines[j]) = Registered(w.writers[j])
  <2>1. PICK l, line : l = w.writers[j] /\ line = made.writers[j]
    OBVIOUS
  <2>2. /\ ReadAs(line, l, src) /\ SoundLine(AsForm(line))
        /\ line.writer # Unknown => StillIn(s.writers, line.writer)
    BY <2>1 DEF ReadWork
  <2>3. ALine(l, src)
    BY <2>1 DEF AWork, ALines
  <2>4. lines[j] = LineInTheEnd(s.writers, line)
    BY <1>1, <1>4, <2>1
  <2>5. Registered(LineInTheEnd(s.writers, line)) = Registered(l)
    BY <2>2, <2>3, LineRegisters
  <2>. QED BY <2>1, <2>4, <2>5
<1>6. DOMAIN lines = DOMAIN w.writers
  BY <1>1, <1>4
<1>7. RegisteredOf(Resolved(s, made)) = [i \in DOMAIN lines |-> Registered(lines[i])]
  BY <1>3, Zenon DEF RegisteredOf
<1>8. [i \in DOMAIN lines |-> Registered(lines[i])] = [i \in DOMAIN w.writers |-> Registered(w.writers[i])]
  BY <1>5, <1>6
<1>. QED BY <1>3, <1>4, <1>7, <1>8 DEF RegisteredOf

\* What TransferKeepsWorks says of one transfer.
TransferKept(works, ignore, result) ==
  LET lines(w) == [i \in DOMAIN w.writers |-> Registered(w.writers[i])]
      all == UNION {Range(w.writers) : w \in Range(works)}
      identified ==
        /\ \A l \in all : l.controlled => l.writer.ipi # NoValue /\ l.writer.pro # NoValue
        /\ \A l, m \in all : (/\ l.writer # m.writer /\ Unknown \notin {l.writer, m.writer}
                              /\ l.writer.ipi = m.writer.ipi)
                               => l.writer.name # m.writer.name
      plain == \A w \in Range(works) : \A r \in Range(w.recordings) : r.artist = NoValue
      made == result.works
  IN  /\ identified /\ (plain \/ ignore) => result.ok
      /\ result.ok =>
           /\ Len(made) = Len(works)
           /\ \A i \in DOMAIN made : /\ made[i].id = works[i].id
                                     /\ lines(made[i]) = lines(works[i])

\* The lines of all works.
AllLines(works) == UNION {Range(w.writers) : w \in Range(works)}

\* The controlled writers have stored identifiers, and the writers can be told apart.
Identified(all) ==
  /\ \A l \in all : l.controlled => l.writer.ipi # NoValue /\ l.writer.pro # NoValue
  /\ \A l, m \in all : (/\ l.writer # m.writer /\ Unknown \notin {l.writer, m.writer}
                        /\ l.writer.ipi = m.writer.ipi)
                         => l.writer.name # m.writer.name

\* No recording names an artist.
NoArtists(works) == \A w \in Range(works) : \A r \in Range(w.recordings) : r.artist = NoValue

\* A catalogue to transfer, whose works the form accepted.
ACatalogue(works, n, src) ==
  /\ n \in Nat /\ n = Len(works) /\ AWorks(works, n, src)
  /\ src \in SUBSET Contributor /\ Unknown \notin Contributor /\ NumbersTell(src)
  /\ src = Contributors(works)
  /\ \A i, j \in 1..n : works[i].id = works[j].id => i = j

LEMMA CatalogueToTransfer ==
  ASSUME NEW works \in Catalogues,
         \A i \in DOMAIN works : Accepted(FormOf(works[i].writers), works[i].modification)
  PROVE  \E n, src : ACatalogue(works, n, src)
<1>1. PICK src : src = Contributors(works)
  OBVIOUS
<1>2. /\ Unknown \notin Contributor /\ works \in Seq(Range(works))
      /\ \A w \in Range(works) : w.writers \in Seq(WriterLine)
      /\ \A i, j \in DOMAIN works : works[i].id = works[j].id => i = j
      /\ \A x, y \in src : x.ipi = y.ipi /\ x.ipi # NoValue => x = y
  BY <1>1, CataloguesAssumption, Zenon DEF CataloguesAssumption
<1>3. PICK n \in Nat : n = Len(works) /\ DOMAIN works = 1..n
  <2>1. PICK S : S = Range(works)
    OBVIOUS
  <2>2. works \in Seq(S)
    BY <1>2, <2>1
  <2>. QED BY <2>2
<1>4. \A i \in 1..n : works[i] \in Range(works)
  BY <1>3 DEF Range
<1>5. ASSUME NEW i \in 1..n
      PROVE  /\ AWork(works[i], src)
             /\ \A j \in DOMAIN works[i].writers : works[i].writers[j] \in WriterLine
  <2>1. PICK lines : lines = works[i].writers
    OBVIOUS
  <2>2. lines \in Seq(WriterLine)
    BY <1>2, <1>4, <2>1
  <2>3. PICK m \in Nat : m = Len(lines) /\ DOMAIN lines = 1..m
    BY <2>2
  <2>4. Accepted(FormOf(lines), works[i].modification)
    BY <1>3, <2>1
  <2>5. ASSUME NEW j \in 1..m PROVE ALine(lines[j], src)
    <3>1. lines[j] \in WriterLine
      BY <2>2, <2>3
    <3>2. lines[j].writer \in src \cup {Unknown}
      <4>1. lines[j] \in Range(works[i].writers)
        BY <2>1, <2>3 DEF Range
      <4>2. lines[j] \in UNION {Range(w.writers) : w \in Range(works)}
        BY <1>4, <4>1
      <4>. QED BY <1>1, <4>2 DEF Contributors
    <3>3. AsForm(lines[j]) \in Lines(FormOf(lines))
      BY <2>3 DEF FormOf, Lines, Range
    <3>4. SoundLine(AsForm(lines[j]))
      BY <2>4, <3>3, Zenon DEF Accepted
    <3>. QED BY <3>1, <3>2, <3>4 DEF ALine
  <2>6. ALines(lines, m, src)
    BY <2>3, <2>5 DEF ALines
  <2>7. \A j \in DOMAIN lines : lines[j] \in WriterLine
    BY <2>2, <2>3
  <2>. QED BY <2>1, <2>3, <2>4, <2>6, <2>7 DEF AWork
<1>6. src \in SUBSET Contributor
  <2>1. ASSUME NEW x \in src PROVE x \in Contributor
    <3>1. PICK w, l : w \in Range(works) /\ l \in Range(w.writers) /\ x = l.writer /\ x # Unknown
      BY <1>1 DEF Contributors
    <3>2. PICK i \in 1..n : w = works[i]
      BY <1>3, <3>1 DEF Range
    <3>3. PICK j \in DOMAIN w.writers : l = w.writers[j]
      BY <3>1, Zenon DEF Range
    <3>4. l \in WriterLine
      BY <1>5, <3>2, <3>3
    <3>. QED BY <3>1, <3>4 DEF WriterLine
  <2>. QED BY <2>1
<1>7. AWorks(works, n, src) /\ NumbersTell(src) /\ \A i, j \in 1..n : works[i].id = works[j].id => i = j
  BY <1>2, <1>3, <1>5 DEF AWorks, NumbersTell
<1>. QED BY <1>1, <1>2, <1>3, <1>6, <1>7, Zenon DEF ACatalogue

\* Works whose writers are identified can be read back, if their columns are known.
LEMMA IdentifiedCanBeRead ==
  ASSUME NEW works, NEW n, NEW src, ACatalogue(works, n, src), NEW ignore,
         Identified(AllLines(works)), NoArtists(works) \/ ignore
  PROVE  CanBeRead(works, n, ignore, src)
<1>1. PICK all : all = AllLines(works)
  OBVIOUS
<1>2. /\ \A l \in all : l.controlled => l.writer.ipi # NoValue /\ l.writer.pro # NoValue
      /\ \A l, m \in all : (/\ l.writer # m.writer /\ Unknown \notin {l.writer, m.writer}
                            /\ l.writer.ipi = m.writer.ipi)
                             => l.writer.name # m.writer.name
  BY <1>1, Zenon DEF Identified
<1>3. /\ AWorks(works, n, src) /\ NumbersTell(src) /\ src = Contributors(works)
      /\ Unknown \notin Contributor /\ src \in SUBSET Contributor
  BY Zenon DEF ACatalogue
<1>4. DOMAIN works = 1..n /\ \A i \in 1..n : works[i] \in Range(works) /\ AWork(works[i], src)
  BY <1>3 DEF AWorks, Range
<1>5. \A x \in src : x # Unknown /\ \E l \in all : x = l.writer
  BY <1>1, <1>3 DEF AllLines, Contributors
<1>6. ToldApart(src)
  <2>1. ASSUME NEW x \in src, NEW y \in src, x.name = y.name, x.ipi = y.ipi PROVE x = y
    <3>1. PICK l \in all, m \in all : x = l.writer /\ y = m.writer
      BY <1>5
    <3>2. x # Unknown /\ y # Unknown
      BY <1>5
    <3>. QED BY <1>2, <2>1, <3>1, <3>2
  <2>. QED BY <1>3, <2>1 DEF ToldApart, NumbersTell
<1>7. ASSUME NEW i \in 1..n
      PROVE  /\ Stored(works[i].writers, Len(works[i].writers))
             /\ KnownColumns(Row(works[i]), ignore)
  <2>1. PICK w : w = works[i] /\ w \in Range(works)
    BY <1>4
  <2>2. ALines(w.writers, Len(w.writers), src)
    BY <1>4, <2>1 DEF AWork
  <2>3. \A j \in 1..Len(w.writers) : w.writers[j] \in all
    BY <1>1, <2>1, <2>2 DEF ALines, AllLines, Range
  <2>4. Stored(w.writers, Len(w.writers))
    BY <1>2, <2>3 DEF Stored
  <2>5. KnownColumns(Row(w), ignore)
    <3>1. CASE ignore
      BY <3>1, Zenon DEF KnownColumns
    <3>2. CASE NoArtists(works)
      <4>1. PICK recs : recs = Row(w).recordings
        OBVIOUS
      <4>2. /\ DOMAIN recs = DOMAIN w.recordings
            /\ \A j \in DOMAIN w.recordings : recs[j].artist_last = w.recordings[j].artist
        BY <4>1 DEF Row
      <4>3. \A r \in Range(w.recordings) : r.artist = NoValue
        BY <2>1, <3>2 DEF NoArtists
      <4>4. \A j \in DOMAIN w.recordings : w.recordings[j].artist = NoValue
        BY <4>3 DEF Range
      <4>5. \A r \in Range(recs) : r.artist_last = NoValue
        BY <4>2, <4>4 DEF Range
      <4>. QED BY <4>1, <4>5 DEF KnownColumns
    <3>. QED BY <3>1, <3>2
  <2>. QED BY <2>1, <2>4, <2>5
<1>. QED BY <1>6, <1>7, Zenon DEF CanBeRead

\* A catalogue is transferred as TransferKeepsWorks says.
LEMMA CatalogueIsKept ==
  ASSUME NEW works \in Catalogues, NEW ignore \in BOOLEAN,
         \A i \in DOMAIN works : Accepted(FormOf(works[i].writers), works[i].modification)
  PROVE  TransferKept(works, ignore, Transferred(works, ignore))
<1>1. PICK n, src : ACatalogue(works, n, src)
  BY CatalogueToTransfer
<1>2. /\ n \in Nat /\ n = Len(works) /\ AWorks(works, n, src)
      /\ src \in SUBSET Contributor /\ Unknown \notin Contributor /\ NumbersTell(src)
      /\ \A i, j \in 1..n : works[i].id = works[j].id => i = j
  BY <1>1, Zenon DEF ACatalogue
<1>3. PICK s : s = ImportOf(works, ignore)
  OBVIOUS
<1>4. PICK result : result = Transferred(works, ignore)
  OBVIOUS
<1>5. PICK made : made = [i \in DOMAIN s.works |-> Resolved(s, s.works[i])]
  OBVIOUS
<1>6. result.ok = s.ok /\ result.works = made
  <2>1. result = [ok |-> s.ok, works |-> made]
    BY <1>3, <1>4, <1>5, Zenon DEF Transferred, ImportOf, Begun
  <2>. QED BY <2>1
<1>7. /\ s \in Importing(works)
      /\ s.ok => WorksFollow(n, works, s, src)
      /\ CanBeRead(works, n, ignore, src) => s.ok
  BY <1>2, <1>3, WorksReadSoundly
<1>8. Identified(AllLines(works)) /\ (NoArtists(works) \/ ignore) => result.ok
  BY <1>1, <1>6, <1>7, IdentifiedCanBeRead
<1>9. ASSUME result.ok
      PROVE  /\ Len(made) = Len(works)
             /\ \A i \in DOMAIN made : /\ made[i].id = works[i].id
                                       /\ RegisteredOf(made[i]) = RegisteredOf(works[i])
  <2>1. WorksFollow(n, works, s, src)
    BY <1>6, <1>7, <1>9
  <2>2. /\ Imports(s.writers, src) /\ Len(s.works) = n
        /\ \A i \in 1..n : ReadWork(s.works[i], works[i], s.writers, src)
    BY <2>1, Zenon DEF WorksFollow
  <2>3. PICK S : S = TakenOver(works)
    OBVIOUS
  <2>4. s.works \in Seq(S)
    BY <1>7, <2>3 DEF Importing
  <2>5. DOMAIN s.works = 1..n /\ \A i \in 1..n : s.works[i] \in S
    BY <1>2, <2>2, <2>4
  <2>6. DOMAIN made = 1..n /\ \A i \in 1..n : made[i] = Resolved(s, s.works[i])
    BY <1>5, <2>5
  <2>7. Len(made) = n
    <3>1. PICK T : T = {made[i] : i \in 1..n}
      OBVIOUS
    <3>2. made = [i \in DOMAIN made |-> made[i]] /\ \A i \in 1..n : made[i] \in T
      BY <1>5, <3>1
    <3>. QED BY <1>2, <2>6, <3>2, ListMade
  <2>8. ASSUME NEW i \in 1..n
        PROVE  made[i].id = works[i].id /\ RegisteredOf(made[i]) = RegisteredOf(works[i])
    <3>1. PICK w, m : w = works[i] /\ m = s.works[i]
      OBVIOUS
    <3>2. AWork(w, src) /\ m \in TakenOver(works) /\ ReadWork(m, w, s.writers, src)
      BY <1>2, <2>2, <2>3, <2>5, <3>1 DEF AWorks
    <3>3. Unknown \notin Contributor /\ NumbersTell(src) /\ src \in SUBSET Contributor
      BY <1>2
    <3>4. Imports(s.writers, src)
      BY <2>2
    <3>5. Resolved(s, m).id = w.id /\ RegisteredOf(Resolved(s, m)) = RegisteredOf(w)
      BY <3>2, <3>3, <3>4, WorkRegisters
    <3>. QED BY <2>6, <3>1, <3>5
  <2>. QED BY <1>2, <2>6, <2>7, <2>8
<1>10. TransferKept(works, ignore, result)
  BY <1>6, <1>8, <1>9, Zenon DEF TransferKept, Identified, AllLines, NoArtists, RegisteredOf
<1>. QED BY <1>4, <1>10

-----------------------------------------------------------------------------
(* What the requests answer.                                               *)

\* The file and the catalogue that a request is given are such, and the catalogue without its
\* release says the same of the recording.
LEMMA RequestsTagged ==
  ASSUME NEW t \in Tagged, NEW c, c = t.catalogue
  PROVE  /\ AFile(t.file) /\ CatalogueOf(c)
         /\ LET bare == [c EXCEPT !.release = <<>>]
            IN  bare.title = c.title /\ bare.isrc = c.isrc /\ bare.credits = c.credits /\ bare.release = <<>>
<1>1. PICK R : R = [album : Text, track : Text, date : Text, barcode : Text]
  OBVIOUS
<1>2. PICK K : K = [role : STRING, credited : Text, identity : Text, party : Text]
  OBVIOUS
<1>3. /\ t.file \in [tags : [Tags -> Seq(Text)], comments : Seq([tag : Embedded, text : Text])]
      /\ c \in [title : Text, isrc : Text, credits : Seq(K), release : Seq(R)]
      /\ c.release # <<>> =>
           /\ c.release = <<c.release[1]>>
           /\ Normalized("track_number", c.release[1].track) = c.release[1].track
  BY <1>1, <1>2, TaggedAssumption DEF TaggedAssumption, Embedded
<1>4. PICK T, W : T = Text /\ W = Wording
  OBVIOUS
<1>5. T \subseteq W
  <2>1. PICK A, B : A = STRING /\ B = Word
    OBVIOUS
  <2>2. A \subseteq B
    BY <2>1 DEF Word
  <2>3. Seq(A) \subseteq Seq(B)
    BY <2>2
  <2>. QED BY <1>4, <2>1, <2>3 DEF Text, Wording
<1>6. AFile(t.file)
  <2>1. PICK C, D : C = [tag : Embedded, text : Text] /\ D = Comment
    OBVIOUS
  <2>2. C \subseteq D
    BY <1>4, <1>5, <2>1 DEF Comment
  <2>3. Seq(C) \subseteq Seq(D) /\ Seq(T) \subseteq Seq(W)
    BY <1>5, <2>2
  <2>4. PICK G, H : G = Seq(T) /\ H = Seq(W)
    OBVIOUS
  <2>5. [Tags -> G] \subseteq [Tags -> H]
    BY <2>3, <2>4
  <2>6. t.file \in [tags : [Tags -> G], comments : Seq(C)]
    BY <1>3, <1>4, <2>1, <2>4
  <2>7. t.file \in [tags : [Tags -> H], comments : Seq(D)]
    BY <2>3, <2>5, <2>6
  <2>. QED BY <1>4, <2>1, <2>4, <2>7 DEF AFile
<1>7. c.title \in W /\ c.isrc \in W
  BY <1>3, <1>4, <1>5
<1>8. c.credits \in Seq(Credit)
  <2>1. PICK C : C = Credit
    OBVIOUS
  <2>2. K \subseteq C
    BY <1>2, <1>4, <1>5, <2>1 DEF Credit
  <2>3. Seq(K) \subseteq Seq(C)
    BY <2>2
  <2>. QED BY <1>3, <2>1, <2>3
<1>9. CatalogueOf(c)
  <2>1. CASE c.release = <<>>
    BY <1>4, <1>7, <1>8, <2>1 DEF CatalogueOf
  <2>2. CASE c.release # <<>>
    <3>1. PICK list, r : list = c.release /\ r = c.release[1]
      OBVIOUS
    <3>2. r \in R
      BY <1>3, <2>2, <3>1
    <3>3. r.album \in W /\ r.track \in W /\ r.date \in W /\ r.barcode \in W
      BY <1>1, <1>4, <1>5, <3>2
    <3>4. c.release = <<r>> /\ Normalized("track_number", r.track) = r.track
      BY <1>3, <2>2, <3>1
    <3>. QED BY <1>4, <1>7, <1>8, <3>3, <3>4 DEF CatalogueOf
  <2>. QED BY <2>1, <2>2
<1>10. LET bare == [c EXCEPT !.release = <<>>]
       IN  bare.title = c.title /\ bare.isrc = c.isrc /\ bare.credits = c.credits /\ bare.release = <<>>
  <2>1. DOMAIN c = {"title", "isrc", "credits", "release"}
    BY <1>3
  <2>. QED BY <2>1
<1>. QED BY <1>6, <1>9, <1>10

\* The answer to a check is right.
LEMMA ChecksAreRight ==
  ASSUME NEW c \in Codes, NEW i \in 1..18, NEW digit \in 0..9, Check(c, i, digit)
  PROVE  MisreadingsCaught'
<1>1. /\ i \in DOMAIN c.code /\ digit # c.code[i] /\ call'.of = c.kind
      /\ call'.accepted = Accepts(c.kind, c.code)
      /\ call'.misread = Accepts(c.kind, [c.code EXCEPT ![i] = digit])
  BY DEF Check
<1>2. Accepts(c.kind, c.code) /\ c.code # <<>>
  BY CodesAssumption DEF CodesAssumption
<1>3. CASE c.kind = "ean"
  <2>1. c.code \in Seq(0..9) /\ ValidEAN(c.code)
    BY <1>2, <1>3, CodesAssumption DEF CodesAssumption, Accepts
  <2>2. ~ ValidEAN([c.code EXCEPT ![i] = digit])
    BY <1>1, <2>1, MisreadEAN
  <2>. QED BY <1>1, <1>2, <1>3, <2>2 DEF Accepts, MisreadingsCaught
<1>4. CASE c.kind = "isni"
  <2>1. c.code \in Seq(0..10) /\ ValidISNI(c.code)
    BY <1>2, <1>4, CodesAssumption DEF CodesAssumption, Accepts
  <2>2. digit \in 0..10
    OBVIOUS
  <2>3. ~ ValidISNI([c.code EXCEPT ![i] = digit])
    BY <1>1, <2>1, <2>2, MisreadISNI
  <2>. QED BY <1>1, <1>2, <1>4, <2>3 DEF Accepts, MisreadingsCaught
<1>5. CASE c.kind = "dpid"
  <2>1. c.code \in Seq(0..35) /\ ValidDPID(c.code)
    BY <1>2, <1>5, CodesAssumption DEF CodesAssumption, Accepts
  <2>2. digit \in 0..35
    OBVIOUS
  <2>3. ~ ValidDPID([c.code EXCEPT ![i] = digit])
    BY <1>1, <2>1, <2>2, MisreadDPID
  <2>. QED BY <1>1, <1>2, <1>5, <2>3 DEF Accepts, MisreadingsCaught
<1>6. CASE c.kind \notin {"ean", "isni", "dpid"}
  BY <1>1, <1>6 DEF MisreadingsCaught
<1>. QED BY <1>3, <1>4, <1>5, <1>6

\* The answer to a summary is right: the cases of classify_ownership in their order.
LEMMA SummariesAreRight ==
  ASSUME NEW claims \in Claims, NEW local, Summarise(claims, local)
  PROVE  OwnershipSound'
<1>. DEFINE active == Active(claims)
            mine == LocalClaims(claims, local)
            theirs == OtherClaims(claims, local)
            others == {claims[c].holder : c \in active} \ {local}
<1>1. /\ call'.claims = claims /\ call'.local = local /\ call'.kind = "ownership"
      /\ call'.category = Category(claims, local)
  BY DEF Summarise
<1>2. active \subseteq DOMAIN claims /\ \A c \in DOMAIN claims : claims[c].holder # Nobody
  BY ClaimsAssumption DEF ClaimsAssumption, Active
<1>3. mine = {c \in active : claims[c].status = "confirmed" /\ claims[c].holder = local}
  BY DEF LocalClaims, Confirmed
<1>4. theirs = {c \in active : claims[c].status = "confirmed" /\ claims[c].holder # local}
  BY DEF LocalClaims, OtherClaims, Confirmed
<1>5. Contested(claims) <=> \E c \in active : claims[c].status = "disputed"
  BY DEF Contested
<1>6. Confirmed(claims) = mine \cup theirs
  BY DEF LocalClaims, OtherClaims
<1>7. ASSUME Category(claims, local) = "full" PROVE local # Nobody /\ OwnWhole(claims, {local})
  <2>1. /\ ~ Contested(claims) /\ local # Nobody
        /\ MakesWhole(claims, mine) /\ theirs = {}
    BY <1>7 DEF Category
  <2>2. Worldwide(claims, {local}) = mine
    BY <1>3, <2>1 DEF Worldwide, MakesWhole, World
  <2>3. OwnedWorldwide(claims, {local}) = 100
    BY <2>1, <2>2, OwnedIsTotal DEF MakesWhole
  <2>4. \A c \in active : /\ claims[c].status = "confirmed" => claims[c].holder \in {local}
                          /\ claims[c].status # "disputed"
    BY <1>4, <1>5, <2>1
  <2>. QED BY <2>1, <2>3, <2>4 DEF OwnWhole
<1>8. ASSUME Category(claims, local) = "not_owned" PROVE OwnWhole(claims, others)
  <2>1. ~ Contested(claims) /\ mine = {} /\ MakesWhole(claims, theirs)
    BY <1>8 DEF Category
  <2>2. Worldwide(claims, others) = theirs
    BY <1>4, <2>1 DEF Worldwide, MakesWhole, World
  <2>3. OwnedWorldwide(claims, others) = 100
    BY <2>1, <2>2, OwnedIsTotal DEF MakesWhole
  <2>4. \A c \in active : /\ claims[c].status = "confirmed" => claims[c].holder \in others
                          /\ claims[c].status # "disputed"
    BY <1>3, <1>5, <2>1
  <2>. QED BY <2>3, <2>4 DEF OwnWhole
<1>9. ASSUME OwnWhole(claims, {local}), \A c \in active : claims[c].world /\ claims[c].share # Unstated
      PROVE  Category(claims, local) = "full"
  <2>1. theirs = {} /\ ~ Contested(claims)
    BY <1>4, <1>5, <1>9 DEF OwnWhole
  <2>2. Worldwide(claims, {local}) = mine /\ World(claims, mine) = mine /\ Known(claims, mine) = mine
    BY <1>3, <1>9 DEF Worldwide, World, Known
  <2>3. TotalShare(claims, mine) = 100
    BY <1>9, <2>2, OwnedIsTotal DEF OwnWhole
  <2>4. TotalShare(claims, {}) = 0 /\ World(claims, {}) = {}
    BY NothingTotal
  <2>5. mine # {}
    BY <2>3, <2>4
  <2>6. local # Nobody /\ Confirmed(claims) # {}
    BY <1>2, <1>3, <1>6, <2>5
  <2>7. WorldTotal(claims, mine) = 100 /\ WorldTotal(claims, theirs) = 0
    BY <2>1, <2>2, <2>3, <2>4 DEF WorldTotal
  <2>8. ~ Conflicting(claims, local)
    BY <2>1, <2>7 DEF Conflicting
  <2>9. MakesWhole(claims, mine)
    BY <2>2, <2>3 DEF MakesWhole
  <2>. QED BY <2>1, <2>6, <2>8, <2>9 DEF Category
<1>. QED BY <1>1, <1>7, <1>8, <1>9 DEF OwnershipSound

\* The answer of the player is the one the pages promise.
LEMMA PlaysAreHonest ==
  ASSUME NEW s \in Streams, NEW c,
         c = [kind |-> "play", entry |-> s.entry, size |-> s.size, range |-> s.range, head |-> s.head,
              answer |-> Audio(s.entry, s.size, s.range, s.head), page |-> FilesPage(s.entry, 0),
              remark |-> OverviewRemark(s.entry), state |-> FileState(s.entry)]
  PROVE  HonestPlay(c)
<1>1. PICK e, size, range, head :
        e = s.entry /\ size = s.size /\ range = s.range /\ head = s.head
  OBVIOUS
<1>2. /\ Stream(e) /\ size \in Nat /\ head \in BOOLEAN
      /\ range = <<>> \/ (/\ range = <<range[1]>>
                          /\ {range[1].first, range[1].last} \subseteq Nat \cup {NoBound})
  BY <1>1, StreamsAssumption DEF StreamsAssumption, Stream
<1>3. /\ c.entry = e /\ c.size = size /\ c.range = range /\ c.head = head
      /\ c.answer = Audio(e, size, range, head) /\ c.page = FilesPage(e, 0)
      /\ c.remark = OverviewRemark(e) /\ c.state = FileState(e)
  BY <1>1
<1>4. PICK r, v : r = Resolve(e, FALSE) /\ v = Resolve(e, TRUE)
  OBVIOUS
<1>5. Alike(e, r, v)
  BY <1>2, <1>4, ResolvedAlike, Zenon DEF ResolvesAlike
<1>6. PICK answer : answer = c.answer
  OBVIOUS
<1>7. Answers(answer, r, v, size, range, head)
  <2>1. Answers(Audio(e, size, range, head), r, v, size, range, head)
    BY <1>2, <1>4, <1>5, AudioServed
  <2>. QED BY <1>3, <1>6, <2>1
<1>8. PICK marked : marked = {i \in DOMAIN e.files : c.page.status[i] = "current"}
  OBVIOUS
<1>9. marked = {i \in DOMAIN e.files : i = r.asset}
  <2>1. c.page.status = [i \in DOMAIN e.files |-> FileStatus(e, i)]
    BY <1>3 DEF FilesPage
  <2>2. \A i \in DOMAIN e.files : FileStatus(e, i) = "current" <=> i = r.asset
    BY <1>2, <1>4, MarkedIsResolved, Zenon
  <2>. QED BY <1>8, <2>1, <2>2
<1>10. PICK wanted : wanted = AskedFor(range, size)
  OBVIOUS
<1>11. ASSUME v.status # "available"
       PROVE  answer.code \in {404, 409} /\ \A i \in marked : ~ AtHand(e.files[i])
  <2>1. CASE r.asset = 0
    BY <1>2, <1>7, <1>9, <1>11, <2>1 DEF Stream, Answers
  <2>2. CASE r.asset # 0
    <3>1. Sole(e, r.asset) /\ ~ Readable(e.files[r.asset].locations[PlaceOf(e, r.asset)])
      BY <1>5, <1>11, <2>2 DEF Alike
    <3>2. ~ AtHand(e.files[r.asset])
      BY <1>2, <3>1, SolePlace
    <3>. QED BY <1>7, <1>9, <1>11, <3>2 DEF Answers
  <2>. QED BY <2>1, <2>2
<1>12. ASSUME v.status = "available"
       PROVE  /\ RightFile(answer, e, marked) /\ answer.code \in {200, 206, 416}
              /\ OverviewRemark(e) \notin {"no file", "unavailable"}
              /\ FileState(e) \in {"verified", "unchecked"}
  <2>1. Sole(e, r.asset) /\ Readable(e.files[r.asset].locations[PlaceOf(e, r.asset)])
    BY <1>5, <1>12 DEF Alike
  <2>2. PICK i : i = r.asset
    OBVIOUS
  <2>3. answer.asset = i /\ AtHand(e.files[i]) /\ Sole(e, i)
    BY <1>2, <1>7, <2>1, <2>2, SolePlace DEF Answers
  <2>4. /\ i \in DOMAIN e.files /\ e.current \in {0, i}
        /\ OverviewRemark(e) \notin {"no file", "unavailable"}
        /\ FileState(e) \in {"verified", "unchecked"}
    BY <1>2, <2>3, PlayedAlone
  <2>5. marked = {answer.asset}
    BY <1>9, <2>2, <2>3, <2>4
  <2>6. RightFile(answer, e, marked)
    BY <1>2, <2>3, <2>5, PlayedAlone DEF RightFile
  <2>7. answer.code \in {200, 206, 416}
    BY <1>7, <1>12 DEF Answers
  <2>. QED BY <2>4, <2>6, <2>7
<1>13. ASSUME v.status = "available", answer.code \in {200, 206}
       PROVE  /\ {answer.from + n : n \in 0..(answer.length - 1)} = wanted
              /\ ~head => Added(answer.body) = answer.length
  <2>1. CASE range = <<>>
    <3>1. /\ answer.from = 0 /\ answer.length = size
          /\ ~head => Added(answer.body) = answer.length
      BY <1>7, <1>13, <2>1 DEF Answers
    <3>2. wanted = 0..(size - 1)
      BY <1>10, <2>1 DEF AskedFor
    <3>3. {0 + n : n \in 0..(size - 1)} = 0..(size - 1)
      BY <1>2
    <3>. QED BY <3>1, <3>2, <3>3
  <2>2. CASE range # <<>>
    <3>1. /\ answer.from \in Nat /\ answer.length \in Nat
          /\ AskedFor(range, size) = answer.from..(answer.from + answer.length - 1)
          /\ ~head => Added(answer.body) = answer.length
      BY <1>7, <1>13, <2>2 DEF Answers
    <3>2. PICK from, length \in Nat : from = answer.from /\ length = answer.length
      BY <3>1
    <3>3. {from + n : n \in 0..(length - 1)} = from..(from + length - 1)
      <4>1. \A b \in from..(from + length - 1) : b = from + (b - from) /\ b - from \in 0..(length - 1)
        OBVIOUS
      <4>2. \A n \in 0..(length - 1) : from + n \in from..(from + length - 1)
        OBVIOUS
      <4>. QED BY <4>1, <4>2
    <3>4. {answer.from + n : n \in 0..(answer.length - 1)} = wanted
      BY <1>10, <3>1, <3>2, <3>3
    <3>. QED BY <3>1, <3>4
  <2>. QED BY <2>1, <2>2
<1>14. ASSUME answer.code = 416 PROVE range # <<>> /\ wanted = {}
  BY <1>7, <1>10, <1>14 DEF Answers
<1>15. ASSUME answer.code \in {200, 206, 416}
       PROVE  /\ RightFile(answer, e, marked)
              /\ OverviewRemark(e) \notin {"no file", "unavailable"}
              /\ FileState(e) \in {"verified", "unchecked"}
  <2>1. answer.code \notin {404, 409}
    BY <1>15
  <2>. QED BY <1>11, <1>12, <2>1, Zenon
<1>16. ASSUME answer.code \in {200, 206}
       PROVE  /\ {answer.from + n : n \in 0..(answer.length - 1)} = wanted
              /\ ~head => Added(answer.body) = answer.length
  BY <1>11, <1>13, <1>16
<1>17. ASSUME answer.code \in {404, 409} PROVE \A i \in marked : ~ AtHand(e.files[i])
  <2>1. answer.code \notin {200, 206, 416}
    BY <1>17
  <2>. QED BY <1>11, <1>12, <2>1, Zenon
<1>18. /\ c.answer = answer /\ c.entry = e /\ c.range = range /\ c.size = size /\ c.head = head
       /\ c.remark = OverviewRemark(e) /\ c.state = FileState(e)
       /\ {i \in DOMAIN c.entry.files : c.page.status[i] = "current"} = marked
       /\ AskedFor(c.range, c.size) = wanted
  BY <1>3, <1>6, <1>8, <1>10, Zenon
<1>19. ASSUME c.answer.code \in {200, 206, 416}
       PROVE  /\ RightFile(c.answer, c.entry, marked)
              /\ c.remark \notin {"no file", "unavailable"}
              /\ c.state \in {"verified", "unchecked"}
  <2>1. answer.code \in {200, 206, 416}
    BY <1>6, <1>19
  <2>2. c.remark \notin {"no file", "unavailable"} /\ c.state \in {"verified", "unchecked"}
    BY <1>15, <1>18, <2>1
  <2>. QED BY <1>15, <1>18, <2>1, <2>2, Zenon
<1>20. ASSUME c.answer.code \in {200, 206}
       PROVE  /\ {c.answer.from + n : n \in 0..(c.answer.length - 1)} = wanted
              /\ ~c.head => Added(c.answer.body) = c.answer.length
  BY <1>16, <1>18, <1>20
<1>21. c.answer.code = 416 => c.range # <<>> /\ wanted = {}
  BY <1>14, <1>18, Zenon
<1>22. ASSUME c.answer.code \in {404, 409} PROVE \A i \in marked : ~ AtHand(c.entry.files[i])
  BY <1>17, <1>18, <1>22
<1>. QED BY <1>18, <1>19, <1>20, <1>21, <1>22, Zenon DEF HonestPlay

\* No identifier with a character misread passes for a valid one, whatever its length
\* and wherever the mistake is (check_ean_digit, check_isni_digit, check_dpid).
THEOREM MisreadingsFound == Spec => []MisreadingsCaught
<1>1. Init => MisreadingsCaught
  BY DEF Init, Idle, MisreadingsCaught
<1>2. MisreadingsCaught /\ [Next]_call => MisreadingsCaught'
  <2>. SUFFICES ASSUME MisreadingsCaught, [Next]_call PROVE MisreadingsCaught'
    OBVIOUS
  <2>1. CASE call' = call
    BY <2>1 DEF MisreadingsCaught
  <2>2. CASE call' # call /\ call'.kind = "check"
    BY <2>2, Requested, ChecksAreRight
  <2>3. CASE call'.kind # "check"
    BY <2>3 DEF MisreadingsCaught
  <2>. QED BY <2>1, <2>2, <2>3
<1>. QED BY <1>1, <1>2, PTL DEF Spec

\* The summary of any claims concludes on full ownership, or on none, only from what is
\* confirmed, and does when it may (classify_ownership).
THEOREM ConclusionsSound == Spec => []OwnershipSound
<1>1. Init => OwnershipSound
  BY DEF Init, Idle, OwnershipSound
<1>2. OwnershipSound /\ [Next]_call => OwnershipSound'
  <2>. SUFFICES ASSUME OwnershipSound, [Next]_call PROVE OwnershipSound'
    OBVIOUS
  <2>1. CASE call' = call
    BY <2>1 DEF OwnershipSound
  <2>2. CASE call' # call /\ call'.kind = "ownership"
    BY <2>2, Requested, SummariesAreRight
  <2>3. CASE call'.kind # "ownership"
    BY <2>3 DEF OwnershipSound
  <2>. QED BY <2>1, <2>2, <2>3
<1>. QED BY <1>1, <1>2, PTL DEF Spec

\* What the player is given is the one file the pages mark, unrivalled and at hand, and
\* the bytes it asked for; it is refused only when there is none (recording_audio).
THEOREM RightPartPlayed == Spec => []PlaybackHonest
<1>1. Init => PlaybackHonest
  <2>1. Idle.kind # "play"
    BY DEF Idle
  <2>. QED BY <2>1, Zenon DEF Init, PlaybackHonest
<1>2. PlaybackHonest /\ [Next]_call => PlaybackHonest'
  <2>. SUFFICES ASSUME PlaybackHonest, [Next]_call PROVE PlaybackHonest'
    OBVIOUS
  <2>1. CASE call' = call
    BY <2>1 DEF PlaybackHonest
  <2>2. CASE call' # call /\ call'.kind = "play"
    <3>1. PICK s \in Streams : Play(s.entry, s.size, s.range, s.head)
      BY <2>2, Requested
    <3>2. HonestPlay(call')
      BY <3>1, PlaysAreHonest, Zenon DEF Play
    <3>. QED BY <3>2, Zenon DEF PlaybackHonest
  <2>3. CASE call'.kind # "play"
    BY <2>3, Zenon DEF PlaybackHonest
  <2>. QED BY <2>1, <2>2, <2>3
<1>. QED BY <1>1, <1>2, PTL DEF Spec

\* Whatever the amount, the lines and their fees: what is paid out of it, before fees, is the
\* amount, to half a unit of the last place of each part, and a fee that is a percentage
\* comes out of the part it is taken from (process_row).
THEOREM AmountsPaidInFull == Spec => []PaidInFull
<1>1. Init => PaidInFull
  <2>1. Idle.kind # "royalties"
    BY DEF Idle
  <2>. QED BY <2>1, Zenon DEF Init, PaidInFull
<1>2. PaidInFull /\ [Next]_call => PaidInFull'
  <2>. SUFFICES ASSUME PaidInFull, [Next]_call PROVE PaidInFull'
    OBVIOUS
  <2>1. CASE call' = call
    BY <2>1 DEF PaidInFull
  <2>2. CASE call' # call /\ call'.kind = "royalties"
    <3>1. PICK s \in Statements : Distribute(s)
      BY <2>2, Requested
    <3>2. /\ call'.row = s.row /\ call'.lines = LinesOf(s.works, s.row.id)
          /\ call'.answer = ProcessRow(call'.lines, call'.row)
      BY <3>1 DEF Distribute
    <3>3. FullyPaid(call')
      BY <3>2, RowPaid, Zenon
    <3>. QED BY <3>3, Zenon DEF PaidInFull
  <2>3. CASE call'.kind # "royalties"
    BY <2>3, Zenon DEF PaidInFull
  <2>. QED BY <2>1, <2>2, <2>3
<1>. QED BY <1>1, <1>2, PTL DEF Spec

\* Whatever the files of a batch, their order, and the releases there were: files that say
\* the same of their album are together, a folder with a cover is, every file's recording
\* holds its place, and tidy folders make one release each (apply_batch).
THEOREM AlbumsKeptTogether == Spec => []AlbumsTogether
<1>1. Init => AlbumsTogether
  <2>1. Idle.kind # "assemble"
    BY DEF Idle
  <2>. QED BY <2>1, Zenon DEF Init, AlbumsTogether
<1>2. AlbumsTogether /\ [Next]_call => AlbumsTogether'
  <2>. SUFFICES ASSUME AlbumsTogether, [Next]_call PROVE AlbumsTogether'
    OBVIOUS
  <2>1. CASE call' = call
    BY <2>1 DEF AlbumsTogether
  <2>2. CASE call' # call /\ call'.kind = "assemble"
    <3>1. PICK b \in Batches : Assemble(b)
      BY <2>2, Requested
    <3>2. call'.batch = b /\ call'.after = Imported(b.releases, b.images, b.files)
      BY <3>1 DEF Assemble
    <3>3. /\ b.files \in Seq(AudioFile) /\ b.releases \in Seq(Release)
          /\ \A r \in DOMAIN b.releases : IsFiniteSet(b.releases[r].tracks)
          /\ \A f \in Range(b.files) : f.folder # "" => f.folder \in DOMAIN b.images
          /\ \A f, g \in Range(b.files) : f.path = g.path => f.recording = g.recording
      BY BatchesAssumption, Zenon DEF BatchesAssumption
    <3>4. b.releases \in ReleaseList
      BY <3>3 DEF ReleaseList
    <3>5. Sorted(b.images, b.files)
      BY <3>3 DEF Sorted, Range
    <3>6. Distinct(b.files)
      BY <3>3 DEF Distinct, Range, ToSet
    <3>7. Assembly(b, call'.after)
      BY <3>2, <3>4, <3>5, <3>6, BatchAssembled
    <3>. QED BY <3>2, <3>7, Zenon DEF AlbumsTogether
  <2>3. CASE call'.kind # "assemble"
    BY <2>3, Zenon DEF AlbumsTogether
  <2>. QED BY <2>1, <2>2, <2>3
<1>. QED BY <1>1, <1>2, PTL DEF Spec

\* Whatever works, recordings and releases there are: every export says the same of them,
\* each release is in the file of its form, playlists are served under their secrets only,
\* a society is referred to by the newest identifier it sent, and titles are exported as
\* they are shown (get_dict).
THEOREM ExportsTrue == Spec => []ExportsHonest
<1>1. Init => ExportsHonest
  <2>1. Idle.kind # "json"
    BY DEF Idle
  <2>. QED BY <2>1, Zenon DEF Init, ExportsHonest
<1>2. ExportsHonest /\ [Next]_call => ExportsHonest'
  <2>. SUFFICES ASSUME ExportsHonest, [Next]_call PROVE ExportsHonest'
    OBVIOUS
  <2>1. CASE call' = call
    BY <2>1 DEF ExportsHonest
  <2>2. CASE call' # call /\ call'.kind = "json"
    <3>1. PICK db \in Repertoires, today \in 1..2 : Publish(db, today)
      BY <2>2, Requested
    <3>2. PICK c : c = call'
      OBVIOUS
    <3>3. Agreeing(c)
      BY <3>1, <3>2, ExportsAreHonest DEF Publish
    <3>4. c.works = WorksFile(db) /\ c.db = db
      BY <3>1, <3>2 DEF Publish
    <3>5. Wellformed(db)
      BY RepertoiresAssumption DEF RepertoiresAssumption
    <3>6. \A w \in c.works : CompleteIn(c.db, w)
      BY <3>4, <3>5, WorkComplete
    <3>. QED BY <3>2, <3>3, <3>6, Zenon DEF ExportsHonest
  <2>3. CASE call'.kind # "json"
    BY <2>3, Zenon DEF ExportsHonest
  <2>. QED BY <2>1, <2>2, <2>3
<1>. QED BY <1>1, <1>2, PTL DEF Spec

\* What is registered of every work that the form accepted is the whole of it for every
\* right, in each of the formats, but for the rounding of each part; and the trailers of
\* the file count its lines and its transactions (CWRExport.yield_lines).
THEOREM RegistrationsSound == Spec => []RegistrationFileSound
<1>1. Init => RegistrationFileSound
  <2>1. Idle.kind # "export"
    BY DEF Idle
  <2>. QED BY <2>1, Zenon DEF Init, RegistrationFileSound
<1>2. RegistrationFileSound /\ [Next]_call => RegistrationFileSound'
  <2>. SUFFICES ASSUME RegistrationFileSound, [Next]_call PROVE RegistrationFileSound'
    OBVIOUS
  <2>1. CASE call' = call
    BY <2>1 DEF RegistrationFileSound
  <2>2. CASE call' # call /\ call'.kind = "export"
    <3>1. PICK works \in Works, type \in FileTypes : Export(works, type)
      BY <2>2, Requested
    <3>2. SharesWhole(call') /\ CountsTrue(call'.file)
      BY <3>1, ExportsAreSound
    <3>. QED BY <3>2, Zenon DEF RegistrationFileSound
  <2>3. CASE call'.kind # "export"
    BY <2>3, Zenon DEF RegistrationFileSound
  <2>. QED BY <2>1, <2>2, <2>3
<1>. QED BY <1>1, <1>2, PTL DEF Spec

\* A file and the catalogue agree after the tags were written: a synchronised file does not
\* deviate from the catalogue and keeps its radio tags (sync_file_asset), a generated one
\* is read as the file it replaces or as the catalogue (generate_candidate).
THEOREM TagsAgree == Spec => []TagsHonest
<1>1. Init => TagsHonest
  <2>1. Idle.kind # "sync" /\ Idle.kind # "generate"
    BY DEF Idle
  <2>. QED BY <2>1, Zenon DEF Init, TagsHonest, TagsSettle, CandidateKeepsTags
<1>2. TagsHonest /\ [Next]_call => TagsHonest'
  <2>. SUFFICES ASSUME TagsHonest, [Next]_call PROVE TagsHonest'
    OBVIOUS
  <2>1. CASE call' = call
    BY <2>1 DEF TagsHonest, TagsSettle, CandidateKeepsTags
  <2>2. CASE call' # call /\ call'.kind = "sync"
    <3>1. PICK t \in Tagged : Synchronise(t.catalogue, t.file)
      BY <2>2, Requested
    <3>2. PICK c, file : c = t.catalogue /\ file = t.file
      OBVIOUS
    <3>3. call'.catalogue = c /\ call'.file = file /\ call'.after = WrittenTo(file, c)
      BY <3>1, <3>2 DEF Synchronise
    <3>4. AFile(file) /\ CatalogueOf(c)
      BY <3>2, RequestsTagged
    <3>5. TagsSettled(c, file, call'.after)
      BY <3>3, <3>4, SynchronisedSettles
    <3>6. TagsSettle'
      BY <3>3, <3>5, Zenon DEF TagsSettle, TagsSettled
    <3>7. call'.kind # "generate"
      BY <2>2
    <3>. QED BY <3>6, <3>7, Zenon DEF TagsHonest, CandidateKeepsTags
  <2>3. CASE call' # call /\ call'.kind = "generate"
    <3>1. PICK t \in Tagged, managed \in BOOLEAN : Generate(t.catalogue, t.file, managed)
      BY <2>3, Requested
    <3>2. PICK c, file : c = t.catalogue /\ file = t.file
      OBVIOUS
    <3>3. /\ call'.catalogue = c /\ call'.file = file /\ call'.managed = managed
          /\ call'.after = GeneratedFrom(c, file, managed)
      BY <3>1, <3>2 DEF Generate
    <3>4. PICK bare : bare = [c EXCEPT !.release = <<>>]
      OBVIOUS
    <3>5. /\ AFile(file) /\ CatalogueOf(c)
          /\ bare.title = c.title /\ bare.isrc = c.isrc /\ bare.credits = c.credits /\ bare.release = <<>>
      BY <3>2, <3>4, RequestsTagged
    <3>6. TagsCarried(c, file, managed, call'.after)
      BY <3>3, <3>4, <3>5, GeneratedCarries
    <3>7. CandidateKeepsTags'
      BY <3>3, <3>6, Zenon DEF CandidateKeepsTags, TagsCarried
    <3>8. call'.kind # "sync"
      BY <2>3
    <3>. QED BY <3>7, <3>8, Zenon DEF TagsHonest, TagsSettle
  <2>4. CASE call'.kind # "sync" /\ call'.kind # "generate"
    BY <2>4, Zenon DEF TagsHonest, TagsSettle, CandidateKeepsTags
  <2>. QED BY <2>1, <2>2, <2>3, <2>4
<1>. QED BY <1>1, <1>2, PTL DEF Spec

\* Works that are exported and read back register what they did, and are accepted when their
\* writers are identified (get_rows_for_csv, get_writers, process_row).
THEOREM TransfersKeepWorks == Spec => []TransferKeepsWorks
<1>1. Init => TransferKeepsWorks
  <2>1. Idle.kind # "transfer"
    BY DEF Idle
  <2>. QED BY <2>1, Zenon DEF Init, TransferKeepsWorks
<1>2. TransferKeepsWorks /\ [Next]_call => TransferKeepsWorks'
  <2>. SUFFICES ASSUME TransferKeepsWorks, [Next]_call PROVE TransferKeepsWorks'
    OBVIOUS
  <2>1. CASE call' = call
    BY <2>1 DEF TransferKeepsWorks
  <2>2. CASE call' # call /\ call'.kind = "transfer"
    <3>1. PICK works \in Catalogues, ignore \in BOOLEAN : Transfer(works, ignore)
      BY <2>2, Requested
    <3>2. /\ \A i \in DOMAIN works : Accepted(FormOf(works[i].writers), works[i].modification)
          /\ call'.works = works /\ call'.ignore = ignore /\ call'.result = Transferred(works, ignore)
      BY <3>1 DEF Transfer, FormOf
    <3>3. TransferKept(works, ignore, Transferred(works, ignore))
      BY <3>2, CatalogueIsKept
    <3>4. TransferKept(call'.works, call'.ignore, call'.result)
      BY <3>2, <3>3, Zenon
    <3>. QED BY <3>4, Zenon DEF TransferKeepsWorks, TransferKept
  <2>3. CASE call'.kind # "transfer"
    BY <2>3, Zenon DEF TransferKeepsWorks
  <2>. QED BY <2>1, <2>2, <2>3
<1>. QED BY <1>1, <1>2, PTL DEF Spec

=============================================================================

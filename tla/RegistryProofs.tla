--------------------------- MODULE RegistryProofs ---------------------------
(***************************************************************************)
(* The two registers that others rely on.  Theorems about RightsClaims for *)
(* any recordings, claims, users, scopes and shares: a decision that       *)
(* changes the status of a managed recording settles it on the claims as   *)
(* they are when it is committed, and the confirmed shares of a recording  *)
(* never exceed the whole.  Theorems about WorkRegistration for any works, *)
(* exports, acknowledgement files and codes, when one request runs at a    *)
(* time: the numbers of the exports of a year differ, a work keeps the     *)
(* identifier it was exported under, and an acknowledgement is recorded    *)
(* once.  The two share no state; they share the lemmas about numbers.     *)
(***************************************************************************)
EXTENDS RightsClaims, WorkRegistration, FiniteSetTheorems, WellFoundedInduction, TLAPS

-----------------------------------------------------------------------------
(* Numbers and finite sets.                                                *)

\* Some set of a family of subsets of a finite set contains no other one of it.
LEMMA SmallestSubset ==
  \A S : IsFiniteSet(S) =>
    \A F \in SUBSET (SUBSET S) :
      F # {} => \E T \in F : \A U \in F : U \subseteq T => U = T
<1>. SUFFICES ASSUME NEW S, IsFiniteSet(S), NEW F \in SUBSET (SUBSET S), F # {}
              PROVE  \E T \in F : \A U \in F : U \subseteq T => U = T
  OBVIOUS
<1>1. FiniteSubsetsOf(S) = SUBSET S
  BY FS_FiniteSubsetsOfFinite
<1>2. IsWellFoundedOn(StrictSubsetOrdering(S), SUBSET S)
  BY <1>1, FS_StrictSubsetOrderingWellFounded
<1>3. \E T \in F : \A U \in F : ~ (<<U, T>> \in StrictSubsetOrdering(S))
  BY <1>2, WFMin
<1> QED BY <1>3 DEF StrictSubsetOrdering

\* A finite set of numbers that is not empty has a greatest one, and Max gives it.
LEMMA Greatest ==
  ASSUME NEW S, IsFiniteSet(S)
  PROVE  S # {} /\ S \subseteq Nat => Max(S) \in S /\ \A x \in S : x <= Max(S)
<1>1. \A F \in SUBSET (SUBSET S) :
        F # {} => \E T \in F : \A U \in F : U \subseteq T => U = T
  BY SmallestSubset
<1>2. PICK F : F = {T \in SUBSET S : T # {} /\ \A x \in T : \E y \in T : ~ (y <= x)}
  OBVIOUS
<1>3. F \in SUBSET (SUBSET S)
  BY <1>2
<1>4. F # {} => \E T \in F : \A U \in F : U \subseteq T => U = T
  BY <1>1, <1>3
<1>. SUFFICES ASSUME S # {}, S \subseteq Nat
              PROVE  Max(S) \in S /\ \A x \in S : x <= Max(S)
  OBVIOUS
<1>5. F = {}
  <2>. SUFFICES ASSUME F # {} PROVE FALSE
    OBVIOUS
  <2>1. PICK T \in F : \A U \in F : U \subseteq T => U = T
    BY <1>4
  <2>2. PICK x \in T : TRUE
    BY <1>2, <2>1
  <2>3. T \ {x} \notin F
    BY <2>1, <2>2
  <2>4. PICK z \in T : ~ (z <= x)
    BY <1>2, <2>2
  <2>5. x \in Nat /\ z \in Nat /\ T \subseteq Nat
    BY <1>2, <2>2, <2>4
  <2>6. T \ {x} \in SUBSET S /\ T \ {x} # {}
    BY <1>2, <2>4, <2>5
  <2>7. PICK m \in T \ {x} : \A y \in T \ {x} : y <= m
    BY <1>2, <2>3, <2>6
  <2>8. \A y \in T : y <= m
    BY <2>4, <2>5, <2>7
  <2>. QED BY <1>2, <2>7, <2>8
<1>6. \E x \in S : \A y \in S : x >= y
  BY <1>2, <1>5
<1>. QED BY <1>6 DEF Max

\* Induction up to a bound.
LEMMA UpTo ==
  ASSUME NEW N \in Nat, NEW K, 0 \in K, \A k \in 0..N : k \in K /\ k < N => k + 1 \in K
  PROVE  0..N \subseteq K
<1>1. PICK S : S = {k \in 0..N : \A j \in 0..k : j \in K}
  OBVIOUS
<1>2. 0 \in S
  BY <1>1
<1>3. S \in SUBSET Nat /\ S # {}
  BY <1>1, <1>2
<1>4. IsFiniteSet(S)
  <2>1. IsFiniteSet(0..N)
    BY FS_Interval
  <2>. QED BY <1>1, <2>1, FS_Subset
<1>5. PICK m \in S : \A x \in S : x <= m
  BY <1>3, <1>4, Greatest
<1>6. m = N
  <2>. SUFFICES ASSUME m < N PROVE FALSE
    BY <1>1
  <2>1. m \in 0..N /\ m + 1 \in 0..N /\ m + 1 \in K
    BY <1>1
  <2>2. m + 1 \in S
    BY <1>1, <2>1
  <2>. QED BY <1>5, <2>1, <2>2
<1>. QED BY <1>1, <1>6

-----------------------------------------------------------------------------
(* Claims and decisions.                                                   *)

\* A claim that exists is about a recording.
ClaimsRecorded ==
  \A c \in Claims :
    IF claim[c].status = "absent" THEN claim[c].recording = None
    ELSE claim[c].recording \in Recordings

\* The locks a user holds at each step.
Held ==
  \A u \in Users :
    /\ pc[u] # "idle" =>
         /\ Decided(u) \in Claims /\ claimLock[Decided(u)] = u
         /\ claim[Decided(u)].status # "absent"
    /\ pc[u] \in {"claim", "recording", "valid", "assessed"} => job[u].verdict \in Verdicts
    /\ pc[u] \in {"recording", "valid", "assessed"} => recLock[RecordingOf(u)] = u

\* The rights of the local organisation a user's transaction sees.
Rights(u) ==
  {c \in Claims : /\ claim[c].recording = RecordingOf(u) /\ claim[c].local
                  /\ Seen(u)[c] = "confirmed"}

\* What was assessed still follows from the claims.
Assessed ==
  \A u \in Users :
    pc[u] = "assessed" /\ job[u].next # "none" =>
        job[u].next = IF \E c \in Rights(u) : claim[c].scope \in job[u].day THEN "active" ELSE "pending"

RInv == TypeOK /\ ClaimsRecorded /\ Held /\ Assessed

-----------------------------------------------------------------------------

\* There are no claims and no decisions at first.
LEMMA RInvInit == Init => RInv
<1>. SUFFICES ASSUME Init PROVE RInv
  OBVIOUS
<1>1. NoClaim \in Row /\ NoJob \in Job
  BY ScopesAssumption DEF NoClaim, Row, Status, NoJob, Job, Management
<1>2. TypeOK
  BY <1>1, ScopesAssumption DEF Init, TypeOK, Management
<1>. QED
  BY <1>2 DEF Init, RInv, ClaimsRecorded, Held, Assessed, NoClaim

-----------------------------------------------------------------------------
(* Types.                                                                  *)

\* A new claim is a well-formed row.
LEMMA UnverifiedType ==
  ASSUME NEW r \in Recordings, NEW s \in Scopes, NEW share \in Shares \cup {None},
         NEW local \in BOOLEAN, NEW previous \in Claims \cup {None}
  PROVE  /\ Unverified(r, s, share, local, previous) \in Row
         /\ Unverified(r, s, share, local, previous).status = "unverified"
         /\ Unverified(r, s, share, local, previous).recording = r
  BY DEF Unverified, Row, Status

\* A decision or correction that ends leaves no locks of its user.
LEMMA DoneType ==
  ASSUME TypeOK, NEW u \in Users, Done(u)
  PROVE  /\ claimLock' \in [Claims -> Users \cup {None}]
         /\ recLock' \in [Recordings -> Users \cup {None}]
         /\ pc' \in [Users -> {"idle", "claim", "recording", "valid", "assessed", "correcting"}]
         /\ job' \in [Users -> Job]
<1>1. NoJob \in Job
  BY DEF NoJob, Job, Management
<1>. QED
  BY <1>1 DEF Done, Release, TypeOK

\* The registration of claims stores well-formed rows.
LEMMA TypeRegistration == ASSUME TypeOK, Registration PROVE TypeOK'
<1>1. ASSUME NEW s \in Scopes, NEW share \in Shares \cup {None}, NEW local \in BOOLEAN,
             NEW c \in Claims, NEW r \in Recordings, CreateClaim(c, r, s, share, local)
      PROVE  TypeOK'
  BY <1>1, UnverifiedType DEF CreateClaim, TypeOK, calendar, locks
<1>2. ASSUME NEW s \in Scopes, NEW share \in Shares \cup {None}, NEW local \in BOOLEAN,
             NEW new \in [Claims -> Recordings \cup {None}], CreateReleaseClaims(new, s, share, local)
      PROVE  TypeOK'
  <2>1. claim' \in [Claims -> Row]
    BY <1>2, UnverifiedType DEF CreateReleaseClaims, TypeOK
  <2>2. managed' \in [Recordings -> Management]
    BY <1>2 DEF CreateReleaseClaims, TypeOK, Management
  <2>. QED
    BY <1>2, <2>1, <2>2 DEF CreateReleaseClaims, TypeOK, calendar, locks
<1>. QED
  BY <1>1, <1>2 DEF Registration

\* The steps of a decision keep the types.
LEMMA TypeDecision == ASSUME TypeOK, ClaimsRecorded, Held, NEW u \in Users, DecisionStep(u) PROVE TypeOK'
<1>1. ASSUME NEW c \in Claims, NEW verdict \in Verdicts, DecideLockClaim(u, c, verdict) PROVE TypeOK'
  <2>1. [claim |-> c, verdict |-> verdict, next |-> "none", day |-> {}] \in Job
    BY DEF Job, Management
  <2>. QED
    BY <1>1, <2>1 DEF DecideLockClaim, TypeOK, calendar
<1>2. CASE DecideLockRecording(u)
  BY <1>2 DEF DecideLockRecording, TypeOK, calendar
<1>3. CASE DecideValidate(u)
  BY <1>3, DoneType DEF DecideValidate, TypeOK, calendar, locks
<1>4. CASE DecideAssess(u)
  <2>1. PICK n \in Management : job' = [job EXCEPT ![u].next = n, ![u].day = inForce]
    BY <1>4 DEF DecideAssess, Management
  <2>2. [job[u] EXCEPT !.next = n, !.day = inForce] \in Job
    BY DEF TypeOK, Job
  <2>3. job' \in [Users -> Job]
    BY <2>1, <2>2 DEF TypeOK
  <2>. QED
    BY <1>4, <2>3 DEF DecideAssess, TypeOK, calendar, locks
<1>5. CASE DecideCommit(u)
  <2>1. Decided(u) \in Claims /\ job[u].verdict \in Verdicts /\ job[u].next \in Management
    BY <1>5 DEF DecideCommit, Held, TypeOK, Job
  <2>2. job[u].verdict \in Status
    BY <2>1, VerdictsAssumption DEF Status
  <2>3. [claim[Decided(u)] EXCEPT !.status = job[u].verdict] \in Row
    BY <2>1, <2>2 DEF TypeOK, Row
  <2>4. claim' \in [Claims -> Row]
    BY <1>5, <2>1, <2>3 DEF DecideCommit, TypeOK
  <2>5. managed' \in [Recordings -> Management]
    BY <1>5, <2>1 DEF DecideCommit, TypeOK
  <2>. QED
    BY <1>5, <2>4, <2>5, DoneType DEF DecideCommit, TypeOK, calendar
<1>. QED
  BY <1>1, <1>2, <1>3, <1>4, <1>5 DEF DecisionStep, RightsClaimDecide, AdminDecides

\* The steps of a correction keep the types.
LEMMA TypeCorrection == ASSUME TypeOK, ClaimsRecorded, Held, NEW u \in Users, CorrectionStep(u) PROVE TypeOK'
<1>1. ASSUME NEW c \in Claims, SupersedeLockClaim(u, c) PROVE TypeOK'
  <2>1. [claim |-> c, verdict |-> None, next |-> "none", day |-> {}] \in Job
    BY DEF Job, Management
  <2>. QED
    BY <1>1, <2>1 DEF SupersedeLockClaim, TypeOK, calendar
<1>2. ASSUME NEW n \in Claims, NEW s \in Scopes, NEW share \in Shares \cup {None}, NEW local \in BOOLEAN,
             SupersedeCommit(u, n, s, share, local)
      PROVE  TypeOK'
  <2>1. Decided(u) \in Claims /\ RecordingOf(u) \in Recordings
    BY <1>2 DEF SupersedeCommit, Held, ClaimsRecorded, RecordingOf
  <2>. DEFINE row == Replacement(u, s, share, local)
              mid == [claim EXCEPT ![n] = row]
  <2>2. row \in Row
    BY <2>1, UnverifiedType DEF Replacement
  <2>3. mid \in [Claims -> Row]
    <3>. HIDE DEF row
    <3>. QED
      BY <2>2 DEF TypeOK
  <2>4. [mid[Decided(u)] EXCEPT !.status = "superseded"] \in Row
    <3>. HIDE DEF mid
    <3>. QED
      BY <2>1, <2>3 DEF Row, Status
  <2>5. claim' = [mid EXCEPT ![Decided(u)].status = "superseded"]
    BY <1>2 DEF SupersedeCommit
  <2>6. claim' \in [Claims -> Row]
    <3>. HIDE DEF mid
    <3>. QED
      BY <2>1, <2>3, <2>4, <2>5
  <2>. QED
    BY <1>2, <2>6, DoneType DEF SupersedeCommit, TypeOK, calendar
<1>3. CASE SupersedeRefused(u)
  BY <1>3, DoneType DEF SupersedeRefused, TypeOK, calendar
<1>. QED
  BY <1>1, <1>2, <1>3 DEF CorrectionStep

\* Every step keeps the types.
LEMMA TypeNext == ASSUME TypeOK, ClaimsRecorded, Held, [Next]_vars PROVE TypeOK'
<1>1. ASSUME NEW c \in Claims, NEW r \in Recordings, NEW share \in Shares \cup {None},
             CreateManaged(r, c, share)
      PROVE  TypeOK'
  BY <1>1, UnverifiedType, ScopesAssumption DEF CreateManaged, TypeOK, calendar, Management, locks
<1>2. ASSUME NEW r \in Recordings, NEW status \in Management, AdminSetsStatus(r, status) PROVE TypeOK'
  BY <1>2 DEF AdminSetsStatus, TypeOK, calendar, locks
<1>3. ASSUME NEW s \in Scopes, PeriodBegins(s) \/ PeriodEnds(s) PROVE TypeOK'
  BY <1>3 DEF PeriodBegins, PeriodEnds, TypeOK, locks
<1>4. CASE UNCHANGED vars
  BY <1>4 DEF vars, calendar, locks, TypeOK
<1>. QED
  BY <1>1, <1>2, <1>3, <1>4, TypeRegistration, TypeDecision, TypeCorrection DEF Next

-----------------------------------------------------------------------------
(* What a step does to claims and locks.                                   *)

\* A claim that exists keeps its recording, scope and local right, a new one is put
\* where no decision holds the recording, and a claim under the lock of a recording
\* changes only by the commit of the decision that holds it.
LEMMA ClaimsWritten ==
  ASSUME TypeOK, ClaimsRecorded, Held, [Next]_vars, NEW c \in Claims
  PROVE  \/ claim'[c] = claim[c]
         \/ /\ claim[c].status = "absent" /\ claim'[c].status # "absent"
            /\ claim'[c].recording \in Recordings /\ recLock[claim'[c].recording] = None
         \/ /\ claim[c].status # "absent" /\ claim'[c].status # "absent"
            /\ claim'[c].recording = claim[c].recording
            /\ claim'[c].local = claim[c].local /\ claim'[c].scope = claim[c].scope
            /\ \/ recLock[claim[c].recording] = None
               \/ \E v \in Users : DecideCommit(v) /\ recLock[claim[c].recording] = v
<1>. DEFINE Goal ==
       \/ claim'[c] = claim[c]
       \/ /\ claim[c].status = "absent" /\ claim'[c].status # "absent"
          /\ claim'[c].recording \in Recordings /\ recLock[claim'[c].recording] = None
       \/ /\ claim[c].status # "absent" /\ claim'[c].status # "absent"
          /\ claim'[c].recording = claim[c].recording
          /\ claim'[c].local = claim[c].local /\ claim'[c].scope = claim[c].scope
          /\ \/ recLock[claim[c].recording] = None
             \/ \E v \in Users : DecideCommit(v) /\ recLock[claim[c].recording] = v
<1>0. claim \in [Claims -> Row] /\ claim[c] \in Row
  BY DEF TypeOK
<1>1. ASSUME NEW s \in Scopes, NEW share \in Shares \cup {None}, NEW local \in BOOLEAN,
             NEW d \in Claims, NEW r \in Recordings, CreateClaim(d, r, s, share, local)
      PROVE  Goal
  <2>1. PICK row \in Row : /\ row = Unverified(r, s, share, local, None)
                           /\ row.status = "unverified" /\ row.recording = r
    BY UnverifiedType
  <2>2. /\ claim[d].status = "absent" /\ recLock[r] = None /\ claim' = [claim EXCEPT ![d] = row]
    BY <1>1, <2>1 DEF CreateClaim
  <2>3. CASE c = d
    BY <1>0, <2>1, <2>2, <2>3
  <2>4. CASE c # d
    BY <1>0, <2>2, <2>4
  <2>. QED
    BY <2>3, <2>4
<1>2. ASSUME NEW s \in Scopes, NEW share \in Shares \cup {None}, NEW local \in BOOLEAN,
             NEW new \in [Claims -> Recordings \cup {None}], CreateReleaseClaims(new, s, share, local)
      PROVE  Goal
  <2>1. claim'[c] = IF new[c] = None THEN claim[c] ELSE Unverified(new[c], s, share, local, None)
    BY <1>2 DEF CreateReleaseClaims
  <2>2. CASE new[c] = None
    BY <2>1, <2>2
  <2>3. CASE new[c] # None
    <3>1. new[c] \in Recordings /\ claim[c].status = "absent" /\ recLock[new[c]] = None
      BY <1>2, <2>3 DEF CreateReleaseClaims
    <3>. QED
      BY <2>1, <2>3, <3>1, UnverifiedType
  <2>. QED
    BY <2>2, <2>3
<1>3. ASSUME NEW d \in Claims, NEW r \in Recordings, NEW share \in Shares \cup {None},
             CreateManaged(r, d, share)
      PROVE  Goal
  <2>. DEFINE row == Unverified(r, WorldScope, share, TRUE, None)
  <2>1. row.status = "unverified" /\ row.recording = r
    BY DEF Unverified
  <2>2. /\ claim[d].status = "absent" /\ recLock[r] = None
        /\ claim' = [claim EXCEPT ![d] = row]
    BY <1>3 DEF CreateManaged
  <2>. HIDE DEF row
  <2>. QED
    BY <1>0, <2>1, <2>2
<1>4. ASSUME NEW v \in Users, DecideCommit(v) PROVE Goal
  <2>1. /\ Decided(v) \in Claims /\ claim[Decided(v)].status # "absent" /\ job[v].verdict \in Verdicts
        /\ recLock[RecordingOf(v)] = v
    BY <1>4 DEF DecideCommit, Held
  <2>2. job[v].verdict # "absent"
    BY <2>1, VerdictsAssumption
  <2>3. claim' = claim \/ claim' = [claim EXCEPT ![Decided(v)].status = job[v].verdict]
    BY <1>4 DEF DecideCommit
  <2>4. c # Decided(v) => claim'[c] = claim[c]
    BY <1>0, <2>3
  <2>5. ASSUME c = Decided(v), claim'[c] # claim[c]
        PROVE  /\ claim'[c].status # "absent" /\ claim'[c].recording = claim[c].recording
               /\ claim'[c].local = claim[c].local /\ claim'[c].scope = claim[c].scope
    BY <1>0, <2>2, <2>3, <2>5 DEF Row
  <2>. QED
    BY <1>4, <2>1, <2>4, <2>5 DEF RecordingOf
<1>5. ASSUME NEW v \in Users, NEW n \in Claims, NEW s \in Scopes, NEW share \in Shares \cup {None},
             NEW local \in BOOLEAN, SupersedeCommit(v, n, s, share, local)
      PROVE  Goal
  <2>1. /\ Decided(v) \in Claims /\ claim[Decided(v)].status # "absent" /\ claim[n].status = "absent"
        /\ RecordingOf(v) \in Recordings /\ recLock[RecordingOf(v)] = None
    BY <1>5 DEF SupersedeCommit, Held, ClaimsRecorded, RecordingOf
  <2>. DEFINE row == Replacement(v, s, share, local)
  <2>2. row.status = "unverified" /\ row.recording = RecordingOf(v)
    BY DEF Replacement, Unverified
  <2>3. claim' = [claim EXCEPT ![n] = row, ![Decided(v)].status = "superseded"]
    BY <1>5 DEF SupersedeCommit
  <2>4. CASE c = n
    <3>. HIDE DEF row
    <3>1. claim'[n] = row
      BY <1>0, <2>1, <2>3
    <3>. QED
      BY <2>1, <2>2, <2>4, <3>1
  <2>5. CASE c = Decided(v)
    <3>. HIDE DEF row
    <3>1. claim'[c] = [claim[c] EXCEPT !.status = "superseded"]
      BY <1>0, <2>1, <2>3, <2>5
    <3>. QED
      BY <1>0, <2>1, <2>5, <3>1 DEF Row, RecordingOf
  <2>6. CASE c \notin {n, Decided(v)}
    BY <1>0, <2>3, <2>6
  <2>. QED
    BY <2>4, <2>5, <2>6
<1>6. ASSUME UNCHANGED claim PROVE Goal
  BY <1>6
<1>. HIDE DEF Goal
<1>7. ASSUME NEW v \in Users, DecisionStep(v) PROVE Goal
  BY <1>4, <1>6, <1>7
  DEF DecisionStep, RightsClaimDecide, AdminDecides, DecideLockClaim, DecideLockRecording,
      DecideValidate, DecideAssess
<1>8. ASSUME NEW v \in Users, CorrectionStep(v) PROVE Goal
  BY <1>5, <1>6, <1>8 DEF CorrectionStep, SupersedeLockClaim, SupersedeRefused
<1>9. Goal
  BY <1>1, <1>2, <1>3, <1>6, <1>7, <1>8
  DEF Next, Registration, AdminSetsStatus, PeriodBegins, PeriodEnds, vars, calendar
<1>. QED
  BY <1>9 DEF Goal

\* Steps of others leave a user's decision and locks alone.
LEMMA OthersSteps ==
  ASSUME TypeOK, [Next]_vars, NEW u \in Users, ~DecisionStep(u), ~CorrectionStep(u)
  PROVE  /\ pc'[u] = pc[u] /\ job'[u] = job[u]
         /\ \A c \in Claims : claimLock[c] = u => claimLock'[c] = u
         /\ \A r \in Recordings : recLock[r] = u => recLock'[r] = u
<1>. DEFINE Goal == /\ pc'[u] = pc[u] /\ job'[u] = job[u]
                    /\ \A c \in Claims : claimLock[c] = u => claimLock'[c] = u
                    /\ \A r \in Recordings : recLock[r] = u => recLock'[r] = u
<1>. USE DEF TypeOK
<1>0. u # None
  BY ScopesAssumption
<1>1. ASSUME NEW v \in Users, v # u, Done(v) PROVE Goal
  BY <1>1 DEF Done, Release
<1>2. ASSUME NEW v \in Users, v # u, NEW c \in Claims, NEW verdict \in Verdicts,
             DecideLockClaim(v, c, verdict)
      PROVE  Goal
  BY <1>0, <1>2 DEF DecideLockClaim
<1>3. ASSUME NEW v \in Users, v # u, DecideLockRecording(v) PROVE Goal
  BY <1>0, <1>3 DEF DecideLockRecording, RecordingFree
<1>4. ASSUME NEW v \in Users, v # u, DecideValidate(v) PROVE Goal
  BY <1>1, <1>4 DEF DecideValidate, locks
<1>5. ASSUME NEW v \in Users, v # u, DecideAssess(v) PROVE Goal
  BY <1>5 DEF DecideAssess, locks
<1>6. ASSUME NEW v \in Users, v # u, NEW c \in Claims, SupersedeLockClaim(v, c) PROVE Goal
  BY <1>0, <1>6 DEF SupersedeLockClaim
<1>7. ASSUME UNCHANGED <<pc, job, locks>> PROVE Goal
  BY <1>7 DEF locks
<1>. HIDE DEF Goal
<1>8. ASSUME NEW v \in Users, v # u, DecisionStep(v) PROVE Goal
  BY <1>1, <1>2, <1>3, <1>4, <1>5, <1>8
  DEF DecisionStep, RightsClaimDecide, AdminDecides, DecideCommit
<1>9. ASSUME NEW v \in Users, v # u, CorrectionStep(v) PROVE Goal
  BY <1>1, <1>6, <1>9 DEF CorrectionStep, SupersedeCommit, SupersedeRefused
<1>10. ASSUME Registration PROVE Goal
  BY <1>7, <1>10 DEF Registration, CreateClaim, CreateReleaseClaims
<1>11. ASSUME NEW r \in Recordings, NEW c \in Claims, NEW share \in Shares \cup {None},
              CreateManaged(r, c, share)
       PROVE  Goal
  BY <1>7, <1>11 DEF CreateManaged
<1>12. ASSUME NEW r \in Recordings, NEW status \in Management, AdminSetsStatus(r, status) PROVE Goal
  BY <1>7, <1>12 DEF AdminSetsStatus
<1>13. ASSUME NEW s \in Scopes, PeriodBegins(s) \/ PeriodEnds(s) PROVE Goal
  BY <1>7, <1>13 DEF PeriodBegins, PeriodEnds
<1>14. ASSUME UNCHANGED vars PROVE Goal
  BY <1>7, <1>14 DEF vars, calendar, locks
<1>15. Goal
  BY <1>8, <1>9, <1>10, <1>11, <1>12, <1>13, <1>14 DEF Next
<1>. QED
  BY <1>15 DEF Goal

-----------------------------------------------------------------------------
(* The inductive invariant.                                                *)

\* A claim that exists stays about its recording.
LEMMA ClaimsRecordedNext == ASSUME TypeOK, ClaimsRecorded, Held, [Next]_vars PROVE ClaimsRecorded'
  BY ClaimsWritten DEF ClaimsRecorded

\* The claim of a decision stays, of the same recording.
LEMMA DecidedStays ==
  ASSUME TypeOK, ClaimsRecorded, Held, [Next]_vars, NEW c \in Claims, claim[c].status # "absent"
  PROVE  claim'[c].status # "absent" /\ claim'[c].recording = claim[c].recording
  BY ClaimsWritten

\* Locks are held from the step that takes them until the decision is done.
LEMMA HeldNext == ASSUME TypeOK, ClaimsRecorded, Held, [Next]_vars PROVE Held'
<1>. DEFINE Fine(u) ==
       /\ pc[u] # "idle" =>
            /\ Decided(u) \in Claims /\ claimLock[Decided(u)] = u
            /\ claim[Decided(u)].status # "absent"
       /\ pc[u] \in {"claim", "recording", "valid", "assessed"} => job[u].verdict \in Verdicts
       /\ pc[u] \in {"recording", "valid", "assessed"} => recLock[RecordingOf(u)] = u
<1>. SUFFICES ASSUME NEW u \in Users PROVE Fine(u)'
  BY DEF Held
<1>0. /\ Fine(u)
      /\ pc[u] # "idle" => RecordingOf(u) \in Recordings
      /\ pc \in [Users -> {"idle", "claim", "recording", "valid", "assessed", "correcting"}]
      /\ job \in [Users -> Job]
  BY DEF Held, ClaimsRecorded, RecordingOf, TypeOK
<1>d. PICK d : d = job[u].claim
  OBVIOUS
<1>. USE DEF Decided, RecordingOf
<1>1. CASE ~DecisionStep(u) /\ ~CorrectionStep(u)
  <2>1. /\ pc'[u] = pc[u] /\ job'[u] = job[u]
        /\ \A c \in Claims : claimLock[c] = u => claimLock'[c] = u
        /\ \A r \in Recordings : recLock[r] = u => recLock'[r] = u
    BY <1>1, OthersSteps
  <2>2. CASE pc[u] = "idle"
    BY <2>1, <2>2
  <2>3. CASE pc[u] # "idle"
    <3>1. claim'[d].status # "absent" /\ claim'[d].recording = claim[d].recording
      BY <1>0, <1>d, <2>3, DecidedStays
    <3>. QED
      BY <1>0, <1>d, <2>1, <2>3, <3>1
  <2>. QED
    BY <2>2, <2>3
<1>2. ASSUME Done(u) PROVE Fine(u)'
  BY <1>0, <1>2 DEF Done
<1>3. ASSUME NEW c \in Claims, NEW verdict \in Verdicts, DecideLockClaim(u, c, verdict) PROVE Fine(u)'
  BY <1>0, <1>3 DEF DecideLockClaim, Decided, TypeOK
<1>4. ASSUME DecideLockRecording(u) PROVE Fine(u)'
  <2>1. /\ pc[u] = "claim" /\ pc'[u] = "recording" /\ UNCHANGED <<claim, claimLock, job>>
    BY <1>0, <1>4 DEF DecideLockRecording
  <2>2. recLock'[claim[d].recording] = u
    BY <1>0, <1>d, <1>4, <2>1 DEF DecideLockRecording, TypeOK
  <2>. QED
    BY <1>0, <1>d, <2>1, <2>2
<1>5. ASSUME DecideValidate(u) PROVE Fine(u)'
  <2>1. CASE pc'[u] = "valid" /\ pc[u] = "recording" /\ UNCHANGED <<claim, locks, job>>
    BY <1>0, <1>d, <2>1 DEF locks
  <2>. QED
    BY <1>0, <1>2, <1>5, <2>1 DEF DecideValidate
<1>6. ASSUME DecideAssess(u) PROVE Fine(u)'
  <2>1. /\ pc[u] = "valid" /\ pc'[u] = "assessed" /\ UNCHANGED <<claim, claimLock, recLock>>
        /\ job'[u].claim = job[u].claim /\ job'[u].verdict = job[u].verdict
    BY <1>0, <1>6 DEF DecideAssess, locks, Job
  <2>. QED
    BY <1>0, <1>d, <2>1
<1>7. ASSUME NEW c \in Claims, SupersedeLockClaim(u, c) PROVE Fine(u)'
  BY <1>0, <1>7 DEF SupersedeLockClaim, Decided, TypeOK
<1>. HIDE DEF Fine
<1>8. CASE DecisionStep(u)
  BY <1>2, <1>3, <1>4, <1>5, <1>6, <1>8
  DEF DecisionStep, RightsClaimDecide, AdminDecides, DecideCommit
<1>9. CASE CorrectionStep(u)
  BY <1>2, <1>7, <1>9 DEF CorrectionStep, SupersedeCommit, SupersedeRefused
<1>. QED
  BY <1>1, <1>8, <1>9

\* The claims on a recording change only when its decision is committed.
LEMMA LockedRows ==
  ASSUME TypeOK, ClaimsRecorded, Held, [Next]_vars, NEW u \in Users,
         pc[u] \in {"recording", "valid", "assessed"}, ~DecideCommit(u)
  PROVE  \A c \in Claims :
           claim[c].recording = RecordingOf(u) \/ claim'[c].recording = RecordingOf(u) =>
             claim'[c] = claim[c]
<1>. DEFINE r == RecordingOf(u)
<1>1. /\ Decided(u) \in Claims /\ claim[Decided(u)].status # "absent" /\ recLock[r] = u
      /\ r \in Recordings /\ u # None
  BY ScopesAssumption DEF Held, ClaimsRecorded, RecordingOf
<1>. SUFFICES ASSUME NEW c \in Claims, claim[c].recording = r \/ claim'[c].recording = r
              PROVE  claim'[c] = claim[c]
  OBVIOUS
<1>2. ASSUME NEW v \in Users, DecideCommit(v), recLock[r] = v PROVE FALSE
  BY <1>1, <1>2
<1>3. claim[c].recording = r /\ claim[c].status # "absent" => claim'[c] = claim[c]
  <2>. HIDE DEF r
  <2>. QED
    BY <1>1, <1>2, ClaimsWritten
<1>4. claim[c].status = "absent" => claim[c].recording # r
  BY <1>1, ScopesAssumption DEF ClaimsRecorded
<1>5. claim[c].recording # r => claim'[c] = claim[c]
  <2>. HIDE DEF r
  <2>. QED
    BY <1>1, ClaimsWritten
<1>. QED
  BY <1>3, <1>4, <1>5

\* What a transaction sees of the rights in a recording it has locked does not change.
LEMMA RightsKept ==
  ASSUME TypeOK, ClaimsRecorded, Held, [Next]_vars, NEW u \in Users, pc[u] = "assessed",
         pc'[u] = "assessed", job'[u] = job[u], ~DecideCommit(u)
  PROVE  Rights(u)' = Rights(u) /\ \A c \in Rights(u) : claim'[c].scope = claim[c].scope
<1>. DEFINE r == RecordingOf(u)
<1>1. Decided(u) \in Claims
  BY DEF Held
<1>2. \A c \in Claims : claim[c].recording = r \/ claim'[c].recording = r => claim'[c] = claim[c]
  BY LockedRows
<1>3. Decided(u)' = Decided(u) /\ RecordingOf(u)' = r
  BY <1>1, <1>2 DEF Decided, RecordingOf
<1>. QED
  BY <1>2, <1>3 DEF Rights, Seen

\* What was assessed holds, of the day it was assessed, until it is committed.
LEMMA AssessedNext == ASSUME TypeOK, ClaimsRecorded, Held, Assessed, [Next]_vars PROVE Assessed'
<1>. DEFINE Fine(u) ==
       job[u].next # "none" =>
         job[u].next = IF \E c \in Rights(u) : claim[c].scope \in job[u].day THEN "active" ELSE "pending"
<1>. SUFFICES ASSUME NEW u \in Users, pc'[u] = "assessed" PROVE Fine(u)'
  BY DEF Assessed
<1>1. CASE DecideAssess(u)
  <2>1. /\ pc[u] = "valid" /\ UNCHANGED <<claim, inForce>>
        /\ job'[u].claim = job[u].claim /\ job'[u].verdict = job[u].verdict
        /\ job'[u].next \in {"none", IF LocalBasis(RecordingOf(u), Seen(u)) THEN "active" ELSE "pending"}
        /\ job'[u].day = inForce
    BY <1>1 DEF DecideAssess, TypeOK, Job, calendar
  <2>2. Decided(u)' = Decided(u) /\ RecordingOf(u)' = RecordingOf(u) /\ Seen(u)' = Seen(u)
    BY <2>1 DEF Decided, RecordingOf, Seen
  <2>3. Rights(u)' = Rights(u)
    BY <2>1, <2>2 DEF Rights
  <2>4. LocalBasis(RecordingOf(u), Seen(u)) <=> \E c \in Rights(u) : claim[c].scope \in inForce
    BY DEF LocalBasis, Rights
  <2>. QED
    BY <2>1, <2>3, <2>4
<1>2. CASE ~DecideAssess(u)
  <2>1. ~DecisionStep(u) /\ ~CorrectionStep(u)
    BY <1>2
    DEF TypeOK, DecisionStep, RightsClaimDecide, AdminDecides, DecideLockClaim, DecideLockRecording,
        DecideValidate, DecideCommit, CorrectionStep, SupersedeLockClaim, SupersedeCommit,
        SupersedeRefused, Done
  <2>2. pc[u] = "assessed" /\ job'[u] = job[u] /\ ~DecideCommit(u)
    BY <2>1, OthersSteps DEF DecisionStep
  <2>3. Rights(u)' = Rights(u) /\ \A c \in Rights(u) : claim'[c].scope = claim[c].scope
    BY <2>2, RightsKept
  <2>. QED
    BY <2>2, <2>3 DEF Assessed
<1>. QED
  BY <1>1, <1>2

\* Every step preserves the invariant.
LEMMA RInvNext == RInv /\ [Next]_vars => RInv'
  BY TypeNext, ClaimsRecordedNext, HeldNext, AssessedNext DEF RInv

\* The inductive invariant of claims, locks and decisions holds in every state
\* (decide_rights_claim and supersede_rights_claim under their row locks).
THEOREM RightsInductive == Spec => []RInv
  BY RInvInit, RInvNext, PTL DEF Spec

\* Every variable keeps its type: the rows, locks and decisions are well formed.
THEOREM TypeCorrect == Spec => []TypeOK
<1>1. RInv => TypeOK
  BY DEF RInv
<1>. QED
  BY <1>1, RightsInductive, PTL

-----------------------------------------------------------------------------

\* What a commit settles follows from the claims it leaves: it writes what was
\* assessed, and the verdict it was assessed with.
LEMMA CommitSettles ==
  ASSUME RInv, NEW u \in Users, NEW r \in Recordings, DecideCommit(u), managed'[r] # managed[r]
  PROVE  managed'[r] = IF RightInForce(claim', r, job[u].day) THEN "active" ELSE "pending"
<1>1. /\ Decided(u) \in Claims /\ claim \in [Claims -> Row] /\ managed \in [Recordings -> Management]
      /\ pc[u] = "assessed"
  BY DEF RInv, TypeOK, Held, DecideCommit
<1>2. /\ r = RecordingOf(u) /\ managed'[r] = job[u].next /\ job[u].next # "none"
      /\ claim' = [claim EXCEPT ![Decided(u)].status = job[u].verdict]
  BY <1>1 DEF DecideCommit
<1>3. \A c \in Claims : /\ claim'[c].recording = claim[c].recording /\ claim'[c].local = claim[c].local
                        /\ claim'[c].scope = claim[c].scope /\ claim'[c].status = Seen(u)[c]
  BY <1>1, <1>2 DEF Row, Seen
<1>4. RightInForce(claim', r, job[u].day) <=> \E c \in Rights(u) : claim[c].scope \in job[u].day
  BY <1>2, <1>3 DEF RightInForce, Rights
<1>. QED
  BY <1>1, <1>2, <1>4 DEF RInv, Assessed

\* A decision that changes the status of a managed recording leaves it in active
\* management if and only if the claims it leaves behind hold a confirmed right of the
\* local organisation in force on the day of the decision, for any number of users,
\* claims and recordings (decide_rights_claim).
THEOREM DecisionsSettle == Spec => DecisionsSettleStatus
<1>1. RInv /\ [Next]_vars =>
        [\A u \in Users, r \in Recordings :
           DecideCommit(u) /\ managed'[r] # managed[r] =>
             managed'[r] = IF RightInForce(claim', r, job[u].day) THEN "active" ELSE "pending"]_vars
  BY CommitSettles
<1>. QED
  BY <1>1, RightsInductive, PTL DEF Spec, DecisionsSettleStatus

-----------------------------------------------------------------------------
(* Sums over sets of claims.                                               *)

\* Induction over sets of claims: a property that passes to a set from its proper
\* subsets holds of every set.
LEMMA BySubsets ==
  ASSUME NEW K, \A S \in SUBSET Claims : (\A T \in SUBSET S : T # S => T \in K) => S \in K
  PROVE  SUBSET Claims \subseteq K
<1>1. PICK F : F = {S \in SUBSET Claims : S \notin K}
  OBVIOUS
<1>2. F \in SUBSET (SUBSET Claims)
  BY <1>1
<1>3. F # {} => \E T \in F : \A U \in F : U \subseteq T => U = T
  BY <1>2, ClaimsAssumption, SmallestSubset
<1>. QED BY <1>1, <1>3

\* The first element of a set, as the sum takes them.
First(S) == CHOOSE d \in S : TRUE

\* The sums of f are defined: over the sets of at most n claims, for every n.
LEMMA SumsDefined ==
  ASSUME NEW f
  PROVE  \A S \in SUBSET Claims :
           Sums(f)[S] = IF S = {} THEN 0 ELSE f[First(S)] + Sums(f)[S \ {First(S)}]
<1>. DEFINE Small(n) == {S \in SUBSET Claims : Cardinality(S) <= n}
            Sum(n, g) == g = [S \in Small(n) |-> IF S = {} THEN 0
                                                 ELSE f[First(S)] + g[S \ {First(S)}]]
<1>1. PICK N \in Nat : N = Cardinality(Claims)
  BY ClaimsAssumption, FS_CardinalityType
<1>2. \A S \in SUBSET Claims : IsFiniteSet(S) /\ Cardinality(S) \in 0..N
  BY <1>1, ClaimsAssumption, FS_Subset, FS_CardinalityType
<1>3. Small(N) = SUBSET Claims
  BY <1>2
<1>4. \A S \in SUBSET Claims : S # {} =>
        /\ First(S) \in S /\ S \ {First(S)} \in SUBSET Claims
        /\ Cardinality(S \ {First(S)}) = Cardinality(S) - 1
  BY <1>2, FS_RemoveElement DEF First
<1>5. PICK K : K = {k \in 0..N : \E g : Sum(k, g)}
  OBVIOUS
<1>6. 0 \in K
  <2>1. Small(0) = {{}}
    BY <1>2, FS_EmptySet
  <2>2. PICK g : g = [S \in Small(0) |-> 0]
    OBVIOUS
  <2>3. Sum(0, g)
    BY <2>1, <2>2
  <2>4. \E i : Sum(0, i)
    BY <2>3
  <2>5. 0 \in 0..N
    BY <1>1
  <2>. HIDE DEF Sum
  <2>. QED BY <1>5, <2>4, <2>5
<1>7. ASSUME NEW k \in 0..N, k \in K, k < N
      PROVE  k + 1 \in K
  <2>1. PICK g : Sum(k, g)
    BY <1>5, <1>7
  <2>2. PICK h : h = [S \in Small(k + 1) |-> IF S = {} THEN 0
                                             ELSE f[First(S)] + g[S \ {First(S)}]]
    OBVIOUS
  <2>3. ASSUME NEW S \in Small(k + 1), S # {}
        PROVE  S \ {First(S)} \in Small(k) /\ S \ {First(S)} \in Small(k + 1)
    BY <1>2, <1>4, <2>3
  <2>4. \A S \in Small(k) : g[S] = h[S]
    <3>1. Small(k) \subseteq Small(k + 1)
      BY <1>2
    <3>. QED BY <2>1, <2>2, <3>1
  <2>5. h = [S \in Small(k + 1) |-> IF S = {} THEN 0 ELSE f[First(S)] + h[S \ {First(S)}]]
    BY <2>2, <2>3, <2>4
  <2>6. \E i : Sum(k + 1, i)
    BY <2>5
  <2>7. k + 1 \in 0..N
    BY <1>7
  <2>. QED BY <1>5, <2>6, <2>7
<1>8. N \in K
  BY <1>6, <1>7, UpTo
<1>9. \E g : g = [S \in SUBSET Claims |-> IF S = {} THEN 0 ELSE f[First(S)] + g[S \ {First(S)}]]
  BY <1>3, <1>5, <1>8
<1>10. PICK g : g = Sums(f)
  OBVIOUS
<1>11. g = [S \in SUBSET Claims |-> IF S = {} THEN 0 ELSE f[First(S)] + g[S \ {First(S)}]]
  BY <1>9, <1>10, Zenon DEF Sums, First
<1>. QED BY <1>10, <1>11

\* A sum of natural numbers is one.
LEMMA SumsNat ==
  ASSUME NEW f \in [Claims -> Nat]
  PROVE  \A S \in SUBSET Claims : Sums(f)[S] \in Nat
<1>1. PICK g : g = Sums(f)
  OBVIOUS
<1>2. \A S \in SUBSET Claims : g[S] = IF S = {} THEN 0 ELSE f[First(S)] + g[S \ {First(S)}]
  BY <1>1, SumsDefined
<1>3. PICK K : K = {S \in SUBSET Claims : g[S] \in Nat}
  OBVIOUS
<1>4. ASSUME NEW S \in SUBSET Claims, \A T \in SUBSET S : T # S => T \in K
      PROVE  S \in K
  <2>1. CASE S = {}
    <3>1. g[S] = 0
      BY <1>2, <2>1
    <3>. QED BY <1>3, <3>1
  <2>2. CASE S # {}
    <3>1. PICK a : a = First(S)
      OBVIOUS
    <3>2. a \in S /\ g[S] = f[a] + g[S \ {a}]
      BY <1>2, <2>2, <3>1 DEF First
    <3>3. g[S \ {a}] \in Nat /\ f[a] \in Nat
      BY <1>3, <1>4, <3>2
    <3>4. g[S] \in Nat
      BY <3>2, <3>3
    <3>. QED BY <1>3, <3>4
  <2>. QED BY <2>1, <2>2
<1>5. SUBSET Claims \subseteq K
  BY <1>4, BySubsets
<1>. QED BY <1>1, <1>3, <1>5

\* The sum takes its elements in any order.
LEMMA SumsRemove ==
  ASSUME NEW f \in [Claims -> Nat]
  PROVE  \A S \in SUBSET Claims : \A c \in S : Sums(f)[S] = f[c] + Sums(f)[S \ {c}]
<1>1. PICK g : g = Sums(f)
  OBVIOUS
<1>2. \A S \in SUBSET Claims : g[S] = IF S = {} THEN 0 ELSE f[First(S)] + g[S \ {First(S)}]
  BY <1>1, SumsDefined
<1>3. \A S \in SUBSET Claims : g[S] \in Nat
  BY <1>1, SumsNat
<1>4. PICK K : K = {S \in SUBSET Claims : \A c \in S : g[S] = f[c] + g[S \ {c}]}
  OBVIOUS
<1>5. ASSUME NEW S \in SUBSET Claims, \A T \in SUBSET S : T # S => T \in K
      PROVE  S \in K
  <2>1. ASSUME NEW c \in S PROVE g[S] = f[c] + g[S \ {c}]
    <3>1. PICK a : a = First(S)
      OBVIOUS
    <3>2. a \in S /\ g[S] = f[a] + g[S \ {a}]
      BY <1>2, <3>1 DEF First
    <3>3. CASE c = a
      BY <3>2, <3>3
    <3>4. CASE c # a
      <4>1. S \ {a} \in K /\ c \in S \ {a} /\ S \ {c} \in K /\ a \in S \ {c}
        BY <1>5, <3>2, <3>4
      <4>2. g[S \ {a}] = f[c] + g[(S \ {a}) \ {c}] /\ g[S \ {c}] = f[a] + g[(S \ {c}) \ {a}]
        BY <1>4, <4>1
      <4>3. (S \ {a}) \ {c} = (S \ {c}) \ {a}
        OBVIOUS
      <4>4. PICK rest : rest = g[(S \ {a}) \ {c}]
        OBVIOUS
      <4>5. rest \in Nat /\ f[a] \in Nat /\ f[c] \in Nat
        BY <1>3, <3>2, <4>4
      <4>6. g[S] = f[a] + (f[c] + rest) /\ g[S \ {c}] = f[a] + rest
        BY <3>2, <4>2, <4>3, <4>4
      <4>. QED BY <4>5, <4>6
    <3>. QED BY <3>3, <3>4
  <2>. QED BY <1>4, <2>1
<1>6. SUBSET Claims \subseteq K
  BY <1>5, BySubsets
<1>. QED BY <1>1, <1>4, <1>6

\* Only the elements of a set count for its sum.
LEMMA SumsAgree ==
  ASSUME NEW f \in [Claims -> Nat], NEW h \in [Claims -> Nat]
  PROVE  \A S \in SUBSET Claims : (\A c \in S : f[c] = h[c]) => Sums(f)[S] = Sums(h)[S]
<1>1. PICK F : F = Sums(f)
  OBVIOUS
<1>2. PICK H : H = Sums(h)
  OBVIOUS
<1>3. \A S \in SUBSET Claims : F[S] = IF S = {} THEN 0 ELSE f[First(S)] + F[S \ {First(S)}]
  BY <1>1, SumsDefined
<1>4. \A S \in SUBSET Claims : H[S] = IF S = {} THEN 0 ELSE h[First(S)] + H[S \ {First(S)}]
  BY <1>2, SumsDefined
<1>5. PICK K : K = {S \in SUBSET Claims : (\A c \in S : f[c] = h[c]) => F[S] = H[S]}
  OBVIOUS
<1>6. ASSUME NEW S \in SUBSET Claims, \A T \in SUBSET S : T # S => T \in K
      PROVE  S \in K
  <2>1. CASE S = {}
    BY <1>3, <1>4, <1>5, <2>1
  <2>2. CASE S # {}
    <3>1. PICK a : a = First(S)
      OBVIOUS
    <3>2. a \in S /\ F[S] = f[a] + F[S \ {a}] /\ H[S] = h[a] + H[S \ {a}]
      BY <1>3, <1>4, <2>2, <3>1 DEF First
    <3>3. S \ {a} \in K
      BY <1>6, <3>2
    <3>. QED BY <1>5, <3>2, <3>3
  <2>. QED BY <2>1, <2>2
<1>7. SUBSET Claims \subseteq K
  BY <1>6, BySubsets
<1>. QED BY <1>1, <1>2, <1>5, <1>7

\* A smaller set has no larger sum.
LEMMA SumsShrink ==
  ASSUME NEW f \in [Claims -> Nat], NEW h \in [Claims -> Nat], NEW S \in SUBSET Claims,
         NEW T \in SUBSET S, \A c \in T : h[c] = f[c]
  PROVE  Sums(h)[T] <= Sums(f)[S]
<1>1. PICK g : g = Sums(f)
  OBVIOUS
<1>2. \A R \in SUBSET Claims : \A c \in R : g[R] = f[c] + g[R \ {c}]
  BY <1>1, SumsRemove
<1>3. \A R \in SUBSET Claims : g[R] \in Nat
  BY <1>1, SumsNat
<1>4. PICK K : K = {R \in SUBSET Claims : T \subseteq R => g[T] <= g[R]}
  OBVIOUS
<1>5. ASSUME NEW R \in SUBSET Claims, \A U \in SUBSET R : U # R => U \in K
      PROVE  R \in K
  <2>1. CASE ~ (T \subseteq R)
    BY <1>4, <2>1
  <2>2. CASE T = R
    BY <1>3, <1>4, <2>2
  <2>3. CASE T \subseteq R /\ T # R
    <3>1. PICK c \in R : c \notin T
      BY <2>3
    <3>2. R \ {c} \in K /\ T \subseteq R \ {c}
      BY <1>5, <2>3, <3>1
    <3>3. g[T] <= g[R \ {c}] /\ g[R] = f[c] + g[R \ {c}]
      BY <1>2, <1>4, <3>2
    <3>4. g[T] \in Nat /\ g[R] \in Nat /\ g[R \ {c}] \in Nat /\ f[c] \in Nat
      BY <1>3
    <3>5. g[T] <= g[R]
      BY <3>3, <3>4
    <3>. QED BY <1>4, <3>5
  <2>. QED BY <2>1, <2>2, <2>3
<1>6. SUBSET Claims \subseteq K
  BY <1>5, BySubsets
<1>7. g[T] <= g[S]
  BY <1>4, <1>6
<1>8. T \in SUBSET Claims /\ Sums(h)[T] = Sums(f)[T]
  BY SumsAgree
<1>. QED BY <1>1, <1>7, <1>8

-----------------------------------------------------------------------------
(* Confirmed shares stay within the whole.                                 *)

\* What a confirmation was validated against holds until it is committed.
Validated ==
  \A u \in Users :
    pc[u] \in {"valid", "assessed"} /\ job[u].verdict = "confirmed" => WithinWhole(Decided(u))

WInv == RInv /\ Validated /\ ConfirmedWithinWhole

\* The extent of a claim is a natural number.
LEMMA SharesNat == ASSUME TypeOK PROVE \A c \in Claims : ShareOf(c) \in Nat
<1>1. Shares \subseteq Nat
  BY SharesAssumption
<1>2. \A c \in Claims : claim[c].share \in Shares \cup {None}
  BY DEF TypeOK, Row
<1>. QED BY <1>1, <1>2 DEF ShareOf

\* The total of fewer claims, unchanged since, is no larger.
LEMMA TotalShrinks ==
  ASSUME TypeOK, TypeOK', NEW S \in SUBSET Claims, NEW T \in SUBSET S,
         \A c \in T : claim'[c].share = claim[c].share
  PROVE  Total(T)' <= Total(S) /\ Total(T)' \in Nat /\ Total(S) \in Nat
<1>1. PICK f : f = [c \in Claims |-> ShareOf(c)]
  OBVIOUS
<1>2. PICK h : h = [c \in Claims |-> ShareOf(c)']
  OBVIOUS
<1>3. f \in [Claims -> Nat]
  BY <1>1, SharesNat
<1>4. h \in [Claims -> Nat]
  <2>1. Shares \subseteq Nat
    BY SharesAssumption
  <2>2. \A c \in Claims : claim'[c].share \in Shares \cup {None}
    BY DEF TypeOK, Row
  <2>. QED BY <1>2, <2>1, <2>2 DEF ShareOf
<1>5. \A c \in T : h[c] = f[c]
  BY <1>1, <1>2 DEF ShareOf
<1>6. Sums(h)[T] <= Sums(f)[S] /\ Sums(h)[T] \in Nat /\ Sums(f)[S] \in Nat
  BY <1>3, <1>4, <1>5, SumsShrink, SumsNat
<1>7. Total(T)' = Sums(h)[T] /\ Total(S) = Sums(f)[S]
  BY <1>1, <1>2 DEF Total
<1>. QED BY <1>6, <1>7

\* A claim of unknown extent adds nothing to the claims it joins.
LEMMA TotalJoined ==
  ASSUME TypeOK, NEW c \in Claims, NEW S \in SUBSET Claims
  PROVE  /\ claim[c].share = None => Total(S \cup {c}) = Total(S)
         /\ Total(S) \in Nat /\ Total({}) = 0
<1>1. PICK f : f = [d \in Claims |-> ShareOf(d)]
  OBVIOUS
<1>2. f \in [Claims -> Nat]
  BY <1>1, SharesNat
<1>3. Sums(f)[S] \in Nat /\ Sums(f)[{}] = 0
  BY <1>2, SumsNat, SumsDefined
<1>4. ASSUME claim[c].share = None, c \notin S PROVE Sums(f)[S \cup {c}] = Sums(f)[S]
  <2>1. S \cup {c} \in SUBSET Claims /\ c \in S \cup {c} /\ (S \cup {c}) \ {c} = S
    BY <1>4
  <2>2. Sums(f)[S \cup {c}] = f[c] + Sums(f)[S]
    BY <1>2, <2>1, SumsRemove
  <2>3. f[c] = 0
    BY <1>1, <1>4 DEF ShareOf
  <2>. QED BY <1>3, <2>2, <2>3
<1>5. c \in S => S \cup {c} = S
  OBVIOUS
<1>. QED BY <1>1, <1>3, <1>4, <1>5 DEF Total

\* Claims are confirmed by the commit of a decision, which changes nothing else.
LEMMA ConfirmedBy ==
  ASSUME TypeOK, ClaimsRecorded, Held, [Next]_vars, NEW c \in Claims, claim'[c].status = "confirmed"
  PROVE  \/ claim'[c] = claim[c]
         \/ \E u \in Users :
              /\ DecideCommit(u) /\ c = Decided(u) /\ job[u].verdict = "confirmed"
              /\ claim' = [claim EXCEPT ![c].status = "confirmed"]
<1>. DEFINE Goal ==
       \/ claim'[c] = claim[c]
       \/ \E u \in Users :
            /\ DecideCommit(u) /\ c = Decided(u) /\ job[u].verdict = "confirmed"
            /\ claim' = [claim EXCEPT ![c].status = "confirmed"]
<1>0. claim \in [Claims -> Row] /\ claim[c] \in Row
  BY DEF TypeOK
<1>1. ASSUME UNCHANGED claim PROVE Goal
  BY <1>1
<1>2. ASSUME NEW s \in Scopes, NEW share \in Shares \cup {None}, NEW local \in BOOLEAN,
             NEW d \in Claims, NEW r \in Recordings, CreateClaim(d, r, s, share, local)
      PROVE  Goal
  BY <1>0, <1>2, UnverifiedType DEF CreateClaim
<1>3. ASSUME NEW s \in Scopes, NEW share \in Shares \cup {None}, NEW local \in BOOLEAN,
             NEW new \in [Claims -> Recordings \cup {None}], CreateReleaseClaims(new, s, share, local)
      PROVE  Goal
  <2>1. claim'[c] = IF new[c] = None THEN claim[c] ELSE Unverified(new[c], s, share, local, None)
    BY <1>3 DEF CreateReleaseClaims
  <2>2. new[c] # None => Unverified(new[c], s, share, local, None).status = "unverified"
    BY UnverifiedType
  <2>. QED BY <2>1, <2>2
<1>4. ASSUME NEW d \in Claims, NEW r \in Recordings, NEW share \in Shares \cup {None},
             CreateManaged(r, d, share)
      PROVE  Goal
  <2>1. Unverified(r, WorldScope, share, TRUE, None).status = "unverified"
    BY DEF Unverified
  <2>2. claim' = [claim EXCEPT ![d] = Unverified(r, WorldScope, share, TRUE, None)]
    BY <1>4 DEF CreateManaged
  <2>. QED BY <1>0, <2>1, <2>2
<1>5. ASSUME NEW u \in Users, DecideCommit(u) PROVE Goal
  <2>1. Decided(u) \in Claims
    BY <1>5 DEF DecideCommit, Held
  <2>2. claim' = claim \/ claim' = [claim EXCEPT ![Decided(u)].status = job[u].verdict]
    BY <1>5 DEF DecideCommit
  <2>3. CASE c = Decided(u) /\ claim' # claim
    <3>1. claim'[c].status = job[u].verdict
      BY <1>0, <2>2, <2>3 DEF Row
    <3>2. job[u].verdict = "confirmed"
      BY <3>1
    <3>. QED BY <1>5, <2>2, <2>3, <3>2
  <2>4. CASE c # Decided(u) \/ claim' = claim
    BY <1>0, <2>2, <2>4
  <2>. QED BY <2>3, <2>4
<1>6. ASSUME NEW v \in Users, NEW n \in Claims, NEW s \in Scopes, NEW share \in Shares \cup {None},
             NEW local \in BOOLEAN, SupersedeCommit(v, n, s, share, local)
      PROVE  Goal
  <2>1. Decided(v) \in Claims /\ claim[Decided(v)].status # "absent" /\ claim[n].status = "absent"
    BY <1>6 DEF SupersedeCommit, Held
  <2>2. PICK row : row = Replacement(v, s, share, local)
    OBVIOUS
  <2>3. row.status = "unverified"
    BY <2>2 DEF Replacement, Unverified
  <2>4. claim' = [claim EXCEPT ![n] = row, ![Decided(v)].status = "superseded"]
    BY <1>6, <2>2 DEF SupersedeCommit
  <2>5. c = n => claim'[c].status = "unverified"
    BY <1>0, <2>1, <2>3, <2>4
  <2>6. c = Decided(v) => claim'[c].status = "superseded"
    BY <1>0, <2>1, <2>4 DEF Row
  <2>7. c \notin {n, Decided(v)} => claim'[c] = claim[c]
    BY <1>0, <2>4
  <2>. QED BY <2>5, <2>6, <2>7
<1>. HIDE DEF Goal
<1>7. ASSUME NEW v \in Users, DecisionStep(v) PROVE Goal
  BY <1>1, <1>5, <1>7
  DEF DecisionStep, RightsClaimDecide, AdminDecides, DecideLockClaim, DecideLockRecording,
      DecideValidate, DecideAssess
<1>8. ASSUME NEW v \in Users, CorrectionStep(v) PROVE Goal
  BY <1>1, <1>6, <1>8 DEF CorrectionStep, SupersedeLockClaim, SupersedeRefused
<1>9. Goal
  BY <1>1, <1>2, <1>3, <1>4, <1>7, <1>8 DEF Next, Registration, AdminSetsStatus, PeriodBegins, PeriodEnds, vars, calendar
<1>. QED BY <1>9 DEF Goal

\* What was validated stays so: others change no claim on a recording under its lock.
LEMMA ValidatedNext ==
  ASSUME RInv, RInv', Validated, [Next]_vars
  PROVE  Validated'
<1>. SUFFICES ASSUME NEW u \in Users, pc'[u] \in {"valid", "assessed"},
                     job'[u].verdict = "confirmed"
              PROVE  WithinWhole(Decided(u))'
  BY DEF Validated
<1>1. TypeOK /\ TypeOK' /\ ClaimsRecorded /\ Held
  BY DEF RInv
<1>2. CASE DecideValidate(u)
  <2>1. pc'[u] = "valid" /\ job' = job /\ claim' = claim
    BY <1>1, <1>2 DEF DecideValidate, Done, TypeOK
  <2>2. WithinWhole(Decided(u))
    BY <1>1, <1>2, <2>1 DEF DecideValidate, Done, TypeOK
  <2>. QED BY <2>1, <2>2 DEF WithinWhole, Total, ShareOf, ConfirmedWith, Decided
<1>3. CASE DecideAssess(u)
  <2>1. pc[u] = "valid" /\ claim' = claim
        /\ job'[u].claim = job[u].claim /\ job'[u].verdict = job[u].verdict
    BY <1>1, <1>3 DEF DecideAssess, TypeOK, Job
  <2>2. WithinWhole(Decided(u))
    BY <2>1 DEF Validated
  <2>. QED BY <2>1, <2>2 DEF WithinWhole, Total, ShareOf, ConfirmedWith, Decided
<1>4. CASE ~DecideValidate(u) /\ ~DecideAssess(u)
  <2>1. ~DecisionStep(u) /\ ~CorrectionStep(u)
    BY <1>1, <1>4
    DEF TypeOK, DecisionStep, RightsClaimDecide, AdminDecides, DecideLockClaim, DecideLockRecording,
        DecideCommit, CorrectionStep, SupersedeLockClaim, SupersedeCommit, SupersedeRefused, Done
  <2>2. pc[u] = pc'[u] /\ job'[u] = job[u] /\ ~DecideCommit(u)
    BY <1>1, <2>1, OthersSteps DEF DecisionStep
  <2>3. PICK D : D = Decided(u)
    OBVIOUS
  <2>4. D \in Claims /\ Decided(u)' = D /\ RecordingOf(u) = claim[D].recording
    BY <1>1, <2>2, <2>3 DEF Held, Decided, RecordingOf
  <2>5. \A c \in Claims :
          claim[c].recording = claim[D].recording \/ claim'[c].recording = claim[D].recording =>
            claim'[c] = claim[c]
    BY <1>1, <2>2, <2>4, LockedRows
  <2>6. PICK S : S = ConfirmedWith(D) \cup {D}
    OBVIOUS
  <2>7. PICK T : T = ConfirmedWith(D)' \cup {D}
    OBVIOUS
  <2>8. S \in SUBSET Claims /\ T \in SUBSET S /\ \A c \in T : claim'[c].share = claim[c].share
    BY <2>4, <2>5, <2>6, <2>7 DEF ConfirmedWith
  <2>9. Total(T)' <= Total(S) /\ Total(T)' \in Nat /\ Total(S) \in Nat
    BY <1>1, <2>8, TotalShrinks
  <2>10. claim[D].share = None \/ Total(S) <= Whole
    BY <2>2, <2>3, <2>6 DEF Validated, WithinWhole
  <2>11. claim'[D].share = None \/ Total(T)' <= Whole
    BY <2>4, <2>5, <2>9, <2>10, SharesAssumption
  <2>12. WithinWhole(D)'
    BY <2>7, <2>11 DEF WithinWhole, Total
  <2>. QED BY <2>4, <2>12 DEF WithinWhole, Total, ConfirmedWith, ShareOf
<1>. QED BY <1>2, <1>3, <1>4

\* A validated claim and the claims confirmed with it make no more than the whole, of
\* whatever extent the claim is.
LEMMA ValidatedWhole ==
  ASSUME TypeOK, ConfirmedWithinWhole, NEW D \in Claims, WithinWhole(D)
  PROVE  Total(ConfirmedWith(D) \cup {D}) <= Whole
<1>1. PICK S : S = ConfirmedWith(D)
  OBVIOUS
<1>2. S \in SUBSET Claims
  BY <1>1 DEF ConfirmedWith
<1>3. CASE claim[D].share # None
  BY <1>3 DEF WithinWhole
<1>4. CASE claim[D].share = None
  <2>1. Total(S \cup {D}) = Total(S) /\ Total({}) = 0
    BY <1>2, <1>4, TotalJoined
  <2>2. CASE S = {}
    BY <1>1, <2>1, <2>2, SharesAssumption
  <2>3. CASE S # {}
    <3>1. PICK d \in S : TRUE
      BY <2>3
    <3>2. d \in Claims /\ claim[d].status = "confirmed" /\ ConfirmedWith(d) = S
      BY <1>1, <3>1 DEF ConfirmedWith
    <3>. QED BY <1>1, <2>1, <3>2 DEF ConfirmedWithinWhole
  <2>. QED BY <2>2, <2>3
<1>. QED BY <1>3, <1>4

\* Whatever commits, the confirmed shares stay within the whole.
LEMMA WholeNext ==
  ASSUME WInv, RInv', [Next]_vars
  PROVE  ConfirmedWithinWhole'
<1>. SUFFICES ASSUME NEW c \in Claims, claim'[c].status = "confirmed"
              PROVE  Total(ConfirmedWith(c))' <= Whole
  BY DEF ConfirmedWithinWhole
<1>1. TypeOK /\ TypeOK' /\ ClaimsRecorded /\ Held /\ Validated /\ ConfirmedWithinWhole
  BY DEF RInv, WInv
<1>2. PICK T : T = ConfirmedWith(c)'
  OBVIOUS
<1>3. \A d \in T : /\ d \in Claims /\ claim'[d].status = "confirmed"
                   /\ claim'[d].recording = claim'[c].recording /\ claim'[d].scope = claim'[c].scope
  BY <1>2 DEF ConfirmedWith
<1>4. SUFFICES Total(T)' <= Whole
  BY <1>2 DEF Total
<1>5. ASSUME NEW S \in SUBSET Claims, T \subseteq S, Total(S) <= Whole,
             \A d \in T : claim'[d].share = claim[d].share
      PROVE  Total(T)' <= Whole
  <2>1. Total(T)' <= Total(S) /\ Total(T)' \in Nat /\ Total(S) \in Nat
    BY <1>1, <1>5, TotalShrinks
  <2>. QED BY <1>5, <2>1, SharesAssumption
<1>6. CASE \A d \in Claims : claim'[d].status = "confirmed" => claim'[d] = claim[d]
  <2>1. PICK S : S = ConfirmedWith(c)
    OBVIOUS
  <2>2. S \in SUBSET Claims /\ T \subseteq S /\ \A d \in T : claim'[d].share = claim[d].share
    BY <1>3, <1>6, <2>1 DEF ConfirmedWith
  <2>3. Total(S) <= Whole
    BY <1>1, <1>6, <2>1 DEF ConfirmedWithinWhole
  <2>. QED BY <1>5, <2>2, <2>3
<1>7. CASE ~ \A d \in Claims : claim'[d].status = "confirmed" => claim'[d] = claim[d]
  <2>1. PICK D \in Claims, u \in Users :
          /\ DecideCommit(u) /\ D = Decided(u) /\ job[u].verdict = "confirmed"
          /\ claim' = [claim EXCEPT ![D].status = "confirmed"]
    BY <1>1, <1>7, ConfirmedBy
  <2>2. \A d \in Claims : /\ claim'[d].recording = claim[d].recording
                          /\ claim'[d].scope = claim[d].scope /\ claim'[d].share = claim[d].share
                          /\ d # D => claim'[d] = claim[d]
    BY <1>1, <2>1 DEF TypeOK, Row
  <2>3. WithinWhole(D)
    BY <1>1, <2>1 DEF Validated, DecideCommit
  <2>4. CASE claim[c].recording = claim[D].recording /\ claim[c].scope = claim[D].scope
    <3>1. PICK S : S = ConfirmedWith(D) \cup {D}
      OBVIOUS
    <3>2. S \in SUBSET Claims /\ T \subseteq S /\ \A d \in T : claim'[d].share = claim[d].share
      BY <1>3, <2>2, <2>4, <3>1 DEF ConfirmedWith
    <3>3. Total(S) <= Whole
      BY <1>1, <2>3, <3>1, ValidatedWhole
    <3>. QED BY <1>5, <3>2, <3>3
  <2>5. CASE ~ (claim[c].recording = claim[D].recording /\ claim[c].scope = claim[D].scope)
    <3>1. PICK S : S = ConfirmedWith(c)
      OBVIOUS
    <3>2. S \in SUBSET Claims /\ T \subseteq S /\ \A d \in T : claim'[d].share = claim[d].share
      BY <1>3, <2>2, <2>5, <3>1 DEF ConfirmedWith
    <3>3. claim[c].status = "confirmed"
      BY <2>2, <2>5
    <3>4. Total(S) <= Whole
      BY <1>1, <3>1, <3>3 DEF ConfirmedWithinWhole
    <3>. QED BY <1>5, <3>2, <3>4
  <2>. QED BY <2>4, <2>5
<1>. QED BY <1>6, <1>7

\* "Bekreftede eierandeler overstiger 100 %" never comes true: the confirmed shares of
\* one recording and scope stay within the whole, however many decisions, corrections
\* and registrations run at once (validate_confirmed_ownership_total under the lock of
\* the recording).
THEOREM SharesWithinWhole == Spec => []ConfirmedWithinWhole
<1>1. Init => WInv
  <2>1. Init => RInv
    BY RInvInit
  <2>2. Init => Validated
    BY DEF Init, Validated
  <2>3. Init => ConfirmedWithinWhole
    BY DEF Init, ConfirmedWithinWhole, NoClaim
  <2>. QED BY <2>1, <2>2, <2>3 DEF WInv
<1>2. WInv /\ [Next]_vars => WInv'
  <2>1. WInv /\ [Next]_vars => RInv'
    BY RInvNext DEF WInv
  <2>. QED BY <2>1, ValidatedNext, WholeNext DEF WInv
<1>3. WInv => ConfirmedWithinWhole
  BY DEF WInv
<1>. QED BY <1>1, <1>2, <1>3, PTL DEF Spec

-----------------------------------------------------------------------------
(* Works, exports and acknowledgements.                                    *)

\* One request at a time.
Serial == \A u, v \in Staff : request[u] # Idle /\ request[v] # Idle => u = v

\* What a request will write agrees with what is there: nobody changes it meanwhile.
PendingWork(r) ==
  r.kind = "work" => r.row.there /\ (work[r.of].there => r.row.id = work[r.of].id)

PendingExport(r) ==
  r.kind = "export" =>
    /\ r.row.state = "done" /\ r.of \notin DoneExports
    /\ \A x \in DoneExports : export[x].year = r.row.year => export[x].num < r.row.num
    /\ \A w \in DOMAIN r.row.ids : work[w].there /\ r.row.ids[w] = WorkId(w)

PendingAcks(r) ==
  r.kind = "acks" =>
    /\ \A w \in DOMAIN r.rows : r.rows[w].id = work[w].id /\ r.rows[w].there = work[w].there
    /\ \A a \in r.new : acks[a] = 0

Pending ==
  \A u \in Staff : /\ PendingWork(request[u]) /\ PendingExport(request[u])
                   /\ PendingAcks(request[u])

\* The works of a file are there, under the identifiers of the file.
Exported ==
  \A x \in DoneExports : \A w \in DOMAIN export[x].ids :
    work[w].there /\ work[w].id = export[x].ids[w]

RegistrationInv == RegistrationTypeOK /\ Serial /\ Pending /\ Exported /\ NumbersUnique /\ AcknowledgedOnce

-----------------------------------------------------------------------------
(* The records of a file, one after the other.                             *)

\* What one record of a file leaves of the works and the counts: an identifier and a
\* work stay, and an acknowledgement that is recorded was not before.
Kept(s) ==
  /\ s.rows \in [Works -> WorkRow]
  /\ \A w \in Works : s.rows[w].id = work[w].id /\ s.rows[w].there = work[w].there
  /\ s.counts \in [Works \X Statuses -> Nat]
  /\ \A a \in Works \X Statuses : s.counts[a] # acks[a] => acks[a] = 0

\* A record of an acknowledgement file keeps the types of the rows and counts
\* (AckImportAdmin.process).
LEMMA RecordKeeps ==
  ASSUME RegistrationTypeOK, NEW s, Kept(s), NEW record \in AckRecord
  PROVE  Kept(ProcessRecord(s, record))
<1>1. CASE Named(s.rows, record.id) = {}
  BY <1>1 DEF ProcessRecord
<1>2. CASE Named(s.rows, record.id) # {}
  <2>1. PICK w \in Works :
          ProcessRecord(s, record) = [rows |-> WithIswc(s.rows, w, record.iswc),
                                      counts |-> Recorded(s.counts, <<w, record.status>>)]
    BY <1>2 DEF ProcessRecord, Named
  <2>2. record.iswc \in Iswcs \cup {Null} /\ <<w, record.status>> \in Works \X Statuses
    BY DEF AckRecord
  <2>3. /\ WithIswc(s.rows, w, record.iswc) \in [Works -> WorkRow]
        /\ \A v \in Works : /\ WithIswc(s.rows, w, record.iswc)[v].id = s.rows[v].id
                            /\ WithIswc(s.rows, w, record.iswc)[v].there = s.rows[v].there
    BY <2>2 DEF WithIswc, WorkRow, Kept
  <2>4. /\ Recorded(s.counts, <<w, record.status>>) \in [Works \X Statuses -> Nat]
        /\ \A a \in Works \X Statuses :
             Recorded(s.counts, <<w, record.status>>)[a] # acks[a] => acks[a] = 0
    <3>1. PICK c \in Works \X Statuses : c = <<w, record.status>>
      BY <2>2
    <3>. QED BY <3>1 DEF Recorded, Kept
  <2>5. PICK t : t = ProcessRecord(s, record)
    OBVIOUS
  <2>6. t.rows = WithIswc(s.rows, w, record.iswc) /\ t.counts = Recorded(s.counts, <<w, record.status>>)
    BY <2>1, <2>5
  <2>7. Kept(t)
    BY <2>3, <2>4, <2>6 DEF Kept
  <2>. QED BY <2>5, <2>7
<1>. QED BY <1>1, <1>2

\* The states of an import from one record to the next.
States(N, base, file) ==
  CHOOSE f : f = [n \in 0..N |-> IF n = 0 THEN base ELSE ProcessRecord(f[n - 1], file[n])]

\* They are defined: the import of a file comes to an end.
LEMMA StatesDefined ==
  ASSUME NEW N \in Nat, NEW base, NEW file
  PROVE  /\ States(N, base, file)[0] = base
         /\ \A k \in 0..N : k < N => States(N, base, file)[k + 1]
                                    = ProcessRecord(States(N, base, file)[k], file[k + 1])
<1>1. PICK K : K = {k \in 0..N : \E f : f = [n \in 0..k |-> IF n = 0 THEN base
                                              ELSE ProcessRecord(f[n - 1], file[n])]}
  OBVIOUS
<1>2. 0 \in K
  <2>1. [n \in 0..0 |-> base] =
          [n \in 0..0 |-> IF n = 0 THEN base
                          ELSE ProcessRecord([m \in 0..0 |-> base][n - 1], file[n])]
    OBVIOUS
  <2>2. \E f : f = [n \in 0..0 |-> IF n = 0 THEN base ELSE ProcessRecord(f[n - 1], file[n])]
    BY <2>1
  <2>. QED BY <1>1, <2>2
<1>3. ASSUME NEW k \in 0..N, k \in K, k < N
      PROVE  k + 1 \in K
  <2>1. PICK f : f = [n \in 0..k |-> IF n = 0 THEN base ELSE ProcessRecord(f[n - 1], file[n])]
    BY <1>1, <1>3
  <2>2. PICK g : g = [n \in 0..(k + 1) |-> IF n \in 0..k THEN f[n]
                                           ELSE ProcessRecord(f[k], file[k + 1])]
    OBVIOUS
  <2>3. g = [n \in 0..(k + 1) |-> IF n = 0 THEN base ELSE ProcessRecord(g[n - 1], file[n])]
    <3>1. ASSUME NEW n \in 0..(k + 1)
          PROVE  g[n] = IF n = 0 THEN base ELSE ProcessRecord(g[n - 1], file[n])
      <4>1. CASE n = 0
        <5>1. n \in 0..k
          BY <4>1
        <5>. QED BY <4>1, <5>1, <2>1, <2>2
      <4>2. CASE n # 0 /\ n \in 0..k
        <5>1. n - 1 \in 0..k /\ n - 1 \in 0..(k + 1)
          BY <4>2
        <5>2. g[n - 1] = f[n - 1] /\ g[n] = f[n]
          BY <4>2, <5>1, <2>2
        <5>. QED BY <4>2, <5>2, <2>1
      <4>3. CASE n = k + 1
        <5>1. n # 0 /\ n - 1 = k /\ k \in 0..k /\ k \in 0..(k + 1) /\ n \notin 0..k
          BY <4>3
        <5>2. g[n - 1] = f[k] /\ g[n] = ProcessRecord(f[k], file[k + 1])
          BY <4>3, <5>1, <2>2
        <5>. QED BY <4>3, <5>1, <5>2
      <4>. QED BY <4>1, <4>2, <4>3
    <3>. QED BY <2>2, <3>1
  <2>4. k + 1 \in 0..N
    BY <1>3
  <2>. QED BY <1>1, <2>3, <2>4
<1>4. 0..N \subseteq K
  BY <1>2, <1>3, UpTo
<1>5. N \in K
  BY <1>4
<1>6. \E f : f = [n \in 0..N |-> IF n = 0 THEN base ELSE ProcessRecord(f[n - 1], file[n])]
  BY <1>1, <1>5
<1>7. PICK f : f = States(N, base, file)
  OBVIOUS
<1>8. f = [n \in 0..N |-> IF n = 0 THEN base ELSE ProcessRecord(f[n - 1], file[n])]
  BY <1>6, <1>7, Zenon DEF States
<1>9. f[0] = base
  BY <1>8
<1>10. ASSUME NEW k \in 0..N, k < N
       PROVE  f[k + 1] = ProcessRecord(f[k], file[k + 1])
  <2>1. k + 1 \in 0..N /\ k + 1 # 0 /\ (k + 1) - 1 = k
    BY <1>10
  <2>. QED BY <1>8, <2>1
<1>. QED BY <1>7, <1>9, <1>10

\* A whole file keeps what each of its records keeps.
LEMMA FileKeeps ==
  ASSUME RegistrationTypeOK, NEW file \in AckFiles
  PROVE  Kept(Processed(file))
<1>1. PICK base : base = [rows |-> work, counts |-> acks]
  OBVIOUS
<1>2. file \in Seq(AckRecord)
  BY FilesAssumption
<1>3. PICK N \in Nat : N = Len(file)
  BY <1>2
<1>4. \A n \in 1..N : file[n] \in AckRecord
  BY <1>2, <1>3
<1>5. PICK f : f = States(N, base, file)
  OBVIOUS
<1>6. Processed(file) = f[N]
  BY <1>1, <1>3, <1>5 DEF Processed, States
<1>7. f[0] = base /\ \A k \in 0..N : k < N => f[k + 1] = ProcessRecord(f[k], file[k + 1])
  BY <1>3, <1>5, StatesDefined
<1>8. PICK K : K = {n \in 0..N : Kept(f[n])}
  OBVIOUS
<1>9. 0 \in K
  <2>1. Kept(base)
    BY <1>1 DEF Kept, RegistrationTypeOK
  <2>. QED BY <1>3, <1>7, <1>8, <2>1
<1>10. ASSUME NEW k \in 0..N, k \in K, k < N
      PROVE  k + 1 \in K
  <2>1. k + 1 \in 1..N /\ k + 1 \in 0..N /\ k + 1 # 0 /\ (k + 1) - 1 = k
    BY <1>10
  <2>2. f[k + 1] = ProcessRecord(f[k], file[k + 1])
    BY <1>10, <1>7
  <2>3. Kept(f[k])
    BY <1>8, <1>10
  <2>4. Kept(ProcessRecord(f[k], file[k + 1]))
    BY <1>4, <2>1, <2>3, RecordKeeps
  <2>. QED BY <1>8, <2>1, <2>2, <2>4
<1>11. 0..N \subseteq K
  BY <1>3, <1>9, <1>10, UpTo
<1>12. N \in K
  BY <1>3, <1>11
<1>. QED BY <1>6, <1>8, <1>12
-----------------------------------------------------------------------------
(* Types.                                                                  *)

\* An identifier that is made up is an identifier.
LEMMA MadeUp == \A c \in Codes, w \in Works : AutoId(c, w) \in Ids
BY DEF Ids

\* What the requests of each kind hold.
LEMMA RequestFields ==
  ASSUME NEW r \in Request
  PROVE  /\ r.kind = "work" => r.of \in Works /\ r.row \in WorkRow
         /\ r.kind = "writer" => r.of \in Writers /\ r.data \in BOOLEAN
         /\ r.kind = "export" => r.of \in Exports /\ r.row \in ExportRow
         /\ r.kind = "acks" => /\ r.new \subseteq Works \X Statuses
                               /\ DOMAIN r.rows \subseteq Works
                               /\ \A w \in DOMAIN r.rows : r.rows[w] \in WorkRow
<1>1. CASE r = Idle
  BY <1>1 DEF Idle
<1>2. CASE r \in [kind : {"work"}, of : Works, row : WorkRow]
  BY <1>2
<1>3. CASE r \in [kind : {"writer"}, of : Writers, data : BOOLEAN]
  BY <1>3
<1>4. CASE r \in [kind : {"export"}, of : Exports, row : ExportRow]
  BY <1>4
<1>5. CASE r \in [kind : {"acks"}, rows : UNION {[ws -> WorkRow] : ws \in SUBSET Works},
                  new : SUBSET (Works \X Statuses)]
  <2>1. PICK ws \in SUBSET Works : r.rows \in [ws -> WorkRow]
    BY <1>5
  <2>. QED BY <1>5, <2>1
<1>. QED BY <1>1, <1>2, <1>3, <1>4, <1>5 DEF Request

\* The identifier shown for a work is one (Work.work_id).
LEMMA WorkIdType ==
  ASSUME RegistrationTypeOK, NEW w \in Works
  PROVE  WorkId(w) \in Ids
BY MadeUp DEF WorkId, RegistrationTypeOK, WorkRow

\* The row of a work that an export saves is a row of its type (Work.persist_work_ids).
LEMMA PersistedType ==
  ASSUME RegistrationTypeOK, NEW ws
  PROVE  /\ Persisted(ws) \in [Works -> WorkRow]
         /\ \A w \in Works :
              /\ work[w].id # Null \/ w \notin ws => Persisted(ws)[w].id = work[w].id
              /\ w \in ws => Persisted(ws)[w].id = WorkId(w)
              /\ Persisted(ws)[w].there = work[w].there
BY MadeUp DEF Persisted, WorkId, RegistrationTypeOK, WorkRow

\* The next number of a year is above those of its files.
LEMMA NextNumberAbove ==
  ASSUME RegistrationTypeOK, NEW y
  PROVE  /\ NextNumber(y) \in Nat
         /\ \A x \in DoneExports : export[x].year = y => export[x].num < NextNumber(y)
<1>1. PICK N : N = {export[x].num : x \in OfYear(y)}
  OBVIOUS
<1>2. OfYear(y) \subseteq Exports
  BY DEF OfYear, DoneExports
<1>3. N \subseteq Nat
  BY <1>1, <1>2 DEF RegistrationTypeOK, ExportRow
<1>4. IsFiniteSet(N)
  <2>1. IsFiniteSet(OfYear(y))
    BY <1>2, ExportsAssumption, FS_Subset
  <2>2. PICK f : f = [x \in OfYear(y) |-> export[x].num]
    OBVIOUS
  <2>3. f \in Surjection(OfYear(y), N)
    BY <1>1, <2>2 DEF Surjection
  <2>. QED BY <2>1, <2>3, FS_Surjection
<1>5. CASE OfYear(y) = {}
  BY <1>5 DEF NextNumber, OfYear
<1>6. CASE OfYear(y) # {}
  <2>1. N # {}
    BY <1>1, <1>6
  <2>2. Max(N) \in N /\ \A n \in N : n <= Max(N)
    BY <1>3, <1>4, <2>1, Greatest
  <2>3. PICK m \in Nat : m = Max(N) /\ \A n \in N : n <= m
    BY <1>3, <2>2
  <2>4. NextNumber(y) = m + 1
    BY <1>1, <1>6, <2>3 DEF NextNumber
  <2>5. ASSUME NEW x \in DoneExports, export[x].year = y
        PROVE  export[x].num < m + 1
    <3>1. export[x].num \in N
      BY <1>1, <2>5 DEF OfYear
    <3>2. PICK n \in Nat : n = export[x].num /\ n <= m
      BY <1>3, <2>3, <3>1
    <3>. QED BY <3>2
  <2>. QED BY <2>4, <2>5
<1>. QED BY <1>5, <1>6

\* The row of an export that is saved is a row of its type (CWRExport.create_cwr).
LEMMA CreatedType ==
  ASSUME RegistrationTypeOK, NEW ws \in SUBSET Works
  PROVE  Created(ws) \in ExportRow
<1>1. [w \in ws |-> WorkId(w)] \in [ws -> Ids]
  BY WorkIdType
<1>2. [w \in ws |-> WorkId(w)] \in Lines
  BY <1>1 DEF Lines
<1>. QED BY <1>2, NextNumberAbove DEF Created, ExportRow, RegistrationTypeOK
-----------------------------------------------------------------------------
(* The start of a request: what it will write is well formed and pending.  *)

Starts(u) ==
  \E r \in Request : Begin(u, r) /\ PendingWork(r) /\ PendingExport(r) /\ PendingAcks(r)

\* The form of a work starts a request of its type (WorkAdmin).
LEMMA SaveWorkStarts ==
  ASSUME RegistrationTypeOK, NEW u \in Staff, NEW w \in Works, NEW id \in GivenIds \cup {Null},
         NEW iswc \in Iswcs \cup {Null}, NEW ps \in SUBSET Writers,
         BeginSaveWork(u, w, id, iswc, ps)
  PROVE  Starts(u)
<1>1. PICK row : row = [there |-> TRUE, iswc |-> iswc, controlled |-> ps,
                        id |-> IF work[w].there THEN work[w].id ELSE id]
  OBVIOUS
<1>2. row \in WorkRow
  BY <1>1 DEF WorkRow, RegistrationTypeOK, Ids
<1>3. PICK r : r = [kind |-> "work", of |-> w, row |-> row]
  OBVIOUS
<1>4. r \in Request
  BY <1>2, <1>3 DEF Request
<1>5. Begin(u, r)
  BY <1>1, <1>3 DEF BeginSaveWork
<1>6. PendingWork(r) /\ PendingExport(r) /\ PendingAcks(r)
  BY <1>1, <1>3 DEF PendingWork, PendingExport, PendingAcks
<1>. QED BY <1>4, <1>5, <1>6 DEF Starts

\* The form of a writer starts a request of its type (WriterAdmin).
LEMMA SaveWriterStarts ==
  ASSUME NEW u \in Staff, NEW p \in Writers, NEW data \in BOOLEAN,
         BeginSaveWriter(u, p, data)
  PROVE  Starts(u)
<1>1. PICK r : r = [kind |-> "writer", of |-> p, data |-> data]
  OBVIOUS
<1>2. r \in Request
  BY <1>1 DEF Request
<1>3. PendingWork(r) /\ PendingExport(r) /\ PendingAcks(r)
  BY <1>1 DEF PendingWork, PendingExport, PendingAcks
<1>. QED BY <1>1, <1>2, <1>3 DEF Starts, BeginSaveWriter

\* An export, or the edit of its description, starts a request of its type
\* (CWRExportAdmin).
LEMMA ExportStarts ==
  ASSUME RegistrationTypeOK, NEW u \in Staff, NEW x \in Exports, NEW ws \in SUBSET Works,
         BeginExport(u, x, ws) \/ BeginEditDescription(u, x, ws)
  PROVE  Starts(u)
<1>1. PICK r : r = [kind |-> "export", of |-> x, row |-> Created(ws)]
  OBVIOUS
<1>2. r \in Request
  BY <1>1, CreatedType DEF Request
<1>3. x \notin DoneExports /\ ws \subseteq Present
  BY DEF BeginExport, BeginEditDescription, DoneExports
<1>4. PICK ids : ids = [w \in ws |-> WorkId(w)]
  OBVIOUS
<1>5. PICK row : row = [state |-> "done", year |-> year, num |-> NextNumber(year), ids |-> ids]
  OBVIOUS
<1>6. row = Created(ws)
  BY <1>4, <1>5 DEF Created
<1>7. /\ row.state = "done" /\ row.year = year /\ row.num = NextNumber(year)
      /\ DOMAIN row.ids = ws /\ \A w \in ws : row.ids[w] = WorkId(w)
  BY <1>4, <1>5
<1>8. PendingExport(r)
  BY <1>1, <1>3, <1>6, <1>7, NextNumberAbove DEF PendingExport, Present
<1>9. PendingWork(r) /\ PendingAcks(r)
  BY <1>1 DEF PendingWork, PendingAcks
<1>. QED BY <1>1, <1>2, <1>8, <1>9 DEF Starts, BeginExport, BeginEditDescription

\* The import of a file starts a request of its type (AckImportAdmin).
LEMMA ImportAcksStarts ==
  ASSUME RegistrationTypeOK, NEW u \in Staff, NEW file \in AckFiles, NEW withIswcs \in BOOLEAN,
         BeginImportAcks(u, file, withIswcs)
  PROVE  Starts(u)
<1>1. PICK result : result = Processed(file)
  OBVIOUS
<1>2. Kept(result)
  BY <1>1, FileKeeps
<1>3. PICK rows : rows = [w \in {v \in Works : result.rows[v] # work[v]} |-> result.rows[w]]
  OBVIOUS
<1>4. PICK new : new = {a \in DOMAIN acks : result.counts[a] # acks[a]}
  OBVIOUS
<1>5. PICK r : r = [kind |-> "acks", rows |-> rows, new |-> new]
  OBVIOUS
<1>6. DOMAIN acks = Works \X Statuses
  BY DEF RegistrationTypeOK
<1>7. r \in Request
  <2>1. rows \in [{v \in Works : result.rows[v] # work[v]} -> WorkRow]
    BY <1>2, <1>3 DEF Kept
  <2>2. \E ws \in SUBSET Works : rows \in [ws -> WorkRow]
    BY <2>1
  <2>3. rows \in UNION {[ws -> WorkRow] : ws \in SUBSET Works}
    BY <2>2
  <2>4. new \in SUBSET (Works \X Statuses)
    BY <1>4, <1>6
  <2>. QED BY <1>5, <2>3, <2>4 DEF Request
<1>8. Begin(u, r)
  BY <1>1, <1>3, <1>4, <1>5 DEF BeginImportAcks
<1>9. PendingAcks(r)
  BY <1>2, <1>3, <1>4, <1>5, <1>6 DEF PendingAcks, Kept
<1>10. PendingWork(r) /\ PendingExport(r)
  BY <1>5 DEF PendingWork, PendingExport
<1>. QED BY <1>7, <1>8, <1>9, <1>10 DEF Starts
-----------------------------------------------------------------------------
(* The types are kept, whatever requests overlap.                          *)

\* An export that does not exist has a row of its type.
LEMMA NoExportType == NoExport \in ExportRow
<1>1. \E ws \in SUBSET Works : <<>> \in [ws -> Ids]
  <2>1. <<>> \in [{} -> Ids]
    OBVIOUS
  <2>. QED BY <2>1
<1>2. <<>> \in Lines
  BY <1>1 DEF Lines
<1>. QED BY <1>2 DEF NoExport, ExportRow

\* The initial state is of its type.
LEMMA InitType == RegistrationInit => RegistrationTypeOK
<1>. SUFFICES ASSUME RegistrationInit PROVE RegistrationTypeOK
  OBVIOUS
<1>1. NoWork \in WorkRow
  BY DEF NoWork, WorkRow
<1>3. NoExport \in ExportRow /\ [NoExport EXCEPT !.state = "legacy"] \in ExportRow
  BY NoExportType DEF NoExport, ExportRow
<1>4. work \in [Works -> WorkRow]
  BY <1>1 DEF RegistrationInit
<1>5. export \in [Exports -> ExportRow]
  BY <1>3 DEF RegistrationInit
<1>6. request \in [Staff -> Request]
  BY DEF RegistrationInit, Request
<1>7. /\ able \in [Writers -> BOOLEAN] /\ acks \in [Works \X Statuses -> Nat]
      /\ code \in Codes /\ year \in Nat
  BY CodesAssumption DEF RegistrationInit
<1>. QED BY <1>4, <1>5, <1>6, <1>7 DEF RegistrationTypeOK

\* A user whose request has ended is idle.
LEMMA FinishType ==
  ASSUME RegistrationTypeOK, NEW u \in Staff, Finish(u)
  PROVE  request' \in [Staff -> Request]
BY DEF RegistrationTypeOK, Finish, Request

\* The start of any request keeps the type.
LEMMA StartsType ==
  ASSUME RegistrationTypeOK, NEW u \in Staff, Starts(u)
  PROVE  RegistrationTypeOK'
BY DEF Starts, Begin, RegistrationTypeOK

\* The save of a work keeps the type (WorkAdmin.save_model).
LEMMA EndSaveWorkType ==
  ASSUME RegistrationTypeOK, NEW u \in Staff, EndSaveWork(u)
  PROVE  RegistrationTypeOK'
<1>1. request[u].of \in Works /\ request[u].row \in WorkRow
  BY RequestFields DEF EndSaveWork, RegistrationTypeOK
<1>2. work' \in [Works -> WorkRow]
  BY <1>1 DEF EndSaveWork, RegistrationTypeOK
<1>3. request' \in [Staff -> Request]
  BY FinishType DEF EndSaveWork
<1>. QED BY <1>2, <1>3 DEF EndSaveWork, RegistrationTypeOK

\* The save of a writer keeps the type (WriterAdmin.save_model).
LEMMA EndSaveWriterType ==
  ASSUME RegistrationTypeOK, NEW u \in Staff, EndSaveWriter(u)
  PROVE  RegistrationTypeOK'
<1>1. request[u].of \in Writers /\ request[u].data \in BOOLEAN
  BY RequestFields DEF EndSaveWriter, RegistrationTypeOK
<1>2. request' \in [Staff -> Request]
  BY FinishType DEF EndSaveWriter
<1>. QED BY <1>1, <1>2 DEF EndSaveWriter, RegistrationTypeOK

\* The save of an export keeps the type (CWRExportAdmin).
LEMMA EndExportType ==
  ASSUME RegistrationTypeOK, NEW u \in Staff, EndExport(u)
  PROVE  RegistrationTypeOK'
<1>1. request[u].of \in Exports /\ request[u].row \in ExportRow
  BY RequestFields DEF EndExport, RegistrationTypeOK
<1>2. export' \in [Exports -> ExportRow]
  BY <1>1 DEF EndExport, RegistrationTypeOK
<1>3. work' \in [Works -> WorkRow]
  BY PersistedType DEF EndExport
<1>4. request' \in [Staff -> Request]
  BY FinishType DEF EndExport
<1>. QED BY <1>2, <1>3, <1>4 DEF EndExport, RegistrationTypeOK

\* The rows an import saves keep the type (AckImportAdmin.process).
LEMMA EndImportAcksType ==
  ASSUME RegistrationTypeOK, NEW u \in Staff, EndImportAcks(u)
  PROVE  RegistrationTypeOK'
<1>1. \A w \in DOMAIN request[u].rows : request[u].rows[w] \in WorkRow
  BY RequestFields DEF EndImportAcks, RegistrationTypeOK
<1>2. work' \in [Works -> WorkRow]
  BY <1>1 DEF EndImportAcks, RegistrationTypeOK
<1>3. acks' \in [Works \X Statuses -> Nat]
  BY DEF EndImportAcks, RegistrationTypeOK
<1>4. request' \in [Staff -> Request]
  BY FinishType DEF EndImportAcks
<1>. QED BY <1>2, <1>3, <1>4 DEF EndImportAcks, RegistrationTypeOK

\* A request that breaks off keeps the type.
LEMMA BreakOffType ==
  ASSUME RegistrationTypeOK, NEW u \in Staff, BreakOff(u)
  PROVE  RegistrationTypeOK'
BY FinishType DEF BreakOff, RegistrationTypeOK

\* The deletion of an export keeps the type.
LEMMA DeleteExportType ==
  ASSUME RegistrationTypeOK, NEW u \in Staff, NEW x \in Exports, DeleteExport(u, x)
  PROVE  RegistrationTypeOK'
<1>. QED BY NoExportType DEF DeleteExport, RegistrationTypeOK

\* A JSON export keeps the type: it saves identifiers that are made up
\* (WorkAdmin.create_json).
LEMMA CreateJsonType ==
  ASSUME RegistrationTypeOK, NEW u \in Staff, NEW ws \in SUBSET Works, CreateJson(u, ws)
  PROVE  RegistrationTypeOK'
BY PersistedType DEF CreateJson, RegistrationTypeOK

\* A request that is made starts, deletes an export, or writes a JSON file.
LEMMA RequestedCases ==
  ASSUME RegistrationTypeOK, NEW u \in Staff, Requested(u)
  PROVE  \/ Starts(u)
         \/ \E x \in Exports : DeleteExport(u, x)
         \/ \E ws \in SUBSET Works : CreateJson(u, ws)
BY SaveWorkStarts, SaveWriterStarts, ExportStarts, ImportAcksStarts DEF Requested

\* Every step keeps the type, also when requests overlap.
LEMMA TypeStep == RegistrationTypeOK /\ [RegistrationNext]_registrationVars => RegistrationTypeOK'
<1>. SUFFICES ASSUME RegistrationTypeOK, [RegistrationNext]_registrationVars PROVE RegistrationTypeOK'
  OBVIOUS
<1>1. ASSUME NEW u \in Staff, Requested(u) PROVE RegistrationTypeOK'
  BY <1>1, RequestedCases, StartsType, DeleteExportType, CreateJsonType
<1>2. ASSUME NEW u \in Staff, Ended(u) PROVE RegistrationTypeOK'
  BY <1>2, EndSaveWorkType, EndSaveWriterType, EndExportType, EndImportAcksType, BreakOffType
     DEF Ended
<1>3. ASSUME NEW c \in Codes, ChangeCode(c) PROVE RegistrationTypeOK'
  BY <1>3 DEF ChangeCode, RegistrationTypeOK
<1>4. CASE NewYear
  BY <1>4 DEF NewYear, RegistrationTypeOK
<1>5. CASE UNCHANGED registrationVars
  BY <1>5 DEF registrationVars, RegistrationTypeOK
<1>. QED BY <1>1, <1>2, <1>3, <1>4, <1>5 DEF RegistrationNext

\* Every row, request and count has its type, also when requests overlap.
THEOREM RegistrationTypeCorrect == RegistrationSpec => []RegistrationTypeOK
BY InitType, TypeStep, PTL DEF RegistrationSpec
-----------------------------------------------------------------------------
(* One request at a time.                                                  *)

\* The invariant holds at the start.
LEMMA InitInv == RegistrationInit => RegistrationInv
<1>. SUFFICES ASSUME RegistrationInit PROVE RegistrationInv
  OBVIOUS
<1>1. DoneExports = {}
  BY DEF RegistrationInit, DoneExports, NoExport
<1>2. Serial /\ Pending
  BY DEF RegistrationInit, Idle, Serial, Pending, PendingWork, PendingExport, PendingAcks
<1>3. Exported /\ NumbersUnique
  BY <1>1 DEF Exported, NumbersUnique
<1>4. AcknowledgedOnce
  BY DEF RegistrationInit, AcknowledgedOnce
<1>. QED BY <1>1, <1>2, <1>3, <1>4, InitType DEF RegistrationInv

\* After the end of the only request none is left.
LEMMA NoneLeft ==
  ASSUME RegistrationInv, NEW u \in Staff, request[u] # Idle, Finish(u)
  PROVE  Serial' /\ Pending' /\ \A v \in Staff : request'[v] = Idle
<1>1. ASSUME NEW v \in Staff
      PROVE  request'[v] = Idle
  BY DEF RegistrationInv, RegistrationTypeOK, Serial, Finish
<1>2. Serial'
  BY <1>1 DEF Serial
<1>3. Pending'
  BY <1>1 DEF Pending, PendingWork, PendingExport, PendingAcks, Idle
<1>. QED BY <1>1, <1>2, <1>3

\* The start of a request, while no other runs, keeps the invariant.
LEMMA StartsInv ==
  ASSUME RegistrationInv, ~ Overlap, NEW u \in Staff, Starts(u)
  PROVE  RegistrationInv'
<1>1. PICK r \in Request :
        Begin(u, r) /\ PendingWork(r) /\ PendingExport(r) /\ PendingAcks(r)
  BY DEF Starts
<1>2. UNCHANGED <<work, able, export, acks, code, year>>
  BY <1>1 DEF Begin
<1>3. \A v \in Staff : request[v] = Idle /\ request'[v] = IF v = u THEN r ELSE Idle
  BY <1>1 DEF Begin, RegistrationInv, RegistrationTypeOK
<1>4. Serial'
  BY <1>3 DEF Serial
<1>5. Pending'
  <2>1. ASSUME NEW v \in Staff
        PROVE  (PendingWork(request[v]) /\ PendingExport(request[v]) /\ PendingAcks(request[v]))'
    <3>1. CASE v = u
      <4>1. request'[v] = r
        BY <1>3, <3>1
      <4>. QED BY <1>1, <1>2, <4>1 DEF PendingWork, PendingExport, PendingAcks, DoneExports, WorkId
    <3>2. CASE v # u
      BY <1>3, <3>2 DEF Idle, PendingWork, PendingExport, PendingAcks
    <3>. QED BY <3>1, <3>2
  <2>. QED BY <2>1 DEF Pending
<1>6. Exported' /\ NumbersUnique' /\ AcknowledgedOnce'
  BY <1>2 DEF RegistrationInv, Exported, NumbersUnique, AcknowledgedOnce, DoneExports
<1>7. RegistrationTypeOK'
  BY StartsType DEF RegistrationInv
<1>. QED BY <1>4, <1>5, <1>6, <1>7 DEF RegistrationInv

\* The save of a work keeps the invariant: nothing changed since its form was read.
LEMMA EndSaveWorkInv ==
  ASSUME RegistrationInv, NEW u \in Staff, EndSaveWork(u)
  PROVE  RegistrationInv'
<1>1. PICK r : r = request[u]
  OBVIOUS
<1>2. r.of \in Works /\ r.row \in WorkRow /\ request[u] # Idle
  BY <1>1, RequestFields DEF EndSaveWork, RegistrationInv, RegistrationTypeOK, Idle
<1>3. r.row.there /\ (work[r.of].there => r.row.id = work[r.of].id)
  BY <1>1 DEF EndSaveWork, RegistrationInv, Pending, PendingWork
<1>4. \A w \in Works : work'[w] = IF w = r.of THEN r.row ELSE work[w]
  BY <1>1, <1>2 DEF EndSaveWork, RegistrationInv, RegistrationTypeOK
<1>5. DoneExports' = DoneExports /\ export' = export /\ acks' = acks
  BY DEF EndSaveWork, DoneExports
<1>6. Exported'
  <2>1. ASSUME NEW x \in DoneExports, NEW w \in DOMAIN export[x].ids
        PROVE  work'[w].there /\ work'[w].id = export[x].ids[w]
    <3>1. w \in Works
      BY DEF RegistrationInv, RegistrationTypeOK, ExportRow, Lines, DoneExports
    <3>2. work[w].there /\ work[w].id = export[x].ids[w]
      BY DEF RegistrationInv, Exported
    <3>. QED BY <1>3, <1>4, <3>1, <3>2
  <2>. QED BY <1>5, <2>1 DEF Exported
<1>7. Serial' /\ Pending'
  BY <1>2, NoneLeft DEF EndSaveWork
<1>8. NumbersUnique' /\ AcknowledgedOnce'
  BY <1>5 DEF RegistrationInv, NumbersUnique, AcknowledgedOnce
<1>9. RegistrationTypeOK'
  BY EndSaveWorkType DEF RegistrationInv
<1>. QED BY <1>6, <1>7, <1>8, <1>9 DEF RegistrationInv

\* The save of a writer keeps the invariant (Writer.clean).
LEMMA EndSaveWriterInv ==
  ASSUME RegistrationInv, NEW u \in Staff, EndSaveWriter(u)
  PROVE  RegistrationInv'
<1>1. request[u] # Idle
  BY DEF EndSaveWriter, Idle
<1>2. Serial' /\ Pending'
  BY <1>1, NoneLeft DEF EndSaveWriter
<1>3. Exported' /\ NumbersUnique' /\ AcknowledgedOnce'
  BY DEF EndSaveWriter, RegistrationInv, Exported, NumbersUnique, AcknowledgedOnce, DoneExports
<1>4. RegistrationTypeOK'
  BY EndSaveWriterType DEF RegistrationInv
<1>. QED BY <1>2, <1>3, <1>4 DEF RegistrationInv
\* The works of an export are there under the identifiers of its lines.
LEMMA ExportedFields ==
  ASSUME RegistrationInv, NEW x \in DoneExports, NEW w \in DOMAIN export[x].ids
  PROVE  w \in Works /\ work[w].there /\ work[w].id = export[x].ids[w] /\ work[w].id # Null
<1>1. PICK ws \in SUBSET Works : export[x].ids \in [ws -> Ids]
  <2>1. export[x] \in ExportRow
    BY DEF RegistrationInv, RegistrationTypeOK, DoneExports
  <2>2. export[x].ids \in UNION {[ws -> Ids] : ws \in SUBSET Works}
    BY <2>1 DEF ExportRow, Lines
  <2>. QED BY <2>2
<1>2. export[x].ids[w] # Null /\ w \in Works
  BY <1>1, NullAssumption
<1>. QED BY <1>2 DEF RegistrationInv, Exported

\* The save of an export keeps it: the number it read is still the highest
\* (CWRExport.create_cwr).
LEMMA EndExportInv ==
  ASSUME RegistrationInv, NEW u \in Staff, EndExport(u)
  PROVE  RegistrationInv'
<1>1. PICK r : r = request[u]
  OBVIOUS
<1>2. r.of \in Exports /\ r.row \in ExportRow /\ request[u] # Idle
  BY <1>1, RequestFields DEF EndExport, RegistrationInv, RegistrationTypeOK, Idle
<1>3. /\ r.row.state = "done" /\ r.of \notin DoneExports
      /\ \A x \in DoneExports : export[x].year = r.row.year => export[x].num < r.row.num
      /\ \A w \in DOMAIN r.row.ids : work[w].there /\ r.row.ids[w] = WorkId(w)
  BY <1>1 DEF EndExport, RegistrationInv, Pending, PendingExport
<1>4. \A x \in Exports : export'[x] = IF x = r.of THEN r.row ELSE export[x]
  BY <1>1, <1>2 DEF EndExport, RegistrationInv, RegistrationTypeOK
<1>5. /\ DoneExports' = DoneExports \cup {r.of} /\ export'[r.of] = r.row
      /\ \A x \in DoneExports : export'[x] = export[x]
  BY <1>2, <1>3, <1>4 DEF DoneExports
<1>6. \A w \in Works :
        /\ work'[w].there = work[w].there
        /\ work[w].id # Null => work'[w].id = work[w].id
        /\ w \in DOMAIN r.row.ids => work'[w].id = WorkId(w)
  BY <1>1, PersistedType DEF EndExport, RegistrationInv
<1>7. DOMAIN r.row.ids \subseteq Works
  BY <1>2 DEF ExportRow, Lines
<1>8. Exported'
  <2>1. ASSUME NEW x \in DoneExports, NEW w \in DOMAIN export[x].ids
        PROVE  work'[w].there /\ work'[w].id = export[x].ids[w]
    BY <1>6, ExportedFields
  <2>2. ASSUME NEW w \in DOMAIN r.row.ids
        PROVE  work'[w].there /\ work'[w].id = r.row.ids[w]
    BY <1>3, <1>6, <1>7
  <2>. QED BY <1>5, <2>1, <2>2 DEF Exported
<1>9. NumbersUnique'
  <2>1. ASSUME NEW x \in DoneExports
        PROVE  ~ (export[x].year = r.row.year /\ export[x].num = r.row.num)
    BY <1>2, <1>3 DEF ExportRow
  <2>2. \A x, y \in DoneExports : export[x].year = export[y].year /\ export[x].num = export[y].num => x = y
    BY DEF RegistrationInv, NumbersUnique
  <2>. QED BY <1>5, <2>1, <2>2 DEF NumbersUnique
<1>10. AcknowledgedOnce'
  BY DEF EndExport, RegistrationInv, AcknowledgedOnce
<1>11. Serial' /\ Pending'
  BY <1>2, NoneLeft DEF EndExport
<1>12. RegistrationTypeOK'
  BY EndExportType DEF RegistrationInv
<1>. QED BY <1>8, <1>9, <1>10, <1>11, <1>12 DEF RegistrationInv

\* The rows an import saves keep it: each record was counted once
\* (AckImportAdmin.process).
LEMMA EndImportAcksInv ==
  ASSUME RegistrationInv, NEW u \in Staff, EndImportAcks(u)
  PROVE  RegistrationInv'
<1>1. PICK r : r = request[u]
  OBVIOUS
<1>2. request[u] # Idle
  BY DEF EndImportAcks, Idle
<1>3. /\ \A w \in DOMAIN r.rows : r.rows[w].id = work[w].id /\ r.rows[w].there = work[w].there
      /\ \A a \in r.new : acks[a] = 0
  BY <1>1 DEF EndImportAcks, RegistrationInv, Pending, PendingAcks
<1>4. \A w \in Works : work'[w].id = work[w].id /\ work'[w].there = work[w].there
  BY <1>1, <1>3 DEF EndImportAcks
<1>5. DoneExports' = DoneExports /\ export' = export
  BY DEF EndImportAcks, DoneExports
<1>6. Exported'
  BY <1>4, <1>5, ExportedFields DEF Exported
<1>7. AcknowledgedOnce'
  <2>1. acks' = [a \in DOMAIN acks |-> IF a \in r.new THEN acks[a] + 1 ELSE acks[a]]
    BY <1>1 DEF EndImportAcks
  <2>. QED BY <1>3, <2>1 DEF RegistrationInv, AcknowledgedOnce
<1>8. NumbersUnique'
  BY <1>5 DEF RegistrationInv, NumbersUnique
<1>9. Serial' /\ Pending'
  BY <1>2, NoneLeft DEF EndImportAcks
<1>10. RegistrationTypeOK'
  BY EndImportAcksType DEF RegistrationInv
<1>. QED BY <1>6, <1>7, <1>8, <1>9, <1>10 DEF RegistrationInv

\* A request that breaks off keeps the invariant.
LEMMA BreakOffInv ==
  ASSUME RegistrationInv, NEW u \in Staff, BreakOff(u)
  PROVE  RegistrationInv'
<1>1. Serial' /\ Pending'
  BY NoneLeft DEF BreakOff
<1>2. Exported' /\ NumbersUnique' /\ AcknowledgedOnce'
  BY DEF BreakOff, RegistrationInv, Exported, NumbersUnique, AcknowledgedOnce, DoneExports
<1>3. RegistrationTypeOK'
  BY BreakOffType DEF RegistrationInv
<1>. QED BY <1>1, <1>2, <1>3 DEF RegistrationInv

\* Nothing is pending while every user is idle.
LEMMA AllIdle ==
  ASSUME \A v \in Staff : request[v] = Idle, UNCHANGED request
  PROVE  Serial' /\ Pending'
BY DEF Serial, Pending, PendingWork, PendingExport, PendingAcks, Idle

\* The deletion of an export keeps it: a number less is on record.
LEMMA DeleteExportInv ==
  ASSUME RegistrationInv, ~ Overlap, NEW u \in Staff, NEW x \in Exports, DeleteExport(u, x)
  PROVE  RegistrationInv'
<1>1. \A y \in Exports : export'[y] = IF y = x THEN NoExport ELSE export[y]
  BY DEF DeleteExport, RegistrationInv, RegistrationTypeOK
<1>2. DoneExports' = DoneExports /\ \A y \in DoneExports : export'[y] = export[y]
  BY <1>1 DEF DeleteExport, DoneExports, NoExport
<1>3. Exported' /\ NumbersUnique' /\ AcknowledgedOnce'
  BY <1>2 DEF DeleteExport, RegistrationInv, Exported, NumbersUnique, AcknowledgedOnce
<1>4. Serial' /\ Pending'
  BY AllIdle DEF DeleteExport
<1>5. RegistrationTypeOK'
  BY DeleteExportType DEF RegistrationInv
<1>. QED BY <1>3, <1>4, <1>5 DEF RegistrationInv

\* A JSON export keeps it: it only adds identifiers (WorkAdmin.create_json).
LEMMA CreateJsonInv ==
  ASSUME RegistrationInv, ~ Overlap, NEW u \in Staff, NEW ws \in SUBSET Works, CreateJson(u, ws)
  PROVE  RegistrationInv'
<1>1. \A w \in Works : /\ work'[w].there = work[w].there
                       /\ work[w].id # Null => work'[w].id = work[w].id
  BY PersistedType DEF CreateJson, RegistrationInv
<1>2. DoneExports' = DoneExports /\ export' = export
  BY DEF CreateJson, DoneExports
<1>3. Exported'
  BY <1>1, <1>2, ExportedFields DEF Exported
<1>4. NumbersUnique' /\ AcknowledgedOnce'
  BY <1>2 DEF CreateJson, RegistrationInv, NumbersUnique, AcknowledgedOnce
<1>5. Serial' /\ Pending'
  BY AllIdle DEF CreateJson
<1>6. RegistrationTypeOK'
  BY CreateJsonType DEF RegistrationInv
<1>. QED BY <1>3, <1>4, <1>5, <1>6 DEF RegistrationInv

\* A change of the publisher's code keeps the invariant.
LEMMA ChangeCodeInv ==
  ASSUME RegistrationInv, NEW c \in Codes, ChangeCode(c)
  PROVE  RegistrationInv'
<1>1. Serial' /\ Pending'
  BY AllIdle DEF ChangeCode
<1>2. Exported' /\ NumbersUnique' /\ AcknowledgedOnce'
  BY DEF ChangeCode, RegistrationInv, Exported, NumbersUnique, AcknowledgedOnce, DoneExports
<1>3. RegistrationTypeOK'
  BY DEF ChangeCode, RegistrationInv, RegistrationTypeOK
<1>. QED BY <1>1, <1>2, <1>3 DEF RegistrationInv

\* Neither the turn of the year nor a step that changes nothing touches a request.
LEMMA NewYearInv ==
  ASSUME RegistrationInv, UNCHANGED <<work, able, export, acks, code, request>>, year' \in Nat
  PROVE  RegistrationInv'
<1>1. Serial'
  BY DEF RegistrationInv, Serial
<1>2. Pending'
  BY DEF RegistrationInv, Pending, PendingWork, PendingExport, PendingAcks, DoneExports, WorkId
<1>3. Exported' /\ NumbersUnique' /\ AcknowledgedOnce'
  BY DEF RegistrationInv, Exported, NumbersUnique, AcknowledgedOnce, DoneExports
<1>4. RegistrationTypeOK'
  BY DEF RegistrationInv, RegistrationTypeOK
<1>. QED BY <1>1, <1>2, <1>3, <1>4 DEF RegistrationInv

\* Every step of requests that do not overlap keeps the invariant.
LEMMA StepInv == ~ Overlap => (RegistrationInv /\ [RegistrationNext]_registrationVars => RegistrationInv')
<1>. SUFFICES ASSUME ~ Overlap, RegistrationInv, [RegistrationNext]_registrationVars PROVE RegistrationInv'
  OBVIOUS
<1>1. ASSUME NEW u \in Staff, Requested(u) PROVE RegistrationInv'
  <2>1. RegistrationTypeOK
    BY DEF RegistrationInv
  <2>. QED BY <1>1, <2>1, RequestedCases, StartsInv, DeleteExportInv, CreateJsonInv
<1>2. ASSUME NEW u \in Staff, Ended(u) PROVE RegistrationInv'
  BY <1>2, EndSaveWorkInv, EndSaveWriterInv, EndExportInv, EndImportAcksInv, BreakOffInv
     DEF Ended
<1>3. ASSUME NEW c \in Codes, ChangeCode(c) PROVE RegistrationInv'
  BY <1>3, ChangeCodeInv
<1>4. CASE NewYear
  BY <1>4, NewYearInv DEF NewYear, RegistrationInv, RegistrationTypeOK
<1>5. CASE UNCHANGED registrationVars
  BY <1>5, NewYearInv DEF registrationVars, RegistrationInv, RegistrationTypeOK
<1>. QED BY <1>1, <1>2, <1>3, <1>4, <1>5 DEF RegistrationNext

\* The inductive invariant, one request at a time.
THEOREM RegistrationInvariant ==
  ASSUME ~ Overlap
  PROVE  RegistrationSpec => []RegistrationInv
<1>1. RegistrationInv /\ [RegistrationNext]_registrationVars => RegistrationInv'
  BY StepInv
<1>. QED BY <1>1, InitInv, PTL DEF RegistrationSpec

\* No two files of a year have the same number (CWRExport.create_cwr).
THEOREM NumbersNeverShared ==
  ASSUME ~ Overlap
  PROVE  RegistrationSpec => []NumbersUnique
<1>1. RegistrationInv => NumbersUnique
  BY DEF RegistrationInv
<1>2. RegistrationSpec => []RegistrationInv
  BY RegistrationInvariant
<1>. QED BY <1>1, <1>2, PTL

\* A work keeps the identifier it was exported under (Work.persist_work_ids).
THEOREM IdsKept ==
  ASSUME ~ Overlap
  PROVE  RegistrationSpec => []ExportedIdKept
<1>1. RegistrationInv => ExportedIdKept
  BY DEF RegistrationInv, Exported, ExportedIdKept
<1>2. RegistrationSpec => []RegistrationInv
  BY RegistrationInvariant
<1>. QED BY <1>1, <1>2, PTL

\* An acknowledgement is recorded once (ACKImportAdmin.process).
THEOREM RecordedOnce ==
  ASSUME ~ Overlap
  PROVE  RegistrationSpec => []AcknowledgedOnce
<1>1. RegistrationInv => AcknowledgedOnce
  BY DEF RegistrationInv
<1>2. RegistrationSpec => []RegistrationInv
  BY RegistrationInvariant
<1>. QED BY <1>1, <1>2, PTL

=============================================================================

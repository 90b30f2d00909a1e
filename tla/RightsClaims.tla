---------------------------- MODULE RightsClaims ----------------------------
(***************************************************************************)
(* Rights claims, their decisions and the management status that follows   *)
(* (rights/services, managed_music/services), for users who work on the    *)
(* same recordings at once.  A decision is one transaction under two row   *)
(* locks, the claim's and then the recording's; the steps here are its     *)
(* lock waits and the reads that decide its outcome, each of which sees    *)
(* what other transactions have committed by then.                         *)
(*                                                                         *)
(* Inserting a claim locks the recording it refers to in key-share mode,   *)
(* which the recording lock of a decision excludes.  A scope is a period   *)
(* together with a territory scope.  A share of None stands for a claim    *)
(* that adds to no total: not ownership, or ownership of unknown extent.   *)
(* Agreements are left out: no step reads them.                            *)
(***************************************************************************)
EXTENDS Naturals, FiniteSets

CONSTANTS
  Recordings,   \* catalogue recordings
  Claims,       \* identities of rights claims
  Users,        \* users who decide and correct claims
  Scopes,       \* periods with territories a claim may have
  WorldScope,   \* no period, the whole world: the scope of a first claim
  Shares,       \* known ownership shares
  Whole,        \* 100 %
  Verdicts,     \* decisions users take: any of confirmed, disputed, rejected
  None          \* the SQL NULL

ASSUME SharesAssumption ==
  Whole \in Nat /\ Shares \subseteq 0..Whole /\ None \notin Shares

ASSUME ClaimsAssumption == IsFiniteSet(Claims)

ASSUME VerdictsAssumption == Verdicts \subseteq {"confirmed", "disputed", "rejected"}

ASSUME ScopesAssumption ==
  WorldScope \in Scopes /\ None \notin Recordings \cup Claims \cup Users

VARIABLES
  claim,     \* RightsClaim rows
  managed,   \* ManagedRecording.status of each recording
  inForce,   \* scopes whose period covers today
  over,      \* scopes whose period has ended; the others have not begun
  claimLock, \* who holds the row lock of a claim
  recLock,   \* who holds the row lock of a recording
  pc,        \* where each user's decision is
  job        \* the decision: its claim, the verdict, the assessed status, and the
             \* scopes in force on the day it was assessed

calendar == <<inForce, over>>
locks    == <<claimLock, recLock>>
vars     == <<claim, managed, calendar, claimLock, recLock, pc, job>>

Status == {"absent", "unverified", "confirmed", "disputed", "rejected", "superseded"}
Management == {"none", "pending", "active", "inactive"}

Row == [status : Status, recording : Recordings \cup {None}, scope : Scopes,
        share : Shares \cup {None}, local : BOOLEAN, supersedes : Claims \cup {None}]
Job == [claim : Claims \cup {None}, verdict : Verdicts \cup {None}, next : Management,
        day : SUBSET Scopes]

NoClaim == [status |-> "absent", recording |-> None, scope |-> WorldScope,
            share |-> None, local |-> FALSE, supersedes |-> None]
NoJob == [claim |-> None, verdict |-> None, next |-> "none", day |-> {}]

TypeOK ==
  /\ claim \in [Claims -> Row]
  /\ managed \in [Recordings -> Management]
  /\ inForce \subseteq Scopes
  /\ over \subseteq Scopes
  /\ claimLock \in [Claims -> Users \cup {None}]
  /\ recLock \in [Recordings -> Users \cup {None}]
  /\ pc \in [Users -> {"idle", "claim", "recording", "valid", "assessed", "correcting"}]
  /\ job \in [Users -> Job]

Init ==
  /\ claim = [c \in Claims |-> NoClaim]
  /\ managed = [r \in Recordings |-> "none"]
  /\ inForce = {WorldScope}
  /\ over = {}
  /\ claimLock = [c \in Claims |-> None]
  /\ recLock = [r \in Recordings |-> None]
  /\ pc = [u \in Users |-> "idle"]
  /\ job = [u \in Users |-> NoJob]

-----------------------------------------------------------------------------
\* The decided claim and its recording.
Decided(u) == job[u].claim
RecordingOf(u) == claim[Decided(u)].recording

\* Claims confirmed for exactly the recording and scope of claim c.
ConfirmedWith(c) ==
  {d \in Claims : /\ claim[d].status = "confirmed"
                  /\ claim[d].recording = claim[c].recording
                  /\ claim[d].scope = claim[c].scope}

ShareOf(c) == IF claim[c].share = None THEN 0 ELSE claim[c].share
Sums(f) ==
  LET sum[cs \in SUBSET Claims] ==
        IF cs = {} THEN 0
        ELSE LET c == CHOOSE d \in cs : TRUE IN f[c] + sum[cs \ {c}]
  IN  sum
Total(cs) == Sums([c \in Claims |-> ShareOf(c)])[cs]

\* validate_confirmed_ownership_total: the claim together with the others.
WithinWholeAlone(c) == ShareOf(c) <= Whole
WithinWhole(c) ==
  claim[c].share = None \/ Total(ConfirmedWith(c) \cup {c}) <= Whole

\* Mutant of LocalBasis: the dates are not asked for.
LocalBasisEver(r, status) ==
  \E c \in Claims : /\ claim[c].recording = r /\ claim[c].local
                    /\ status[c] = "confirmed"

\* A right of the local organisation, of any type, confirmed and current.
LocalBasis(r, status) ==
  \E c \in Claims : /\ claim[c].recording = r /\ claim[c].local
                    /\ status[c] = "confirmed" /\ claim[c].scope \in inForce

Release(u) ==
  /\ claimLock' = [c \in Claims |-> IF claimLock[c] = u THEN None ELSE claimLock[c]]
  /\ recLock' = [r \in Recordings |-> IF recLock[r] = u THEN None ELSE recLock[r]]

Done(u) ==
  /\ Release(u)
  /\ pc' = [pc EXCEPT ![u] = "idle"]
  /\ job' = [job EXCEPT ![u] = NoJob]

-----------------------------------------------------------------------------
(* New claims.  The insert needs the recording free of a decision's lock.  *)

Unverified(r, s, share, local, previous) ==
  [status |-> "unverified", recording |-> r, scope |-> s, share |-> share,
   local |-> local, supersedes |-> previous]

\* The workbench handles the rights of managed recordings only.
Handled(r) == managed[r] # "none"

\* rights_claim_add: create_rights_claim for one recording.
CreateClaim(c, r, s, share, local) ==
  /\ Handled(r)
  /\ claim[c].status = "absent"
  /\ recLock[r] = None
  /\ claim' = [claim EXCEPT ![c] = Unverified(r, s, share, local, None)]
  /\ UNCHANGED <<managed, calendar, locks, pc, job>>

\* A recording is registered for management once.
Registrable(r) == ~ Handled(r)

\* create_managed_recording: the recording is managed, pending, on the ground of
\* one unverified claim of the local organisation.
CreateManaged(r, c, share) ==
  /\ Registrable(r)
  /\ claim[c].status = "absent"
  /\ recLock[r] = None
  /\ managed' = [managed EXCEPT ![r] = "pending"]
  /\ claim' = [claim EXCEPT ![c] = Unverified(r, WorldScope, share, TRUE, None)]
  /\ UNCHANGED <<calendar, locks, pc, job>>

\* create_release_rights_claims: one claim for every chosen recording of the
\* release; a recording that is not managed becomes so, for local claims only.
CreateReleaseClaims(new, s, share, local) ==
  LET chosen == {r \in Recordings : \E c \in Claims : new[c] = r} IN
  /\ chosen # {}
  /\ \A c \in Claims : new[c] # None => claim[c].status = "absent"
  /\ \A c, d \in Claims : new[c] = new[d] /\ new[c] # None => c = d
  /\ \A r \in chosen : recLock[r] = None /\ (managed[r] = "none" => local)
  /\ managed' = [r \in Recordings |-> IF r \in chosen /\ managed[r] = "none"
                                      THEN "pending" ELSE managed[r]]
  /\ claim' = [c \in Claims |-> IF new[c] = None THEN claim[c]
                                ELSE Unverified(new[c], s, share, local, None)]
  /\ UNCHANGED <<calendar, locks, pc, job>>

\* The admin page of a managed recording: its status is a field of the form, and it
\* can be removed; the claims stay.
AdminSetsStatus(r, status) ==
  /\ Handled(r)
  /\ status # managed[r]
  /\ managed' = [managed EXCEPT ![r] = status]
  /\ UNCHANGED <<claim, calendar, locks, pc, job>>

\* The first day of the period of a scope comes.
PeriodBegins(s) ==
  /\ s \notin inForce \cup over
  /\ inForce' = inForce \cup {s}
  /\ UNCHANGED <<claim, managed, over, locks, pc, job>>

\* The last day of the period of a scope passes.
PeriodEnds(s) ==
  /\ s \in inForce \ {WorldScope}
  /\ inForce' = inForce \ {s}
  /\ over' = over \cup {s}
  /\ UNCHANGED <<claim, managed, locks, pc, job>>

-----------------------------------------------------------------------------
(* decide_rights_claim, from the workbench for a managed recording, or for *)
(* any claim from the list of the admin.                                   *)

DecideLockClaim(u, c, verdict) ==
  /\ pc[u] = "idle"
  /\ claim[c].status # "absent"
  /\ claimLock[c] = None
  /\ claimLock' = [claimLock EXCEPT ![c] = u]
  /\ pc' = [pc EXCEPT ![u] = "claim"]
  /\ job' = [job EXCEPT ![u] = [claim |-> c, verdict |-> verdict, next |-> "none",
                               day |-> {}]]
  /\ UNCHANGED <<claim, managed, calendar, recLock>>

RightsClaimDecide(u, c, verdict) ==
  claim[c].recording \in Recordings /\ Handled(claim[c].recording) /\ DecideLockClaim(u, c, verdict)
AdminDecides(u, c, verdict) == DecideLockClaim(u, c, verdict)

\* Mutant of RecordingFree: no lock on the recording.
RecordingUnlocked(r) == TRUE
RecordingFree(r) == recLock[r] = None

DecideLockRecording(u) ==
  /\ pc[u] = "claim"
  /\ RecordingFree(RecordingOf(u))
  /\ recLock' = [recLock EXCEPT ![RecordingOf(u)] = u]
  /\ pc' = [pc EXCEPT ![u] = "recording"]
  /\ UNCHANGED <<claim, managed, calendar, claimLock, job>>

\* A confirmation that would exceed the whole is rolled back.
DecideValidate(u) ==
  /\ pc[u] = "recording"
  /\ IF job[u].verdict = "confirmed" /\ ~ WithinWhole(Decided(u))
     THEN Done(u)
     ELSE pc' = [pc EXCEPT ![u] = "valid"] /\ UNCHANGED <<locks, job>>
  /\ UNCHANGED <<claim, managed, calendar>>

\* The claims as this transaction sees them: its own verdict written.
Seen(u) == [c \in Claims |-> IF c = Decided(u) THEN job[u].verdict ELSE claim[c].status]

\* The status of the managed recording, "none" when there is nothing to save.
DecideAssess(u) ==
  LET r == RecordingOf(u)
      earned == IF LocalBasis(r, Seen(u)) THEN "active" ELSE "pending"
  IN
  /\ pc[u] = "valid"
  /\ job' = [job EXCEPT ![u].next = IF managed[r] \in {"none", earned} THEN "none" ELSE earned,
                        ![u].day = inForce]
  /\ pc' = [pc EXCEPT ![u] = "assessed"]
  /\ UNCHANGED <<claim, managed, calendar, locks>>

\* Saving a managed recording that was removed meanwhile fails, and with it the
\* whole decision.
DecideCommit(u) ==
  LET r == RecordingOf(u)
      lost == job[u].next # "none" /\ managed[r] = "none"
  IN
  /\ pc[u] = "assessed"
  /\ claim' = IF lost THEN claim ELSE [claim EXCEPT ![Decided(u)].status = job[u].verdict]
  /\ managed' = IF lost \/ job[u].next = "none" THEN managed
                ELSE [managed EXCEPT ![r] = job[u].next]
  /\ Done(u)
  /\ UNCHANGED calendar

-----------------------------------------------------------------------------
(* supersede_rights_claim: under the lock on the claim, and the key-share  *)
(* lock of the insert.                                                     *)

\* rights_claim_supersede asks for no management.
SupersedeLockClaim(u, c) ==
  /\ pc[u] = "idle"
  /\ claim[c].status # "absent"
  /\ claimLock[c] = None
  /\ claimLock' = [claimLock EXCEPT ![c] = u]
  /\ pc' = [pc EXCEPT ![u] = "correcting"]
  /\ job' = [job EXCEPT ![u] = [claim |-> c, verdict |-> None, next |-> "none",
                               day |-> {}]]
  /\ UNCHANGED <<claim, managed, calendar, recLock>>

Replacement(u, s, share, local) ==
  Unverified(RecordingOf(u), s, share, local, Decided(u))

SupersedeCommit(u, n, s, share, local) ==
  /\ pc[u] = "correcting"
  /\ claim[n].status = "absent"
  /\ recLock[RecordingOf(u)] = None
  /\ claim' = [claim EXCEPT ![n] = Replacement(u, s, share, local),
                            ![Decided(u)].status = "superseded"]
  /\ Done(u)
  /\ UNCHANGED <<managed, calendar>>

\* The replacement is not valid (a territory list with the whole world, a period
\* that ends before it starts): the correction is rolled back.
SupersedeRefused(u) ==
  /\ pc[u] = "correcting"
  /\ Done(u)
  /\ UNCHANGED <<claim, managed, calendar>>

-----------------------------------------------------------------------------
DecisionStep(u) ==
  \/ \E c \in Claims, verdict \in Verdicts :
       RightsClaimDecide(u, c, verdict) \/ AdminDecides(u, c, verdict)
  \/ DecideLockRecording(u) \/ DecideValidate(u) \/ DecideAssess(u) \/ DecideCommit(u)

CorrectionStep(u) ==
  \/ \E c \in Claims : SupersedeLockClaim(u, c)
  \/ \E n \in Claims, s \in Scopes, share \in Shares \cup {None}, local \in BOOLEAN :
       SupersedeCommit(u, n, s, share, local)
  \/ SupersedeRefused(u)

Registration ==
  \E s \in Scopes, share \in Shares \cup {None}, local \in BOOLEAN :
    \/ \E c \in Claims, r \in Recordings : CreateClaim(c, r, s, share, local)
    \/ \E new \in [Claims -> Recordings \cup {None}] : CreateReleaseClaims(new, s, share, local)

Next ==
  \/ Registration
  \/ \E c \in Claims, r \in Recordings, share \in Shares \cup {None} : CreateManaged(r, c, share)
  \/ \E r \in Recordings, status \in Management : AdminSetsStatus(r, status)
  \/ \E s \in Scopes : PeriodBegins(s) \/ PeriodEnds(s)
  \/ \E u \in Users : DecisionStep(u) \/ CorrectionStep(u)

Spec == Init /\ [][Next]_vars

-----------------------------------------------------------------------------
(* Properties.                                                             *)

\* "Bekreftede eierandeler overstiger 100 %" never comes true: the confirmed
\* shares of one recording and scope stay within the whole, whichever decisions
\* and corrections run at once (validate_confirmed_ownership_total).
ConfirmedWithinWhole ==
  \A c \in Claims : claim[c].status = "confirmed" => Total(ConfirmedWith(c)) <= Whole

\* The rows give the local organisation a confirmed right in r in force on the day.
RightInForce(rows, r, day) ==
  \E c \in Claims : /\ rows[c].recording = r /\ rows[c].local
                    /\ rows[c].status = "confirmed" /\ rows[c].scope \in day

\* A decision that changes the status of a managed recording leaves it in active
\* management if and only if, by the claims it leaves behind, the local organisation
\* has a confirmed right in force on the day of the decision: no racing decision,
\* correction, registration or edit of the status makes it settle on claims that have
\* changed since it asked (decide_rights_claim).  What the passing of a period does
\* to a status settled before is nobody's step.
DecisionsSettleStatus ==
  [][\A u \in Users, r \in Recordings :
       DecideCommit(u) /\ managed'[r] # managed[r] =>
         managed'[r] = IF RightInForce(claim', r, job[u].day) THEN "active" ELSE "pending"]_vars

=============================================================================

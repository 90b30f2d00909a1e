----------------------------- MODULE RadioProofs -----------------------------
(***************************************************************************)
(* Theorems about RadioMastering for every number of recordings, masters,  *)
(* radio files, targets and workers, and every bound; and about            *)
(* RadioArchive, where splits and jobs write the same rows: no recording   *)
(* ever has two CURRENT files, and only the save of an old row takes a     *)
(* recording's last file.                                                  *)
(***************************************************************************)
EXTENDS RadioArchive, TLAPS

-----------------------------------------------------------------------------
(* RadioMastering: the inductive invariant, in four layers.                *)

\* What a worker holds at each of its steps.
LocalOK ==
  \A w \in Workers :
    /\ pc[w] \in {"previewed", "discarding"} =>
         form[w].target \in Targets /\ form[w].master \in Masters
    /\ pc[w] \in Claimed \cup {"checked"} => work[w].target \in Targets
    /\ pc[w] \in {"encoded", "compared", "rehashed", "placed"} => work[w].audio \in Audio

\* A row that exists names its master.
PlanHasMaster ==
  \A t \in Targets : plan[t].status # "absent" => plan[t].master \in Masters

\* A target that holds a foreign file is out of reach: its row never gets past
\* PLANNED, and no worker runs it.
ForeignIsIdle ==
  \A t \in Targets :
    file[t] = Foreign =>
      /\ plan[t].status \in {"absent", "planned"}
      /\ \A w \in Workers : pc[w] \in Claimed \cup {"checked"} => work[w].target # t

\* Nothing is written at a target before its row is claimed, and a claimed
\* target stays empty until the file is placed.
TargetEmpty ==
  /\ \A t \in Targets : plan[t].status \in {"absent", "planned"} => file[t] \in {NoFile, Foreign}
  /\ \A w \in Workers : pc[w] \in Claimed \ {"placed"} => file[work[w].target] = NoFile

\* A row is discarded only because of a foreign file at its target.
DiscardsForeign ==
  \A w \in Workers :
    /\ pc[w] = "discarding" => file[form[w].target] = Foreign
    /\ pc[w] = "previewed" /\ form[w].exists =>
         file[form[w].target] = Foreign \/ plan[form[w].target].status # "absent"

Typing  == TypeOK /\ LocalOK /\ PlanHasMaster
Control == ClaimIsExclusive /\ ForeignIsIdle /\ TargetEmpty /\ DiscardsForeign

\* There is no candidate before its row is verified.
Unregistered ==
  \A t \in Targets :
    plan[t].status \in {"absent", "planned", "generating", "failed"} =>
      life[t] = "absent" /\ radioRec[t] = None /\ lineage[t] = None

Lifecycle == Unregistered /\ CurrentRadioAgrees

\* Whatever names a master names a registered one, whose hash is of a version
\* the file has had.
MastersRegistered ==
  /\ \A r \in Recordings : selMaster[r] # None => masterRec[selMaster[r]] # None
  /\ \A w \in Workers : pc[w] = "previewed" => masterRec[form[w].master] # None
  /\ \A t \in Targets : plan[t].status # "absent" => masterRec[plan[t].master] # None
  /\ \A m \in Masters : masterRec[m] # None => masterSha[m] <= wav[m]

\* The encoded audio is of a version between the registered one and the one on
\* disk, so that it is the registered one when the file on disk still is.
AudioAgrees(w) ==
  LET m == plan[work[w].target].master IN
  /\ pc[w] \in {"encoded", "compared"} =>
       \E v \in Nat : work[w].audio = <<m, v>> /\ masterSha[m] <= v /\ v <= wav[m]
  /\ pc[w] = "rehashed" => work[w].audio = <<m, masterSha[m]>>
  /\ pc[w] = "placed" => file[work[w].target] = <<m, masterSha[m]>>

AudioOfMaster == \A w \in Workers : AudioAgrees(w)

Provenance == MastersRegistered /\ AudioOfMaster /\ VerifiedCandidate

IInv == Typing /\ Control /\ Lifecycle /\ Provenance

-----------------------------------------------------------------------------
\* Storing a well-formed row, and moving the status of a stored one.
LEMMA RowStored ==
  ASSUME plan \in [Targets -> Plan], PlanHasMaster, NEW t \in Targets, NEW row \in Plan,
         row.status # "absent" => row.master \in Masters,
         plan' = [plan EXCEPT ![t] = row]
  PROVE  plan' \in [Targets -> Plan] /\ PlanHasMaster'
<1>1. \A u \in Targets : plan'[u] = IF u = t THEN row ELSE plan[u]
  OBVIOUS
<1>2. plan' \in [Targets -> Plan]
  OBVIOUS
<1>. QED
  BY <1>1, <1>2 DEF PlanHasMaster

\* Moving the status of a stored row keeps the rows well-formed.
LEMMA StatusMoved ==
  ASSUME plan \in [Targets -> Plan], PlanHasMaster, NEW t \in Targets, NEW s \in PlanStatus,
         plan[t].status # "absent",
         plan' = [plan EXCEPT ![t].status = s]
  PROVE  plan' \in [Targets -> Plan] /\ PlanHasMaster'
<1>. DEFINE row == [plan[t] EXCEPT !.status = s]
<1>1. row \in Plan /\ row.master = plan[t].master
  BY DEF Plan
<1>2. plan' = [plan EXCEPT ![t] = row]
  OBVIOUS
<1>3. plan[t].master \in Masters
  BY DEF PlanHasMaster
<1>. QED
  <2>. HIDE DEF row
  <2>. QED
    BY <1>1, <1>2, <1>3, RowStored

-----------------------------------------------------------------------------
(* First layer, typing.                                                    *)

\* Editing, registering and selecting a master keeps the typing layer.
LEMMA TypingMasterStep == ASSUME Typing, MasterStep PROVE Typing'
<1> USE DEF Typing, TypeOK, LocalOK, PlanHasMaster, master, select, radio, bounds, local, disk
<1>1. ASSUME NEW m \in Masters, EditWav(m) PROVE Typing'
  BY <1>1 DEF EditWav
<1>2. ASSUME NEW m \in Masters, NEW r \in Recordings, NEW v \in 0..MaxVersion, RegisterMaster(m, r, v)
      PROVE Typing'
  BY <1>2, BoundsAssumption DEF RegisterMaster
<1>3. ASSUME NEW m \in Masters, NEW r \in Recordings, SelectMaster(r, m) PROVE Typing'
  BY <1>3 DEF SelectMaster
<1>. QED
  BY <1>1, <1>2, <1>3 DEF MasterStep

\* Previewing, saving and discarding a plan keeps the typing layer.
LEMMA TypingPlanStep == ASSUME Typing, NEW w \in Workers, PlanStep(w) PROVE Typing'
<1> USE DEF Typing, TypeOK, LocalOK, master, select, radio, bounds, local, disk
<1>1. ASSUME NEW t \in Targets, PlanPreview(w, t) PROVE Typing'
  <2>1. PICK a \in Radios :
          form' = [form EXCEPT ![w] = [target |-> t, master |-> selMaster[TargetRec[t]], source |-> a,
                                       exists |-> file[t] # NoFile]]
    BY <1>1 DEF PlanPreview
  <2>2. selMaster[TargetRec[t]] \in Masters
    BY <1>1, RadiosAssumption DEF PlanPreview
  <2>3. [target |-> t, master |-> selMaster[TargetRec[t]], source |-> a, exists |-> file[t] # NoFile] \in Form
    BY <2>2 DEF Form
  <2>. QED
    BY <1>1, <2>1, <2>2, <2>3 DEF PlanPreview, PlanHasMaster, Claimed, Steps
<1>2. ASSUME PlanSave(w) PROVE Typing'
  <2>. DEFINE row == [status |-> "planned", master |-> form[w].master, source |-> form[w].source]
  <2>1. form[w].target \in Targets /\ form[w].master \in Masters
    BY <1>2 DEF PlanSave
  <2>2. row \in Plan /\ row.master \in Masters
    BY <2>1 DEF Plan, PlanStatus, Form
  <2>3. plan' = plan \/ plan' = [plan EXCEPT ![form[w].target] = row]
    BY <1>2 DEF PlanSave
  <2>4. plan' \in [Targets -> Plan] /\ PlanHasMaster'
    <3>. HIDE DEF row
    <3>. QED
      BY <2>1, <2>2, <2>3, RowStored DEF PlanHasMaster
  <2>5. form' \in [Workers -> Form] /\ pc' \in [Workers -> Steps] /\ LocalOK'
    BY <1>2, <2>1 DEF PlanSave, NoForm, Form, Claimed, Steps
  <2>. QED
    BY <1>2, <2>4, <2>5 DEF PlanSave
<1>3. ASSUME PlanDiscard(w) PROVE Typing'
  <2>1. NoPlan \in Plan /\ NoPlan.status = "absent"
    BY DEF NoPlan, Plan, PlanStatus
  <2>2. plan' \in [Targets -> Plan] /\ PlanHasMaster'
    BY <1>3, <2>1, RowStored DEF PlanDiscard
  <2>. QED
    BY <1>3, <2>2 DEF PlanDiscard, NoForm, Form, Claimed, Steps
<1>. QED
  BY <1>1, <1>2, <1>3 DEF PlanStep

\* The unlocked checks before the claim keep the typing layer.
LEMMA TypingGenStart ==
  ASSUME Typing, NEW w \in Workers, NEW t \in Targets, GenStart(w, t) PROVE Typing'
  BY DEF GenStart, Move, Typing, TypeOK, LocalOK, PlanHasMaster, Work, Claimed, Steps,
         master, select, radio, bounds, disk

\* Every step of a generation, failures included, keeps the typing layer.
LEMMA TypingGenStep == ASSUME Typing, Control, NEW w \in Workers, GenStep(w) PROVE Typing'
<1> USE DEF Typing, TypeOK, LocalOK, Claimed, Steps, Move, master, select, radio, bounds, disk
<1>0. pc[w] \in Claimed => plan[work[w].target].status = "generating" /\ work[w].target \in Targets
  BY DEF Control, ClaimIsExclusive
<1>1. ASSUME GenClaim(w) PROVE Typing'
  <2>1. plan' \in [Targets -> Plan] /\ PlanHasMaster'
    <3>1. CASE Claimable(work[w].target)
      <4>1. plan[work[w].target].status = "planned" /\ "generating" \in PlanStatus
        BY <3>1 DEF Claimable, PlanStatus
      <4>. QED
        BY <1>1, <3>1, <4>1, StatusMoved DEF GenClaim
    <3>2. CASE ~Claimable(work[w].target)
      BY <1>1, <3>2 DEF GenClaim, PlanHasMaster
    <3>. QED
      BY <3>1, <3>2
  <2>2. pc' \in [Workers -> Steps] /\ work' \in [Workers -> Work] /\ LocalOK'
    <3>1. CASE Claimable(work[w].target)
      BY <1>1, <3>1 DEF GenClaim
    <3>2. CASE ~Claimable(work[w].target)
      <4>1. /\ pc' = [pc EXCEPT ![w] = "idle"] /\ work' = [work EXCEPT ![w] = NoWork]
            /\ form' = form /\ NoWork \in Work
        BY <1>1, <3>2 DEF GenClaim, NoWork, Work
      <4>. QED
        BY <4>1
    <3>. QED
      BY <3>1, <3>2
  <2>. QED
    BY <1>1, <2>1, <2>2 DEF GenClaim
<1>2. ASSUME GenEncode(w) PROVE Typing'
  <2>1. <<plan[work[w].target].master, wav[plan[work[w].target].master]>> \in Audio
    BY <1>0, <1>2 DEF GenEncode, PlanHasMaster, Audio
  <2>2. PICK x \in Audio : work' = [work EXCEPT ![w].audio = x]
    BY <1>2, <2>1 DEF GenEncode
  <2>3. [work[w] EXCEPT !.audio = x] \in Work
    BY DEF Work
  <2>4. work' \in [Workers -> Work]
    BY <2>2, <2>3
  <2>5. /\ UNCHANGED <<disk, master, select, radio, plan, form, bounds>>
        /\ pc' = [pc EXCEPT ![w] = "encoded"] /\ pc[w] = "claimed" /\ work'[w].target = work[w].target
        /\ work'[w].audio = x
        /\ \A v \in Workers \ {w} : work'[v] = work[v]
    BY <1>2, <2>2 DEF GenEncode, Work
  <2>6. TypeOK'
    BY <2>4, <2>5
  <2>7. LocalOK'
    <3>. SUFFICES ASSUME NEW v \in Workers
                  PROVE  /\ pc'[v] \in {"previewed", "discarding"} =>
                              form'[v].target \in Targets /\ form'[v].master \in Masters
                         /\ pc'[v] \in Claimed \cup {"checked"} => work'[v].target \in Targets
                         /\ pc'[v] \in {"encoded", "compared", "rehashed", "placed"} => work'[v].audio \in Audio
      OBVIOUS
    <3>1. CASE v = w
      BY <1>0, <2>5, <3>1
    <3>2. CASE v # w
      BY <2>5, <3>2
    <3>. QED
      BY <3>1, <3>2
  <2>. QED
    BY <2>5, <2>6, <2>7 DEF PlanHasMaster
<1>3. ASSUME GenCompare(w) PROVE Typing'
  BY <1>3 DEF GenCompare, PlanHasMaster
<1>4. ASSUME GenRehash(w) PROVE Typing'
  BY <1>4 DEF GenRehash, PlanHasMaster
<1>5. ASSUME GenPlace(w) PROVE Typing'
  BY <1>5 DEF GenPlace, PlanHasMaster
<1>6. ASSUME GenRegister(w) PROVE Typing'
  <2>1. plan' \in [Targets -> Plan] /\ PlanHasMaster'
    <3>. "verified" \in PlanStatus
      BY DEF PlanStatus
    <3>. QED
      BY <1>0, <1>6, StatusMoved DEF GenRegister, MarkedVerified
  <2>2. plan[work[w].target].master \in Masters
    BY <1>0, <1>6 DEF GenRegister, PlanHasMaster
  <2>3. life' \in [Radios -> LifecycleStatus] /\ radioRec' \in [Radios -> Recordings \cup {None}]
        /\ lineage' \in [Radios -> Masters \cup {None}]
    BY <1>0, <1>6, <2>2, RadiosAssumption DEF GenRegister, AsCandidate, LifecycleStatus, Radios
  <2>. QED
    BY <1>6, <2>1, <2>3 DEF GenRegister, NoWork, Work
<1>7. ASSUME GenRaise(w) PROVE Typing'
  BY <1>7 DEF GenRaise, PlanHasMaster
<1>8. ASSUME GenRegisterRaises(w) PROVE Typing'
  BY <1>8 DEF GenRegisterRaises, PlanHasMaster
<1>9. ASSUME GenRegisterRaisesLate(w) PROVE Typing'
  BY <1>9 DEF GenRegisterRaisesLate, PlanHasMaster, NoWork, Work
<1>10. ASSUME GenRecordFailure(w) PROVE Typing'
  <2>1. plan' \in [Targets -> Plan] /\ PlanHasMaster'
    <3>. "failed" \in PlanStatus
      BY DEF PlanStatus
    <3>. QED
      BY <1>0, <1>10, StatusMoved DEF GenRecordFailure, MarkedFailed
  <2>. QED
    BY <1>10, <2>1 DEF GenRecordFailure, NoWork, Work
<1>. QED
  BY <1>1, <1>2, <1>3, <1>4, <1>5, <1>6, <1>7, <1>8, <1>9, <1>10 DEF GenStep

\* A crash of a worker keeps the typing layer.
LEMMA TypingCrash == ASSUME Typing, NEW w \in Workers, Crash(w) PROVE Typing'
  BY DEF Crash, Typing, TypeOK, LocalOK, PlanHasMaster, Form, Work, Claimed, Steps, NoForm, NoWork,
         master, select, radio, disk

\* Activating a candidate keeps the typing layer.
LEMMA TypingActivate == ASSUME Typing, NEW t \in Targets, Activate(t) PROVE Typing'
<1>1. plan' \in [Targets -> Plan] /\ PlanHasMaster'
  <2>. "activated" \in PlanStatus
    BY DEF PlanStatus
  <2>. QED
    BY StatusMoved DEF Activate, Activatable, Typing, TypeOK
<1>2. life' \in [Radios -> LifecycleStatus] /\ curRadio' \in [Recordings -> Radios \cup {None}]
  BY DEF Activate, LifecycleStatus, Radios, Typing, TypeOK
<1>. QED
  BY <1>1, <1>2 DEF Activate, Typing, TypeOK, LocalOK, PlanHasMaster, master, local, bounds, disk

\* Every step of the service keeps the typing layer.
LEMMA TypingNext == ASSUME Typing, Control, [Next]_vars PROVE Typing'
<1>1. CASE UNCHANGED vars
  BY <1>1 DEF vars, Typing, TypeOK, LocalOK, PlanHasMaster
<1>2. CASE Next
  BY <1>2, TypingMasterStep, TypingPlanStep, TypingGenStart, TypingGenStep, TypingCrash, TypingActivate
  DEF Next
<1>. QED
  BY <1>1, <1>2

-----------------------------------------------------------------------------
(* Second layer, control: who may touch a row and its target.              *)

\* A step that leaves the rows, the targets and the workers alone.
LEMMA ControlKept ==
  ASSUME Control, UNCHANGED <<file, plan, pc, form, work>> PROVE Control'
  BY DEF Control, ClaimIsExclusive, ForeignIsIdle, TargetEmpty, DiscardsForeign

\* Editing, registering and selecting a master keeps the control layer.
LEMMA ControlMasterStep == ASSUME Control, MasterStep PROVE Control'
  BY ControlKept
  DEF MasterStep, EditWav, RegisterMaster, SelectMaster, master, select, radio, bounds, local, disk

\* Previewing, saving and discarding a plan keeps the control layer.
LEMMA ControlPlanStep == ASSUME Typing, Control, NEW w \in Workers, PlanStep(w) PROVE Control'
<1> USE DEF Typing, TypeOK, LocalOK, Control, ClaimIsExclusive, ForeignIsIdle, TargetEmpty,
            DiscardsForeign, Claimed, disk
<1>1. ASSUME NEW t \in Targets, PlanPreview(w, t) PROVE Control'
  <2>1. PICK a \in Radios :
          form' = [form EXCEPT ![w] = [target |-> t, master |-> selMaster[TargetRec[t]], source |-> a,
                                       exists |-> file[t] # NoFile]]
    BY <1>1 DEF PlanPreview
  <2>2. /\ form'[w].target = t /\ form'[w].exists = (file[t] # NoFile)
        /\ \A v \in Workers \ {w} : form'[v] = form[v]
    BY <2>1
  <2>3. pc' = [pc EXCEPT ![w] = "previewed"] /\ UNCHANGED <<file, plan, work>>
    BY <1>1 DEF PlanPreview
  <2>4. file[t] # NoFile => file[t] = Foreign \/ plan[t].status # "absent"
    OBVIOUS
  <2>5. ClaimIsExclusive' /\ ForeignIsIdle' /\ TargetEmpty'
    BY <2>3
  <2>6. DiscardsForeign'
    <3>. SUFFICES ASSUME NEW v \in Workers
                  PROVE  /\ pc'[v] = "discarding" => file[form'[v].target] = Foreign
                         /\ pc'[v] = "previewed" /\ form'[v].exists =>
                              file[form'[v].target] = Foreign
                                \/ plan[form'[v].target].status # "absent"
      BY <2>3
    <3>1. CASE v = w
      BY <2>2, <2>3, <2>4, <3>1
    <3>2. CASE v # w
      BY <2>2, <2>3, <3>2
    <3>. QED
      BY <3>1, <3>2
  <2>. QED
    BY <2>5, <2>6
<1>2. ASSUME PlanSave(w) PROVE Control'
  <2>. DEFINE t == form[w].target
              row == [status |-> "planned", master |-> form[w].master, source |-> form[w].source]
  <2>0. t \in Targets /\ row.status = "planned"
    BY <1>2 DEF PlanSave
  <2>1. CASE plan[t].status # "absent"
    BY <1>2, <2>1 DEF PlanSave
  <2>2. CASE plan[t].status = "absent"
    <3>1. plan' = [plan EXCEPT ![t] = row] /\ file' = file /\ work' = work
      BY <1>2, <2>2 DEF PlanSave
    <3>2. pc' = [pc EXCEPT ![w] = IF form[w].exists THEN "discarding" ELSE "idle"]
          /\ form' = [form EXCEPT ![w] = IF form[w].exists THEN @ ELSE NoForm]
      BY <1>2, <2>2 DEF PlanSave
    <3>3. \A u \in Targets : plan'[u] = IF u = t THEN row ELSE plan[u]
      BY <3>1
    <3>4. \A v \in Workers : pc'[v] \in Claimed \cup {"checked"} => pc'[v] = pc[v]
      BY <3>2
    <3>5. \A v \in Workers : pc[v] \in Claimed => work[v].target # t
      BY <2>2
    <3>. HIDE DEF row, t
    <3>6. ClaimIsExclusive'
      BY <3>1, <3>3, <3>4, <3>5
    <3>7. ForeignIsIdle'
      BY <2>0, <3>1, <3>3, <3>4
    <3>8. TargetEmpty'
      BY <2>0, <2>2, <3>1, <3>3, <3>4
    <3>9. DiscardsForeign'
      BY <1>2, <2>0, <2>2, <3>1, <3>2, <3>3 DEF PlanSave, t
    <3>. QED
      BY <3>6, <3>7, <3>8, <3>9
  <2>. QED
    BY <2>1, <2>2
<1>3. ASSUME PlanDiscard(w) PROVE Control'
  <2>. DEFINE t == form[w].target
  <2>1. t \in Targets /\ file[t] = Foreign /\ NoPlan.status = "absent"
    BY <1>3 DEF PlanDiscard, NoPlan
  <2>2. plan' = [plan EXCEPT ![t] = NoPlan] /\ file' = file /\ work' = work
        /\ pc' = [pc EXCEPT ![w] = "idle"] /\ form' = [form EXCEPT ![w] = NoForm]
    BY <1>3 DEF PlanDiscard
  <2>. HIDE DEF t
  <2>. QED
    BY <2>1, <2>2
<1>. QED
  BY <1>1, <1>2, <1>3 DEF PlanStep

\* The unlocked checks before the claim keep the control layer.
LEMMA ControlGenStart ==
  ASSUME Typing, Control, NEW w \in Workers, NEW t \in Targets, GenStart(w, t) PROVE Control'
  BY SentinelsAssumption
  DEF GenStart, Move, TargetFree, Typing, TypeOK, LocalOK, Control, ClaimIsExclusive, ForeignIsIdle,
      TargetEmpty, DiscardsForeign, Claimed, disk

\* Every step of a generation, failures included, keeps the control layer.
LEMMA ControlGenStep == ASSUME Typing, Control, NEW w \in Workers, GenStep(w) PROVE Control'
<1> USE DEF Typing, TypeOK, LocalOK, Control, ClaimIsExclusive, ForeignIsIdle, TargetEmpty,
            DiscardsForeign, Claimed, Move, disk
<1>. DEFINE t == work[w].target
<1>0. pc[w] \in Claimed => plan[t].status = "generating" /\ t \in Targets
  OBVIOUS
<1>1. ASSUME GenClaim(w) PROVE Control'
  <2>1. CASE Claimable(t)
    <3>1. plan[t].status = "planned" /\ t \in Targets /\ pc[w] = "checked"
      BY <1>1, <2>1 DEF Claimable, GenClaim
    <3>2. file[t] = NoFile
      BY <3>1
    <3>3. plan' = [plan EXCEPT ![t].status = "generating"] /\ pc' = [pc EXCEPT ![w] = "claimed"]
          /\ UNCHANGED <<file, form, work>>
      BY <1>1, <2>1 DEF GenClaim
    <3>4. \A u \in Targets : plan'[u].status = IF u = t THEN "generating" ELSE plan[u].status
      BY <3>3
    <3>5. \A v \in Workers : pc[v] \in Claimed => work[v].target # t
      BY <3>1
    <3>. HIDE DEF t
    <3>6. ClaimIsExclusive'
      BY <3>1, <3>3, <3>4, <3>5 DEF t
    <3>7. ForeignIsIdle'
      BY <3>1, <3>2, <3>3, <3>4, SentinelsAssumption DEF t
    <3>8. TargetEmpty'
      BY <3>1, <3>2, <3>3, <3>4 DEF t
    <3>9. DiscardsForeign'
      BY <3>1, <3>3, <3>4
    <3>. QED
      BY <3>6, <3>7, <3>8, <3>9
  <2>2. CASE ~Claimable(t)
    <3>1. pc' = [pc EXCEPT ![w] = "idle"] /\ work' = [work EXCEPT ![w] = NoWork]
          /\ UNCHANGED <<plan, file, form>>
      BY <1>1, <2>2 DEF GenClaim
    <3>. QED
      BY <3>1
  <2>. QED
    BY <2>1, <2>2
<1>2. ASSUME GenEncode(w) PROVE Control'
  <2>1. \A v \in Workers : work'[v].target = work[v].target
    BY <1>2 DEF GenEncode, Work
  <2>. QED
    BY <1>2, <2>1 DEF GenEncode
<1>3. ASSUME GenCompare(w) PROVE Control'
  BY <1>3 DEF GenCompare
<1>4. ASSUME GenRehash(w) PROVE Control'
  BY <1>4 DEF GenRehash
<1>5. ASSUME GenPlace(w) PROVE Control'
  <2>1. file' = [file EXCEPT ![t] = work[w].audio] /\ work[w].audio \in Audio /\ t \in Targets
    BY <1>5 DEF GenPlace
  <2>2. \A u \in Targets : file'[u] = Foreign <=> file[u] = Foreign
    BY <1>5, <2>1, SentinelsAssumption DEF GenPlace
  <2>. QED
    BY <1>0, <1>5, <2>1, <2>2 DEF GenPlace
<1>6. ASSUME GenRegister(w) PROVE Control'
  <2>1. plan' = [plan EXCEPT ![t].status = "verified"] /\ work' = [work EXCEPT ![w] = NoWork]
        /\ pc' = [pc EXCEPT ![w] = "idle"] /\ UNCHANGED <<file, form>>
    BY <1>6 DEF GenRegister, MarkedVerified
  <2>. QED
    BY <1>0, <1>6, <2>1 DEF GenRegister
<1>7. ASSUME GenRaise(w) PROVE Control'
  BY <1>7 DEF GenRaise
<1>8. ASSUME GenRegisterRaises(w) PROVE Control'
  BY <1>0, <1>8, SentinelsAssumption DEF GenRegisterRaises
<1>9. ASSUME GenRegisterRaisesLate(w) PROVE Control'
  BY <1>0, <1>9, SentinelsAssumption DEF GenRegisterRaisesLate
<1>10. ASSUME GenRecordFailure(w) PROVE Control'
  <2>1. plan' = [plan EXCEPT ![t].status = "failed"] /\ work' = [work EXCEPT ![w] = NoWork]
        /\ pc' = [pc EXCEPT ![w] = "idle"] /\ UNCHANGED <<file, form>>
    BY <1>10 DEF GenRecordFailure, MarkedFailed
  <2>. QED
    BY <1>0, <1>10, <2>1 DEF GenRecordFailure
<1>. QED
  BY <1>1, <1>2, <1>3, <1>4, <1>5, <1>6, <1>7, <1>8, <1>9, <1>10 DEF GenStep

\* A crash of a worker keeps the control layer.
LEMMA ControlCrash == ASSUME Typing, Control, NEW w \in Workers, Crash(w) PROVE Control'
  BY DEF Crash, Typing, TypeOK, LocalOK, Control, ClaimIsExclusive, ForeignIsIdle, TargetEmpty,
         DiscardsForeign, Claimed, disk

\* Activating a candidate keeps the control layer.
LEMMA ControlActivate == ASSUME Typing, Control, NEW t \in Targets, Activate(t) PROVE Control'
<1>1. plan' = [plan EXCEPT ![t].status = "activated"] /\ plan[t].status = "verified"
      /\ UNCHANGED <<file, pc, form, work>>
  BY DEF Activate, Activatable, disk, local
<1>2. \A v \in Workers : pc[v] \in Claimed => work[v].target # t
  BY <1>1 DEF Control, ClaimIsExclusive
<1>. QED
  BY <1>1, <1>2 DEF Typing, TypeOK, LocalOK, Control, ClaimIsExclusive, ForeignIsIdle, TargetEmpty,
                    DiscardsForeign, Claimed

\* Every step of the service keeps the control layer.
LEMMA ControlNext == ASSUME Typing, Control, [Next]_vars PROVE Control'
<1>1. CASE UNCHANGED vars
  BY <1>1, ControlKept DEF vars
<1>2. CASE Next
  BY <1>2, ControlMasterStep, ControlPlanStep, ControlGenStart, ControlGenStep, ControlCrash, ControlActivate
  DEF Next
<1>. QED
  BY <1>1, <1>2

-----------------------------------------------------------------------------
(* Third layer, the life cycle and the explicit choice.                    *)

\* A step that registers and activates nothing, and moves rows only between
\* the statuses that have no candidate.
LEMMA LifecycleKept ==
  ASSUME Lifecycle, UNCHANGED <<curRadio, radio>>,
         \A t \in Targets :
           plan'[t].status \in {"absent", "planned", "generating", "failed"} =>
             plan[t].status \in {"absent", "planned", "generating", "failed"}
  PROVE  Lifecycle'
  BY DEF Lifecycle, Unregistered, CurrentRadioAgrees, radio

\* Previewing, saving and discarding a plan keeps the life-cycle layer.
LEMMA LifecyclePlanStep ==
  ASSUME Typing, Control, Lifecycle, NEW w \in Workers, PlanStep(w) PROVE Lifecycle'
<1>. USE DEF select, radio
<1>1. ASSUME NEW t \in Targets, PlanPreview(w, t) PROVE Lifecycle'
  BY <1>1, LifecycleKept DEF PlanPreview
<1>2. ASSUME PlanSave(w) PROVE Lifecycle'
  <2>1. \A t \in Targets : plan'[t] = plan[t] \/ plan[t].status = "absent"
    BY <1>2 DEF PlanSave, Typing, TypeOK
  <2>. QED
    BY <1>2, <2>1, LifecycleKept DEF PlanSave
<1>3. ASSUME PlanDiscard(w) PROVE Lifecycle'
  <2>1. \A t \in Targets : plan'[t] = plan[t] \/ plan[t].status \in {"absent", "planned"}
    BY <1>3 DEF PlanDiscard, Typing, TypeOK, LocalOK, Control, ForeignIsIdle, DiscardsForeign
  <2>. QED
    BY <1>3, <2>1, LifecycleKept DEF PlanDiscard
<1>. QED
  BY <1>1, <1>2, <1>3 DEF PlanStep

\* Every step of a generation, failures included, keeps the life-cycle layer.
LEMMA LifecycleGenStep ==
  ASSUME Typing, Control, Lifecycle, NEW w \in Workers, GenStep(w) PROVE Lifecycle'
<1>. USE DEF select, radio
<1>. DEFINE t == work[w].target
<1>0. pc[w] \in Claimed => t \in Targets /\ plan[t].status = "generating"
  BY DEF Typing, LocalOK, Control, ClaimIsExclusive
<1>1. ASSUME GenClaim(w) PROVE Lifecycle'
  <2>1. \A u \in Targets : plan'[u] = plan[u] \/ plan[u].status = "planned"
    BY <1>1 DEF GenClaim, Claimable, Typing, TypeOK
  <2>. QED
    BY <1>1, <2>1, LifecycleKept DEF GenClaim
<1>2. ASSUME GenEncode(w) \/ GenCompare(w) \/ GenRehash(w) \/ GenPlace(w) \/ GenRaise(w)
             \/ GenRegisterRaises(w) \/ GenRegisterRaisesLate(w)
      PROVE Lifecycle'
  BY <1>2, LifecycleKept
  DEF GenEncode, GenCompare, GenRehash, GenPlace, GenRaise, GenRegisterRaises, GenRegisterRaisesLate
<1>3. ASSUME GenRecordFailure(w) PROVE Lifecycle'
  <2>1. \A u \in Targets : plan'[u] = plan[u] \/ plan[u].status = "generating"
    BY <1>0, <1>3 DEF GenRecordFailure, MarkedFailed, Typing, TypeOK, Move, Claimed
  <2>. QED
    BY <1>3, <2>1, LifecycleKept DEF GenRecordFailure
<1>4. ASSUME GenRegister(w) PROVE Lifecycle'
  <2>1. t \in Targets /\ t \in Radios /\ plan[t].status = "generating"
    BY <1>0, <1>4 DEF GenRegister, Move, Claimed, Radios
  <2>2. /\ life' = [life EXCEPT ![t] = "candidate"]
        /\ radioRec' = [radioRec EXCEPT ![t] = TargetRec[t]]
        /\ lineage' = [lineage EXCEPT ![t] = plan[t].master]
        /\ plan' = [plan EXCEPT ![t].status = "verified"]
        /\ curRadio' = curRadio
    BY <1>4 DEF GenRegister, AsCandidate, MarkedVerified
  <2>3. life[t] = "absent"
    BY <2>1 DEF Lifecycle, Unregistered
  <2>. HIDE DEF t
  <2>4. Unregistered'
    BY <2>1, <2>2 DEF Lifecycle, Unregistered, Typing, TypeOK, Plan
  <2>5. CurrentRadioAgrees'
    BY <2>1, <2>2, <2>3 DEF Lifecycle, CurrentRadioAgrees, Typing, TypeOK
  <2>. QED
    BY <2>4, <2>5 DEF Lifecycle
<1>. QED
  BY <1>1, <1>2, <1>3, <1>4 DEF GenStep

\* Activation: the file it replaces is the recording's own, so the files of the
\* other recordings keep their status, and its final check leaves one CURRENT
\* file in the recording.
LEMMA LifecycleActivate ==
  ASSUME Typing, Lifecycle, NEW t \in Targets, Activate(t) PROVE Lifecycle'
<1>. DEFINE r == TargetRec[t]
            status == [a \in Radios |-> IF a = t THEN "current"
                                        ELSE IF a \in Superseded(t) THEN "historical"
                                        ELSE life[a]]
<1>1. /\ plan[t].status = "verified" /\ radioRec[t] = r /\ life[t] = "candidate"
      /\ life' = status /\ curRadio' = [curRadio EXCEPT ![r] = t]
      /\ plan' = [plan EXCEPT ![t].status = "activated"]
      /\ UNCHANGED <<radioRec, lineage>>
      /\ OnlyCurrent(t, status)
  BY DEF Activate, Activatable
<1>2. r \in Recordings /\ t \in Radios
  BY RadiosAssumption DEF Radios
<1>3. \A a \in Superseded(t) : radioRec[a] = r
  BY <1>2 DEF Superseded, Lifecycle, CurrentRadioAgrees, Typing, TypeOK
<1>4. \A a \in Radios : radioRec[a] # r => life'[a] = life[a]
  BY <1>1, <1>3
<1>5. \A a \in Radios : radioRec[a] = r => (life'[a] = "current" <=> a = t)
  BY <1>1 DEF OnlyCurrent
<1>6. CurrentRadioAgrees'
  <2>. SUFFICES ASSUME NEW a \in Radios, NEW q \in Recordings
                PROVE  curRadio'[q] = a <=> (radioRec[a] = q /\ life'[a] = "current")
    BY <1>1 DEF CurrentRadioAgrees
  <2>1. CASE q = r
    BY <1>1, <1>2, <1>5, <2>1 DEF Typing, TypeOK
  <2>2. CASE q # r
    BY <1>1, <1>2, <1>4, <2>2 DEF Typing, TypeOK, Lifecycle, CurrentRadioAgrees
  <2>. QED
    BY <2>1, <2>2
<1>7. Unregistered'
  <2>1. \A u \in Targets \ {t} : life[u] = "absent" /\ radioRec[u] = None => life'[u] = "absent"
    BY <1>2, <1>4, SentinelsAssumption DEF Radios
  <2>. QED
    BY <1>1, <2>1, ZenonT(40) DEF Lifecycle, Unregistered, Typing, TypeOK, Plan
<1>. QED
  BY <1>6, <1>7 DEF Lifecycle

\* Every step of the service keeps the life-cycle layer.
LEMMA LifecycleNext == ASSUME Typing, Control, Lifecycle, [Next]_vars PROVE Lifecycle'
<1>1. CASE UNCHANGED vars \/ MasterStep
  BY <1>1, LifecycleKept
  DEF vars, MasterStep, EditWav, RegisterMaster, SelectMaster, select, radio
<1>2. ASSUME NEW w \in Workers, NEW t \in Targets, GenStart(w, t) PROVE Lifecycle'
  BY <1>2, LifecycleKept DEF GenStart, select, radio
<1>3. ASSUME NEW w \in Workers, Crash(w) PROVE Lifecycle'
  BY <1>3, LifecycleKept DEF Crash, select, radio
<1>. QED
  BY <1>1, <1>2, <1>3, LifecyclePlanStep, LifecycleGenStep, LifecycleActivate DEF Next

-----------------------------------------------------------------------------
(* Fourth layer, provenance: from the registered hash to the file.         *)

\* The master of a stored row, and every selected master, stays registered.
LEMMA MastersRegisteredNext ==
  ASSUME Typing, Control, MastersRegistered, [Next]_vars PROVE MastersRegistered'
<1>. USE DEF Typing, TypeOK, LocalOK, MastersRegistered, master, select, radio, bounds, local, disk
<1>1. ASSUME NEW m \in Masters, EditWav(m) PROVE MastersRegistered'
  BY <1>1 DEF EditWav
<1>2. ASSUME NEW m \in Masters, NEW r \in Recordings, NEW v \in 0..MaxVersion, RegisterMaster(m, r, v)
      PROVE MastersRegistered'
  <2>1. r # None /\ masterRec[m] = None
    BY <1>2, SentinelsAssumption DEF RegisterMaster
  <2>. QED
    BY <1>2, <2>1, BoundsAssumption DEF RegisterMaster, PlanHasMaster
<1>3. ASSUME NEW m \in Masters, NEW r \in Recordings, SelectMaster(r, m) PROVE MastersRegistered'
  BY <1>3, SentinelsAssumption DEF SelectMaster
<1>4. ASSUME NEW w \in Workers, NEW t \in Targets, PlanPreview(w, t) PROVE MastersRegistered'
  <2>1. form'[w].master = selMaster[TargetRec[t]] /\ \A v \in Workers \ {w} : form'[v] = form[v]
    BY <1>4 DEF PlanPreview
  <2>. QED
    BY <1>4, <2>1, RadiosAssumption DEF PlanPreview
<1>5. ASSUME NEW w \in Workers, PlanSave(w) PROVE MastersRegistered'
  <2>1. masterRec[form[w].master] # None
    BY <1>5 DEF PlanSave
  <2>2. \A t \in Targets : plan'[t] = plan[t] \/ plan'[t].master = form[w].master
    BY <1>5 DEF PlanSave
  <2>3. \A v \in Workers : pc'[v] = "previewed" => pc[v] = "previewed" /\ form'[v] = form[v]
    BY <1>5 DEF PlanSave
  <2>. QED
    BY <1>5, <2>1, <2>2, <2>3 DEF PlanSave
<1>6. ASSUME NEW w \in Workers, PlanDiscard(w) PROVE MastersRegistered'
  BY <1>6 DEF PlanDiscard, NoPlan
<1>7. ASSUME NEW w \in Workers, NEW t \in Targets, GenStart(w, t) PROVE MastersRegistered'
  BY <1>7 DEF GenStart, Move
<1>8. ASSUME NEW w \in Workers, GenStep(w) PROVE MastersRegistered'
  <2>1. UNCHANGED <<wav, masterRec, masterSha, selMaster, form>>
    BY <1>8 DEF GenStep, GenClaim, GenEncode, GenCompare, GenRehash, GenPlace, GenRegister, GenRaise,
                GenRegisterRaises, GenRegisterRaisesLate, GenRecordFailure
  <2>2. \A v \in Workers : pc'[v] = "previewed" => pc[v] = "previewed"
    BY <1>8 DEF GenStep, GenClaim, GenEncode, GenCompare, GenRehash, GenPlace, GenRegister, GenRaise,
                GenRegisterRaises, GenRegisterRaisesLate, GenRecordFailure, Move
  <2>3. \A t \in Targets : plan'[t].status # "absent" =>
           plan[t].status # "absent" /\ plan'[t].master = plan[t].master
    <3>1. CASE plan' = plan
      BY <3>1
    <3>2. ASSUME NEW s \in PlanStatus, plan[work[w].target].status # "absent",
                 plan' = [plan EXCEPT ![work[w].target].status = s]
          PROVE  \A t \in Targets : plan'[t].status # "absent" =>
                   plan[t].status # "absent" /\ plan'[t].master = plan[t].master
      BY <3>2 DEF Plan
    <3>3. plan' = plan \/ \E s \in PlanStatus :
            /\ plan[work[w].target].status # "absent"
            /\ plan' = [plan EXCEPT ![work[w].target].status = s]
      <4>1. pc[w] \in Claimed => plan[work[w].target].status # "absent"
        BY DEF Control, ClaimIsExclusive
      <4>2. CASE GenClaim(w)
        BY <4>2 DEF GenClaim, Claimable, PlanStatus
      <4>3. CASE GenRegister(w) \/ GenRecordFailure(w)
        BY <4>1, <4>3 DEF GenRegister, GenRecordFailure, MarkedVerified, MarkedFailed, Move, Claimed,
                          PlanStatus
      <4>4. CASE ~GenClaim(w) /\ ~GenRegister(w) /\ ~GenRecordFailure(w)
        BY <1>8, <4>4 DEF GenStep, GenEncode, GenCompare, GenRehash, GenPlace, GenRaise,
                          GenRegisterRaises, GenRegisterRaisesLate
      <4>. QED
        BY <4>2, <4>3, <4>4
    <3>. QED
      BY <3>1, <3>2, <3>3
  <2>. QED
    BY <2>1, <2>2, <2>3
<1>9. ASSUME NEW w \in Workers, Crash(w) PROVE MastersRegistered'
  BY <1>9 DEF Crash
<1>10. ASSUME NEW t \in Targets, Activate(t) PROVE MastersRegistered'
  BY <1>10 DEF Activate, Activatable, Plan
<1>11. CASE UNCHANGED vars
  BY <1>11 DEF vars
<1>. QED
  BY <1>1, <1>2, <1>3, <1>4, <1>5, <1>6, <1>7, <1>8, <1>9, <1>10, <1>11
  DEF Next, MasterStep, PlanStep

\* What the service never changes: the master of a row that was claimed, the hash
\* of a registered master; and a WAV only moves on.
LEMMA Fixed ==
  ASSUME Typing, Control, [Next]_vars
  PROVE  /\ \A t \in Targets : plan[t].status \notin {"absent", "planned"} =>
              plan'[t].master = plan[t].master
         /\ \A m \in Masters : masterRec[m] # None => masterSha'[m] = masterSha[m]
         /\ \A m \in Masters : wav[m] <= wav'[m]
<1>. USE DEF Typing, TypeOK, LocalOK
<1>1. \A t \in Targets : plan[t].status \notin {"absent", "planned"} => plan'[t].master = plan[t].master
  <2>1. CASE UNCHANGED plan
    BY <2>1
  <2>2. ASSUME NEW w \in Workers, PlanSave(w)
        PROVE  \A t \in Targets : plan[t].status # "absent" => plan'[t] = plan[t]
    BY <2>2 DEF PlanSave
  <2>3. ASSUME NEW w \in Workers, PlanDiscard(w)
        PROVE  \A t \in Targets : plan[t].status \notin {"absent", "planned"} => plan'[t] = plan[t]
    BY <2>3 DEF PlanDiscard, Control, ForeignIsIdle, DiscardsForeign
  <2>4. ASSUME NEW w \in Workers, GenClaim(w) \/ GenRegister(w) \/ GenRecordFailure(w)
        PROVE  \A t \in Targets : plan'[t].master = plan[t].master
    BY <2>4 DEF GenClaim, GenRegister, GenRecordFailure, MarkedVerified, MarkedFailed, Plan
  <2>5. ASSUME NEW u \in Targets, Activate(u)
        PROVE  \A t \in Targets : plan'[t].master = plan[t].master
    BY <2>5 DEF Activate, Plan
  <2>. QED
    BY <2>1, <2>2, <2>3, <2>4, <2>5
    DEF vars, Next, MasterStep, PlanStep, GenStep, EditWav, RegisterMaster, SelectMaster, PlanPreview,
        GenStart, GenEncode, GenCompare, GenRehash, GenPlace, GenRaise, GenRegisterRaises,
        GenRegisterRaisesLate, Crash
<1>2. CASE UNCHANGED <<wav, master>>
  BY <1>1, <1>2 DEF master
<1>3. ASSUME NEW m \in Masters, EditWav(m)
      PROVE  masterSha' = masterSha /\ \A k \in Masters : wav[k] <= wav'[k]
  BY <1>3 DEF EditWav, master
<1>4. ASSUME NEW m \in Masters, NEW r \in Recordings, NEW v \in 0..MaxVersion, RegisterMaster(m, r, v)
      PROVE  wav' = wav /\ \A k \in Masters : masterRec[k] # None => masterSha'[k] = masterSha[k]
  BY <1>4 DEF RegisterMaster, disk
<1>5. ASSUME NEW w \in Workers, PlanStep(w) \/ GenStep(w) \/ Crash(w) \/ \E t \in Targets : GenStart(w, t)
      PROVE  UNCHANGED <<wav, master>>
  <2>1. CASE PlanStep(w) \/ Crash(w) \/ \E t \in Targets : GenStart(w, t)
    BY <2>1 DEF PlanStep, PlanPreview, PlanSave, PlanDiscard, Crash, GenStart, disk
  <2>2. CASE GenStep(w)
    BY <2>2 DEF GenStep, GenClaim, GenEncode, GenCompare, GenRehash, GenPlace, GenRegister, GenRaise,
                GenRegisterRaises, GenRegisterRaisesLate, GenRecordFailure, disk
  <2>. QED
    BY <1>5, <2>1, <2>2
<1>6. ASSUME NEW t \in Targets, Activate(t) PROVE UNCHANGED <<wav, master>>
  BY <1>6 DEF Activate, disk
<1>7. CASE UNCHANGED vars
  BY <1>2, <1>7 DEF vars, master
<1>8. ASSUME NEW m \in Masters, NEW r \in Recordings, SelectMaster(r, m) PROVE UNCHANGED <<wav, master>>
  BY <1>8 DEF SelectMaster, disk
<1>9. CASE MasterStep
  BY <1>1, <1>2, <1>3, <1>4, <1>8, <1>9 DEF MasterStep
<1>. QED
  BY <1>2, <1>5, <1>6, <1>7, <1>9 DEF Next

\* A worker that does not move keeps its audio: the step of nobody else touches
\* its row's master or its target.
LEMMA AudioKept ==
  ASSUME Typing, Control, MastersRegistered, AudioOfMaster, [Next]_vars,
         NEW v \in Workers, pc'[v] = pc[v], work'[v] = work[v],
         pc[v] = "placed" => file'[work[v].target] = file[work[v].target]
  PROVE  AudioAgrees(v)'
<1>. DEFINE t == work[v].target
            m == plan[t].master
<1>1. CASE pc[v] \in Claimed
  <2>1. t \in Targets /\ plan[t].status = "generating" /\ m \in Masters /\ masterRec[m] # None
    BY <1>1 DEF Typing, LocalOK, PlanHasMaster, Control, ClaimIsExclusive, MastersRegistered
  <2>2. plan'[t].master = m /\ masterSha'[m] = masterSha[m] /\ wav[m] <= wav'[m]
    BY <2>1, Fixed
  <2>3. wav[m] \in Nat /\ wav'[m] \in Nat /\ masterSha[m] \in Nat
    BY <2>1, TypingNext DEF Typing, TypeOK
  <2>. HIDE DEF m
  <2>4. pc[v] \in {"encoded", "compared"} =>
          \E n \in Nat : work[v].audio = <<m, n>> /\ masterSha[m] <= n /\ n <= wav'[m]
    BY <2>2, <2>3 DEF AudioOfMaster, AudioAgrees, m
  <2>5. pc[v] = "rehashed" => work[v].audio = <<m, masterSha[m]>>
    BY DEF AudioOfMaster, AudioAgrees, m
  <2>6. pc[v] = "placed" => file'[t] = <<m, masterSha[m]>>
    BY DEF AudioOfMaster, AudioAgrees, m
  <2>. QED
    BY <2>2, <2>4, <2>5, <2>6 DEF AudioAgrees
<1>2. CASE pc[v] \notin Claimed
  BY <1>2 DEF AudioAgrees, Claimed
<1>. QED
  BY <1>1, <1>2

\* Every step keeps what a worker has encoded the audio of its row's master.
LEMMA AudioOfMasterNext ==
  ASSUME Typing, Control, MastersRegistered, AudioOfMaster, [Next]_vars PROVE AudioOfMaster'
<1>. SUFFICES ASSUME NEW v \in Workers PROVE AudioAgrees(v)'
  BY DEF AudioOfMaster
<1>. USE DEF Typing, TypeOK, LocalOK, Move
<1>1. CASE UNCHANGED <<file, pc, work>>
  BY <1>1, AudioKept
<1>2. ASSUME NEW w \in Workers, PlanStep(w) PROVE AudioAgrees(v)'
  <2>1. pc'[v] = pc[v] \/ pc'[v] \in {"idle", "previewed", "discarding"}
    BY <1>2 DEF PlanStep, PlanPreview, PlanSave, PlanDiscard
  <2>2. UNCHANGED <<file, work>>
    BY <1>2 DEF PlanStep, PlanPreview, PlanSave, PlanDiscard, disk
  <2>. QED
    BY <2>1, <2>2, AudioKept DEF AudioAgrees
<1>3. ASSUME NEW w \in Workers, NEW t \in Targets, GenStart(w, t) PROVE AudioAgrees(v)'
  <2>1. (pc'[v] = pc[v] /\ work'[v] = work[v]) \/ pc'[v] = "checked"
    BY <1>3 DEF GenStart
  <2>. QED
    BY <1>3, <2>1, AudioKept DEF AudioAgrees, GenStart, disk
<1>4. ASSUME NEW w \in Workers, Crash(w) PROVE AudioAgrees(v)'
  <2>1. (pc'[v] = pc[v] /\ work'[v] = work[v]) \/ pc'[v] = "idle"
    BY <1>4 DEF Crash
  <2>. QED
    BY <1>4, <2>1, AudioKept DEF AudioAgrees, Crash, disk
<1>5. ASSUME NEW w \in Workers, GenStep(w) PROVE AudioAgrees(v)'
  <2>1. CASE v # w
    <3>1. pc'[v] = pc[v] /\ work'[v] = work[v]
      BY <1>5, <2>1
      DEF GenStep, GenClaim, GenEncode, GenCompare, GenRehash, GenPlace, GenRegister, GenRaise,
          GenRegisterRaises, GenRegisterRaisesLate, GenRecordFailure
    <3>2. pc[v] = "placed" => file'[work[v].target] = file[work[v].target]
      <4>1. \A t \in Targets : file'[t] # file[t] => pc[w] \in Claimed /\ work[w].target = t
        BY <1>5
        DEF GenStep, GenClaim, GenEncode, GenCompare, GenRehash, GenPlace, GenRegister, GenRaise,
            GenRegisterRaises, GenRegisterRaisesLate, GenRecordFailure, disk, Claimed
      <4>. QED
        BY <2>1, <4>1 DEF Control, ClaimIsExclusive, Claimed
    <3>. QED
      BY <3>1, <3>2, AudioKept
  <2>2. CASE v = w
    <3>. DEFINE t == work[w].target
                m == plan[t].master
    <3>0. pc[w] \in Claimed => /\ t \in Targets /\ m \in Masters /\ masterRec[m] # None
                               /\ wav[m] \in Nat /\ masterSha[m] \in Nat /\ masterSha[m] <= wav[m]
      BY DEF Control, ClaimIsExclusive, PlanHasMaster, MastersRegistered, Claimed
    <3>1. CASE GenEncode(w)
      <4>1. /\ pc'[w] = "encoded" /\ work' = [work EXCEPT ![w].audio = <<m, wav[m]>>]
            /\ UNCHANGED <<plan, wav, masterSha>> /\ pc[w] \in Claimed
        BY <3>1 DEF GenEncode, disk, master, Claimed
      <4>2. work'[w].target = t /\ work'[w].audio = <<m, wav[m]>>
        BY <4>1 DEF Work
      <4>. HIDE DEF t, m
      <4>. QED
        BY <2>2, <3>0, <4>1, <4>2 DEF AudioAgrees, t, m
    <3>2. CASE GenCompare(w)
      <4>1. pc'[w] = "compared" /\ pc[w] = "encoded" /\ UNCHANGED <<plan, wav, masterSha, work, file>>
        BY <3>2 DEF GenCompare, disk, master
      <4>. QED
        BY <2>2, <4>1 DEF AudioOfMaster, AudioAgrees
    <3>3. CASE GenRehash(w)
      <4>1. /\ pc'[w] = "rehashed" /\ pc[w] = "compared" /\ wav[m] = masterSha[m]
            /\ UNCHANGED <<plan, wav, masterSha, work, file>>
        BY <3>3 DEF GenRehash, MasterUnchanged, disk, master
      <4>2. PICK n \in Nat : work[w].audio = <<m, n>> /\ masterSha[m] <= n /\ n <= wav[m]
        BY <4>1 DEF AudioOfMaster, AudioAgrees
      <4>. HIDE DEF m
      <4>3. n = masterSha[m]
        BY <3>0, <4>1, <4>2 DEF Claimed
      <4>. QED
        BY <2>2, <4>1, <4>2, <4>3 DEF AudioAgrees, m
    <3>4. CASE GenPlace(w)
      <4>1. /\ pc'[w] = "placed" /\ pc[w] = "rehashed" /\ file' = [file EXCEPT ![t] = work[w].audio]
            /\ UNCHANGED <<plan, masterSha, work>>
        BY <3>4 DEF GenPlace, master
      <4>2. file'[t] = <<m, masterSha[m]>>
        BY <3>0, <4>1 DEF AudioOfMaster, AudioAgrees, Claimed
      <4>. QED
        BY <2>2, <4>1, <4>2 DEF AudioAgrees
    <3>5. CASE ~GenEncode(w) /\ ~GenCompare(w) /\ ~GenRehash(w) /\ ~GenPlace(w)
      <4>1. pc'[w] \in {"idle", "claimed", "failing"}
        BY <1>5, <3>5
        DEF GenStep, GenClaim, GenRegister, GenRaise, GenRegisterRaises, GenRegisterRaisesLate,
            GenRecordFailure
      <4>. QED
        BY <2>2, <4>1 DEF AudioAgrees
    <3>. QED
      BY <3>1, <3>2, <3>3, <3>4, <3>5
  <2>. QED
    BY <2>1, <2>2
<1>. QED
  BY <1>1, <1>2, <1>3, <1>4, <1>5
  DEF vars, Next, MasterStep, EditWav, RegisterMaster, SelectMaster, Activate, disk, local

\* What is at a target changes only through the worker that has claimed its row.
LEMMA FileChanges ==
  ASSUME Typing, [Next]_vars, NEW t \in Targets, file'[t] # file[t]
  PROVE  \E w \in Workers :
           /\ work[w].target = t
           /\ GenPlace(w) \/ GenRegisterRaises(w) \/ GenRegisterRaisesLate(w)
<1>1. PICK w \in Workers : GenPlace(w) \/ GenRegisterRaises(w) \/ GenRegisterRaisesLate(w)
  BY DEF vars, Next, MasterStep, PlanStep, GenStep, EditWav, RegisterMaster, SelectMaster, PlanPreview,
         PlanSave, PlanDiscard, GenStart, GenClaim, GenEncode, GenCompare, GenRehash, GenRegister,
         GenRaise, GenRecordFailure, Crash, Activate, disk
<1>. QED
  BY <1>1 DEF GenPlace, GenRegisterRaises, GenRegisterRaisesLate, Typing, TypeOK

\* Every step keeps the candidate of a verified row registered, derived and on disk.
LEMMA VerifiedCandidateNext ==
  ASSUME Typing, Control, Lifecycle, Provenance, [Next]_vars PROVE VerifiedCandidate'
<1>. USE DEF Typing, TypeOK
<1>. SUFFICES ASSUME NEW t \in Targets, plan'[t].status \in {"verified", "activated"}
              PROVE  /\ life'[t] # "absent"
                     /\ lineage'[t] = plan'[t].master
                     /\ file'[t] = <<plan'[t].master, masterSha'[plan'[t].master]>>
  BY DEF VerifiedCandidate
<1>0. t \in Radios
  BY DEF Radios
<1>1. ASSUME NEW w \in Workers, GenRegister(w), work[w].target = t
      PROVE  /\ life'[t] # "absent"
             /\ lineage'[t] = plan'[t].master
             /\ file'[t] = <<plan'[t].master, masterSha'[plan'[t].master]>>
  <2>1. pc[w] = "placed" /\ plan'[t].master = plan[t].master
    BY <1>1 DEF GenRegister, Move, MarkedVerified, Plan
  <2>2. file[t] = <<plan[t].master, masterSha[plan[t].master]>>
    BY <1>1, <2>1 DEF Provenance, AudioOfMaster, AudioAgrees
  <2>. QED
    BY <1>0, <1>1, <2>1, <2>2 DEF GenRegister, AsCandidate, disk, master
<1>2. ASSUME plan[t].status \in {"verified", "activated"}
      PROVE  /\ life'[t] # "absent"
             /\ lineage'[t] = plan'[t].master
             /\ file'[t] = <<plan'[t].master, masterSha'[plan'[t].master]>>
  <2>. DEFINE m == plan[t].master
  <2>1. m \in Masters /\ masterRec[m] # None
    BY <1>2 DEF PlanHasMaster, Provenance, MastersRegistered
  <2>2. plan'[t].master = m /\ masterSha'[m] = masterSha[m]
    BY <1>2, <2>1, Fixed
  <2>3. ~ \E w \in Workers : pc[w] \in Claimed /\ work[w].target = t
    BY <1>2 DEF Control, ClaimIsExclusive
  <2>4. file'[t] = file[t]
    BY <2>3, FileChanges DEF GenPlace, GenRegisterRaises, GenRegisterRaisesLate, Move, Claimed
  <2>5. life[t] # "absent" /\ lineage[t] = m /\ file[t] = <<m, masterSha[m]>>
    BY <1>2 DEF Provenance, VerifiedCandidate
  <2>6. life'[t] # "absent" /\ lineage'[t] = lineage[t]
    <3>1. ASSUME NEW w \in Workers, GenRegister(w) PROVE life'[t] = life[t] /\ lineage'[t] = lineage[t]
      BY <1>0, <2>3, <3>1 DEF GenRegister, AsCandidate, Move, Claimed
    <3>2. ASSUME NEW u \in Targets, Activate(u) PROVE life'[t] # "absent" /\ lineage'[t] = lineage[t]
      BY <1>0, <2>5, <3>2 DEF Activate
    <3>. QED
      BY <2>5, <3>1, <3>2
      DEF vars, Next, MasterStep, PlanStep, GenStep, EditWav, RegisterMaster, SelectMaster, PlanPreview,
          PlanSave, PlanDiscard, GenStart, GenClaim, GenEncode, GenCompare, GenRehash, GenPlace,
          GenRaise, GenRegisterRaises, GenRegisterRaisesLate, GenRecordFailure, Crash, radio
  <2>. HIDE DEF m
  <2>. QED
    BY <2>2, <2>4, <2>5, <2>6
<1>3. plan[t].status \in {"verified", "activated"}
      \/ \E w \in Workers : GenRegister(w) /\ work[w].target = t
  <2>1. ASSUME plan'[t].status # plan[t].status, NEW w \in Workers, PlanStep(w) PROVE FALSE
    <3>1. plan'[t].status \in {"absent", "planned"}
      BY <2>1 DEF PlanStep, PlanPreview, PlanSave, PlanDiscard, NoPlan
    <3>. QED
      BY <3>1
  <2>2. ASSUME plan'[t].status # plan[t].status, NEW w \in Workers, GenStep(w)
        PROVE  GenRegister(w) /\ work[w].target = t
    BY <2>2
    DEF GenStep, GenClaim, GenEncode, GenCompare, GenRehash, GenPlace, GenRegister, GenRaise,
        GenRegisterRaises, GenRegisterRaisesLate, GenRecordFailure, MarkedVerified, MarkedFailed, Plan
  <2>3. ASSUME plan'[t].status # plan[t].status, NEW u \in Targets, Activate(u)
        PROVE  plan[t].status = "verified"
    BY <2>3 DEF Activate, Activatable, Plan
  <2>. QED
    BY <2>1, <2>2, <2>3
    DEF vars, Next, MasterStep, EditWav, RegisterMaster, SelectMaster, GenStart, Crash
<1>. QED
  BY <1>1, <1>2, <1>3

-----------------------------------------------------------------------------
(* The invariant, and what follows from it.                                *)

\* The archive before phase 4.5A satisfies the inductive invariant.
LEMMA IInvInit == Init => IInv
<1>. SUFFICES ASSUME Init PROVE IInv
  OBVIOUS
<1>1. Typing
  BY SentinelsAssumption, RadiosAssumption
  DEF Init, Typing, TypeOK, LocalOK, PlanHasMaster, Plan, Form, Work, NoPlan, NoForm, NoWork,
      LifecycleStatus, PlanStatus, Steps, Claimed, Radios
<1>2. Control
  BY DEF Init, Control, ClaimIsExclusive, ForeignIsIdle, TargetEmpty, DiscardsForeign, Claimed, NoPlan
<1>3. Lifecycle
  BY SentinelsAssumption, RadiosAssumption
  DEF Init, Lifecycle, Unregistered, CurrentRadioAgrees, Radios
<1>4. Provenance
  BY DEF Init, Provenance, MastersRegistered, AudioOfMaster, AudioAgrees, VerifiedCandidate, NoPlan
<1>. QED
  BY <1>1, <1>2, <1>3, <1>4 DEF IInv

\* Every step keeps the inductive invariant.
LEMMA IInvNext == IInv /\ [Next]_vars => IInv'
<1>. SUFFICES ASSUME Typing, Control, Lifecycle, Provenance, [Next]_vars PROVE IInv'
  BY DEF IInv
<1>1. MastersRegistered' /\ AudioOfMaster'
  BY MastersRegisteredNext, AudioOfMasterNext DEF Provenance
<1>. QED
  BY <1>1, TypingNext, ControlNext, LifecycleNext, VerifiedCandidateNext DEF IInv, Provenance

\* The inductive invariant holds in every reachable state of the service, for any
\* number of recordings, masters, files and workers, and any bounds.
THEOREM Inductive == Spec => []IInv
  BY IInvInit, IInvNext, PTL DEF Spec

\* Every reachable state of the service has the declared types.
THEOREM TypeCorrect == Spec => []TypeOK
<1>1. IInv => TypeOK
  BY DEF IInv, Typing
<1>. QED
  BY <1>1, Inductive, PTL

\* generate_candidate: however many workers run the same rows, one of them at
\* most is past the claim of a row, and the row says GENERATING until it is done.
THEOREM ExclusiveClaim == Spec => []ClaimIsExclusive
<1>1. IInv => ClaimIsExclusive
  BY DEF IInv, Control
<1>. QED
  BY <1>1, Inductive, PTL

\* activate_candidate: the recording's explicit choice is the one CURRENT file
\* it has, and no other file is CURRENT.
THEOREM CurrentAgrees == Spec => []CurrentRadioAgrees
<1>1. IInv => CurrentRadioAgrees
  BY DEF IInv, Lifecycle
<1>. QED
  BY <1>1, Inductive, PTL

\* generate_candidate: a verified row has its candidate on disk with the audio
\* that was registered for the master, whenever the WAV is edited.
THEOREM VerifiedHasCandidate == Spec => []VerifiedCandidate
<1>1. IInv => VerifiedCandidate
  BY DEF IInv, Provenance
<1>. QED
  BY <1>1, Inductive, PTL

\* os.replace never meets a file: an existing file is never overwritten, and only
\* a file without a registration is removed.
THEOREM NothingOverwritten == Spec => NeverOverwritten
<1>1. ASSUME IInv, [Next]_vars
      PROVE  [\A t \in Targets : file[t] # NoFile /\ file'[t] # file[t] =>
                file'[t] = NoFile /\ life[t] = "absent"]_vars
  <2>. SUFFICES ASSUME NEW t \in Targets, file[t] # NoFile, file'[t] # file[t]
                PROVE  file'[t] = NoFile /\ life[t] = "absent"
    OBVIOUS
  <2>1. PICK w \in Workers :
          /\ work[w].target = t
          /\ GenPlace(w) \/ GenRegisterRaises(w) \/ GenRegisterRaisesLate(w)
    BY <1>1, FileChanges DEF IInv
  <2>2. plan[t].status = "generating"
    BY <1>1, <2>1
    DEF IInv, Control, ClaimIsExclusive, GenPlace, GenRegisterRaises, GenRegisterRaisesLate, Move, Claimed
  <2>3. ~ GenPlace(w)
    BY <1>1, <2>1 DEF IInv, Control, TargetEmpty, GenPlace, Move, Claimed
  <2>4. file'[t] = NoFile
    BY <1>1, <2>1, <2>3 DEF IInv, Typing, TypeOK, GenRegisterRaises, GenRegisterRaisesLate
  <2>. QED
    BY <1>1, <2>2, <2>4 DEF IInv, Lifecycle, Unregistered
<1>. QED
  BY <1>1, Inductive, PTL DEF Spec, NeverOverwritten

-----------------------------------------------------------------------------
(* What is played.                                                         *)

\* Registering a candidate changes nothing that is played: it was no file before, and
\* a candidate does not compete.
LEMMA RegisterUnheard ==
  ASSUME Typing, Control, Lifecycle, NEW w \in Workers, GenRegister(w), NEW r \in Recordings
  PROVE  Playable(r)' = Playable(r)
<1>. PICK t : t = work[w].target
  OBVIOUS
<1>1. t \in Targets /\ t \in Radios /\ plan[t].status = "generating"
  BY DEF GenRegister, Move, Claimed, Typing, LocalOK, Control, ClaimIsExclusive, Radios
<1>2. life[t] = "absent"
  BY <1>1 DEF Lifecycle, Unregistered
<1>3. life' = [life EXCEPT ![t] = "candidate"] /\ curRadio' = curRadio
      /\ radioRec' = [radioRec EXCEPT ![t] = TargetRec[t]]
  BY DEF GenRegister, AsCandidate, select
<1>4. Fallback(r)' = Fallback(r)
  BY <1>1, <1>2, <1>3 DEF Fallback, Typing, TypeOK
<1>. QED
  BY <1>3, <1>4 DEF Playable

\* An activation makes its candidate the one file that is played of its recording, and
\* takes only files of that recording out of use.
LEMMA ActivateMoves ==
  ASSUME Typing, Lifecycle, NEW t \in Targets, Activate(t), NEW r \in Recordings
  PROVE  /\ plan[t].status = "verified" /\ plan'[t].status = "activated"
         /\ IF r = TargetRec[t] THEN Playable(r)' = {t} ELSE Playable(r)' = Playable(r)
<1>. USE DEF Typing, TypeOK
<1>. PICK q \in Recordings : q = TargetRec[t]
  BY RadiosAssumption
<1>. PICK others \in SUBSET Radios : others = Superseded(t)
  BY DEF Superseded
<1>1. /\ plan[t].status = "verified" /\ radioRec[t] = q
      /\ life' = [a \in Radios |-> IF a = t THEN "current"
                                   ELSE IF a \in others THEN "historical" ELSE life[a]]
      /\ curRadio' = [curRadio EXCEPT ![q] = t] /\ radioRec' = radioRec
      /\ plan' = [plan EXCEPT ![t].status = "activated"]
  BY DEF Activate, Activatable
<1>2. t \in Radios /\ t # None
  BY SentinelsAssumption DEF Radios
<1>3. \A a \in others : radioRec[a] = q
  BY DEF Superseded, Lifecycle, CurrentRadioAgrees
<1>4. CASE r = q
  BY <1>1, <1>2, <1>4 DEF Playable, Plan
<1>5. CASE r # q
  <2>1. Fallback(r)' = Fallback(r)
    BY <1>1, <1>3, <1>5 DEF Fallback
  <2>. QED
    BY <1>1, <1>5, <2>1 DEF Playable, Plan
<1>. QED
  BY <1>4, <1>5

\* What a recording plays changes only when one of its candidates is activated, for any
\* number of workers, files and recordings (resolve_current_radio_asset under
\* generate_candidate, select_master and activate_candidate).
THEOREM PlaybackMoves == Spec => PlaybackMovesOnActivation
<1>1. ASSUME IInv, [Next]_vars
      PROVE  [\A r \in Recordings : Playable(r)' # Playable(r) =>
                \E t \in Targets : /\ plan[t].status = "verified" /\ plan'[t].status = "activated"
                                   /\ Playable(r)' = {t}]_vars
  <2>. SUFFICES ASSUME NEW r \in Recordings, Playable(r)' # Playable(r)
                PROVE  \E t \in Targets : /\ plan[t].status = "verified"
                                          /\ plan'[t].status = "activated" /\ Playable(r)' = {t}
    OBVIOUS
  <2>1. ~ UNCHANGED <<curRadio, life, radioRec>>
    BY DEF Playable, Fallback
  <2>2. (\E w \in Workers : GenRegister(w)) \/ (\E t \in Targets : Activate(t))
    BY <1>1, <2>1
    DEF vars, Next, MasterStep, PlanStep, GenStep, EditWav, RegisterMaster, SelectMaster, PlanPreview,
        PlanSave, PlanDiscard, GenStart, GenClaim, GenEncode, GenCompare, GenRehash, GenPlace, GenRaise,
        GenRegisterRaises, GenRegisterRaisesLate, GenRecordFailure, Crash, select, radio
  <2>3. ASSUME NEW w \in Workers, GenRegister(w) PROVE FALSE
    BY <1>1, <2>3, RegisterUnheard DEF IInv
  <2>4. PICK t \in Targets : Activate(t)
    BY <2>2, <2>3
  <2>. QED
    BY <1>1, <2>4, ActivateMoves DEF IInv
<1>. QED
  BY <1>1, Inductive, PTL DEF Spec, PlaybackMovesOnActivation

-----------------------------------------------------------------------------
(* The detailed service implements RadioOnAir.                             *)

\* What leaves selections, life cycles and lineage alone is a stutter on the air.
LEMMA OnAirKept ==
  ASSUME UNCHANGED <<selMaster, curRadio, life, lineage>> PROVE UNCHANGED OnAir!vars
  BY DEF OnAir!vars

\* An activation is PutOnAir: the candidate was made from the master selected
\* now, was never current or historical, and what it replaces is its recording's.
LEMMA ActivatePutsOnAir ==
  ASSUME Typing, Lifecycle, VerifiedCandidate, NEW t \in Targets, Activate(t)
  PROVE  OnAir!Next
<1>. USE DEF Typing, TypeOK
<1>. PICK r \in Recordings : r = TargetRec[t]
  BY RadiosAssumption
<1>. PICK others \in SUBSET Radios : others = Superseded(t)
  BY DEF Superseded
<1>1. /\ plan[t].status = "verified" /\ radioRec[t] = r /\ life[t] = "candidate"
      /\ selMaster[r] = plan[t].master
      /\ life' = [a \in Radios |-> IF a = t THEN "current"
                                   ELSE IF a \in others THEN "historical" ELSE life[a]]
      /\ curRadio' = [curRadio EXCEPT ![r] = t]
      /\ UNCHANGED <<selMaster, lineage>>
  BY DEF Activate, Activatable
<1>2. t \in Radios /\ plan[t].master # None /\ lineage[t] = plan[t].master
  BY <1>1, SentinelsAssumption DEF Radios, PlanHasMaster, VerifiedCandidate
<1>3. \A q \in Recordings : curRadio[q] # t
  BY <1>1, <1>2 DEF Lifecycle, CurrentRadioAgrees
<1>4. /\ t \notin others
      /\ \A a \in others : radioRec[a] = r
      /\ curRadio[r] # None => curRadio[r] \in others
  BY <1>2, <1>3 DEF Superseded, Lifecycle, CurrentRadioAgrees
<1>5. \A q \in Recordings \ {r} : curRadio[q] \notin others
  BY <1>4 DEF Lifecycle, CurrentRadioAgrees
<1>6. {a \in Radios : life'[a] = "historical"} = {a \in Radios : life[a] = "historical"} \cup others
  BY <1>1, <1>4
<1>7. OnAir!PutOnAir(r, t, others)
  BY <1>1, <1>2, <1>3, <1>4, <1>5, <1>6 DEF OnAir!PutOnAir
<1>. QED
  BY <1>2, <1>7 DEF OnAir!Next

\* Registering a candidate makes a radio file from the planned master.
LEMMA RegisterMakes ==
  ASSUME Typing, Control, Lifecycle, NEW w \in Workers, GenRegister(w) PROVE OnAir!Next
<1>. DEFINE t == work[w].target
            m == plan[t].master
<1>1. t \in Targets /\ t \in Radios /\ plan[t].status = "generating"
  BY DEF GenRegister, Move, Claimed, Typing, LocalOK, Control, ClaimIsExclusive, Radios
<1>2. m \in Masters /\ life[t] = "absent" /\ lineage[t] = None
  BY <1>1 DEF Typing, PlanHasMaster, Lifecycle, Unregistered
<1>3. life' = [life EXCEPT ![t] = "candidate"] /\ lineage' = [lineage EXCEPT ![t] = m]
      /\ UNCHANGED <<selMaster, curRadio>>
  BY DEF GenRegister, AsCandidate, select
<1>4. {a \in Radios : life'[a] = "historical"} = {a \in Radios : life[a] = "historical"}
  BY <1>1, <1>2, <1>3 DEF Typing, TypeOK
<1>5. OnAir!Make(t, m)
  BY <1>2, <1>3, <1>4 DEF OnAir!Make
<1>. QED
  BY <1>1, <1>2, <1>5 DEF OnAir!Next

\* Every step of the service is a step or a stutter of the promise.
LEMMA OnAirNext == ASSUME IInv, [Next]_vars PROVE [OnAir!Next]_(OnAir!vars)
<1>. USE DEF IInv
<1>1. ASSUME NEW m \in Masters, NEW r \in Recordings, SelectMaster(r, m) PROVE OnAir!Next
  <2>1. OnAir!Choose(r, m)
    BY <1>1 DEF SelectMaster, OnAir!Choose, radio
  <2>. QED
    BY <2>1 DEF OnAir!Next
<1>2. ASSUME NEW w \in Workers, GenStep(w) PROVE OnAir!Next \/ UNCHANGED OnAir!vars
  BY <1>2, RegisterMakes, OnAirKept
  DEF GenStep, GenClaim, GenEncode, GenCompare, GenRehash, GenPlace, GenRaise, GenRegisterRaises,
      GenRegisterRaisesLate, GenRecordFailure, select, radio
<1>3. ASSUME NEW t \in Targets, Activate(t) PROVE OnAir!Next
  BY <1>3, ActivatePutsOnAir DEF Typing, Provenance
<1>. QED
  BY <1>1, <1>2, <1>3, OnAirKept
  DEF vars, Next, MasterStep, PlanStep, EditWav, RegisterMaster, PlanPreview, PlanSave, PlanDiscard,
      GenStart, Crash, select, radio

\* The service keeps the promise of RadioOnAir: a file goes on the air only from
\* the master that is authoritative then, and a retired file never returns.
THEOREM ImplementsOnAir == Spec => OnAirRefinement
<1>1. Init => OnAir!Init
  BY SentinelsAssumption, RadiosAssumption DEF Init, OnAir!Init, Radios
<1>. QED
  BY <1>1, Inductive, OnAirNext, PTL DEF Spec, OnAirRefinement, OnAir!Spec

-----------------------------------------------------------------------------
(* RadioArchive.  Typing and Control hold of the media services here too;  *)
(* CurrentRadioAgrees does not: a split leaves the selection of the old    *)
(* recording behind.  Its place is taken by what splits and stale saves do *)
(* respect.                                                                *)

\* A row whose candidate was registered; it stays.
Settled(t) == plan[t].status \in {"verified", "activated"}

\* Files belong to recordings of the catalogue: the recording a split makes has none.
Homes ==
  /\ Established \subseteq born
  /\ \A a \in Radios : radioRec[a] \in born \cup {None}
  /\ \A a \in Radios : life[a] # "absent" => radioRec[a] # None

\* There is no candidate before its row is verified.
Registered ==
  \A t \in Targets : ~Settled(t) => life[t] = "absent" /\ radioRec[t] = None

\* What a job loaded is a registered file of a recording.
Copies ==
  \A j \in Jobs :
    copy[j] # None =>
      /\ copy[j].recording \in born
      /\ copy[j].life # "absent"
      /\ copy[j].asset \in Targets => Settled(copy[j].asset)

AInv ==
  /\ ArchiveTypeOK /\ Typing /\ Control
  /\ Homes /\ Registered /\ Copies /\ OneCurrentPerRecording

-----------------------------------------------------------------------------
(* What the media services do to the rows of radio files.                  *)

\* A step writes a radio file's row only to register a candidate or to activate one.
LEMMA RowsWritten ==
  ASSUME [Next]_vars
  PROVE  \/ UNCHANGED <<life, radioRec>>
         \/ \E w \in Workers : GenRegister(w)
         \/ \E t \in Targets : Activate(t)
<1>1. ASSUME NEW w \in Workers, PlanStep(w) PROVE UNCHANGED <<life, radioRec>>
  BY <1>1 DEF PlanStep, PlanPreview, PlanSave, PlanDiscard, radio
<1>2. ASSUME NEW w \in Workers, GenStep(w), ~ GenRegister(w) PROVE UNCHANGED <<life, radioRec>>
  BY <1>2
  DEF GenStep, GenClaim, GenEncode, GenCompare, GenRehash, GenPlace, GenRaise, GenRegisterRaises,
      GenRegisterRaisesLate, GenRecordFailure, radio
<1>3. ASSUME MasterStep PROVE UNCHANGED <<life, radioRec>>
  BY <1>3 DEF MasterStep, EditWav, RegisterMaster, SelectMaster, radio
<1>4. ASSUME NEW w \in Workers, NEW t \in Targets, GenStart(w, t) PROVE UNCHANGED <<life, radioRec>>
  BY <1>4 DEF GenStart, radio
<1>5. ASSUME NEW w \in Workers, Crash(w) PROVE UNCHANGED <<life, radioRec>>
  BY <1>5 DEF Crash, radio
<1>. QED
  BY <1>1, <1>2, <1>3, <1>4, <1>5 DEF Next, vars

\* A verified row stays verified or activated: what is discarded, claimed or failed
\* never was.
LEMMA SettledStays ==
  ASSUME Typing, Control, [Next]_vars, NEW t \in Targets, Settled(t)
  PROVE  Settled(t)'
<1>. USE DEF Settled, Typing, TypeOK, LocalOK
<1>1. ASSUME NEW w \in Workers, PlanStep(w) PROVE Settled(t)'
  <2>1. CASE PlanSave(w)
    BY <2>1 DEF PlanSave
  <2>2. CASE PlanDiscard(w)
    BY <2>2 DEF PlanDiscard, Control, ForeignIsIdle, DiscardsForeign
  <2>. QED
    BY <1>1, <2>1, <2>2 DEF PlanStep, PlanPreview
<1>2. ASSUME NEW w \in Workers, GenStep(w) PROVE Settled(t)'
  <2>1. CASE GenClaim(w)
    BY <2>1 DEF GenClaim, Claimable
  <2>2. CASE GenRegister(w)
    BY <2>2 DEF GenRegister, MarkedVerified, Plan
  <2>3. CASE GenRecordFailure(w)
    BY <2>3 DEF GenRecordFailure, MarkedFailed, Move, Claimed, Control, ClaimIsExclusive
  <2>. QED
    BY <1>2, <2>1, <2>2, <2>3
    DEF GenStep, GenEncode, GenCompare, GenRehash, GenPlace, GenRaise, GenRegisterRaises,
        GenRegisterRaisesLate
<1>3. ASSUME NEW u \in Targets, Activate(u) PROVE Settled(t)'
  BY <1>3 DEF Activate, Plan
<1>. QED
  BY <1>1, <1>2, <1>3
  DEF Next, vars, MasterStep, EditWav, RegisterMaster, SelectMaster, GenStart, Crash

\* The registration of a candidate: a row that was empty becomes a candidate's.
LEMMA CandidateRegistered ==
  ASSUME Typing, Control, Registered, NEW w \in Workers, GenRegister(w)
  PROVE  \E t \in Targets :
           /\ life[t] = "absent" /\ radioRec[t] = None
           /\ life' = [life EXCEPT ![t] = "candidate"]
           /\ radioRec' = [radioRec EXCEPT ![t] = TargetRec[t]]
           /\ Settled(t)'
<1>. DEFINE t == work[w].target
<1>1. pc[w] \in Claimed /\ t \in Targets
  BY DEF GenRegister, Move, Claimed, Typing, LocalOK
<1>2. plan[t].status = "generating"
  BY <1>1 DEF Control, ClaimIsExclusive
<1>3. life[t] = "absent" /\ radioRec[t] = None
  BY <1>1, <1>2 DEF Registered, Settled
<1>4. plan' = [plan EXCEPT ![t].status = "verified"]
  BY DEF GenRegister, MarkedVerified
<1>5. plan'[t].status = "verified"
  BY <1>1, <1>4 DEF Typing, TypeOK, Plan
<1>. QED
  BY <1>1, <1>3, <1>5 DEF GenRegister, AsCandidate, Settled

\* An activation: what it retires is of the recording, and of its files the candidate
\* alone is current afterwards.
LEMMA CandidateActivated ==
  ASSUME Typing, NEW t \in Targets, Activate(t)
  PROVE  /\ TargetRec[t] \in Recordings /\ t \in Radios
         /\ radioRec' = radioRec /\ radioRec[t] = TargetRec[t]
         /\ \A a \in Radios : radioRec[a] # TargetRec[t] => life'[a] = life[a]
         /\ \A a \in Radios : radioRec[a] = TargetRec[t] /\ life'[a] = "current" => a = t
         /\ life' \in [Radios -> LifecycleStatus]
<1>. DEFINE r == TargetRec[t]
            status == [a \in Radios |-> IF a = t THEN "current"
                                        ELSE IF a \in Superseded(t) THEN "historical"
                                        ELSE life[a]]
<1>1. r \in Recordings /\ t \in Radios
  BY RadiosAssumption DEF Radios
<1>2. /\ radioRec' = radioRec /\ radioRec[t] = r /\ life' = status
      /\ EventsClean(r) /\ OnlyCurrent(t, status)
  BY DEF Activate, Activatable
<1>3. \A a \in Superseded(t) : radioRec[a] = r
  BY <1>2 DEF Superseded, EventsClean
<1>. QED
  BY <1>1, <1>2, <1>3 DEF OnlyCurrent, Typing, TypeOK, LifecycleStatus

-----------------------------------------------------------------------------
(* The inductive invariant.                                                *)

\* The archive before phase 4.5A satisfies the inductive invariant.
LEMMA AInvInit == ArchiveInit => AInv
<1>. SUFFICES ASSUME ArchiveInit PROVE AInv
  OBVIOUS
<1>1. Typing /\ Control
  BY IInvInit DEF ArchiveInit, IInv
<1>2. ArchiveTypeOK
  BY <1>1, EstablishedAssumption DEF ArchiveInit, ArchiveTypeOK, Typing
<1>3. Homes /\ Registered
  BY SentinelsAssumption, RadiosAssumption, EstablishedAssumption
  DEF ArchiveInit, Init, Homes, Registered, Radios
<1>4. Copies /\ OneCurrentPerRecording
  BY DEF ArchiveInit, Init, Copies, OneCurrentPerRecording
<1>. QED
  BY <1>1, <1>2, <1>3, <1>4 DEF AInv

\* The media services keep the inductive invariant.
LEMMA MediaKeeps == ASSUME AInv, [Next]_vars, UNCHANGED <<born, copy>> PROVE AInv'
<1>1. Typing' /\ Control'
  BY TypingNext, ControlNext DEF AInv
<1>2. ArchiveTypeOK'
  BY <1>1 DEF AInv, ArchiveTypeOK, Typing
<1>3. \A t \in Targets : Settled(t) => Settled(t)'
  BY SettledStays DEF AInv
<1>4. Copies'
  BY <1>3 DEF AInv, Copies, ArchiveTypeOK, Row
<1>5. CASE UNCHANGED <<life, radioRec>>
  BY <1>1, <1>2, <1>3, <1>4, <1>5 DEF AInv, Homes, Registered, OneCurrentPerRecording
<1>6. ASSUME NEW w \in Workers, GenRegister(w) PROVE AInv'
  <2>1. PICK t \in Targets :
          /\ life[t] = "absent" /\ radioRec[t] = None
          /\ life' = [life EXCEPT ![t] = "candidate"]
          /\ radioRec' = [radioRec EXCEPT ![t] = TargetRec[t]]
          /\ Settled(t)'
    BY <1>6, CandidateRegistered DEF AInv
  <2>2. TargetRec[t] \in born /\ TargetRec[t] # None
    BY SentinelsAssumption, RadiosAssumption, EstablishedAssumption DEF AInv, Homes
  <2>3. Homes'
    BY <2>1, <2>2 DEF AInv, Homes, Typing, TypeOK
  <2>4. Registered'
    BY <1>3, <2>1 DEF AInv, Registered, Typing, TypeOK
  <2>5. OneCurrentPerRecording'
    BY <2>1 DEF AInv, OneCurrentPerRecording, Typing, TypeOK
  <2>. QED
    BY <1>1, <1>2, <1>4, <2>3, <2>4, <2>5 DEF AInv
<1>7. ASSUME NEW t \in Targets, Activate(t) PROVE AInv'
  <2>1. /\ TargetRec[t] \in Recordings /\ t \in Radios
        /\ radioRec' = radioRec /\ radioRec[t] = TargetRec[t]
        /\ \A a \in Radios : radioRec[a] # TargetRec[t] => life'[a] = life[a]
        /\ \A a \in Radios : radioRec[a] = TargetRec[t] /\ life'[a] = "current" => a = t
    BY <1>7, CandidateActivated DEF AInv
  <2>2. TargetRec[t] # None
    BY <2>1, SentinelsAssumption
  <2>3. Homes'
    BY <2>1, <2>2 DEF AInv, Homes
  <2>4. Registered'
    BY <1>3, <2>1, <2>2 DEF AInv, Registered, Radios
  <2>5. OneCurrentPerRecording'
    BY <2>1 DEF AInv, OneCurrentPerRecording
  <2>. QED
    BY <1>1, <1>2, <1>4, <2>3, <2>4, <2>5 DEF AInv
<1>. QED
  BY <1>5, <1>6, <1>7, RowsWritten

\* What splits and jobs leave alone carries the first two layers over.
LEMMA LayersKept ==
  ASSUME Typing, Control,
         life' \in [Radios -> LifecycleStatus], radioRec' \in [Radios -> Recordings \cup {None}],
         UNCHANGED <<disk, master, select, lineage, plan, local, bounds>>
  PROVE  Typing' /\ Control' /\ \A t \in Targets : Settled(t)' <=> Settled(t)
<1>1. Typing'
  BY DEF Typing, TypeOK, LocalOK, PlanHasMaster, disk, master, select, local, bounds
<1>2. Control'
  BY ControlKept DEF disk, local
<1>. QED
  BY <1>1, <1>2 DEF Settled

\* A split moves a file to a recording that has no other.
LEMMA SplitKeeps ==
  ASSUME AInv, NEW a \in Radios, NEW q \in Recordings, Split(a, q) PROVE AInv'
<1>1. /\ radioRec' = [radioRec EXCEPT ![a] = q] /\ life' = life /\ copy' = copy
      /\ born' = born \cup {q} /\ q \notin born /\ q # None /\ life[a] # "absent"
      /\ UNCHANGED <<disk, master, select, lineage, plan, local, bounds>>
  BY SentinelsAssumption DEF Split
<1>2. Typing' /\ Control' /\ \A t \in Targets : Settled(t)' <=> Settled(t)
  BY <1>1, LayersKept DEF AInv, Typing, TypeOK
<1>3. ArchiveTypeOK'
  BY <1>1, <1>2 DEF AInv, ArchiveTypeOK, Typing
<1>4. Homes'
  BY <1>1 DEF AInv, Homes, Typing, TypeOK
<1>5. Registered'
  BY <1>1, <1>2 DEF AInv, Registered, Typing, TypeOK
<1>6. Copies'
  BY <1>1, <1>2 DEF AInv, Copies, ArchiveTypeOK, Row
<1>7. OneCurrentPerRecording'
  <2>1. \A b \in Radios : radioRec[b] # q
    BY <1>1 DEF AInv, Homes
  <2>. QED
    BY <1>1, <2>1 DEF AInv, OneCurrentPerRecording, Typing, TypeOK
<1>. QED
  BY <1>2, <1>3, <1>4, <1>5, <1>6, <1>7 DEF AInv

\* A job loads the row of a registered file.
LEMMA LoadKeeps ==
  ASSUME AInv, NEW j \in Jobs, NEW a \in Radios, LoadAsset(j, a) PROVE AInv'
<1>. DEFINE row == [asset |-> a, recording |-> radioRec[a], life |-> life[a]]
<1>1. copy' = [copy EXCEPT ![j] = row] /\ life[a] # "absent" /\ UNCHANGED <<vars, born>>
  BY DEF LoadAsset
<1>2. UNCHANGED <<life, radioRec, plan>> /\ UNCHANGED vars
  BY <1>1 DEF vars
<1>3. Typing' /\ Control'
  BY <1>2, TypingNext, ControlNext DEF AInv
<1>4. radioRec[a] \in born
  BY <1>1 DEF AInv, Homes
<1>5. row \in Row
  BY <1>4 DEF AInv, ArchiveTypeOK, Row, TypeOK
<1>6. ArchiveTypeOK'
  <2>. HIDE DEF row
  <2>. QED
    BY <1>1, <1>3, <1>5 DEF AInv, ArchiveTypeOK, Typing
<1>7. Copies'
  <2>1. a \in Targets => Settled(a)
    BY <1>1 DEF AInv, Registered
  <2>. QED
    BY <1>1, <1>2, <1>4, <2>1 DEF AInv, Copies, ArchiveTypeOK, Settled
<1>8. Homes' /\ Registered' /\ OneCurrentPerRecording'
  BY <1>1, <1>2 DEF AInv, Homes, Registered, Settled, OneCurrentPerRecording
<1>. QED
  BY <1>3, <1>6, <1>7, <1>8 DEF AInv

\* A job saves the row it loaded; the constraint is checked for that row alone.
LEMMA SaveKeeps == ASSUME AInv, NEW j \in Jobs, SaveAsset(j) PROVE AInv'
<1>. DEFINE row == copy[j]
<1>1. /\ row \in Row /\ row.recording \in born /\ row.life # "absent"
      /\ row.asset \in Targets => Settled(row.asset)
  BY DEF SaveAsset, AInv, ArchiveTypeOK, Copies
<1>2. /\ copy' = [copy EXCEPT ![j] = None]
      /\ UNCHANGED <<disk, master, select, lineage, plan, local, bounds, born>>
      /\ \/ /\ OneCurrentKept(row)
            /\ radioRec' = [radioRec EXCEPT ![row.asset] = row.recording]
            /\ life' = [life EXCEPT ![row.asset] = row.life]
         \/ UNCHANGED <<radioRec, life>>
  BY DEF SaveAsset
<1>. HIDE DEF row
<1>3. life' \in [Radios -> LifecycleStatus] /\ radioRec' \in [Radios -> Recordings \cup {None}]
  BY <1>1, <1>2 DEF AInv, Typing, TypeOK, Row
<1>4. Typing' /\ Control' /\ \A t \in Targets : Settled(t)' <=> Settled(t)
  BY <1>2, <1>3, LayersKept DEF AInv
<1>5. ArchiveTypeOK' /\ Copies'
  BY <1>2, <1>4 DEF AInv, ArchiveTypeOK, Copies, Typing, Row
<1>6. Homes'
  <2>1. row.recording # None
    BY <1>1, SentinelsAssumption DEF Row
  <2>. QED
    BY <1>1, <1>2, <2>1 DEF AInv, Homes, Typing, TypeOK, Row
<1>7. Registered'
  <2>1. \A t \in Targets : ~Settled(t) => t # row.asset
    BY <1>1
  <2>2. \A t \in Targets \ {row.asset} : life'[t] = life[t] /\ radioRec'[t] = radioRec[t]
    BY <1>1, <1>2, RadiosAssumption DEF AInv, Typing, TypeOK, Radios
  <2>3. \A t \in Targets : Settled(t)' <=> Settled(t)
    BY <1>4
  <2>. QED
    BY <2>1, <2>2, <2>3 DEF AInv, Registered
<1>8. OneCurrentPerRecording'
  BY <1>1, <1>2 DEF AInv, OneCurrentPerRecording, OneCurrentKept, Typing, TypeOK, Row
<1>. QED
  BY <1>4, <1>5, <1>6, <1>7, <1>8 DEF AInv

\* Every step of the archive keeps the inductive invariant.
LEMMA AInvNext == AInv /\ [ArchiveNext]_archiveVars => AInv'
<1>. SUFFICES ASSUME AInv, [ArchiveNext]_archiveVars PROVE AInv'
  OBVIOUS
<1>1. CASE UNCHANGED archiveVars
  BY <1>1, MediaKeeps DEF archiveVars
<1>2. CASE MediaStep
  BY <1>2, MediaKeeps DEF MediaStep
<1>. QED
  BY <1>1, <1>2, SplitKeeps, LoadKeeps, SaveKeeps DEF ArchiveNext

\* The inductive invariant holds in every reachable state of the archive.
THEOREM ArchiveInductive == ArchiveSpec => []AInv
  BY AInvInit, AInvNext, PTL DEF ArchiveSpec

\* Every reachable state of the archive has the declared types.
THEOREM ArchiveTypeCorrect == ArchiveSpec => []ArchiveTypeOK
<1>1. AInv => ArchiveTypeOK
  BY DEF AInv
<1>. QED
  BY <1>1, ArchiveInductive, PTL

\* However activations, splits and stale saves interleave, a recording has one CURRENT
\* radio file at most.
THEOREM OneCurrentFile == ArchiveSpec => []OneCurrentPerRecording
<1>1. AInv => OneCurrentPerRecording
  BY DEF AInv
<1>. QED
  BY <1>1, ArchiveInductive, PTL

=============================================================================

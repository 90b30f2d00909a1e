--------------------------- MODULE RadioMastering ---------------------------
(***************************************************************************)
(* The controlled master-to-radio-FLAC lifecycle of media_assets/mastering *)
(* run by several web workers at once.  A WAV master is registered and     *)
(* selected; a RadioFlacGeneration row is planned, claimed, encoded into a *)
(* temporary file, verified, moved to its target and registered as a       *)
(* candidate FileAsset; a candidate is activated in a separate request.    *)
(*                                                                         *)
(* Database and disk are separate: every database transaction and every    *)
(* file operation of generate_candidate is a step of its own, a worker can *)
(* stop between any two of them, and nothing but the row claim excludes    *)
(* another worker in between.                                              *)
(*                                                                         *)
(* A generation row is known by its target path (unique in the database),  *)
(* and so is the candidate it registers.  Legacy radio files are the ones  *)
(* ingested before.  The audio of a file is <<master, version>>.           *)
(***************************************************************************)
EXTENDS Naturals, FiniteSets

CONSTANTS
  Recordings,       \* catalogue recordings
  Masters,          \* WAV files a user can register as master
  Legacy,           \* radio-FLAC assets already in the archive
  LegacyRec,        \* the recording each legacy radio file belongs to
  Targets,          \* target paths below the generated-media root
  TargetRec,        \* the recording whose folder holds the target path
  Workers,          \* web worker processes
  None,             \* the SQL NULL
  NoFile,           \* no file at the path
  Foreign,          \* a file no generation row accounts for
  MaxVersion,       \* bound: edits of one WAV file
  MaxFaults         \* bound: workers that die, and errors after the candidate was put on the row

Radios == Legacy \cup Targets
Audio  == Masters \X Nat

ASSUME SentinelsAssumption ==
  /\ None \notin Recordings \cup Masters \cup Radios
  /\ NoFile \notin Audio /\ Foreign \notin Audio /\ NoFile # Foreign

ASSUME RadiosAssumption ==
  /\ Legacy \cap Targets = {}
  /\ LegacyRec \in [Legacy -> Recordings]
  /\ TargetRec \in [Targets -> Recordings]

ASSUME BoundsAssumption ==
  MaxVersion \in Nat /\ MaxFaults \in Nat

VARIABLES
  \* disk
  wav,          \* version of the WAV file now on disk
  file,         \* what is stored at each target path
  \* database
  masterRec,    \* recording a registered master belongs to
  masterSha,    \* version whose hash was registered
  selMaster,    \* RecordingMediaSelection.selected_master
  curRadio,     \* RecordingMediaSelection.current_radio
  life,         \* FileAsset.lifecycle_status of radio files
  radioRec,     \* FileAsset.recording of radio files
  lineage,      \* FileDerivation: the master a radio file was made from
  plan,         \* RadioFlacGeneration rows
  \* workers
  pc,           \* where each worker is
  form,         \* the preview a worker holds while it saves a plan
  work,         \* the generation a worker runs: target and encoded audio
  faults

disk   == <<wav, file>>
master == <<masterRec, masterSha>>
select == <<selMaster, curRadio>>
radio  == <<life, radioRec, lineage>>
bounds == <<faults>>
local  == <<pc, form, work>>
vars   == <<wav, file, masterRec, masterSha, selMaster, curRadio, life,
            radioRec, lineage, plan, pc, form, work, faults>>

LifecycleStatus == {"absent", "unclassified", "candidate", "current", "historical"}
PlanStatus == {"absent", "planned", "generating", "verified", "activated", "failed"}
Steps == {"idle", "previewed", "discarding", "checked", "claimed", "encoded",
          "compared", "rehashed", "placed", "failing"}

\* Steps taken while the worker holds the claim on its generation row.
Claimed == {"claimed", "encoded", "compared", "rehashed", "placed", "failing"}

Plan == [status : PlanStatus, master : Masters \cup {None}, source : Radios \cup {None}]
Form == [target : Targets \cup {None}, master : Masters \cup {None},
         source : Radios \cup {None}, exists : BOOLEAN]
Work == [target : Targets \cup {None}, audio : Audio \cup {None}]

NoPlan == [status |-> "absent", master |-> None, source |-> None]
NoForm == [target |-> None, master |-> None, source |-> None, exists |-> FALSE]
NoWork == [target |-> None, audio |-> None]

TypeOK ==
  /\ wav \in [Masters -> Nat]
  /\ file \in [Targets -> Audio \cup {NoFile, Foreign}]
  /\ masterRec \in [Masters -> Recordings \cup {None}]
  /\ masterSha \in [Masters -> Nat]
  /\ selMaster \in [Recordings -> Masters \cup {None}]
  /\ curRadio \in [Recordings -> Radios \cup {None}]
  /\ life \in [Radios -> LifecycleStatus]
  /\ radioRec \in [Radios -> Recordings \cup {None}]
  /\ lineage \in [Radios -> Masters \cup {None}]
  /\ plan \in [Targets -> Plan]
  /\ pc \in [Workers -> Steps]
  /\ form \in [Workers -> Form]
  /\ work \in [Workers -> Work]
  /\ faults \in Nat

\* The archive before phase 4.5A: ingested radio files, nothing selected, and
\* possibly files left below the generated root by an older database.
Init ==
  /\ wav = [m \in Masters |-> 0]
  /\ file \in [Targets -> {NoFile, Foreign}]
  /\ masterRec = [m \in Masters |-> None]
  /\ masterSha = [m \in Masters |-> 0]
  /\ selMaster = [r \in Recordings |-> None]
  /\ curRadio = [r \in Recordings |-> None]
  /\ life = [a \in Radios |-> IF a \in Legacy THEN "unclassified" ELSE "absent"]
  /\ radioRec = [a \in Radios |-> IF a \in Legacy THEN LegacyRec[a] ELSE None]
  /\ lineage = [a \in Radios |-> None]
  /\ plan = [t \in Targets |-> NoPlan]
  /\ pc = [w \in Workers |-> "idle"]
  /\ form = [w \in Workers |-> NoForm]
  /\ work = [w \in Workers |-> NoWork]
  /\ faults = 0

-----------------------------------------------------------------------------
(* Model validation, shared by the actions that save a row.                *)

\* RecordingMediaSelection.clean on current_radio.
SelectionClean(r) ==
  curRadio[r] # None =>
    radioRec[curRadio[r]] = r /\ life[curRadio[r]] = "current"

\* RadioFlacGeneration.clean on rows read fresh from the database.
PlanClean(t) ==
  /\ masterRec[plan[t].master] = TargetRec[t]
  /\ plan[t].source # None => radioRec[plan[t].source] = TargetRec[t]

\* Mutant of Fallback: candidates compete as well.
FallbackWithCandidates(r) ==
  {a \in Radios : radioRec[a] = r /\ life[a] \in {"unclassified", "candidate", "current"}}

\* Radio files that compete for playback when nothing is explicitly current.
Fallback(r) ==
  {a \in Radios : radioRec[a] = r /\ life[a] \in {"unclassified", "current"}}

\* resolve_current_radio_asset: the explicit choice wins over the fallback.
\* Every registered radio file is taken to be readable at one location.
Playable(r) == IF curRadio[r] # None THEN {curRadio[r]} ELSE Fallback(r)

-----------------------------------------------------------------------------
(* Masters.                                                                *)

\* The user's editor rewrites the WAV file; it never restores older bytes.
EditWav(m) ==
  /\ wav[m] < MaxVersion
  /\ wav' = [wav EXCEPT ![m] = @ + 1]
  /\ UNCHANGED <<file, master, select, radio, plan, local, bounds>>

\* register_master.  The file is inspected before the transaction, so the hash
\* that is stored may be of an earlier version.
RegisterMaster(m, r, v) ==
  /\ masterRec[m] = None
  /\ v <= wav[m]
  /\ masterRec' = [masterRec EXCEPT ![m] = r]
  /\ masterSha' = [masterSha EXCEPT ![m] = v]
  /\ UNCHANGED <<disk, select, radio, plan, local, bounds>>

\* select_master, under the locks on recording, asset and selection.
SelectMaster(r, m) ==
  /\ masterRec[m] = r
  /\ SelectionClean(r)
  /\ selMaster' = [selMaster EXCEPT ![r] = m]
  /\ UNCHANGED <<disk, master, curRadio, radio, plan, local, bounds>>

-----------------------------------------------------------------------------
(* Saving a plan: create_generation_plan.                                  *)

\* build_generation_preview, outside any transaction.  The target name comes
\* with the request from a page rendered earlier: any name in the recording's
\* folder may meet whatever is selected now.
PlanPreview(w, t) ==
  LET r == TargetRec[t] IN
  /\ pc[w] = "idle"
  /\ selMaster[r] # None
  /\ \E a \in Radios :
       /\ Playable(r) = {a}
       /\ form' = [form EXCEPT ![w] =
                    [target |-> t, master |-> selMaster[r], source |-> a,
                     exists |-> file[t] # NoFile]]
  /\ pc' = [pc EXCEPT ![w] = "previewed"]
  /\ UNCHANGED <<disk, master, select, radio, plan, work, bounds>>

\* get_or_create on the unique target.  A row that is already there is returned
\* or refused, and stays as it is either way.
PlanSave(w) ==
  LET t == form[w].target
      created == plan[t].status = "absent"
      discard == created /\ form[w].exists
  IN
  /\ pc[w] = "previewed"
  /\ plan' = IF created
             THEN [plan EXCEPT ![t] = [status |-> "planned", master |-> form[w].master,
                                       source |-> form[w].source]]
             ELSE plan
  /\ pc' = [pc EXCEPT ![w] = IF discard THEN "discarding" ELSE "idle"]
  /\ form' = [form EXCEPT ![w] = IF discard THEN @ ELSE NoForm]
  /\ UNCHANGED <<disk, master, select, radio, work, bounds>>

\* The target already existed: the new row is deleted again, in a transaction
\* of its own.
PlanDiscard(w) ==
  /\ pc[w] = "discarding"
  /\ plan' = [plan EXCEPT ![form[w].target] = NoPlan]
  /\ pc' = [pc EXCEPT ![w] = "idle"]
  /\ form' = [form EXCEPT ![w] = NoForm]
  /\ UNCHANGED <<disk, master, select, radio, work, bounds>>

-----------------------------------------------------------------------------
(* Running a plan: generate_candidate.                                     *)

Move(w, from, to) == pc[w] = from /\ pc' = [pc EXCEPT ![w] = to]

\* "Målfilen finnes allerede": what is at the target is left alone.
TargetFree(t) == file[t] = NoFile

\* The unlocked checks before the claim: a planned row whose master is still
\* the selected one, and nothing at the target.  A call that fails a check
\* returns or raises without a trace.
GenStart(w, t) ==
  /\ Move(w, "idle", "checked")
  /\ plan[t].status = "planned"
  /\ selMaster[TargetRec[t]] = plan[t].master
  /\ TargetFree(t)
  /\ work' = [work EXCEPT ![w] = [target |-> t, audio |-> None]]
  /\ UNCHANGED <<disk, master, select, radio, plan, form, bounds>>

\* Mutant of Claimable: a row that is being generated can be claimed again.
ClaimableAgain(t) == plan[t].status \in {"planned", "generating"} /\ PlanClean(t)

\* What the claim requires of the row it has locked.
Claimable(t) == plan[t].status = "planned" /\ PlanClean(t)

\* The claim: a short transaction that turns a planned row into GENERATING
\* under its row lock, or leaves it to whoever has it.
GenClaim(w) ==
  LET t == work[w].target IN
  /\ pc[w] = "checked"
  /\ IF Claimable(t)
     THEN /\ plan' = [plan EXCEPT ![t].status = "generating"]
          /\ pc' = [pc EXCEPT ![w] = "claimed"]
          /\ UNCHANGED work
     ELSE /\ pc' = [pc EXCEPT ![w] = "idle"]
          /\ work' = [work EXCEPT ![w] = NoWork]
          /\ UNCHANGED plan
  /\ UNCHANGED <<disk, master, select, radio, form, bounds>>

\* Encode the WAV as it is now into a temporary file.
GenEncode(w) ==
  LET m == plan[work[w].target].master IN
  /\ Move(w, "claimed", "encoded")
  /\ work' = [work EXCEPT ![w].audio = <<m, wav[m]>>]
  /\ UNCHANGED <<disk, master, select, radio, plan, form, bounds>>

\* Decode both again: the samples must be the same.
GenCompare(w) ==
  LET m == plan[work[w].target].master IN
  /\ Move(w, "encoded", "compared")
  /\ work[w].audio = <<m, wav[m]>>
  /\ UNCHANGED <<disk, master, select, radio, plan, form, work, bounds>>

\* Mutant of MasterUnchanged: the WAV is not hashed a second time.
MasterUnread(m) == TRUE

\* "Masterfilen ble endret under genereringen" otherwise.
MasterUnchanged(m) == wav[m] = masterSha[m]

\* After the tags are written: the master must still hash to what was registered.
GenRehash(w) ==
  /\ Move(w, "compared", "rehashed")
  /\ MasterUnchanged(plan[work[w].target].master)
  /\ UNCHANGED <<disk, master, select, radio, plan, form, work, bounds>>

\* os.replace(temporary, target): whatever is at the target is gone.
GenPlace(w) ==
  /\ Move(w, "rehashed", "placed")
  /\ file' = [file EXCEPT ![work[w].target] = work[w].audio]
  /\ UNCHANGED <<wav, master, select, radio, plan, form, work, bounds>>

\* Mutant of AsCandidate: the new file is current at once.
AsCurrent(t) == [life EXCEPT ![t] = "current"]

\* The candidate asset, and the row that points to it.
AsCandidate(t) == [life EXCEPT ![t] = "candidate"]
\* Mutant of MarkedVerified: the row takes the status of the file.
MarkedCandidate(t) == [plan EXCEPT ![t].status = "candidate"]

MarkedVerified(t) == [plan EXCEPT ![t].status = "verified"]

\* The registration transaction: asset, location, checksum, derivation, row.
GenRegister(w) ==
  LET t == work[w].target IN
  /\ Move(w, "placed", "idle")
  /\ life' = AsCandidate(t)
  /\ radioRec' = [radioRec EXCEPT ![t] = TargetRec[t]]
  /\ lineage' = [lineage EXCEPT ![t] = plan[t].master]
  /\ plan' = MarkedVerified(t)
  /\ work' = [work EXCEPT ![w] = NoWork]
  /\ UNCHANGED <<disk, master, select, form, bounds>>

\* An error before the file is in place: the temporary file is removed.
GenRaise(w) ==
  /\ pc[w] \in {"claimed", "encoded", "compared", "rehashed"}
  /\ pc' = [pc EXCEPT ![w] = "failing"]
  /\ UNCHANGED <<disk, master, select, radio, plan, form, work, bounds>>

\* The registration rolls back and the target is unlinked.
GenRegisterRaises(w) ==
  /\ Move(w, "placed", "failing")
  /\ file' = [file EXCEPT ![work[w].target] = NoFile]
  /\ UNCHANGED <<wav, master, select, radio, plan, form, work, bounds>>

\* The same after candidate_asset was set on the row in memory: saving the
\* failure is refused, since full_clean finds no such asset any more.
GenRegisterRaisesLate(w) ==
  /\ faults < MaxFaults
  /\ Move(w, "placed", "idle")
  /\ file' = [file EXCEPT ![work[w].target] = NoFile]
  /\ work' = [work EXCEPT ![w] = NoWork]
  /\ faults' = faults + 1
  /\ UNCHANGED <<wav, master, select, radio, plan, form>>

\* Mutant of MarkedFailed: the status is not saved.
MarkedInMemory(t) == plan

\* The handler records FAILED on the row.
MarkedFailed(t) == [plan EXCEPT ![t].status = "failed"]

GenRecordFailure(w) ==
  /\ Move(w, "failing", "idle")
  /\ plan' = MarkedFailed(work[w].target)
  /\ work' = [work EXCEPT ![w] = NoWork]
  /\ UNCHANGED <<disk, master, select, radio, form, bounds>>

\* The worker process dies; what it committed and wrote stays.
Crash(w) ==
  /\ pc[w] # "idle"
  /\ faults < MaxFaults
  /\ pc' = [pc EXCEPT ![w] = "idle"]
  /\ form' = [form EXCEPT ![w] = NoForm]
  /\ work' = [work EXCEPT ![w] = NoWork]
  /\ faults' = faults + 1
  /\ UNCHANGED <<disk, master, select, radio, plan>>

-----------------------------------------------------------------------------
(* Activating a candidate: activate_candidate, one transaction under the   *)
(* locks on row, recording, selection and candidate.                       *)

\* Mutant of Activatable: neither the selected master nor its content is compared.
ActivatableAnyMaster(t) ==
  /\ plan[t].status = "verified"
  /\ radioRec[t] = TargetRec[t]
  /\ life[t] = "candidate"

Activatable(t) ==
  LET r == TargetRec[t] IN
  /\ plan[t].status = "verified"
  /\ radioRec[t] = r
  /\ life[t] = "candidate"
  /\ selMaster[r] = plan[t].master

\* The radio files that go out of use: the explicit predecessor alone, or every
\* legacy file of the recording when there was none.
Superseded(t) ==
  LET r == TargetRec[t] IN
  IF curRadio[r] \notin {None, t}
  THEN {curRadio[r]}
  ELSE {a \in Radios \ {t} : radioRec[a] = r /\ life[a] # "candidate"}

\* The check at the end of the transaction: the candidate is the one and only
\* current radio file of the recording, or everything is rolled back.
OnlyCurrent(t, status) ==
  {a \in Radios : radioRec[a] = TargetRec[t] /\ status[a] = "current"} = {t}

\* MediaAssetEvent.clean: superseding a file of another recording is refused.
EventsClean(r) == curRadio[r] # None => radioRec[curRadio[r]] = r

Activate(t) ==
  LET status == [a \in Radios |-> IF a = t THEN "current"
                                  ELSE IF a \in Superseded(t) THEN "historical"
                                  ELSE life[a]]
  IN
  /\ Activatable(t)
  /\ PlanClean(t)
  /\ EventsClean(TargetRec[t])
  /\ OnlyCurrent(t, status)
  /\ life' = status
  /\ curRadio' = [curRadio EXCEPT ![TargetRec[t]] = t]
  /\ plan' = [plan EXCEPT ![t].status = "activated"]
  /\ UNCHANGED <<disk, master, selMaster, radioRec, lineage, local, bounds>>

-----------------------------------------------------------------------------
PlanStep(w) ==
  \/ \E t \in Targets : PlanPreview(w, t)
  \/ PlanSave(w)
  \/ PlanDiscard(w)

\* The steps of a generation from its claim on.
GenStep(w) ==
  \/ GenClaim(w) \/ GenEncode(w) \/ GenCompare(w) \/ GenRehash(w) \/ GenPlace(w)
  \/ GenRegister(w) \/ GenRaise(w) \/ GenRegisterRaises(w)
  \/ GenRegisterRaisesLate(w) \/ GenRecordFailure(w)

MasterStep ==
  \/ \E m \in Masters : EditWav(m)
  \/ \E m \in Masters, r \in Recordings, v \in 0..MaxVersion : RegisterMaster(m, r, v)
  \/ \E m \in Masters, r \in Recordings : SelectMaster(r, m)

Next ==
  \/ MasterStep
  \/ \E w \in Workers : PlanStep(w)
  \/ \E w \in Workers, t \in Targets : GenStart(w, t)
  \/ \E w \in Workers : GenStep(w) \/ Crash(w)
  \/ \E t \in Targets : Activate(t)

Spec == Init /\ [][Next]_vars

\* A request that runs is run to its end by the web server.
FairSpec == Spec /\ \A w \in Workers : WF_vars(GenStep(w))

-----------------------------------------------------------------------------
(* Properties.                                                             *)

\* The explicit choice and the life cycle agree in both directions: what the
\* selection calls current is the recording's own CURRENT file, and no file is
\* CURRENT that the selection does not name (RecordingMediaSelection.clean and
\* the check that ends activate_candidate), whatever activations interleave.
CurrentRadioAgrees ==
  \A a \in Radios, r \in Recordings :
    curRadio[r] = a <=> (radioRec[a] = r /\ life[a] = "current")

\* At most one worker holds the claim on a generation row, and the row says
\* GENERATING as long as it does (the claim of generate_candidate).
ClaimIsExclusive ==
  \A w \in Workers :
    pc[w] \in Claimed =>
      /\ plan[work[w].target].status = "generating"
      /\ \A v \in Workers \ {w} : pc[v] \in Claimed => work[v].target # work[w].target

\* A verified or activated row has its candidate: registered, derived from the
\* planned master, and on disk with exactly the audio whose hash was registered
\* for that master, although the WAV may be edited at any moment of the run.
VerifiedCandidate ==
  \A t \in Targets :
    plan[t].status \in {"verified", "activated"} =>
      LET m == plan[t].master IN
      /\ life[t] # "absent"
      /\ lineage[t] = m
      /\ file[t] = <<m, masterSha[m]>>

\* "En eksisterende fil overskrives aldri": what is at a target path is never
\* replaced, and only a file that was never registered is removed.
NeverOverwritten ==
  [][\A t \in Targets :
       file[t] # NoFile /\ file'[t] # file[t] =>
         file'[t] = NoFile /\ life[t] = "absent"]_vars

\* What a recording plays changes only when one of its candidates is activated:
\* planning, generating, failing, crashing and selecting a master leave it.
PlaybackMovesOnActivation ==
  [][\A r \in Recordings :
       Playable(r)' # Playable(r) =>
         \E t \in Targets :
           /\ plan[t].status = "verified" /\ plan'[t].status = "activated"
           /\ Playable(r)' = {t}]_vars

\* A claimed generation comes to an end: the row leaves GENERATING, unless a worker
\* died or its failure could not be recorded (generate_candidate).
GenerationSettles ==
  \A t \in Targets :
    plan[t].status = "generating" ~> plan[t].status # "generating" \/ faults > 0

\* The promise of RadioOnAir, read off the detailed state.
OnAir == INSTANCE RadioOnAir WITH
  authoritative <- selMaster, onAir <- curRadio, madeFrom <- lineage,
  retired <- {a \in Radios : life[a] = "historical"}

\* A recording is on the air only with a file made from the master that was
\* authoritative when it was put there, and a retired file never returns.
OnAirRefinement == OnAir!Spec

=============================================================================

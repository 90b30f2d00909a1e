---------------------------- MODULE RadioArchive ----------------------------
(***************************************************************************)
(* RadioMastering together with the two other services that write the rows *)
(* of radio files: the split of a wrongly grouped file into a recording of *)
(* its own, and the jobs that load a FileAsset without a lock and save the *)
(* whole row later.  sync_file_asset does so around the writing of the     *)
(* tags, for managed recordings; apply_item around the import of a file,   *)
(* for any.                                                                *)
(*                                                                         *)
(* Such a job writes back the recording and the lifecycle status it read,  *)
(* whatever was committed in between: CanonicalModel.save waits for the    *)
(* row lock and validates what is in memory, but compares no revision.     *)
(***************************************************************************)
EXTENDS RadioMastering

CONSTANTS
  Established,   \* recordings there from the start
  Managed,       \* recordings with management or rights data
  Jobs           \* synchronisation and import jobs

ASSUME EstablishedAssumption ==
  /\ Managed \subseteq Established
  /\ Established \subseteq Recordings
  /\ \A a \in Legacy : LegacyRec[a] \in Established
  /\ \A t \in Targets : TargetRec[t] \in Established

VARIABLES
  born,   \* recordings in the catalogue
  copy    \* the row a job has in memory

archiveVars == <<vars, born, copy>>

Row == [asset : Radios, recording : Recordings, life : LifecycleStatus]

ArchiveTypeOK ==
  /\ TypeOK
  /\ born \subseteq Recordings
  /\ copy \in [Jobs -> Row \cup {None}]

ArchiveInit ==
  /\ Init
  /\ born = Established
  /\ copy = [j \in Jobs |-> None]

\* The media services serve the recordings of the catalogue.
MediaStep ==
  /\ Next
  /\ \A m \in Masters : masterRec'[m] \in born \cup {None}
  /\ UNCHANGED <<born, copy>>

-----------------------------------------------------------------------------
\* "Innspillingen har ikke flere radiofiler": asked under the locks on the asset
\* and its recording, of files of any lifecycle status.
HasOthers(a) == \E b \in Radios \ {a} : radioRec[b] = radioRec[a]

\* split_radio_file_to_new_recording: the file moves to a new recording and takes
\* its lifecycle status along; selection, derivation and generation stay.
Split(a, q) ==
  /\ life[a] # "absent"
  /\ radioRec[a] \notin Managed
  /\ HasOthers(a)
  /\ q \in Recordings \ born
  /\ born' = born \cup {q}
  /\ radioRec' = [radioRec EXCEPT ![a] = q]
  /\ UNCHANGED <<disk, master, select, life, lineage, plan, local, bounds, copy>>

\* The job reads the row; apply_item goes on when its recording is the item's,
\* and sync_file_asset when its recording is managed.
LoadAsset(j, a) ==
  /\ copy[j] = None
  /\ life[a] # "absent"
  /\ copy' = [copy EXCEPT ![j] = [asset |-> a, recording |-> radioRec[a], life |-> life[a]]]
  /\ UNCHANGED <<vars, born>>

\* Mutant of OneCurrentKept: the constraint is left out.
Unconstrained(row) == TRUE

\* file_asset_one_current_radio, which full_clean checks for the row in memory.
OneCurrentKept(row) ==
  row.life = "current" =>
    \A b \in Radios \ {row.asset} : radioRec[b] = row.recording => life[b] # "current"

\* The full save of the row; one that would break the constraint is refused (an
\* item in conflict, or a failed synchronisation).
SaveAsset(j) ==
  /\ copy[j] # None
  /\ LET row == copy[j] IN
     IF OneCurrentKept(row)
     THEN /\ radioRec' = [radioRec EXCEPT ![row.asset] = row.recording]
          /\ life' = [life EXCEPT ![row.asset] = row.life]
     ELSE UNCHANGED <<radioRec, life>>
  /\ copy' = [copy EXCEPT ![j] = None]
  /\ UNCHANGED <<disk, master, select, lineage, plan, local, bounds, born>>

ArchiveNext ==
  \/ MediaStep
  \/ \E a \in Radios, q \in Recordings : Split(a, q)
  \/ \E j \in Jobs, a \in Radios : LoadAsset(j, a)
  \/ \E j \in Jobs : SaveAsset(j)

ArchiveSpec == ArchiveInit /\ [][ArchiveNext]_archiveVars

-----------------------------------------------------------------------------
(* Properties.                                                             *)

\* However activations, splits and stale saves interleave, a recording has at
\* most one CURRENT radio file (file_asset_one_current_radio).
OneCurrentPerRecording ==
  \A a, b \in Radios :
    life[a] = "current" /\ life[b] = "current" /\ radioRec[a] = radioRec[b] => a = b

=============================================================================

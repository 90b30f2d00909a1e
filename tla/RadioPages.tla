----------------------------- MODULE RadioPages -----------------------------
(***************************************************************************)
(* What the radio pages say of a recording and what the player is given.   *)
(* The listing of the music library selects rows in SQL and labels them in *)
(* Python, from the same facts; the files page marks the current radio     *)
(* file, the overview says whether it is available, and the audio view     *)
(* streams a part of it.  An entry of the library is a record of its       *)
(* recording's facts; its files are a sequence, in the order of the page.  *)
(***************************************************************************)
EXTENDS Integers, FiniteSets, Sequences

CONSTANTS
  NoBound,  \* an end of a requested range that is left out
  Chunk     \* bytes the player is sent at once

ASSUME ChunkAssumption == Chunk \in Nat \ {0}

-----------------------------------------------------------------------------
(* The files of a recording.                                               *)

Radio(e) == {i \in DOMAIN e.files : e.files[i].radio}

ActiveAt(f)  == {l \in DOMAIN f.locations : f.locations[l].status = "active"}
CurrentAt(f) == {l \in ActiveAt(f) : f.locations[l].current}

Unsound == {"missing", "conflict", "failed"}
Lost    == {"missing", "failed"}

-----------------------------------------------------------------------------
(* The listing.                                                            *)

HasActiveLocation(e) == \E i \in Radio(e) : CurrentAt(e.files[i]) # {}
HasFileProblem(e)    == \E i \in Radio(e) : e.files[i].sync \in Unsound
Collides(e)          == Cardinality(Radio(e)) > 1 /\ e.isrc

NeedsFollowUp(e) ==
  \/ Radio(e) = {} \/ ~HasActiveLocation(e) \/ HasFileProblem(e)
  \/ ~e.release \/ e.duplicate \/ e.issue \/ Collides(e)

RotationSelects(e, chosen) ==
  \/ /\ "suitable" \in chosen
     /\ e.rotation = "suitable" \/ e.channels # {}
     /\ e.rotation \notin {"not_suitable", "unassessed"}
  \/ "not_suitable" \in chosen /\ e.rotation = "not_suitable"
  \/ /\ "unassessed" \in chosen
     /\ e.rotation = "unassessed" \/ (e.rotation = "" /\ e.channels = {})

FileSelects(e, chosen) ==
  LET at(status) == \E i \in Radio(e) : \E l \in DOMAIN e.files[i].locations :
                      e.files[i].locations[l].status = status
  IN  \/ "available" \in chosen /\ at("active")
      \/ "missing" \in chosen /\ at("missing")
      \/ "problem" \in chosen /\ HasFileProblem(e)
      \/ "none" \in chosen /\ Radio(e) = {}

ChannelsSelect(e, chosen, all) ==
  IF all THEN chosen \subseteq e.channels ELSE chosen \cap e.channels # {}

\* Both answers to a question are the same as none; a filter nobody set selects all.
Answered(chosen, fact) ==
  /\ chosen = {"yes"} => fact
  /\ chosen = {"no"}  => ~fact

Selects(e, filter) ==
  /\ filter.rotation # {} => RotationSelects(e, filter.rotation)
  /\ filter.file # {} => FileSelects(e, filter.file)
  /\ filter.channels # {} => ChannelsSelect(e, filter.channels, filter.all)
  /\ Answered(filter.managed, e.managed)
  /\ Answered(filter.follow, NeedsFollowUp(e))
  /\ filter.collision => Collides(e)

\* The keys the listing is ordered by, of file status and follow-up.
SortFileStatus(e) ==
  IF HasFileProblem(e) THEN 3
  ELSE IF HasActiveLocation(e) THEN 2 ELSE IF Radio(e) # {} THEN 1 ELSE 0

RotationDisplay(e) ==
  IF e.rotation # "" THEN e.rotation
  ELSE IF e.channels # {} THEN "suitable" ELSE "unassessed"

Reasons(e) ==
  {r \in {"no file", "unavailable", "file problem", "no release", "duplicate", "issue", "collision"} :
     CASE r = "no file"      -> Radio(e) = {}
       [] r = "unavailable"  -> Radio(e) # {} /\ ~HasActiveLocation(e)
       [] r = "file problem" -> HasFileProblem(e)
       [] r = "no release"   -> ~e.release
       [] r = "duplicate"    -> e.duplicate
       [] r = "issue"        -> e.issue
       [] r = "collision"    -> Collides(e)}

FileStatusText(e) ==
  IF Radio(e) = {} THEN "none"
  ELSE IF \E i \in Radio(e) : ActiveAt(e.files[i]) # {} THEN "available"
  ELSE IF HasFileProblem(e) THEN "error" ELSE "unchecked"

RowOf(e) == [rotation |-> RotationDisplay(e), reasons |-> Reasons(e),
           file |-> FileStatusText(e), file_key |-> SortFileStatus(e),
           channels |-> e.channels, managed |-> e.managed]

-----------------------------------------------------------------------------
(* The storage and the player.                                             *)

\* resolve_location: the type of storage has a root and the path stays within it.
Resolvable(l) == l.storage \in {"nas", "local"} /\ l.path # "outside"
Readable(l)   == Resolvable(l) /\ l.path = "file"

Playable(f) == {l \in CurrentAt(f) : f.locations[l].storage \in {"nas", "local"}}

Competing(e) ==
  IF e.current # 0 THEN {e.current}
  ELSE {i \in Radio(e) : e.files[i].life \notin {"candidate", "historical"}}

Unresolved(status) == [status |-> status, asset |-> 0]

\* resolve_current_radio_asset.
Resolve(e, verify) ==
  LET sound == {i \in Competing(e) : e.files[i].sync \notin Lost}
      candidates == {i \in sound : Cardinality(Playable(e.files[i])) = 1}
  IN  IF Competing(e) = {} THEN Unresolved("no_radio_file")
      ELSE IF \/ \E i \in sound : Cardinality(Playable(e.files[i])) > 1
              \/ Cardinality(candidates) > 1 THEN Unresolved("ambiguous")
      ELSE IF candidates = {} THEN Unresolved("file_unavailable")
      ELSE LET i == CHOOSE c \in candidates : TRUE
               l == CHOOSE c \in Playable(e.files[i]) : TRUE
           IN  IF verify /\ ~Readable(e.files[i].locations[l])
               THEN [status |-> "file_unavailable", asset |-> i]
               ELSE [status |-> "available", asset |-> i]

\* Mutant of ParseByteRange: the end of the file does not bound the last byte.
RangeUnbounded(range, size) ==
  IF range.first = NoBound
  THEN IF range.last = NoBound THEN <<>>
       ELSE <<IF size > range.last THEN size - range.last ELSE 0, size - 1>>
  ELSE IF range.first >= size THEN <<>>
  ELSE <<range.first, IF range.last = NoBound THEN size - 1 ELSE range.last>>

\* The first and last byte of a range, none when it cannot be satisfied.
ParseByteRange(range, size) ==
  IF size <= 0 \/ (range.first = NoBound /\ range.last = NoBound) THEN <<>>
  ELSE IF range.first = NoBound
       THEN IF range.last <= 0 THEN <<>>
            ELSE <<IF size > range.last THEN size - range.last ELSE 0, size - 1>>
       ELSE LET last == IF range.last = NoBound THEN size - 1 ELSE range.last
            IN  IF range.first >= size \/ last < range.first THEN <<>>
                ELSE <<range.first, IF last < size THEN last ELSE size - 1>>

\* The pieces of n bytes, read from a file that has `left` bytes from the start on.
FileRange(length, left) ==
  LET pieces[n \in 0..length] ==
        LET wish == IF n < Chunk THEN n ELSE Chunk
            have == left - (length - n)
            read == IF wish < have THEN wish ELSE have
        IN  IF n = 0 \/ read <= 0 THEN <<>> ELSE <<read>> \o pieces[n - read]
  IN  pieces[length]

Refused(code, i) == [code |-> code, asset |-> i, length |-> 0, from |-> 0, body |-> <<>>]

\* recording_audio of a file of so many bytes; the range is a sequence, empty
\* when the request has no such header.
Audio(e, size, range, head) ==
  LET r == Resolve(e, TRUE)
      part == IF range = <<>> THEN <<0, IF size = 0 THEN 0 ELSE size - 1>>
              ELSE ParseByteRange(range[1], size)
      length == IF size = 0 THEN 0 ELSE part[2] - part[1] + 1
  IN  IF r.status = "ambiguous" THEN Refused(409, r.asset)
      ELSE IF r.status # "available" THEN Refused(404, r.asset)
      ELSE IF part = <<>> THEN Refused(416, r.asset)
      ELSE [code |-> IF range = <<>> THEN 200 ELSE 206, asset |-> r.asset,
            length |-> length, from |-> part[1],
            body |-> IF head THEN <<>> ELSE FileRange(length, size - part[1])]

-----------------------------------------------------------------------------
(* The pages of one recording.                                             *)

\* _asset_data: the status the files page gives a file.
FileStatus(e, i) ==
  LET f == e.files[i]
      missing == \E l \in DOMAIN f.locations : f.locations[l].current
                                               /\ f.locations[l].status = "missing"
  IN  IF i = Resolve(e, FALSE).asset THEN "current"
      ELSE IF i = e.master THEN "master"
      ELSE IF f.life \in {"candidate", "historical"} THEN f.life
      ELSE IF f.sync \in Lost \/ missing THEN "error"
      ELSE IF CurrentAt(f) # {} THEN "active"
      ELSE IF \E l \in DOMAIN f.locations : f.locations[l].status \in {"historical", "moved"}
           THEN "historical" ELSE f.sync

\* build_recording_files: what the page says of the radio file, each file's status
\* and the file it opens: the one asked for, the current one, or the first.
FilesPage(e, asked) ==
  LET current == Resolve(e, FALSE)
  IN  [radio |-> current.status,
       status |-> [i \in DOMAIN e.files |-> FileStatus(e, i)],
       open |-> IF asked \in DOMAIN e.files THEN asked
                ELSE IF current.asset # 0 THEN current.asset
                ELSE IF Radio(e) # {} THEN CHOOSE i \in Radio(e) : \A j \in Radio(e) : i <= j
                ELSE IF e.files # <<>> THEN 1 ELSE 0]

\* _technical_file: a file is available.
Available(f) == CurrentAt(f) # {} /\ f.sync \notin Lost

\* build_recording_overview: its remark about the radio files.
OverviewRemark(e) ==
  IF Radio(e) = {} THEN "no file"
  ELSE IF Cardinality(Radio(e)) > 1 THEN "several"
  ELSE IF \A i \in Radio(e) : ~Available(e.files[i]) THEN "unavailable" ELSE "none"

\* The state the list of the workbench gives an entry's files.
FileState(e) ==
  LET current == {i \in DOMAIN e.files : \E l \in DOMAIN e.files[i].locations :
                                           e.files[i].locations[l].current}
      verified == \E i \in current : \E l \in DOMAIN e.files[i].locations :
                    e.files[i].locations[l].current /\ e.files[i].locations[l].verified
  IN  IF verified THEN "verified" ELSE IF current # {} THEN "unchecked"
      ELSE IF e.files # <<>> THEN "reference" ELSE "missing"

=============================================================================

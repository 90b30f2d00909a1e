------------------------------ MODULE CwrFile -------------------------------
(***************************************************************************)
(* The contents of a CWR export (music_publisher: CWRExport.yield_lines    *)
(* and the templates of the four format versions).  The generator yields   *)
(* one record after the other; a record whose template is empty in the     *)
(* version leaves no line in the file and is not counted.                  *)
(*                                                                         *)
(* A line is a record with its type, the share it states for each kind of  *)
(* right in hundredths of a percent, the party and the publisher it is     *)
(* about, and, inside a transaction, the two sequence numbers.  Names,     *)
(* identifiers and the layout of the fields are left out; the 3.x formats  *)
(* print the shares of a party on its territory line only.                 *)
(***************************************************************************)
EXTENDS WriterShares, ListFolds

CONSTANTS
  Agreement,  \* percentage of each kind of right that goes to the publisher
  NoPublisher \* a line that names no publisher sequence

ASSUME AgreementAssumption == Agreement \in [{"pr", "mr", "sr"} -> 0..100]

Rights == DOMAIN Agreement

FileTypes == {"NWR", "REV", "NW2", "RE2", "WRK", "ISR", "WR1", "IS1"}

Version(type) ==
  CASE type \in {"WRK", "ISR"} -> "30"
    [] type \in {"WR1", "IS1"} -> "31"
    [] type \in {"NW2", "RE2"} -> "22"
    [] OTHER -> "21"

\* The templates of the 2.x formats, those the 3.x formats add, and the empty ones.
Templates2 == {"WRK", "SPU", "SPT", "SWR", "SWT", "PWR", "OPU", "OPT", "OWR", "OWT", "MAN",
               "ALT", "OWK", "PER", "REC", "ORN", "XRF"}
Templates3 == Templates2 \cup {"ISR", "WRI"}
Templates(version) == IF version \in {"30", "31"} THEN Templates3 ELSE Templates2
Empty(version) ==
  CASE version = "21" -> {"OPT", "OWT", "XRF", "MAN"}
    [] version = "22" -> {"OPT", "OWT", "MAN"}
    [] version = "30" -> {"MAN"}
    [] version = "31" -> {}

-----------------------------------------------------------------------------
\* cwrshare: rounded half up to hundredths of a percent.
Percent(share, p) == (share * p + 50) \div 100

PublisherPart(share) == [k \in Rights |-> Percent(share, Agreement[k])]
WriterPart(share)    == [k \in Rights |-> Percent(share, 100 - Agreement[k])]
WholePart(share)     == [k \in Rights |-> share]
NoPart               == [k \in Rights |-> 0]

Line(type, party, part, publisher) ==
  [type |-> type, party |-> party, part |-> part, publisher |-> publisher]
Plain(type) == Line(type, Unknown, NoPart, NoPublisher)

-----------------------------------------------------------------------------
(* calculate_publisher_shares.  Co-publishing: an uncontrolled line of a   *)
(* writer who also has a controlled one.                                   *)

Sum(form, Test(_)) == Added([i \in DOMAIN form |-> IF Test(form[i]) THEN form[i].share ELSE 0])

ControlledWriters(work) == {l.writer : l \in {m \in Lines(work.writers) : m.controlled}}
CopublishedLine(work, l) == ~ l.controlled /\ l.writer \in ControlledWriters(work)
Copublished(work) ==
  {l.writer : l \in {m \in Lines(work.writers) : CopublishedLine(work, m)}}

ControlledShare(work) == Sum(work.writers, LAMBDA l : l.controlled)
OtherPublisherShare(work) == Sum(work.writers, LAMBDA l : CopublishedLine(work, l))
\* Mutant of ShareOfWriter: only the controlled lines of a writer are summed.
ShareOfControlledLines(work, w) ==
  Sum(work.writers, LAMBDA l : l.controlled /\ l.writer = w)

ShareOfWriter(work, w) == Sum(work.writers, LAMBDA l : l.writer = w)

-----------------------------------------------------------------------------
(* get_party_lines.                                                        *)

PublisherLines(work) ==
  LET part == PublisherPart(ControlledShare(work)) IN
  <<Line("SPU", Unknown, part, 1)>>
  \o If(ControlledShare(work) # 0, <<Line("SPT", Unknown, part, NoPublisher)>>)

OtherPublisherLines(work) ==
  LET part == PublisherPart(OtherPublisherShare(work)) IN
  If(OtherPublisherShare(work) # 0,
     <<Line("OPU", Unknown, part, 2), Line("OPT", Unknown, part, NoPublisher)>>)

LinesOfControlled(work, l, version) ==
  LET share == ShareOfWriter(work, l.writer)
      part  == WriterPart(share)
  IN  <<Line("SWR", l.writer, part, NoPublisher)>>
      \o If(share # 0, <<Line("SWT", l.writer, part, NoPublisher),
                         Line("MAN", l.writer, WholePart(share), NoPublisher)>>)
      \o <<Line("PWR", l.writer, NoPart, 1)>>
      \o If(/\ version \in {"30", "31"} /\ OtherPublisherShare(work) # 0
            /\ l.writer \in Copublished(work),
            <<Line("PWR", l.writer, NoPart, 2)>>)

ControlledWriterLines(work, version) ==
  Concat([i \in DOMAIN work.writers |->
            LET l == work.writers[i] IN If(l.controlled, LinesOfControlled(work, l, version))])

LinesOfOther(work, l, version) ==
  LET part == WholePart(l.share)
  IN  <<Line("OWR", l.writer, part, NoPublisher)>>
      \o If(l.share # 0, <<Line("OWT", l.writer, part, NoPublisher),
                           Line("MAN", l.writer, part, NoPublisher)>>)
      \o If(version \in {"30", "31"} /\ OtherPublisherShare(work) # 0,
            <<Line("PWR", l.writer, NoPart, 2)>>)

OtherWriterLines(work, version) ==
  Concat([i \in DOMAIN work.writers |->
            LET l == work.writers[i]
            IN  If(~ l.controlled /\ ~ CopublishedLine(work, l), LinesOfOther(work, l, version))])

PartyLines(work, version) ==
  PublisherLines(work) \o OtherPublisherLines(work)
  \o ControlledWriterLines(work, version) \o OtherWriterLines(work, version)

-----------------------------------------------------------------------------
(* get_other_lines.                                                        *)

\* A recording without a date, a duration and an ISRC is left out of 2.x files.
RecordingLines(work, version) ==
  Concat([i \in DOMAIN work.recordings |->
            If(work.recordings[i].dated \/ version \in {"30", "31"}, <<Plain("REC")>>)])

AlternateTitles(work) ==
  LET ofRecordings == UNION {r.titles : r \in Range(work.recordings)} \ {work.title}
  IN  {t \in work.titles : t[1] # work.title} \cup {<<t, "AT">> : t \in ofRecordings}

Artists(work) ==
  work.artists \cup ({r.artist : r \in Range(work.recordings)} \ {Unknown})

OtherLines(work, version) ==
  [t \in 1..Cardinality(AlternateTitles(work)) |-> Plain("ALT")]
  \o If(work.modification, <<Plain("OWK")>>)
  \o [a \in 1..Cardinality(Artists(work)) |-> Plain("PER")]
  \o RecordingLines(work, version)
  \o If(work.library, <<Plain("ORN")>>)
  \o [x \in 1..work.references |-> Plain("XRF")]

-----------------------------------------------------------------------------
(* The transactions: a registration, or an ISWC request.                   *)

RegistrationLines(work, version) ==
  <<Plain("WRK")>> \o PartyLines(work, version) \o OtherLines(work, version)

\* One WRI for every known writer and role.
IswcRequestLines(work) ==
  LET named == {<<l.writer, l.role>> : l \in {m \in Lines(work.writers) : m.writer # Unknown}}
  IN  <<Plain("ISR")>> \o [w \in 1..Cardinality(named) |-> Plain("WRI")]

Transaction(work, type) ==
  IF type = "ISR" THEN IswcRequestLines(work) ELSE RegistrationLines(work, Version(type))

\* get_transaction_record: what is printed is numbered and counted.
Blank(line, version) == line.type \in Empty(version)
Printed(lines, version) == Filtered(lines, LAMBDA l : ~ Blank(l, version))
Counted(lines, version) == Len(Printed(lines, version))

Numbered(lines, t) ==
  [i \in DOMAIN lines |->
     [line |-> lines[i], transaction_sequence |-> t - 1, record_sequence |-> i - 1]]

Transactions(works, type) ==
  [t \in DOMAIN works |-> Numbered(Printed(Transaction(works[t], type), Version(type)), t)]

\* The role of a known writer is read without a test when an ISWC is asked for.
Renders(works, type) ==
  /\ \A t \in DOMAIN works : \A l \in Range(Transaction(works[t], type)) :
       l.type \in Templates(Version(type))
  /\ type = "ISR" =>
       \A t \in DOMAIN works : \A l \in Lines(works[t].writers) :
         l.writer # Unknown => l.role # NoRole

-----------------------------------------------------------------------------
\* yield_lines: the file, with the counts its two trailers state.
RecordCount(works, type) ==
  Added([t \in DOMAIN works |-> Counted(Transaction(works[t], type), Version(type))])

Trailer(type, transactions, records) ==
  [type |-> type, transaction_count |-> transactions, record_count |-> records]

File(works, type) ==
  <<[type |-> "HDR"], [type |-> "GRH"]>>
  \o Concat(Transactions(works, type))
  \o <<Trailer("GRT", Len(works), RecordCount(works, type) + 2),
       Trailer("TRL", Len(works), RecordCount(works, type) + 4)>>

=============================================================================

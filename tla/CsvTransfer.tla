----------------------------- MODULE CsvTransfer ----------------------------
(***************************************************************************)
(* Musical works on their way to another installation (music_publisher):   *)
(* the CSV file WorkAdmin.create_csv writes, and what DataImporter makes   *)
(* of its rows in a database without works.                                *)
(*                                                                         *)
(* A line of a work has the number of its specific agreement, or NoValue;  *)
(* a writer has that of the general one.  A row holds the cells both sides *)
(* know, by column; an empty cell is NoValue.  Cells the importer reads    *)
(* but does not use (mechanical and synchronisation societies, the shares  *)
(* after publishing, recording codes, labels) are left out.                *)
(***************************************************************************)
EXTENDS WriterShares

CONSTANT NoValue  \* the SQL NULL, and an empty cell

\* A writer, and a line of a work.
Cell == STRING \cup {NoValue}
Contributor ==
  [name : Cell, ipi : Cell, pro : Cell, general : BOOLEAN, saan : Cell, able : BOOLEAN]
WriterLine ==
  [writer : Contributor \cup {Unknown}, role : Roles \cup {NoRole}, share : Int,
   controlled : BOOLEAN, saan : Cell]

\* The writers the lines of works name.
Contributors(works) ==
  {l.writer : l \in UNION {Range(w.writers) : w \in Range(works)}} \ {Unknown}

\* A line as the form's rules read it.
AsForm(l) ==
  [writer |-> l.writer, role |-> l.role, share |-> l.share, controlled |-> l.controlled,
   agreement |-> l.saan # NoValue]

-----------------------------------------------------------------------------
(* WriterInWork.get_agreement_dict.                                        *)

UnderGeneral(l) == l.controlled /\ l.writer.general /\ l.saan = NoValue
AgreementNumber(l) == IF UnderGeneral(l) THEN l.writer.saan ELSE l.saan

-----------------------------------------------------------------------------
(* get_rows_for_csv.                                                       *)

Of(w, field) == IF w = Unknown THEN NoValue ELSE w[field]

WriterCells(l) ==
  [name |-> Of(l.writer, "name"), ipi |-> Of(l.writer, "ipi"), pro |-> Of(l.writer, "pro"),
   role |-> l.role, manuscript_share |-> l.share,
   controlled |-> IF UnderGeneral(l) THEN "General Agreement"
                  ELSE IF l.controlled THEN "Yes" ELSE "No",
   saan |-> IF l.controlled THEN AgreementNumber(l) ELSE NoValue]

Row(work) ==
  [work_id |-> work.id, original_title |-> work.modification,
   writers |-> [i \in DOMAIN work.writers |-> WriterCells(work.writers[i])],
   recordings |-> [i \in DOMAIN work.recordings |->
                     [isrc |-> work.recordings[i].isrc, artist_last |-> work.recordings[i].artist]]]

-----------------------------------------------------------------------------
(* get_writers: the writer a row names is found by name and IPI number.    *)

General(cells) == cells.controlled = "General Agreement"

NamesWriter(cells) ==
  cells.name # NoValue \/ cells.ipi # NoValue \/ cells.pro # NoValue \/ General(cells)

Lookup(cells) ==
  [name |-> cells.name, ipi |-> cells.ipi, pro |-> cells.pro, general |-> General(cells),
   saan |-> IF General(cells) THEN cells.saan ELSE NoValue,
   able |-> cells.ipi # NoValue /\ cells.pro # NoValue]

Found(writers, name, ipi) == {w \in writers : w.name = name /\ w.ipi = ipi}

\* Mutant of Adopted: the writer found is left as it is.
Kept(w, k) == w

\* A general agreement in the file is taken over.
Adopted(w, k) ==
  IF k.general /\ ~ w.general THEN [w EXCEPT !.general = TRUE, !.saan = k.saan] ELSE w

Merged(writers, k) ==
  LET found == Found(writers, k.name, k.ipi)
  IN  IF found = {} THEN k ELSE Adopted(CHOOSE w \in found : TRUE, k)

Mergeable(writers, k) ==
  LET w == Merged(writers, k) IN
  /\ SoundWriter(k)
  /\ \A v \in writers \ Found(writers, k.name, k.ipi) : k.ipi = NoValue \/ v.ipi # k.ipi
  /\ k.general => w.saan = k.saan
  /\ w.pro = k.pro

-----------------------------------------------------------------------------
(* process_row: s is the work read so far and the writers in the database. *)

ImportLine(s, cells) ==
  LET k == Lookup(cells)
      w == IF NamesWriter(cells) THEN Merged(s.writers, k) ELSE Unknown
      line == [writer |-> w, role |-> cells.role, share |-> cells.manuscript_share,
               controlled |-> cells.controlled # "No",
               saan |-> IF cells.saan = Of(w, "saan") THEN NoValue ELSE cells.saan]
  IN  [ok      |-> /\ s.ok
                   /\ NamesWriter(cells) => Mergeable(s.writers, k)
                   /\ SoundLine(AsForm(line)),
       writers |-> IF NamesWriter(cells) THEN (s.writers \ Found(s.writers, k.name, k.ipi)) \cup {w}
                                         ELSE s.writers,
       lines   |-> Append(s.lines, line)]

\* A column nobody knows refuses the file, unless the user has it ignored.
KnownColumns(row, ignore) ==
  ignore \/ \A r \in Range(row.recordings) : r.artist_last = NoValue

\* An error that is noted at a line stops nobody: the importer calls the clean itself.
ImportRow(s, row, ignore) ==
  LET read == FoldLeft(ImportLine, [ok |-> s.ok, writers |-> s.writers, lines |-> <<>>], row.writers)
  IN  [ok      |-> /\ read.ok /\ KnownColumns(row, ignore)
                   /\ Complete([i \in DOMAIN read.lines |-> AsForm(read.lines[i])],
                               row.original_title)
                   /\ \A w \in Range(s.works) : w.id # row.work_id,
       writers |-> read.writers,
       works   |-> Append(s.works, [id |-> row.work_id, modification |-> row.original_title,
                                    writers |-> read.lines,
                                    recordings |-> {r.isrc : r \in Range(row.recordings)}])]

\* The lines of a work point to the writers as they are in the end.
Resolved(s, work) ==
  [work EXCEPT !.writers =
     [i \in DOMAIN work.writers |->
        LET l == work.writers[i]
        IN  IF l.writer = Unknown THEN l
            ELSE [l EXCEPT !.writer =
                    CHOOSE w \in Found(s.writers, l.writer.name, l.writer.ipi) : TRUE]]]

\* DataImportForm.clean: the works of the file, or nothing of it.
Transferred(works, ignore) ==
  LET s == FoldLeft(LAMBDA t, w : ImportRow(t, Row(w), ignore),
                    [ok |-> TRUE, writers |-> {}, works |-> <<>>], works)
  IN  [ok |-> s.ok, works |-> [i \in DOMAIN s.works |-> Resolved(s, s.works[i])]]

=============================================================================

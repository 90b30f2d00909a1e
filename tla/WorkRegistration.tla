-------------------------- MODULE WorkRegistration --------------------------
(***************************************************************************)
(* Registration of musical works (music_publisher: Work, Writer, CWRExport,*)
(* WorkAcknowledgement and their admin views): works get permanent         *)
(* identifiers and are exported under them, societies acknowledge the      *)
(* works of an export by identifier, and ISWCs come in with the            *)
(* acknowledgements.                                                       *)
(*                                                                         *)
(* A request of the admin site is one transaction.  It reads and validates *)
(* first and writes at its end, whole rows as they were read; between the  *)
(* two other requests run when Overlap is TRUE.  A request may break off,  *)
(* which rolls it back.  Deletion of works is not modelled.                *)
(***************************************************************************)
EXTENDS Naturals, Sequences, FiniteSets, FiniteSetsExt

CONSTANTS
  Works,       \* primary keys of works
  Writers,     \* writers
  Exports,     \* primary keys of CWR exports
  LegacyExport,\* exports kept from versions that did not store their file
  Staff,       \* users, one request of each at a time
  Codes,       \* values of the setting PUBLISHER_CODE
  FirstCode,   \* the one at the start
  GivenIds,    \* identifiers works may carry when they are imported
  Iswcs,       \* international work codes
  AckFiles,    \* acknowledgement files: sequences of records
  Statuses,    \* transaction statuses of acknowledgements
  Overlap,     \* whether requests may overlap
  MaxYear,     \* bound on the years that pass
  Null         \* the SQL NULL

\* An identifier made up by the program: the publisher's code and the primary key.
AutoId(code, w) == <<code, w>>

Ids == GivenIds \cup {AutoId(c, w) : c \in Codes, w \in Works}
AckRecord == [id : Ids, iswc : Iswcs \cup {Null}, status : Statuses]

ASSUME ExportsAssumption == IsFiniteSet(Exports) /\ LegacyExport \subseteq Exports
ASSUME CodesAssumption == FirstCode \in Codes
ASSUME FilesAssumption == AckFiles \subseteq Seq(AckRecord)
ASSUME BoundAssumption == Overlap \in BOOLEAN /\ MaxYear \in Nat
ASSUME NullAssumption == Null \notin Ids

VARIABLES
  work,      \* Work rows with their controlled writers
  able,      \* Writer._can_be_controlled
  export,    \* CWRExport rows
  acks,      \* how often each acknowledgement of a work is recorded
  code,      \* the setting PUBLISHER_CODE
  year,      \* the current year
  request    \* the request each user waits for

registrationVars == <<work, able, export, acks, code, year, request>>

NoWork == [there |-> FALSE, id |-> Null, iswc |-> Null, controlled |-> {}]
NoExport == [state |-> "none", year |-> Null, num |-> 0, ids |-> <<>>]
Idle == [kind |-> "idle"]

WorkRow == [there : BOOLEAN, id : Ids \cup {Null}, iswc : Iswcs \cup {Null},
            controlled : SUBSET Writers]
Lines == UNION {[ws -> Ids] : ws \in SUBSET Works}
ExportRow == [state : {"none", "legacy", "done"}, year : Nat \cup {Null}, num : Nat,
              ids : Lines]
Request ==
  {Idle}
  \cup [kind : {"work"}, of : Works, row : WorkRow]
  \cup [kind : {"writer"}, of : Writers, data : BOOLEAN]
  \cup [kind : {"export"}, of : Exports, row : ExportRow]
  \cup [kind : {"acks"}, rows : UNION {[ws -> WorkRow] : ws \in SUBSET Works},
         new : SUBSET (Works \X Statuses)]

RegistrationTypeOK ==
  /\ work \in [Works -> WorkRow]
  /\ able \in [Writers -> BOOLEAN]
  /\ export \in [Exports -> ExportRow]
  /\ acks \in [Works \X Statuses -> Nat]
  /\ code \in Codes /\ year \in Nat
  /\ request \in [Staff -> Request]

Present == {w \in Works : work[w].there}
DoneExports == {x \in Exports : export[x].state = "done"}

\* Work.work_id.
WorkId(w) == IF work[w].id # Null THEN work[w].id ELSE AutoId(code, w)

RegistrationInit ==
  /\ work = [w \in Works |-> NoWork]
  /\ able = [p \in Writers |-> TRUE]
  /\ export = [x \in Exports |-> IF x \in LegacyExport THEN [NoExport EXCEPT !.state = "legacy"]
                                                       ELSE NoExport]
  /\ acks = [a \in Works \X Statuses |-> 0]
  /\ code = FirstCode
  /\ year = 1
  /\ request = [u \in Staff |-> Idle]

-----------------------------------------------------------------------------
Begin(u, r) ==
  /\ request[u] = Idle
  /\ Overlap \/ \A v \in Staff : request[v] = Idle
  /\ request' = [request EXCEPT ![u] = r]
  /\ UNCHANGED <<work, able, export, acks, code, year>>

Finish(u) == request' = [request EXCEPT ![u] = Idle]

\* The primary key of a new row is no other request's.
OwnKey(kind, k) == \A v \in Staff : request[v].kind = kind => request[v].of # k

\* The unique constraints on _work_id and iswc.
Unique(rows) ==
  \A v, w \in Works : v # w => /\ rows[v].id # Null => rows[v].id # rows[w].id
                               /\ rows[v].iswc # Null => rows[v].iswc # rows[w].iswc

\* The process dies, the database refuses: the transaction is rolled back.
BreakOff(u) ==
  /\ request[u] # Idle
  /\ Finish(u)
  /\ UNCHANGED <<work, able, export, acks, code, year>>

-----------------------------------------------------------------------------
(* The form of a work, and a row of a data import: every controlled writer *)
(* has the data control requires, and there is at least one.               *)

Controllable(ps) == ps # {} /\ \A p \in ps : able[p]

\* An ISWC of another work is refused by the form.
Free(iswc, w) == iswc = Null \/ \A v \in Works \ {w} : work[v].iswc # iswc

BeginSaveWork(u, w, id, iswc, ps) ==
  /\ IF work[w].there THEN id = Null ELSE id \in GivenIds \cup {Null} /\ OwnKey("work", w)
  /\ Free(iswc, w) /\ Controllable(ps)
  /\ Begin(u, [kind |-> "work", of |-> w,
               row |-> [there |-> TRUE, iswc |-> iswc, controlled |-> ps,
                        id |-> IF work[w].there THEN work[w].id ELSE id]])

EndSaveWork(u) ==
  LET r == request[u]
      rows == [work EXCEPT ![r.of] = r.row]
  IN  /\ r.kind = "work"
      /\ Unique(rows)
      /\ work' = rows
      /\ Finish(u)
      /\ UNCHANGED <<able, export, acks, code, year>>

\* Writer.clean: a writer who is controlled somewhere keeps the data.
ControlledIn(p) == {w \in Works : p \in work[w].controlled}
MayLoseData(p) == ControlledIn(p) = {}

BeginSaveWriter(u, p, data) ==
  /\ data \/ MayLoseData(p)
  /\ Begin(u, [kind |-> "writer", of |-> p, data |-> data])

EndSaveWriter(u) ==
  LET r == request[u] IN
  /\ r.kind = "writer"
  /\ able' = [able EXCEPT ![r.of] = r.data]
  /\ Finish(u)
  /\ UNCHANGED <<work, export, acks, code, year>>

-----------------------------------------------------------------------------
(* Exports.                                                                *)

\* Mutant of Persisted: the export leaves the works as they are.
LeftOpen(ws) == work

\* Work.persist_work_ids.
Persisted(ws) ==
  [w \in Works |-> IF w \in ws /\ work[w].id = Null
                   THEN [work[w] EXCEPT !.id = AutoId(code, w)] ELSE work[w]]

OfYear(y) == {x \in DoneExports : export[x].year = y}
\* Mutant of NextNumber: the list of exports is read from its other end.
NumberAfterFirst(y) ==
  IF OfYear(y) = {} THEN 1 ELSE Min({export[x].num : x \in OfYear(y)}) + 1

NextNumber(y) == IF OfYear(y) = {} THEN 1 ELSE Max({export[x].num : x \in OfYear(y)}) + 1

\* CWRExport.create_cwr up to its save: the number, and the lines of the works.
Created(ws) == [state |-> "done", year |-> year, num |-> NextNumber(year),
                ids |-> [w \in ws |-> WorkId(w)]]

BeginExport(u, x, ws) ==
  /\ export[x].state = "none" /\ OwnKey("export", x)
  /\ ws \subseteq Present /\ ws # {}
  /\ Begin(u, [kind |-> "export", of |-> x, row |-> Created(ws)])

EndExport(u) ==
  LET r == request[u]
      rows == Persisted(DOMAIN r.row.ids)
  IN  /\ r.kind = "export"
      /\ Unique(rows)
      /\ export' = [export EXCEPT ![r.of] = r.row]
      /\ work' = rows
      /\ Finish(u)
      /\ UNCHANGED <<able, acks, code, year>>

\* An edit of the description in the list completes an export without a file, with the
\* works it holds; of one that has the file nothing else changes.
BeginEditDescription(u, x, ws) ==
  /\ export[x].state = "legacy"
  /\ ws \subseteq Present
  /\ Begin(u, [kind |-> "export", of |-> x, row |-> Created(ws)])

\* has_delete_permission: an export with a file is never deleted.
DeleteExport(u, x) ==
  /\ request[u] = Idle
  /\ Overlap \/ \A v \in Staff : request[v] = Idle
  /\ export[x].state = "legacy"
  /\ export' = [export EXCEPT ![x] = NoExport]
  /\ UNCHANGED <<work, able, acks, code, year, request>>

\* WorkAdmin.create_json: identifiers are persisted outside of a transaction.
CreateJson(u, ws) ==
  /\ request[u] = Idle
  /\ Overlap \/ \A v \in Staff : request[v] = Idle
  /\ ws \subseteq Present
  /\ Unique(Persisted(ws))
  /\ work' = Persisted(ws)
  /\ UNCHANGED <<able, export, acks, code, year, request>>

-----------------------------------------------------------------------------
(* ACKImportAdmin.process, on the works and acknowledgements it has read.  *)

Named(rows, id) == {w \in Works : rows[w].id = id}

\* The ISWC of a record is taken when the work has none and no other work has it.
WithIswc(rows, w, iswc) ==
  IF iswc # Null /\ rows[w].iswc = Null /\ \A v \in Works \ {w} : rows[v].iswc # iswc
  THEN [rows EXCEPT ![w].iswc = iswc] ELSE rows

\* Mutant of Recorded: every line makes a new row.
Appended(counts, a) == [counts EXCEPT ![a] = @ + 1]

\* get_or_create.
Recorded(counts, a) == IF counts[a] = 0 THEN [counts EXCEPT ![a] = 1] ELSE counts

ProcessRecord(s, record) ==
  LET ws == Named(s.rows, record.id) IN
  IF ws = {} THEN s
  ELSE LET w == CHOOSE v \in ws : TRUE
       IN  [rows |-> WithIswc(s.rows, w, record.iswc),
            counts |-> Recorded(s.counts, <<w, record.status>>)]

\* The records of a file, one after the other.
Processed(file) ==
  LET after[n \in 0..Len(file)] ==
        IF n = 0 THEN [rows |-> work, counts |-> acks]
        ELSE ProcessRecord(after[n - 1], file[n])
  IN  after[Len(file)]

\* Without "Import ISWCs" the first record breaks the import off.
BeginImportAcks(u, file, withIswcs) ==
  /\ withIswcs \/ file = <<>>
  /\ LET result == Processed(file)
     IN  Begin(u, [kind |-> "acks",
                   rows |-> [w \in {v \in Works : result.rows[v] # work[v]} |-> result.rows[w]],
                   new |-> {a \in DOMAIN acks : result.counts[a] # acks[a]}])

EndImportAcks(u) ==
  LET r == request[u]
      rows == [w \in Works |-> IF w \in DOMAIN r.rows THEN r.rows[w] ELSE work[w]]
  IN  /\ r.kind = "acks"
      /\ Unique(rows)
      /\ work' = rows
      /\ acks' = [a \in DOMAIN acks |-> IF a \in r.new THEN acks[a] + 1 ELSE acks[a]]
      /\ Finish(u)
      /\ UNCHANGED <<able, export, code, year>>

-----------------------------------------------------------------------------
\* A deployment with another publisher code, and the turn of the year.
ChangeCode(c) ==
  /\ \A u \in Staff : request[u] = Idle
  /\ c # code
  /\ code' = c
  /\ UNCHANGED <<work, able, export, acks, year, request>>

NewYear ==
  /\ year < MaxYear
  /\ year' = year + 1
  /\ UNCHANGED <<work, able, export, acks, code, request>>

Requested(u) ==
  \/ \E w \in Works, id \in GivenIds \cup {Null}, iswc \in Iswcs \cup {Null}, ps \in SUBSET Writers :
       BeginSaveWork(u, w, id, iswc, ps)
  \/ \E p \in Writers, data \in BOOLEAN : BeginSaveWriter(u, p, data)
  \/ \E x \in Exports, ws \in SUBSET Works :
       BeginExport(u, x, ws) \/ BeginEditDescription(u, x, ws)
  \/ \E x \in Exports : DeleteExport(u, x)
  \/ \E ws \in SUBSET Works : CreateJson(u, ws)
  \/ \E file \in AckFiles, withIswcs \in BOOLEAN : BeginImportAcks(u, file, withIswcs)

Ended(u) ==
  EndSaveWork(u) \/ EndSaveWriter(u) \/ EndExport(u) \/ EndImportAcks(u) \/ BreakOff(u)

RegistrationNext ==
  \/ \E u \in Staff : Requested(u) \/ Ended(u)
  \/ \E c \in Codes : ChangeCode(c)
  \/ NewYear

RegistrationSpec == RegistrationInit /\ [][RegistrationNext]_registrationVars

-----------------------------------------------------------------------------
(* Properties.                                                             *)

\* No two files of a year have the same number, and so the same name, though exports
\* without a file come, go and are completed late (CWRExport.create_cwr).
NumbersUnique ==
  \A x, y \in DoneExports : export[x].year = export[y].year /\ export[x].num = export[y].num => x = y

\* "permanent work id, either imported or fixed when exports are created": a work
\* keeps the identifier it was exported under, whatever is edited, imported or
\* configured later.
ExportedIdKept ==
  \A x \in DoneExports : \A w \in DOMAIN export[x].ids : work[w].id = export[x].ids[w]

\* "without duplicates": however often files are imported again, an acknowledgement
\* is recorded once (ACKImportAdmin.process).
AcknowledgedOnce == \A a \in DOMAIN acks : acks[a] <= 1

=============================================================================

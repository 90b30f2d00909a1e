------------------------------ MODULE FlacTags ------------------------------
(***************************************************************************)
(* The tags of a radio file: how the adapter reads them, what the          *)
(* synchronisation writes into them, how a file is compared with the       *)
(* catalogue, and the tags a generated radio file is given.                *)
(*                                                                         *)
(* A text is the sequence of the names that separators part it into, none  *)
(* when it is blank; a tag has a sequence of texts, none when it is not    *)
(* there.  A COMMENT line that embeds a tag is a record of that tag and    *)
(* its text.                                                               *)
(***************************************************************************)
EXTENDS Integers, FiniteSets, ListFolds

\* TAG_ALIASES, of the fields that stand for their kinds: texts, lists of names,
\* numbers and controlled values.
Aliases ==
  [title |-> <<"TITLE">>, artists |-> <<"ARTIST">>, composers |-> <<"COMPOSER">>,
   isrc |-> <<"ISRC">>, album |-> <<"ALBUM">>, track_number |-> <<"TRACKNUMBER", "TRACK">>,
   date |-> <<"DATE", "YEAR">>, barcode |-> <<"BARCODE", "UPC">>,
   genre |-> <<"GENRE">>, language |-> <<"LANGUAGE">>, energy |-> <<"RATING", "ENERGY">>,
   channels |-> <<"KANAL", "CHANNEL">>, rotation_suitability |-> <<"ROTATION", "ROTASJON">>]

Fields == DOMAIN Aliases
RadioFields == {"genre", "language", "energy", "channels", "rotation_suitability"}
Lists == {"artists", "composers", "channels", "genre"}
Tags == UNION {Range(Aliases[field]) : field \in Fields}

Untagged == [tag \in Tags |-> <<>>]

-----------------------------------------------------------------------------
(* Reading.                                                                *)

\* _with_embedded_txxx: what a comment embeds is one more text of its tag, unless
\* the tag has it.
Exposed(file) ==
  FoldLeft(LAMBDA tags, line :
             IF line.text = <<>> \/ line.text \in Range(tags[line.tag]) THEN tags
             ELSE [tags EXCEPT ![line.tag] = Append(@, line.text)],
           file.tags, file.comments)

Present(text) == text # <<>>

\* Mutant of Values: the last alias comes first.
ValuesReversed(tags, field) ==
  LET aliases == Reverse(Aliases[field])
  IN  Filtered(Concat([i \in DOMAIN aliases |-> tags[aliases[i]]]), Present)

\* _values: the texts of the field's tags, alias after alias.
Values(tags, field) ==
  LET aliases == Aliases[field]
  IN  Filtered(Concat([i \in DOMAIN aliases |-> tags[aliases[i]]]), Present)

\* _multi_values: the names of all texts, each once.
MultiValues(texts) == EachOnce(Concat(texts))

First(texts) == IF texts = <<>> THEN <<>> ELSE texts[1]

\* _position, normalize_energy and the tables of controlled values, for the texts that
\* stand for the ways to write them.
KnownAs(field) ==
  CASE field = "track_number" -> [text \in {"3", "3/12"} |-> "3"]
    [] field = "energy"       -> [text \in {"3", "60"} |-> "3"]
    [] field = "language"     -> [text \in {"norsk"} |-> "no"]
    [] field = "rotation_suitability" ->
         [text \in {"Rotasjonsverdig", "ROTASJONSVERDIG", "Ikke Rotasjonsverdig", "Ikke vurdert"} |->
            CASE text = "Ikke Rotasjonsverdig" -> "not_suitable"
              [] text = "Ikke vurdert" -> "unassessed"
              [] OTHER -> "suitable"]

Tabled == {"energy", "rotation_suitability"}

\* A position that is no number is none, a language without a code is kept.
Normalized(field, text) ==
  IF text = <<>> THEN <<>>
  ELSE IF text[1] \in DOMAIN KnownAs(field) THEN <<KnownAs(field)[text[1]]>>
  ELSE IF field = "language" THEN text ELSE <<>>

\* read_flac: the value of every field, a sequence of names.
Parsed(file) ==
  LET tags == Exposed(file) IN
  [field \in Fields |->
     LET texts == Values(tags, field) IN
     IF field \in Lists THEN MultiValues(texts)
     ELSE IF field \in Tabled \cup {"track_number", "language"}
     THEN Normalized(field, First(texts)) ELSE First(texts)]

\* The controlled fields whose value is none the adapter knows.
Invalid(file) ==
  {field \in Tabled : LET text == First(Values(Exposed(file), field))
                          IN  text # <<>> /\ Normalized(field, text) = <<>>}

-----------------------------------------------------------------------------
(* The catalogue: a title, an ISRC, credits in their order, and the release *)
(* and track of the file, none or a sequence of one.                        *)

CreditsOf(c, roles) == Filtered(c.credits, LAMBDA k : k.role \in roles)

\* What the synchronisation calls a contributor, and what the catalogue shows.
TagName(k) == IF k.credited # <<>> THEN k.credited ELSE k.party
DisplayCredit(k) ==
  IF k.credited # <<>> THEN k.credited ELSE IF k.identity # <<>> THEN k.identity ELSE k.party

TagNames(c, role) ==
  LET of == CreditsOf(c, {role}) IN [i \in DOMAIN of |-> TagName(of[i])]

OneText(text) == IF text = <<>> THEN <<>> ELSE <<text>>
NamesAsTexts(names) == [i \in DOMAIN names |-> <<names[i]>>]

\* _catalogue_tags: the value of each tag, none to delete it; those of the release are
\* written if the file is on one.
RecordingTags(c) ==
  [TITLE |-> OneText(c.title), ISRC |-> OneText(c.isrc),
   ARTIST |-> OneText(First(TagNames(c, "primary"))), COMPOSER |-> TagNames(c, "composer")]
ReleaseTags(r) ==
  [ALBUM |-> OneText(r.album), TRACKNUMBER |-> OneText(r.track),
   DATE |-> OneText(r.date), BARCODE |-> OneText(r.barcode)]

\* write_catalogue_tags: every other tag and the comments stay.
WrittenTo(file, c) ==
  LET tags == Updated(file.tags, RecordingTags(c))
  IN  [file EXCEPT !.tags = IF c.release = <<>> THEN tags ELSE Updated(tags, ReleaseTags(c.release[1]))]

\* _catalogue_metadata_differs
Differs(c, parsed) ==
  LET wanted == RecordingTags(c)
      one(name) == IF name = <<>> THEN <<>> ELSE <<First(name)>>
  IN  \/ parsed.title # First(wanted.TITLE) \/ parsed.isrc # First(wanted.ISRC)
      \/ one(parsed.artists) # First(wanted.ARTIST)
      \/ NamesAsTexts(parsed.composers) # wanted.COMPOSER
      \/ /\ c.release # <<>>
         /\ LET of == ReleaseTags(c.release[1])
            IN  \/ parsed.album # First(of.ALBUM) \/ parsed.track_number # First(of.TRACKNUMBER)
                \/ parsed.date # First(of.DATE) \/ parsed.barcode # First(of.BARCODE)

-----------------------------------------------------------------------------
(* The tags of a generated file.                                           *)

\* _credit_values: each name once.
CreditValues(c, roles) ==
  LET of == CreditsOf(c, roles) IN EachOnce([i \in DOMAIN of |-> DisplayCredit(of[i])])

DbCatalogueTags(c) ==
  [TITLE |-> OneText(c.title), ISRC |-> OneText(c.isrc),
   ARTIST |-> CreditValues(c, {"primary", "featured"}), COMPOSER |-> CreditValues(c, {"composer"})]

SnapshotCatalogueTags(parsed, c) ==
  [TITLE |-> OneText(IF parsed.title # <<>> THEN parsed.title ELSE c.title),
   ARTIST |-> NamesAsTexts(parsed.artists), COMPOSER |-> NamesAsTexts(parsed.composers),
   ISRC |-> OneText(parsed.isrc), ALBUM |-> OneText(parsed.album),
   TRACKNUMBER |-> OneText(parsed.track_number), DATE |-> OneText(parsed.date),
   BARCODE |-> OneText(parsed.barcode)]

RotationLabel(value) ==
  CASE value = <<"suitable">> -> <<"Rotasjonsverdig">>
    [] value = <<"not_suitable">> -> <<"Ikke Rotasjonsverdig">>
    [] value = <<"unassessed">> -> <<"Ikke vurdert">>
    [] OTHER -> <<>>

RadioTags(parsed) ==
  [GENRE |-> NamesAsTexts(parsed.genre), LANGUAGE |-> OneText(parsed.language),
   RATING |-> OneText(parsed.energy), KANAL |-> NamesAsTexts(parsed.channels),
   ROTATION |-> OneText(RotationLabel(parsed.rotation_suitability))]

\* build_generation_preview and _write_and_verify_tags: the tags come from the
\* catalogue of managed music, else from the radio file, the radio tags always from it.
GeneratedFrom(c, file, managed) ==
  LET parsed == Parsed(file)
      radio  == Updated(Untagged, RadioTags(parsed))
  IN  [tags |-> IF managed THEN Updated(radio, DbCatalogueTags(c))
                           ELSE Updated(radio, SnapshotCatalogueTags(parsed, c)),
       comments |-> <<>>]

-----------------------------------------------------------------------------
\* The names are plain, nobody composed twice.
PlainCredits(c) ==
  LET composers == TagNames(c, "composer")
  IN  /\ \A i \in DOMAIN c.credits : Len(TagName(c.credits[i])) = 1
      /\ \A i, j \in DOMAIN composers : composers[i] = composers[j] => i = j

\* A title, a name or a tag, as a sequence of pieces.
Text == Seq(STRING)

=============================================================================

--------------------------- MODULE MCCalculations ---------------------------
(* Inputs of Calculations for TLC.  A work is a form of up to three lines  *)
(* over three writers and nobody, whose shares round in different ways.    *)
EXTENDS Calculations, TLC

MCAgreement == [pr |-> 50, mr |-> 100, sr |-> 33]
MCSplit == [p |-> 50, m |-> 100, s |-> 33]

general == [code |-> "W1", general |-> TRUE, able |-> TRUE]
able    == [code |-> "W2", general |-> FALSE, able |-> TRUE]
partial == [code |-> "W3", general |-> FALSE, able |-> FALSE]

LinesWith(share) ==
  [writer : {general, able, partial, Unknown}, role : {"C ", "AR", NoRole},
   share : {share}, controlled : BOOLEAN, agreement : {FALSE}]

Forms ==
  {<<l>> : l \in LinesWith(10000)}
  \cup {<<l, m>> : l \in LinesWith(3335), m \in LinesWith(6665)}
  \cup {<<l, m, n>> : l \in {k \in LinesWith(3333) : k.controlled},
                      m \in LinesWith(3333), n \in LinesWith(3334)}
  \cup {<<l, m, n>> : l \in {k \in LinesWith(0) : k.controlled},
                      m \in LinesWith(2501), n \in LinesWith(7499)}

Acceptable == {w \in [writers : Forms, modification : BOOLEAN] :
                 Accepted(w.writers, w.modification)}

Bare == [title |-> "T", titles |-> {}, recordings |-> <<>>, artists |-> {},
         library |-> FALSE, references |-> 0]
Full == [title |-> "T", titles |-> {<<"T", "AT">>, <<"U", "FT">>},
         recordings |-> <<[titles |-> {"T", "U"}, dated |-> TRUE, artist |-> "a"],
                          [titles |-> {"T"}, dated |-> FALSE, artist |-> Unknown]>>,
         artists |-> {"a", "b"}, library |-> TRUE, references |-> 2]

WorkOf(w, other) == [writers |-> Saved(w.writers), modification |-> w.modification] @@ other
Other == WorkOf([writers |-> <<[writer |-> able, role |-> "CA", share |-> 10000,
                                controlled |-> TRUE, agreement |-> FALSE]>>,
                 modification |-> FALSE], Full)

\* Titles, recordings and a second work after it, with forms of one and two lines.
MCWorks == {<<WorkOf(w, Bare)>> : w \in Acceptable}
           \cup {<<WorkOf(w, Full), Other>> : w \in {a \in Acceptable : Len(a.writers) < 3}}

-----------------------------------------------------------------------------
\* Two works with lines by a writer under a general agreement, by one who is not, by
\* one whose identifiers were entered as unknown, and by one without any.
Person(name, ipi, pro, agreed, saan, isAble) ==
  [name |-> name, ipi |-> ipi, pro |-> pro, general |-> agreed, saan |-> saan, able |-> isAble]
People == {Person("A", "1", "52", TRUE, "S", TRUE), Person("B", "2", "52", FALSE, NoValue, TRUE),
           Person("C", NoValue, NoValue, FALSE, NoValue, TRUE),
           Person("C", NoValue, "10", FALSE, NoValue, FALSE), Unknown}
Contributions(share) ==
  [writer : People, role : {"CA", NoRole}, share : {share}, controlled : BOOLEAN,
   saan : {NoValue, "S", "T"}]
Composers(share) == {l \in Contributions(share) : l.controlled /\ l.role = "CA" /\ l.writer # Unknown}
Piece(id, lines, artist) ==
  [id |-> id, modification |-> FALSE, writers |-> lines,
   recordings |-> <<[isrc |-> id, artist |-> artist]>>]
MCCatalogues ==
  {<<Piece("1", <<l, m>>, NoValue), Piece("2", <<n>>, artist)>> :
     l \in Composers(5000), m \in Contributions(5000), n \in Composers(10000),
     artist \in {NoValue, "a"}}

-----------------------------------------------------------------------------
\* Rows that name one work, two works by one identifier, or none.
MCLine == [share : {0, -20, 33, 50}, fee : {NoFee, 0, 15}, general : {NoFee, 20},
                controlled : BOOLEAN]
MCStatements ==
  [works : {<<[ids |-> {"x"}, lines |-> <<l, m>>], [ids |-> ids, lines |-> <<n>>]>> :
              l \in MCLine, m \in {k \in MCLine : k.fee = NoFee},
              n \in {k \in MCLine : k.fee = 15 /\ k.controlled},
              ids \in {{"x"}, {"y"}}},
   row : [id : {"x"}, algo : {"fee"}, right : {"p"}, amount : {7, -3, NoAmount}, default : {10, 150}]
         \cup [id : {"x", "z"}, algo : {"share"}, right : {"p", "m", "s"}, amount : {7},
               default : {0}]]

\* Three claims of the local organisation, of another holder, or of a third.
Claim == [status : {"confirmed", "disputed", "superseded", "unverified"}, holder : 1..2,
          share : {Unstated, 40, 60, 100}, world : BOOLEAN, current : BOOLEAN]
Standing == {c \in Claim : c.current /\ c.status \in {"confirmed", "disputed"}}
Sixty == [status |-> "confirmed", holder |-> 3, share |-> 60, world |-> TRUE, current |-> TRUE]
MCClaims == UNION {[1..n -> Claim] : n \in 0..2}
            \cup {<<c, d, [Sixty EXCEPT !.holder = h]>> : c, d \in Standing, h \in 1..3}

\* Identifiers with their check characters.
MCCodes ==
  {c \in [kind : {"ean"}, code : {<<4, 0, 1, 6, 3, 9, 0, a, b, 5, 1, 7, k>> : a \in {0, 4, 9}, b \in {1, 7}, k \in 0..9}] :
     ValidEAN(c.code)}
  \cup {c \in [kind : {"isni"},
                code : {<<0, 0, 0, 0, 0, 0, 0, 1, 2, 1, a, 3, b, 6, 8, k>> :
                          a \in {0, 4, 9}, b \in {1, 7}, k \in 0..10}] : ValidISNI(c.code)}
  \cup {c \in [kind : {"dpid"},
                code : {<<25, 10, 13, 25, 18, 13, 10, 2, 0, 1, 4, a, 1, 2, b, 0, 7, k>> :
                          a \in {0, 5, 9}, b \in {1, 7}, k \in 0..35}] : ValidDPID(c.code)}
  \cup {c \in [kind : {"iswc", "ipi_base"},
                code : {<<0, 3, 4, 5, 2, 4, 6, 8, a, k>> : a, k \in 0..9}] : Accepts(c.kind, c.code)}
  \cup {c \in [kind : {"ipi_name"},
                code : {<<0, 0, 1, 9, 9, 5, 1, 4, a, j, k>> : a, j, k \in 0..9}] :
           ValidIPIName(c.code)}

-----------------------------------------------------------------------------
\* Entries with up to two radio files and one other, each filter alone or with the
\* follow-up; and entries without files, with the filters that are not about files.
At(current, status) == [current |-> current, status |-> status, storage |-> "nas",
                        path |-> "file", verified |-> FALSE]
Placed == {<<>>, <<At(TRUE, "active")>>, <<At(FALSE, "active")>>, <<At(TRUE, "missing")>>,
           <<At(FALSE, "moved"), At(TRUE, "active")>>}
Asset(radio) == [radio : {radio}, life : {"unclassified"}, sync : {"synced", "pending", "conflict", "missing"},
                 locations : Placed]
NoFilter == [rotation |-> {}, file |-> {}, channels |-> {}, all |-> FALSE, managed |-> {},
             follow |-> {}, collision |-> FALSE]
Entry(files, rotation, channels, managed, whole, isrc) ==
  [files |-> files, current |-> 0, master |-> 0, rotation |-> rotation, channels |-> channels,
   managed |-> managed, release |-> whole # "unreleased", duplicate |-> whole = "duplicate",
   issue |-> whole = "issue", isrc |-> isrc]
Listed(whole) == {Entry(files, "suitable", {}, FALSE, whole, isrc) : isrc \in BOOLEAN,
                  files \in {<<>>} \cup {<<f>> : f \in Asset(TRUE) \cup Asset(FALSE)}}
Pairs == {Entry(<<f, g>>, "suitable", {}, FALSE, "whole", isrc) :
            f \in Asset(TRUE), isrc \in BOOLEAN,
            g \in {a \in Asset(TRUE) \cup Asset(FALSE) : Len(a.locations) < 2}}
FileFilters ==
  {[NoFilter EXCEPT !.file = chosen] : chosen \in SUBSET {"available", "missing", "problem", "none"}}
  \cup {[NoFilter EXCEPT !.follow = chosen] : chosen \in SUBSET {"yes", "no"}}
  \cup {[NoFilter EXCEPT !.collision = TRUE, !.file = {"available", "problem"}]}
Bare2 == {Entry(<<>>, rotation, channels, managed, "whole", FALSE) :
            rotation \in {"", "suitable", "not_suitable", "unassessed"},
            channels \in SUBSET {"P4", "P5"}, managed \in BOOLEAN}
OtherFilters ==
  {[NoFilter EXCEPT !.rotation = chosen, !.managed = managed] :
     chosen \in SUBSET {"suitable", "not_suitable", "unassessed"}, managed \in SUBSET {"yes", "no"}}
  \cup {[NoFilter EXCEPT !.channels = chosen, !.all = all] :
          chosen \in SUBSET {"P4", "P5"}, all \in BOOLEAN}
MCListings ==
  [entry : Pairs \cup UNION {Listed(w) : w \in {"whole", "unreleased", "duplicate", "issue"}},
   filter : FileFilters]
  \cup [entry : Bare2, filter : OtherFilters]

\* Recordings with up to two radio files, one of which may be the chosen one, and
\* parts of files of up to four bytes; two bytes are sent at once.
Seen(status, storage, path) == [current |-> TRUE, status |-> status, storage |-> storage,
                                path |-> path, verified |-> FALSE]
Stored == {<<>>, <<Seen("active", "nas", "file")>>, <<Seen("active", "local", "gone")>>,
           <<Seen("active", "nas", "outside")>>, <<Seen("active", "cloud", "file")>>,
           <<Seen("missing", "nas", "gone")>>,
           <<At(FALSE, "historical"), Seen("active", "nas", "file")>>,
           <<Seen("active", "nas", "file"), Seen("active", "local", "file")>>}
Flac == [radio : {TRUE}, life : {"unclassified", "current", "candidate", "historical"},
         sync : {"synced", "conflict", "failed"}, locations : Stored]
Recorded(files, current) ==
  [Entry(files, "", {}, FALSE, "whole", FALSE) EXCEPT !.current = current]
\* A chosen file has been activated (RecordingMediaSelection.clean).
Recordings ==
  {Recorded(<<>>, 0)} \cup {Recorded(<<f>>, 0) : f \in Flac}
  \cup {Recorded(<<f, g>>, c) : f \in Flac, c \in {0, 1},
          g \in {h \in Flac : h.sync = "synced" \/ h.locations = <<Seen("active", "nas", "file")>>}}
  \cup {[Recorded(<<f, [f EXCEPT !.radio = FALSE]>>, 0) EXCEPT !.master = 2] : f \in Flac}
Range0 == [first : {NoBound} \cup 0..4, last : {NoBound} \cup 0..5]
MCStreams ==
  [entry : {r \in Recordings : r.current # 0 => r.files[1].life = "current"}, size : {3},
   range : {<<>>, <<[first |-> 1, last |-> NoBound]>>}, head : {FALSE}]
  \cup [entry : {Recorded(<<f>>, 0) : f \in {f \in Flac : /\ f.life = "current" /\ f.sync = "synced"
                                                        /\ f.locations = <<Seen("active", "nas", "file")>>}},
        size : 0..4, range : {<<>>} \cup {<<r>> : r \in Range0}, head : BOOLEAN]

-----------------------------------------------------------------------------
\* A recording with its credits, and a file whose tags have several names, texts and
\* spellings; the tags that are not about the case at hand are absent.
Credited(role, credited, identity) ==
  [role |-> role, credited |-> credited, party |-> <<"Ann">>, identity |-> identity]
Composer(name) == Credited("composer", name, <<>>)
Performed == {<<>>, <<Credited("primary", <<"Ann">>, <<>>)>>, <<Credited("primary", <<>>, <<"Stage">>)>>,
            <<Credited("primary", <<"Ann", "Bo">>, <<>>)>>,
            <<Credited("featured", <<"Bo">>, <<>>), Credited("primary", <<"Ann">>, <<>>)>>,
            <<Credited("primary", <<"Ann">>, <<>>), Credited("featured", <<"Bo">>, <<>>)>>}
Composed == {<<>>, <<Composer(<<"Bo">>), Composer(<<"Ann">>)>>, <<Composer(<<"Ann">>), Composer(<<"Ann">>)>>,
             <<Composer(<<"Ann", "Bo">>)>>}
Onto == [album : {<<"Album">>}, track : {<<>>, <<"3">>}, date : {<<>>, <<"2001">>},
         barcode : {<<>>, <<"123">>}]
Described(credits, release) ==
  [title |-> <<"Song">>, isrc |-> <<"I1">>, credits |-> credits, release |-> release]

Texts == {<<>>, <<<<"Ann">>, <<"Bo", "Ann">>>>, <<<<"Cy">>>>}
CatalogueFiles ==
  {[tags |-> Untagged @@ <<>>, comments |-> <<>>]}
  \cup {[tags |-> [Untagged EXCEPT !["TITLE"] = title, !["ARTIST"] = artist, !["COMPOSER"] = composer,
                                   !["ISRC"] = <<<<"I2">>>>], comments |-> <<>>] :
          title \in {<<>>, <<<<"Song", "B">>>>}, artist \in Texts, composer \in Texts}
ReleaseFiles ==
  {[tags |-> [Untagged EXCEPT !["TRACKNUMBER"] = track, !["TRACK"] = other, !["YEAR"] = year,
                              !["DATE"] = date, !["UPC"] = upc, !["BARCODE"] = date], comments |-> <<>>] :
     track \in {<<>>, <<<<"3/12">>>>, <<<<"side">>>>}, other \in {<<>>, <<<<"3">>>>},
     year \in {<<>>, <<<<"1999">>>>}, date \in {<<>>, <<<<"2000">>>>}, upc \in {<<>>, <<<<"9">>>>}}
RadioFiles ==
  {[tags |-> [Untagged EXCEPT !["GENRE"] = genre, !["RATING"] = rating, !["ENERGY"] = <<<<"3">>>>,
                              !["LANGUAGE"] = language, !["KANAL"] = kanal, !["CHANNEL"] = channel,
                              !["ROTATION"] = rotation], comments |-> comments] :
     genre \in {<<<<"pop">>, <<"rock", "pop">>>>}, rating \in {<<>>, <<<<"60">>>>, <<<<"7">>>>},
     language \in {<<>>, <<<<"norsk">>>>, <<<<"fi">>>>}, kanal \in {<<>>, <<<<"P4", "P5">>>>},
     channel \in {<<>>, <<<<"P6">>>>},
     rotation \in {<<>>, <<<<"ROTASJONSVERDIG">>>>, <<<<"Ikke vurdert">>>>, <<<<"ja">>>>},
     comments \in {<<>>, <<[tag |-> "KANAL", text |-> <<"P7">>], [tag |-> "ROTATION", text |-> <<"Ikke Rotasjonsverdig">>]>>}}
MCTagged ==
  [catalogue : {Described(a \o c, <<>>) : a \in Performed, c \in Composed}, file : CatalogueFiles]
  \cup [catalogue : {Described(<<>>, <<r>>) : r \in Onto}, file : ReleaseFiles]
  \cup [catalogue : {Described(<<Composer(<<"Bo">>)>>, <<>>)}, file : RadioFiles]

-----------------------------------------------------------------------------
\* Two releases of any kinds, with the same recordings or not, one of which expires on
\* the first day; two works, of which one is on a library release; recordings under
\* their own titles and under suffixes; and acknowledgements by two societies.
MCSocieties == [PR |-> "52", MR |-> NoValue, SR |-> "10"]
Author == [name |-> "A", ipi |-> "1", pro |-> "52", general |-> TRUE, saan |-> "S",
           societies |-> [PR |-> "52", MR |-> "10", SR |-> NoValue]]
Shares == <<[writer |-> Author, role |-> "CA", share |-> 5000, controlled |-> TRUE, saan |-> NoValue],
            [writer |-> Unknown, role |-> "CA", share |-> 5000, controlled |-> FALSE, saan |-> NoValue]>>
Pressing(kind, secret, date, tracks, shown) ==
  Filed(kind, [kind |-> kind, library |-> "L", cd |-> "CD", title |-> "R", artist |-> NoValue,
               label |-> NoValue, date |-> date, image |-> FALSE, description |-> shown,
               tracks |-> tracks], secret)
Cut(recording, cut) == [recording |-> recording, cut |-> cut]
Kinds == {"library", "commercial", "playlist"}
TrackLists == {<<>>, <<Cut(1, 1)>>, <<Cut(2, NoValue), Cut(1, 2)>>, <<Cut(1, 1), Cut(1, 2)>>}
Titled(work, title, version, suffixed, versionSuffixed) ==
  [work |-> work, title |-> title, version |-> version, suffix |-> suffixed,
   version_suffix |-> versionSuffixed, isrc |-> NoValue, artist |-> NoValue, label |-> NoValue]
Ack(id, society, date, remote) == [id |-> id, society |-> society, date |-> date, remote |-> remote]
AckSets == {{}, {Ack(1, "10", 1, "X"), Ack(2, "10", 1, "Y")}, {Ack(1, "10", 2, "X"), Ack(2, "10", 1, "Y")},
            {Ack(1, "10", 1, "X"), Ack(2, "10", 2, NoValue), Ack(3, "52", 1, "X")}}
Written(title, original, release, acks) ==
  [title |-> title, iswc |-> NoValue, original |-> original, library_release |-> release,
   titles |-> <<[type |-> "AT", title |-> <<"x">>, suffix |-> TRUE]>>, artists |-> {"a"},
   writers |-> Shares, acks |-> acks]
Repertoire(first, second, recording, acks) ==
  [releases |-> <<first, second>>,
   recordings |-> <<recording, Titled(2, <<>>, <<>>, FALSE, FALSE)>>,
   works |-> <<Written(<<"Song">>, NoValue, IF first.kind = "library" THEN 1 ELSE NoValue, acks),
               Written(<<"Tune">>, "Old", NoValue, {})>>]
MCRepertoires ==
  {Repertoire(Pressing(k, "p1", 1, t, TRUE), Pressing(l, "p2", NoValue, u, FALSE),
              Titled(1, <<"B">>, <<>>, TRUE, FALSE), {}) :
     k \in Kinds, l \in Kinds, t \in TrackLists, u \in TrackLists}
  \cup {Repertoire(Pressing("library", "p1", NoValue, <<Cut(1, 1)>>, TRUE),
                   Pressing("playlist", "p2", 1, <<Cut(1, 1)>>, TRUE),
                   Titled(1, title, version, suffixed, versionSuffixed), acks) :
          title \in {<<>>, <<"B">>}, version \in {<<>>, <<"C">>}, suffixed \in BOOLEAN,
          versionSuffixed \in BOOLEAN, acks \in AckSets}

-----------------------------------------------------------------------------
\* Three files in two folders, with and without numbers, the third of which may be the
\* first one again; and two files with unusual names, places and barcodes.
FileOf(i, folder, album, barcode, catalogue, track) ==
  [path |-> i, recording |-> i, folder |-> folder, disc_folder |-> 0, album |-> album,
   barcode |-> barcode, catalogue |-> catalogue, artist |-> "", year |-> 0, disc |-> 0, track |-> track]
Cuts(i, barcodes) ==
  {FileOf(i, folder, "A", barcode, catalogue, track) :
     folder \in {"F", "G"}, barcode \in barcodes, catalogue \in {"", "c"}, track \in 0..2}
Odd(i) ==
  {[FileOf(i, folder, album, barcode, "", track) EXCEPT !.disc_folder = disc, !.artist = artist, !.year = 1990] :
     folder \in {"", "F"}, album \in {"", "A"}, barcode \in {"", "odd"}, track \in 0..1,
     disc \in {0, 2}, artist \in {"", "x"}}
Manual(barcode, catalogue) ==
  [title |-> "A", catalogue |-> catalogue, barcode |-> barcode, signature |-> <<>>, tracks |-> {}]
Pictures == {[F |-> f, G |-> <<TRUE, TRUE>>] : f \in {<<>>, <<FALSE>>, <<FALSE, TRUE>>}}
MCBatches ==
  [releases : {<<>>, <<Manual("b", "")>>, <<Manual("b", ""), Manual("", "c")>>},
   images : {[F |-> f, G |-> <<TRUE, TRUE>>] : f \in {<<>>, <<FALSE, TRUE>>}},
   files : {<<f, g, h>> : f \in Cuts(1, {"", "b"}), g \in Cuts(2, {"b"}),
                          h \in {k \in Cuts(1, {"b"}) \cup Cuts(3, {""}) : k.track = 1}}]
  \cup [releases : {<<>>}, images : Pictures, files : {<<f, g>> : f \in Odd(1), g \in Odd(2)}]

-----------------------------------------------------------------------------
\* Three entries that differ in their texts, or in what the filters ask for; two rows
\* to a page.
Shelved(title, credits, code, genre) ==
  [title |-> title, credits |-> credits, code |-> code, genre |-> genre, language |-> "no",
   energy |-> 3, gender |-> "", duration |-> title, updated |-> 3 - title, status |-> "confirmed",
   sources |-> {1}, management |-> "active", source |-> 0, claims |-> <<>>]
    @@ Entry(<<>>, "", {}, FALSE, "whole", code # 0)
By(id, order, role, credited, identity, party) ==
  [id |-> id, order |-> order, role |-> role, credited |-> credited, identity |-> identity, party |-> party]
CreditLists ==
  {<<>>, <<By(1, 0, "primary", 5, 0, 0)>>, <<By(1, 0, "producer", 0, 0, 7)>>,
   <<By(2, 1, "featured", 0, 6, 7), By(1, 2, "primary", 5, 0, 5)>>,
   <<By(2, 0, "primary", 0, 0, 7), By(1, 0, "featured", 5, 6, 0)>>}
Shop(entries, releases) ==
  [entries |-> entries, channels |-> {"P4"}, local |-> 1, releases |-> releases]
TextShelves ==
  {Shop(<<Shelved(1, c, code, <<>>), Shelved(2, d, 12, <<>>), Shelved(1, <<By(1, 0, "primary", 5, 0, 5)>>, 0, <<>>)>>, <<>>) :
     c \in CreditLists, d \in CreditLists, code \in {0, 13}}
GenreTexts ==
  {<<>>, <<"pop">>, <<"rock", ";", "pop">>, <<"pop", ";", " ", "rock", ";", "funk">>,
   <<"funk", ";", " ", "pop", ";", " ", "rock">>, <<"pop", " ", ";", "rock">>}
GenreShelves ==
  {Shop(<<Shelved(1, <<>>, 0, g),
          [Shelved(2, <<>>, 0, h) EXCEPT !.language = "se", !.energy = 0, !.managed = TRUE],
          [Shelved(3, <<>>, 0, <<"pop">>) EXCEPT !.gender = "female", !.channels = {"P4", "P5"}]>>, <<>>) :
     g \in GenreTexts, h \in GenreTexts}
Everything ==
  [q |-> <<>>, genre |-> <<>>, language |-> <<>>, energy |-> <<>>, gender |-> "", facts |-> NoFilter,
   by |-> "title", down |-> FALSE, page |-> 1, all |-> FALSE, selected |-> 0, fragment |-> FALSE]
TextRequests ==
  {[Everything EXCEPT !.q = q, !.by = by, !.down = down, !.selected = selected, !.fragment = selected = 3] :
     q \in {<<>>, <<{1, 5}>>, <<{5, 7, 13}>>}, down \in BOOLEAN, selected \in {0, 3},
     by \in {"title", "artist", "isrc", "duration", "updated"}}
GenreRequests ==
  {[Everything EXCEPT !.genre = genre, !.energy = energy, !.language = language, !.gender = gender,
                      !.facts = facts, !.by = "managed", !.page = 2, !.all = genre = <<>>] :
     genre \in {<<>>, <<"pop">>, <<"rock", "funk">>, <<"jazz">>, <<"jazz", "rock">>},
     energy \in {<<>>, <<3>>, <<-1, 3>>}, <<language, gender>> \in {<<<<>>, "">>, <<<<"no", "se">>, "">>, <<<<>>, "female">>},
     facts \in {NoFilter, [NoFilter EXCEPT !.channels = {"P4"}, !.managed = {"no"}],
                [NoFilter EXCEPT !.channels = {"P5"}], [NoFilter EXCEPT !.managed = {"yes", "no"}]}}
ArchiveRequests ==
  {[q |-> q, genre |-> <<>>, language |-> "", status |-> status, managed |-> managed, source |-> source,
    by |-> by, valid |-> status # "unknown", page |-> page, selected |-> 3, closed |-> page = 2] :
     q \in {<<>>, <<{1, 5}>>, <<{5, 6, 7, 13}>>}, <<status, managed, source>> \in {<<"", "", 0>>, <<"confirmed", "no", 1>>, <<"unknown", "", 0>>}, by \in {"title", "-title", "recent"}, page \in 0..2}

\* Claims of several types and periods, on days within, at the end of and outside them.
Asserts(type, holder, status, world, from, until) ==
  [type |-> type, holder |-> holder, status |-> status, share |-> 100, world |-> world,
   from |-> from, until |-> until]
Asserted1 ==
  {<<>>} \cup {<<Asserts(type, holder, status, TRUE, from, until)>> :
     type \in {"ownership", "administration"}, holder \in 1..2, status \in {"confirmed", "disputed"},
     from \in {0, 2}, until \in {0, 2}}
Under(claims) == [Shelved(1, <<By(1, 0, "primary", 0, 6, 7)>>, 13, <<>>) EXCEPT !.managed = TRUE, !.claims = claims]
RightShelves ==
  {Shop(<<Under(c), [Under(d) EXCEPT !.management = "pending", !.title = 2],
          Under(<<Asserts("distribution", 1, "confirmed", TRUE, 0, 2)>>)>>,
        <<[title |-> 4, catalogue |-> 0, label |-> 7, numbers |-> <<21, 22>>, tracks |-> <<1, 2, 1>>],
          [title |-> 4, catalogue |-> 1, label |-> 0, numbers |-> <<>>, tracks |-> <<3>>],
          [title |-> 3, catalogue |-> 0, label |-> 0, numbers |-> <<>>, tracks |-> <<>>]>>) :
     c \in Asserted1, d \in {<<>>} \cup {<<a, Asserts("ownership", 1, "confirmed", FALSE, 0, 0)>> :
                              a \in {Asserts("administration", 1, "confirmed", TRUE, 2, 2),
                                     Asserts("ownership", 2, "confirmed", TRUE, 0, 1)}}}
AllManaged ==
  [q |-> <<>>, status |-> "", source |-> 0, ownership |-> "", administration |-> "", distribution |-> "",
   rights |-> TRUE, valid |-> TRUE, page |-> 1]
ManagedRequests ==
  {[AllManaged EXCEPT !.ownership = o, !.administration = a, !.distribution = t] :
     o \in {"", "full", "disputed", "unresolved"}, a \in {"", "yes", "no"}, t \in {"", "no"}}
  \cup {[AllManaged EXCEPT !.q = <<{1, 7}>>, !.administration = "yes", !.rights = rights] : rights \in BOOLEAN}
LocalRequests ==
  {[AllManaged EXCEPT !.administration = a, !.distribution = t] : a \in {"", "yes", "no"}, t \in {"", "yes", "no"}}

\* Two parties of one name, one of them with two artists; files that are at two places; and
\* more waiting tasks than a tab shows.
Directory(credits, paths) ==
  Shop(<<Shelved(1, credits, 0, <<>>), Shelved(2, credits, 12, <<>>), Shelved(2, <<>>, 13, <<>>)>>,
       <<[title |-> 4, catalogue |-> 0, label |-> 0, numbers |-> <<>>, tracks |-> <<>>]>>)
    @@ [parties |-> <<[id |-> 1, name |-> 7], [id |-> 2, name |-> 7], [id |-> 3, name |-> 8]>>,
        artists |-> <<[name |-> 6, party |-> 1], [name |-> 5, party |-> 1], [name |-> 6, party |-> 2],
                      [name |-> 9, party |-> 3]>>,
        agreements |-> <<[title |-> 1, reference |-> 0, parties |-> <<1, 2>>],
                         [title |-> 5, reference |-> 7, parties |-> <<1>>]>>,
        files |-> <<[name |-> 3, recording |-> 1, release |-> 0, paths |-> paths],
                    [name |-> 3, recording |-> 0, release |-> 1, paths |-> <<>>],
                    [name |-> 2, recording |-> 3, release |-> 1, paths |-> <<5>>]>>]
Directories == {Directory(c, paths) : c \in CreditLists, paths \in {<<>>, <<5, 6>>, <<5, 9>>}}
Backlogs ==
  {[entries |-> <<Under(<<Asserts("ownership", 1, "disputed", TRUE, 0, 0)>>)>>, duplicates |-> duplicates,
    assertions |-> assertions] :
     duplicates \in {<<>>, <<"open", "dismissed", "open">>},
     assertions \in UNION {[1..n -> {"unverified", "disputed", "confirmed"}] : n \in 0..3}}
\* Releases of the same year or of none, with up to two covers at up to two places.
PictureAt(nas, current, reads) == [nas |-> nas, current |-> current, active |-> current, reads |-> reads]
PlaceLists == {<<>>, <<PictureAt(TRUE, TRUE, TRUE)>>, <<PictureAt(TRUE, FALSE, TRUE)>>, <<PictureAt(FALSE, TRUE, TRUE)>>,
               <<PictureAt(TRUE, TRUE, FALSE), PictureAt(TRUE, TRUE, TRUE)>>}
Covers == {<<>>} \cup {<<[name |-> 1, places |-> p]>> : p \in PlaceLists}
                \cup {<<[name |-> n, places |-> p], [name |-> 1, places |-> q]>> :
                        n \in 1..2, p \in PlaceLists, q \in PlaceLists}
Sleeves ==
  {[releases |-> <<[title |-> 1, year |-> year, tracks |-> <<2, 1>>, covers |-> c],
                   [title |-> 1, year |-> 2, tracks |-> tracks, covers |-> d]>>] :
     year \in {1, 3, Absent}, tracks \in {<<>>, <<1>>}, c \in Covers,
     d \in {x \in Covers : Len(x) < 2}}
MCDesks ==
  [of : {"library"}, db : TextShelves, request : TextRequests]
  \cup [of : {"library"}, db : GenreShelves, request : GenreRequests]
  \cup [of : {"archive"}, db : TextShelves, request : ArchiveRequests]
  \cup [of : {"managed"}, db : RightShelves, request : ManagedRequests]
  \cup [of : {"managed"}, db : {[s EXCEPT !.local = Nobody] : s \in RightShelves}, request : LocalRequests]
  \cup [of : {"releases"}, db : RightShelves,
        request : [q : {<<>>, <<{1, 7}>>, <<{7, 13, 21, 22}>>, <<{3}>>}, page : 1..2]]
  \cup [of : {"search"}, db : Directories,
        request : [q : {<<>>} \cup {<<w>> : w \in {{1, 5}, {5, 6}, {6, 7}, {5, 7, 9}, {4, 13}, {8}}}, page : 1..2]]
  \cup [of : {"tasks"}, db : Backlogs,
        request : [may : SUBSET {"duplicates", "assertions", "claims", "maintenance"}]]
  \cup [of : {"covers"}, db : Sleeves]

=============================================================================

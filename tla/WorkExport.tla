----------------------------- MODULE WorkExport -----------------------------
(***************************************************************************)
(* The musical works and releases of the publishing application as other   *)
(* systems are given them: the JSON files of the admin site, the backup,   *)
(* and the releases and playlists the API serves (music_publisher: get_dict*)
(* of the models and their managers, api.py).                              *)
(*                                                                         *)
(* One table of releases serves three kinds.  db holds the tables by key:  *)
(* releases with their tracks, recordings with their work, works with      *)
(* titles, artists, lines and acknowledgements.  A title is a sequence of  *)
(* words; names, dates and codes are left out.                             *)
(***************************************************************************)
EXTENDS CsvTransfer

CONSTANT PublisherSocieties  \* the publisher's society for PR, MR and SR, or NoValue

-----------------------------------------------------------------------------
(* The kinds of release, each with its form.                               *)

\* The forms ask for a library and an identifier, make one up, or offer neither.
Filed(kind, r, secret) ==
  [r EXCEPT !.library = IF kind = "library" THEN @ ELSE NoValue,
            !.cd = CASE kind = "library" -> @
                     [] kind = "playlist" -> secret
                     [] kind = "commercial" -> NoValue]

ReleasesWith(db, library, cd) ==
  {r \in DOMAIN db.releases : /\ (db.releases[r].library # NoValue) = library
                              /\ (db.releases[r].cd # NoValue) = cd}
LibraryReleases(db)    == ReleasesWith(db, TRUE, TRUE)
CommercialReleases(db) == ReleasesWith(db, FALSE, FALSE)
\* Mutant of Playlists: the releases of libraries are listed as well.
PlaylistsOfAny(db)     == ReleasesWith(db, FALSE, TRUE) \cup ReleasesWith(db, TRUE, TRUE)

Playlists(db)          == ReleasesWith(db, FALSE, TRUE)

-----------------------------------------------------------------------------
(* Writers, artists and titles.                                            *)

Affiliations(societies) == {<<right, societies[right]>> : right \in {r \in DOMAIN societies : societies[r] # NoValue}}

PublisherDict == [affiliations |-> {<<"PR", PublisherSocieties.PR>>} \cup Affiliations(PublisherSocieties)]

WriterDict(w) == [name |-> w.name, ipi |-> w.ipi, affiliations |-> Affiliations(w.societies)]

AgreementDict(l) ==
  [organization |-> PublisherSocieties.PR, number |-> AgreementNumber(l),
   type |-> IF UnderGeneral(l) THEN "OG" ELSE "OS"]

LineDict(l) ==
  [writer |-> IF l.writer = Unknown THEN {} ELSE {WriterDict(l.writer)},
   controlled |-> l.controlled, share |-> l.share, role |-> l.role,
   publishers |-> IF l.controlled
                  THEN {[publisher |-> PublisherDict, role |-> "E", agreement |-> AgreementDict(l)]} ELSE {}]

TitleDict(work, t) == [type |-> t.type, title |-> IF t.suffix THEN work.title \o t.title ELSE t.title]

CompleteRecordingTitle(work, r) == IF r.suffix THEN work.title \o r.title ELSE r.title
WrittenTitle(work, r) ==
  LET complete == CompleteRecordingTitle(work, r) IN IF complete = <<>> THEN work.title ELSE complete
CompleteVersionTitle(work, r) == IF r.version_suffix THEN WrittenTitle(work, r) \o r.version ELSE r.version

\* Recording.title, which the pages and the API show.
ShownTitle(work, r) ==
  CASE r.version # <<>> -> CompleteVersionTitle(work, r)
    [] r.version = <<>> /\ r.title # <<>> -> CompleteRecordingTitle(work, r)
    [] OTHER -> work.title

-----------------------------------------------------------------------------
(* Acknowledgements, the newest first (WorkAcknowledgement.Meta).          *)

Newer(a, b) == a.date > b.date \/ (a.date = b.date /\ a.id > b.id)
Acknowledged(work) ==
  CHOOSE acks \in [1..Cardinality(work.acks) -> work.acks] :
    \A i, j \in DOMAIN acks : i < j => Newer(acks[i], acks[j])

\* The newest identifier of each society.
Referred(refs, a) ==
  IF a.remote = NoValue \/ \E x \in Range(refs) : x.organization = a.society
  THEN refs ELSE Append(refs, [organization |-> a.society, identifier |-> a.remote])
CrossReferences(work) == FoldLeft(Referred, <<>>, Acknowledged(work))

-----------------------------------------------------------------------------
(* get_dict: works contain recordings with the releases they are on, and   *)
(* releases contain recordings with their work.  What a dictionary says of *)
(* the thing itself are its facts.                                         *)

ReleaseDict(db, id) ==
  LET r == db.releases[id] IN [id |-> id, title |-> r.title, artist |-> r.artist, label |-> r.label]

OriginDict(db, work) ==
  IF work.library_release = NoValue THEN {}
  ELSE LET r == db.releases[work.library_release] IN {[cd_identifier |-> r.cd, library |-> r.library]}

WorkFacts(db, id) ==
  LET work == db.works[id] IN
  [id |-> id, work_title |-> work.title, iswc |-> work.iswc,
   version_type |-> IF work.original = NoValue THEN "ORI" ELSE "MOD",
   original_works |-> {work.original} \ {NoValue},
   other_titles |-> [i \in DOMAIN work.titles |-> TitleDict(work, work.titles[i])],
   origin |-> OriginDict(db, work),
   performing_artists |-> work.artists,
   writers |-> [i \in DOMAIN work.writers |-> LineDict(work.writers[i])],
   cross_references |-> CrossReferences(work)]

RecordingFacts(db, id) ==
  LET r    == db.recordings[id]
      work == db.works[r.work]
  IN  [id |-> id, recording_title |-> WrittenTitle(work, r),
       version_title |-> CompleteVersionTitle(work, r), isrc |-> r.isrc,
       recording_artist |-> r.artist, record_label |-> r.label]

\* Recording.get_dict with releases, and with its work.
RecordingTracks(db, id) ==
  UNION {{[release |-> ReleaseDict(db, r), cut_number |-> track.cut] :
            track \in {t \in Range(db.releases[r].tracks) : t.recording = id}} : r \in DOMAIN db.releases}
RecordingOnReleases(db, id) ==
  [facts |-> RecordingFacts(db, id), tracks |-> RecordingTracks(db, id)]
RecordingOfWork(db, id) ==
  [facts |-> RecordingFacts(db, id), works |-> {WorkFacts(db, db.recordings[id].work)}]

WorkDict(db, id) ==
  [facts |-> WorkFacts(db, id),
   recordings |-> {RecordingOnReleases(db, r) : r \in {r \in DOMAIN db.recordings : db.recordings[r].work = id}}]

TrackDict(db, track) == [cut_number |-> track.cut, recording |-> RecordingOfWork(db, track.recording)]

ReleaseWithTracks(db, id) ==
  [facts |-> ReleaseDict(db, id),
   tracks |-> {TrackDict(db, track) : track \in Range(db.releases[id].tracks)}]

\* The files: works, and each kind of release.
WorksFile(db) == {WorkDict(db, id) : id \in DOMAIN db.works}
ReleasesFile(db, ids) == {ReleaseWithTracks(db, id) : id \in ids}

-----------------------------------------------------------------------------
(* The API: releases that have something to show, and a playlist by its    *)
(* secret, which its page finds in its own way, until it expires.          *)

Presented(r) == r.image \/ r.description
ServedReleases(db) ==
  {id \in DOMAIN db.releases :
     LET r == db.releases[id] IN ~ (r.library = NoValue /\ r.cd # NoValue) /\ Presented(r)}

ServedPlaylists(db, secret, today) ==
  {id \in Playlists(db) : LET r == db.releases[id]
                          IN  r.cd = secret /\ ~ (r.date # NoValue /\ r.date < today)}
ShownPlaylists(db, secret, today) ==
  {id \in Playlists(db) : LET r == db.releases[id]
                          IN  r.cd = secret /\ (r.date = NoValue \/ r.date >= today)}

\* PlaylistAdmin.valid: whether the links of a playlist are shown.
LinkShown(r, today) == ~ (r.date # NoValue /\ r.date < today)

=============================================================================

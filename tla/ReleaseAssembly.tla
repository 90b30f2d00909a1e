-------------------------- MODULE ReleaseAssembly ---------------------------
(***************************************************************************)
(* How the import of FLAC files puts recordings on releases: the folder    *)
(* and the tags of a file say which album it is of, the album is found in  *)
(* the catalogue or created, the picture of its folder becomes its cover,  *)
(* and the recording takes a place on it.  Files are applied one by one,   *)
(* in the order of the batch; a file that is refused leaves nothing.       *)
(*                                                                         *)
(* As in the code, "" and 0 are the texts and numbers a file lacks.  A     *)
(* file's folder is that of the album, its disc folder the CD it is in; a  *)
(* barcode of no supported length is "odd".                                *)
(***************************************************************************)
EXTENDS Integers, FiniteSets, Sequences, SequencesExt, FiniteSetsExt

-----------------------------------------------------------------------------
(* What a file says of its album.                                          *)

\* A file to import, with its recording.
AudioFile ==
  [path : Nat, recording : Nat, folder : STRING, disc_folder : Nat, album : STRING, artist : STRING,
   year : Nat, barcode : STRING, catalogue : STRING, disc : Nat, track : Nat]

\* A release with the places on it that are taken.
Signatures == (STRING \X STRING \X Nat) \cup Seq(STRING)
Places  == [at : Nat, recording : Nat]
Release == [title : STRING, catalogue : STRING, barcode : STRING, signature : Signatures,
            tracks : SUBSET Places]

\* _with_release_folder_context: the folders speak where the tags are silent.
InFolder(file) ==
  [file EXCEPT !.album = IF @ = "" THEN file.folder ELSE @,
               !.disc = IF @ = 0 /\ file.folder # "" THEN file.disc_folder ELSE @]

\* _release_signature: the identity of an album nobody has numbered.
Signature(f) ==
  IF f.folder # "" THEN <<f.folder>>
  ELSE IF f.album # "" /\ f.artist # "" /\ f.year # 0 /\ f.track # 0
       THEN <<f.album, f.artist, f.year>> ELSE <<>>

\* _release_is_sufficient.
Sufficient(f) ==
  f.album # "" /\ (f.barcode # "" \/ f.catalogue # "" \/ Signature(f) # <<>>)

-----------------------------------------------------------------------------
(* The release it is on.                                                   *)

\* _release_candidates.
Candidates(releases, f) ==
  {r \in DOMAIN releases :
     \/ f.barcode \notin {"", "odd"} /\ releases[r].barcode = f.barcode
     \/ /\ f.album # "" /\ f.catalogue # ""
        /\ releases[r].title = f.album /\ releases[r].catalogue = f.catalogue
     \/ Signature(f) # <<>> /\ releases[r].signature = Signature(f)}

\* _find_release.
Finds(releases, f) == f.album # "" /\ Cardinality(Candidates(releases, f)) = 1

Creates(releases, f) == Candidates(releases, f) = {} /\ Sufficient(f)

\* The release a file is on, 0 when it is on none.
ReleaseOf(releases, f) ==
  IF Finds(releases, f) THEN CHOOSE r \in Candidates(releases, f) : TRUE
  ELSE IF Creates(releases, f) THEN Len(releases) + 1 ELSE 0

\* A release that was found takes the signature of the file, if it has none.
Resolution(releases, f) ==
  IF Finds(releases, f)
  THEN [releases EXCEPT ![ReleaseOf(releases, f)].signature = IF @ = <<>> THEN Signature(f) ELSE @]
  ELSE IF Creates(releases, f)
       THEN Append(releases, [title |-> f.album, catalogue |-> f.catalogue, barcode |-> f.barcode,
                              signature |-> Signature(f), tracks |-> {}])
       ELSE releases

\* _resolve_or_create_release: the numbers name several albums, or one cannot be kept.
Unresolvable(releases, f) ==
  \/ Cardinality(Candidates(releases, f)) > 1
  \/ Creates(releases, f) /\ f.barcode = "odd"

-----------------------------------------------------------------------------
(* Its cover and its place.                                                *)

\* The one picture of the folder that is the cover, 0 when none is: each picture is
\* TRUE when its name is that of a cover.
Cover(images) ==
  LET named == {i \in DOMAIN images : images[i]}
  IN  IF Cardinality(named) = 1 THEN CHOOSE i \in named : TRUE
      ELSE IF Len(images) = 1 THEN 1 ELSE 0

CoverOf(db, f) ==
  IF ReleaseOf(db.releases, f) = 0 \/ f.folder = "" THEN 0 ELSE Cover(db.images[f.folder])

\* Mutant of ForeignCover: a cover may belong to several releases.
SharedCover(db, f) == FALSE

\* _attach_release_cover: the picture is the cover of another release.
ForeignCover(db, f) ==
  CoverOf(db, f) # 0 /\ db.covers[f.folder] \notin {0, ReleaseOf(db.releases, f)}

\* _release_track: the place is counted over all discs, or is the next free one.
Place(tracks, f) ==
  IF f.track = 0 THEN Max({0} \cup {t.at : t \in tracks}) + 1
  ELSE IF f.disc = 0 THEN f.track ELSE (f.disc - 1) * 1000 + f.track

\* The file has a place on this release already.
Settled(db, f) == db.places[f.path].release = ReleaseOf(db.releases, f)

Taken(db, f) ==
  LET r      == ReleaseOf(db.releases, f)
      tracks == Resolution(db.releases, f)[r].tracks
  IN  /\ r # 0 /\ ~Settled(db, f)
      /\ \E t \in tracks : t.at = Place(tracks, f) /\ t.recording # f.recording

Refuses(db, f) == Unresolvable(db.releases, f) \/ ForeignCover(db, f) \/ Taken(db, f)

-----------------------------------------------------------------------------
\* apply_item, as far as releases go: a file keeps the first place it was given.
Assembled(db, file) ==
  LET f        == InFolder(file)
      r        == ReleaseOf(db.releases, f)
      releases == Resolution(db.releases, f)
      at       == Place(releases[r].tracks, f)
      track    == IF Settled(db, f) THEN db.places[f.path] ELSE [release |-> r, at |-> at]
      known    == db.places[f.path].release # 0
  IN  IF Refuses(db, f)
      THEN [db EXCEPT !.results = Append(@, [done |-> FALSE, release |-> 0, at |-> 0])]
      ELSE IF r = 0
      THEN [db EXCEPT !.results = Append(@, [done |-> TRUE, release |-> 0, at |-> 0])]
      ELSE [db EXCEPT
              !.results = Append(@, [done |-> TRUE, release |-> r, at |-> track.at]),
              !.releases = IF Settled(db, f) THEN releases
                           ELSE [releases EXCEPT ![r].tracks =
                                   @ \cup {[at |-> at, recording |-> f.recording]}],
              !.places[f.path] = IF known THEN @ ELSE track,
              !.covers = IF CoverOf(db, f) # 0 THEN [@ EXCEPT ![f.folder] = r] ELSE @]

\* The catalogue before a batch is applied: no file of it has a place, no picture is a cover.
Unassembled(releases, images, files) ==
  [releases |-> releases, images |-> images, results |-> <<>>,
   covers |-> [folder \in DOMAIN images |-> 0],
   places |-> [p \in {f.path : f \in ToSet(files)} |-> [release |-> 0, at |-> 0]]]

\* A batch of files, imported into a catalogue of some releases.
Imported(releases, images, files) ==
  FoldLeft(Assembled, Unassembled(releases, images, files), files)

-----------------------------------------------------------------------------
\* The folders and the tags of a batch tell its albums apart: one folder an album, with
\* its own numbers, and every track at its own place.
Tidy(files) ==
  LET f(i)  == InFolder(files[i])
      at(i) == Place({}, f(i))
  IN  /\ \A i \in DOMAIN files : f(i).folder # "" /\ f(i).barcode # "odd" /\ f(i).track # 0
      /\ \A i, j \in DOMAIN files :
           IF f(i).folder = f(j).folder
           THEN /\ f(i).album = f(j).album /\ f(i).barcode = f(j).barcode
                /\ f(i).catalogue = f(j).catalogue
                /\ at(i) = at(j) <=> f(i).recording = f(j).recording
           ELSE /\ (f(i).barcode = f(j).barcode => f(i).barcode = "")
                /\ (f(i).album = f(j).album /\ f(i).catalogue = f(j).catalogue => f(i).catalogue = "")

\* A file of a batch, the release it was put on, and the files that were put on one.
FileAt(b, i) == InFolder(b.files[i])
On(after, i) == after.results[i].release
Put(after)   == {i \in DOMAIN after.results : On(after, i) # 0}

\* Files that say the same of their album.
SameAlbum(f, g) ==
  /\ f.album = g.album /\ f.barcode = g.barcode
  /\ f.catalogue = g.catalogue /\ Signature(f) = Signature(g)

AlikeTogether(b, after) ==
  \A i, j \in Put(after) : SameAlbum(FileAt(b, i), FileAt(b, j)) => On(after, i) = On(after, j)

FoldersTogether(b, after) ==
  \A i, j \in Put(after) :
    LET folder == FileAt(b, i).folder
    IN  folder = FileAt(b, j).folder /\ folder # "" /\ Cover(b.images[folder]) # 0
          => On(after, i) = On(after, j)

PlacesTaken(b, after) ==
  \A i \in Put(after) :
    LET f     == FileAt(b, i)
        place == after.places[f.path]
    IN  /\ [at |-> after.results[i].at, recording |-> f.recording] \in after.releases[On(after, i)].tracks
        /\ [at |-> place.at, recording |-> f.recording] \in after.releases[place.release].tracks

TidyApart(b, after) ==
  Len(b.releases) = 0 /\ Tidy(b.files) =>
    /\ Put(after) = DOMAIN b.files
    /\ \A i, j \in DOMAIN b.files : On(after, i) = On(after, j) <=> FileAt(b, i).folder = FileAt(b, j).folder

\* A batch that was imported, and the catalogue after it.
Assembly(b, after) ==
  AlikeTogether(b, after) /\ FoldersTogether(b, after) /\ PlacesTaken(b, after) /\ TidyApart(b, after)

=============================================================================

---------------------------- MODULE MCAlbumPage ----------------------------
(***************************************************************************)
(* A small instance of AlbumPage: albums of two tracks.  Some have tags     *)
(* worth comparing, which another program edits, and no artwork; some have  *)
(* artwork worth planning and the tags of their release.                    *)
(***************************************************************************)
EXTENDS AlbumPage

McColumns == <<"title", "artist", "artist_sort", "artists", "works", "isrcs",
               "media", "track_total", "disc_num", "mb_work_ids">>
McCounterpart == "artist" :> "album_artist"
McSubsumedBy == ("artists" :> "artist") @@ ("mb_work_ids" :> "works")

Tags(n) ==
  [title |-> n, artist |-> "A", artist_sort |-> "A", artists |-> "A", works |-> None, isrcs |-> n,
   media |-> "CD", track_total |-> 2, disc_num |-> 1, mb_work_ids |-> None,
   album_artist |-> "A", country |-> "GB", compilation |-> None, track_num |-> n]
Guest(tags) == [tags EXCEPT !.artist = "B", !.artist_sort = "B", !.artists = "B"]
Composed(tags, w) == [tags EXCEPT !.works = w, !.mb_work_ids = w]

Single == <<Tags(1), Tags(2)>>
Varied == <<Composed(Guest(Tags(1)), "W"), Composed(Tags(2), "V")>>
OneWork == <<Composed(Tags(1), "W"), Composed(Tags(2), "W")>>
Discs == <<[Tags(1) EXCEPT !.track_total = 1],
           [Tags(1) EXCEPT !.disc_num = 2, !.media = "DVD", !.track_total = 1]>>

MediaOf(mb) == [d \in {DiscNum(mb[m]) : m \in DOMAIN mb} |->
                  [f \in {"media", "track_total"} |-> (CHOOSE tags \in Range(mb) : DiscNum(tags) = d)[f]]]

File(slot, tags) == [slot |-> slot, ok |-> TRUE, video |-> FALSE, tags |-> tags]
Ripped(mb) == [i \in DOMAIN mb |-> File(i, mb[i])]

\* What another tagger writes: a tag dropped, or another reading of it.
Edit(i, field, to) == [what |-> "tag", at |-> i, field |-> field, to |-> to]
TagEdits ==
  {Edit(i, f, to) : i \in {1, 2}, f \in {"artist", "artists", "works", "mb_work_ids"}, to \in {None, "A", "X"}}
  \cup {Edit(i, f, to) : i \in {1, 2}, f \in {"artist_sort", "media"}, to \in {None, "X"}}
  \cup {Edit(i, f, to) : i \in {1, 2}, f \in {"isrcs", "disc_num", "track_num"}, to \in {None, 2}}
  \cup {Edit(i, "country", to) : i \in {1, 2}, to \in {"US", "FR"}}
  \cup {Edit(i, f, "X") : i \in {1, 2}, f \in {"album_artist"}}
  \cup {Edit(i, "compilation", Yes) : i \in {1, 2}}

-----------------------------------------------------------------------------

Picture(width, size, kind, copy) ==
  [size |-> [width |-> width, height |-> width], bytes |-> size, kind |-> kind, squished |-> copy]
McImage ==
  ("small" :> Picture(1, 1, "jpg", None)) @@ ("mid" :> Picture(2, 2, "jpg", None))
  @@ ("scan" :> Picture(3, 9, "png", "copy")) @@ ("copy" :> Picture(3, 3, "jpg", None))
  @@ ("drawn" :> Picture(2, 3, "png", None)) @@ ("plate" :> Picture(3, 4, "png", None))

McTracks == <<"t1", "t2">>
Pics(a, b) == ("t1" :> a) @@ ("t2" :> b)
Covers(j, p) == ("jpg" :> j) @@ ("png" :> p)
Bare == Pics(None, None)
NoCover == Covers(None, None)

PlainSide == [borrowed |-> {}, watch |-> FALSE, rejected |-> {}]
Answer(o, g) == [own |-> o, group |-> g]
NoAnswer == Answer(None, None)

Bounds(outside, presses, faults) == [outside |-> outside, presses |-> presses, faults |-> faults]

TagAlbum(f, mb) ==
  [files |-> f, mb |-> mb, media |-> MediaOf(mb), accepted |-> {"GB", "US"},
   pics |-> Bare, covers |-> NoCover, side |-> PlainSide, archive |-> NoAnswer,
   stored |-> NoAnswer @@ [replaced |-> None], cache |-> [front |-> None, picks |-> {}], copies |-> <<>>,
   policy |-> "never", lossless |-> FALSE, room |-> 0, auto |-> FALSE,
   bounds |-> Bounds(2, 1, 0), edits |-> TagEdits, answers |-> {NoAnswer}]

TagAlbums ==
  {TagAlbum(Ripped(Single), Single),TagAlbum(Ripped(Varied), Varied),
    TagAlbum(Ripped(OneWork), OneWork), TagAlbum(Ripped(Discs), Discs),
    TagAlbum([Ripped(Single) EXCEPT ![2].slot = None], Single),
    TagAlbum([Ripped(Single) EXCEPT ![2].ok = FALSE], Single),
    TagAlbum([Ripped(Discs) EXCEPT ![2].video = TRUE], Discs)}

\* What a second program does to the images.
PicEdits == {[what |-> "pic", at |-> "t1", field |-> None, to |-> i] : i \in {None, "mid"}}
CoverEdits == {[what |-> "cover", at |-> "jpg", field |-> None, to |-> i] : i \in {None, "mid"}}

ArtAlbum(tracks, folder, now, later) ==
  [TagAlbum(Ripped(Single), Single) EXCEPT
     !.pics = tracks, !.covers = folder, !.policy = "if_missing",
     !.archive = now, !.stored = now @@ [replaced |-> None], !.answers = later,
     !.bounds = Bounds(1, 2, 0), !.edits = PicEdits \cup CoverEdits]
Unattended(a) == [a EXCEPT !.auto = TRUE, !.bounds = Bounds(1, 0, 1)]
Pressed(a) == [a EXCEPT !.bounds = Bounds(0, 2, 1)]

Both(i) == Pics(i, i)

\* A gap, and only another edition's front until the release gets its own.
Gapped == ArtAlbum(Pics(None, "small"), NoCover, Answer(None, "scan"), {Answer("mid", "scan")})
\* A PNG named as a JPEG, and a front no larger.
Misnamed == ArtAlbum(Both("mid"), Covers("drawn", None), Answer("mid", None), {})
\* A larger front than the cover.
Outgrown == ArtAlbum(Both("small"), Covers("small", None), Answer("mid", None), {Answer("scan", None)})
\* A release the archive has not been asked about.
Unasked == [ArtAlbum(Both("small"), NoCover, Answer(None, "mid"), {}) EXCEPT !.stored.group = None]
\* A borrowed front, squished, and the release's own.
Borrowed == [ArtAlbum(Both("copy"), Covers("copy", None), Answer("mid", "scan"), {}) EXCEPT
               !.side.borrowed = {"copy"}, !.copies = "copy" :> "scan"]
\* A borrowed front that the release turns out to have for its own.
OwnAfterAll == [Borrowed EXCEPT !.archive = Answer("scan", "scan"), !.stored.own = None]
\* An image to each track.
Various == ArtAlbum(Pics("small", "mid"), NoCover, Answer("scan", None), {})
\* Larger art for the tracks, where no cover is wanted.
Lossless == [ArtAlbum(Both("small"), NoCover, Answer("mid", None), {}) EXCEPT !.policy = "never", !.lossless = TRUE]
Roomy == [ArtAlbum(Both("small"), NoCover, Answer("scan", None), {}) EXCEPT !.policy = "never", !.room = 4]
\* Watched for better artwork, its first answer rejected.
Watched == [ArtAlbum(Both("small"), NoCover, Answer("mid", None), {Answer("scan", "mid")}) EXCEPT
              !.side.watch = TRUE, !.side.rejected = {"mid"}]
\* The front the album carries has been replaced.
Replaced(known) == [ArtAlbum(Both("small"), Covers("small", None), Answer("mid", None), {}) EXCEPT
                      !.stored.replaced = [image |-> "small", known |-> known]]
\* Images no player reads.
Heavy == ArtAlbum(Both("scan"), Covers(None, "scan"), NoAnswer, {Answer("mid", None)})
\* A PNG to replace under its name, beside which a JPEG may appear.
Drawn == ArtAlbum(Both("drawn"), Covers(None, "drawn"), Answer("plate", None), {})

McAlbums ==
  TagAlbums
  \cup {Unattended(Gapped), Unattended(Misnamed), Unattended(Lossless),
        Pressed(Gapped), Pressed(Outgrown), Pressed(Unasked), Pressed(Borrowed), Pressed(OwnAfterAll), Pressed(Roomy), Pressed(Replaced(TRUE)),
        Misnamed, Outgrown, Various, Lossless, Watched, Replaced(FALSE), Heavy, Drawn}
=============================================================================

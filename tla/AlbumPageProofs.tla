-------------------------- MODULE AlbumPageProofs --------------------------
(***************************************************************************)
(* Theorems about AlbumPage's artwork, for any album, any images and any    *)
(* bounds on what the owner, the archive and other programs do.             *)
(***************************************************************************)
EXTENDS AlbumPage, WellFoundedInduction, TLAPS

(***************************************************************************)
(* The lines of a plan.                                                     *)
(***************************************************************************)
Sources == {"album", "folder", "archive"}
LineType ==
  [at : Track \cup {Cover}, before : Art, after : Images, source : Sources,
   name : Kinds \cup {None}, to : Kinds \cup {None}, rename : BOOLEAN]

\* A line is a track's or the cover's, which has a name and takes one; of a
\* cover that is renamed only the name changes.
LineOK(l) ==
  /\ l \in LineType
  /\ l.at = Cover => l.name \in Kinds /\ l.to \in Kinds
  /\ l.rename => l.at = Cover /\ l.before = l.after /\ ~TooLarge(l.after)

\* What a plan is made from.
InputsOK(v) ==
  /\ v.pics \in [Track -> Art]
  /\ v.cover # None =>
       v.cover.image \in Images /\ v.cover.name \in Kinds /\ v.cover.beside \subseteq Kinds
  /\ v.archive \in Art
  /\ \A c \in DOMAIN v.picks : v.picks[c] \in Images
  /\ \A c \in DOMAIN v.copies : ~TooLarge(c)

LEMMA KindIsName == ASSUME NEW i \in Images PROVE Kind(i) \in Kinds
  BY ImageAssumption DEF Kind, Kinds

LEMMA TrackLineOK ==
  ASSUME NEW t \in Track, NEW before \in Art, NEW image \in Images, NEW source \in Sources
  PROVE  LineOK(Line(t, before, image, source))
<1>1. t # Cover
  BY AlbumsAssumption
<1> QED BY <1>1 DEF LineOK, LineType, Line

LEMMA TrackLinesOK ==
  ASSUME NEW v, InputsOK(v), NEW image \in Images, NEW source \in Sources
  PROVE  \A l \in TrackLines(v, image, source) : LineOK(l) /\ l.at # Cover
<1> SUFFICES ASSUME NEW t \in Track
             PROVE  LET l == Line(t, v.pics[t], image, source) IN LineOK(l) /\ l.at # Cover
  BY DEF TrackLines
<1>1. v.pics[t] \in Art
  BY DEF InputsOK
<1>2. t # Cover
  BY AlbumsAssumption
<1> QED BY <1>1, <1>2, TrackLineOK DEF Line

LEMMA NewCoverOK ==
  ASSUME NEW image \in Images, NEW source \in Sources
  PROVE  \A l \in NewCover(image, source) : LineOK(l) /\ l.at = Cover
<1>1. Kind(image) \in Kinds
  BY KindIsName
<1>2. None \notin Images /\ None \in Art
  BY ImageAssumption DEF Art
<1> SUFFICES ASSUME NEW l, l = CoverLine(None, image, source, Kind(image), Kind(image))
             PROVE  LineOK(l) /\ l.at = Cover
  BY DEF NewCover
<1>3. l = [at |-> Cover, before |-> None, after |-> image, source |-> source,
           name |-> Kind(image), to |-> Kind(image), rename |-> FALSE]
  BY DEF CoverLine
<1>4. l \in LineType
  BY <1>1, <1>2, <1>3 DEF LineType
<1> QED BY <1>1, <1>2, <1>3, <1>4 DEF LineOK

\* A cover no player reads is settled for no image, itself included.
LEMMA TooLargeUnsettled ==
  ASSUME NEW v, InputsOK(v), v.cover # None, TooLarge(v.cover.image), NEW image
  PROVE  ~ Settled(v.cover.image, image, v.copies)
<1>1. v.cover.image \notin DOMAIN v.copies
  BY DEF InputsOK
<1> QED BY <1>1 DEF Settled, Holds, MadeFrom

LEMMA OverCoverOK ==
  ASSUME NEW v, InputsOK(v), v.cover # None, NEW image \in Images, NEW source \in Sources
  PROVE  /\ \A l \in OverCover(v, image, source) : LineOK(l) /\ l.at = Cover
         /\ TooLarge(v.cover.image) => OverCover(v, image, source) # {}
<1>1. /\ v.cover.image \in Images /\ v.cover.name \in Kinds /\ v.cover.beside \subseteq Kinds
      /\ None \notin Images
  BY ImageAssumption DEF InputsOK
<1>2. NameFor(v.cover, Kind(image)) \in Kinds
  BY <1>1, KindIsName DEF NameFor
<1>3. TooLarge(v.cover.image) => OverCover(v, image, source) # {}
  BY TooLargeUnsettled DEF OverCover
<1>4. ASSUME NEW l \in OverCover(v, image, source) PROVE LineOK(l) /\ l.at = Cover
  <2>1. l = CoverLine(v.cover.image, image, source, v.cover.name, NameFor(v.cover, Kind(image)))
    BY DEF OverCover
  <2>2. l = [at |-> Cover, before |-> v.cover.image, after |-> image, source |-> source,
             name |-> v.cover.name, to |-> NameFor(v.cover, Kind(image)), rename |-> FALSE]
    BY <2>1 DEF CoverLine
  <2>3. l \in LineType
    BY <1>1, <1>2, <2>2 DEF LineType, Art
  <2> QED BY <1>1, <1>2, <2>2, <2>3 DEF LineOK
<1> QED BY <1>3, <1>4

LEMMA CoverLinesOK ==
  ASSUME NEW v, InputsOK(v), NEW image \in Images, NEW source \in Sources
  PROVE  /\ \A l \in CoverLines(v, image, source) : LineOK(l) /\ l.at = Cover
         /\ v.cover # None /\ TooLarge(v.cover.image) => CoverLines(v, image, source) # {}
  BY NewCoverOK, OverCoverOK DEF CoverLines

(***************************************************************************)
(* What is suggested of itself.                                             *)
(***************************************************************************)
LEMMA LeastNumber ==
  ASSUME NEW S \in SUBSET Nat, S # {}
  PROVE  \E n \in S : \A m \in S : n <= m
<1>1. PICK n \in S : \A m \in S : ~ (<<m, n>> \in OpToRel(<, Nat))
  BY NatLessThanWellFounded, WFMin
<1>2. ASSUME NEW m \in S, ~(n <= m) PROVE FALSE
  <2>1. m < n /\ <<m, n>> \in Nat \X Nat
    BY <1>2
  <2>2. <<m, n>> \in OpToRel(<, Nat)
    BY <2>1 DEF OpToRel
  <2> QED BY <1>1, <2>2
<1> QED BY <1>2

\* A set of tracks has a first one.
LEMMA FirstTrackIn ==
  ASSUME NEW S \in SUBSET Track, S # {}
  PROVE  FirstTrack(S) \in S
<1> DEFINE places == {n \in DOMAIN Tracks : Tracks[n] \in S}
<1>1. places \in SUBSET Nat /\ places # {}
  BY AlbumsAssumption DEF Track
<1>2. PICK n \in places : \A m \in places : n <= m
  <2> HIDE DEF places
  <2> QED BY <1>1, LeastNumber
<1>3. \A m \in 1..(n - 1) : Tracks[m] \notin S
  <2> SUFFICES ASSUME NEW m \in 1..(n - 1), Tracks[m] \in S PROVE FALSE
    OBVIOUS
  <2>1. n \in 1..Len(Tracks) /\ m \in 1..Len(Tracks)
    BY AlbumsAssumption, <1>2
  <2> QED BY <1>2, <2>1
<1>4. Tracks[n] \in S
  BY <1>2
<1> QED BY <1>3, <1>4 DEF FirstTrack

LEMMA OwnType ==
  ASSUME NEW v, v.pics \in [Track -> Art]
  PROVE  Own(v) \in Art
<1>1. CASE Carrying(v.pics) = {}
  BY <1>1 DEF Own, Art
<1>2. CASE Carrying(v.pics) # {}
  <2>1. Carrying(v.pics) \in SUBSET Track
    BY DEF Carrying
  <2>2. FirstTrack(Carrying(v.pics)) \in Track
    BY <1>2, <2>1, FirstTrackIn
  <2> QED BY <1>2, <2>2 DEF Own
<1> QED BY <1>1, <1>2

\* The images that are suggested are there, and an album with a cover has one.
LEMMA SuggestedImages ==
  ASSUME NEW v, InputsOK(v), NEW own \in Art, NEW front \in Art
  PROVE  LET image == TrackImage(v, own, front)
             best == Best(Best(CoverImage(v), own), front)
         IN /\ image \in Art /\ (v.cover # None => image # None)
            /\ image # None => best \in Images
<1>1. v.cover # None => v.cover.image \in Images
  BY DEF InputsOK
<1>2. None \notin Images /\ Art = Images \cup {None}
  BY ImageAssumption DEF Art
<1>3. CoverImage(v) \in Art /\ (v.cover # None => CoverImage(v) # None)
  BY <1>1, <1>2 DEF CoverImage
<1>4. \A i, j \in Art : /\ Best(i, j) \in {i, j}
                        /\ i # None \/ j # None => Best(i, j) # None
  BY DEF Best
<1>5. TrackImage(v, own, front) \in Art /\ (v.cover # None => TrackImage(v, own, front) # None)
  BY <1>1, <1>2 DEF TrackImage, Embiggens
<1>6. TrackImage(v, own, front) # None => own # None \/ front # None \/ CoverImage(v) # None
  BY <1>1, <1>2 DEF TrackImage, Embiggens, CoverImage
<1>7. Best(CoverImage(v), own) \in Art
  BY <1>3, <1>4
<1> QED BY <1>2, <1>3, <1>4, <1>5, <1>6, <1>7

LEMMA SourceTypes ==
  ASSUME NEW v, NEW own, NEW image
  PROVE  Source(v, own, image) \in Sources /\ CoverSource(v, own, image) \in Sources
  BY DEF Source, CoverSource, Sources

\* Lines as they should be, the cover's among them if no player reads it.
Proper(v, lines) ==
  /\ \A l \in lines : LineOK(l)
  /\ v.cover # None /\ TooLarge(v.cover.image) => \E l \in lines : l.at = Cover

LEMMA SuggestForProper ==
  ASSUME NEW v, InputsOK(v), NEW own, NEW image \in Art, NEW best,
         v.cover # None => image # None, image # None => best \in Images
  PROVE  Proper(v, SuggestFor(v, own, image, best))
<1>1. CASE image = None
  <2>1. SuggestFor(v, own, image, best) = {} /\ v.cover = None
    BY <1>1 DEF SuggestFor
  <2> QED BY <2>1 DEF Proper
<1>2. CASE image # None
  <2>1. image \in Images /\ best \in Images
    BY <1>2 DEF Art
  <2>2. PICK s \in Sources, c \in Sources :
          SuggestFor(v, own, image, best) = TrackLines(v, image, s) \cup CoverLines(v, best, c)
    BY <1>2, SourceTypes DEF SuggestFor
  <2>3. \A l \in TrackLines(v, image, s) : LineOK(l)
    BY <2>1, TrackLinesOK
  <2>4. /\ \A l \in CoverLines(v, best, c) : LineOK(l) /\ l.at = Cover
        /\ v.cover # None /\ TooLarge(v.cover.image) => CoverLines(v, best, c) # {}
    BY <2>1, CoverLinesOK
  <2> QED BY <2>2, <2>3, <2>4 DEF Proper
<1> QED BY <1>1, <1>2

LEMMA SuggestForOK ==
  ASSUME NEW v, InputsOK(v), NEW own \in Art, NEW front \in Art
  PROVE  Proper(v, SuggestFor(v, own, TrackImage(v, own, front), Best(Best(CoverImage(v), own), front)))
  BY SuggestedImages, SuggestForProper

LEMMA SuggestOK ==
  ASSUME NEW v, InputsOK(v)
  PROVE  Proper(v, Suggest(v))
<1>1. Own(v) \in Art /\ Offered(v) \in Art
  BY OwnType DEF InputsOK, Offered, Art
<1>2. "archive" \in Sources /\ "folder" \in Sources
  BY DEF Sources
<1>3. CASE HasPerTrackArt(v.pics)
  <2>1. Proper(v, SuggestCover(v, Offered(v)))
    <3>1. CASE v.cover = None
      <4>1. Offered(v) # None => Offered(v) \in Images
        BY <1>1 DEF Art
      <4> QED BY <1>2, <3>1, <4>1, CoverLinesOK DEF SuggestCover, Proper
    <3>2. CASE v.cover # None
      <4>1. v.cover.image \in Images
        BY <3>2 DEF InputsOK
      <4>2. /\ \A l \in OverCover(v, v.cover.image, "folder") : LineOK(l) /\ l.at = Cover
            /\ TooLarge(v.cover.image) => OverCover(v, v.cover.image, "folder") # {}
        BY <1>2, <3>2, <4>1, OverCoverOK
      <4> QED BY <3>2, <4>2 DEF SuggestCover, Proper
    <3> QED BY <3>1, <3>2
  <2> QED BY <1>3, <2>1 DEF Suggest, SuggestWith
<1>4. CASE ~ HasPerTrackArt(v.pics)
  BY <1>1, <1>4, SuggestForOK DEF Suggest, SuggestWith
<1> QED BY <1>3, <1>4

(***************************************************************************)
(* What is chosen, or proposed, in place of what is suggested.              *)
(***************************************************************************)
LEMMA TakenImages ==
  ASSUME NEW v, InputsOK(v), NEW choices
  PROVE  LET chosen == Honoured(v, choices) IN
         \A c \in DOMAIN Taken(v, chosen) : Taken(v, chosen)[c] \in Images
<1> DEFINE chosen == Honoured(v, choices)
<1> SUFFICES ASSUME NEW c \in DOMAIN chosen, chosen[c] # Keep
             PROVE  Named(v, chosen[c]) \in Images
  BY DEF Taken
<1>1. Named(v, chosen[c]) # None
  BY DEF Honoured
<1>2. Named(v, chosen[c]) \in Art
  BY DEF Named, InputsOK, Art
<1> QED BY <1>1, <1>2 DEF Art

LEMMA SourceOK ==
  ASSUME NEW l, LineOK(l), NEW source \in Sources
  PROVE  /\ LineOK([l EXCEPT !.source = source])
         /\ [l EXCEPT !.source = source].at = l.at
<1> DEFINE k == [l EXCEPT !.source = source]
<1>1. l \in LineType
  BY DEF LineOK
<1>2. k \in LineType
  BY <1>1 DEF LineType
<1>3. /\ k.at = l.at /\ k.before = l.before /\ k.after = l.after /\ k.name = l.name
      /\ k.to = l.to /\ k.rename = l.rename
  BY <1>1 DEF LineType
<1> HIDE DEF k
<1>4. LineOK(k)
  BY <1>2, <1>3 DEF LineOK
<1> QED BY <1>3, <1>4 DEF k

LEMMA UnchosenOK ==
  ASSUME NEW lines, \A l \in lines : LineOK(l), NEW choices, NEW taken
  PROVE  /\ \A l \in Unchosen(lines, choices, taken) : LineOK(l)
         /\ \A l \in lines : l.at = Cover /\ Cover \notin DOMAIN choices =>
              \E k \in Unchosen(lines, choices, taken) : k.at = Cover
<1> DEFINE Src(l) == IF \E c \in DOMAIN taken : taken[c] = l.after THEN "archive" ELSE l.source
           As(l) == [l EXCEPT !.source = Src(l)]
<1>1. \A l \in lines : Src(l) \in Sources
  BY DEF LineOK, LineType, Sources
<1>2. \A l \in lines : LineOK(As(l)) /\ As(l).at = l.at
  <2> SUFFICES ASSUME NEW l \in lines PROVE LineOK(As(l)) /\ As(l).at = l.at
    OBVIOUS
  <2>1. Src(l) \in Sources
    BY <1>1
  <2> HIDE DEF Src
  <2> QED BY <2>1, SourceOK
<1>3. Unchosen(lines, choices, taken) = {As(l) : l \in {l \in lines : LineCarrier(l) \notin DOMAIN choices}}
  BY DEF Unchosen
<1> HIDE DEF As
<1> QED BY <1>2, <1>3 DEF LineCarrier

LEMMA WithTakenOK ==
  ASSUME NEW v, InputsOK(v), NEW lines, Proper(v, lines), NEW choices,
         \A c \in DOMAIN Taken(v, choices) : Taken(v, choices)[c] \in Images
  PROVE  LET written == WithTaken(v, lines, choices, Taken(v, choices)) IN
         /\ \A l \in written : LineOK(l)
         /\ v.cover # None /\ TooLarge(v.cover.image) =>
              (\E l \in written : l.at = Cover) \/ (Cover \in DOMAIN choices /\ choices[Cover] = Keep)
<1> DEFINE taken == Taken(v, choices)
           written == WithTaken(v, lines, choices, taken)
<1>1. Cover \in DOMAIN choices /\ choices[Cover] # Keep => Cover \in DOMAIN taken
  BY DEF Taken
<1>2. \A c \in DOMAIN taken : taken[c] \in Images
  OBVIOUS
<1> HIDE DEF taken
<1>3. "archive" \in Sources
  BY DEF Sources
<1>4. ASSUME NEW l \in ChosenTracks(v, taken) PROVE LineOK(l)
  <2>1. PICK t \in Track : /\ CarrierOf(v.pics[t]) \in DOMAIN taken
                           /\ l = Line(t, v.pics[t], taken[CarrierOf(v.pics[t])], "archive")
    BY <1>4 DEF ChosenTracks
  <2>2. v.pics[t] \in Art
    BY DEF InputsOK
  <2> QED BY <1>2, <1>3, <2>1, <2>2, TrackLineOK
<1>5. /\ \A l \in ChosenCover(v, taken) : LineOK(l) /\ l.at = Cover
      /\ Cover \in DOMAIN taken /\ v.cover # None /\ TooLarge(v.cover.image) => ChosenCover(v, taken) # {}
  <2>1. CASE Cover \notin DOMAIN taken
    BY <2>1 DEF ChosenCover
  <2>2. CASE Cover \in DOMAIN taken
    BY <1>2, <1>3, <2>2, NewCoverOK, OverCoverOK DEF ChosenCover
  <2> QED BY <2>1, <2>2
<1>6. /\ \A l \in Unchosen(lines, choices, taken) : LineOK(l)
      /\ \A l \in lines : l.at = Cover /\ Cover \notin DOMAIN choices =>
           \E k \in Unchosen(lines, choices, taken) : k.at = Cover
  BY UnchosenOK DEF Proper
<1>7. written = Unchosen(lines, choices, taken) \cup ChosenTracks(v, taken) \cup ChosenCover(v, taken)
  BY DEF WithTaken
<1> HIDE DEF written
<1>8. \A l \in written : LineOK(l)
  BY <1>4, <1>5, <1>6, <1>7
<1>9. ASSUME v.cover # None, TooLarge(v.cover.image)
      PROVE  (\E l \in written : l.at = Cover) \/ (Cover \in DOMAIN choices /\ choices[Cover] = Keep)
  <2>1. CASE Cover \notin DOMAIN choices
    BY <1>6, <1>7, <1>9, <2>1 DEF Proper
  <2>2. CASE Cover \in DOMAIN choices
    BY <1>1, <1>5, <1>7, <1>9, <2>2
  <2> QED BY <2>1, <2>2
<1>10. /\ \A l \in written : LineOK(l)
       /\ v.cover # None /\ TooLarge(v.cover.image) =>
            (\E l \in written : l.at = Cover) \/ (Cover \in DOMAIN choices /\ choices[Cover] = Keep)
  BY <1>8, <1>9
<1> QED BY <1>10 DEF written, taken

LEMMA RenamingOK ==
  ASSUME NEW v, InputsOK(v), NEW lines, \A l \in lines : LineOK(l), NEW choices,
         v.cover # None /\ TooLarge(v.cover.image) =>
           (\E l \in lines : l.at = Cover) \/ (Cover \in DOMAIN choices /\ choices[Cover] = Keep)
  PROVE  \A l \in Renaming(v, lines, choices) : LineOK(l)
<1> SUFFICES ASSUME NEW l \in Renaming(v, lines, choices), l \notin lines PROVE LineOK(l)
  OBVIOUS
<1>1. /\ v.cover # None /\ ~ (\E k \in lines : k.at = Cover)
      /\ ~ (Cover \in DOMAIN choices /\ choices[Cover] = Keep)
      /\ l = [CoverLine(v.cover.image, v.cover.image, "folder", v.cover.name, Image[v.cover.image].kind)
                EXCEPT !.rename = TRUE]
  BY DEF Renaming
<1>2. /\ v.cover.image \in Images /\ v.cover.name \in Kinds
      /\ Image[v.cover.image].kind \in Kinds
  BY <1>1, ImageAssumption DEF InputsOK
<1>3. ~ TooLarge(v.cover.image)
  BY <1>1
<1>4. l = [at |-> Cover, before |-> v.cover.image, after |-> v.cover.image, source |-> "folder",
           name |-> v.cover.name, to |-> Image[v.cover.image].kind, rename |-> TRUE]
  BY <1>1 DEF CoverLine
<1>5. l \in LineType
  BY <1>2, <1>4 DEF LineType, Art, Sources
<1> QED BY <1>2, <1>3, <1>4, <1>5 DEF LineOK

LEMMA PlanOK ==
  ASSUME NEW v, InputsOK(v)
  PROVE  \A l \in Plan(v).lines : LineOK(l)
<1> DEFINE choices == Honoured(v, Over(v.choices, GivenWay(v, v.standIns \ {v.archive, None})))
           written == WithTaken(v, Suggest(v), choices, Taken(v, choices))
<1>1. \A c \in DOMAIN Taken(v, choices) : Taken(v, choices)[c] \in Images
  BY TakenImages
<1>2. Plan(v).lines = Renaming(v, written, choices)
  BY DEF Plan, PlanHonouring
<1> HIDE DEF choices
<1>3. /\ \A l \in written : LineOK(l)
      /\ v.cover # None /\ TooLarge(v.cover.image) =>
           (\E l \in written : l.at = Cover) \/ (Cover \in DOMAIN choices /\ choices[Cover] = Keep)
  BY <1>1, SuggestOK, WithTakenOK
<1> HIDE DEF written
<1> QED BY <1>2, <1>3, RenamingOK

(***************************************************************************)
(* What a page, a card, a re-tag and a pass make their plans from.          *)
(***************************************************************************)
ReadingOK(r) == /\ r.pics \in [Track -> Art] /\ r.covers \in [Kinds -> Art]
                /\ \A c \in DOMAIN r.copies : ~TooLarge(c)
KeptOK(k) == k.front \in Art /\ k.picks \subseteq Images

LEMMA FolderCoverOK ==
  ASSUME NEW kinds \in [Kinds -> Art]
  PROVE  LET cover == FolderCover(kinds) IN
         cover # None => cover.image \in Images /\ cover.name \in Kinds /\ cover.beside \subseteq Kinds
<1>1. kinds["jpg"] \in Art /\ kinds["png"] \in Art /\ {"jpg", "png"} = Kinds
  BY DEF Kinds
<1>2. CASE kinds["jpg"] # None
  <2>1. FolderCover(kinds) = [image |-> kinds["jpg"], name |-> "jpg",
                              beside |-> {k \in {"png"} : kinds[k] # None}]
    BY <1>2 DEF FolderCover
  <2> QED BY <1>1, <1>2, <2>1 DEF Art
<1>3. CASE kinds["jpg"] = None /\ kinds["png"] # None
  <2>1. FolderCover(kinds) = [image |-> kinds["png"], name |-> "png", beside |-> {}]
    BY <1>3 DEF FolderCover
  <2> QED BY <1>1, <1>3, <2>1 DEF Art
<1>4. CASE kinds["jpg"] = None /\ kinds["png"] = None
  BY <1>4 DEF FolderCover
<1> QED BY <1>2, <1>3, <1>4

LEMMA InputsAreOK ==
  ASSUME NEW r, ReadingOK(r), NEW k, KeptOK(k), NEW choices, NEW standIns
  PROVE  InputsOK(Inputs(r, choices, standIns, k))
<1> DEFINE v == Inputs(r, choices, standIns, k)
<1>1. /\ v.pics = r.pics /\ v.cover = FolderCover(r.covers) /\ v.archive = k.front
      /\ v.picks = Originals(k) /\ v.copies = r.copies
  BY DEF Inputs
<1> HIDE DEF v
<1>2. \A c \in DOMAIN Originals(k) : Originals(k)[c] \in Images
  BY DEF Originals, KeptOK, Art
<1>3. v.cover # None =>
        v.cover.image \in Images /\ v.cover.name \in Kinds /\ v.cover.beside \subseteq Kinds
  BY <1>1, FolderCoverOK DEF ReadingOK
<1>4. InputsOK(v)
  BY <1>1, <1>2, <1>3 DEF InputsOK, ReadingOK, KeptOK
<1> QED BY <1>4 DEF v

LEMMA ArtworkOK ==
  ASSUME NEW r, ReadingOK(r), KeptOK(cache), NEW choices
  PROVE  \A l \in Artwork(r, choices).lines : LineOK(l)
  BY InputsAreOK, PlanOK DEF Artwork

LEMMA DecideOK ==
  ASSUME ReadingOK(Reading), NEW k, KeptOK(k), NEW choices
  PROVE  \A l \in DecideArtwork(choices, k).lines : LineOK(l)
  BY InputsAreOK, PlanOK DEF DecideArtwork

(***************************************************************************)
(* What is shown of a line is all that its writing depends on.              *)
(***************************************************************************)
LEMMA FitOK ==
  ASSUME NEW i \in Images
  PROVE  /\ Fit(i) \in Images
         /\ Fit(i) # i => ~TooLarge(Fit(i))
         /\ ~TooLarge(i) => Fit(i) = i
  BY ImageAssumption DEF Fit, Squished, Art

Face(l) == [at |-> l.at, before |-> l.before, after |-> l.after, name |-> l.name,
            to |-> IF l.to = l.name THEN None ELSE l.to]

LEMMA Faces ==
  ASSUME NEW lines, NEW scope
  PROVE  Fingerprint(lines, scope) = {Face(l) : l \in Scoped(lines, scope)}
  BY DEF Fingerprint, Face

\* Two lines with one face write the same thing to the same place.
LEMMA SameFace ==
  ASSUME NEW l, LineOK(l), NEW s, LineOK(s), Face(l) = Face(s)
  PROVE  /\ s.at = l.at /\ s.before = l.before /\ s.after = l.after /\ s.name = l.name
         /\ l.at = Cover => \A kinds : PutCover(l, kinds) = PutCover(s, kinds)
<1>1. /\ s.at = l.at /\ s.before = l.before /\ s.after = l.after /\ s.name = l.name
      /\ (IF l.to = l.name THEN None ELSE l.to) = (IF s.to = s.name THEN None ELSE s.to)
  BY DEF Face
<1>2. ASSUME l.at = Cover, NEW kinds PROVE PutCover(l, kinds) = PutCover(s, kinds)
  <2>1. /\ l.to \in Kinds /\ s.to \in Kinds /\ None \notin Kinds
    BY <1>1, <1>2, ImageAssumption DEF LineOK
  <2>2. l.to = s.to
    BY <1>1, <2>1
  <2>3. l.after \in Images
    BY DEF LineOK, LineType
  <2>4. l.rename \/ s.rename => Fit(l.after) = l.after
    BY <1>1, <2>3, FitOK DEF LineOK
  <2> QED BY <1>1, <2>2, <2>4 DEF PutCover
<1> QED BY <1>1, <1>2

(***************************************************************************)
(* The inductive invariant.                                                 *)
(***************************************************************************)
AnswerOK(a) == a.own \in Art /\ a.group \in Art
DiskOK ==
  /\ pics \in [Track -> Art] /\ covers \in [Kinds -> Art]
  /\ \A c \in DOMAIN copies : ~TooLarge(c)
RemoteOK ==
  /\ AnswerOK(archive) /\ AnswerOK(stored)
  /\ cache \in [front : Art, picks : SUBSET Images]
SeenOK ==
  /\ {"pics", "covers", "copies"} \subseteq DOMAIN seen
  /\ seen.pics \in [Track -> Art] /\ seen.covers \in [Kinds -> Art]
BudgetOK == budget \in [outside : Nat, presses : Nat, faults : Nat]
PageOK == page # None => \A l \in page.lines : LineOK(l)

\* What is left of a job is of what was shown when it began, and a pass's only
\* adds.
JobOK ==
  job # None =>
    /\ {"by", "left", "shown", "stage", "kept", "wrote", "missed"} \subseteq DOMAIN job
    /\ job.wrote \subseteq Images
    /\ \A l \in job.left \cup job.shown : LineOK(l)
    /\ \A l \in job.left : \E s \in job.shown : Face(l) = Face(s)
    /\ job.by = "auto" => \A l \in job.left : Addition(l)

ArtInv == album \in Albums /\ DiskOK /\ RemoteOK /\ SeenOK /\ BudgetOK /\ PageOK /\ JobOK

LEMMA ReadAsOK ==
  ASSUME DiskOK, NEW sc
  PROVE  ReadingOK(ReadAs(sc))
  BY DEF DiskOK, ReadingOK, ReadAs

LEMMA ScannedOK ==
  ASSUME DiskOK, SeenOK
  PROVE  ReadingOK(Scanned(seen))
  BY DEF DiskOK, SeenOK, ReadingOK, Scanned

LEMMA CacheOK ==
  ASSUME RemoteOK PROVE KeptOK(cache)
  BY DEF RemoteOK, KeptOK

LEMMA FrontOK ==
  ASSUME NEW a, AnswerOK(a)
  PROVE  FrontOf(a) \in Art /\ FrontsIn(a) \subseteq Images
  BY DEF AnswerOK, FrontOf, FrontsIn, Art

LEMMA PreparedOK ==
  ASSUME RemoteOK, NEW a, AnswerOK(a), NEW r
  PROVE  Prepared(r, a) \subseteq Images
<1>1. Fronts(a) \in Seq(Images)
  BY DEF AnswerOK, Fronts, Art
<1> DEFINE fronts == Fronts(a)
<1>2. \A n \in DOMAIN fronts : fronts[n] \in Images
  BY <1>1
<1>3. cache.picks \subseteq Images
  BY DEF RemoteOK
<1> HIDE DEF fronts
<1>4. Prepared(r, a) \subseteq cache.picks \cup {fronts[n] : n \in DOMAIN fronts}
  BY DEF Prepared, fronts
<1> QED BY <1>2, <1>3, <1>4

\* Asking the archive leaves the answer and the images in hand as they should be.
LEMMA AskedOK ==
  ASSUME RemoteOK, NEW r, NEW widths, Asked(r, widths), archive' = archive
  PROVE  RemoteOK'
<1>1. FrontOf(archive) \in Art /\ FrontOf(stored) \in Art
  BY FrontOK DEF RemoteOK
<1>2. stored' = [own |-> archive.own, group |-> archive.group, replaced |-> stored'.replaced]
  BY DEF Asked, WithReplaced
<1>3. AnswerOK(stored')
  BY <1>2 DEF RemoteOK, AnswerOK
<1>4. Prepared(r, stored') \subseteq Images
  BY <1>3, PreparedOK
<1>5. KeptFront(widths) \in Art
  BY <1>1 DEF KeptFront, RemoteOK, Art
<1>6. cache' \in [front : Art, picks : SUBSET Images]
  BY <1>4, <1>5 DEF Asked
<1> QED BY <1>3, <1>6 DEF RemoteOK

LEMMA FrontImageOK ==
  ASSUME RemoteOK
  PROVE  FrontImage \in [front : Art, picks : SUBSET Images] /\ KeptOK(FrontImage)
<1>1. FrontOf(archive) \in Art
  BY FrontOK DEF RemoteOK
<1>2. FrontImage \in [front : Art, picks : SUBSET Images]
  BY <1>1 DEF FrontImage, RemoteOK
<1> QED BY <1>2 DEF KeptOK

LEMMA SameFaces ==
  ASSUME NEW a, NEW b, NEW scope, Fingerprint(a, scope) = Fingerprint(b, scope)
  PROVE  \A l \in Scoped(a, scope) : \E s \in Scoped(b, scope) : Face(l) = Face(s)
<1>1. {Face(l) : l \in Scoped(a, scope)} = {Face(l) : l \in Scoped(b, scope)}
  BY Faces
<1>2. \A l \in Scoped(a, scope) : Face(l) \in {Face(s) : s \in Scoped(b, scope)}
  BY <1>1
<1> QED BY <1>2

LEMMA AllScoped ==
  ASSUME NEW lines
  PROVE  /\ Scoped(lines, "all") = lines
         /\ \A scope : Scoped(lines, scope) \subseteq lines
         /\ \A l \in Scoped(lines, "additions") : Addition(l)
  BY DEF Scoped

LEMMA BeginOK ==
  ASSUME NEW by, NEW plan, NEW lines, NEW shown, NEW sc, NEW key, Begin(by, plan, lines, shown, sc, key),
         \A l \in lines \cup shown : LineOK(l),
         \A l \in lines : \E s \in shown : Face(l) = Face(s),
         by = "auto" => \A l \in lines : Addition(l)
  PROVE  JobOK'
<1>1. job' = [by |-> by, left |-> lines, shown |-> shown, choices |-> plan.choices, side |-> sc, key |-> key,
              pics |-> pics, cover |-> FolderCover(covers),
              stage |-> "load", kept |-> {}, wrote |-> {}, missed |-> FALSE]
  BY DEF Begin
<1>2. /\ {"by", "left", "shown", "stage", "kept", "wrote", "missed"} \subseteq DOMAIN job'
      /\ job'.wrote = {} /\ job'.left = lines /\ job'.shown = shown /\ job'.by = by
  BY <1>1
<1> QED BY <1>2 DEF JobOK

\* The line a job is at is one of those left to it.
LEMMA NextLineIn ==
  ASSUME JobOK, job # None, job.left # {}
  PROVE  NextLine \in job.left
<1>1. \E l \in job.left : TracksLeft # {} => l.at = FirstTrack(TracksLeft)
  <2>1. CASE TracksLeft = {}
    BY <2>1
  <2>2. CASE TracksLeft # {}
    <3>1. TracksLeft \in SUBSET Track
      BY DEF TracksLeft
    <3>2. FirstTrack(TracksLeft) \in TracksLeft
      BY <2>2, <3>1, FirstTrackIn
    <3> QED BY <3>2 DEF TracksLeft
  <2> QED BY <2>1, <2>2
<1> QED BY <1>1 DEF NextLine

LEMMA SpendOK ==
  ASSUME BudgetOK, NEW what \in {"outside", "presses", "faults"}, Spend(what)
  PROVE  BudgetOK'
  BY DEF BudgetOK, Spend

(***************************************************************************)
(* Reading the album, and asking the archive.                               *)
(***************************************************************************)
LEMMA ScanStep ==
  ASSUME ArtInv, Scan \/ PassStart
  PROVE  ArtInv'
<1>1. UNCHANGED <<album, onDisk, remote, copies, page, job, budget>>
  BY DEF Scan, PassStart
<1>2. seen' = seen \/ seen' = Reading
  BY DEF Scan, PassStart
<1>3. SeenOK'
  BY <1>2 DEF ArtInv, SeenOK, DiskOK, Reading, ReadAs
<1> QED BY <1>1, <1>3 DEF ArtInv, DiskOK, RemoteOK, BudgetOK, PageOK, JobOK, onDisk, remote

LEMMA AskStep ==
  ASSUME ArtInv, Sweep \/ CheckCoverArt
  PROVE  ArtInv'
<1>1. UNCHANGED <<album, pics, covers, archive, copies, job, budget>> /\ page' \in {page, None}
  BY DEF Sweep, CheckCoverArt, onDisk
<1>2. seen' = seen \/ seen' = ReadAs(side')
  BY DEF Sweep, CheckCoverArt
<1>3. RemoteOK'
  BY <1>1, AskedOK DEF ArtInv, Sweep, CheckCoverArt
<1>4. SeenOK'
  BY <1>2 DEF ArtInv, SeenOK, DiskOK, ReadAs
<1> QED BY <1>1, <1>3, <1>4 DEF ArtInv, DiskOK, BudgetOK, PageOK, JobOK

(***************************************************************************)
(* The page and the card.                                                   *)
(***************************************************************************)
LEMMA OpenPageStep ==
  ASSUME ArtInv, OpenPage
  PROVE  ArtInv'
<1>1. UNCHANGED <<album, onDisk, remote, copies, job, budget>>
  BY DEF OpenPage
<1>2. page'.lines = Artwork(Reading, <<>>).lines /\ seen' = Reading
  BY DEF OpenPage, Shows
<1>3. PageOK'
  BY <1>2, ReadAsOK, CacheOK, ArtworkOK DEF ArtInv, PageOK, Reading
<1>4. SeenOK'
  BY <1>2 DEF ArtInv, SeenOK, DiskOK, Reading, ReadAs
<1> QED BY <1>1, <1>3, <1>4 DEF ArtInv, DiskOK, RemoteOK, BudgetOK, JobOK, onDisk, remote

LEMMA OpenCardStep ==
  ASSUME ArtInv, OpenCard
  PROVE  ArtInv'
<1>1. UNCHANGED <<album, onDisk, remote, copies, seen, job, budget>>
  BY DEF OpenCard
<1>2. page'.lines = Artwork(Scanned(seen), <<>>).lines
  BY DEF OpenCard, Shows, Artwork, Plan, PlanHonouring
<1>3. PageOK'
  BY <1>2, ScannedOK, CacheOK, ArtworkOK DEF ArtInv, PageOK
<1> QED BY <1>1, <1>3 DEF ArtInv, DiskOK, RemoteOK, SeenOK, BudgetOK, JobOK, onDisk, remote

LEMMA ChooseStep ==
  ASSUME ArtInv, NEW carrier, NEW choice, Choose(carrier, choice)
  PROVE  ArtInv'
<1>1. UNCHANGED <<album, onDisk, archive, stored, copies, seen, job>>
  BY DEF Choose
<1>2. BudgetOK'
  BY SpendOK DEF ArtInv, Choose
<1>3. cache' = [cache EXCEPT !.picks = @ \cup ({choice} \cap FrontsIn(stored))]
  BY DEF Choose
<1>4. FrontsIn(stored) \subseteq Images
  BY FrontOK DEF ArtInv, RemoteOK
<1>5. RemoteOK'
  BY <1>1, <1>3, <1>4 DEF ArtInv, RemoteOK
<1>6. PICK choices : page'.lines = Artwork(Reading, choices).lines
  BY DEF Choose, Shows
<1>7. PageOK'
  BY <1>6, ReadAsOK, CacheOK, ArtworkOK DEF ArtInv, PageOK, Reading
<1> QED BY <1>1, <1>2, <1>5, <1>7 DEF ArtInv, DiskOK, SeenOK, JobOK, onDisk

LEMMA OwnerStep ==
  ASSUME ArtInv, Watch \/ \E image : Suggestion(image)
  PROVE  ArtInv'
<1>1. UNCHANGED <<album, pics, covers, archive, stored, copies, job>> /\ page' = None
  BY DEF Watch, Suggestion
<1>2. BudgetOK'
  BY SpendOK DEF ArtInv, Watch, Suggestion
<1>3. /\ cache' = [cache EXCEPT !.picks = Prepared(ReadAs(side'), stored)]
      /\ seen' = ReadAs(side')
  BY DEF Watch, Suggestion
<1>4. Prepared(ReadAs(side'), stored) \subseteq Images
  BY PreparedOK DEF ArtInv, RemoteOK
<1>5. RemoteOK'
  BY <1>1, <1>3, <1>4 DEF ArtInv, RemoteOK
<1>6. SeenOK'
  BY <1>3 DEF ArtInv, SeenOK, DiskOK, ReadAs
<1> QED BY <1>1, <1>2, <1>5, <1>6 DEF ArtInv, DiskOK, PageOK, JobOK

(***************************************************************************)
(* Starting a job.                                                          *)
(***************************************************************************)
LEMMA UpdatesStep ==
  ASSUME ArtInv, ApplyUpdates
  PROVE  ArtInv'
<1> DEFINE fresh == Artwork(Reading, page.use)
<1>1. UNCHANGED <<album, onDisk, remote, copies>> /\ seen' = Reading /\ page # None
  BY DEF ApplyUpdates
<1>2. BudgetOK'
  BY SpendOK DEF ArtInv, ApplyUpdates
<1>3. SeenOK'
  BY <1>1 DEF ArtInv, SeenOK, DiskOK, Reading, ReadAs
<1>4. \A choices : \A l \in Artwork(Reading, choices).lines : LineOK(l)
  BY ReadAsOK, CacheOK, ArtworkOK DEF ArtInv, Reading
<1>5. CASE Fingerprint(fresh.lines, "all") = Fingerprint(page.lines, "all")
  <2>1. Begin("page", fresh, fresh.lines, page.lines, side, None) /\ page' = None
    BY <1>5 DEF ApplyUpdates
  <2>2. \A l \in fresh.lines \cup page.lines : LineOK(l)
    BY <1>1, <1>4 DEF ArtInv, PageOK
  <2> HIDE DEF fresh
  <2>3. \A l \in fresh.lines : \E s \in page.lines : Face(l) = Face(s)
    BY <1>5, SameFaces, AllScoped
  <2>4. JobOK'
    BY <2>1, <2>2, <2>3, BeginOK
  <2> QED BY <1>1, <1>2, <1>3, <2>1, <2>4 DEF ArtInv, DiskOK, RemoteOK, PageOK, onDisk, remote
<1>6. CASE Fingerprint(fresh.lines, "all") # Fingerprint(page.lines, "all")
  <2>1. page' = Shows(Artwork(Reading, <<>>), FALSE) /\ job' = None
    BY <1>6 DEF ApplyUpdates
  <2>2. PageOK' /\ JobOK'
    BY <1>4, <2>1 DEF Shows, PageOK, JobOK
  <2> QED BY <1>1, <1>2, <1>3, <2>2 DEF ArtInv, DiskOK, RemoteOK, onDisk, remote
<1> QED BY <1>5, <1>6

LEMMA ChosenStep ==
  ASSUME ArtInv, ApplyChosen
  PROVE  ArtInv'
<1> DEFINE fresh == Artwork(ReadAs(seen.side), <<>>)
<1>1. UNCHANGED <<album, onDisk, remote, copies, seen>> /\ page # None /\ page' = None
  BY DEF ApplyChosen
<1>2. BudgetOK'
  BY SpendOK DEF ArtInv, ApplyChosen
<1>3. \A l \in fresh.lines : LineOK(l)
  BY ReadAsOK, CacheOK, ArtworkOK DEF ArtInv
<1>4. \A l \in page.lines : LineOK(l)
  BY <1>1 DEF ArtInv, PageOK
<1>5. JobOK'
  <2>1. CASE Fingerprint(fresh.lines, "all") = Fingerprint(page.lines, "all") /\ fresh.lines # {}
    <3>1. Begin("card", fresh, fresh.lines, page.lines, seen.side, None)
      BY <2>1 DEF ApplyChosen
    <3> HIDE DEF fresh
    <3>2. \A l \in fresh.lines : \E s \in page.lines : Face(l) = Face(s)
      BY <2>1, SameFaces, AllScoped
    <3> QED BY <1>3, <1>4, <3>1, <3>2, BeginOK
  <2>2. CASE ~(Fingerprint(fresh.lines, "all") = Fingerprint(page.lines, "all") /\ fresh.lines # {})
    <3>1. job' = None
      BY <2>2 DEF ApplyChosen
    <3> QED BY <3>1 DEF JobOK
  <2> QED BY <2>1, <2>2
<1> QED BY <1>1, <1>2, <1>5 DEF ArtInv, DiskOK, RemoteOK, SeenOK, PageOK, onDisk, remote

LEMMA RetagOnlyStep ==
  ASSUME ArtInv, RetagOnly
  PROVE  ArtInv'
<1>1. UNCHANGED <<album, pics, covers, archive, stored, copies, seen, cache, job>> /\ page' = None
  BY DEF RetagOnly, TagFiles
<1>2. BudgetOK'
  BY SpendOK DEF ArtInv, RetagOnly, TagFiles
<1> QED BY <1>1, <1>2 DEF ArtInv, DiskOK, RemoteOK, SeenOK, PageOK, JobOK

LEMMA RetagStep ==
  ASSUME ArtInv, NEW scope, Retag(scope)
  PROVE  ArtInv'
<1> DEFINE decided == DecideArtwork(IF scope = "all" THEN page.use ELSE <<>>, FrontImage)
<1>1. /\ UNCHANGED <<album, pics, covers, archive, stored, copies, seen>>
      /\ page # None /\ page' = None /\ cache' = FrontImage
  BY DEF Retag, TagFiles
<1>2. BudgetOK'
  BY SpendOK DEF ArtInv, Retag, TagFiles
<1>3. RemoteOK'
  BY <1>1, FrontImageOK DEF ArtInv, RemoteOK
<1>4. \A l \in decided.lines : LineOK(l)
  BY ReadAsOK, FrontImageOK, DecideOK DEF ArtInv, Reading
<1>5. \A l \in page.lines : LineOK(l)
  BY <1>1 DEF ArtInv, PageOK
<1>6. JobOK'
  <2>1. CASE Fingerprint(decided.lines, scope) = Fingerprint(page.lines, scope)
    <3>1. Begin("retag", decided, Scoped(decided.lines, scope), Scoped(page.lines, scope), side, None)
      BY <2>1 DEF Retag
    <3>2. \A l \in Scoped(decided.lines, scope) : \E s \in Scoped(page.lines, scope) : Face(l) = Face(s)
      BY <2>1, SameFaces
    <3> HIDE DEF decided
    <3>3. \A l \in Scoped(decided.lines, scope) \cup Scoped(page.lines, scope) : LineOK(l)
      BY <1>4, <1>5, AllScoped
    <3> QED BY <3>1, <3>2, <3>3, BeginOK
  <2>2. CASE Fingerprint(decided.lines, scope) # Fingerprint(page.lines, scope)
    <3>1. job' = None
      BY <2>2 DEF Retag
    <3> QED BY <3>1 DEF JobOK
  <2> QED BY <2>1, <2>2
<1> QED BY <1>1, <1>2, <1>3, <1>6 DEF ArtInv, DiskOK, SeenOK, PageOK

LEMMA PassStep ==
  ASSUME ArtInv, PassTurns
  PROVE  ArtInv'
<1> DEFINE plan == Artwork(ReadAs(pass.side), <<>>)
           key == Fingerprint(Suggested(Scanned(pass)), "all")
<1>1. UNCHANGED <<album, onDisk, remote, copies, page, budget>> /\ PassTurn(plan, key)
  BY DEF PassTurns
<1>2. \A l \in plan.lines : LineOK(l)
  BY ReadAsOK, CacheOK, ArtworkOK DEF ArtInv
<1> HIDE DEF plan, key
<1>3. CASE UNCHANGED job /\ seen' = Reading
  <2>1. SeenOK'
    BY <1>3 DEF ArtInv, SeenOK, DiskOK, Reading, ReadAs
  <2> QED BY <1>1, <1>3, <2>1 DEF ArtInv, DiskOK, RemoteOK, BudgetOK, PageOK, JobOK, onDisk, remote
<1>4. CASE Begin("auto", plan, Scoped(plan.lines, "additions"), plan.lines, pass.side, key) /\ UNCHANGED seen
  <2>1. /\ Scoped(plan.lines, "additions") \subseteq plan.lines
        /\ \A l \in Scoped(plan.lines, "additions") : Addition(l)
    BY AllScoped
  <2>2. JobOK'
    BY <1>2, <1>4, <2>1, BeginOK
  <2> QED BY <1>1, <1>4, <2>2 DEF ArtInv, DiskOK, RemoteOK, SeenOK, BudgetOK, PageOK, onDisk, remote
<1> QED BY <1>1, <1>3, <1>4 DEF PassTurn

(***************************************************************************)
(* A job's steps.                                                           *)
(***************************************************************************)
LEMMA LoadStep ==
  ASSUME ArtInv, Load \/ LoadUnkept
  PROVE  ArtInv'
<1>1. UNCHANGED <<album, remote, copies, seen, page, pics, covers>> /\ job # None
  BY DEF Load, LoadUnkept, JobStep
<1>2. BudgetOK'
  BY SpendOK DEF ArtInv, Load, LoadUnkept, BudgetOK
<1>3. \/ job' = [job EXCEPT !.stage = "write", !.kept = Doomed]
      \/ job' = [job EXCEPT !.stage = "write", !.left = {}, !.missed = TRUE]
      \/ job' = [job EXCEPT !.stage = "write"]
  BY DEF Load, LoadUnkept
<1>4. {"by", "left", "shown", "stage", "kept", "wrote", "missed"} \subseteq DOMAIN job
  BY <1>1 DEF ArtInv, JobOK
<1>5. /\ DOMAIN job' = DOMAIN job /\ job'.wrote = job.wrote /\ job'.shown = job.shown /\ job'.by = job.by
      /\ job'.left \in {job.left, {}}
  BY <1>3, <1>4
<1>6. JobOK'
  BY <1>1, <1>4, <1>5 DEF ArtInv, JobOK
<1> QED BY <1>1, <1>2, <1>6 DEF ArtInv, DiskOK, RemoteOK, SeenOK, PageOK, remote

\* A line is written or missed, and is one less.
LEMMA LineStep ==
  ASSUME JobOK, job # None, NEW line \in job.left, Wrote(line) \/ Missed(line)
  PROVE  JobOK'
<1>1. {"by", "left", "shown", "stage", "kept", "wrote", "missed"} \subseteq DOMAIN job
  BY DEF JobOK
<1>2. \/ job' = [job EXCEPT !.left = @ \ {line}, !.wrote = @ \cup (IF line.rename THEN {} ELSE {line.after})]
      \/ job' = [job EXCEPT !.left = @ \ {line}, !.missed = TRUE]
  BY DEF Wrote, Missed
<1>3. /\ DOMAIN job' = DOMAIN job /\ job'.shown = job.shown /\ job'.by = job.by
      /\ job'.left = job.left \ {line} /\ job'.wrote \subseteq job.wrote \cup {line.after}
  BY <1>1, <1>2
<1>4. line.after \in Images
  BY DEF JobOK, LineOK, LineType
<1> QED BY <1>1, <1>3, <1>4 DEF JobOK

LEMMA WriteStep ==
  ASSUME ArtInv, job # None, NEW line \in job.left,
         WriteTrack(line) \/ WriteCover(line) \/ WriteFails(line)
  PROVE  ArtInv'
<1>1. UNCHANGED <<album, remote, copies, seen, page>>
  BY DEF WriteTrack, WriteCover, WriteFails, Writing, JobStep
<1>2. BudgetOK'
  BY SpendOK DEF ArtInv, WriteTrack, WriteCover, WriteFails, BudgetOK
<1>3. JobOK'
  <2>1. Wrote(line) \/ Missed(line)
    BY DEF WriteTrack, WriteCover, WriteFails
  <2> QED BY <2>1, LineStep DEF ArtInv
<1>4. LineOK(line) /\ line.after \in Images /\ Fit(line.after) \in Images
  BY FitOK DEF ArtInv, JobOK, LineOK, LineType
<1>5. pics' \in [Track -> Art]
  BY <1>4 DEF ArtInv, DiskOK, WriteTrack, WriteCover, WriteFails, Art
<1>6. covers' \in [Kinds -> Art]
  <2>1. CASE covers' = covers
    BY <2>1 DEF ArtInv, DiskOK
  <2>2. CASE covers' = PutCover(line, covers)
    BY <1>4, <2>2 DEF ArtInv, DiskOK, PutCover, Art
  <2> QED BY <2>1, <2>2 DEF WriteTrack, WriteCover, WriteFails
<1> QED BY <1>1, <1>2, <1>3, <1>5, <1>6 DEF ArtInv, DiskOK, RemoteOK, SeenOK, PageOK, remote

LEMMA FinishStep ==
  ASSUME ArtInv, Finish
  PROVE  ArtInv'
<1>1. /\ UNCHANGED <<album, pics, covers, remote, page, budget>> /\ job # None /\ job' = None
      /\ copies' = Recorded(job.wrote, copies)
      /\ seen' = [ReadAs(side') EXCEPT !.copies = Recorded(job.wrote, copies)]
  BY DEF Finish, FinishWith
<1>2. ASSUME NEW c \in DOMAIN Recorded(job.wrote, copies) PROVE ~TooLarge(c)
  <2>1. CASE c \in DOMAIN copies
    BY <2>1 DEF ArtInv, DiskOK
  <2>2. CASE c \notin DOMAIN copies
    <3>1. PICK i \in job.wrote : Fit(i) # i /\ c = Fit(i)
      BY <1>2, <2>2 DEF Recorded
    <3>2. i \in Images
      BY <1>1 DEF ArtInv, JobOK
    <3> QED BY <3>1, <3>2, FitOK
  <2> QED BY <2>1, <2>2
<1>3. DiskOK'
  BY <1>1, <1>2 DEF ArtInv, DiskOK
<1>4. SeenOK'
  BY <1>1 DEF ArtInv, SeenOK, DiskOK, ReadAs
<1> QED BY <1>1, <1>3, <1>4 DEF ArtInv, RemoteOK, BudgetOK, PageOK, JobOK, remote

LEMMA CrashStep ==
  ASSUME ArtInv, Crash
  PROVE  ArtInv'
<1>1. UNCHANGED <<album, onDisk, remote, copies, page>> /\ seen' = Reading /\ job' = None
  BY DEF Crash
<1>2. BudgetOK'
  BY SpendOK DEF ArtInv, Crash
<1>3. SeenOK'
  BY <1>1 DEF ArtInv, SeenOK, DiskOK, Reading, ReadAs
<1> QED BY <1>1, <1>2, <1>3 DEF ArtInv, DiskOK, RemoteOK, PageOK, JobOK, onDisk, remote

(***************************************************************************)
(* Everybody else.                                                          *)
(***************************************************************************)
LEMMA OutsideStep ==
  ASSUME ArtInv, NEW edit \in album.edits, Outside(edit)
  PROVE  ArtInv'
<1>1. UNCHANGED <<album, remote, copies, seen, page, job>>
  BY DEF Outside
<1>2. BudgetOK'
  BY SpendOK DEF ArtInv, Outside
<1>3. /\ edit.what = "pic" => edit.at \in Track /\ edit.to \in Art
      /\ edit.what = "cover" => edit.at \in Kinds /\ edit.to \in Art
  BY AlbumsAssumption DEF ArtInv
<1>4. pics' \in [Track -> Art] /\ covers' \in [Kinds -> Art]
  BY <1>3 DEF ArtInv, DiskOK, Outside
<1> QED BY <1>1, <1>2, <1>4 DEF ArtInv, DiskOK, RemoteOK, SeenOK, PageOK, JobOK, remote

LEMMA ArchiveStep ==
  ASSUME ArtInv, ArchiveChanges \/ Evict
  PROVE  ArtInv'
<1>1. UNCHANGED <<album, onDisk, stored, copies, seen, page, job>>
  BY DEF ArchiveChanges, Evict
<1>2. BudgetOK'
  BY SpendOK DEF ArtInv, ArchiveChanges, Evict
<1>3. AnswerOK(archive')
  <2>1. \A a \in album.answers : AnswerOK(a)
    BY AlbumsAssumption DEF ArtInv, AnswerOK
  <2> QED BY <2>1 DEF ArtInv, RemoteOK, ArchiveChanges, Evict
<1>4. cache' \in [front : Art, picks : SUBSET Images]
  BY DEF ArtInv, RemoteOK, ArchiveChanges, Evict, Art
<1> QED BY <1>1, <1>2, <1>3, <1>4 DEF ArtInv, DiskOK, RemoteOK, SeenOK, PageOK, JobOK, onDisk

-----------------------------------------------------------------------------

LEMMA ArtInit == Init => ArtInv
<1> SUFFICES ASSUME Init PROVE ArtInv
  OBVIOUS
<1>1. /\ album \in Albums /\ pics = album.pics /\ covers = album.covers
      /\ archive = album.archive /\ stored = album.stored /\ cache = album.cache
      /\ copies = album.copies /\ seen = [ReadAs(side) EXCEPT !.copies = album.copies]
      /\ page = None /\ job = None /\ budget = album.bounds
  BY DEF Init
<1>2. DiskOK
  BY <1>1, AlbumsAssumption DEF DiskOK
<1>3. RemoteOK
  BY <1>1, AlbumsAssumption DEF RemoteOK, AnswerOK
<1>4. SeenOK
  BY <1>1, <1>2 DEF SeenOK, DiskOK, ReadAs
<1>5. BudgetOK
  BY <1>1, AlbumsAssumption DEF BudgetOK
<1> QED BY <1>1, <1>2, <1>3, <1>4, <1>5 DEF ArtInv, PageOK, JobOK

LEMMA ArtStep == ArtInv /\ [Next]_vars => ArtInv'
<1> SUFFICES ASSUME ArtInv, [Next]_vars PROVE ArtInv'
  OBVIOUS
<1>1. CASE Presses
  <2>1. CASE OpenPage
    BY <2>1, OpenPageStep
  <2>2. CASE OpenCard
    BY <2>2, OpenCardStep
  <2>3. CASE Watch
    BY <2>3, OwnerStep
  <2>4. CASE ApplyUpdates
    BY <2>4, UpdatesStep
  <2>5. CASE ApplyChosen
    BY <2>5, ChosenStep
  <2>6. CASE RetagOnly
    BY <2>6, RetagOnlyStep
  <2>7. CASE \E carrier, choice : Choose(carrier, choice)
    BY <2>7, ChooseStep
  <2>8. CASE \E image : Suggestion(image)
    BY <2>8, OwnerStep
  <2>9. CASE \E scope : Retag(scope)
    BY <2>9, RetagStep
  <2> QED BY <1>1, <2>1, <2>2, <2>3, <2>4, <2>5, <2>6, <2>7, <2>8, <2>9 DEF Presses
<1>2. CASE Sweep \/ CheckCoverArt
  BY <1>2, AskStep
<1>3. CASE Scan \/ PassStart
  BY <1>3, ScanStep
<1>4. CASE PassTurns
  BY <1>4, PassStep
<1>5. CASE JobSteps \/ Faults
  <2>1. CASE Load \/ LoadUnkept
    BY <2>1, LoadStep
  <2>2. CASE /\ job # None /\ job.left # {}
             /\ WriteTrack(NextLine) \/ WriteCover(NextLine) \/ WriteFails(NextLine)
    <3>1. NextLine \in job.left
      BY <2>2, NextLineIn DEF ArtInv
    <3> QED BY <2>2, <3>1, WriteStep
  <2>3. CASE Finish
    BY <2>3, FinishStep
  <2>4. CASE Crash
    BY <2>4, CrashStep
  <2> QED BY <1>5, <2>1, <2>2, <2>3, <2>4 DEF JobSteps, Faults
<1>6. CASE World
  <2>1. CASE \E edit \in album.edits : Outside(edit)
    BY <2>1, OutsideStep
  <2>2. CASE ArchiveChanges \/ Evict
    BY <2>2, ArchiveStep
  <2> QED BY <1>6, <2>1, <2>2 DEF World
<1>7. CASE UNCHANGED vars
  BY <1>7 DEF vars, onDisk, remote, ArtInv, DiskOK, RemoteOK, SeenOK, BudgetOK, PageOK, JobOK
<1> QED BY <1>1, <1>2, <1>3, <1>4, <1>5, <1>6, <1>7 DEF Next

\* Every plan there is to press is made of lines as they should be, and what is
\* left of a job is of the lines that were shown when it began.
THEOREM ArtHolds == Spec => []ArtInv
<1> QED BY ArtInit, ArtStep, PTL DEF Spec

(***************************************************************************)
(* What is written.                                                         *)
(***************************************************************************)

\* Images change under a job by its own step, or by another program's.
LEMMA WhoWrites ==
  ASSUME ArtInv, [Next]_vars, job # None, ~ByAnother
  PROVE  \/ UNCHANGED <<pics, covers>>
         \/ NextLine \in job.left /\ (WriteTrack(NextLine) \/ WriteCover(NextLine))
<1>1. CASE Presses
  BY <1>1 DEF Presses, OpenPage, OpenCard, Watch, ApplyUpdates, ApplyChosen, RetagOnly, Choose,
              Suggestion, Retag, TagFiles, onDisk
<1>2. CASE Sweep \/ CheckCoverArt \/ Scan \/ PassStart \/ PassTurns
  BY <1>2 DEF Sweep, CheckCoverArt, Scan, PassStart, PassTurns, onDisk
<1>3. CASE Load \/ Finish \/ Faults
  BY <1>3 DEF Load, Finish, Faults, LoadUnkept, WriteFails, Crash, onDisk
<1>4. CASE job.left # {} /\ (WriteTrack(NextLine) \/ WriteCover(NextLine))
  BY <1>4, NextLineIn DEF ArtInv
<1>5. CASE ArchiveChanges \/ Evict
  BY <1>5 DEF ArchiveChanges, Evict, onDisk
<1>6. ASSUME NEW edit \in album.edits, Outside(edit) PROVE FALSE
  <2>1. budget' = [budget EXCEPT !["outside"] = @ - 1] /\ budget \in [outside : Nat, presses : Nat, faults : Nat]
    BY <1>6 DEF ArtInv, BudgetOK, Outside, Spend
  <2>2. budget'.outside # budget.outside
    BY <2>1
  <2> QED BY <2>2 DEF ByAnother
<1>7. CASE UNCHANGED vars
  BY <1>7 DEF vars, onDisk
<1> QED BY <1>1, <1>2, <1>3, <1>4, <1>5, <1>6, <1>7 DEF Next, JobSteps, World

\* What a step of a job does to the images.
LEMMA TrackWritten ==
  ASSUME NEW line, WriteTrack(line), pics \in [Track -> Art], NEW t \in Track, pics'[t] # pics[t]
  PROVE  line.at = t /\ line.before = pics[t] /\ Fit(line.after) = pics'[t]
  BY DEF WriteTrack

LEMMA CoverWritten ==
  ASSUME NEW line, WriteCover(line), covers \in [Kinds -> Art], covers' # covers
  PROVE  /\ line.at = Cover /\ covers' = PutCover(line, covers) /\ CoverFree(line)
         /\ IF line.before = None THEN \A k \in Kinds : covers[k] = None
            ELSE covers[line.name] = line.before
  BY DEF WriteCover, CoverFree

\* Every image a page's, a card's, a re-tag's or a pass's job writes is one it
\* was shown with, over the image it was shown over, or where it was shown
\* that there was none.
THEOREM WritesWhatWasShown == Spec => AsPreviewed
<1>1. ASSUME ArtInv, [Next]_vars, job # None, ~ByAnother
      PROVE  /\ \A t \in Track : pics'[t] # pics[t] =>
                  \E l \in job.shown : l.at = t /\ l.before = pics[t] /\ Fit(l.after) = pics'[t]
             /\ covers' # covers =>
                  \E l \in job.shown :
                    /\ l.at = Cover /\ covers' = PutCover(l, covers)
                    /\ IF l.before = None THEN \A k \in Kinds : covers[k] = None
                       ELSE covers[l.name] = l.before
  <2>1. CASE UNCHANGED <<pics, covers>>
    BY <2>1
  <2>2. CASE NextLine \in job.left /\ (WriteTrack(NextLine) \/ WriteCover(NextLine))
    <3>1. PICK l \in job.left : l = NextLine
      BY <2>2
    <3>2. PICK s \in job.shown : Face(l) = Face(s)
      BY <1>1 DEF ArtInv, JobOK
    <3>3. LineOK(l) /\ LineOK(s)
      BY <1>1 DEF ArtInv, JobOK
    <3>4. /\ s.at = l.at /\ s.before = l.before /\ s.after = l.after /\ s.name = l.name
          /\ l.at = Cover => \A kinds : PutCover(l, kinds) = PutCover(s, kinds)
      BY <3>2, <3>3, SameFace
    <3>5. pics \in [Track -> Art] /\ covers \in [Kinds -> Art]
      BY <1>1 DEF ArtInv, DiskOK
    <3>6. CASE WriteTrack(l)
      <4>1. covers' = covers
        BY <3>6 DEF WriteTrack
      <4> QED BY <3>4, <3>5, <3>6, <4>1, TrackWritten
    <3>7. CASE WriteCover(l)
      <4>1. pics' = pics
        BY <3>7 DEF WriteCover
      <4> QED BY <3>4, <3>5, <3>7, <4>1, CoverWritten
    <3> QED BY <2>2, <3>1, <3>6, <3>7
  <2> QED BY <1>1, <2>1, <2>2, WhoWrites
<1>2. ArtInv /\ [Next]_vars =>
        [(job # None /\ ~ByAnother) =>
           /\ \A t \in Track : pics'[t] # pics[t] =>
                \E l \in job.shown : l.at = t /\ l.before = pics[t] /\ Fit(l.after) = pics'[t]
           /\ covers' # covers =>
                \E l \in job.shown :
                  /\ l.at = Cover /\ covers' = PutCover(l, covers)
                  /\ IF l.before = None THEN \A k \in Kinds : covers[k] = None
                     ELSE covers[l.name] = l.before]_vars
  BY <1>1
<1> QED BY <1>2, ArtHolds, PTL DEF Spec, AsPreviewed

\* The unattended pass never costs an image: what is on a track or in the
\* folder when it writes is still there after it.
THEOREM PassesOnlyAdd == Spec => UnattendedOnlyAdds
<1>1. ASSUME ArtInv, [Next]_vars, ByPass, ~ByAnother
      PROVE  /\ \A t \in Track : pics[t] \in {None, pics'[t]}
             /\ \A k \in Kinds : covers[k] # None => \E j \in Kinds : covers'[j] = covers[k]
  <2>1. CASE UNCHANGED <<pics, covers>>
    BY <2>1
  <2>2. CASE NextLine \in job.left /\ (WriteTrack(NextLine) \/ WriteCover(NextLine))
    <3>1. PICK l \in job.left : l = NextLine
      BY <2>2
    <3>2. /\ LineOK(l) /\ Addition(l) /\ job # None
          /\ pics \in [Track -> Art] /\ covers \in [Kinds -> Art]
      BY <1>1 DEF ArtInv, JobOK, DiskOK, ByPass
    <3>3. CASE WriteTrack(l)
      <4>1. covers' = covers /\ l.at # Cover
        BY <3>3 DEF WriteTrack
      <4>2. l.before = None
        BY <3>2, <4>1 DEF Addition, LineOK
      <4> QED BY <3>2, <3>3, <4>1, <4>2, TrackWritten
    <3>4. CASE WriteCover(l)
      <4>1. pics' = pics
        BY <3>4 DEF WriteCover
      <4>2. ASSUME covers' # covers, NEW k \in Kinds, covers[k] # None
            PROVE  \E j \in Kinds : covers'[j] = covers[k]
        <5>1. /\ l.at = Cover /\ covers' = PutCover(l, covers) /\ CoverFree(l)
              /\ IF l.before = None THEN \A kk \in Kinds : covers[kk] = None
                 ELSE covers[l.name] = l.before
          BY <3>2, <3>4, <4>2, CoverWritten
        <5>2. l.rename /\ l.before = l.after /\ l.name \in Kinds /\ l.to \in Kinds
          BY <3>2, <4>2, <5>1 DEF Addition, LineOK
        <5>3. covers[l.name] = l.after /\ (l.to = l.name \/ covers[l.to] = None)
          BY <3>2, <4>2, <5>1, <5>2 DEF CoverFree
        <5>4. covers'[l.to] = l.after
          BY <3>2, <5>1, <5>2 DEF PutCover
        <5>5. k # l.to /\ k # l.name => covers'[k] = covers[k]
          BY <3>2, <5>1 DEF PutCover
        <5> QED BY <4>2, <5>2, <5>3, <5>4, <5>5
      <4> QED BY <4>1, <4>2
    <3> QED BY <2>2, <3>1, <3>3, <3>4
  <2>3. job # None
    BY <1>1 DEF ByPass
  <2> QED BY <1>1, <2>1, <2>2, <2>3, WhoWrites
<1>2. ArtInv /\ [Next]_vars =>
        [(ByPass /\ ~ByAnother) =>
           /\ \A t \in Track : pics[t] \in {None, pics'[t]}
           /\ \A k \in Kinds : covers[k] # None => \E j \in Kinds : covers'[j] = covers[k]]_vars
  BY <1>1
<1> QED BY <1>2, ArtHolds, PTL DEF Spec, UnattendedOnlyAdds

(***************************************************************************)
(* What is never suggested.                                                 *)
(***************************************************************************)

\* None of the archive's among the lines is one of `some`.
NoneOf(some, lines) == \A l \in lines : l.source = "archive" => l.after \notin some

LEMMA TrackLinesFrom ==
  ASSUME NEW v, NEW image, NEW source, NEW some, source = "archive" => image \notin some
  PROVE  NoneOf(some, TrackLines(v, image, source))
  BY DEF NoneOf, TrackLines, Line

LEMMA CoverLinesFrom ==
  ASSUME NEW v, NEW image, NEW source, NEW some, source = "archive" => image \notin some
  PROVE  /\ NoneOf(some, NewCover(image, source)) /\ NoneOf(some, OverCover(v, image, source))
         /\ NoneOf(some, CoverLines(v, image, source))
<1>1. NoneOf(some, NewCover(image, source))
  BY DEF NoneOf, NewCover, CoverLine
<1>2. NoneOf(some, OverCover(v, image, source))
  BY DEF NoneOf, OverCover, CoverLine
<1> QED BY <1>1, <1>2 DEF CoverLines, NoneOf

\* What is suggested of the archive is the front it offers.
LEMMA SuggestedFrom ==
  ASSUME NEW v, NEW some, Offered(v) # None => Offered(v) \notin some
  PROVE  NoneOf(some, Suggest(v))
<1> DEFINE own == Own(v)
           front == Offered(v)
           image == TrackImage(v, own, front)
           best == Best(Best(CoverImage(v), own), front)
<1>1. image \in {front, own, CoverImage(v)}
  BY DEF TrackImage, CoverImage
<1>2. best \in {own, CoverImage(v)} \/ (best = front /\ front # None)
  BY DEF Best
<1>3. front # None => front \notin some
  OBVIOUS
<1>4. Suggest(v) = IF HasPerTrackArt(v.pics) THEN SuggestCover(v, front) ELSE SuggestFor(v, own, image, best)
  BY DEF Suggest, SuggestWith
<1> HIDE DEF own, front, image, best
<1>5. image # None /\ Source(v, own, image) = "archive" => image \notin some
  BY <1>1, <1>3 DEF Source
<1>6. best \in some => CoverSource(v, own, best) # "archive" /\ (best = image => Source(v, own, best) # "archive")
  BY <1>2, <1>3 DEF Source, CoverSource
<1>7. NoneOf(some, SuggestFor(v, own, image, best))
  <2>1. CASE image = None
    BY <2>1 DEF SuggestFor, NoneOf
  <2>2. CASE image # None
    <3> DEFINE from == IF best = image THEN Source(v, own, image) ELSE CoverSource(v, own, best)
    <3>1. NoneOf(some, TrackLines(v, image, Source(v, own, image)))
      BY <1>5, <2>2, TrackLinesFrom
    <3>2. from = "archive" => best \notin some
      BY <1>6
    <3>3. SuggestFor(v, own, image, best) = TrackLines(v, image, Source(v, own, image)) \cup CoverLines(v, best, from)
      BY <2>2 DEF SuggestFor
    <3> HIDE DEF from
    <3>4. NoneOf(some, CoverLines(v, best, from))
      BY <3>2, CoverLinesFrom
    <3> QED BY <3>1, <3>3, <3>4 DEF NoneOf
  <2> QED BY <2>1, <2>2
<1>8. NoneOf(some, SuggestCover(v, front))
  <2>1. front # None => NoneOf(some, CoverLines(v, front, "archive"))
    BY <1>3, CoverLinesFrom
  <2>2. NoneOf(some, OverCover(v, v.cover.image, "folder"))
    BY CoverLinesFrom
  <2> QED BY <2>1, <2>2 DEF SuggestCover, NoneOf
<1> QED BY <1>4, <1>7, <1>8

LEMMA WithTakenFrom ==
  ASSUME NEW v, NEW some, NEW lines, NoneOf(some, lines), NEW choices, NEW taken,
         \A c \in DOMAIN taken : taken[c] \notin some,
         \A l \in lines : LineOK(l)
  PROVE  NoneOf(some, WithTaken(v, lines, choices, taken))
<1>1. NoneOf(some, Unchosen(lines, choices, taken))
  <2> SUFFICES ASSUME NEW k \in Unchosen(lines, choices, taken), k.source = "archive"
               PROVE  k.after \notin some
    BY DEF NoneOf
  <2>1. PICK l \in lines :
          k = [l EXCEPT !.source = IF \E c \in DOMAIN taken : taken[c] = l.after THEN "archive" ELSE @]
    BY DEF Unchosen
  <2>2. k.after = l.after /\ ((\E c \in DOMAIN taken : taken[c] = l.after) \/ k.source = l.source)
    BY <2>1 DEF LineOK, LineType
  <2> QED BY <2>2 DEF NoneOf
<1>2. NoneOf(some, ChosenTracks(v, taken))
  BY DEF NoneOf, ChosenTracks, Line
<1>3. NoneOf(some, ChosenCover(v, taken))
  <2>1. CASE Cover \notin DOMAIN taken
    BY <2>1 DEF ChosenCover, NoneOf
  <2>2. CASE Cover \in DOMAIN taken
    BY <2>2, CoverLinesFrom DEF ChosenCover
  <2> QED BY <2>1, <2>2
<1> QED BY <1>1, <1>2, <1>3 DEF WithTaken, NoneOf

LEMMA RenamingFrom ==
  ASSUME NEW v, NEW some, NEW lines, NoneOf(some, lines), NEW choices
  PROVE  NoneOf(some, Renaming(v, lines, choices))
<1> SUFFICES ASSUME NEW l \in Renaming(v, lines, choices), l \notin lines PROVE l.source # "archive"
  BY DEF NoneOf
<1>1. l = [CoverLine(v.cover.image, v.cover.image, "folder", v.cover.name, Image[v.cover.image].kind)
            EXCEPT !.rename = TRUE]
  BY DEF Renaming
<1> QED BY <1>1 DEF CoverLine

\* While what is in hand as the archive's front is the one it lists, what is
\* rejected is neither offered nor proposed.
LEMMA NotOffered ==
  ASSUME cache.front \in {None, FrontOf(stored)}, cache.front # None, ~Excluded(side, cache)
  PROVE  cache.front \notin side.rejected
<1> SUFFICES ASSUME cache.front \in side.rejected PROVE FALSE
  OBVIOUS
<1>1. cache.front = FrontOf(stored)
  OBVIOUS
<1>2. FrontOf(stored) \in FrontsIn(stored)
  BY <1>1 DEF FrontOf, FrontsIn
<1>3. FrontOf(stored) \in DOMAIN Originals(cache) /\ Originals(cache)[FrontOf(stored)] = cache.front
  BY <1>1 DEF Originals
<1> QED BY <1>1, <1>2, <1>3 DEF Excluded

LEMMA NotProposed ==
  ASSUME RemoteOK, cache.front \in {None, FrontOf(stored)}, NEW c \in DOMAIN Proposal(Reading)
  PROVE  /\ Proposal(Reading)[c] \in DOMAIN Originals(cache) /\ Proposal(Reading)[c] # TheArchive
         /\ Originals(cache)[Proposal(Reading)[c]] \notin side.rejected
<1> DEFINE offered == Unmet(Reading)
           chosen == IF stored.own \in offered THEN stored.own ELSE stored.group
<1>1. Reading.side = side
  BY DEF Reading, ReadAs
<1>2. offered # {} /\ Proposal(Reading) = ForEverything(Reading, chosen)
  BY DEF Proposal, ProposalOf
<1>3. offered \subseteq {stored.own, stored.group} /\ offered \subseteq Images
  BY FrontOK DEF Unmet, FrontsIn, RemoteOK
<1>4. offered \subseteq DOMAIN Originals(cache) \ side.rejected
  BY <1>1 DEF Unmet
<1>5. chosen \in offered
  BY <1>2, <1>3
<1> HIDE DEF offered, chosen
<1>6. Proposal(Reading)[c] = chosen
  BY <1>2 DEF ForEverything
<1>7. Originals(cache)[chosen] = chosen
  BY <1>4, <1>5 DEF Originals
<1>8. TheArchive \notin Images
  BY ImageAssumption
<1> QED BY <1>3, <1>4, <1>5, <1>6, <1>7, <1>8

LEMMA RejectedIsOut ==
  ASSUME ArtInv, cache.front \in {None, FrontOf(stored)}
  PROVE  NoneOf(side.rejected, Suggested(Reading))
<1> DEFINE v == Inputs(Reading, Over(<<>>, Proposal(Reading)), StandIns(Reading), cache)
           way == GivenWay(v, v.standIns \ {v.archive, None})
           chosen == Honoured(v, Over(v.choices, way))
           taken == Taken(v, chosen)
<1>1. /\ v.archive = cache.front /\ v.excluded = Excluded(side, cache) /\ v.picks = Originals(cache)
      /\ v.choices = Over(<<>>, Proposal(Reading))
  BY DEF Inputs, Reading, ReadAs
<1>2. Suggested(Reading) = Renaming(v, WithTaken(v, Suggest(v), chosen, taken), chosen)
  BY DEF Suggested, Artwork, Plan, PlanHonouring
<1>3. InputsOK(v)
  BY ReadAsOK, CacheOK, InputsAreOK DEF ArtInv, Reading
<1> HIDE DEF v
<1>4. Offered(v) # None => Offered(v) \notin side.rejected
  BY <1>1, NotOffered DEF Offered
<1>5. NoneOf(side.rejected, Suggest(v)) /\ \A l \in Suggest(v) : LineOK(l)
  BY <1>3, <1>4, SuggestedFrom, SuggestOK DEF Proper
<1>6. \A c \in DOMAIN v.choices : c \in DOMAIN Proposal(Reading) /\ v.choices[c] = Proposal(Reading)[c]
  BY <1>1 DEF Over
<1>7. \A c \in DOMAIN way : way[c] = TheArchive /\ v.archive # None /\ ~v.excluded
  BY DEF GivenWay
<1> HIDE DEF way
<1>8. \A c \in DOMAIN chosen :
        \/ c \in DOMAIN v.choices /\ chosen[c] = v.choices[c]
        \/ c \in DOMAIN way /\ chosen[c] = way[c]
  BY DEF Honoured, Over
<1>9. \A c \in DOMAIN taken : c \in DOMAIN chosen /\ taken[c] = Named(v, chosen[c])
  BY DEF Taken
<1> HIDE DEF chosen, taken
<1>10. ASSUME NEW c \in DOMAIN taken PROVE taken[c] \notin side.rejected
  <2>1. CASE c \in DOMAIN v.choices /\ chosen[c] = v.choices[c]
    BY <1>1, <1>6, <1>9, <2>1, NotProposed DEF Named, ArtInv
  <2>2. CASE c \in DOMAIN way /\ chosen[c] = way[c]
    <3>1. Named(v, chosen[c]) = cache.front /\ cache.front # None /\ ~Excluded(side, cache)
      BY <1>1, <1>7, <2>2 DEF Named
    <3> QED BY <1>9, <3>1, NotOffered
  <2> QED BY <1>8, <1>9, <2>1, <2>2
<1>11. NoneOf(side.rejected, WithTaken(v, Suggest(v), chosen, taken))
  BY <1>5, <1>10, WithTakenFrom
<1> QED BY <1>2, <1>11, RenamingFrom

\* The page, the Inbox and the unattended pass never suggest a front their
\* owner rejected, however it came to be in hand, while what is kept as the
\* archive's front is the one it is known to list.
THEOREM RejectedIsNotSuggested == Spec => []RejectedStaysOut
<1>1. ArtInv => RejectedStaysOut
  BY RejectedIsOut DEF RejectedStaysOut, NoneOf
<1> QED BY <1>1, ArtHolds, PTL

(***************************************************************************)
(* What is worth fetching.                                                  *)
(***************************************************************************)

\* Inputs that tell apart only what is in hand of the archive.
Agree(v, w) ==
  /\ w.pics = v.pics /\ w.cover = v.cover /\ w.copies = v.copies /\ w.policy = v.policy
  /\ w.picks = v.picks

LEMMA AgreeLines ==
  ASSUME NEW v, NEW w, Agree(v, w)
  PROVE  /\ \A image, source : /\ TrackLines(w, image, source) = TrackLines(v, image, source)
                               /\ OverCover(w, image, source) = OverCover(v, image, source)
                               /\ CoverLines(w, image, source) = CoverLines(v, image, source)
         /\ CoverImage(w) = CoverImage(v) /\ Own(w) = Own(v)
  BY DEF Agree, TrackLines, OverCover, CoverLines, CoverImage, Own

LEMMA AgreeSuggestFor ==
  ASSUME NEW v, NEW w, Agree(v, w), NEW own, NEW image, NEW best
  PROVE  SuggestFor(w, own, image, best) = SuggestFor(v, own, image, best)
<1>1. Source(w, own, image) = Source(v, own, image) /\ CoverSource(w, own, best) = CoverSource(v, own, best)
  BY AgreeLines DEF Source, CoverSource
<1> QED BY <1>1, AgreeLines DEF SuggestFor

LEMMA AgreeSuggestNone ==
  ASSUME NEW v, NEW w, Agree(v, w), NEW own
  PROVE  SuggestWith(w, own, None) = SuggestWith(v, own, None)
<1>1. SuggestCover(w, None) = SuggestCover(v, None)
  <2>1. OverCover(w, v.cover.image, "folder") = OverCover(v, v.cover.image, "folder")
    BY AgreeLines
  <2> QED BY <2>1 DEF SuggestCover, Agree
<1>2. TrackImage(w, own, None) = TrackImage(v, own, None)
  BY DEF TrackImage, Embiggens, Agree
<1>3. CoverImage(w) = CoverImage(v)
  BY AgreeLines
<1>4. SuggestFor(w, own, TrackImage(v, own, None), Best(Best(CoverImage(v), own), None))
        = SuggestFor(v, own, TrackImage(v, own, None), Best(Best(CoverImage(v), own), None))
  BY AgreeSuggestFor
<1> QED BY <1>1, <1>2, <1>3, <1>4 DEF SuggestWith, Agree

LEMMA AgreeTaken ==
  ASSUME NEW v, NEW w, Agree(v, w), NEW choices,
         \A c \in DOMAIN choices : choices[c] # TheArchive
  PROVE  Honoured(w, choices) = Honoured(v, choices) /\ Taken(w, choices) = Taken(v, choices)
<1>1. \A c \in DOMAIN choices : Named(w, choices[c]) = Named(v, choices[c])
  BY DEF Named, Agree
<1>2. Carriers(w) = Carriers(v)
  BY DEF Carriers, Agree
<1> QED BY <1>1, <1>2 DEF Honoured, Taken

LEMMA AgreeWritten ==
  ASSUME NEW v, NEW w, Agree(v, w), NEW lines, NEW choices, NEW taken
  PROVE  /\ WithTaken(w, lines, choices, taken) = WithTaken(v, lines, choices, taken)
         /\ Renaming(w, lines, choices) = Renaming(v, lines, choices)
<1>1. ChosenTracks(w, taken) = ChosenTracks(v, taken)
  BY DEF ChosenTracks, Agree
<1>2. ChosenCover(w, taken) = ChosenCover(v, taken)
  BY AgreeLines DEF ChosenCover, Agree
<1> QED BY <1>1, <1>2 DEF WithTaken, Renaming, Agree

\* A front that is not worth fetching is nothing to what is suggested.
LEMMA UnworthySuggestion ==
  ASSUME NEW v, InputsOK(v), NEW own, own = Own(v), NEW front \in Images, NEW standIns,
         ~WorthFetching(front, Threshold(v.pics, v.cover, standIns, v.policy,
                                         IF own = None THEN None ELSE Image[own].size,
                                         v.lossless \/ v.room > 0))
  PROVE  /\ SuggestWith(v, own, front) = SuggestWith(v, own, None)
         /\ Carried(v.pics, v.cover) \cap standIns = {}
<1> DEFINE size == IF own = None THEN None ELSE Image[own].size
           grows == v.lossless \/ v.room > 0
           wanted == Threshold(v.pics, v.cover, standIns, v.policy, size, grows)
           best == Best(CoverImage(v), own)
<1>1. wanted # None => ~(wanted < 0) /\ ~(Image[front].size # None /\ Image[front].size.width > wanted)
  BY DEF WorthFetching
<1>2. None \notin Images /\ None \notin Int
  BY ImageAssumption
<1>3. own \in Art
  BY OwnType DEF InputsOK
<1>4. wanted # -1
  BY <1>1, <1>2
<1> HIDE DEF wanted
<1>5. Carried(v.pics, v.cover) \cap standIns = {}
  BY <1>4 DEF wanted, Threshold
<1>6. ASSUME v.cover = None PROVE SuggestWith(v, own, front) = SuggestWith(v, own, None)
  <2>1. v.policy = "never" /\ Carried(v.pics, v.cover) # {}
    BY <1>4, <1>5, <1>6 DEF wanted, Threshold
  <2>2. CASE HasPerTrackArt(v.pics)
    BY <1>6, <2>1, <2>2 DEF SuggestWith, SuggestCover, CoverLines
  <2>3. CASE ~HasPerTrackArt(v.pics)
    <3>1. own # None
      <4>1. Carrying(v.pics) # {}
        BY <1>6, <2>1 DEF Carried, Carrying
      <4>2. Carrying(v.pics) \in SUBSET Track
        BY DEF Carrying
      <4>3. FirstTrack(Carrying(v.pics)) \in Carrying(v.pics)
        BY <4>1, <4>2, FirstTrackIn
      <4> QED BY <4>1, <4>3 DEF Own, Carrying
    <3>2. ~(Beats(front, own) /\ grows)
      <4>1. CASE size = None \/ ~grows
        BY <3>1, <4>1 DEF Beats
      <4>2. CASE size # None /\ grows
        <5>1. wanted = Image[own].size.width /\ Image[own].size # None
          BY <1>5, <1>6, <2>1, <2>3, <3>1, <4>2 DEF wanted, Threshold
        <5>2. Image[own].size.width \in Nat
          BY <1>2, <1>3, <3>1, <5>1, ImageAssumption DEF Art
        <5> QED BY <1>1, <1>2, <5>1, <5>2 DEF Beats
      <4> QED BY <4>1, <4>2
    <3>3. Cheap(v, front) => v.room > 0
      BY DEF Cheap
    <3>4. TrackImage(v, own, front) = own /\ TrackImage(v, own, None) = own
      BY <3>1, <3>2, <3>3 DEF TrackImage, Embiggens
    <3>5. \A image, source : CoverLines(v, image, source) = {}
      BY <1>6, <2>1 DEF CoverLines
    <3> QED BY <2>3, <3>4, <3>5 DEF SuggestWith, SuggestFor
  <2> QED BY <2>2, <2>3
<1>7. ASSUME v.cover # None PROVE SuggestWith(v, own, front) = SuggestWith(v, own, None)
  <2>1. CASE HasPerTrackArt(v.pics)
    BY <1>7, <2>1 DEF SuggestWith, SuggestCover
  <2>2. CASE ~HasPerTrackArt(v.pics)
    <3>1. TrackImage(v, own, front) = TrackImage(v, own, None)
      BY <1>7 DEF TrackImage, Embiggens
    <3>2. ~Beats(front, best) /\ best # None
      <4>1. /\ CoverImage(v) = v.cover.image /\ v.cover.image \in Images
            /\ best = CoverImage(v) \/ (best = own /\ own # None /\ Beats(own, v.cover.image))
        BY <1>2, <1>7 DEF Best, CoverImage, InputsOK
      <4>2. CASE Image[v.cover.image].size = None
        BY <1>2, <4>1, <4>2 DEF Beats
      <4>3. CASE Image[v.cover.image].size # None
        <5>1. wanted = Image[v.cover.image].size.width
          BY <1>5, <1>7, <2>2, <4>3 DEF wanted, Threshold
        <5>2. \A i \in Images : Image[i].size # None => Image[i].size.width \in Nat
          BY ImageAssumption
        <5>3. wanted \in Nat /\ wanted # None
          BY <1>2, <4>1, <4>3, <5>1, <5>2
        <5>4. best \in Images
          BY <1>3, <4>1 DEF Art
        <5>5. ASSUME Beats(front, best) PROVE FALSE
          <6>1. /\ Image[front].size # None /\ Image[best].size # None
                /\ Image[front].size.width > Image[best].size.width
            BY <5>5 DEF Beats
          <6>2. Image[best].size.width >= wanted
            BY <4>1, <5>1, <5>2, <5>3, <5>4, <6>1 DEF Beats
          <6> QED BY <1>1, <5>2, <5>3, <5>4, <6>1, <6>2
        <5> QED BY <1>2, <5>4, <5>5
      <4> QED BY <4>2, <4>3
    <3>3. Best(best, front) = best /\ Best(best, None) = best
      BY <3>2 DEF Best
    <3> QED BY <2>2, <3>1, <3>3 DEF SuggestWith
  <2> QED BY <2>1, <2>2
<1> QED BY <1>5, <1>6, <1>7

LEMMA ProposedFronts ==
  ASSUME RemoteOK, NEW c \in DOMAIN Proposal(Reading)
  PROVE  Proposal(Reading)[c] # TheArchive
<1> DEFINE offered == Unmet(Reading)
           chosen == IF stored.own \in offered THEN stored.own ELSE stored.group
<1>1. offered # {} /\ Proposal(Reading) = ForEverything(Reading, chosen)
  BY DEF Proposal, ProposalOf
<1>2. offered \subseteq {stored.own, stored.group} /\ offered \subseteq Images
  BY FrontOK DEF Unmet, FrontsIn, RemoteOK
<1>3. chosen \in Images
  BY <1>1, <1>2
<1> HIDE DEF offered, chosen
<1>4. Proposal(Reading)[c] = chosen
  BY <1>1 DEF ForEverything
<1> QED BY <1>3, <1>4, ImageAssumption

LEMMA NotWorthIt ==
  ASSUME ArtInv, FrontOf(stored) # None, cache.front = None,
         ~WorthFetching(FrontOf(stored), WidthWanted(Reading, GivesWay(Reading, stored)))
  PROVE  Suggested(Reading) = Plan([Inputs(Reading, Proposal(Reading), StandIns(Reading), cache)
                                      EXCEPT !.archive = FrontOf(stored)]).lines
<1> DEFINE front == FrontOf(stored)
           v == Inputs(Reading, Over(<<>>, Proposal(Reading)), StandIns(Reading), cache)
           w == [Inputs(Reading, Proposal(Reading), StandIns(Reading), cache) EXCEPT !.archive = front]
           ChoicesOf(u) == Over(u.choices, GivenWay(u, u.standIns \ {u.archive, None}))
<1>1. front \in Images
  BY FrontOK DEF ArtInv, RemoteOK, Art
<1>2. /\ Agree(v, w) /\ v.archive = None /\ w.archive = front
      /\ w.pics = pics /\ w.cover = FolderCover(covers) /\ w.policy = album.policy
      /\ w.lossless = album.lossless /\ w.room = album.room /\ w.standIns = StandIns(Reading)
      /\ v.choices = Over(<<>>, Proposal(Reading)) /\ w.choices = Proposal(Reading)
      /\ ~v.excluded /\ ~w.excluded
  BY DEF Agree, Inputs, Reading, ReadAs, Excluded
<1>3. InputsOK(w)
  <2>1. InputsOK(Inputs(Reading, Proposal(Reading), StandIns(Reading), cache))
    BY ReadAsOK, CacheOK, InputsAreOK DEF ArtInv, Reading
  <2> QED BY <1>1, <2>1 DEF InputsOK, Inputs, Art
<1>4. WidthWanted(Reading, GivesWay(Reading, stored)) =
        Threshold(pics, FolderCover(covers), GivesWay(Reading, stored), album.policy,
                  IF Own(w) = None THEN None ELSE Image[Own(w)].size, album.lossless \/ album.room > 0)
  BY <1>2 DEF WidthWanted, Reading, ReadAs, Own
<1>5. Suggested(Reading) = Plan(v).lines
  BY DEF Suggested, Artwork
<1> HIDE DEF v, w, front
<1>6. /\ SuggestWith(w, Own(w), front) = SuggestWith(w, Own(w), None)
      /\ Carried(w.pics, w.cover) \cap GivesWay(Reading, stored) = {}
  BY <1>1, <1>2, <1>3, <1>4, UnworthySuggestion DEF front
<1>7. Suggest(w) = Suggest(v)
  <2>1. Offered(v) = None /\ Offered(w) = front /\ Own(w) = Own(v)
    BY <1>2, AgreeLines DEF Offered
  <2>2. SuggestWith(w, Own(v), None) = SuggestWith(v, Own(v), None)
    BY <1>2, AgreeSuggestNone
  <2> QED BY <1>6, <2>1, <2>2 DEF Suggest
<1>8. DOMAIN GivenWay(v, v.standIns \ {v.archive, None}) = {}
  BY <1>2 DEF GivenWay
<1>9. DOMAIN GivenWay(w, w.standIns \ {w.archive, None}) = {}
  <2>1. StandIns(Reading) \subseteq GivesWay(Reading, stored)
    BY DEF StandIns, GivesWay
  <2>2. \A t \in Track : w.pics[t] \notin w.standIns \ {w.archive, None}
    BY <1>2, <1>6, <2>1 DEF Carried
  <2>3. CoverImage(w) \notin w.standIns \ {w.archive, None}
    BY <1>2, <1>6, <2>1 DEF Carried, CoverImage
  <2> QED BY <2>2, <2>3 DEF GivenWay
<1>10. /\ ChoicesOf(w) = ChoicesOf(v)
       /\ \A c \in DOMAIN ChoicesOf(v) : ChoicesOf(v)[c] # TheArchive
  <2>1. DOMAIN v.choices = DOMAIN w.choices /\ \A c \in DOMAIN w.choices : v.choices[c] = w.choices[c]
    BY <1>2 DEF Over
  <2>2. \A c \in DOMAIN w.choices : w.choices[c] # TheArchive
    BY <1>2, ProposedFronts DEF ArtInv
  <2> QED BY <1>8, <1>9, <2>1, <2>2 DEF Over
<1>11. PICK choices : /\ choices = ChoicesOf(w) /\ choices = ChoicesOf(v)
                      /\ \A c \in DOMAIN choices : choices[c] # TheArchive
  BY <1>10
<1>12. /\ Plan(v) = PlanHonouring(v, Honoured(v, choices))
       /\ Plan(w) = PlanHonouring(w, Honoured(w, choices))
  BY <1>11 DEF Plan
<1>13. Honoured(w, choices) = Honoured(v, choices)
  BY <1>2, <1>11, AgreeTaken
<1>14. Taken(w, Honoured(v, choices)) = Taken(v, Honoured(v, choices))
  <2>1. \A c \in DOMAIN Honoured(v, choices) : Honoured(v, choices)[c] # TheArchive
    BY <1>11 DEF Honoured
  <2> QED BY <1>2, <2>1, AgreeTaken
<1>15. Plan(w).lines = Plan(v).lines
  BY <1>2, <1>7, <1>12, <1>13, <1>14, AgreeWritten DEF PlanHonouring
<1> QED BY <1>5, <1>15 DEF w, front

\* A front of the archive's that the background check leaves where it is would
\* change no line of the plan if it were fetched.
THEOREM UnfetchedIsUnneeded == Spec => []NothingWorthFetching
<1>1. ArtInv => NothingWorthFetching
  BY NotWorthIt DEF NothingWorthFetching
<1> QED BY <1>1, ArtHolds, PTL


(***************************************************************************)
(* Where the page states a tag.                                             *)
(***************************************************************************)

\* The places once the column after those of `q` is chosen.
WithPlace(q, field, present, multiDisc, rolledUp) ==
  [f \in DOMAIN q \cup {field} |->
     IF f \in DOMAIN q THEN q[f] ELSE Place(f, q, present, multiDisc, rolledUp)]

\* `g` is the places as each column is chosen, beside those chosen before it.
Choosing(g, n, present, multiDisc, rolledUp) ==
  g = [i \in 0..n |-> IF i = 0 THEN <<>> ELSE WithPlace(g[i - 1], Columns[i], present, multiDisc, rolledUp)]

LEMMA ChosenDefined ==
  ASSUME NEW present, NEW multiDisc, NEW rolledUp, NEW n \in Nat
  PROVE  \E g : Choosing(g, n, present, multiDisc, rolledUp)
<1> DEFINE With(i, q) == WithPlace(q, Columns[i], present, multiDisc, rolledUp)
           Good(m) == \E g : g = [i \in 0..m |-> IF i = 0 THEN <<>> ELSE With(i, g[i - 1])]
           B == {m \in 0..n : ~ Good(m)}
<1>1. Good(0)
  <2> DEFINE g == [i \in 0..0 |-> <<>>]
  <2> HIDE DEF With
  <2>1. \A i \in 0..0 : i = 0
    OBVIOUS
  <2>2. g = [i \in 0..0 |-> IF i = 0 THEN <<>> ELSE With(i, g[i - 1])]
    BY <2>1
  <2> QED BY <2>2
<1>2. ASSUME NEW m \in Nat, Good(m) PROVE Good(m + 1)
  <2> HIDE DEF With
  <2>1. PICK g : g = [i \in 0..m |-> IF i = 0 THEN <<>> ELSE With(i, g[i - 1])]
    BY <1>2
  <2> DEFINE h == [i \in 0..(m + 1) |-> IF i = 0 THEN <<>> ELSE With(i, g[i - 1])]
  <2>2. \A i \in 0..m : g[i] = IF i = 0 THEN <<>> ELSE With(i, g[i - 1])
    BY <2>1
  <2>3. \A i \in 0..(m + 1) : h[i] = IF i = 0 THEN <<>> ELSE With(i, g[i - 1])
    OBVIOUS
  <2>4. \A i \in 0..m : h[i] = g[i]
    <3> HIDE DEF h
    <3> QED BY <2>2, <2>3
  <2>5. \A i \in 0..(m + 1) : i # 0 => i - 1 \in 0..m
    OBVIOUS
  <2>6. h = [i \in 0..(m + 1) |-> IF i = 0 THEN <<>> ELSE With(i, h[i - 1])]
    <3>1. \A i \in 0..(m + 1) : (IF i = 0 THEN <<>> ELSE With(i, g[i - 1]))
                                = IF i = 0 THEN <<>> ELSE With(i, h[i - 1])
      <4> HIDE DEF h
      <4> QED BY <2>4, <2>5
    <3> QED BY <3>1
  <2> QED BY <2>6
<1>3. ASSUME B # {} PROVE FALSE
  <2>1. B \in SUBSET Nat
    <3> HIDE DEF Good
    <3> QED OBVIOUS
  <2>2. PICK m \in B : \A j \in B : m <= j
    <3> HIDE DEF B
    <3> QED BY <1>3, <2>1, LeastNumber
  <2> HIDE DEF Good
  <2>3. m # 0 /\ m \in 0..n
    BY <1>1
  <2>4. m - 1 \in Nat /\ m - 1 \in 0..n /\ m - 1 \notin B
    BY <2>2, <2>3
  <2>5. Good(m - 1) /\ (m - 1) + 1 = m
    BY <2>3, <2>4
  <2>6. Good((m - 1) + 1)
    BY <1>2, <2>4, <2>5
  <2> QED BY <2>5, <2>6
<1>4. Good(n)
  <2> HIDE DEF Good
  <2> QED BY <1>3
<1> QED BY <1>4 DEF Choosing

\* Every candidate is placed, by the rule, and nothing else is.
LEMMA ColumnsPlaced ==
  ASSUME NEW present, NEW multiDisc, NEW rolledUp
  PROVE  LET places == ChooseColumns(present, multiDisc, rolledUp)
         IN /\ DOMAIN places = Range(Columns)
            /\ \A f \in Range(Columns) : \E q : places[f] = Place(f, q, present, multiDisc, rolledUp)
<1> DEFINE P(f, q) == Place(f, q, present, multiDisc, rolledUp)
           With(i, q) == WithPlace(q, Columns[i], present, multiDisc, rolledUp)
           n == Len(Columns)
           chosen == CHOOSE g : Choosing(g, n, present, multiDisc, rolledUp)
           Placed(i) == /\ DOMAIN chosen[i] = {Columns[k] : k \in 1..i}
                        /\ \A f \in DOMAIN chosen[i] : \E q : chosen[i][f] = P(f, q)
           B == {i \in 0..n : ~ Placed(i)}
<1>1. n \in Nat /\ DOMAIN Columns = 1..n /\ Range(Columns) = {Columns[k] : k \in 1..n}
  BY ColumnsAssumption DEF Range
<1>2. chosen = [i \in 0..n |-> IF i = 0 THEN <<>> ELSE With(i, chosen[i - 1])]
  <2>1. \E g : Choosing(g, n, present, multiDisc, rolledUp)
    <3> HIDE DEF n
    <3> QED BY <1>1, ChosenDefined
  <2>2. Choosing(chosen, n, present, multiDisc, rolledUp)
    BY <2>1
  <2> HIDE DEF chosen
  <2> QED BY <2>2 DEF Choosing
<1>3. ChooseColumns(present, multiDisc, rolledUp) = chosen[n]
  BY DEF ChooseColumns, Choosing, WithPlace
<1> HIDE DEF chosen, n, P, With
<1>4. \A i \in 0..n : chosen[i] = IF i = 0 THEN <<>> ELSE With(i, chosen[i - 1])
  BY <1>2
<1>5. Placed(0)
  <2>1. chosen[0] = <<>> /\ DOMAIN chosen[0] = {}
    BY <1>1, <1>4
  <2> QED BY <2>1
<1>6. ASSUME NEW i \in 1..n, Placed(i - 1) PROVE Placed(i)
  <2> DEFINE q == chosen[i - 1]
             f == Columns[i]
  <2>1. chosen[i] = [g \in DOMAIN q \cup {f} |-> IF g \in DOMAIN q THEN q[g] ELSE P(g, q)]
    <3>1. i \in 0..n /\ i # 0
      BY <1>1
    <3>2. chosen[i] = With(i, q)
      BY <1>4, <3>1
    <3> HIDE DEF q
    <3> QED BY <3>2 DEF With, WithPlace, P
  <2>2. DOMAIN q = {Columns[k] : k \in 1..(i - 1)} /\ \A g \in DOMAIN q : \E p : q[g] = P(g, p)
    BY <1>6
  <2> HIDE DEF q, f
  <2>4. /\ DOMAIN chosen[i] = DOMAIN q \cup {f}
        /\ \A g \in DOMAIN q : chosen[i][g] = q[g]
        /\ f \in DOMAIN q \/ chosen[i][f] = P(f, q)
    BY <2>1
  <2>5. {Columns[k] : k \in 1..i} = {Columns[k] : k \in 1..(i - 1)} \cup {f}
    <3>1. \A k : k \in 1..i <=> k \in 1..(i - 1) \/ k = i
      BY <1>1
    <3> QED BY <3>1 DEF f
  <2>6. ASSUME NEW g \in DOMAIN chosen[i] PROVE \E p : chosen[i][g] = P(g, p)
    BY <2>2, <2>4
  <2> QED BY <2>2, <2>4, <2>5, <2>6
<1> HIDE DEF Placed
<1>7. ASSUME B # {} PROVE FALSE
  <2>1. B \in SUBSET Nat
    BY <1>1
  <2>2. PICK m \in B : \A j \in B : m <= j
    <3> HIDE DEF B
    <3> QED BY <1>7, <2>1, LeastNumber
  <2>3. m # 0 /\ m \in 0..n
    BY <1>5
  <2>4. m \in 1..n /\ m - 1 \in 0..n /\ m - 1 \notin B
    BY <1>1, <2>2, <2>3
  <2>5. Placed(m - 1)
    BY <2>4
  <2> QED BY <1>6, <2>4, <2>5
<1>8. Placed(n)
  BY <1>1, <1>7
<1> QED BY <1>1, <1>3, <1>8 DEF Placed, P

(***************************************************************************)
(* What the page says of the tags.                                          *)
(***************************************************************************)

\* The files keep the tags Harmonist owns, whoever writes them.
FileOK(file) ==
  /\ {"slot", "ok", "video", "tags"} \subseteq DOMAIN file
  /\ file.slot \in DOMAIN album.mb \cup {None} /\ TagsOK(file.tags)
FilesOK == \A i \in DOMAIN files : FileOK(files[i])

LEMMA OwnedFields ==
  /\ Range(Columns) \subseteq Owned /\ Panel \subseteq Owned /\ Flags \subseteq Owned
  /\ {"track_num", "disc_num"} \subseteq Owned /\ MediumDerived \subseteq Owned
  BY ColumnsAssumption DEF Owned

LEMMA FilesInit == Init => FilesOK
  BY TagsAssumption DEF Init, FilesOK, FileOK

\* A file that is tagged carries what MusicBrainz says of its track.
LEMMA RetaggedFile ==
  ASSUME NEW file, NEW tags, {"slot", "ok", "video", "tags"} \subseteq DOMAIN file,
         TagsOK(file.tags)
  PROVE  LET after == Retagged(file, tags)
         IN /\ DOMAIN after = DOMAIN file
            /\ after.slot = file.slot /\ after.ok = file.ok /\ after.video = file.video
            /\ DOMAIN after.tags = DOMAIN file.tags
            /\ \A f \in Owned : after.tags[f] = tags[f]
<1>1. Owned \subseteq DOMAIN file.tags
  BY DEF TagsOK
<1> DEFINE new == [f \in DOMAIN file.tags |-> IF f \in Owned THEN tags[f] ELSE file.tags[f]]
<1>2. Retagged(file, tags) = [file EXCEPT !.tags = new]
  BY DEF Retagged
<1>3. DOMAIN new = DOMAIN file.tags /\ \A f \in Owned : new[f] = tags[f]
  BY <1>1
<1> HIDE DEF new
<1> QED BY <1>2, <1>3

LEMMA TaggedFiles ==
  ASSUME FilesOK, album \in Albums, TagFiles, NEW i \in DOMAIN files
  PROVE  /\ i \in DOMAIN files' /\ DOMAIN files' = DOMAIN files
         /\ files'[i].slot = files[i].slot /\ files'[i].ok = files[i].ok
         /\ files'[i].video = files[i].video
         /\ DOMAIN files'[i] = DOMAIN files[i]
         /\ Written(files[i]) => \A f \in Owned : files'[i].tags[f] = album.mb[files[i].slot][f]
         /\ TagsOK(files'[i].tags)
<1>1. FileOK(files[i])
  BY DEF FilesOK
<1>2. /\ DOMAIN files' = DOMAIN files
      /\ files'[i] = IF Written(files[i]) THEN Retagged(files[i], album.mb[files[i].slot]) ELSE files[i]
  BY DEF TagFiles, RetaggedAll
<1>3. CASE Written(files[i])
  <2>1. files[i].slot \in DOMAIN album.mb
    BY <1>1, <1>3 DEF FileOK, Written
  <2>2. TagsOK(album.mb[files[i].slot])
    BY <2>1, TagsAssumption
  <2> DEFINE tags == album.mb[files[i].slot]
  <2>3. files'[i] = Retagged(files[i], tags)
    BY <1>2, <1>3
  <2>4. TagsOK(tags)
    BY <2>2
  <2> HIDE DEF tags
  <2>5. /\ DOMAIN files'[i] = DOMAIN files[i]
        /\ files'[i].slot = files[i].slot /\ files'[i].ok = files[i].ok /\ files'[i].video = files[i].video
        /\ DOMAIN files'[i].tags = DOMAIN files[i].tags
        /\ \A f \in Owned : files'[i].tags[f] = tags[f]
    BY <1>1, <2>3, RetaggedFile DEF FileOK
  <2>6. TagsOK(files'[i].tags)
    BY <1>1, <2>4, <2>5, OwnedFields DEF TagsOK, FileOK
  <2> QED BY <1>2, <2>5, <2>6 DEF tags
<1>4. CASE ~Written(files[i])
  BY <1>1, <1>2, <1>4 DEF FileOK
<1> QED BY <1>3, <1>4

\* Files change by a re-tag, or by another program.
LEMMA WhoTags ==
  ASSUME ArtInv, [Next]_vars
  PROVE  /\ album' = album
         /\ \/ files' = files
            \/ TagFiles
            \/ ByAnother /\ \E edit \in album.edits : Outside(edit) /\ edit.what = "tag"
<1>1. CASE Presses
  BY <1>1 DEF Presses, OpenPage, OpenCard, Watch, ApplyUpdates, ApplyChosen, RetagOnly, Choose,
              Suggestion, Retag, TagFiles, onDisk
<1>2. CASE Sweep \/ CheckCoverArt \/ Scan \/ PassStart \/ PassTurns
  BY <1>2 DEF Sweep, CheckCoverArt, Scan, PassStart, PassTurns, onDisk
<1>3. CASE Load \/ Finish \/ Faults
  BY <1>3 DEF Load, Finish, Faults, LoadUnkept, WriteFails, Crash, onDisk, Writing, JobStep
<1>4. CASE WriteTrack(NextLine) \/ WriteCover(NextLine)
  BY <1>4 DEF WriteTrack, WriteCover, Writing, JobStep
<1>5. CASE ArchiveChanges \/ Evict
  BY <1>5 DEF ArchiveChanges, Evict, onDisk
<1>6. ASSUME NEW edit \in album.edits, Outside(edit)
      PROVE  album' = album /\ (files' = files \/ (ByAnother /\ edit.what = "tag"))
  <2>1. budget' = [budget EXCEPT !["outside"] = @ - 1] /\ budget \in [outside : Nat, presses : Nat, faults : Nat]
    BY <1>6 DEF ArtInv, BudgetOK, Outside, Spend
  <2>2. budget'.outside # budget.outside
    BY <2>1
  <2>3. album' = album /\ (edit.what = "tag" \/ files' = files)
    BY <1>6 DEF Outside
  <2> QED BY <2>2, <2>3 DEF ByAnother
<1>7. CASE UNCHANGED vars
  BY <1>7 DEF vars, onDisk
<1> QED BY <1>1, <1>2, <1>3, <1>4, <1>5, <1>6, <1>7 DEF Next, JobSteps, World

LEMMA EditedFile ==
  ASSUME NEW file, FileOK(file), NEW field, NEW to, field \in Flags => to \in {None, Yes}
  PROVE  FileOK([file EXCEPT !.tags[field] = to])
<1> DEFINE tags == [file.tags EXCEPT ![field] = to]
<1>1. TagsOK(tags)
  BY OwnedFields DEF FileOK, TagsOK
<1>2. [file EXCEPT !.tags[field] = to] = [file EXCEPT !.tags = tags]
  OBVIOUS
<1> HIDE DEF tags
<1>3. FileOK([file EXCEPT !.tags = tags])
  BY <1>1 DEF FileOK
<1> QED BY <1>2, <1>3

LEMMA FilesStep ==
  ASSUME ArtInv, FilesOK, [Next]_vars
  PROVE  FilesOK'
<1>1. album' = album /\ album \in Albums
  BY WhoTags DEF ArtInv
<1>2. CASE files' = files
  BY <1>1, <1>2 DEF FilesOK, FileOK
<1>3. CASE TagFiles
  <2> SUFFICES ASSUME NEW i \in DOMAIN files' PROVE FileOK(files[i])'
    BY DEF FilesOK
  <2>1. i \in DOMAIN files
    BY <1>3 DEF TagFiles, RetaggedAll
  <2>2. /\ files'[i].slot = files[i].slot /\ DOMAIN files'[i] = DOMAIN files[i]
        /\ TagsOK(files'[i].tags)
    BY <1>1, <1>3, <2>1, TaggedFiles
  <2>3. FileOK(files[i])
    BY <2>1 DEF FilesOK
  <2> QED BY <1>1, <2>2, <2>3 DEF FileOK
<1>4. ASSUME NEW edit \in album.edits, Outside(edit), edit.what = "tag" PROVE FilesOK'
  <2>1. files' = [files EXCEPT ![edit.at].tags[edit.field] = edit.to]
    BY <1>4 DEF Outside
  <2>2. edit.field \in Flags => edit.to \in {None, Yes}
    BY <1>1, <1>4, TagsAssumption
  <2> SUFFICES ASSUME NEW i \in DOMAIN files' PROVE FileOK(files[i])'
    BY DEF FilesOK
  <2>3. i \in DOMAIN files
    BY <2>1
  <2>4. FileOK(files[i])
    BY <2>3 DEF FilesOK
  <2>5. FileOK([files[i] EXCEPT !.tags[edit.field] = edit.to])
    BY <2>2, <2>4, EditedFile
  <2>6. files'[i] = files[i] \/ files'[i] = [files[i] EXCEPT !.tags[edit.field] = edit.to]
    BY <2>1, <2>3
  <2> QED BY <1>1, <2>4, <2>5, <2>6 DEF FileOK
<1> QED BY <1>2, <1>3, <1>4, WhoTags

LEMMA FilesHold == Spec => []FilesOK
<1>1. ArtInv /\ FilesOK /\ [Next]_vars => FilesOK'
  BY FilesStep
<1> QED BY <1>1, FilesInit, ArtHolds, PTL DEF Spec

\* Where the files agree, what they say is the album's reading.
LEMMA OneReadingSays ==
  ASSUME NEW readings, OneReading(readings), NEW i \in DOMAIN readings
  PROVE  /\ Consensus(readings) = readings[i]
         /\ FlagConsensus(readings) <=> readings[i] # None
<1> DEFINE x == readings[i]
<1>1. Range(readings) = {x}
  BY DEF OneReading, Range
<1>2. FlagConsensus(readings) <=> x # None
  BY <1>1 DEF FlagConsensus
<1> HIDE DEF x
<1>3. CASE x = None
  BY <1>1, <1>2, <1>3 DEF Consensus, x
<1>4. CASE x # None
  <2> DEFINE Count(y) == Cardinality({j \in DOMAIN readings : readings[j] = y})
             Earlier(y, z) == \E j \in DOMAIN readings :
               readings[j] = y /\ \A k \in DOMAIN readings : readings[k] = z => j < k
             said == Range(readings) \ {None}
             most == CHOOSE y \in said : \A z \in said \ {y} :
                       Count(z) < Count(y) \/ (Count(z) = Count(y) /\ Earlier(y, z))
  <2>1. said = {x}
    BY <1>1, <1>4
  <2>2. Consensus(readings) = most
    BY <2>1 DEF Consensus
  <2> HIDE DEF said, Count, Earlier
  <2>3. \E y \in said : \A z \in said \ {y} :
          Count(z) < Count(y) \/ (Count(z) = Count(y) /\ Earlier(y, z))
    BY <2>1
  <2>4. most \in said
    BY <2>3
  <2> QED BY <1>2, <2>1, <2>2, <2>4 DEF x
<1> QED BY <1>3, <1>4

\* The panel names every album field a re-tag would change, unless the files
\* agree on another of the release's countries.
LEMMA PanelSpeaks ==
  ASSUME album \in Albums, FilesOK, NEW file \in Range(files), Written(file),
         NEW f \in Panel, file.tags[f] # album.mb[file.slot][f]
  PROVE  InPanel(f, Compared) \/ (f = "country" /\ file.tags[f] \in album.accepted)
<1> DEFINE readings == Readings(Compared, f)
<1>1. PICK i \in DOMAIN files : files[i] = file
  BY DEF Range
<1>2. FileOK(file)
  BY <1>1 DEF FilesOK
<1>3. i \in DOMAIN readings /\ readings[i] = file.tags[f]
  BY <1>1 DEF Readings, Audio, Compared, Written
<1>4. file.slot \in DOMAIN album.mb
  BY <1>2 DEF FileOK, Written
<1>5. album.mb[file.slot][f] = album.mb[1][f] /\ TagsOK(album.mb[file.slot]) /\ TagsOK(file.tags)
  BY <1>2, <1>4, TagsAssumption DEF FileOK
<1>6. CASE ~OneReading(readings)
  BY <1>6 DEF InPanel
<1>7. CASE OneReading(readings)
  <2> HIDE DEF readings
  <2>1. /\ Consensus(readings) = file.tags[f]
        /\ FlagConsensus(readings) <=> file.tags[f] # None
    BY <1>3, <1>7, OneReadingSays
  <2>2. CASE f \in Flags
    <3>1. (file.tags[f] # None) # (album.mb[1][f] # None)
      BY <1>5, <2>2 DEF TagsOK
    <3>2. PanelDiffers(Compared, f, album.accepted)
      BY <2>1, <2>2, <3>1 DEF PanelDiffers, Compared, readings
    <3> QED BY <3>2 DEF InPanel
  <2>3. CASE f \notin Flags
    <3>1. CASE f = "country" /\ file.tags[f] \in album.accepted
      BY <3>1
    <3>2. CASE ~(f = "country" /\ file.tags[f] \in album.accepted)
      <4>1. file.tags[f] \notin {album.mb[1][f]} \cup (IF f = "country" THEN album.accepted ELSE {})
        BY <1>5, <3>2
      <4>2. PanelDiffers(Compared, f, album.accepted)
        BY <2>1, <2>3, <4>1 DEF PanelDiffers, Compared, readings
      <4> QED BY <4>2 DEF InPanel
    <3> QED BY <3>1, <3>2
  <2> QED BY <2>2, <2>3
<1> QED BY <1>6, <1>7

\* The number column speaks for the track's number, and for its disc's where
\* there are several.
LEMMA NumberSpeaks ==
  ASSUME NEW disk, NEW mb, mb["track_num"] # None, NEW multiDisc
  PROVE  /\ disk["track_num"] # mb["track_num"] => Number(disk, multiDisc) # Number(mb, multiDisc)
         /\ multiDisc /\ DiscNum(disk) # DiscNum(mb) => Number(disk, multiDisc) # Number(mb, multiDisc)
<1>1. /\ Number(disk, multiDisc) = IF disk["track_num"] = None THEN <<>>
                                   ELSE IF multiDisc THEN <<DiscNum(disk), disk["track_num"]>>
                                   ELSE <<disk["track_num"]>>
      /\ Number(mb, multiDisc) = IF multiDisc THEN <<DiscNum(mb), mb["track_num"]>>
                                 ELSE <<mb["track_num"]>>
  BY DEF Number
<1>2. \A a, b, c, d : <<a, b>> # <<>> /\ <<a>> # <<>> /\ (<<a>> = <<b>> => a = b)
                      /\ (<<a, b>> = <<c, d>> => a = c /\ b = d)
  OBVIOUS
<1> QED BY <1>1, <1>2

\* A rule for a field's place, and what the place then says.
LEMMA PlaceSays ==
  ASSUME NEW v, NEW places, NEW p \in Told(Present(v)), NEW f \in DOMAIN places, NEW q,
         places[f] = Place(f, q, Present(v), MultiDisc(v), RolledUp(v)),
         p.disk[f] # p.mb[f], p.mb["track_num"] # None,
         f \in MediumDerived => p.mb[f] = Medium(v, p.disc)[f]
  PROVE  \/ Says(f, p, places, v)
         \/ f = "disc_num" /\ DiscNum(p.disk) = DiscNum(p.mb)
         \/ MultiDisc(v) /\ f \in MediumDerived /\ PlaceOf(f, places) = "collapsed"
<1> DEFINE present == Present(v)
           multi == MultiDisc(v)
           at == PlaceOf(f, places)
<1>1. at = places[f]
  BY DEF PlaceOf
<1>2. CASE at \in {"column", "earned", "listed", "overflow"}
  <2>1. f \in StatedInRow(p, places, multi)
    BY <1>1, <1>2 DEF StatedInRow, Kept
  <2> QED BY <1>2, <2>1 DEF Says
<1>3. CASE multi /\ f = "disc_num" /\ at = "number"
  <2>1. CASE DiscNum(p.disk) = DiscNum(p.mb)
    BY <1>3, <2>1
  <2>2. CASE DiscNum(p.disk) # DiscNum(p.mb)
    <3>1. Number(p.disk, multi) # Number(p.mb, multi)
      BY <1>3, <2>2, NumberSpeaks
    <3>2. f \in StatedInRow(p, places, multi)
      BY <1>3, <3>1 DEF StatedInRow
    <3> QED BY <1>3, <3>2 DEF Says
  <2> QED BY <2>1, <2>2
<1>4. CASE f \in MediumDerived /\ at = "heading"
  BY <1>4 DEF Says
<1>5. CASE ~EarnsColumn(f, present, multi) /\ at = "collapsed"
  <2>1. CASE multi /\ f \in MediumDerived
    BY <1>5, <2>1
  <2>2. CASE ~(multi /\ f \in MediumDerived)
    <3>1. Uniform(f, present)
      BY <1>5, <2>2 DEF EarnsColumn
    <3>2. f \in BandStates(places, present)
      BY <1>1, <1>5, <3>1 DEF BandStates, CollapsedDiffers
    <3> QED BY <1>5, <3>2 DEF Says
  <2> QED BY <2>1, <2>2
<1>6. CASE InStep(f, SubsumedBy[f], present) /\ at = "absorbed"
  BY <1>6 DEF Says, InStep
<1>7. CASE at = "rider"
  <2>1. CASE p.disk[SubsumedBy[f]] = p.mb[SubsumedBy[f]]
    <3>1. f \in StatedInRow(p, places, multi)
      BY <1>1, <1>7, <2>1 DEF StatedInRow
    <3> QED BY <1>7, <3>1 DEF Says
  <2>2. CASE p.disk[SubsumedBy[f]] # p.mb[SubsumedBy[f]]
    BY <1>7, <2>2 DEF Says
  <2> QED BY <2>1, <2>2
<1>8. \A earned : OfItsOwn(f, earned) \in {"column", "earned", "listed", "overflow"}
  BY DEF OfItsOwn
<1>9. \/ at \in {"column", "earned", "listed", "overflow"}
      \/ multi /\ f = "disc_num" /\ at = "number"
      \/ f \in MediumDerived /\ at = "heading"
      \/ ~EarnsColumn(f, present, multi) /\ at = "collapsed"
      \/ InStep(f, SubsumedBy[f], present) /\ at = "absorbed"
      \/ at = "rider"
  <2> HIDE DEF present, multi, at
  <2>1. at = Place(f, q, present, multi, RolledUp(v))
    BY <1>1 DEF present, multi
  <2> QED BY <1>8, <2>1 DEF Place, BesideCredit
<1> QED BY <1>2, <1>3, <1>4, <1>5, <1>6, <1>7, <1>9

\* What a file that would be tagged has of its own, beside its track's tags.
LEMMA TaggedRow ==
  ASSUME album \in Albums, FilesOK, NEW file \in Range(files), Written(file)
  PROVE  LET mb == album.mb[file.slot]
             p == [disc |-> DiscNum(mb), disk |-> file.tags, mb |-> mb]
         IN /\ file.slot \in DOMAIN album.mb /\ mb["track_num"] # None
            /\ \A f \in MediumDerived : mb[f] = Medium(Compared, DiscNum(mb))[f]
            /\ p \in Told(Present(Compared))
<1>1. PICK i \in DOMAIN files : files[i] = file
  BY DEF Range
<1>2. file.slot \in DOMAIN album.mb
  BY <1>1 DEF FilesOK, FileOK, Written
<1>3. album.mb[file.slot] # None /\ album.mb[file.slot]["track_num"] # None
  BY <1>2, TagsAssumption
<1>4. \A f \in MediumDerived : album.mb[file.slot][f] = Medium(album, DiscNum(album.mb[file.slot]))[f]
  BY <1>2, TagsAssumption
<1>5. \A disc : Medium(album, disc) = Medium(Compared, disc)
  BY DEF Medium, Compared
<1>6. file \in Assigned(Compared) /\ file.ok /\ ~file.video
  BY DEF Assigned, Compared, Written
<1>7. [disc |-> DiscNum(album.mb[file.slot]), disk |-> file.tags, mb |-> album.mb[file.slot]] \in Present(Compared)
  BY <1>6 DEF Present, Compared
<1>8. [disc |-> DiscNum(album.mb[file.slot]), disk |-> file.tags, mb |-> album.mb[file.slot]] \in Told(Present(Compared))
  BY <1>3, <1>7 DEF Told
<1> QED BY <1>2, <1>3, <1>4, <1>5, <1>8

\* Whatever a re-tag would change, in whichever file, the page says so, for any
\* choice of columns and of what subsumes what: the place a field is given says
\* of every file of which it is true that the field changes.
THEOREM ChangesAreStated == Spec => []NothingHidden
<1>1. ASSUME ArtInv, FilesOK PROVE NothingHidden
  <2> SUFFICES ASSUME NEW file \in Range(files), NEW f \in Changed(file)
               PROVE  LET v == Compared
                          places == Places(v)
                      IN \/ InPanel(f, v) \/ LeftUnsaid(f, file, places, v)
                         \/ Says(f, [disc |-> DiscNum(v.mb[file.slot]), disk |-> file.tags,
                                     mb |-> v.mb[file.slot]], places, v)
    <3>1. Compared.files = files
      BY DEF Compared
    <3> QED BY <3>1 DEF NothingHidden, StatesAll
  <2> DEFINE v == Compared
             mb == album.mb[file.slot]
             p == [disc |-> DiscNum(mb), disk |-> file.tags, mb |-> mb]
             places == Places(v)
  <2>1. v.mb = album.mb
    BY DEF Compared
  <2>2. album \in Albums /\ Written(file) /\ f \in Owned /\ file.tags[f] # mb[f]
    BY <1>1 DEF ArtInv, Changed
  <2>3. /\ mb["track_num"] # None
        /\ \A g \in MediumDerived : mb[g] = Medium(v, DiscNum(mb))[g]
        /\ p \in Told(Present(v))
    BY <1>1, <2>2, TaggedRow
  <2>4. CASE f \in Panel
    <3>1. InPanel(f, v) \/ (f = "country" /\ file.tags[f] \in album.accepted)
      BY <1>1, <2>2, <2>4, PanelSpeaks
    <3> QED BY <3>1 DEF LeftUnsaid
  <2>5. CASE f = "track_num"
    <3>1. /\ DOMAIN places = Range(Columns)
          /\ \A g \in Range(Columns) :
               \E q : places[g] = Place(g, q, Present(v), MultiDisc(v), RolledUp(v))
      BY ColumnsPlaced DEF Places
    <3> HIDE DEF places, v, mb
    <3>2. PlaceOf(f, places) = "nowhere"
      BY <2>5, <3>1, ColumnsAssumption DEF PlaceOf
    <3>3. Number(p.disk, MultiDisc(v)) # Number(p.mb, MultiDisc(v))
      BY <2>2, <2>3, <2>5, NumberSpeaks
    <3>4. f \in StatedInRow(p, places, MultiDisc(v))
      BY <2>5, <3>3 DEF StatedInRow
    <3>5. Says(f, p, places, v)
      BY <3>2, <3>4 DEF Says
    <3> QED BY <2>1, <3>5 DEF mb, places, v
  <2>6. CASE f \in Range(Columns)
    <3>1. /\ DOMAIN places = Range(Columns)
          /\ \E q : places[f] = Place(f, q, Present(v), MultiDisc(v), RolledUp(v))
      BY <2>6, ColumnsPlaced DEF Places
    <3> HIDE DEF places, v, mb
    <3>3. PICK q : places[f] = Place(f, q, Present(v), MultiDisc(v), RolledUp(v))
      BY <3>1
    <3>4. /\ f \in DOMAIN places /\ p \in Told(Present(v)) /\ p.disk[f] # p.mb[f]
          /\ p.mb["track_num"] # None
          /\ f \in MediumDerived => p.mb[f] = Medium(v, p.disc)[f]
      BY <2>2, <2>3, <2>6, <3>1
    <3>5. \/ Says(f, p, places, v)
          \/ f = "disc_num" /\ DiscNum(p.disk) = DiscNum(p.mb)
          \/ MultiDisc(v) /\ f \in MediumDerived /\ PlaceOf(f, places) = "collapsed"
      <4> HIDE DEF p
      <4> QED BY ONLY <3>3, <3>4, PlaceSays
    <3> QED BY <2>1, <3>5 DEF LeftUnsaid, mb, places, v
  <2> QED BY <2>2, <2>4, <2>5, <2>6 DEF Owned
<1> QED BY <1>1, ArtHolds, FilesHold, PTL

(***************************************************************************)
(* What a re-tag leaves.                                                    *)
(***************************************************************************)

\* Every file is a track's, every track has a file that is tagged, and those
\* carry what MusicBrainz says.
Agreed(v) ==
  /\ 1 \in DOMAIN v.mb
  /\ \A m \in DOMAIN v.mb :
       /\ \A f \in Panel : v.mb[m][f] = v.mb[1][f]
       /\ \A f \in MediumDerived : Medium(v, DiscNum(v.mb[m]))[f] = v.mb[m][f]
       /\ \E file \in Range(v.files) : file.slot = m /\ Written(file)
  /\ \A file \in Range(v.files) :
       /\ file.slot \in DOMAIN v.mb /\ file.slot # None
       /\ Written(file) => \A f \in Owned : file.tags[f] = v.mb[file.slot][f]

LEMMA AgreedRow ==
  ASSUME NEW v, Agreed(v), NEW p \in Told(Present(v))
  PROVE  /\ \A f \in Owned : p.disk[f] = p.mb[f]
         /\ \A f \in MediumDerived : p.mb[f] = Medium(v, p.disc)[f]
<1>1. PICK file \in Range(v.files) :
        /\ file.slot # None /\ file.ok
        /\ p = [disc |-> DiscNum(v.mb[file.slot]), disk |-> file.tags,
                mb |-> IF file.video THEN None ELSE v.mb[file.slot]]
  BY DEF Told, Present, Assigned
<1>2. ~file.video
  BY <1>1 DEF Told
<1>3. p.disc = DiscNum(v.mb[file.slot]) /\ p.disk = file.tags /\ p.mb = v.mb[file.slot]
  BY <1>1, <1>2
<1>4. Written(file) /\ file.slot \in DOMAIN v.mb
  BY <1>1, <1>2 DEF Written, Agreed
<1> QED BY <1>3, <1>4 DEF Agreed

LEMMA AgreedPanel ==
  ASSUME NEW v, Agreed(v), NEW f \in Panel, NEW accepted
  PROVE  ~PanelDiffers(v, f, accepted)
<1> DEFINE readings == Readings(v, f)
<1>1. \A i \in DOMAIN readings : readings[i] = v.mb[1][f]
  <2> SUFFICES ASSUME NEW i \in DOMAIN readings PROVE readings[i] = v.mb[1][f]
    OBVIOUS
  <2>1. /\ i \in DOMAIN v.files /\ v.files[i].ok /\ ~v.files[i].video
        /\ readings[i] = v.files[i].tags[f]
    BY DEF Readings, Audio
  <2>2. v.files[i] \in Range(v.files)
    BY <2>1 DEF Range
  <2>3. Written(v.files[i]) /\ v.files[i].slot \in DOMAIN v.mb
    BY <2>1, <2>2 DEF Agreed, Written
  <2>4. v.files[i].tags[f] = v.mb[v.files[i].slot][f]
    BY <2>2, <2>3, OwnedFields DEF Agreed
  <2>5. v.mb[v.files[i].slot][f] = v.mb[1][f]
    BY <2>3 DEF Agreed
  <2> QED BY <2>1, <2>4, <2>5
<1>2. PICK file \in Range(v.files) : file.slot = 1 /\ Written(file)
  BY DEF Agreed
<1>3. PICK i \in DOMAIN v.files : v.files[i] = file
  BY DEF Range
<1>4. i \in Audio(v) /\ v.files[i].ok /\ i \in DOMAIN readings
  BY <1>2, <1>3 DEF Audio, Readings, Written
<1> HIDE DEF readings
<1>5. OneReading(readings)
  BY <1>1 DEF OneReading
<1>6. /\ Consensus(readings) = v.mb[1][f]
      /\ FlagConsensus(readings) <=> v.mb[1][f] # None
  BY <1>1, <1>4, <1>5, OneReadingSays
<1>7. FlagConsensus(readings) = (v.mb[1][f] # None)
  BY <1>6 DEF FlagConsensus
<1> QED BY <1>4, <1>6, <1>7 DEF PanelDiffers, readings

LEMMA AgreedRows ==
  ASSUME NEW v, Agreed(v)
  PROVE  Clean(v)
<1> DEFINE places == Places(v)
<1>1. DOMAIN places \subseteq Owned
  BY ColumnsPlaced, OwnedFields DEF Places
<1> HIDE DEF places
<1>2. ASSUME NEW p \in Told(Present(v)) PROVE StatedInRow(p, places, MultiDisc(v)) = {}
  <2>1. \A f \in Owned : p.disk[f] = p.mb[f]
    BY AgreedRow
  <2>2. p.disk["track_num"] = p.mb["track_num"] /\ p.disk["disc_num"] = p.mb["disc_num"]
    BY <2>1, OwnedFields
  <2>3. Number(p.disk, MultiDisc(v)) = Number(p.mb, MultiDisc(v))
    BY <2>2 DEF Number, DiscNum
  <2> QED BY <1>1, <2>1, <2>3 DEF StatedInRow
<1>3. Extras(v) = {}
  BY DEF Extras, Agreed
<1>4. \A m \in DOMAIN v.mb : \E f \in Assigned(v) : f.slot = m /\ f.ok
  BY DEF Agreed, Assigned, Written
<1>5. RowsMatch(v, places)
  BY <1>2, <1>3, <1>4 DEF RowsMatch
<1>6. BandStates(places, Present(v)) = {}
  BY <1>1, AgreedRow DEF BandStates, CollapsedDiffers
<1>7. ~HeadingDiffers(v)
  <2>1. OnDisc(v) = Told(Present(v))
    BY DEF OnDisc, Told
  <2> QED BY <2>1, AgreedRow, OwnedFields DEF HeadingDiffers
<1>8. v.mb # <<>>
  BY DEF Agreed
<1> QED BY <1>5, <1>6, <1>7, <1>8 DEF Clean, CleanWith, places

LEMMA AgreedAdvisory ==
  ASSUME NEW v, Agreed(v), NEW accepted
  PROVE  Advisory(v, accepted)
  BY AgreedPanel, AgreedRows DEF Advisory

\* A re-tag that reaches every track leaves a page with nothing to act on, for
\* any columns, any release and whatever the files said before.
THEOREM RetagLeavesNothing == Spec => RetagSettles
<1>1. ASSUME ArtInv, FilesOK, [Next]_vars, files' # files, ~ByAnother, Extras(Compared) = {},
             \A m \in DOMAIN album.mb : \E f \in Range(files) : f.slot = m /\ Written(f)
      PROVE  Advisory(Compared', album.accepted)
  <2>1. TagFiles /\ album' = album /\ album \in Albums
    BY <1>1, WhoTags DEF ArtInv
  <2> DEFINE v == [files |-> files', mb |-> album.mb, media |-> album.media]
  <2>2. Compared' = v
    BY <2>1 DEF Compared
  <2>3. \A disc : Medium(v, disc) = Medium(album, disc)
    BY DEF Medium
  <2>4. ASSUME NEW m \in DOMAIN album.mb
        PROVE  /\ \A f \in Panel : album.mb[m][f] = album.mb[1][f]
               /\ \A f \in MediumDerived : Medium(v, DiscNum(album.mb[m]))[f] = album.mb[m][f]
               /\ \E file \in Range(files') : file.slot = m /\ Written(file)
    <3>1. /\ \A f \in Panel : album.mb[m][f] = album.mb[1][f]
          /\ \A f \in MediumDerived : Medium(album, DiscNum(album.mb[m]))[f] = album.mb[m][f]
      BY <2>1, TagsAssumption
    <3>2. PICK i \in DOMAIN files : files[i].slot = m /\ Written(files[i])
      BY <1>1 DEF Range
    <3>3. files'[i].slot = m /\ Written(files'[i]) /\ files'[i] \in Range(files')
      BY <1>1, <2>1, <3>2, TaggedFiles DEF Written, Range
    <3> QED BY <2>3, <3>1, <3>3
  <2>5. ASSUME NEW file \in Range(files')
        PROVE  /\ file.slot \in DOMAIN album.mb /\ file.slot # None
               /\ Written(file) => \A f \in Owned : file.tags[f] = album.mb[file.slot][f]
    <3>1. DOMAIN files' = DOMAIN files
      BY <2>1 DEF TagFiles, RetaggedAll
    <3>2. PICK i \in DOMAIN files : files'[i] = file
      BY <3>1 DEF Range
    <3>3. /\ file.slot = files[i].slot /\ file.ok = files[i].ok /\ file.video = files[i].video
          /\ Written(files[i]) => \A f \in Owned : file.tags[f] = album.mb[files[i].slot][f]
      BY <1>1, <2>1, <3>2, TaggedFiles
    <3>4. files[i].slot \in DOMAIN album.mb /\ files[i].slot # None
      BY <1>1, <2>1 DEF TagFiles, FilesOK, FileOK
    <3> QED BY <3>3, <3>4 DEF Written
  <2>6. 1 \in DOMAIN album.mb
    BY <2>1, TagsAssumption
  <2>7. v.files = files' /\ v.mb = album.mb
    OBVIOUS
  <2> HIDE DEF v
  <2>8. Agreed(v)
    BY <2>4, <2>5, <2>6, <2>7 DEF Agreed
  <2> QED BY <2>2, <2>8, AgreedAdvisory
<1>2. ArtInv /\ FilesOK /\ [Next]_vars =>
        [(files' # files /\ ~ByAnother /\ Extras(Compared) = {}
          /\ \A m \in DOMAIN album.mb : \E f \in Range(files) : f.slot = m /\ Written(f))
         => Advisory(Compared', album.accepted)]_vars
  BY <1>1
<1> QED BY <1>2, ArtHolds, FilesHold, PTL DEF Spec, RetagSettles
=============================================================================

---------------------------- MODULE ArtworkPlan ----------------------------
(***************************************************************************)
(* What Harmonist would write of an album's artwork, and why: the plan the  *)
(* album page, a re-tag, the Inbox and the unattended pass all read.  Pure. *)
(*                                                                          *)
(* What a plan is made from is a record:                                    *)
(*   pics      the image each track carries, or None                        *)
(*   cover     the folder cover [image, name, beside], or None: `name` is   *)
(*             the kind its file name says it is, `beside` the kinds of the *)
(*             other covers in the folder                                   *)
(*   archive   the archive's front for the release, in hand, or None        *)
(*   excluded  the owner rejected that front                                *)
(*   choices   what the owner chose for a carrier: Keep, TheArchive's front *)
(*             or one of the uploads                                        *)
(*   picks     what is in hand of each upload                               *)
(*   standIns  images the archive's front takes the place of                *)
(*   copies    the squished images, each with the one it was made from      *)
(*   policy    when a folder cover is made; `lossless` and `room`, which    *)
(*             bound how far embedding a larger image may grow the album    *)
(***************************************************************************)
EXTENDS Integers, SequencesExt, FiniteSetsExt

CONSTANTS None,
          Tracks,       \* the album's tracks, in order
          Image,        \* [image -> [size, bytes, kind, squished]]
          PlayerMax     \* PLAYER_MAX_BYTES

Track == {Tracks[n] : n \in DOMAIN Tracks}
FirstTrack(S) ==
  CHOOSE t \in S : \E n \in DOMAIN Tracks : Tracks[n] = t /\ \A m \in 1..(n - 1) : Tracks[m] \notin S
Kinds == {"jpg", "png"}   \* COVER_NAMES, the one preferred first

\* Choice, COVER and GAP
Keep == "keep"
TheArchive == "archive"
Cover == "cover"
Gap == "gap"

-----------------------------------------------------------------------------
(* Images *)

TooLarge(i) == Image[i].bytes > PlayerMax
Kind(i) == IF TooLarge(i) THEN "jpg" ELSE Image[i].kind   \* cover_name_for

\* mutant: written as it is
FitAsIs(i) == i

\* A copy of `i` a player can read: None when `i` needs none, or cannot be
\* decoded.
Squished(i) == IF TooLarge(i) THEN Image[i].squished ELSE None

\* What is written for `i`.
Fit(i) == IF Squished(i) = None THEN i ELSE Squished(i)

Beats(i, j) == /\ None \notin {Image[i].size, Image[j].size}
               /\ Image[i].size.width > Image[j].size.width
               /\ Image[i].size.height > Image[j].size.height

Best(best, i) == IF i # None /\ (best = None \/ Beats(i, best)) THEN i ELSE best

MadeFrom(i, copies) == IF i \in DOMAIN copies THEN copies[i] ELSE i
Holds(carried, wanted, copies) == carried # None /\ wanted \in {carried, MadeFrom(carried, copies)}
Settled(carried, wanted, copies) ==
  Holds(carried, wanted, copies) /\ ~(carried = wanted /\ TooLarge(wanted))

Carried(pics, cover) ==
  ({pics[t] : t \in Track} \cup (IF cover = None THEN {} ELSE {cover.image})) \ {None}
HasPerTrackArt(pics) == Cardinality({pics[t] : t \in Track} \ {None}) > 1

\* The carried images that are the front the archive has since replaced: by
\* the image itself when it was in hand, else by its size.
SameShape(i, j) == /\ Image[i].size # None /\ Image[i].size = Image[j].size
                   /\ Image[i].bytes = Image[j].bytes
Superseded(replaced, carried, copies) ==
  IF replaced = None THEN {}
  ELSE IF replaced.known THEN {i \in carried : Holds(i, replaced.image, copies)}
  ELSE {i \in carried : SameShape(i, replaced.image)}

-----------------------------------------------------------------------------
(* The lines of a plan *)

Line(at, before, after, source) ==
  [at |-> at, before |-> before, after |-> after, source |-> source,
   name |-> None, to |-> None, rename |-> FALSE]
CoverLine(before, after, source, name, to) ==
  [at |-> Cover, before |-> before, after |-> after, source |-> source,
   name |-> name, to |-> to, rename |-> FALSE]

\* The cover keeps its name where the right one is taken.
NameFor(cover, kind) == IF kind \in cover.beside THEN cover.name ELSE kind

Addition(line) == line.before = None \/ line.rename
Scoped(lines, scope) == {l \in lines : scope = "all" \/ Addition(l)}
Operation(lines) ==
  IF lines = {} THEN None ELSE IF \A l \in lines : Addition(l) THEN "addition" ELSE "replacement"

\* mutant: what is there now is not part of it
FingerprintAfter(lines, scope) ==
  {[at |-> l.at, after |-> l.after] : l \in Scoped(lines, scope)}

\* What a page or a card shows of the lines, and a press must still find.
Fingerprint(lines, scope) ==
  {[at |-> l.at, before |-> l.before, after |-> l.after, name |-> l.name,
    to |-> IF l.to = l.name THEN None ELSE l.to] : l \in Scoped(lines, scope)}

TrackLines(v, image, source) ==
  {Line(t, v.pics[t], image, source) : t \in {t \in Track : ~Settled(v.pics[t], image, v.copies)}}

NewCover(image, source) == {CoverLine(None, image, source, Kind(image), Kind(image))}
OverCover(v, image, source) ==
  IF Settled(v.cover.image, image, v.copies) THEN {}
  ELSE {CoverLine(v.cover.image, image, source, v.cover.name, NameFor(v.cover, Kind(image)))}

CoverLines(v, image, source) ==
  IF v.cover # None THEN OverCover(v, image, source)
  ELSE IF v.policy = "never" THEN {} ELSE NewCover(image, source)

-----------------------------------------------------------------------------
(* What the album's own images and the archive suggest *)

Carrying(pics) == {t \in Track : pics[t] # None}
Own(v) == IF Carrying(v.pics) = {} THEN None ELSE v.pics[FirstTrack(Carrying(v.pics))]
CoverImage(v) == IF v.cover = None THEN None ELSE v.cover.image
Offered(v) == IF v.excluded THEN None ELSE v.archive

Bytes(i) == IF i = None THEN 0 ELSE Image[i].bytes
Cheap(v, image) ==
  v.room > 0 /\ Len(Tracks) * Image[image].bytes <= v.room + MapThenSumSet(LAMBDA t : Bytes(v.pics[t]), Track)

\* An album with no cover may take a larger front on its tracks.
Embiggens(v, own, front) ==
  v.cover = None /\ own # None /\ front # None /\ Beats(front, own) /\ (v.lossless \/ Cheap(v, front))

TrackImage(v, own, front) ==
  IF Embiggens(v, own, front) THEN front
  ELSE IF own # None THEN own ELSE IF v.cover # None THEN v.cover.image ELSE front

Source(v, own, image) ==
  IF image = own THEN "album" ELSE IF image = CoverImage(v) THEN "folder" ELSE "archive"
CoverSource(v, own, image) ==
  IF image = CoverImage(v) THEN "folder" ELSE IF image = own THEN "album" ELSE "archive"

SuggestFor(v, own, forTracks, forCover) ==
  IF forTracks = None THEN {}
  ELSE TrackLines(v, forTracks, Source(v, own, forTracks))
       \cup CoverLines(v, forCover, IF forCover = forTracks THEN Source(v, own, forTracks)
                                    ELSE CoverSource(v, own, forCover))

\* Tracks that each carry their own image keep it: only the cover is made, or
\* made readable.
SuggestCover(v, front) ==
  IF v.cover = None THEN IF front = None THEN {} ELSE CoverLines(v, front, "archive")
  ELSE IF TooLarge(v.cover.image) THEN OverCover(v, v.cover.image, "folder") ELSE {}

SuggestWith(v, own, front) ==
  IF HasPerTrackArt(v.pics) THEN SuggestCover(v, front)
  ELSE SuggestFor(v, own, TrackImage(v, own, front), Best(Best(CoverImage(v), own), front))
Suggest(v) == SuggestWith(v, Own(v), Offered(v))

-----------------------------------------------------------------------------
(* What the owner chose, and what stands in for the archive's front *)

CarrierOf(image) == IF image = None THEN Gap ELSE image
LineCarrier(line) == IF line.at = Cover THEN Cover ELSE CarrierOf(line.before)
Carriers(v) == {CarrierOf(v.pics[t]) : t \in Track} \cup {Cover}

\* The image a choice names, None when nothing in hand answers it.
Named(v, choice) ==
  IF choice = TheArchive THEN v.archive ELSE IF choice \in DOMAIN v.picks THEN v.picks[choice] ELSE None

\* Choices, and others where nothing was chosen.
Over(choices, others) ==
  [c \in DOMAIN choices \cup DOMAIN others |->
     IF c \in DOMAIN choices THEN choices[c] ELSE others[c]]

Honoured(v, choices) ==
  [c \in {c \in DOMAIN choices \cap Carriers(v) :
            choices[c] = Keep \/ Named(v, choices[c]) # None} |-> choices[c]]
Taken(v, choices) ==
  [c \in {c \in DOMAIN choices : choices[c] # Keep} |-> Named(v, choices[c])]

ChosenTracks(v, taken) ==
  {Line(t, v.pics[t], taken[CarrierOf(v.pics[t])], "archive") :
     t \in {t \in Track : /\ CarrierOf(v.pics[t]) \in DOMAIN taken
                          /\ ~Settled(v.pics[t], taken[CarrierOf(v.pics[t])], v.copies)}}
ChosenCover(v, taken) ==
  IF Cover \notin DOMAIN taken THEN {}
  ELSE IF v.cover = None THEN NewCover(taken[Cover], "archive") ELSE OverCover(v, taken[Cover], "archive")

Unchosen(lines, choices, taken) ==
  {[l EXCEPT !.source = IF \E c \in DOMAIN taken : taken[c] = l.after THEN "archive" ELSE @] :
     l \in {l \in lines : LineCarrier(l) \notin DOMAIN choices}}

WithTaken(v, lines, choices, taken) ==
  Unchosen(lines, choices, taken) \cup ChosenTracks(v, taken) \cup ChosenCover(v, taken)

\* mutant: a rejected front takes the place of a stand-in
GivenWayRegardless(v, waiting) ==
  IF v.archive = None THEN <<>>
  ELSE [c \in ({v.pics[t] : t \in Track} \cap waiting)
              \cup {c \in {Cover} : CoverImage(v) \in waiting} |-> TheArchive]
GivenWay(v, waiting) ==
  IF v.archive = None \/ v.excluded THEN <<>>
  ELSE [c \in ({v.pics[t] : t \in Track} \cap waiting)
              \cup {c \in {Cover} : CoverImage(v) \in waiting} |-> TheArchive]

\* A cover whose name says it is the other kind of image is renamed, unless
\* the plan writes it or the owner keeps it.
Renaming(v, lines, choices) ==
  IF \/ v.cover = None \/ \E l \in lines : l.at = Cover
     \/ Cover \in DOMAIN choices /\ choices[Cover] = Keep
     \/ Image[v.cover.image].kind \in {v.cover.name} \cup v.cover.beside
  THEN lines
  ELSE lines \cup {[CoverLine(v.cover.image, v.cover.image, "folder", v.cover.name, Image[v.cover.image].kind)
                    EXCEPT !.rename = TRUE]}

PlanHonouring(v, choices) ==
  [lines |-> Renaming(v, WithTaken(v, Suggest(v), choices, Taken(v, choices)), choices),
   choices |-> choices]
Plan(v) == PlanHonouring(v, Honoured(v, Over(v.choices, GivenWay(v, v.standIns \ {v.archive, None}))))

-----------------------------------------------------------------------------
(* What is worth fetching from the archive *)

\* mutant: tracks are never made larger
ThresholdOfCover(pics, cover, standIns, policy, ownSize, grows) ==
  IF Carried(pics, cover) \cap standIns # {} THEN -1
  ELSE IF cover = None THEN IF policy # "never" \/ Carried(pics, cover) = {} THEN -1 ELSE None
  ELSE IF HasPerTrackArt(pics) \/ Image[cover.image].size = None THEN None
  ELSE Image[cover.image].size.width

\* The width an image must exceed to be of use: -1 when any is, None when none.
Threshold(pics, cover, standIns, policy, ownSize, grows) ==
  IF Carried(pics, cover) \cap standIns # {} THEN -1
  ELSE IF cover = None
       THEN IF policy # "never" \/ Carried(pics, cover) = {} THEN -1
            ELSE IF ~HasPerTrackArt(pics) /\ ownSize # None /\ grows THEN ownSize.width ELSE None
  ELSE IF HasPerTrackArt(pics) \/ Image[cover.image].size = None THEN None
  ELSE Image[cover.image].size.width

WorthFetching(i, threshold) ==
  threshold # None /\ (threshold < 0 \/ (Image[i].size # None /\ Image[i].size.width > threshold))
=============================================================================

----------------------------- MODULE AlbumPage -----------------------------
(***************************************************************************)
(* The page of a matched album: what it says a re-tag would write, what it  *)
(* would write of the album's artwork, and the presses and passes that      *)
(* write it while another program, the Cover Art Archive and the owner's    *)
(* other windows go on changing what both were read from.                   *)
(*                                                                          *)
(* Images go to an album through one job at a time, whose steps interleave  *)
(* with everything else.  Another program's edit of a file is also what a   *)
(* second job's write would be to it.                                       *)
(***************************************************************************)
EXTENDS TagColumns, Integers

CONSTANTS
  Tracks,      \* the album's tracks, in order
  Image,       \* [image -> [size, bytes, kind, squished]]
  PlayerMax,   \* PLAYER_MAX_BYTES
  Albums       \* the albums the page may be of: records with
               \*   files, mb, media, accepted: what its tags are compared by
               \*   pics, covers, side: its artwork and its sidecar
               \*   archive, stored, cache: what the archive lists and what is kept of it
               \*   policy, lossless, room, auto: the settings and the audio
               \*   edits: what another program may write; answers: what the archive may list
               \*   bounds: on edits by another program or the archive's editors (outside),
               \*     on presses that change something (presses), and on failed writes,
               \*     images not kept and crashes (faults)

ASSUME PlayerMaxAssumption == PlayerMax \in Nat

INSTANCE ArtworkPlan

Images == DOMAIN Image
Art == Images \cup {None}

ASSUME ImageAssumption ==
  /\ {None, Keep, TheArchive, Cover, Gap} \cap Images = {} /\ None \notin Kinds \cup Int
  /\ \A i \in Images : /\ Image[i].kind \in Kinds /\ Image[i].squished \in Art
                       /\ Image[i].size \in [width : Nat, height : Nat] \cup {None}
                       /\ Image[i].squished # None => ~TooLarge(Image[i].squished)
ASSUME AlbumsAssumption ==
  /\ Tracks \in Seq(Track) /\ Cover \notin Track
  /\ \A a \in Albums :
       /\ a.pics \in [Track -> Art] /\ a.covers \in [Kinds -> Art]
       /\ \A answer \in {a.archive, a.stored} \cup a.answers : {answer.own, answer.group} \subseteq Art
       /\ a.cache \in [front : Art, picks : SUBSET Images]
       /\ \A c \in DOMAIN a.copies : c \in Images /\ ~TooLarge(c)
       /\ \A e \in a.edits :
            /\ e.what = "pic" => e.at \in Track /\ e.to \in Art
            /\ e.what = "cover" => e.at \in Kinds /\ e.to \in Art
       /\ a.bounds \in [outside : Nat, presses : Nat, faults : Nat]

\* A file's tags and a track's; the album's own are the same on every track,
\* and a disc's are those MusicBrainz describes the disc by.
TagsOK(tags) == Owned \subseteq DOMAIN tags /\ \A f \in Flags : tags[f] \in {None, Yes}
ASSUME TagsAssumption ==
  \A a \in Albums :
    /\ 1 \in DOMAIN a.mb
    /\ \A m \in DOMAIN a.mb :
         /\ a.mb[m] # None /\ TagsOK(a.mb[m]) /\ a.mb[m]["track_num"] # None
         /\ \A f \in Panel : a.mb[m][f] = a.mb[1][f]
         /\ \A f \in MediumDerived : Medium(a, DiscNum(a.mb[m]))[f] = a.mb[m][f]
    /\ \A i \in DOMAIN a.files :
         /\ {"slot", "ok", "video", "tags"} \subseteq DOMAIN a.files[i]
         /\ a.files[i].slot \in DOMAIN a.mb \cup {None} /\ TagsOK(a.files[i].tags)
    /\ \A e \in a.edits : e.what = "tag" /\ e.field \in Flags => e.to \in {None, Yes}

VARIABLES
  album,    \* what never changes of the album
  files,    \* its files and their tags
  pics,     \* the image each track carries
  covers,   \* the folder's covers, by kind
  side,     \* the sidecar: [borrowed, watch, rejected]
  archive,  \* what the archive lists: [own, group], each a front or None
  stored,   \* the answer kept of it: [own, group, replaced]
  cache,    \* the pictures in hand: `front`, kept under the release's id,
            \* and `picks`, kept under their own
  copies,   \* the squished images on record, each with its original
  seen,     \* the last scan's reading: [pics, covers, side]
  page,     \* what an open page or Inbox card shows, or None
  pass,     \* the reading an unattended pass began from, or None
  job,      \* the images being written, or None
  held,     \* the fingerprint the album's artwork is held at, or None
  budget    \* what is left of the bounds

onDisk == <<files, pics, covers, side>>
remote == <<archive, stored, cache>>
vars == <<album, onDisk, remote, copies, seen, page, pass, job, held, budget>>

Spend(what) == budget[what] > 0 /\ budget' = [budget EXCEPT ![what] = @ - 1]

-----------------------------------------------------------------------------
(* What the plans are made from: a reading [pics, covers, side, copies] *)

FrontOf(answer) == IF answer.own # None THEN answer.own ELSE answer.group
FrontsIn(answer) == {answer.own, answer.group} \ {None}
Fronts(answer) ==
  (IF answer.own = None THEN <<>> ELSE <<answer.own>>)
  \o (IF answer.group = None THEN <<>> ELSE <<answer.group>>)

\* The uploads in hand, and what is in hand of each: what is kept under the
\* release's id stands for the front the answer names.
Originals(kept) ==
  [i \in kept.picks \cup {i \in {FrontOf(stored)} : None \notin {i, kept.front}} |->
     IF i \in kept.picks THEN i ELSE kept.front]

FolderCover(kinds) ==
  IF kinds["jpg"] # None
  THEN [image |-> kinds["jpg"], name |-> "jpg", beside |-> {k \in {"png"} : kinds[k] # None}]
  ELSE IF kinds["png"] # None THEN [image |-> kinds["png"], name |-> "png", beside |-> {}] ELSE None

ReadAs(sc) == [pics |-> pics, covers |-> covers, side |-> sc, copies |-> copies]
Scanned(snapshot) == [snapshot EXCEPT !.copies = copies]   \* the copies on record are asked each time
Reading == ReadAs(side)
CarriedBy(reading) == Carried(reading.pics, FolderCover(reading.covers))
CarriedOrMade(reading) == CarriedBy(reading) \cup {MadeFrom(c, reading.copies) : c \in CarriedBy(reading)}

\* The archive's front is one the owner rejected.
Excluded(sc, kept) ==
  kept.front # None /\ \E i \in sc.rejected \cap FrontsIn(stored) :
                         i \in DOMAIN Originals(kept) /\ Originals(kept)[i] = kept.front

ReplacedBy(reading, answer) == Superseded(answer.replaced, CarriedBy(reading), reading.copies)
StandIns(reading) ==
  (IF stored.own # None THEN reading.side.borrowed ELSE {}) \cup ReplacedBy(reading, stored)

\* The fronts in hand a watched album does not carry yet and its owner has not
\* rejected.
Unmet(reading) ==
  {i \in FrontsIn(stored) \cap (DOMAIN Originals(cache) \ reading.side.rejected) :
     Originals(cache)[i] \notin CarriedOrMade(reading)}
ForEverything(reading, image) ==
  [c \in (IF HasPerTrackArt(reading.pics) THEN {} ELSE {CarrierOf(reading.pics[t]) : t \in Track})
         \cup {c \in {Cover} : FolderCover(reading.covers) # None \/ album.policy # "never"} |-> image]
ProposalOf(reading, offered) ==
  IF offered = {} THEN <<>>
  ELSE ForEverything(reading, IF stored.own \in offered THEN stored.own ELSE stored.group)
Proposal(reading) ==
  IF reading.side.watch THEN ProposalOf(reading, Unmet(reading)) ELSE <<>>

Inputs(reading, choices, standIns, kept) ==
  [pics |-> reading.pics, cover |-> FolderCover(reading.covers), archive |-> kept.front,
   excluded |-> Excluded(reading.side, kept), choices |-> choices, standIns |-> standIns,
   picks |-> Originals(kept),
   copies |-> reading.copies, policy |-> album.policy, lossless |-> album.lossless, room |-> album.room]

\* The plan the page, the Inbox and the unattended pass read; a re-tag's is
\* made from what the page sent it alone.
Artwork(reading, choices) == Plan(Inputs(reading, Over(choices, Proposal(reading)), StandIns(reading), cache))
DecideArtwork(choices, kept) == Plan(Inputs(Reading, choices, {}, kept))
Suggested(reading) == Artwork(reading, <<>>).lines

-----------------------------------------------------------------------------
(* The images in hand after a check of the archive *)

WidthWanted(reading, standIns) ==
  Threshold(reading.pics, FolderCover(reading.covers), standIns, album.policy,
            IF Own(reading) = None THEN None ELSE Image[Own(reading)].size,
            album.lossless \/ album.room > 0)
GivesWay(reading, answer) == reading.side.borrowed \cup ReplacedBy(reading, answer)

\* The uploads fetched for a watch, as far as the first the album lacks.
Prepared(reading, answer) ==
  IF ~reading.side.watch THEN cache.picks
  ELSE LET fronts == Fronts(answer)
           passedOver == reading.side.rejected \cup CarriedOrMade(reading)
       IN cache.picks \cup {fronts[n] : n \in {n \in DOMAIN fronts :
            fronts[n] \notin reading.side.rejected /\ \A k \in 1..(n - 1) : fronts[k] \in passedOver}}

\* The answer, carrying the front it replaced.
WithReplaced ==
  [own |-> archive.own, group |-> archive.group,
   replaced |-> IF FrontOf(stored) \in {None, FrontOf(archive)} THEN stored.replaced
                ELSE [image |-> IF cache.front = None THEN FrontOf(stored) ELSE cache.front,
                      known |-> cache.front # None]]

\* The archive is asked, for a reading whose plan wants images wider than one
\* of `widths`.  A changed answer retires what was in hand of the old one.
SameListing == FrontOf(archive) = FrontOf(stored) /\ (archive.own = None) = (stored.own = None)
KeptFront(widths) ==
  IF FrontOf(archive) = None THEN None
  ELSE IF SameListing /\ cache.front # None THEN cache.front
  ELSE IF \E w \in widths : WorthFetching(FrontOf(archive), w) THEN FrontOf(archive) ELSE None

Asked(reading, widths) ==
  /\ stored' = WithReplaced
  /\ cache' = [front |-> KeptFront(widths), picks |-> Prepared(reading, stored')]

\* The background check asks for what the last scan read, and again for what
\* the answer says has been replaced.
Sweep ==
  /\ Asked(Scanned(seen), {WidthWanted(Scanned(seen), GivesWay(Scanned(seen), answer)) :
                             answer \in {stored, stored'}})
  /\ <<stored, cache>>' # <<stored, cache>>
  /\ UNCHANGED <<album, onDisk, archive, copies, seen, page, pass, job, held, budget>>

\* The page's check asks for what the files carry and the sidecar says stands
\* in.  A stand-in that turns out to be the release's own front is none.
Settling(borrowed) ==
  {i \in borrowed : stored'.own = None \/ cache'.front # MadeFrom(i, copies)}
CheckCoverArt ==
  /\ page # None /\ ~page.card /\ page' = None
  /\ Asked(Reading, {WidthWanted(Reading, side.borrowed)})
  /\ side' = [side EXCEPT !.borrowed = Settling(@)] /\ seen' = ReadAs(side')
  /\ <<stored, cache, side>>' # <<stored, cache, side>>
  /\ UNCHANGED <<album, files, pics, covers, archive, copies, pass, job, held, budget>>

-----------------------------------------------------------------------------
(* Reading the album *)

Scan == /\ Scanned(seen) # Reading /\ seen' = Reading
        /\ UNCHANGED <<album, onDisk, remote, copies, page, pass, job, held, budget>>

Shows(plan, card) == [use |-> plan.choices, lines |-> plan.lines, card |-> card]

OpenPage ==
  /\ page = None /\ budget.presses > 0
  /\ page' = Shows(Artwork(Reading, <<>>), FALSE) /\ seen' = Reading
  /\ UNCHANGED <<album, onDisk, remote, copies, pass, job, held, budget>>

\* The Inbox draws its card from the last scan.
OpenCard ==
  /\ page = None /\ budget.presses > 0 /\ Suggested(Scanned(seen)) # {}
  /\ page' = Shows([Artwork(Scanned(seen), <<>>) EXCEPT !.choices = <<>>], TRUE)
  /\ UNCHANGED <<album, onDisk, remote, copies, seen, pass, job, held, budget>>

\* The owner picks an upload, the archive's front or what is there for one row.
Choose(carrier, choice) ==
  /\ page # None /\ ~page.card /\ Spend("presses")
  /\ cache' = [cache EXCEPT !.picks = @ \cup ({choice} \cap FrontsIn(stored))]
  /\ page' = Shows(Artwork(Reading, Over([c \in {carrier} |-> choice], page.use)), FALSE)
  /\ UNCHANGED <<album, onDisk, archive, stored, copies, seen, pass, job, held>>

\* The owner watches for better artwork, or stops; the section is drawn again.
Watch ==
  /\ page # None /\ ~page.card /\ Spend("presses")
  /\ side' = [side EXCEPT !.watch = ~@] /\ page' = None
  /\ seen' = ReadAs(side') /\ cache' = [cache EXCEPT !.picks = Prepared(ReadAs(side'), stored)]
  /\ UNCHANGED <<album, files, pics, covers, archive, stored, copies, pass, job, held>>

\* The owner stops or resumes suggesting an upload.
Suggestion(image) ==
  /\ page # None /\ ~page.card /\ Spend("presses")
  /\ side' = [side EXCEPT !.rejected = IF image \in @ THEN @ \ {image} ELSE @ \cup {image}]
  /\ page' = None /\ seen' = ReadAs(side') /\ cache' = [cache EXCEPT !.picks = Prepared(ReadAs(side'), stored)]
  /\ UNCHANGED <<album, files, pics, covers, archive, stored, copies, pass, job, held>>

-----------------------------------------------------------------------------
(* Starting to write images *)

\* A job: the lines left, what its images are read from, the sidecar it read,
\* and, `shown`, the lines whoever started it was shown.
Begin(by, plan, lines, shown, sc, key) ==
  job' = [by |-> by, left |-> lines, shown |-> shown, choices |-> plan.choices, side |-> sc, key |-> key,
          pics |-> pics, cover |-> FolderCover(covers),
          stage |-> "load", kept |-> {}, wrote |-> {}, missed |-> FALSE]

\* The primary button: the artwork the page shows, and nothing if any of it moved.
ApplyUpdates ==
  /\ page # None /\ ~page.card /\ page.lines # {} /\ job = None /\ Spend("presses")
  /\ seen' = Reading
  /\ LET fresh == Artwork(Reading, page.use) IN
       IF Fingerprint(fresh.lines, "all") = Fingerprint(page.lines, "all")
       THEN Begin("page", fresh, fresh.lines, page.lines, side, None) /\ page' = None
       ELSE page' = Shows(Artwork(Reading, <<>>), FALSE) /\ job' = None
  /\ UNCHANGED <<album, onDisk, remote, copies, pass, held>>

\* An Inbox card's, written by a pass over the selected albums, which no other
\* pass runs beside.
ApplyChosen ==
  /\ page # None /\ page.card /\ job = None /\ pass = None /\ Spend("presses")
  /\ LET fresh == Artwork(ReadAs(seen.side), <<>>) IN
       IF fresh.lines # {} /\ Fingerprint(fresh.lines, "all") = Fingerprint(page.lines, "all")
       THEN Begin("card", fresh, fresh.lines, page.lines, seen.side, None)
       ELSE job' = None
  /\ page' = None
  /\ UNCHANGED <<album, onDisk, remote, copies, seen, pass, held>>

\* Re-tag from MusicBrainz: every tag, then the artwork the page showed, all
\* of it or what only adds, or none.  An album without a cover has the
\* archive's front fetched for it.
FrontImage ==
  IF FolderCover(covers) # None \/ cache.front # None THEN cache
  ELSE [cache EXCEPT !.front = FrontOf(archive)]
TagFiles ==
  /\ page # None /\ ~page.card /\ job = None /\ Spend("presses")
  /\ \A i \in DOMAIN files : files[i].slot # None
  /\ files' = RetaggedAll([files |-> files, mb |-> album.mb, media |-> album.media])
  /\ page' = None
  /\ UNCHANGED <<album, pics, covers, side, archive, stored, copies, seen, pass, held>>

Retag(scope) ==
  /\ TagFiles /\ cache' = FrontImage
  /\ LET decided == DecideArtwork(IF scope = "all" THEN page.use ELSE <<>>, FrontImage) IN
       IF Fingerprint(decided.lines, scope) = Fingerprint(page.lines, scope)
       THEN Begin("retag", decided, Scoped(decided.lines, scope), Scoped(page.lines, scope), side, None)
       ELSE job' = None
RetagOnly == TagFiles /\ UNCHANGED <<cache, job>>

Held == held # None /\ held = Fingerprint(Suggested(Scanned(seen)), "all")
Due == album.auto /\ ~seen.side.watch /\ Operation(Suggested(Scanned(seen))) = "addition" /\ ~Held

ByPass == job # None /\ job.by = "auto"
Passing == pass # None \/ (job # None /\ job.by \in {"auto", "card"})   \* _pass_lock
PassStart ==
  /\ ~Passing /\ Due /\ pass' = seen
  /\ UNCHANGED <<album, onDisk, remote, copies, seen, page, job, held, budget>>

\* The album's turn: its files are read again, its sidecar and its watch are
\* the pass's, which `Due` has judged.
PassTurn(plan, key) ==
  \/ /\ plan.lines = {} /\ held' = None /\ seen' = Reading /\ UNCHANGED job
  \/ /\ plan.lines # {} /\ Operation(plan.lines) = "replacement"
     /\ held' = key /\ seen' = Reading /\ UNCHANGED job
  \/ /\ plan.lines # {} /\ Operation(plan.lines) = "addition"
     /\ Begin("auto", plan, Scoped(plan.lines, "additions"), plan.lines, pass.side, key)
     /\ UNCHANGED <<held, seen>>
PassTurns ==
  /\ pass # None /\ job = None /\ pass' = None
  /\ PassTurn(Artwork(ReadAs(pass.side), <<>>), Fingerprint(Suggested(Scanned(pass)), "all"))
  /\ UNCHANGED <<album, onDisk, remote, copies, page, budget>>

-----------------------------------------------------------------------------
(* Writing them *)

FirstWith(image) == FirstTrack({t \in Track : job.pics[t] = image})
SourceHolds(line) ==
  \/ line.rename
  \/ line.source = "folder" /\ covers[job.cover.name] = line.after
  \/ line.source = "album" /\ pics[FirstWith(line.after)] = line.after
  \/ /\ line.source = "archive"
     /\ \/ job.by = "retag" \/ line.after = cache.front
        \/ \E c \in Range(job.choices) \cap DOMAIN Originals(cache) : Originals(cache)[c] = line.after

At(line) == IF line.at = Cover THEN IF line.name = None THEN None ELSE covers[line.name] ELSE pics[line.at]
Doomed == {l.before : l \in {l \in job.left : ~l.rename /\ At(l) = l.before}} \ {None}

JobStep == UNCHANGED <<album, files, side, remote, copies, seen, page, pass, held>>

Load ==
  /\ job # None /\ job.stage = "load" /\ JobStep
  /\ IF \A l \in job.left : SourceHolds(l)
     THEN job' = [job EXCEPT !.stage = "write", !.kept = Doomed]
     ELSE job' = [job EXCEPT !.stage = "write", !.left = {}, !.missed = TRUE]
  /\ UNCHANGED <<pics, covers, budget>>

\* None of the images about to be overwritten could be kept for an undo.
LoadUnkept ==
  /\ job # None /\ job.stage = "load" /\ JobStep /\ Spend("faults")
  /\ \A l \in job.left : SourceHolds(l)
  /\ job' = [job EXCEPT !.stage = "write"]
  /\ UNCHANGED <<pics, covers>>

TracksLeft == {l.at : l \in job.left} \cap Track
NextLine == CHOOSE l \in job.left : TracksLeft # {} => l.at = FirstTrack(TracksLeft)

Writing == job # None /\ job.stage = "write" /\ job.left # {} /\ JobStep
Wrote(line) ==
  job' = [job EXCEPT !.left = @ \ {line}, !.wrote = @ \cup (IF line.rename THEN {} ELSE {line.after})]
Missed(line) == job' = [job EXCEPT !.left = @ \ {line}, !.missed = TRUE]

Keepable(line) == line.before \in job.kept \cup {None}
\* mutant: what is on the track is not looked at again
WriteTrackUnchecked(line) ==
  /\ Writing /\ line.at # Cover
  /\ pics' = [pics EXCEPT ![line.at] = Fit(line.after)] /\ Wrote(line)
  /\ UNCHANGED <<covers, budget>>
WriteTrack(line) ==
  /\ Writing /\ line.at # Cover
  /\ IF pics[line.at] = line.before /\ Keepable(line)
     THEN pics' = [pics EXCEPT ![line.at] = Fit(line.after)] /\ Wrote(line)
     ELSE UNCHANGED pics /\ Missed(line)
  /\ UNCHANGED <<covers, budget>>

\* A new cover goes to a folder that still has none; an old one must still be
\* there, and the name it takes must be free.
CoverFree(line) ==
  IF line.before = None THEN \A k \in DOMAIN covers : covers[k] = None
  ELSE /\ covers[line.name] = line.before /\ (line.rename \/ Keepable(line))
       /\ line.to = line.name \/ covers[line.to] = None
PutCover(line, kinds) ==
  [k \in DOMAIN kinds |-> IF k = line.to THEN IF line.rename THEN line.after ELSE Fit(line.after)
                          ELSE IF k = line.name THEN None ELSE kinds[k]]
WriteCover(line) ==
  /\ Writing /\ line.at = Cover
  /\ IF CoverFree(line)
     THEN covers' = PutCover(line, covers) /\ Wrote(line)
     ELSE UNCHANGED covers /\ Missed(line)
  /\ UNCHANGED <<pics, budget>>

WriteFails(line) == Writing /\ Spend("faults") /\ Missed(line) /\ UNCHANGED <<pics, covers>>

-----------------------------------------------------------------------------
(* What a job leaves behind *)

\* What was written of images that had to be squished, with their originals.
Recorded(wrote, made) ==
  LET squished == {Fit(i) : i \in {i \in wrote : Fit(i) # i}}
  IN [c \in squished \cup DOMAIN made |->
        IF c \in squished THEN CHOOSE i \in wrote : Fit(i) = c ELSE made[c]]

Borrowable == {Originals(cache)[i] : i \in {stored.group} \cap DOMAIN Originals(cache)}
StandInsAfter(recorded, wrote, carried, made) ==
  IF wrote = {} THEN recorded
  ELSE (recorded \cap carried)
       \cup (IF stored.own # None THEN {} ELSE {c \in wrote : MadeFrom(c, made) \in Borrowable})
SideAfter(base, wrote, ends, carried, made) ==
  [base EXCEPT !.borrowed = StandInsAfter(@, wrote, carried, made), !.watch = @ /\ ~ends]

\* The sidecar is read again; a watch ends when all that was planned is
\* written, for a job other than a re-tag if it began under one.
EndsWatch == job.wrote # {} /\ ~job.missed /\ (job.by = "retag" \/ job.side.watch)
FinishWith(made) ==
  /\ copies' = made
  /\ side' = SideAfter(side, {Fit(i) : i \in job.wrote}, EndsWatch, CarriedBy(Reading), made)
  /\ seen' = [ReadAs(side') EXCEPT !.copies = made]
Finish ==
  /\ job # None /\ job.stage = "write" /\ job.left = {}
  /\ FinishWith(Recorded(job.wrote, copies))
  /\ held' = IF job.by # "auto" THEN held ELSE IF job.missed THEN job.key ELSE None
  /\ job' = None
  /\ UNCHANGED <<album, files, pics, covers, remote, page, pass, budget>>

\* Held artwork, the pass and the job are in memory; the squished images are
\* put on record when a job ends.
Crash ==
  /\ {job, pass} # {None} /\ Spend("faults")
  /\ job' = None /\ pass' = None /\ held' = None /\ seen' = Reading
  /\ UNCHANGED <<album, onDisk, remote, copies, page>>

-----------------------------------------------------------------------------
(* Everybody else *)

\* Another program writes a tag, an image or a cover.
Outside(edit) ==
  /\ Spend("outside")
  /\ \/ edit.what = "tag" /\ files' = [files EXCEPT ![edit.at].tags[edit.field] = edit.to]
        /\ UNCHANGED <<pics, covers>>
     \/ edit.what = "pic" /\ pics' = [pics EXCEPT ![edit.at] = edit.to] /\ UNCHANGED <<files, covers>>
     \/ edit.what = "cover" /\ covers' = [covers EXCEPT ![edit.at] = edit.to] /\ UNCHANGED <<files, pics>>
  /\ <<files, pics, covers>>' # <<files, pics, covers>>
  /\ UNCHANGED <<album, side, remote, copies, seen, page, pass, job, held>>

ArchiveChanges ==
  /\ Spend("outside") /\ archive' \in album.answers \ {archive}
  /\ UNCHANGED <<album, onDisk, stored, cache, copies, seen, page, pass, job, held>>

\* An image is retired to keep the pictures of every album under their cap.
Evict ==
  /\ Spend("faults")
  /\ \/ cache.front # None /\ cache' = [cache EXCEPT !.front = None]
     \/ \E i \in cache.picks : cache' = [cache EXCEPT !.picks = @ \ {i}]
  /\ UNCHANGED <<album, onDisk, archive, stored, copies, seen, page, pass, job, held>>

-----------------------------------------------------------------------------

Init ==
  /\ album \in Albums
  /\ files = album.files /\ pics = album.pics /\ covers = album.covers /\ side = album.side
  /\ archive = album.archive /\ stored = album.stored /\ cache = album.cache
  /\ copies = album.copies /\ seen = [ReadAs(side) EXCEPT !.copies = album.copies]
  /\ page = None /\ pass = None /\ job = None /\ held = None
  /\ budget = album.bounds

Presses ==
  \/ OpenPage \/ OpenCard \/ Watch \/ ApplyUpdates \/ ApplyChosen \/ RetagOnly
  \/ \E carrier \in Carriers(Inputs(Reading, <<>>, {}, cache)),
        choice \in {Keep, TheArchive} \cup FrontsIn(stored) : Choose(carrier, choice)
  \/ \E image \in FrontsIn(stored) : Suggestion(image)
  \/ \E scope \in {"all", "additions"} : Retag(scope)

JobSteps == Load \/ (job # None /\ job.left # {} /\ (WriteTrack(NextLine) \/ WriteCover(NextLine))) \/ Finish
Faults == LoadUnkept \/ (job # None /\ job.left # {} /\ WriteFails(NextLine)) \/ Crash
World == (\E edit \in album.edits : Outside(edit)) \/ ArchiveChanges \/ Evict

Next == Presses \/ Sweep \/ CheckCoverArt \/ Scan \/ PassStart \/ PassTurns \/ JobSteps \/ Faults \/ World

Spec == Init /\ [][Next]_vars

-----------------------------------------------------------------------------
(* Properties *)

Compared == [files |-> files, mb |-> album.mb, media |-> album.media]
ByAnother == budget'.outside # budget.outside

\* The tags a re-tag would change in the file.
Changed(file) ==
  IF ~Written(file) THEN {} ELSE {f \in Owned : file.tags[f] # album.mb[file.slot][f]}

\* What the page says of the change to `field` in file `p`'s tags.
Says(field, p, places, v) ==
  CASE PlaceOf(field, places) = "heading"   -> p.disk[field] # Medium(v, p.disc)[field]
    [] PlaceOf(field, places) = "absorbed"  -> p.disk[SubsumedBy[field]] # p.mb[SubsumedBy[field]]
    [] PlaceOf(field, places) = "rider"     -> \/ field \in StatedInRow(p, places, MultiDisc(v))
                                               \/ p.disk[SubsumedBy[field]] # p.mb[SubsumedBy[field]]
    [] PlaceOf(field, places) = "collapsed" -> field \in BandStates(places, Present(v))
    [] OTHER -> field \in StatedInRow(p, places, MultiDisc(v))
InPanel(field, v) ==
  /\ field \in Panel
  /\ PanelDiffers(v, field, album.accepted) \/ ~OneReading(Readings(v, field))

\* What the page leaves unsaid on purpose, or because a disc's own tags
\* differ from track to track: see the README.
LeftUnsaid(field, file, places, v) ==
  \/ field = "country" /\ file.tags[field] \in album.accepted
  \/ field = "disc_num" /\ DiscNum(file.tags) = DiscNum(album.mb[file.slot])
  \/ MultiDisc(v) /\ field \in MediumDerived /\ PlaceOf(field, places) = "collapsed"

StatesAll(v, places) ==
  \A file \in Range(v.files) : \A field \in Changed(file) :
    \/ InPanel(field, v) \/ LeftUnsaid(field, file, places, v)
    \/ Says(field, [disc |-> DiscNum(v.mb[file.slot]), disk |-> file.tags, mb |-> v.mb[file.slot]], places, v)

\* Whatever a re-tag would change in a file, the page says so: in a column, on
\* a line under the row, in the band, in a heading or in the panel.  A field
\* only has one place, chosen from every track at once, so a change in one
\* file can move where another file's is stated.
NothingHidden ==
  (\E file \in Range(files) : Changed(file) # {}) => StatesAll(Compared, Places(Compared))

\* A re-tag of files that are all matched and readable leaves a page with
\* nothing to act on: every place the page states a change in agrees with
\* what was written.
RetagSettles ==
  [][(files' # files /\ ~ByAnother /\ Extras(Compared) = {}
      /\ \A m \in DOMAIN album.mb : \E f \in Range(files) : f.slot = m /\ Written(f))
     => Advisory(Compared', album.accepted)]_vars

-----------------------------------------------------------------------------

LineAt(lines, at) == CHOOSE l \in lines : l.at = at
AfterLines(reading, lines) ==
  [reading EXCEPT
     !.pics = [t \in Track |-> IF \E l \in lines : l.at = t THEN Fit(LineAt(lines, t).after) ELSE @[t]],
     !.covers = IF \E l \in lines : l.at = Cover THEN PutCover(LineAt(lines, Cover), @) ELSE @,
     !.copies = Recorded({l.after : l \in {l \in lines : ~l.rename}}, @)]
WithSide(after, wrote) ==
  [after EXCEPT !.side = SideAfter(@, wrote, wrote # {}, CarriedBy(after), after.copies)]
Applied(reading, lines) ==
  WithSide(AfterLines(reading, lines), {Fit(l.after) : l \in {l \in lines : ~l.rename}})
AppliedAll(reading) == Applied(reading, Suggested(reading))

\* Applying what is suggested, undisturbed, is over in three goes: an image
\* written is not for ever suggested against.  (The first may spread an image
\* the archive's front stands in for, and the second set it against the front.)
ArtSettles ==
  Suggested(Reading) # {} => Suggested(AppliedAll(AppliedAll(AppliedAll(Reading)))) = {}

\* A front the check of the archive leaves unfetched would have changed no
\* line of the plan had it been fetched.
NothingWorthFetching ==
  (/\ FrontOf(stored) # None /\ cache.front = None
   /\ ~WorthFetching(FrontOf(stored), WidthWanted(Reading, GivesWay(Reading, stored))))
  => Suggested(Reading) = Plan([Inputs(Reading, Proposal(Reading), StandIns(Reading), cache)
                                EXCEPT !.archive = FrontOf(stored)]).lines

\* The page, the Inbox and the pass never suggest a front from the archive its
\* owner rejected, whichever way it came to be in hand, as long as the archive
\* was asked since it changed: a re-tag takes a front from it unasked.
RejectedStaysOut ==
  cache.front \in {None, FrontOf(stored)} =>
    \A l \in Suggested(Reading) : l.source = "archive" => l.after \notin side.rejected

\* Every image a job writes is the one whoever pressed was shown, over the
\* image they were shown, or over nothing where they were shown nothing.
AsPreviewed ==
  [][(job # None /\ ~ByAnother) =>
       /\ \A t \in Track : pics'[t] # pics[t] =>
            \E l \in job.shown : l.at = t /\ l.before = pics[t] /\ Fit(l.after) = pics'[t]
       /\ covers' # covers =>
            \E l \in job.shown :
              /\ l.at = Cover /\ covers' = PutCover(l, covers)
              /\ IF l.before = None THEN \A k \in Kinds : covers[k] = None
                 ELSE covers[l.name] = l.before]_vars

\* The unattended pass only ever adds: no image on a track or in the folder
\* is lost to it, whatever was put there since it read the album.
UnattendedOnlyAdds ==
  [][(ByPass /\ ~ByAnother) =>
       /\ \A t \in Track : pics[t] \in {None, pics'[t]}
       /\ \A k \in Kinds : covers[k] # None => \E j \in Kinds : covers'[j] = covers[k]]_vars
=============================================================================

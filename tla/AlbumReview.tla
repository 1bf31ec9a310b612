----------------------------- MODULE AlbumReview -----------------------------
(***************************************************************************)
(* One album from a lookup to its tags: MusicBrainz proposes a release, the *)
(* user reviews which file is which track, and the files are tagged -- by   *)
(* the reviewed draft, by a re-tag nobody reviewed, or by an automatic      *)
(* match.  Between any two of these MusicBrainz can edit or merge the       *)
(* release and another program can rename or re-tag the files, so the page  *)
(* holds fingerprints of what it showed.  A folder that no release has yet  *)
(* claimed can fill a disc the album lacks.  Files and tracks are the       *)
(* records of TrackPairing; a file also has `file`, its audio, which no     *)
(* tagging changes.                                                         *)
(***************************************************************************)
EXTENDS TrackPairing

CONSTANTS Ids,         \* release ids
          Worlds,      \* what MusicBrainz may answer: a release for each id
          Folders,     \* the folders, in path order; the first is the album's
          Starts,      \* [on, side]: files and sidecar to start from
          Linked,      \* the releases the album's store URL leads to
          Elsewhere,   \* the tags another program may write over a file's
          MaxEdits,    \* bound: MusicBrainz edits and outside edits together
          MaxMoves,    \* bound: moves within one review
          MaxWrites    \* bound: taggings

IsSequence(s) == s \in Seq(Range(s))

\* A release MusicBrainz answers: a track is on a disc, its id is no other
\* track's of it, and a disc has one pregap at most.
IsRelease(rel) ==
  /\ rel.id \in Ids /\ IsSequence(rel.tracks)
  /\ \A m \in DOMAIN rel.tracks : rel.tracks[m].disc \in Nat
  /\ \A m, n \in DOMAIN rel.tracks :
       rel.tracks[m].rtid = rel.tracks[n].rtid => m = n \/ rel.tracks[m].rtid = None
  /\ \A d \in Discs(rel) : \A m, n \in OnDisc(rel, d) :
       rel.tracks[m].num = 0 /\ rel.tracks[n].num = 0 => m = n

\* The folders as they may be found: every file its own audio.
AreFolders(v) ==
  /\ DOMAIN v = Range(Folders)
  /\ \A f \in DOMAIN v :
       /\ IsSequence(v[f])
       /\ \A i \in DOMAIN v[f] : {"file", "ok", "len", "rtid", "rec", "album"} \subseteq DOMAIN v[f][i]
       /\ \A g \in DOMAIN v : \A i \in DOMAIN v[f], j \in DOMAIN v[g] :
            v[f][i].file = v[g][j].file => f = g /\ i = j

ASSUME ReviewAssumption ==
  /\ \A w \in Worlds : DOMAIN w = Ids /\ \A r \in Ids : IsRelease(w[r])
  /\ IsSequence(Folders) /\ Folders # << >>
  /\ \A s \in Starts : AreFolders(s.on) /\ {s.side.release, s.side.candidate} \subseteq Ids \cup {None}
  /\ Linked \subseteq Ids
  /\ \A t \in Elsewhere : DOMAIN t \cap {"file", "ok"} = {}
  /\ None \notin Ids
  /\ {MaxEdits, MaxMoves, MaxWrites} \subseteq Nat

VARIABLES on,       \* [folder -> its files, in path order]
          mine,     \* the album's folders
          mb,       \* what MusicBrainz answers now
          stored,   \* [id -> what it answered last, or None]
          side,     \* the album's sidecar: [release, candidate, pregaps]
          page,     \* the open review, or Closed
          wrote,    \* the last tagging, for the properties
          edits

vars == <<on, mine, mb, stored, side, page, wrote, edits>>

FilesOf(folders) == FlattenSeq([k \in DOMAIN Folders |->
                      IF Folders[k] \in folders THEN on[Folders[k]] ELSE << >>])
Files == FilesOf(mine)

Ask(id) == mb[id]
Keep(rel) == stored' = [stored EXCEPT ![rel.id] = rel]
Cached(id) == IF stored[id] = None THEN Ask(id) ELSE stored[id]

\* The release a review is of: a suggestion first, else the confirmed one.
Target == IF side.candidate # None THEN side.candidate ELSE side.release

-----------------------------------------------------------------------------
(* The review: rows of a file and a track, either of them a gap *)

Closed == [target |-> None, rel |-> None, files |-> << >>, fill |-> << >>,
           disk |-> << >>, tracks |-> << >>, ticks |-> {}, moves |-> 0]

\* Folders no release has claimed.
Unclaimed == {f \in Range(Folders) \ mine : \A i \in DOMAIN on[f] : Read(on[f][i]).album = None}

\* fill: [disc -> folder].  Its files take the disc's tracks in file order.
Filled(files, rel, fill) ==
  LET index(x) == CHOOSE i \in DOMAIN files : files[i] = x
      slots(d) == InOrder(OnDisc(rel, d) \cap Taggable(rel))
      part(d) == {<<index(on[fill[d]][j]), slots(d)[j]>> :
                    j \in DOMAIN on[fill[d]] \cap DOMAIN slots(d)}
      all == UNION {part(d) : d \in DOMAIN fill}
  IN [i \in {p[1] : p \in all} |-> CHOOSE m \in DOMAIN rel.tracks : <<i, m>> \in all]

\* The pairing a review starts from: the filled discs, then the rest.
RestSlots(files, rel, confirmed, open) ==
  IF confirmed THEN Proposal(files, rel, Range(open))
  ELSE LET guess == Assign(files, [k \in DOMAIN open |-> rel.tracks[open[k]]])
       IN [k \in DOMAIN files |-> IF guess[k] = None THEN None ELSE open[guess[k]]]
Beside(filled, rest, slots) ==
  Over(filled, [i \in Range(rest) |-> slots[CHOOSE k \in DOMAIN rest : rest[k] = i]])
Around(filled, files, rel, confirmed) ==
  LET rest == InOrder(DOMAIN files \ DOMAIN filled)
      eligible == IF confirmed THEN Taggable(rel) ELSE DOMAIN rel.tracks
      open == InOrder(eligible \ Range(filled))
  IN Beside(filled, rest, RestSlots([k \in DOMAIN rest |-> files[rest[k]]], rel, confirmed, open))
Proposed(files, rel, confirmed, fill) == Around(Filled(files, rel, fill), files, rel, confirmed)

Rows(files, rel, slots) ==
  LET over == InOrder({i \in DOMAIN files : slots[i] = None})
      holder(m) == LET h == {i \in DOMAIN files : slots[i] = m}
                   IN IF h = {} THEN None ELSE CHOOSE i \in h : TRUE
  IN [disk |-> [m \in DOMAIN rel.tracks |-> holder(m)] \o over,
      tracks |-> [m \in DOMAIN rel.tracks |-> m] \o [k \in DOMAIN over |-> None]]

\* The draft's mapping of files to tracks.
Mapping(p) ==
  [i \in DOMAIN p.files |-> p.tracks[CHOOSE k \in DOMAIN p.disk : p.disk[k] = i]]

Drawn(target, rel, fill, files, rows) ==
  [Closed EXCEPT !.target = target, !.rel = rel, !.files = files, !.fill = fill,
     !.disk = rows.disk, !.tracks = rows.tracks,
     !.ticks = {d.pregap : d \in {d \in side.pregaps : d.release = rel.id}}]
Paired(target, rel, fill, files) ==
  Drawn(target, rel, fill, files,
        Rows(files, rel, Proposed(files, rel, side.release = target, fill)))
Panel(target, rel, fill) == Paired(target, rel, fill, ReadAll(FilesOf(mine \cup Range(fill))))

\* What a first look fills in by itself.
AutoFill(p) ==
  Automatic(p.rel, MissingDiscs(p.rel, Mapping(p)), [f \in Unclaimed |-> on[f]])

CurrentRelease(p) ==
  /\ \A d \in DOMAIN p.fill : p.fill[d] \in Unclaimed
  /\ stored[p.rel.id] = p.rel

\* The files and the release are still the ones the page showed.
Current(p) ==
  /\ \A d \in DOMAIN p.fill : p.fill[d] \in Unclaimed
  /\ FilesOf(mine \cup Range(p.fill)) = p.files
  /\ stored[p.rel.id] = p.rel

\* The pregaps a review of these files may tick, as the draft pairs them.
OffersOf(p, files, rel, confirmed) ==
  IF ~confirmed THEN {}
  ELSE {o \in Offers(files, rel) : /\ Mapping(p)[o.file] = o.first
                                  /\ o.gap \notin Range(Mapping(p))}
GapIds(rel, offers) == {rel.tracks[o.gap].rtid : o \in offers}

AllReadable(files) == \A i \in DOMAIN files : files[i].ok

OpenReview ==
  /\ page = Closed /\ Target # None
  /\ \E rel \in {Cached(Target), Ask(Target)} :
       \E fill \in {AutoFill(Panel(Target, rel, << >>))} :
         /\ AllReadable(FilesOf(mine \cup Range(fill)))
         /\ page' = Panel(Target, rel, fill)
         /\ Keep(rel)
  /\ UNCHANGED <<on, mine, mb, side, wrote, edits>>

\* The user adds a folder to a disc or takes one out: the files are paired afresh.
ChangeFill ==
  /\ page # Closed /\ page.moves < MaxMoves
  /\ \E f \in Unclaimed, d \in Discs(page.rel) \ page.rel.video :
       LET without == [e \in {e \in DOMAIN page.fill : page.fill[e] # f /\ e # d} |-> page.fill[e]]
           rel == Cached(page.target)
       IN \E fill \in {without, Over([e \in {d} |-> f], without)} :
            /\ AllReadable(FilesOf(mine \cup Range(fill)))
            /\ page' = [Panel(page.target, rel, fill) EXCEPT !.moves = page.moves + 1]
            /\ Keep(rel)
  /\ UNCHANGED <<on, mine, mb, side, wrote, edits>>

Swapped(order, k) == [order EXCEPT ![k] = order[k + 1], ![k + 1] = order[k]]

\* A move of one row on one side, a gap, or every pair taken apart.
Move ==
  /\ page # Closed /\ page.moves < MaxMoves /\ Current(page)
  /\ LET moved == [page EXCEPT !.moves = @ + 1]
         n == Len(page.files)
         m == Len(page.rel.tracks)
     IN page' \in
          {[moved EXCEPT !.disk = Swapped(@, k)] : k \in 1..(Len(page.disk) - 1)}
          \cup {[moved EXCEPT !.tracks = Swapped(@, k)] : k \in 1..(Len(page.disk) - 1)}
          \cup (IF Len(page.disk) < n + m + 1
                THEN {[moved EXCEPT !.disk = Append(@, None), !.tracks = Append(@, None)]}
                ELSE {})
          \cup {[moved EXCEPT !.disk = [k \in 1..n |-> k] \o [k \in 1..m |-> None],
                              !.tracks = [k \in 1..n |-> None] \o [k \in 1..m |-> k]]}
  /\ UNCHANGED <<on, mine, mb, stored, side, wrote, edits>>

Tick ==
  /\ page # Closed
  /\ \E g \in page.ticks \cup
          GapIds(page.rel, OffersOf(page, page.files, page.rel, side.release = page.target)) :
       page' = [page EXCEPT !.ticks = IF g \in @ THEN @ \ {g} ELSE @ \cup {g}]
  /\ UNCHANGED <<on, mine, mb, stored, side, wrote, edits>>

Close ==
  /\ page # Closed /\ page' = Closed
  /\ UNCHANGED <<on, mine, mb, stored, side, wrote, edits>>

-----------------------------------------------------------------------------
(* Tagging *)

\* Every file of `folders` takes its place in `after`, the tagged files.
Put(folders, after) ==
  on' = [f \in DOMAIN on |->
           IF f \notin folders THEN on[f]
           ELSE [k \in DOMAIN on[f] |->
                   CHOOSE x \in Range(after) : x.file = on[f][k].file]]

Tagged(files, rel, slots) ==
  [i \in DOMAIN files |-> IF slots[i] = None THEN files[i] ELSE TaggedAs(files[i], rel, slots[i])]

\* The sidecar of a tagged album; the tagging itself, for the properties.
Follows(by, folders, files, rel, slots, decisions, ticks) ==
  /\ Put(folders, files)
  /\ mine' = folders
  /\ side' = [release |-> rel.id, candidate |-> None, pregaps |-> decisions]
  /\ wrote' = [by |-> by, rel |-> rel, files |-> files, slots |-> slots, ticks |-> ticks,
               count |-> wrote.count + 1]

\* Accept: the draft's rows, applied to the files and the release as they are
\* now, which is refused unless they are the ones the rows were drawn from.
Confirm ==
  /\ page # Closed /\ wrote.count < MaxWrites
  /\ page.target = Target
  /\ Current(page)
  /\ LET folders == mine \cup Range(page.fill)
         files == ReadAll(FilesOf(folders))
         rel == stored[page.rel.id]
         slots == Mapping(page)
         offers == OffersOf(page, files, rel, side.release = rel.id)
         marked == [i \in DOMAIN files |->
                      IF slots[i] = None THEN Unassigned(files[i], rel) ELSE files[i]]
     IN /\ DOMAIN slots = DOMAIN files
        /\ page.ticks \subseteq GapIds(rel, offers)
        /\ Writable(files, rel, slots)
        /\ Follows("review", folders, Tagged(marked, rel, slots), rel, slots,
                   {Decision(files, rel, o) :
                      o \in {o \in offers : rel.tracks[o.gap].rtid \in page.ticks}},
                   page.ticks)
  /\ page' = Closed
  /\ UNCHANGED <<mb, stored, edits>>

\* The tagger's own pairing, written.
WrittenAlone(files, rel, slots) ==
  Follows("alone", mine, Tagged(files, rel, slots), rel, slots, side.pregaps, {})
TaggedAlone(files, rel) == WrittenAlone(files, rel, UnreviewedSlots(files, rel))

\* A re-tag without a review, of the release as shown or as it is now.
Retag ==
  /\ side.release # None /\ wrote.count < MaxWrites
  /\ \E rel \in {Cached(side.release), Ask(side.release)}, incomplete \in BOOLEAN :
       /\ ~Refused(ReadAll(Files), rel, incomplete)
       /\ TaggedAlone(ReadAll(Files), rel)
       /\ Keep(rel)
  /\ UNCHANGED <<mb, page, edits>>

\* The store URL's releases are assessed as stored; the winner is read afresh
\* before it is written.  A tie changes nothing.
Exact(files, rel) ==
  /\ Confidence(files, rel) = 2
  /\ \A i \in DOMAIN files : files[i].album \in {None, rel.id}
Assessed(files, best) ==
  \E rel \in best :
    /\ Cardinality(best) = 1
    /\ \/ /\ Exact(files, rel)
          /\ ~Refused(files, Ask(rel.id), FALSE)
          /\ TaggedAlone(files, Ask(rel.id))
          /\ Keep(Ask(rel.id))
       \/ /\ ~Exact(files, rel)
          /\ side' = [side EXCEPT !.release = None, !.candidate = rel.id]
          /\ Keep(rel)
          /\ UNCHANGED <<on, mine, wrote>>
Lookup ==
  /\ side.release = None /\ Linked # {} /\ wrote.count < MaxWrites
  /\ Assessed(ReadAll(Files), Best(ReadAll(Files), {Cached(id) : id \in Linked}))
  /\ UNCHANGED <<mb, page, edits>>

-----------------------------------------------------------------------------
(* Everyone else *)

MusicBrainzEdits ==
  /\ edits < MaxEdits /\ edits' = edits + 1
  /\ mb' \in Worlds \ {mb}
  /\ UNCHANGED <<on, mine, stored, side, page, wrote>>

\* The background checks read the release again.
Refresh ==
  /\ \E id \in Ids : stored[id] # None /\ stored[id] # Ask(id) /\ Keep(Ask(id))
  /\ UNCHANGED <<on, mine, mb, side, page, wrote, edits>>

\* Another program writes tags, or renames the files so that two change places.
Outside ==
  /\ edits < MaxEdits /\ edits' = edits + 1
  /\ \E f \in Range(Folders) :
       \/ \E i \in DOMAIN on[f], t \in Elsewhere : on' = [on EXCEPT ![f][i] = Over(t, @)]
       \/ \E i \in 1..(Len(on[f]) - 1) : on' = [on EXCEPT ![f] = Swapped(@, i)]
  /\ on' # on
  /\ UNCHANGED <<mine, mb, stored, side, page, wrote>>

Init ==
  /\ \E s \in Starts : on = s.on /\ side = s.side
  /\ mine = {Folders[1]}
  /\ mb \in Worlds
  /\ stored = [id \in Ids |-> None]
  /\ page = Closed
  /\ wrote = [by |-> "nobody", rel |-> None, files |-> << >>, slots |-> << >>, ticks |-> {},
              count |-> 0]
  /\ edits = 0

Next ==
  \/ OpenReview \/ ChangeFill \/ Move \/ Tick \/ Close
  \/ Confirm \/ Retag \/ Lookup
  \/ MusicBrainzEdits \/ Refresh \/ Outside

Spec == Init /\ [][Next]_vars

-----------------------------------------------------------------------------

\* The files a tagging wrote are still as it left them.
Untouched == wrote.count > 0 /\ ReadAll(Files) = wrote.files

\* A confirmed review gives each file the track its row showed, whatever
\* renamed the files or edited the release since the page was drawn, and no
\* other file of the album a track (confirm_match and the two fingerprints).
AsReviewed ==
  [][wrote'.count # wrote.count /\ wrote'.by = "review" =>
       LET shown(i) == IF Mapping(page)[i] = None THEN None
                       ELSE page.rel.tracks[Mapping(page)[i]].rtid
       IN {<<wrote'.files[i].file, wrote'.files[i].rtid>> :
             i \in {i \in DOMAIN wrote'.files : wrote'.files[i].rtid # None}}
          = {<<page.files[i].file, shown(i)>> :
               i \in {i \in DOMAIN page.files : shown(i) # None}}]_vars

\* A tagging nobody reviewed moves no file off the track its own id names:
\* the ids outlive every renumbering of the release (compare.assign).
IdsKept ==
  [][wrote'.count # wrote.count /\ wrote'.by = "alone" =>
       LET ids == RtIdKeys(ReadAll(Files))
       IN \A i \in DOMAIN ids :
            ids[i] \in Range(RtIds(wrote'.rel)) \ {None} /\ Once(ids, ids[i]) =>
              wrote'.files[i].rtid = ids[i]]_vars

\* No tagging leaves two files of the album claiming one track, the files it
\* left unassigned included.
OneFilePerTrack ==
  Untouched => \A i, j \in DOMAIN wrote.files :
                 i # j /\ wrote.files[i].rtid # None => wrote.files[i].rtid # wrote.files[j].rtid

\* After a tagging that placed every file the editor, the page and the tagger
\* agree on the pairing it wrote, and ask for no further review of it -- unless
\* file order put a file on a video's track (NoVideoWritten), or the release
\* has a track without an id, which the structural pairing cannot settle.
Settled ==
  Untouched /\ Range(wrote.slots) \subseteq Taggable(wrote.rel) /\ None \notin Range(RtIds(wrote.rel)) =>
    /\ Reasons(wrote.files, wrote.rel) = {}
    /\ Pairs(wrote.files, wrote.rel, Taggable(wrote.rel)) = wrote.slots
    /\ PageSlots(wrote.files, wrote.rel, wrote.rel.id) = wrote.slots
    /\ UnreviewedSlots(wrote.files, wrote.rel) = wrote.slots

\* Harmonist never writes a medium that holds only video (_taggable_tracks).
NoVideoWritten == Untouched => Range(wrote.slots) \subseteq Taggable(wrote.rel) \cup {None}

\* One method answers which file is which track: what the editor proposes for
\* the confirmed release and what a re-tag nobody has to review would write
\* never name two tracks for one file.
OneAnswer ==
  side.release # None /\ AllReadable(Files) =>
    LET rel == Ask(side.release)
        proposed == Proposal(Files, rel, Taggable(rel))
    IN ~Refused(Files, rel, FALSE) =>
         \A i \in DOMAIN Files : proposed[i] \in {None, UnreviewedSlots(Files, rel)[i]}

\* Only a first, exact, unique match is tagged unasked: the release as written
\* fits the files it is written to.
UnaskedIsExact ==
  [][wrote'.count # wrote.count /\ side.release = None /\ wrote'.by = "alone" =>
       Confidence(Files, wrote'.rel) = 2]_vars

\* A pregap the owner ticked is credited by the scan that follows, as long as
\* the files stay as the review left them (pregaps.offers against effective).
\* Where the review left a file unassigned it need not be: that file has no
\* track total, and effective wants the decision's total of every file there.
PregapCredited ==
  Untouched /\ wrote.by = "review" /\ None \notin Range(wrote.slots) =>
    {d.pregap : d \in Effective(wrote.files, side.pregaps, side.release)} = wrote.ticks
=============================================================================

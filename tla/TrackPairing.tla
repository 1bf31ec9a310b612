---------------------------- MODULE TrackPairing ----------------------------
(***************************************************************************)
(* Which file of an album is which track of a MusicBrainz release, and how  *)
(* well the files fit the release: the operators the album page, the tagger *)
(* the matcher and the assignment editor share.  Pure: nothing here has a   *)
(* state.                                                                   *)
(*                                                                          *)
(* A release is [id, tracks, video]: its id, its tracks in order, and the   *)
(* discs holding nothing but video.  A track and a file are records with    *)
(* the fields both can answer: `rtid` (release-track id), `rec` (recording  *)
(* id), `disc`, `num` and `len`.  A file has also `at` (its folder and its  *)
(* place there), `ok` (it can be read), and, from its tags, `album`,        *)
(* `total` (tracks on its disc) and `discs`.  `None` is a missing answer.   *)
(***************************************************************************)
EXTENDS Naturals, SequencesExt

CONSTANTS None,        \* the answer nobody gave
          Tolerance    \* LENGTH_TOLERANCE_MS, and a pregap's TOLERANCE_MS

ASSUME ToleranceAssumption == Tolerance \in Nat
ASSUME NoneAssumption == None \notin Nat

\* `new` where it speaks, `old` elsewhere.
Over(new, old) ==
  [k \in DOMAIN new \cup DOMAIN old |-> IF k \in DOMAIN new THEN new[k] ELSE old[k]]

\* A finite set of numbers, counted: which of it one is, and all of it in order.
Turn(S, m) == Cardinality({j \in S : j <= m})
InOrder(S) == [k \in 1..Cardinality(S) |-> CHOOSE m \in S : Turn(S, m) = k]

Unread == [rtid |-> None, rec |-> None, album |-> None, disc |-> None,
           num |-> None, total |-> None, discs |-> None]

\* What reading a file's tags gives: an unreadable one claims nothing.
Read(file) == IF file.ok THEN file ELSE Over(Unread, file)
ReadAll(files) == [i \in DOMAIN files |-> Read(files[i])]

DiscOf(x) == IF x.disc = None THEN 1 ELSE x.disc
OnDisc(rel, d) == {m \in DOMAIN rel.tracks : rel.tracks[m].disc = d}
TrackTotal(rel, d) == Cardinality(OnDisc(rel, d))
Discs(rel) == {rel.tracks[m].disc : m \in DOMAIN rel.tracks}
Taggable(rel) == {m \in DOMAIN rel.tracks : rel.tracks[m].disc \notin rel.video}
RtIds(rel) == [m \in DOMAIN rel.tracks |-> rel.tracks[m].rtid]

-----------------------------------------------------------------------------
(* Pairing by a key both sides carry *)

Once(keys, k) == Cardinality({x \in DOMAIN keys : keys[x] = k}) = 1

\* Every file whose key is its own and is one track's own, with that track.
Matched(fileKeys, trackKeys) ==
  LET named == {i \in DOMAIN fileKeys : /\ fileKeys[i] # None
                                        /\ Once(fileKeys, fileKeys[i])
                                        /\ Once(trackKeys, fileKeys[i])}
  IN [i \in named |-> CHOOSE m \in DOMAIN trackKeys : trackKeys[m] = fileKeys[i]]

\* A later rung disturbs nothing an earlier one decided.
Extend(placed, more) ==
  Over(placed, [i \in {i \in DOMAIN more : more[i] \notin Range(placed)} |-> more[i]])

Slots(files, placed) ==
  [i \in DOMAIN files |-> IF i \in DOMAIN placed THEN placed[i] ELSE None]

-----------------------------------------------------------------------------
(* The ladder: release-track id, then disc and number, then file order *)

NumberKey(x) == IF x.num = None THEN None ELSE <<DiscOf(x), x.num>>

RtIdKeys(xs) == [i \in DOMAIN xs |-> xs[i].rtid]
NumberKeys(xs) == [i \in DOMAIN xs |-> NumberKey(xs[i])]

NamedByNumberFirst(files, tracks) ==
  Extend(Matched(NumberKeys(files), NumberKeys(tracks)),
         Matched(RtIdKeys(files), RtIdKeys(tracks)))
Named(files, tracks) ==
  Extend(Matched(RtIdKeys(files), RtIdKeys(tracks)),
         Matched(NumberKeys(files), NumberKeys(tracks)))

Assign(files, tracks) ==
  LET placed == Named(files, tracks)
      left == DOMAIN files \ DOMAIN placed
      free == InOrder(DOMAIN tracks \ Range(placed))
      byOrder == [i \in {i \in left : Turn(left, i) <= Len(free)} |-> free[Turn(left, i)]]
  IN Slots(files, Over(placed, byOrder))

\* What the album page draws: on a confirmed release an absent or ambiguous
\* decision is shown as one, never guessed at.
PageSlots(files, rel, confirmed) ==
  LET ladder == Assign(files, rel.tracks)
      sure == Matched(RtIdKeys(files), RtIds(rel))
  IN [i \in DOMAIN files |->
        IF files[i].album = None \/ files[i].album # confirmed THEN ladder[i]
        ELSE IF files[i].rtid # None
             THEN IF i \in DOMAIN sure THEN sure[i] ELSE None
        ELSE IF files[i].rec = None THEN None ELSE ladder[i]]

-----------------------------------------------------------------------------
(* The structural pairing of a confirmed album: ids first, no file order *)

\* A release-track id of a release since merged into this one names nothing.
LiveRtId(file, rel) ==
  IF file.rtid \in Range(RtIds(rel)) \/ file.album \in {None, rel.id} THEN file.rtid ELSE None

LiveRtIds(files, rel) == [i \in DOMAIN files |-> LiveRtId(files[i], rel)]
LiveRecs(files, rel) ==
  [i \in DOMAIN files |-> IF LiveRtId(files[i], rel) = None THEN files[i].rec ELSE None]

\* A file's disc and number, the disc understood where there is only one.
NumberOf(file, rel, eligible) ==
  LET disc == IF file.disc = None /\ {rel.tracks[m].disc : m \in eligible} = {1}
              THEN 1 ELSE file.disc
  IN IF disc = None \/ file.num = None THEN None ELSE <<disc, file.num>>
TrackNumber(rel, m) == <<rel.tracks[m].disc, rel.tracks[m].num>>

\* The tracks an id could settle, and those whose id is present and their own.
Distinct(rel, tracks) ==
  {m \in tracks : rel.tracks[m].rtid = None \/ Once(RtIds(rel), rel.tracks[m].rtid)}
Sound(rel, tracks) == {m \in Distinct(rel, tracks) : rel.tracks[m].rtid # None}

Idless(files, rel, placed) ==
  {i \in DOMAIN files \ DOMAIN placed :
     LiveRtId(files[i], rel) = None /\ files[i].rec = None /\ files[i].ok}

\* The rungs.  Ids settle a file's place; numbers only propose one.
ByRtId(files, rel, eligible) ==
  LET own == Matched(LiveRtIds(files, rel), RtIds(rel))
  IN [i \in {i \in DOMAIN own : own[i] \in eligible} |-> own[i]]
ByRecording(placed, files, rel, eligible) ==
  Extend(placed, Matched(LiveRecs(files, rel),
                         [m \in Distinct(rel, eligible \ Range(placed)) |-> rel.tracks[m].rec]))
ByOccurrence(placed, files, rel, eligible) ==
  LET occurs(rec, number) == IF rec = None \/ number = None THEN None ELSE <<rec, number>>
  IN Extend(placed, Matched([i \in DOMAIN files \ DOMAIN placed |->
                               occurs(LiveRecs(files, rel)[i], NumberOf(files[i], rel, eligible))],
                            [m \in Distinct(rel, eligible \ Range(placed)) |->
                               <<rel.tracks[m].rec, TrackNumber(rel, m)>>]))
ByNumber(placed, files, rel, eligible) ==
  Extend(placed, Matched([i \in Idless(files, rel, placed) |-> NumberOf(files[i], rel, eligible)],
                         [m \in Sound(rel, eligible \ Range(placed)) |-> TrackNumber(rel, m)]))
\* The one file left is the one track left's, if no track lacks an id.
ByElimination(numbered, settled, files, rel, eligible) ==
  LET last == Idless(files, rel, numbered)
      free == Sound(rel, eligible \ Range(numbered))
  IN IF /\ Sound(rel, eligible \ Range(settled)) = eligible \ Range(settled)
        /\ Cardinality(last) = 1 /\ Cardinality(free) = 1
     THEN Over(numbered, [i \in last |-> CHOOSE m \in free : TRUE])
     ELSE numbered

SettledPairs(files, rel, eligible) ==
  ByOccurrence(ByRecording(ByRtId(files, rel, eligible), files, rel, eligible),
               files, rel, eligible)
ProposedPairs(settled, files, rel, eligible) ==
  ByElimination(ByNumber(settled, files, rel, eligible), settled, files, rel, eligible)

Pairs(files, rel, eligible) == Slots(files, SettledPairs(files, rel, eligible))
Proposal(files, rel, eligible) ==
  Slots(files, ProposedPairs(SettledPairs(files, rel, eligible), files, rel, eligible))

-----------------------------------------------------------------------------
(* When a re-tag has to be reviewed, and what an unreviewed one would do *)

\* The ways one file's place, `slot`, disagrees with the release.
PlaceReasons(f, slot, rel) ==
  LET differs(before, after) == before # None /\ before # after
      t == rel.tracks[slot]
  IN IF slot = None
     THEN IF \/ f.rtid # None \/ f.rec # None
             \/ None \notin Range(RtIds(rel)) /\ f.album = rel.id
          THEN {"assignment"} ELSE {}
     ELSE {r \in {"number", "disc", "total", "discs"} :
             \/ r = "number" /\ differs(f.num, t.num)
             \/ r = "disc" /\ differs(f.disc, t.disc)
             \/ r = "total" /\ differs(f.total, TrackTotal(rel, t.disc))
             \/ /\ r = "discs" /\ Taggable(rel) = DOMAIN rel.tracks
                /\ differs(f.discs, Cardinality(Discs(rel)))}

\* The ways the structure on disk disagrees with it.
ReasonsIn(files, rel, slots) ==
  UNION {PlaceReasons(files[i], slots[i], rel) : i \in {i \in DOMAIN files : files[i].album # None}}
Reasons(files, rel) == ReasonsIn(files, rel, Pairs(files, rel, Taggable(rel)))

Refused(files, rel, incomplete) ==
  \/ Reasons(files, rel) # {}
  \/ ~incomplete /\ Len(files) # Cardinality(Taggable(rel))
  \/ Len(files) > Len(rel.tracks)

\* The tagger's own pairing takes in the video tracks: a file naming one is
\* in the wrong place, and is not re-pointed.
UnreviewedSlots(files, rel) == Assign(files, rel.tracks)

TaggedWithAllTracks(file, rel, m) ==
  LET t == rel.tracks[m]
  IN Over([rtid |-> t.rtid, rec |-> t.rec, album |-> rel.id, disc |-> t.disc, num |-> t.num,
           total |-> Len(rel.tracks), discs |-> Cardinality(Discs(rel))], file)
\* A file once tagged as track m of the release, and one left unassigned.
TaggedAs(file, rel, m) ==
  LET t == rel.tracks[m]
  IN Over([rtid |-> t.rtid, rec |-> t.rec, album |-> rel.id, disc |-> t.disc, num |-> t.num,
           total |-> TrackTotal(rel, t.disc), discs |-> Cardinality(Discs(rel))], file)
Unassigned(file, rel) == [file EXCEPT !.album = rel.id]

WritableOverIds(files, rel, slots) ==
  \A i \in DOMAIN files : slots[i] \in Taggable(rel) \cup {None}
\* A reviewed write refuses a mapping onto a video track, and a file left out
\* whose tags would go on claiming a track.
Writable(files, rel, slots) ==
  \A i \in DOMAIN files :
    IF slots[i] = None THEN files[i].rtid = None /\ files[i].rec = None
    ELSE slots[i] \in Taggable(rel)

-----------------------------------------------------------------------------
(* How well the files fit a release *)

Gap(a, b) == IF a > b THEN a - b ELSE b - a
LengthOf(file) == IF file.len = None THEN 0 ELSE file.len

\* The length differences of the rows that have one, by track.
Deltas(files, rel, slots) ==
  [i \in {i \in DOMAIN files : slots[i] # None /\ rel.tracks[slots[i]].len # None} |->
     Gap(LengthOf(files[i]), rel.tracks[slots[i]].len)]

Level(files, rel, deltas) ==
  CASE Len(files) # Len(rel.tracks) -> 0
    [] \/ \E i \in DOMAIN deltas : deltas[i] > Tolerance
       \/ \E m \in DOMAIN rel.tracks : rel.tracks[m].len = None -> 1
    [] OTHER -> 2
Confidence(files, rel) == Level(files, rel, Deltas(files, rel, Assign(files, rel.tracks)))

\* The best fits: the most confident, then the closest count, then the least
\* difference in length.  More than one is a tie nothing may break.
Score(files, rel, deltas) ==
  <<2 - Level(files, rel, deltas), Gap(Len(files), Len(rel.tracks)),
    MapThenSumSet(LAMBDA i : deltas[i], DOMAIN deltas)>>
Best(files, rels) ==
  LET scores == [r \in rels |-> Score(files, r, Deltas(files, r, Assign(files, r.tracks)))]
      closer(a, b) == \E k \in 1..3 : a[k] < b[k] /\ \A j \in 1..(k - 1) : a[j] = b[j]
  IN {r \in rels : \A s \in rels : ~closer(scores[s], scores[r])}

-----------------------------------------------------------------------------
(* A disc another folder could fill *)

MissingDiscs(rel, slots) ==
  {d \in Discs(rel) \ rel.video : OnDisc(rel, d) \cap Range(slots) = {}}

Lengths(rel, d) ==
  LET ms == InOrder(OnDisc(rel, d)) IN [k \in DOMAIN ms |-> rel.tracks[ms[k]].len]

Fits(files, rel, d) ==
  /\ Len(files) = TrackTotal(rel, d)
  /\ \A k \in DOMAIN files : /\ files[k].len # None /\ Lengths(rel, d)[k] # None
                             /\ Gap(files[k].len, Lengths(rel, d)[k]) <= Tolerance

\* The discs exactly one folder fits, that folder fitting no other of them.
Automatic(rel, missing, pool) ==
  LET fitting(d) == {a \in DOMAIN pool : Fits(pool[a], rel, d)}
      only == {d \in missing : Cardinality(fitting(d)) = 1}
      sole == {d \in only : \A e \in only \ {d} : fitting(e) # fitting(d)}
  IN [d \in sole |-> CHOOSE a \in fitting(d) : TRUE]

-----------------------------------------------------------------------------
(* A pregap ripped into the first track *)

\* o = [gap, first, file]: the file is first's, and as long as the two together.
Combined(files, rel, o) ==
  LET gap == rel.tracks[o.gap]
      first == rel.tracks[o.first]
      file == files[o.file]
  IN /\ gap.num = 0 /\ first.num = 1 /\ first.disc = gap.disc
     /\ gap.disc \notin rel.video
     /\ gap.rtid # None /\ Once(RtIds(rel), gap.rtid)
     /\ first.rtid # None /\ Once(RtIds(rel), first.rtid)
     /\ \A j \in DOMAIN files : /\ files[j].rtid # gap.rtid
                                /\ NumberKey(files[j]) # <<gap.disc, 0>>
     /\ file.rtid = first.rtid /\ Once(RtIdKeys(files), first.rtid)
     /\ file.album = rel.id /\ NumberKey(file) = <<gap.disc, 1>>
     /\ None \notin {gap.len, first.len, file.len}
     /\ gap.len > 0 /\ first.len > 0 /\ file.len > 0
     /\ Gap(file.len, gap.len + first.len) <= Tolerance
     /\ Gap(file.len, first.len) > Tolerance

\* The pregaps the owner may say are part of the rip.
Offers(files, rel) ==
  {o \in [gap : DOMAIN rel.tracks, first : DOMAIN rel.tracks, file : DOMAIN files] :
     Combined(files, rel, o)}

DecisionOnOrdinaryTotal(files, rel, o) ==
  [release |-> rel.id, pregap |-> rel.tracks[o.gap].rtid, track |-> rel.tracks[o.first].rtid,
   len |-> files[o.file].len,
   total |-> Cardinality({m \in OnDisc(rel, rel.tracks[o.first].disc) : rel.tracks[m].num > 0})]
\* The owner's decision, and the ones the files on disk still bear out.  A disc
\* has one pregap, so never a second decision to leave uncredited.
Decision(files, rel, o) ==
  [release |-> rel.id, pregap |-> rel.tracks[o.gap].rtid, track |-> rel.tracks[o.first].rtid,
   len |-> files[o.file].len, total |-> TrackTotal(rel, rel.tracks[o.first].disc)]

Effective(files, decisions, release) ==
  {d \in decisions :
     /\ d.release = release
     /\ \A j \in DOMAIN files : files[j].rtid # d.pregap
     /\ \E i \in DOMAIN files :
          LET beside == {j \in DOMAIN files : files[j].ok /\ DiscOf(files[j]) = DiscOf(files[i])}
          IN /\ files[i].rtid = d.track /\ Once(RtIdKeys(files), d.track)
             /\ files[i].ok /\ files[i].album = release /\ files[i].len = d.len
             /\ \A j \in beside : files[j].total = d.total
             /\ Cardinality(beside) < d.total}
=============================================================================

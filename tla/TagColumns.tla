----------------------------- MODULE TagColumns -----------------------------
(***************************************************************************)
(* Where the album page states each tag a re-tag would write: the panel of  *)
(* album fields, the tracklist's columns, the lines under a row, the band   *)
(* below the table and the disc headings.  Pure: nothing here has a state.  *)
(*                                                                          *)
(* A comparison is [files, mb, media].  `mb` holds the release's tracks in  *)
(* order, each a function of the tags tagging would write.  `files` holds   *)
(* the album's files: [slot, ok, video, tags], `slot` the place in `mb` of  *)
(* the track the file was matched to, or None.  `media` gives, for each     *)
(* disc MusicBrainz describes, the three tags derived from the disc.        *)
(***************************************************************************)
EXTENDS Naturals, SequencesExt

CONSTANTS None,            \* a tag that is absent
          Columns,         \* _CANDIDATES: a track's tags, in column order
          Pinned,          \* _PINNED_COLUMNS
          MediumDerived,   \* _MEDIUM_DERIVED
          Listed,          \* _LISTED
          Identifiers,     \* _IDENTIFIERS
          SubsumedBy,      \* _SUBSUMED_BY: [field -> the credit it restates]
          Counterpart,     \* _ALBUM_COUNTERPART: [field -> the album's field]
          Panel,           \* the album fields compared
          Flags,           \* _FLAGS: those of them that are present or not
          Yes,             \* FLAG_YES: the one reading of a flag that is present
          MaxEarned        \* MAX_EARNED_COLUMNS

ASSUME MaxEarnedAssumption == MaxEarned \in Nat

\* The number column is track_num's, and disc_num's where there are discs.
ASSUME ColumnsAssumption ==
  /\ Columns \in Seq(Range(Columns)) /\ "track_num" \notin Range(Columns)
  /\ MediumDerived \cup {"disc_num"} \subseteq Range(Columns) /\ Flags \subseteq Panel

DiscNum(tags) == IF tags["disc_num"] = None THEN 1 ELSE tags["disc_num"]

-----------------------------------------------------------------------------
(* The two sides *)

Assigned(v) == {f \in Range(v.files) : f.slot # None}
Extras(v) == {f \in Range(v.files) : f.slot = None}

\* The pairs of readings the columns are chosen from.  A video is not tagged,
\* so MusicBrainz has nothing to say of it.
Present(v) ==
  {[disc |-> DiscNum(v.mb[f.slot]), disk |-> f.tags, mb |-> IF f.video THEN None ELSE v.mb[f.slot]] :
     f \in {f \in Assigned(v) : f.ok}}
Told(present) == {p \in present : p.mb # None}

MultiDisc(v) ==
  \/ \E m \in DOMAIN v.mb : DiscNum(v.mb[m]) > 1
  \/ \E f \in Extras(v) : f.ok /\ DiscNum(f.tags) > 1

-----------------------------------------------------------------------------
(* What earns a column *)

OneReadingOnDisk(field, present) == Cardinality({p.disk[field] : p \in present}) <= 1
OneReadingInMB(field, present) == Cardinality({p.mb[field] : p \in Told(present)}) <= 1
Uniform(field, present) == OneReadingOnDisk(field, present) /\ OneReadingInMB(field, present)

Answers(field, present) ==
  {<<p.disk[field], p.mb[field]>> : p \in {p \in Told(present) : p.mb[field] # None}}

\* One side credits the track differently from the album as a whole.
Apart(field, tags) ==
  {tags[field], tags[Counterpart[field]]} \cap {None} = {} /\ tags[field] # tags[Counterpart[field]]

EarnsColumn(field, present, multiDisc) ==
  \/ /\ Cardinality(Answers(field, present)) > 1
     /\ \E pair \in Answers(field, present) : pair[1] # pair[2]
  \/ ~Uniform(field, present) /\ ~(multiDisc /\ field \in MediumDerived)
  \/ /\ field \in DOMAIN Counterpart
     /\ \/ \E p \in present : Apart(field, p.disk)
        \/ \E p \in Told(present) : Apart(field, p.mb)

\* mutant: judged over the album
InStepSomewhere(companion, credit, present) ==
  (\E p \in Told(present) : p.disk[companion] # p.mb[companion])
  => \E p \in Told(present) : p.disk[credit] # p.mb[credit]

\* The companion changes on no file whose credit does not.
InStep(companion, credit, present) ==
  \A p \in Told(present) :
    p.disk[companion] # p.mb[companion] => p.disk[credit] # p.mb[credit]

-----------------------------------------------------------------------------
(* Where each tag goes *)

Kept == {"column", "earned"}
PlaceOf(field, places) == IF field \in DOMAIN places THEN places[field] ELSE "nowhere"
EarnedSoFar(places) == Cardinality({f \in DOMAIN places : places[f] = "earned"})

\* Where a tag whose credit is `credit`, stated at `at`, goes beside it.
BesideCredit(field, credit, at, present, otherwise) ==
  IF at \in Kept \cup {"listed"} /\ InStep(field, credit, present) THEN "absorbed"
  ELSE IF at = "listed" THEN "rider" ELSE otherwise

OfItsOwn(field, earned) ==
  IF field \in Listed THEN "listed"
  ELSE IF field \in Identifiers THEN "column"
  ELSE IF earned < MaxEarned THEN "earned" ELSE "overflow"

Place(field, places, present, multiDisc, rolledUp) ==
  CASE multiDisc /\ field = "disc_num" -> "number"
    [] rolledUp /\ field \in MediumDerived -> "heading"
    [] field \in Pinned -> "column"
    [] OTHER ->
         IF ~EarnsColumn(field, present, multiDisc) THEN "collapsed"
         ELSE IF field \notin DOMAIN SubsumedBy THEN OfItsOwn(field, EarnedSoFar(places))
         ELSE BesideCredit(field, SubsumedBy[field], PlaceOf(SubsumedBy[field], places), present,
                           OfItsOwn(field, EarnedSoFar(places)))

ChooseColumns(present, multiDisc, rolledUp) ==
  LET chosen[n \in 0..Len(Columns)] ==
        IF n = 0 THEN <<>>
        ELSE LET places == chosen[n - 1] IN
             [f \in DOMAIN places \cup {Columns[n]} |->
                IF f \in DOMAIN places THEN places[f] ELSE Place(f, places, present, multiDisc, rolledUp)]
  IN chosen[Len(Columns)]

-----------------------------------------------------------------------------
(* The disc headings *)

\* The files whose disc tags are comparable: a video's are MusicBrainz's to
\* describe and nobody's to write.
OnDisc(v) == {p \in Present(v) : p.mb # None}
PerDiscConstant(v) ==
  \A p, q \in OnDisc(v) : p.disc = q.disc => \A f \in MediumDerived : p.disk[f] = q.disk[f]
RolledUp(v) == MultiDisc(v) /\ OnDisc(v) # {} /\ PerDiscConstant(v)

Medium(v, disc) == IF disc \in DOMAIN v.media THEN v.media[disc] ELSE [f \in MediumDerived |-> None]
HeadingDiffers(v) ==
  RolledUp(v) /\ \E p \in OnDisc(v) : \E f \in MediumDerived : p.disk[f] # Medium(v, p.disc)[f]

-----------------------------------------------------------------------------
(* What a row, the band and the panel say *)

\* The number column: "3", or "2-3" on a release of several discs, or nothing.
Number(tags, multiDisc) ==
  IF tags["track_num"] = None THEN <<>>
  ELSE IF multiDisc THEN <<DiscNum(tags), tags["track_num"]>> ELSE <<tags["track_num"]>>

\* The tags `p`'s row states a change in, in its cells and the lines under it.
StatedInRow(p, places, multiDisc) ==
  {f \in DOMAIN places : /\ p.disk[f] # p.mb[f]
                         /\ \/ places[f] \in Kept \cup {"listed", "overflow"}
                            \/ places[f] = "rider" /\ p.disk[SubsumedBy[f]] = p.mb[SubsumedBy[f]]}
  \cup {f \in {"track_num", "disc_num"} : Number(p.disk, multiDisc) # Number(p.mb, multiDisc)}

CollapsedDiffers(field, present) ==
  Uniform(field, present) /\ \E p \in Told(present) : p.disk[field] # p.mb[field]
BandStates(places, present) ==
  {f \in DOMAIN places : places[f] = "collapsed" /\ CollapsedDiffers(f, present)}

\* A field's readings: [place in the album -> tag], of the files that have any.
\* The consensus is the one most files carry; of several, the one carried first.
Consensus(readings) ==
  LET Count(x) == Cardinality({i \in DOMAIN readings : readings[i] = x})
      Earlier(x, y) == \E i \in DOMAIN readings :
        readings[i] = x /\ \A j \in DOMAIN readings : readings[j] = y => i < j
      said == Range(readings) \ {None}
  IN IF said = {} THEN None
     ELSE CHOOSE x \in said : \A y \in said \ {x} :
            Count(y) < Count(x) \/ (Count(y) = Count(x) /\ Earlier(x, y))
FlagConsensus(readings) == Range(readings) \ {None} # {}

Audio(v) == {i \in DOMAIN v.files : ~v.files[i].video}
Readings(v, field) == [i \in {i \in Audio(v) : v.files[i].ok} |-> v.files[i].tags[field]]
OneReading(readings) == \A i, j \in DOMAIN readings : readings[i] = readings[j]

\* `accepted` are the countries the release names: any of them is right.
PanelDiffers(v, field, accepted) ==
  \/ Audio(v) # {} /\ \A i \in Audio(v) : ~v.files[i].ok
  \/ IF field \in Flags
     THEN FlagConsensus(Readings(v, field)) # (v.mb[1][field] # None)
     ELSE Consensus(Readings(v, field)) \notin
            {v.mb[1][field]} \cup (IF field = "country" THEN accepted ELSE {})

-----------------------------------------------------------------------------
(* The page's verdict *)

RowsMatch(v, places) ==
  /\ Extras(v) = {}
  /\ \A m \in DOMAIN v.mb : \E f \in Assigned(v) : f.slot = m /\ f.ok
  /\ \A p \in Told(Present(v)) : StatedInRow(p, places, MultiDisc(v)) = {}

CleanWith(v, places) ==
  /\ v.mb # <<>> /\ RowsMatch(v, places)
  /\ BandStates(places, Present(v)) = {} /\ ~HeadingDiffers(v)

Places(v) == ChooseColumns(Present(v), MultiDisc(v), RolledUp(v))
Clean(v) == CleanWith(v, Places(v))

\* The note is neutral: the page has nothing for anyone to act on.
Advisory(v, accepted) == (\A f \in Panel : ~PanelDiffers(v, f, accepted)) /\ Clean(v)

-----------------------------------------------------------------------------
(* What a re-tag writes *)

\* Every tag Harmonist owns, whichever of them brought the re-tag about.
Owned == Range(Columns) \cup {"track_num"} \cup Panel
Written(file) == file.slot # None /\ file.ok /\ ~file.video

Retagged(file, tags) == [file EXCEPT !.tags = [f \in DOMAIN @ |-> IF f \in Owned THEN tags[f] ELSE @[f]]]
\* mutant: a tag MusicBrainz has nothing for is left
RetaggedWhereSaid(v) ==
  [i \in DOMAIN v.files |->
     IF ~Written(v.files[i]) THEN v.files[i]
     ELSE [v.files[i] EXCEPT !.tags =
             [f \in DOMAIN @ |-> IF f \in Owned /\ v.mb[v.files[i].slot][f] # None
                                THEN v.mb[v.files[i].slot][f] ELSE @[f]]]]
RetaggedAll(v) ==
  [i \in DOMAIN v.files |->
     IF Written(v.files[i]) THEN Retagged(v.files[i], v.mb[v.files[i].slot]) ELSE v.files[i]]
=============================================================================

--------------------------- MODULE AlbumIdentity ---------------------------
(***************************************************************************)
(* What an album is, and what it is called: the release its files name,    *)
(* the sidecar beside them, the albums the scanner makes of the two        *)
(* (scanner.merge_by_identity, _derive_state), the address each of them    *)
(* has (id_registry, activity_store's aliases, main._find_album), and      *)
(* everything that moves the two apart and together again: tagging         *)
(* (retag.tag_with_release), its undo (restore_tags), the "wrong match"    *)
(* pencil and its undo (library_rematch), re-tags in Picard, and the       *)
(* background pass that adopts what the files say (reconcile).             *)
(*                                                                         *)
(* A part is a directory's contents: its files, its sidecar, and the path  *)
(* it is at.  Paths are numbered in the order they sort.                   *)
(***************************************************************************)
EXTENDS Integers, FiniteSets, Functions

CONSTANTS
  Releases, Nothing,
  MergedInto,     \* the release MusicBrainz answers with when asked for one
  Parts,
  Files, PartOf,  \* the directory a file is in
  TrackOf,        \* the track a file is assigned to
  Paths,          \* 1..n
  Beginnings,     \* where the parts may be at first, Nowhere if one comes later,
                  \* and what their files may name
  Acts,           \* which of the owner's and the user's acts happen
  MaxActs,        \* bound: acts
  MaxFaults       \* bound: failing writes and stops of the process

Nowhere == 0

ASSUME PathsAssumption == IsFiniteSet(Paths) /\ Paths = 1..Cardinality(Paths)
ASSUME PartsAssumption ==
  /\ Nothing \notin Releases
  /\ IsFiniteSet(Parts) /\ IsFiniteSet(Files)
  /\ PartOf \in [Files -> Parts] /\ \A p \in Parts : \E f \in Files : PartOf[f] = p
  /\ MergedInto \in [Releases -> Releases]
  /\ Beginnings \subseteq [Parts -> Paths \cup {Nowhere}] \X [Files -> Releases \cup {Nothing}]
  /\ \A b \in Beginnings : \A p, q \in Parts : b[1][p] # Nowhere /\ b[1][p] = b[1][q] => p = q

VARIABLES
  at,        \* the path each part is at
  tags,      \* the MusicBrainz album id in each file's tags
  sc,        \* each part's sidecar
  seen,      \* the scanner's last reading of each part
  aliases,   \* superseded id -> the id that took its place
  records,   \* what each tagging and undo changed, file by file
  op,        \* the tagging or undo a request is carrying out
  pass,      \* the reconcile thread
  known,     \* every id a part's album has been addressed by (for the properties)
  acts, faults

vars == <<at, tags, sc, seen, aliases, records, op, pass, known, acts, faults>>

FilesIn(p) == {f \in Files : PartOf[f] = p}
FilesOf(a) == {f \in Files : PartOf[f] \in a}

\* An id is a release, a path's hash, or a copy's release and path.
PathId(path) == <<path>>
PathIds == {PathId(path) : path \in Paths}
CopyIds == (Releases \cup PathIds) \X Paths
Ids == Releases \cup PathIds \cup CopyIds
\* A release's id is no path's hash, nor a copy's, and nothing is no id.
ASSUME IdsAssumption == Releases \cap (PathIds \cup CopyIds) = {} /\ Nothing \notin Ids

\* The suggestions, links and decisions a sidecar also holds are left out.
NoSidecar == [mb |-> Nothing, uid |-> Nothing]
Sidecar == [mb : Releases \cup {Nothing}, uid : PathIds \cup {Nothing}]
Reading(p) == [at |-> at[p], tags |-> [f \in FilesIn(p) |-> tags[f]], sc |-> sc[p]]
Disk == [p \in Parts |-> Reading(p)]

NoOp == [kind |-> "none", album |-> {}, release |-> Nothing, shown |-> NoSidecar,
         address |-> Nothing, target |-> <<>>, todo |-> {}, sidecars |-> {}, act |-> 0]
Resting == [step |-> "rest", todo |-> {}, part |-> Nothing, found |-> NoSidecar]

-----------------------------------------------------------------------------
(* The albums of a reading (merge_by_identity).                            *)

There(view) == {p \in Parts : view[p].at # Nowhere}
SidecarId(s) == IF s.mb # Nothing THEN s.mb ELSE s.uid
First(view, S) == CHOOSE p \in S : \A q \in S : view[p].at <= view[q].at

\* The tracks a directory holds: release-track ids, if every file has one.
TrackIds(view, p) ==
  IF \E f \in FilesIn(p) : view[p].tags[f] = Nothing THEN {}
  ELSE {<<view[p].tags[f], TrackOf[f]>> : f \in FilesIn(p)}

\* No track ids on one side is no evidence; on both, the disc numbers decide,
\* which files without a release do not carry here.
HoldsDifferentTracks(view, p, q) ==
  /\ TrackIds(view, p) # {} /\ TrackIds(view, q) # {}
  /\ TrackIds(view, p) \cap TrackIds(view, q) = {}

SameIdentity(view, p, q) ==
  /\ SidecarId(view[p].sc) # Nothing
  /\ SidecarId(view[p].sc) = SidecarId(view[q].sc)

\* Greedy, in path order: a part joins the first group it overlaps nowhere.
Alike(view) == {p \in There(view) : \E q \in There(view) \ {p} : SameIdentity(view, p, q)}
Joins(view, group, p, k) ==
  \A q \in DOMAIN group :
    view[q].at < view[p].at /\ group[q] = k /\ SameIdentity(view, p, q)
      => HoldsDifferentTracks(view, p, q)
Group(view) ==
  CHOOSE group \in [Alike(view) -> 1..Cardinality(Alike(view))] : \A p \in DOMAIN group :
    /\ Joins(view, group, p, group[p])
    /\ \A k \in 1..(group[p] - 1) : ~Joins(view, group, p, k)
Albums(view) ==
  {{p} : p \in There(view) \ Alike(view)} \cup
  UNION {{{q \in Alike(view) : group[p] = group[q] /\ SameIdentity(view, p, q)} :
            p \in Alike(view)} : group \in {Group(view)}}
AlbumWith(view, p) == CHOOSE a \in Albums(view) : p \in a

\* The directory that answers for the album: the most tracks, then the path.
Primary(view, a) ==
  CHOOSE p \in a : \A q \in a :
    \/ Cardinality(FilesIn(p)) > Cardinality(FilesIn(q))
    \/ Cardinality(FilesIn(p)) = Cardinality(FilesIn(q)) /\ view[p].at <= view[q].at

\* The album's view of its parts' sidecars: one identity, or they were not one.
MergedSidecar(view, a) == view[First(view, a)].sc

BareId(view, a) ==
  LET s == MergedSidecar(view, a)
  IN IF SidecarId(s) # Nothing THEN SidecarId(s) ELSE PathId(view[Primary(view, a)].at)

\* Copies of one release get an address each, qualified by where they are.
SharedId(view, albums, a) == BareId(view, a)   \* mutant: the copies share the release's
AlbumId(view, albums, a) ==
  LET identity == SidecarId(MergedSidecar(view, a))
      copies == {b \in albums : SidecarId(MergedSidecar(view, b)) = identity}
  IN IF identity # Nothing /\ Cardinality(copies) > 1
       THEN <<identity, view[Primary(view, a)].at>>
       ELSE BareId(view, a)

\* What a scan makes of a reading: each album, and what it answers to.
Catalog(view) ==
  LET albums == Albums(view)
  IN {[parts |-> a, id |-> AlbumId(view, albums, a), mb |-> MergedSidecar(view, a).mb,
       derived |-> PathId(view[Primary(view, a)].at)] : a \in albums}
IdOf(view, a) == (CHOOSE c \in Catalog(view) : c.parts = a).id

Carried(view, a) == {view[PartOf[f]].tags[f] : f \in FilesOf(a)} \ {Nothing}

State(view, a) ==
  LET s == MergedSidecar(view, a)
  IN IF Cardinality(Carried(view, a)) > 1 THEN "inconsistent"
     ELSE IF SidecarId(s) = Nothing THEN "new"
     ELSE IF s.mb = Nothing THEN "needs_mbid"
     ELSE IF s.mb \in Carried(view, a) THEN "complete"
     ELSE "tagging"

-----------------------------------------------------------------------------
(* Addresses.                                                              *)

\* Forward along the aliases, until nothing follows or the walk has been here.
ResolveAlias(id) ==
  LET walk[n \in 0..Cardinality(DOMAIN aliases)] ==
        IF n = 0 THEN [current |-> id, been |-> {id}]
        ELSE LET w == walk[n - 1] IN
             IF w.current \in DOMAIN aliases /\ aliases[w.current] \notin w.been
               THEN [current |-> aliases[w.current], been |-> w.been \cup {aliases[w.current]}]
               ELSE w
  IN walk[Cardinality(DOMAIN aliases)].current

\* _find_album: the albums an id stands for; one opens, several ask which.
FindAlbum(catalog, id) ==
  LET called(i) == {c \in catalog : c.id = i}
      copies == {c \in catalog : c.mb = id}
      derived == {c \in catalog : c.derived = id}
  IN IF called(id) # {} THEN called(id)
     ELSE IF copies # {} THEN copies
     ELSE IF derived # {} THEN derived
     ELSE called(ResolveAlias(id))

\* record_alias replaces what was recorded under the old id.
FirstAlias(al, old, new) ==   \* mutant: what was recorded first stays
  IF old \in DOMAIN al \cup {Nothing, new} \/ new = Nothing THEN al
  ELSE [i \in DOMAIN al \cup {old} |-> IF i = old THEN new ELSE al[i]]
WithAlias(al, old, new) ==
  IF old = Nothing \/ new = Nothing \/ old = new THEN al
  ELSE [i \in DOMAIN al \cup {old} |-> IF i = old THEN new ELSE al[i]]

\* sidecar.write: exactly one of the release and the path's id stays, and a
\* changed id leaves an alias.
Normalised(p, s) ==
  IF s.mb # Nothing THEN [s EXCEPT !.uid = Nothing]
  ELSE IF s.uid = Nothing THEN [s EXCEPT !.uid = PathId(at[p])] ELSE s
WriteSidecar(p, s) ==
  /\ sc' = [sc EXCEPT ![p] = Normalised(p, s)]
  /\ aliases' = IF sc[p] = NoSidecar THEN aliases
                ELSE WithAlias(aliases, SidecarId(sc[p]), SidecarId(Normalised(p, s)))
  /\ known' = [known EXCEPT ![p] = @ \cup {SidecarId(Normalised(p, s))}]

\* The same for every part of an album, and the album's own address led on.
WriteSidecars(a, new, address, now) ==
  LET written == [p \in a |-> Normalised(p, new[p])]
      gone == {p \in a : SidecarId(sc[p]) # SidecarId(written[p])}
      followed == [i \in DOMAIN aliases \cup {SidecarId(sc[p]) : p \in gone} |->
        IF \E p \in gone : SidecarId(sc[p]) = i
          THEN SidecarId(written[CHOOSE p \in gone : SidecarId(sc[p]) = i]) ELSE aliases[i]]
  IN /\ sc' = [p \in Parts |-> IF p \in a THEN written[p] ELSE sc[p]]
     /\ aliases' = WithAlias(followed, address, now)
     /\ known' = [p \in Parts |->
          IF p \in a THEN known[p] \cup {SidecarId(written[p])} \cup ({now} \ {Nothing}) ELSE known[p]]

-----------------------------------------------------------------------------
(* The beginning: directories as found, nothing written yet.               *)

Init ==
  /\ \E b \in Beginnings : at = b[1] /\ tags = b[2]
  /\ sc = [p \in Parts |-> NoSidecar]
  /\ seen = Disk
  /\ aliases = [i \in {} |-> Nothing]
  /\ records = {}
  /\ op = NoOp /\ pass = Resting
  /\ known = [p \in Parts |-> {}]
  /\ acts = 0 /\ faults = 0

\* The snapshot with an album re-read, and the snapshot replaced by one.
Fresh(a) == [p \in Parts |-> IF p \in a THEN Reading(p) ELSE seen[p]]
Rescanned(parts) == seen' = [p \in Parts |-> IF p \in parts THEN Reading(p) ELSE seen[p]]
Scan ==
  /\ seen # Disk
  /\ Rescanned(Parts)
  /\ UNCHANGED <<at, tags, sc, aliases, records, op, pass, known, acts, faults>>

Act(name) == name \in Acts /\ acts < MaxActs /\ acts' = acts + 1
Fault == faults < MaxFaults /\ faults' = faults + 1
Change(f, to) == [file |-> f, before |-> tags[f], after |-> to, act |-> op.act]

-----------------------------------------------------------------------------
(* Tagging an album (tag_with_release), from its place in the snapshot.    *)

Confirm ==
  /\ Act("confirm")
  /\ op = NoOp
  /\ \E a \in Albums(seen), r \in Releases :
       op' = [NoOp EXCEPT !.kind = "tag", !.album = a, !.release = MergedInto[r],
              !.address = IdOf(seen, a), !.sidecars = a, !.todo = FilesOf(a),
              !.target = [f \in FilesOf(a) |-> MergedInto[r]],
              !.act = acts + 1]
  /\ UNCHANGED <<at, tags, sc, seen, aliases, records, pass, known, faults>>

\* One file after the other; a file already right is left alone, and a change
\* is recorded once it is made.
WriteFile ==
  /\ op.kind \in {"tag", "undo"}
  /\ \E f \in op.todo :
       /\ tags' = [tags EXCEPT ![f] = op.target[f]]
       /\ records' = IF tags[f] = op.target[f] THEN records
                      ELSE records \cup {Change(f, op.target[f])}
       /\ op' = [op EXCEPT !.todo = @ \ {f}]
  /\ UNCHANGED <<at, sc, seen, aliases, pass, known, acts, faults>>

\* A file that cannot be written ends the operation where it is.
WriteFails ==
  /\ Fault
  /\ op.todo # {}
  /\ op' = NoOp
  /\ UNCHANGED <<at, tags, sc, seen, aliases, records, pass, known, acts>>

\* Every part's sidecar follows, each keeping what else it said.
SidecarFollows ==
  /\ op.kind = "tag" /\ op.todo = {}
  /\ \E p \in op.sidecars :
       /\ \A q \in op.sidecars : seen[p].at <= seen[q].at
       /\ WriteSidecar(p, [sc[p] EXCEPT !.mb = op.release])
       /\ op' = [op EXCEPT !.sidecars = @ \ {p}]
  /\ UNCHANGED <<at, tags, seen, records, pass, acts, faults>>

\* The page is refreshed; a copy's address is led to where the album is now.
Tagged ==
  /\ op.kind = "tag" /\ op.todo = {} /\ op.sidecars = {}
  /\ Rescanned(op.album)
  /\ \E view \in {Fresh(op.album)} : \E now \in {IdOf(view, AlbumWith(view, First(seen, op.album)))} :
       /\ aliases' = IF now = op.release THEN aliases ELSE WithAlias(aliases, op.address, now)
       /\ known' = [p \in Parts |-> IF p \in op.album THEN known[p] \cup {now} ELSE known[p]]
  /\ op' = NoOp
  /\ UNCHANGED <<at, tags, sc, records, pass, acts, faults>>

-----------------------------------------------------------------------------
(* Undoing a tagging (restore_tags, revert_tags, _unlink_after_revert).    *)

PlanOf(act) == {r \in records : r.act = act}

\* The album's release moves back on every file or on none: all the files there
\* are, all from one release, all still as the tagging left them.
MovesBack(a, plan) ==
  /\ {r.file : r \in plan} = FilesOf(a)
  /\ Cardinality({r.before : r \in plan}) = 1
  /\ \A r \in plan : tags[r.file] = r.after

\* Everything is read before anything is written.
Undo ==
  /\ Act("undo")
  /\ op = NoOp
  /\ \E a \in Albums(seen), act \in 1..acts :
       LET before == (CHOOSE r \in PlanOf(act) : TRUE).before
       IN /\ PlanOf(act) # {} /\ MovesBack(a, PlanOf(act))
          /\ op' = [NoOp EXCEPT !.kind = "undo", !.album = a, !.release = before,
                     !.target = [f \in FilesOf(a) |-> before], !.shown = MergedSidecar(seen, a),
                     !.todo = {f \in FilesOf(a) : tags[f] # before}, !.act = acts + 1]
  /\ UNCHANGED <<at, tags, sc, seen, aliases, records, pass, known, faults>>

\* The sidecar the snapshot showed goes without its release to the album's
\* primary directory, and to no other.
Unlinked ==
  /\ op.kind = "undo" /\ op.todo = {}
  /\ IF op.shown = NoSidecar \/ op.shown.mb = op.release
       THEN UNCHANGED <<sc, aliases, known>>
       ELSE WriteSidecar(Primary(seen, op.album),
              [op.shown EXCEPT !.mb = Nothing])
  /\ op' = NoOp
  /\ UNCHANGED <<at, tags, seen, records, pass, acts, faults>>

-----------------------------------------------------------------------------
(* The "wrong match" pencil (library_rematch) and its undo: both look at   *)
(* the disk first, and refuse an album whose parts have come apart.        *)

Pencil ==
  /\ Act("pencil")
  /\ \E b \in Albums(seen) :
       LET view == Fresh(b)
           a == AlbumWith(view, First(view, b))
           release == sc[Primary(view, a)].mb
           address == IdOf(view, a)
           uid == PathId(at[Primary(view, a)])
       IN /\ release # Nothing
          /\ \A p \in a : sc[p].mb = release
          /\ WriteSidecars(a, [p \in a |-> [mb |-> Nothing, uid |-> uid]],
                           IF address = release THEN Nothing ELSE address, uid)
          /\ seen' = [p \in Parts |-> [Reading(p) EXCEPT !.sc = sc'[p]]]
  /\ UNCHANGED <<at, tags, records, op, pass, faults>>

UndoPencil ==
  /\ Act("undo pencil")
  /\ \E b \in Albums(seen) :
       LET view == Fresh(b)
           a == AlbumWith(view, First(view, b))
           carried == Carried(view, a)
           release == CHOOSE r \in carried : TRUE
           relinked == [p \in a |-> [sc[p] EXCEPT !.mb = release]]
           after == [p \in Parts |-> [Reading(p) EXCEPT !.sc =
                       IF p \in a THEN Normalised(p, relinked[p]) ELSE sc[p]]]
           now == IdOf(after, AlbumWith(after, Primary(view, a)))
       IN /\ MergedSidecar(view, a).mb = Nothing
          /\ \A p \in a : sc[p] # NoSidecar /\ sc[p].mb = Nothing
          /\ Cardinality(carried) = 1
          /\ WriteSidecars(a, relinked, IF now = release THEN Nothing ELSE IdOf(view, a), now)
          /\ seen' = after
  /\ UNCHANGED <<at, tags, records, op, pass, faults>>

-----------------------------------------------------------------------------
(* The reconcile pass, over the albums of the snapshot it starts from.     *)

Orphans == {a \in Albums(seen) : State(seen, a) \in {"new", "tagging"}}
Worth == {a \in Orphans : State(seen, a) = "tagging" \/ Carried(seen, a) # {}}

PassStart ==
  /\ pass = Resting
  /\ Worth # {}
  /\ pass' = [Resting EXCEPT !.step = "next", !.todo = {Primary(seen, a) : a \in Orphans}]
  /\ UNCHANGED <<at, tags, sc, seen, aliases, records, op, known, acts, faults>>

\* reconcile_album, on the album's directory: without a sidecar, what the files
\* name (or, from a store link or a barcode, an album that needs a release);
\* with a release in it that the directory's files agree is another, theirs.
FileIds(p) == {tags[f] : f \in FilesIn(p)} \ {Nothing}
ReconciledNew(p) ==   \* mutant: what the directory says of itself already is left alone
  IF sc[p] # NoSidecar THEN {NoSidecar}
  ELSE IF FileIds(p) # {} THEN {[NoSidecar EXCEPT !.mb = r] : r \in FileIds(p)}
  ELSE {NoSidecar, [NoSidecar EXCEPT !.uid = PathId(at[p])]}
Reconciled(p) ==
  IF sc[p] = NoSidecar
    THEN IF FileIds(p) # {} THEN {[NoSidecar EXCEPT !.mb = r] : r \in FileIds(p)}
         ELSE {NoSidecar, [NoSidecar EXCEPT !.uid = PathId(at[p])]}
  ELSE IF sc[p].mb # Nothing /\ Cardinality(FileIds(p)) = 1 /\ sc[p].mb \notin FileIds(p)
    THEN {[sc[p] EXCEPT !.mb = CHOOSE r \in FileIds(p) : TRUE]}
  ELSE {NoSidecar}

PassRead ==
  /\ pass.step = "next" /\ pass.todo # {}
  /\ \E p \in pass.todo : \E found \in Reconciled(p) :
       pass' = [pass EXCEPT !.step = IF found = NoSidecar THEN "next" ELSE "found",
                            !.todo = @ \ {p}, !.part = p, !.found = found]
  /\ UNCHANGED <<at, tags, sc, seen, aliases, records, op, known, acts, faults>>

PassWrite ==
  /\ pass.step = "found"
  /\ WriteSidecar(pass.part, pass.found)
  /\ pass' = [pass EXCEPT !.step = "next"]
  /\ UNCHANGED <<at, tags, seen, records, op, acts, faults>>

\* A sidecar that a user's action wrote during the search for a barcode stays;
\* the other lookups do not look again.
PassGivesWay ==
  /\ pass.step = "found" /\ pass.found.mb = Nothing
  /\ sc[pass.part] # NoSidecar
  /\ pass' = [pass EXCEPT !.step = "next"]
  /\ UNCHANGED <<at, tags, sc, seen, aliases, records, op, known, acts, faults>>

PassEnd ==
  /\ pass.step = "next" /\ pass.todo = {}
  /\ pass' = Resting
  /\ UNCHANGED <<at, tags, sc, seen, aliases, records, op, known, acts, faults>>

-----------------------------------------------------------------------------
(* The owner's hands on the folder, and the process stopping.              *)

\* A re-tag in Picard, of one directory.
Picard ==
  /\ Act("picard")
  /\ \E p \in There(Disk), r \in Releases \cup {Nothing} :
       /\ \E f \in FilesIn(p) : tags[f] # r
       /\ tags' = [f \in Files |-> IF f \in FilesIn(p) THEN r ELSE tags[f]]
  /\ UNCHANGED <<at, sc, seen, aliases, records, op, pass, known, faults>>

\* A directory appears.
Appear ==
  /\ Act("appear")
  /\ \E p \in Parts, n \in Paths \ {at[q] : q \in Parts} :
       at[p] = Nowhere /\ at' = [at EXCEPT ![p] = n]
  /\ UNCHANGED <<tags, sc, seen, aliases, records, op, pass, known, faults>>

Crash ==
  /\ Fault
  /\ op # NoOp \/ pass # Resting
  /\ op' = NoOp /\ pass' = Resting
  /\ Rescanned(Parts)
  /\ UNCHANGED <<at, tags, sc, aliases, records, known, acts>>

-----------------------------------------------------------------------------
PassSteps == PassRead \/ PassWrite \/ PassGivesWay \/ PassEnd
OpSteps == WriteFile \/ SidecarFollows \/ Tagged \/ Unlinked

Next ==
  \/ Scan \/ Confirm \/ WriteFile \/ WriteFails \/ SidecarFollows \/ Tagged
  \/ Undo \/ Unlinked \/ Pencil \/ UndoPencil
  \/ PassStart \/ PassRead \/ PassWrite \/ PassGivesWay \/ PassEnd
  \/ Picard \/ Appear \/ Crash

Spec == Init /\ [][Next]_vars
\* The scanner's thread and the hourly tick; the reconcile thread, started by
\* every inbox that shows an album it could settle; a request once begun.
FairSpec ==
  Spec /\ WF_vars(Scan) /\ WF_vars(PassStart) /\ WF_vars(PassSteps) /\ WF_vars(OpSteps)

-----------------------------------------------------------------------------
(* Properties.                                                             *)

Quiet == op = NoOp /\ pass = Resting /\ seen = Disk

\* An address opens one album: two albums never answer to the same id, however
\* often a release is on disk and whatever was cleared, undone or re-tagged.
AddressesDiffer ==
  LET catalog == Catalog(seen)
  IN \A x, y \in catalog : x.id = y.id => x = y

\* A link written under an id an album has had still opens an album that has
\* had it, as long as the one that had it is there.
Opens(catalog, id) ==
  \E c \in FindAlbum(catalog, id) : \E p \in c.parts : id \in known[p] \cup {c.id}
LinksReach ==
  Quiet =>
    LET catalog == Catalog(seen)
    IN \A c \in catalog : \A p \in c.parts : \A id \in known[p] : Opens(catalog, id)

\* The same of an album that has shared no id with a directory outside it, now
\* or earlier, nor been a copy of another, and is not back under an id it had left.
AloneUnderItsIds(c) ==
  /\ \A p \in c.parts : known[p] \cap CopyIds = {}
  /\ c.id \notin DOMAIN aliases
  /\ \A p \in c.parts, q \in Parts \ c.parts : known[p] \cap known[q] = {}
LinksReachOnce ==
  Quiet =>
    LET catalog == Catalog(seen)
    IN \A c \in {c \in catalog : AloneUnderItsIds(c)} :
         \A p \in c.parts : \A id \in known[p] : Opens(catalog, id)

\* An undo of a tagging takes the sidecars with it: where they all named the
\* release undone, none is left naming a release no file of the album carries.
UndoFollowed ==
  [][/\ op.kind = "undo" /\ op.todo = {} /\ op' = NoOp
     /\ \A p \in op.album : sc[p].mb = op.shown.mb
     => \A p \in op.album : sc'[p].mb \in {Nothing} \cup Carried(Disk, op.album)]_vars

\* An album whose sidecar and files name different releases does not stay so.
Settled(p) ==
  \/ sc[p].mb = Nothing \/ sc[p].mb \in FileIds(p) \/ Cardinality(FileIds(p)) # 1
  \/ State(Disk, AlbumWith(Disk, p)) # "tagging"
NeverStuck == <>[](\A p \in There(Disk) : Settled(p))

=============================================================================

------------------------- MODULE AlbumIdentityProofs -------------------------
(***************************************************************************)
(* Theorems about AlbumIdentity, for any directories, files, releases and  *)
(* bounds.                                                                  *)
(***************************************************************************)
EXTENDS AlbumIdentity, FiniteSetTheorems, WellFoundedInduction, TLAPS

(***************************************************************************)
(* What a reading's albums are.                                             *)
(***************************************************************************)
MBIDs == Releases \cup {Nothing}
HasId(s) == SidecarId(s) # Nothing

ViewOK(v) ==
  /\ \A p \in Parts : v[p].at \in Paths \cup {Nowhere} /\ v[p].sc \in Sidecar
  /\ \A f \in Files : v[PartOf[f]].tags[f] \in MBIDs
  /\ \A p, q \in Parts : v[p].at # Nowhere /\ v[p].at = v[q].at => p = q

LEMMA PathsAreNumbers ==
  (\A n \in Paths : n \in Nat /\ n # Nowhere) /\ Nowhere \notin Paths /\ Nowhere \in Nat
<1>1. Cardinality(Paths) \in Nat /\ Paths = 1..Cardinality(Paths)
  BY FS_CardinalityType, PathsAssumption
<1> QED BY <1>1 DEF Nowhere

LEMMA IdsAreIds ==
  /\ \A s \in Sidecar : SidecarId(s) \in Releases \cup PathIds \cup {Nothing}
  /\ \A m, n : PathId(m) = PathId(n) => m = n
  /\ \A n \in Paths : PathId(n) \in PathIds
  /\ Nothing \notin Releases /\ Nothing \notin PathIds
  /\ Releases \cap PathIds = {}
  /\ NoSidecar \in Sidecar /\ ~HasId(NoSidecar)
  BY IdsAssumption DEF SidecarId, Sidecar, PathIds, PathId, Ids, NoSidecar, HasId

\* Of things that are numbered, there is a least.
LEMMA HasLeast ==
  ASSUME NEW S, S # {}, NEW f \in [S -> Nat]
  PROVE  \E x \in S : \A y \in S : f[x] <= f[y]
<1> DEFINE T == {f[x] : x \in S}
<1>1. T \subseteq Nat /\ T # {}
  OBVIOUS
<1>2. PICK n \in T : \A m \in T : ~ (<<m, n>> \in OpToRel(<, Nat))
  <2> HIDE DEF T
  <2> QED BY <1>1, NatLessThanWellFounded, WFMin
<1>3. PICK x \in S : n = f[x]
  BY <1>2
<1>4. ASSUME NEW y \in S PROVE f[x] <= f[y]
  <2>1. f[y] \in T /\ f[y] \in Nat /\ f[x] \in Nat
    BY <1>3
  <2>2. ~ (<<f[y], f[x]>> \in OpToRel(<, Nat))
    BY <1>2, <1>3, <2>1
  <2>3. ~ (f[y] < f[x])
    BY <2>1, <2>2 DEF OpToRel
  <2> QED BY <2>1, <2>3
<1> QED BY <1>4

LEMMA PlaceIsNumber ==
  ASSUME NEW v, ViewOK(v), NEW p \in Parts
  PROVE  v[p].at \in Nat
<1>1. v[p].at \in Paths \/ v[p].at = Nowhere
  BY DEF ViewOK
<1> QED BY <1>1, PathsAreNumbers

LEMMA FirstIsOne ==
  ASSUME NEW v, ViewOK(v), NEW S \in SUBSET Parts, S # {}
  PROVE  First(v, S) \in S
<1> DEFINE f == [p \in S |-> v[p].at]
<1>1. f \in [S -> Nat]
  BY PlaceIsNumber
<1>2. PICK p \in S : \A q \in S : f[p] <= f[q]
  <2> HIDE DEF f
  <2> QED BY <1>1, HasLeast
<1>3. \A q \in S : v[p].at <= v[q].at
  BY <1>2
<1> QED BY <1>3 DEF First

LEMMA SomeFiles ==
  ASSUME NEW p \in Parts
  PROVE  /\ FilesIn(p) \in SUBSET Files
         /\ Cardinality(FilesIn(p)) \in Nat /\ Cardinality(Files) \in Nat
         /\ Cardinality(FilesIn(p)) <= Cardinality(Files)
<1>1. FilesIn(p) \in SUBSET Files
  BY DEF FilesIn
<1> QED BY <1>1, FS_Subset, FS_CardinalityType, PartsAssumption

LEMMA PrimaryIsOne ==
  ASSUME NEW v, ViewOK(v), NEW a \in SUBSET Parts, a # {}
  PROVE  Primary(v, a) \in a
<1> DEFINE f == [p \in a |-> Cardinality(Files) - Cardinality(FilesIn(p))]
<1>1. f \in [a -> Nat]
  BY SomeFiles
<1>2. PICK p \in a : \A q \in a : f[p] <= f[q]
  <2> HIDE DEF f
  <2> QED BY <1>1, HasLeast
<1>3. \A q \in a : Cardinality(FilesIn(p)) >= Cardinality(FilesIn(q))
  <2>1. \A q \in a : Cardinality(Files) - Cardinality(FilesIn(p))
                     <= Cardinality(Files) - Cardinality(FilesIn(q))
    BY <1>2
  <2> QED BY <2>1, SomeFiles
<1> DEFINE S == {q \in a : Cardinality(FilesIn(q)) = Cardinality(FilesIn(p))}
           g == [q \in S |-> v[q].at]
<1>4. g \in [S -> Nat] /\ S # {}
  <2>1. \A q \in S : q \in Parts
    OBVIOUS
  <2> QED BY <2>1, PlaceIsNumber
<1>5. PICK r \in S : \A q \in S : g[r] <= g[q]
  <2> HIDE DEF g, S
  <2> QED BY <1>4, HasLeast
<1>6. r \in a /\ Cardinality(FilesIn(r)) = Cardinality(FilesIn(p))
  OBVIOUS
<1>7. \A q \in a :
        \/ Cardinality(FilesIn(r)) > Cardinality(FilesIn(q))
        \/ Cardinality(FilesIn(r)) = Cardinality(FilesIn(q)) /\ v[r].at <= v[q].at
  <2> SUFFICES ASSUME NEW q \in a, ~(Cardinality(FilesIn(r)) > Cardinality(FilesIn(q)))
               PROVE  Cardinality(FilesIn(r)) = Cardinality(FilesIn(q)) /\ v[r].at <= v[q].at
    OBVIOUS
  <2>1. Cardinality(FilesIn(q)) = Cardinality(FilesIn(p))
    BY <1>3, <1>6, SomeFiles
  <2>2. q \in S
    BY <2>1
  <2>3. v[r].at <= v[q].at
    BY <1>5, <2>2
  <2> QED BY <1>6, <2>1, <2>3
<1> QED BY <1>6, <1>7 DEF Primary

\* The albums of a reading are its directories, each in one of them; an album of
\* several directories has an identity, which each of them gives.
LEMMA AlbumsPartition ==
  ASSUME NEW v
  PROVE  /\ \A a \in Albums(v) : a # {} /\ a \in SUBSET There(v)
         /\ \A p \in There(v) : \E a \in Albums(v) : p \in a
         /\ \A a, b \in Albums(v) : \A p \in a \cap b : a = b
         /\ \A a \in Albums(v) : \A p, q \in a : SidecarId(v[p].sc) = SidecarId(v[q].sc)
<1> DEFINE group == Group(v)
           Class(p) == {q \in Alike(v) : group[p] = group[q] /\ SameIdentity(v, p, q)}
<1>1. Albums(v) = {{p} : p \in There(v) \ Alike(v)} \cup {Class(p) : p \in Alike(v)}
  BY DEF Albums
<1>2. \A p \in Alike(v) : p \in There(v) /\ p \in Class(p)
  BY DEF Alike, SameIdentity
<1>3. \A p, q \in Alike(v) : q \in Class(p) => Class(p) = Class(q)
  BY DEF SameIdentity
<1>4. \A p \in Alike(v) : \A q \in Class(p) : q \in Alike(v) /\ SidecarId(v[p].sc) = SidecarId(v[q].sc)
  BY DEF SameIdentity
<1> HIDE DEF Class, group
<1>5. \A a \in Albums(v) : a # {} /\ a \in SUBSET There(v)
  BY <1>1, <1>2, <1>4
<1>6. \A p \in There(v) : \E a \in Albums(v) : p \in a
  BY <1>1, <1>2
<1>7. ASSUME NEW a \in Albums(v), NEW b \in Albums(v), NEW p \in a \cap b PROVE a = b
  <2>1. CASE p \in Alike(v)
    <3>1. \A c \in Albums(v) : p \in c => c = Class(p)
      BY <1>1, <1>3, <2>1
    <3> QED BY <1>7, <3>1
  <2>2. CASE p \notin Alike(v)
    <3>1. \A c \in Albums(v) : p \in c => c = {p}
      BY <1>1, <1>4, <2>2
    <3> QED BY <1>7, <3>1
  <2> QED BY <2>1, <2>2
<1>8. \A a \in Albums(v) : \A p, q \in a : SidecarId(v[p].sc) = SidecarId(v[q].sc)
  <2>1. ASSUME NEW a \in Albums(v), NEW p \in a, NEW q \in a
        PROVE  SidecarId(v[p].sc) = SidecarId(v[q].sc)
    <3>1. (\E r \in There(v) \ Alike(v) : a = {r}) \/ \E r \in Alike(v) : a = Class(r)
      BY <1>1
    <3> QED BY <1>4, <2>1, <3>1
  <2> QED BY <2>1
<1> QED BY <1>5, <1>6, <1>7, <1>8

LEMMA AlbumParts ==
  ASSUME NEW v, ViewOK(v), NEW a \in Albums(v)
  PROVE  /\ a \in SUBSET Parts /\ a # {}
         /\ First(v, a) \in a /\ Primary(v, a) \in a
         /\ v[Primary(v, a)].at \in Paths
         /\ \A p \in a : SidecarId(v[p].sc) = SidecarId(MergedSidecar(v, a))
<1>1. a # {} /\ a \in SUBSET There(v) /\ There(v) \subseteq Parts
  BY AlbumsPartition DEF There
<1>2. First(v, a) \in a /\ Primary(v, a) \in a
  BY <1>1, FirstIsOne, PrimaryIsOne
<1>3. \A p \in a : SidecarId(v[p].sc) = SidecarId(MergedSidecar(v, a))
  BY <1>2, AlbumsPartition DEF MergedSidecar
<1>4. v[Primary(v, a)].at \in Paths
  BY <1>1, <1>2 DEF There, ViewOK
<1> QED BY <1>1, <1>2, <1>3, <1>4

(***************************************************************************)
(* A sidecar without a release has the id of a directory's path.  It keeps  *)
(* no other album from its address if that directory has an identity too.   *)
(***************************************************************************)
Knows(v, uid) == \E p \in There(v) : PathId(v[p].at) = uid /\ HasId(v[p].sc)
Anchored(v) == \A p \in Parts : v[p].sc.uid # Nothing => Knows(v, v[p].sc.uid)

LEMMA IdsDiffer ==
  ASSUME NEW v, ViewOK(v), Anchored(v), NEW a \in Albums(v), NEW b \in Albums(v),
         AlbumId(v, Albums(v), a) = AlbumId(v, Albums(v), b)
  PROVE  a = b
<1> DEFINE Own(c) == SidecarId(MergedSidecar(v, c))
           Place(c) == v[Primary(v, c)].at
           Copies(c) == {d \in Albums(v) : Own(d) = Own(c)}
           Shared(c) == Own(c) # Nothing /\ Cardinality(Copies(c)) > 1
<1>1. \A c \in Albums(v) :
        AlbumId(v, Albums(v), c) = IF Shared(c) THEN <<Own(c), Place(c)>>
                                   ELSE IF Own(c) # Nothing THEN Own(c) ELSE <<Place(c)>>
  BY DEF AlbumId, BareId, PathId
<1>2. \A c \in Albums(v) : Place(c) \in Paths /\ Own(c) \in Releases \cup PathIds \cup {Nothing}
  <2> SUFFICES ASSUME NEW c \in Albums(v)
               PROVE  Place(c) \in Paths /\ Own(c) \in Releases \cup PathIds \cup {Nothing}
    OBVIOUS
  <2>1. MergedSidecar(v, c) \in Sidecar
    BY AlbumParts DEF MergedSidecar, ViewOK
  <2> QED BY <2>1, AlbumParts, IdsAreIds
<1>3. ASSUME NEW c \in Albums(v), NEW d \in Albums(v), Place(c) = Place(d) PROVE c = d
  <2>1. /\ Primary(v, c) \in c /\ Primary(v, d) \in d
        /\ Primary(v, c) \in Parts /\ Primary(v, d) \in Parts /\ Place(c) # Nowhere
    BY AlbumParts, PathsAreNumbers
  <2>2. Primary(v, c) = Primary(v, d)
    BY <1>3, <2>1 DEF ViewOK
  <2> QED BY <2>1, <2>2, AlbumsPartition
<1>4. ASSUME NEW c \in Albums(v), NEW d \in Albums(v), c # d, Own(c) = Own(d), Own(c) # Nothing
      PROVE  Shared(c) /\ Shared(d)
  <2>1. IsFiniteSet(SUBSET Parts) /\ Albums(v) \subseteq SUBSET Parts
    BY FS_SUBSET, PartsAssumption, AlbumParts
  <2>2. {c, d} \subseteq Copies(c) /\ Copies(c) = Copies(d) /\ Copies(c) \subseteq SUBSET Parts
    BY <1>4, <2>1
  <2>3. IsFiniteSet(Copies(c)) /\ Cardinality(Copies(c)) \in Nat
    BY <2>1, <2>2, FS_Subset, FS_CardinalityType
  <2>4. Cardinality({c} \cup {d}) = 2
    <3>1. IsFiniteSet({c}) /\ Cardinality({c}) = 1 /\ d \notin {c}
      BY <1>4, FS_Singleton
    <3> HIDE DEF Own
    <3> QED BY <3>1, FS_AddElement
  <2>5. Cardinality({c} \cup {d}) <= Cardinality(Copies(c))
    BY <2>2, <2>3, FS_Subset
  <2> QED BY <1>4, <2>2, <2>3, <2>4, <2>5
<1>5. ASSUME NEW c \in Albums(v), NEW d \in Albums(v), Own(c) = <<Place(d)>>, Own(d) = Nothing
      PROVE  FALSE
  <2>1. PICK p \in c : p = First(v, c)
    BY AlbumParts
  <2>2. p \in Parts /\ v[p].sc \in Sidecar /\ Own(c) = SidecarId(v[p].sc)
    BY <2>1, AlbumParts DEF ViewOK, MergedSidecar
  <2>3. Own(c) \in PathIds
    BY <1>2, <1>5 DEF PathIds, PathId
  <2>4. v[p].sc.uid = Own(c) /\ v[p].sc.uid # Nothing
    BY <2>2, <2>3, IdsAreIds DEF SidecarId, Sidecar
  <2>5. PICK q \in There(v) : PathId(v[q].at) = Own(c) /\ HasId(v[q].sc)
    BY <2>2, <2>4 DEF Anchored, Knows
  <2>6. v[q].at = Place(d) /\ q \in Parts /\ v[q].at # Nowhere
    BY <1>5, <2>5 DEF PathId, There
  <2>7. q = Primary(v, d)
    BY <2>6, AlbumParts DEF ViewOK
  <2>8. SidecarId(v[q].sc) = Own(d)
    BY <2>7, AlbumParts
  <2> QED BY <1>5, <2>5, <2>8 DEF HasId
<1>6. \A c, d \in Albums(v) : <<Own(c), Place(c)>> # <<Place(d)>>
  OBVIOUS
<1>7. ASSUME NEW c \in Albums(v), NEW d \in Albums(v), Shared(c) PROVE <<Own(c), Place(c)>> # Own(d)
  <2>1. <<Own(c), Place(c)>> \in CopyIds
    BY <1>2, <1>7 DEF CopyIds
  <2>2. <<Own(c), Place(c)>> \notin Releases /\ <<Own(c), Place(c)>> # Nothing
    BY <2>1, IdsAssumption DEF Ids
  <2>3. <<Own(c), Place(c)>> \notin PathIds
    BY DEF PathIds, PathId
  <2> QED BY <1>2, <2>2, <2>3
<1> HIDE DEF Own, Place, Shared
<1>8. CASE Shared(a) /\ Shared(b)
  BY <1>1, <1>3, <1>8
<1>9. CASE Shared(a) /\ ~Shared(b)
  BY <1>1, <1>6, <1>7, <1>9
<1>10. CASE ~Shared(a) /\ Shared(b)
  BY <1>1, <1>6, <1>7, <1>10
<1>11. CASE ~Shared(a) /\ ~Shared(b)
  BY <1>1, <1>3, <1>4, <1>5, <1>11
<1> QED BY <1>8, <1>9, <1>10, <1>11

(***************************************************************************)
(* The inductive invariant.                                                 *)
(***************************************************************************)
Placed == {p \in Parts : at[p] # Nowhere}

TypeOK ==
  /\ at \in [Parts -> Paths \cup {Nowhere}]
  /\ tags \in [Files -> MBIDs]
  /\ sc \in [Parts -> Sidecar]
  /\ \A p \in Parts : seen[p].at \in Paths \cup {Nowhere} /\ seen[p].sc \in Sidecar
  /\ \A f \in Files : seen[PartOf[f]].tags[f] \in MBIDs
  /\ \A r \in records : r.before \in MBIDs

\* What a tagging or an undo is about to write, and where.
OpOK ==
  /\ {"kind", "album", "release", "shown", "target", "todo", "sidecars", "act"} \subseteq DOMAIN op
  /\ op.album \subseteq Placed
  /\ op.kind = "tag" => op.release \in Releases
  /\ op.kind = "undo" => op.album # {}
  /\ op.sidecars \subseteq op.album
  /\ op.shown \in Sidecar
  /\ \A f \in op.todo : f \in Files /\ op.target[f] \in MBIDs

\* What the reconcile pass is about to write: a release, or the directory's own id.
PassOK ==
  /\ {"step", "todo", "part", "found"} \subseteq DOMAIN pass
  /\ pass.todo \subseteq Placed
  /\ pass.step = "found" =>
       /\ pass.part \in Placed /\ pass.found \in Sidecar
       /\ pass.found.mb # Nothing \/ pass.found.uid = PathId(at[pass.part])

\* A directory stays where it is and keeps an identity once it has one, and the
\* snapshot is behind in both.
SeenInv ==
  /\ \A p, q \in Placed : at[p] = at[q] => p = q
  /\ \A p \in Parts : seen[p].at \in {at[p], Nowhere}
  /\ \A p \in Parts : HasId(seen[p].sc) => HasId(sc[p])

\* A sidecar with the id of another directory's path was written when the
\* snapshot showed that directory with an identity.
AnchorInv ==
  /\ Anchored(seen)
  /\ \A p \in Parts : sc[p].uid # Nothing =>
       (p \in Placed /\ sc[p].uid = PathId(at[p])) \/ Knows(seen, sc[p].uid)
  /\ op.shown.uid # Nothing => Knows(seen, op.shown.uid)

IdInv == TypeOK /\ OpOK /\ PassOK /\ SeenInv /\ AnchorInv

LEMMA DiskViewOK ==
  ASSUME TypeOK, SeenInv, NEW v,
         \A p \in Parts : v[p] = seen[p] \/ v[p] = Reading(p)
  PROVE  ViewOK(v) /\ There(v) \subseteq Placed
<1>1. \A p \in Parts : v[p].at \in {at[p], Nowhere} /\ v[p].sc \in Sidecar
  <2> SUFFICES ASSUME NEW p \in Parts PROVE v[p].at \in {at[p], Nowhere} /\ v[p].sc \in Sidecar
    OBVIOUS
  <2>1. CASE v[p] = seen[p]
    BY <2>1 DEF TypeOK, SeenInv
  <2>2. CASE v[p] = Reading(p)
    BY <2>2 DEF TypeOK, Reading
  <2> QED BY <2>1, <2>2
<1>2. \A f \in Files : v[PartOf[f]].tags[f] \in MBIDs
  <2> SUFFICES ASSUME NEW f \in Files PROVE v[PartOf[f]].tags[f] \in MBIDs
    OBVIOUS
  <2>1. PartOf[f] \in Parts /\ f \in FilesIn(PartOf[f])
    BY PartsAssumption DEF FilesIn
  <2>2. Reading(PartOf[f]).tags[f] = tags[f]
    BY <2>1 DEF Reading
  <2> QED BY <2>1, <2>2 DEF TypeOK
<1>3. \A p, q \in Parts : v[p].at # Nowhere /\ v[p].at = v[q].at => p = q
  BY <1>1 DEF SeenInv, Placed
<1>4. There(v) \subseteq Placed
  BY <1>1 DEF There, Placed
<1>5. \A p \in Parts : v[p].at \in Paths \cup {Nowhere}
  BY <1>1 DEF TypeOK
<1> QED BY <1>1, <1>2, <1>3, <1>4, <1>5 DEF ViewOK

LEMMA SeenViewOK ==
  ASSUME TypeOK, SeenInv PROVE ViewOK(seen) /\ There(seen) \subseteq Placed
  BY DiskViewOK

LEMMA FreshViewOK ==
  ASSUME TypeOK, SeenInv, NEW S PROVE ViewOK(Fresh(S)) /\ There(Fresh(S)) \subseteq Placed
<1>1. \A p \in Parts : Fresh(S)[p] = seen[p] \/ Fresh(S)[p] = Reading(p)
  BY DEF Fresh
<1> QED BY <1>1, DiskViewOK

\* Two albums of a snapshot have two addresses.
LEMMA SeenDiffer ==
  ASSUME IdInv PROVE AddressesDiffer
<1>1. ViewOK(seen) /\ Anchored(seen)
  BY SeenViewOK DEF IdInv, AnchorInv
<1>2. \A a, b \in Albums(seen) :
        AlbumId(seen, Albums(seen), a) = AlbumId(seen, Albums(seen), b) => a = b
  BY <1>1, IdsDiffer
<1> QED BY <1>2 DEF AddressesDiffer, Catalog

(***************************************************************************)
(* Every step keeps the invariant.                                          *)
(***************************************************************************)
LEMMA NormalisedOK ==
  ASSUME TypeOK, NEW p \in Placed, NEW s \in Sidecar
  PROVE  /\ Normalised(p, s) \in Sidecar /\ HasId(Normalised(p, s))
         /\ Normalised(p, s).uid # Nothing =>
              \/ Normalised(p, s).uid = PathId(at[p])
              \/ s.mb = Nothing /\ Normalised(p, s).uid = s.uid
<1>1. PathId(at[p]) \in PathIds /\ Nothing \notin Releases /\ Nothing \notin PathIds
  BY IdsAreIds DEF TypeOK, Placed
<1> QED BY <1>1 DEF Normalised, Sidecar, HasId, SidecarId

LEMMA OneSidecar ==
  ASSUME TypeOK, NEW p \in Placed, NEW s \in Sidecar, WriteSidecar(p, s)
  PROVE  /\ sc' \in [Parts -> Sidecar]
         /\ \A q \in Parts : HasId(sc[q]) => HasId(sc'[q])
         /\ \A q \in Parts : q # p => sc'[q] = sc[q]
         /\ sc'[p].uid # Nothing =>
              \/ sc'[p].uid = PathId(at[p])
              \/ s.mb = Nothing /\ sc'[p].uid = s.uid
<1>1. p \in Parts /\ sc' = [sc EXCEPT ![p] = Normalised(p, s)]
  BY DEF Placed, WriteSidecar
<1> QED BY <1>1, NormalisedOK DEF TypeOK

\* What changes only in the ways that directories, sidecars and readings do.
Placing ==
  /\ at' \in [Parts -> Paths \cup {Nowhere}]
  /\ \A p \in Placed : at'[p] = at[p]
  /\ \A p, q \in Parts : at'[p] # Nowhere /\ at'[p] = at'[q] => p = q
Reread == \A p \in Parts : seen'[p] = seen[p] \/ (seen'[p].at = at'[p] /\ seen'[p].sc = sc'[p])
Identified ==
  /\ \A p \in Parts : HasId(sc[p]) => HasId(sc'[p])
  /\ \A p \in Parts : sc'[p].uid # Nothing =>
       \/ p \in Placed /\ sc'[p].uid = PathId(at[p])
       \/ Knows(seen, sc'[p].uid)
       \/ Knows(seen', sc'[p].uid)
  /\ op'.shown.uid # Nothing => Knows(seen, op'.shown.uid)

LEMMA Evolution ==
  ASSUME TypeOK, SeenInv, AnchorInv, Placing, Reread, Identified
  PROVE  SeenInv' /\ AnchorInv'
<1>1. \A p \in Parts : seen'[p].at \in {at'[p], Nowhere}
  BY DEF SeenInv, Reread, Placing, Placed, TypeOK
<1>2. \A p \in Parts : HasId(seen'[p].sc) => HasId(sc'[p])
  BY DEF SeenInv, Reread, Identified
<1>3. SeenInv'
  BY <1>1, <1>2 DEF SeenInv, Placing, Placed, HasId
<1>4. ASSUME NEW uid, Knows(seen, uid) PROVE Knows(seen', uid)
  <2>1. PICK p \in There(seen) : PathId(seen[p].at) = uid /\ HasId(seen[p].sc)
    BY <1>4 DEF Knows
  <2>2. p \in Placed /\ seen[p].at = at[p] /\ at'[p] = at[p] /\ p \in Parts
    BY <2>1 DEF There, SeenInv, Placed, Placing
  <2>3. seen'[p].at = seen[p].at /\ HasId(seen'[p].sc)
    BY <2>1, <2>2 DEF Reread, SeenInv, Identified
  <2> QED BY <2>1, <2>2, <2>3 DEF Knows, There
<1>5. ASSUME NEW p \in Parts, seen'[p].sc.uid # Nothing PROVE Knows(seen', seen'[p].sc.uid)
  <2>1. CASE seen'[p] = seen[p]
    BY <1>4, <1>5, <2>1 DEF AnchorInv, Anchored
  <2>2. CASE /\ seen'[p].at = at'[p] /\ seen'[p].sc = sc'[p]
             /\ p \in Placed /\ sc'[p].uid = PathId(at[p])
    <3>1. at'[p] = at[p] /\ at[p] # Nowhere
      BY <2>2 DEF Placing, Placed
    <3>2. HasId(seen'[p].sc)
      BY <1>5, <2>2 DEF HasId, SidecarId
    <3> QED BY <2>2, <3>1, <3>2 DEF Knows, There
  <2> QED BY <1>4, <1>5, <2>1, <2>2 DEF Reread, Identified
<1>6. Anchored(seen)'
  BY <1>5 DEF Anchored, Knows, There, HasId
<1>7. ASSUME NEW p \in Parts, sc'[p].uid # Nothing
      PROVE  (p \in Placed' /\ sc'[p].uid = PathId(at'[p])) \/ Knows(seen', sc'[p].uid)
  <2>1. CASE p \in Placed /\ sc'[p].uid = PathId(at[p])
    BY <2>1 DEF Placing, Placed
  <2> QED BY <1>4, <1>7, <2>1 DEF Identified
<1>8. op'.shown.uid # Nothing => Knows(seen', op'.shown.uid)
  BY <1>4 DEF Identified
<1> HIDE DEF Anchored, Knows
<1>9. AnchorInv'
  BY <1>6, <1>7, <1>8 DEF AnchorInv, Knows, There, HasId
<1> QED BY <1>3, <1>9

\* Where the directories stay and the sidecars too, so does what they stand for.
LEMMA SidecarsStay ==
  ASSUME IdInv, UNCHANGED <<at, sc>>, op'.shown.uid # Nothing => Knows(seen, op'.shown.uid)
  PROVE  Placing /\ Identified /\ Placed' = Placed
<1>1. Placed' = Placed
  BY DEF Placed
<1> QED BY <1>1 DEF IdInv, TypeOK, SeenInv, AnchorInv, Placing, Placed, Identified

LEMMA NothingReread == ASSUME seen' = seen PROVE Reread
  BY DEF Reread

LEMMA RestingOK ==
  /\ op' = NoOp => OpOK' /\ op'.shown.uid = Nothing
  /\ pass' = Resting => PassOK'
<1>1. op' = NoOp => OpOK' /\ op'.shown.uid = Nothing
  BY IdsAreIds DEF NoOp, OpOK, NoSidecar
<1> QED BY <1>1 DEF Resting, PassOK

LEMMA SameOp ==
  ASSUME OpOK, op' = op, Placed \subseteq Placed' PROVE OpOK'
  BY DEF OpOK

LEMMA SamePass ==
  ASSUME PassOK, pass' = pass, Placed \subseteq Placed', \A p \in Placed : at'[p] = at[p]
  PROVE  PassOK'
  BY DEF PassOK

LEMMA RescannedTypes ==
  ASSUME TypeOK, NEW S, Rescanned(S), UNCHANGED <<at, tags, sc, records>>
  PROVE  TypeOK' /\ Reread
<1>1. \A p \in Parts : seen'[p] = seen[p] \/ seen'[p] = Reading(p)
  BY DEF Rescanned
<1>2. \A p \in Parts : Reading(p).at = at[p] /\ Reading(p).sc = sc[p]
  BY DEF Reading
<1>3. \A f \in Files : PartOf[f] \in Parts /\ Reading(PartOf[f]).tags[f] = tags[f]
  BY PartsAssumption DEF Reading, FilesIn
<1>4. /\ \A p \in Parts : seen'[p].at \in Paths \cup {Nowhere} /\ seen'[p].sc \in Sidecar
      /\ \A f \in Files : seen'[PartOf[f]].tags[f] \in MBIDs
  BY <1>1, <1>2, <1>3 DEF TypeOK
<1>5. Reread
  BY <1>1, <1>2 DEF Reread
<1> QED BY <1>4, <1>5 DEF TypeOK

LEMMA ScanStep ==
  ASSUME IdInv, Scan \/ Crash \/ Tagged PROVE IdInv'
<1>1. \E S : Rescanned(S)
  BY DEF Scan, Crash, Tagged
<1>2. /\ UNCHANGED <<at, tags, sc, records>>
      /\ op' \in {op, NoOp} /\ pass' \in {pass, Resting}
  BY DEF Scan, Crash, Tagged
<1>3. TypeOK' /\ Reread
  BY <1>1, <1>2, RescannedTypes DEF IdInv
<1>4. op'.shown.uid # Nothing => Knows(seen, op'.shown.uid)
  BY <1>2, RestingOK DEF IdInv, AnchorInv
<1>5. Placing /\ Identified /\ Placed' = Placed
  BY <1>2, <1>4, SidecarsStay
<1>6. OpOK' /\ PassOK'
  BY <1>2, <1>5, RestingOK, SameOp, SamePass DEF IdInv
<1> QED BY <1>3, <1>5, <1>6, Evolution DEF IdInv

\* Of an album in the snapshot: where it is, and what its sidecar says.
LEMMA SeenAlbum ==
  ASSUME IdInv, NEW a \in Albums(seen)
  PROVE  /\ a \subseteq Placed /\ a # {} /\ Primary(seen, a) \in Placed
         /\ MergedSidecar(seen, a) \in Sidecar
         /\ MergedSidecar(seen, a).uid # Nothing => Knows(seen, MergedSidecar(seen, a).uid)
<1>1. ViewOK(seen) /\ There(seen) \subseteq Placed
  BY SeenViewOK DEF IdInv
<1>2. a # {} /\ a \subseteq Placed
  BY <1>1, AlbumsPartition
<1>3. /\ First(seen, a) \in a /\ Primary(seen, a) \in a /\ a \subseteq Parts
  BY <1>1, AlbumParts
<1>4. MergedSidecar(seen, a) = seen[First(seen, a)].sc
  BY DEF MergedSidecar
<1> QED BY <1>2, <1>3, <1>4 DEF IdInv, TypeOK, AnchorInv, Anchored

LEMMA ConfirmStep ==
  ASSUME IdInv, Confirm PROVE IdInv'
<1>1. PICK a \in Albums(seen), r \in Releases :
        op' = [NoOp EXCEPT !.kind = "tag", !.album = a, !.release = MergedInto[r],
               !.address = IdOf(seen, a), !.sidecars = a, !.todo = FilesOf(a),
               !.target = [f \in FilesOf(a) |-> MergedInto[r]], !.act = acts + 1]
  BY DEF Confirm
<1>2. UNCHANGED <<at, tags, sc, seen, records, pass>>
  BY DEF Confirm
<1>3. /\ op'.kind = "tag" /\ op'.album = a /\ op'.release = MergedInto[r] /\ op'.sidecars = a
      /\ op'.todo = FilesOf(a) /\ op'.target = [f \in FilesOf(a) |-> MergedInto[r]]
      /\ op'.shown = NoSidecar
      /\ {"kind", "album", "release", "shown", "target", "todo", "sidecars", "act"} \subseteq DOMAIN op'
  BY <1>1 DEF NoOp
<1>4. MergedInto[r] \in Releases /\ NoSidecar \in Sidecar /\ NoSidecar.uid = Nothing
  BY PartsAssumption, IdsAreIds DEF NoSidecar
<1>5. Placing /\ Identified /\ Placed' = Placed
  BY <1>2, <1>3, <1>4, SidecarsStay
<1>6. OpOK'
  BY <1>3, <1>4, <1>5, SeenAlbum DEF OpOK, MBIDs, FilesOf
<1>7. TypeOK' /\ PassOK'
  BY <1>2, <1>5, SamePass DEF IdInv, TypeOK
<1> QED BY <1>2, <1>5, <1>6, <1>7, NothingReread, Evolution DEF IdInv

\* An undo writes what a tagging found.
LEMMA UndoStep ==
  ASSUME IdInv, Undo PROVE IdInv'
<1>1. PICK a \in Albums(seen), act \in 1..acts :
        LET before == (CHOOSE r \in PlanOf(act) : TRUE).before
        IN /\ PlanOf(act) # {}
           /\ op' = [NoOp EXCEPT !.kind = "undo", !.album = a, !.release = before,
                      !.target = [f \in FilesOf(a) |-> before], !.shown = MergedSidecar(seen, a),
                      !.todo = {f \in FilesOf(a) : tags[f] # before}, !.act = acts + 1]
  BY DEF Undo
<1> DEFINE before == (CHOOSE r \in PlanOf(act) : TRUE).before
<1>2. before \in MBIDs
  <2>1. (CHOOSE r \in PlanOf(act) : TRUE) \in records
    BY <1>1 DEF PlanOf
  <2> QED BY <2>1 DEF IdInv, TypeOK
<1>3. /\ op'.kind = "undo" /\ op'.album = a /\ op'.sidecars = {}
      /\ op'.todo \subseteq FilesOf(a) /\ op'.target = [f \in FilesOf(a) |-> before]
      /\ op'.shown = MergedSidecar(seen, a)
      /\ {"kind", "album", "release", "shown", "target", "todo", "sidecars", "act"} \subseteq DOMAIN op'
  BY <1>1 DEF NoOp
<1> HIDE DEF before
<1>4. UNCHANGED <<at, tags, sc, seen, records, pass>>
  BY DEF Undo
<1>5. Placing /\ Identified /\ Placed' = Placed
  BY <1>3, <1>4, SeenAlbum, SidecarsStay
<1>6. OpOK'
  BY <1>2, <1>3, <1>5, SeenAlbum DEF OpOK, FilesOf
<1>7. TypeOK' /\ PassOK'
  BY <1>4, <1>5, SamePass DEF IdInv, TypeOK
<1> QED BY <1>4, <1>5, <1>6, <1>7, NothingReread, Evolution DEF IdInv

LEMMA FileStep ==
  ASSUME IdInv, WriteFile \/ WriteFails \/ Picard PROVE IdInv'
<1>1. UNCHANGED <<at, sc, seen, pass>>
  BY DEF WriteFile, WriteFails, Picard
<1>2. /\ tags' \in [Files -> MBIDs] /\ \A r \in records' : r.before \in MBIDs
      /\ op' \in {op, NoOp} \/ \E f \in op.todo : op' = [op EXCEPT !.todo = @ \ {f}]
  <2>1. CASE WriteFile
    <3>1. PICK f \in op.todo :
            /\ tags' = [tags EXCEPT ![f] = op.target[f]]
            /\ records' = IF tags[f] = op.target[f] THEN records
                           ELSE records \cup {Change(f, op.target[f])}
            /\ op' = [op EXCEPT !.todo = @ \ {f}]
      BY <2>1 DEF WriteFile
    <3>2. op.target[f] \in MBIDs /\ tags \in [Files -> MBIDs] /\ \A r \in records : r.before \in MBIDs
      BY DEF IdInv, OpOK, TypeOK
    <3>3. tags' \in [Files -> MBIDs]
      BY <3>1, <3>2
    <3>4. f \in Files => Change(f, op.target[f]).before \in MBIDs
      BY <3>2 DEF Change
    <3>5. f \in Files
      BY DEF IdInv, OpOK
    <3> QED BY <3>1, <3>2, <3>3, <3>4, <3>5
  <2>2. CASE WriteFails
    BY <2>2 DEF WriteFails, IdInv, TypeOK
  <2>3. CASE Picard
    <3>1. PICK p \in There(Disk), r \in Releases \cup {Nothing} :
            tags' = [f \in Files |-> IF f \in FilesIn(p) THEN r ELSE tags[f]]
      BY <2>3 DEF Picard
    <3> QED BY <2>3, <3>1 DEF Picard, IdInv, TypeOK, MBIDs
  <2> QED BY <2>1, <2>2, <2>3
<1>3. OpOK' /\ op'.shown \in {op.shown, NoSidecar}
  <2>1. CASE op' \in {op, NoOp}
    BY <1>1, <2>1, RestingOK, SameOp DEF IdInv, NoOp, Placed
  <2>2. CASE \E f \in op.todo : op' = [op EXCEPT !.todo = @ \ {f}]
    <3>1. /\ DOMAIN op' = DOMAIN op
          /\ op'.kind = op.kind /\ op'.album = op.album /\ op'.release = op.release
          /\ op'.sidecars = op.sidecars /\ op'.shown = op.shown /\ op'.target = op.target
          /\ op'.todo \subseteq op.todo
      BY <2>2 DEF IdInv, OpOK
    <3>2. Placed' = Placed
      BY <1>1 DEF Placed
    <3> QED BY <3>1, <3>2 DEF IdInv, OpOK
  <2> QED BY <1>2, <2>1, <2>2
<1>4. Placing /\ Identified /\ Placed' = Placed
  BY <1>1, <1>3, SidecarsStay DEF IdInv, AnchorInv, NoSidecar
<1>5. TypeOK' /\ PassOK'
  BY <1>1, <1>2, <1>4, SamePass DEF IdInv, TypeOK
<1> QED BY <1>1, <1>3, <1>4, <1>5, NothingReread, Evolution DEF IdInv

\* What a directory's files say, and what they would be put under.
LEMMA ReconciledOK ==
  ASSUME IdInv, NEW p \in Placed, NEW found \in Reconciled(p), found # NoSidecar
  PROVE  found \in Sidecar /\ (found.mb # Nothing \/ found.uid = PathId(at[p]))
<1>1. FileIds(p) \subseteq Releases
  BY DEF FileIds, FilesIn, IdInv, TypeOK, MBIDs
<1>2. sc[p] \in Sidecar /\ PathId(at[p]) \in PathIds /\ Nothing \notin Releases
  BY IdsAreIds DEF IdInv, TypeOK, Placed
<1>3. CASE sc[p] = NoSidecar
  <2>1. \/ \E r \in FileIds(p) : found = [NoSidecar EXCEPT !.mb = r]
        \/ found = [NoSidecar EXCEPT !.uid = PathId(at[p])]
    BY <1>3 DEF Reconciled
  <2> QED BY <1>1, <1>2, <2>1 DEF NoSidecar, Sidecar
<1>4. CASE sc[p] # NoSidecar
  <2>1. Cardinality(FileIds(p)) = 1 /\ found = [sc[p] EXCEPT !.mb = CHOOSE r \in FileIds(p) : TRUE]
    BY <1>4 DEF Reconciled
  <2>2. FileIds(p) # {}
    BY <2>1, FS_EmptySet
  <2>3. (CHOOSE r \in FileIds(p) : TRUE) \in Releases
    BY <1>1, <2>2
  <2> QED BY <1>2, <2>1, <2>3 DEF Sidecar
<1> QED BY <1>3, <1>4

LEMMA PassLooks ==
  ASSUME IdInv, PassStart \/ PassRead \/ PassGivesWay \/ PassEnd PROVE IdInv'
<1>1. UNCHANGED <<at, tags, sc, seen, records, op>>
  BY DEF PassStart, PassRead, PassGivesWay, PassEnd
<1>2. Placing /\ Identified /\ Placed' = Placed
  BY <1>1, SidecarsStay DEF IdInv, AnchorInv
<1>3. PassOK'
  <2>1. CASE PassStart
    <3>1. pass' = [Resting EXCEPT !.step = "next", !.todo = {Primary(seen, a) : a \in Orphans}]
      BY <2>1 DEF PassStart
    <3>2. {Primary(seen, a) : a \in Orphans} \subseteq Placed
      BY SeenAlbum DEF Orphans
    <3> QED BY <1>2, <3>1, <3>2 DEF PassOK, Resting
  <2>2. CASE PassRead
    <3>0. PICK p \in pass.todo :
            \E found \in Reconciled(p) :
              pass' = [pass EXCEPT !.step = IF found = NoSidecar THEN "next" ELSE "found",
                                   !.todo = @ \ {p}, !.part = p, !.found = found]
      BY <2>2 DEF PassRead
    <3>1. PICK found \in Reconciled(p) :
            pass' = [pass EXCEPT !.step = IF found = NoSidecar THEN "next" ELSE "found",
                                 !.todo = @ \ {p}, !.part = p, !.found = found]
      BY <3>0
    <3>2. p \in Placed /\ pass.todo \subseteq Placed
      BY DEF IdInv, PassOK
    <3>3. /\ {"step", "todo", "part", "found"} \subseteq DOMAIN pass'
          /\ pass'.todo \subseteq pass.todo /\ pass'.part = p /\ pass'.found = found
          /\ pass'.step = IF found = NoSidecar THEN "next" ELSE "found"
      BY <3>1 DEF IdInv, PassOK
    <3>4. pass'.step = "found" => found # NoSidecar
      BY <3>3
    <3> QED BY <1>1, <1>2, <3>2, <3>3, <3>4, ReconciledOK DEF PassOK
  <2>3. CASE PassGivesWay
    <3>1. pass' = [pass EXCEPT !.step = "next"]
      BY <2>3 DEF PassGivesWay
    <3>2. DOMAIN pass' = DOMAIN pass /\ pass'.step = "next" /\ pass'.todo = pass.todo
      BY <3>1 DEF IdInv, PassOK
    <3> QED BY <1>2, <3>2 DEF IdInv, PassOK
  <2>4. CASE PassEnd
    BY <2>4, RestingOK DEF PassEnd
  <2> QED BY <2>1, <2>2, <2>3, <2>4
<1>4. TypeOK' /\ OpOK'
  BY <1>1, <1>2, SameOp DEF IdInv, TypeOK
<1> QED BY <1>1, <1>2, <1>3, <1>4, NothingReread, Evolution DEF IdInv

LEMMA AppearStep ==
  ASSUME IdInv, Appear PROVE IdInv'
<1>1. PICK p \in Parts, n \in Paths \ {at[q] : q \in Parts} :
        at[p] = Nowhere /\ at' = [at EXCEPT ![p] = n]
  BY DEF Appear
<1>2. UNCHANGED <<tags, sc, seen, records, op, pass>>
  BY DEF Appear
<1>3. at' \in [Parts -> Paths \cup {Nowhere}] /\ \A q \in Placed : at'[q] = at[q] /\ q \in Parts
  BY <1>1 DEF IdInv, TypeOK, Placed
<1>4. Placing
  <2> SUFFICES ASSUME NEW q \in Parts, NEW r \in Parts, at'[q] # Nowhere, at'[q] = at'[r]
               PROVE  q = r
    BY <1>3 DEF Placing
  <2>1. \A s \in Parts : at'[s] = IF s = p THEN n ELSE at[s]
    BY <1>1 DEF IdInv, TypeOK
  <2>2. \A s \in Parts : at[s] # n
    BY <1>1
  <2> QED BY <2>1, <2>2 DEF IdInv, SeenInv, Placed
<1>5. Placed \subseteq Placed'
  BY <1>3 DEF Placed
<1>6. OpOK' /\ PassOK' /\ TypeOK'
  BY <1>2, <1>3, <1>5, SameOp, SamePass DEF IdInv, TypeOK
<1>7. Identified
  BY <1>2 DEF IdInv, AnchorInv, Identified
<1> QED BY <1>2, <1>4, <1>6, <1>7, NothingReread, Evolution DEF IdInv

\* A step that writes one directory's sidecar.
LEMMA OneWritten ==
  ASSUME IdInv, NEW p \in Placed, NEW s \in Sidecar, WriteSidecar(p, s),
         s.mb = Nothing /\ s.uid # Nothing => s.uid = PathId(at[p]) \/ Knows(seen, s.uid),
         UNCHANGED <<at, tags, seen, records>>,
         op'.shown.uid # Nothing => Knows(seen, op'.shown.uid)
  PROVE  /\ TypeOK' /\ SeenInv' /\ AnchorInv' /\ Placed' = Placed
<1>1. /\ sc' \in [Parts -> Sidecar]
      /\ \A q \in Parts : HasId(sc[q]) => HasId(sc'[q])
      /\ \A q \in Parts : q # p => sc'[q] = sc[q]
      /\ sc'[p].uid # Nothing =>
           \/ sc'[p].uid = PathId(at[p])
           \/ s.mb = Nothing /\ sc'[p].uid = s.uid
  BY OneSidecar DEF IdInv
<1>2. \A q \in Parts : sc'[q].uid # Nothing =>
        (q \in Placed /\ sc'[q].uid = PathId(at[q])) \/ Knows(seen, sc'[q].uid)
  BY <1>1 DEF IdInv, AnchorInv
<1>3. Identified
  BY <1>1, <1>2 DEF Identified
<1>4. Placing
  BY DEF IdInv, TypeOK, SeenInv, Placing, Placed
<1>5. TypeOK'
  BY <1>1 DEF IdInv, TypeOK
<1>6. Placed' = Placed
  BY DEF Placed
<1> QED BY <1>3, <1>4, <1>5, <1>6, NothingReread, Evolution DEF IdInv

LEMMA SidecarStep ==
  ASSUME IdInv, SidecarFollows \/ Unlinked \/ PassWrite PROVE IdInv'
<1>1. CASE SidecarFollows
  <2>1. PICK p \in op.sidecars :
          /\ WriteSidecar(p, [sc[p] EXCEPT !.mb = op.release])
          /\ op' = [op EXCEPT !.sidecars = @ \ {p}]
    BY <1>1 DEF SidecarFollows
  <2>2. UNCHANGED <<at, tags, seen, records, pass>> /\ op.kind = "tag"
    BY <1>1 DEF SidecarFollows
  <2>3. /\ DOMAIN op' = DOMAIN op /\ op'.kind = op.kind /\ op'.album = op.album
        /\ op'.release = op.release /\ op'.sidecars \subseteq op.sidecars /\ op'.shown = op.shown
        /\ op'.target = op.target /\ op'.todo = op.todo
    BY <2>1 DEF IdInv, OpOK
  <2>4. p \in Placed /\ p \in Parts /\ op.release \in Releases /\ sc[p] \in Sidecar
    BY <2>1, <2>2 DEF IdInv, OpOK, TypeOK, Placed
  <2>5. /\ [sc[p] EXCEPT !.mb = op.release] \in Sidecar
        /\ [sc[p] EXCEPT !.mb = op.release].mb = op.release /\ op.release # Nothing
    BY <2>4, PartsAssumption DEF Sidecar
  <2>6. TypeOK' /\ SeenInv' /\ AnchorInv' /\ Placed' = Placed
    <3>1. op'.shown.uid # Nothing => Knows(seen, op'.shown.uid)
      BY <2>3 DEF IdInv, AnchorInv
    <3> QED BY <2>1, <2>2, <2>4, <2>5, <3>1, OneWritten
  <2>7. OpOK' /\ PassOK'
    BY <2>2, <2>3, <2>6, SamePass DEF IdInv, OpOK
  <2> QED BY <2>6, <2>7 DEF IdInv
<1>2. CASE Unlinked
  <2>1. /\ UNCHANGED <<at, tags, seen, records, pass>> /\ op' = NoOp /\ op.kind = "undo"
        /\ \/ sc' = sc
           \/ WriteSidecar(Primary(seen, op.album), [op.shown EXCEPT !.mb = Nothing])
    BY <1>2 DEF Unlinked
  <2>2. Primary(seen, op.album) \in Placed
    BY <2>1, SeenViewOK, PrimaryIsOne DEF IdInv, OpOK, Placed
  <2>3. op.shown \in Sidecar /\ (op.shown.uid # Nothing => Knows(seen, op.shown.uid))
    BY DEF IdInv, OpOK, AnchorInv
  <2>4. /\ [op.shown EXCEPT !.mb = Nothing] \in Sidecar
        /\ [op.shown EXCEPT !.mb = Nothing].uid = op.shown.uid
    BY <2>3 DEF Sidecar
  <2>5. OpOK' /\ (op'.shown.uid # Nothing => Knows(seen, op'.shown.uid))
    BY <2>1, RestingOK
  <2>6. CASE sc' = sc
    <3>1. Placing /\ Identified /\ Placed' = Placed
      BY <2>1, <2>5, <2>6, SidecarsStay
    <3>2. TypeOK' /\ PassOK'
      BY <2>1, <2>6, <3>1, SamePass DEF IdInv, TypeOK
    <3> QED BY <2>1, <2>5, <3>1, <3>2, NothingReread, Evolution DEF IdInv
  <2>7. CASE WriteSidecar(Primary(seen, op.album), [op.shown EXCEPT !.mb = Nothing])
    <3>1. TypeOK' /\ SeenInv' /\ AnchorInv' /\ Placed' = Placed
      BY <2>1, <2>2, <2>3, <2>4, <2>5, <2>7, OneWritten
    <3>2. PassOK'
      BY <2>1, <3>1, SamePass DEF IdInv
    <3> QED BY <2>5, <3>1, <3>2 DEF IdInv
  <2> QED BY <2>1, <2>6, <2>7
<1>3. CASE PassWrite
  <2>1. /\ WriteSidecar(pass.part, pass.found) /\ pass' = [pass EXCEPT !.step = "next"]
        /\ UNCHANGED <<at, tags, seen, records, op>> /\ pass.step = "found"
    BY <1>3 DEF PassWrite
  <2>2. /\ pass.part \in Placed /\ pass.found \in Sidecar
        /\ pass.found.mb # Nothing \/ pass.found.uid = PathId(at[pass.part])
    BY <2>1 DEF IdInv, PassOK
  <2>3. op'.shown.uid # Nothing => Knows(seen, op'.shown.uid)
    BY <2>1 DEF IdInv, AnchorInv
  <2>4. TypeOK' /\ SeenInv' /\ AnchorInv' /\ Placed' = Placed
    BY <2>1, <2>2, <2>3, OneWritten
  <2>5. DOMAIN pass' = DOMAIN pass /\ pass'.step = "next" /\ pass'.todo = pass.todo
    BY <2>1 DEF IdInv, PassOK
  <2>6. OpOK' /\ PassOK'
    BY <2>1, <2>4, <2>5, SameOp DEF IdInv, PassOK
  <2> QED BY <2>4, <2>6 DEF IdInv
<1> QED BY <1>1, <1>2, <1>3

\* The album an act is about: the one that its page's first directory is in now.
LEMMA AlbumNow ==
  ASSUME IdInv, NEW b \in Albums(seen), NEW a, a = AlbumWith(Fresh(b), First(Fresh(b), b))
  PROVE  /\ a \in Albums(Fresh(b)) /\ a \subseteq Placed /\ a # {}
         /\ Primary(Fresh(b), a) \in a
<1> DEFINE v == Fresh(b)
<1>1. ViewOK(v) /\ There(v) \subseteq Placed
  BY FreshViewOK DEF IdInv
<1>2. b \subseteq Placed /\ b # {} /\ b \subseteq Parts
  BY SeenAlbum DEF Placed
<1>3. First(v, b) \in b
  BY <1>1, <1>2, FirstIsOne
<1>4. First(v, b) \in There(v)
  BY <1>2, <1>3 DEF There, Fresh, Reading, Placed
<1>5. a \in Albums(v)
  <2>1. \E c \in Albums(v) : First(v, b) \in c
    BY <1>4, AlbumsPartition
  <2> QED BY <2>1 DEF AlbumWith
<1> HIDE DEF v
<1>6. a # {} /\ a \subseteq Placed /\ Primary(v, a) \in a
  BY <1>1, <1>5, AlbumsPartition, AlbumParts
<1> QED BY <1>5, <1>6 DEF v

\* A step that writes the sidecars of an album and reads the whole library.
LEMMA ManyWritten ==
  ASSUME IdInv, NEW a, a \subseteq Placed, NEW new, \A p \in a : new[p] \in Sidecar,
         sc' = [p \in Parts |-> IF p \in a THEN Normalised(p, new[p]) ELSE sc[p]],
         \A p \in Parts : seen'[p].at = at[p] /\ seen'[p].sc = sc'[p] /\ seen'[p].tags = Reading(p).tags,
         \A p \in a : new[p].mb # Nothing
                      \/ \E q \in a : new[p].uid = PathId(at[q]),
         UNCHANGED <<at, tags, records, op, pass>>
  PROVE  IdInv'
<1>1. \A p \in a : /\ Normalised(p, new[p]) \in Sidecar /\ HasId(Normalised(p, new[p]))
                   /\ Normalised(p, new[p]).uid # Nothing =>
                        \/ Normalised(p, new[p]).uid = PathId(at[p])
                        \/ new[p].mb = Nothing /\ Normalised(p, new[p]).uid = new[p].uid
  BY NormalisedOK DEF IdInv
<1>2. /\ sc' \in [Parts -> Sidecar]
      /\ \A p \in Parts : HasId(sc[p]) => HasId(sc'[p])
      /\ \A p \in a : HasId(sc'[p]) /\ sc'[p] = Normalised(p, new[p]) /\ p \in Parts
  BY <1>1 DEF IdInv, TypeOK, Placed
<1>3. ASSUME NEW q \in a PROVE Knows(seen', PathId(at[q]))
  <2>1. q \in Parts /\ at[q] # Nowhere /\ seen'[q].at = at[q] /\ seen'[q].sc = sc'[q]
    BY DEF Placed
  <2>2. HasId(seen'[q].sc)
    BY <1>2, <2>1
  <2> QED BY <2>1, <2>2 DEF Knows, There
<1>4. ASSUME NEW p \in Parts, sc'[p].uid # Nothing
      PROVE  \/ p \in Placed /\ sc'[p].uid = PathId(at[p])
             \/ Knows(seen, sc'[p].uid)
             \/ Knows(seen', sc'[p].uid)
  <2>1. CASE p \in a
    BY <1>1, <1>2, <1>3, <1>4, <2>1
  <2>2. CASE p \notin a
    BY <1>4, <2>2 DEF IdInv, AnchorInv
  <2> QED BY <2>1, <2>2
<1>5. Identified
  BY <1>2, <1>4 DEF Identified, IdInv, AnchorInv
<1>6. Placing /\ Reread
  BY DEF IdInv, TypeOK, SeenInv, Placing, Placed, Reread
<1>7. TypeOK'
  <2>1. \A f \in Files : seen'[PartOf[f]].tags[f] \in MBIDs
    <3>1. \A f \in Files : PartOf[f] \in Parts /\ Reading(PartOf[f]).tags[f] = tags[f]
      BY PartsAssumption DEF Reading, FilesIn
    <3> QED BY <3>1 DEF IdInv, TypeOK
  <2>2. \A p \in Parts : seen'[p].at \in Paths \cup {Nowhere} /\ seen'[p].sc \in Sidecar
    BY <1>2 DEF IdInv, TypeOK
  <2> QED BY <1>2, <2>1, <2>2 DEF IdInv, TypeOK
<1>8. Placed' = Placed
  BY DEF Placed
<1>9. OpOK' /\ PassOK'
  BY <1>8, SameOp, SamePass DEF IdInv
<1> QED BY <1>5, <1>6, <1>7, <1>9, Evolution DEF IdInv

LEMMA PencilStep ==
  ASSUME IdInv, Pencil PROVE IdInv'
<1>1. PICK b \in Albums(seen) :
        LET view == Fresh(b)
            a == AlbumWith(view, First(view, b))
            release == sc[Primary(view, a)].mb
            address == IdOf(view, a)
            uid == PathId(at[Primary(view, a)])
        IN /\ WriteSidecars(a, [p \in a |-> [mb |-> Nothing, uid |-> uid]],
                            IF address = release THEN Nothing ELSE address, uid)
           /\ seen' = [p \in Parts |-> [Reading(p) EXCEPT !.sc = sc'[p]]]
  BY DEF Pencil
<1> DEFINE a == AlbumWith(Fresh(b), First(Fresh(b), b))
           main == Primary(Fresh(b), a)
           new == [p \in a |-> [mb |-> Nothing, uid |-> PathId(at[main])]]
<1>2. a \subseteq Placed /\ main \in a
  BY AlbumNow
<1>3. sc' = [p \in Parts |-> IF p \in a THEN Normalised(p, new[p]) ELSE sc[p]]
  BY <1>1 DEF WriteSidecars
<1>4. seen' = [p \in Parts |-> [Reading(p) EXCEPT !.sc = sc'[p]]]
  BY <1>1
<1>5. \A p \in Parts : seen'[p].at = at[p] /\ seen'[p].sc = sc'[p] /\ seen'[p].tags = Reading(p).tags
  BY <1>4 DEF Reading
<1> HIDE DEF a, main
<1>6. PathId(at[main]) \in PathIds
  BY <1>2, IdsAreIds DEF IdInv, TypeOK, Placed
<1>7. \A p \in a : new[p] \in Sidecar /\ new[p].uid = PathId(at[main])
  BY <1>6 DEF Sidecar
<1>8. UNCHANGED <<at, tags, records, op, pass>>
  BY DEF Pencil
<1> HIDE DEF new
<1> QED BY <1>2, <1>3, <1>5, <1>7, <1>8, ManyWritten

LEMMA UndoPencilStep ==
  ASSUME IdInv, UndoPencil PROVE IdInv'
<1>1. PICK b \in Albums(seen) :
        LET view == Fresh(b)
            a == AlbumWith(view, First(view, b))
            carried == Carried(view, a)
            release == CHOOSE r \in carried : TRUE
            relinked == [p \in a |-> [sc[p] EXCEPT !.mb = release]]
            after == [p \in Parts |-> [Reading(p) EXCEPT !.sc =
                        IF p \in a THEN Normalised(p, relinked[p]) ELSE sc[p]]]
            now == IdOf(after, AlbumWith(after, Primary(view, a)))
        IN /\ Cardinality(carried) = 1
           /\ WriteSidecars(a, relinked, IF now = release THEN Nothing ELSE IdOf(view, a), now)
           /\ seen' = after
  BY DEF UndoPencil
<1> DEFINE a == AlbumWith(Fresh(b), First(Fresh(b), b))
           carried == Carried(Fresh(b), a)
           release == CHOOSE r \in carried : TRUE
           relinked == [p \in a |-> [sc[p] EXCEPT !.mb = release]]
<1>2. a \subseteq Placed
  BY AlbumNow
<1>3. release \in Releases
  <2>1. carried # {}
    <3>1. Cardinality(carried) = 1
      BY <1>1
    <3> HIDE DEF carried
    <3> QED BY <3>1, FS_EmptySet
  <2>2. ViewOK(Fresh(b))
    BY FreshViewOK DEF IdInv
  <2>3. carried \subseteq Releases
    BY <2>2 DEF Carried, FilesOf, ViewOK, MBIDs
  <2> HIDE DEF carried
  <2> QED BY <2>1, <2>3
<1>4. sc' = [p \in Parts |-> IF p \in a THEN Normalised(p, relinked[p]) ELSE sc[p]]
  BY <1>1 DEF WriteSidecars
<1>5. seen' = [p \in Parts |-> [Reading(p) EXCEPT !.sc =
                 IF p \in a THEN Normalised(p, relinked[p]) ELSE sc[p]]]
  BY <1>1
<1> HIDE DEF a, release
<1>6. \A p \in Parts : seen'[p].at = at[p] /\ seen'[p].sc = sc'[p] /\ seen'[p].tags = Reading(p).tags
  <2> HIDE DEF relinked
  <2> QED BY <1>4, <1>5 DEF Reading
<1>7. \A p \in a : relinked[p] \in Sidecar /\ relinked[p].mb # Nothing
  <2>1. \A p \in a : sc[p] \in Sidecar
    BY <1>2 DEF IdInv, TypeOK, Placed
  <2> QED BY <1>3, <2>1, PartsAssumption DEF Sidecar
<1>8. UNCHANGED <<at, tags, records, op, pass>>
  BY DEF UndoPencil
<1> HIDE DEF relinked
<1> QED BY <1>2, <1>4, <1>6, <1>7, <1>8, ManyWritten

LEMMA Beginning ==
  ASSUME Init PROVE IdInv
<1>1. PICK b \in Beginnings : at = b[1] /\ tags = b[2]
  BY DEF Init
<1>2. /\ at \in [Parts -> Paths \cup {Nowhere}] /\ tags \in [Files -> MBIDs]
      /\ \A p, q \in Placed : at[p] = at[q] => p = q
  BY <1>1, PartsAssumption DEF MBIDs, Placed
<1>3. /\ sc = [p \in Parts |-> NoSidecar] /\ seen = Disk /\ records = {}
      /\ op = NoOp /\ pass = Resting
  BY DEF Init
<1>4. \A p \in Parts : /\ seen[p].at = at[p] /\ seen[p].sc = NoSidecar /\ sc[p] = NoSidecar
                       /\ seen[p].tags = [f \in FilesIn(p) |-> tags[f]]
  BY <1>3 DEF Disk, Reading
<1>5. NoSidecar \in Sidecar /\ ~HasId(NoSidecar) /\ NoSidecar.uid = Nothing
  BY IdsAreIds DEF NoSidecar
<1>6. TypeOK
  <2>1. \A f \in Files : PartOf[f] \in Parts /\ f \in FilesIn(PartOf[f])
    BY PartsAssumption DEF FilesIn
  <2>2. ASSUME NEW f \in Files PROVE seen[PartOf[f]].tags[f] \in MBIDs
    <3>1. seen[PartOf[f]].tags = [g \in FilesIn(PartOf[f]) |-> tags[g]]
      BY <1>4, <2>1
    <3>2. seen[PartOf[f]].tags[f] = tags[f]
      BY <2>1, <3>1
    <3> QED BY <1>2, <3>2
  <2>3. sc \in [Parts -> Sidecar]
    BY <1>3, <1>5
  <2> QED BY <1>2, <1>3, <1>4, <1>5, <2>2, <2>3 DEF TypeOK
<1>7. OpOK /\ PassOK
  BY <1>3, <1>5 DEF OpOK, PassOK, NoOp, Resting
<1>8. SeenInv
  BY <1>2, <1>4, <1>5 DEF SeenInv
<1>9. AnchorInv
  <2>1. op.shown = NoSidecar
    BY <1>3 DEF NoOp
  <2> QED BY <1>4, <1>5, <2>1 DEF AnchorInv, Anchored
<1> QED BY <1>6, <1>7, <1>8, <1>9 DEF IdInv

\* Whatever is tagged, undone, cleared, reconciled or re-tagged elsewhere, a
\* directory that has an identity keeps one, and a sidecar that has another
\* directory's id was written after that one had an identity of its own.
THEOREM IdentityHolds == Spec => []IdInv
<1>1. IdInv /\ [Next]_vars => IdInv'
  <2>1. CASE UNCHANGED vars
    BY <2>1 DEF vars, IdInv, TypeOK, OpOK, PassOK, SeenInv, AnchorInv, Anchored, Knows, There,
      Placed, HasId
  <2>2. ASSUME IdInv, Next PROVE IdInv'
    BY <2>2, ScanStep, ConfirmStep, UndoStep, FileStep, SidecarStep, PencilStep, UndoPencilStep,
      PassLooks, AppearStep DEF Next
  <2> QED BY <2>1, <2>2
<1> QED BY <1>1, Beginning, PTL DEF Spec

\* An address opens one album, for any library and any acts (_album_id,
\* merge_by_identity, sidecar.write): copies of a release are told apart by where
\* they are, and no album answers to the path of another.
THEOREM OneAddressOneAlbum == Spec => []AddressesDiffer
<1> QED BY IdentityHolds, SeenDiffer, PTL

(***************************************************************************)
(* Where a link leads.  `known` only grows, so directories that share no id *)
(* with others (`Alone`) never did: no write elsewhere has moved an alias   *)
(* of an id they had.                                                       *)
(***************************************************************************)
\* A path's id is had by the directory at that path, if by any.
Rooted(u) == \E r \in Placed : PathId(at[r]) = u /\ u \in known[r]

\* What an album of the directories `a` may be addressed by.
NameOf(a, i) ==
  \/ i \in CopyIds
  \/ \E p \in a : i \in known[p]
  \/ \E r \in a : i = PathId(at[r])

Alone(G) ==
  /\ \A p \in G : known[p] \cap CopyIds = {}
  /\ \A p \in G, q \in Parts \ G : known[p] \cap known[q] = {}
Had(G) == UNION {known[p] : p \in G}
Followed(S) == \A i \in S \cap DOMAIN aliases : aliases[i] \in S

KnownOK ==
  /\ known \in [Parts -> SUBSET Ids]
  /\ \A p \in Parts : {sc[p].mb, sc[p].uid} \subseteq known[p] \cup {Nothing}
  /\ \A p \in Parts : {seen[p].sc.mb, seen[p].sc.uid} \subseteq known[p] \cup {Nothing}
  /\ \A p \in Parts : known[p] # {} => HasId(sc[p])
  /\ \A p \in Parts : \A u \in known[p] \cap PathIds : Rooted(u)

\* What a request under way will lead on, or put back.
OpNamed ==
  /\ op.shown.uid # Nothing => Rooted(op.shown.uid)
  /\ op.kind = "tag" =>
       /\ op.album # {} /\ NameOf(op.album, op.address)
       /\ \A p \in op.album \ op.sidecars : known[p] # {}

\* An alias leads from a copy's id, from one that was had, or from a path to
\* what its directory had.
AliasOK ==
  /\ IsFiniteSet(DOMAIN aliases)
  /\ \A i \in DOMAIN aliases :
       \/ i \in CopyIds
       \/ \E p \in Parts : i \in known[p]
       \/ \E r \in Placed : i = PathId(at[r]) /\ aliases[i] \in known[r]

\* Of directories alone under their ids: aliases stay among these, and a set of
\* them that aliases do not leave holds the id of one of the directories.
LinksOK ==
  \A G \in SUBSET Parts : Alone(G) =>
    /\ Followed(Had(G))
    /\ \A S \in SUBSET Had(G) : S # {} /\ Followed(S) => \E q \in G : SidecarId(sc[q]) \in S

LinkInv == KnownOK /\ OpNamed /\ AliasOK /\ LinksOK

\* A step after which the directories `a` all have the id `now`, which is the id
\* in one's sidecar or a copy's, and all that it moved leads there.
LEMMA LinksMove ==
  ASSUME IdInv, LinkInv, KnownOK', at' = at,
         NEW a \in SUBSET Placed, NEW id, NEW now, now = id \/ now \in CopyIds,
         \A p \in a : now \in known'[p],
         \A p \in Parts : known[p] \subseteq known'[p],
         \A p \in Parts : known'[p] # known[p] => p \in a /\ known'[p] \subseteq known[p] \cup {id, now},
         \E q \in a : SidecarId(sc'[q]) = id,
         \A p \in Parts : SidecarId(sc'[p]) # SidecarId(sc[p]) =>
           /\ p \in a /\ SidecarId(sc'[p]) = id
           /\ HasId(sc[p]) => /\ SidecarId(sc[p]) \in DOMAIN aliases'
                              /\ aliases'[SidecarId(sc[p])] \in {id, now},
         IsFiniteSet(DOMAIN aliases'), DOMAIN aliases \subseteq DOMAIN aliases',
         \A i \in DOMAIN aliases' :
           \/ i \in DOMAIN aliases /\ aliases'[i] = aliases[i]
           \/ aliases'[i] = now /\ NameOf(a, i)
           \/ aliases'[i] = id /\ \E p \in a : i \in known[p]
  PROVE  AliasOK' /\ LinksOK'
<1>1. Placed' = Placed /\ a \subseteq Parts
  BY DEF Placed
<1>2. AliasOK'
  <2> SUFFICES ASSUME NEW i \in DOMAIN aliases'
               PROVE  \/ i \in CopyIds
                      \/ \E p \in Parts : i \in known'[p]
                      \/ \E r \in Placed : i = PathId(at[r]) /\ aliases'[i] \in known'[r]
    BY <1>1 DEF AliasOK
  <2>1. CASE i \in DOMAIN aliases /\ aliases'[i] = aliases[i]
    <3>1. \/ i \in CopyIds
          \/ \E p \in Parts : i \in known[p]
          \/ \E r \in Placed : i = PathId(at[r]) /\ aliases[i] \in known[r]
      BY <2>1 DEF LinkInv, AliasOK
    <3> QED BY <2>1, <3>1 DEF Placed
  <2>2. CASE aliases'[i] = now /\ NameOf(a, i)
    BY <1>1, <2>2 DEF NameOf
  <2>3. CASE \E p \in a : i \in known[p]
    BY <1>1, <2>3
  <2> QED BY <2>1, <2>2, <2>3
<1>3. ASSUME NEW G \in SUBSET Parts, Alone(G)'
      PROVE  /\ Followed(Had(G))'
             /\ \A S \in SUBSET Had(G)' : S # {} /\ Followed(S)' => \E q \in G : SidecarId(sc'[q]) \in S
  <2>1. /\ \A p \in G : known'[p] \cap CopyIds = {}
        /\ \A p \in G, q \in Parts \ G : known'[p] \cap known'[q] = {}
    BY <1>3 DEF Alone
  <2>2. Alone(G)
    BY <2>1 DEF Alone
  <2>3. /\ Followed(Had(G))
        /\ \A S \in SUBSET Had(G) : S # {} /\ Followed(S) => \E q \in G : SidecarId(sc[q]) \in S
    BY <2>2 DEF LinkInv, LinksOK
  <2>4. Had(G) \subseteq Had(G)' /\ \A i : i \in Had(G)' <=> \E p \in G : i \in known'[p]
    BY DEF Had
  <2>5. \A i : i \in Had(G) <=> \E p \in G : i \in known[p]
    BY DEF Had
  <2>6. CASE a \cap G = {}
    <3>1. Had(G)' = Had(G)
      BY <2>4, <2>5, <2>6
    <3>2. ASSUME NEW i \in Had(G) PROVE ~NameOf(a, i)
      <4>1. PICK p \in G : i \in known[p]
        BY <2>5, <3>2
      <4>2. i \notin CopyIds
        BY <2>2, <4>1 DEF Alone
      <4>3. \A q \in a : i \notin known[q]
        BY <1>1, <2>2, <2>6, <4>1 DEF Alone
      <4>4. ASSUME NEW r \in a, i = PathId(at[r]) PROVE FALSE
        <5>1. r \in Placed /\ i \in PathIds
          BY <4>4, IdsAreIds DEF IdInv, TypeOK, Placed
        <5>2. PICK q \in Placed : PathId(at[q]) = i /\ i \in known[q]
          BY <4>1, <5>1 DEF LinkInv, KnownOK, Rooted
        <5>3. at[q] = at[r]
          BY <4>4, <5>2, IdsAreIds
        <5>4. q = r
          BY <5>1, <5>2, <5>3 DEF IdInv, SeenInv
        <5> QED BY <4>3, <5>2, <5>4
      <4> QED BY <4>2, <4>3, <4>4 DEF NameOf
    <3>3. \A i \in Had(G) : i \in DOMAIN aliases' => i \in DOMAIN aliases /\ aliases'[i] = aliases[i]
      BY <3>2 DEF NameOf
    <3>4. Followed(Had(G))'
      BY <2>3, <3>1, <3>3 DEF Followed
    <3>5. ASSUME NEW S \in SUBSET Had(G)', S # {}, Followed(S)'
          PROVE  \E q \in G : SidecarId(sc'[q]) \in S
      <4>1. Followed(S)
        BY <3>1, <3>3, <3>5 DEF Followed
      <4>2. PICK q \in G : SidecarId(sc[q]) \in S
        BY <2>3, <3>1, <3>5, <4>1
      <4>3. SidecarId(sc'[q]) = SidecarId(sc[q])
        BY <2>6
      <4> QED BY <4>2, <4>3
    <3> QED BY <3>4, <3>5
  <2>7. CASE a \cap G # {}
    <3>1. PICK m \in a \cap G : TRUE
      BY <2>7
    <3>2. a \subseteq G
      BY <1>1, <2>1, <3>1
    <3>3. now = id /\ id \in known'[m]
      BY <2>1, <3>1
    <3>4. id \in Had(G)' /\ \A i \in Had(G)' : i = id \/ i \in Had(G)
      BY <2>4, <2>5, <3>1, <3>3
    <3>5. ASSUME NEW i \in Had(G)', i \in DOMAIN aliases' PROVE aliases'[i] \in Had(G)'
      <4>1. CASE aliases'[i] = id
        BY <3>4, <4>1
      <4>2. CASE i \in DOMAIN aliases /\ aliases'[i] = aliases[i] /\ i \in Had(G)
        BY <2>3, <2>4, <4>2 DEF Followed
      <4>3. CASE i \in DOMAIN aliases /\ aliases'[i] = aliases[i] /\ i \notin Had(G)
        <5>1. i = id
          BY <3>4, <4>3
        <5>2. i \notin CopyIds
          BY <2>1, <3>1, <3>3, <5>1
        <5>3. ~ \E p \in Parts : i \in known[p]
          BY <2>1, <2>5, <3>1, <3>3, <4>3, <5>1
        <5>4. PICK r \in Placed : i = PathId(at[r]) /\ aliases[i] \in known[r]
          BY <4>3, <5>2, <5>3 DEF LinkInv, AliasOK
        <5>5. i \in PathIds /\ i \in known'[m] /\ m \in Parts
          BY <1>1, <3>1, <3>3, <5>1, <5>4, IdsAreIds DEF IdInv, TypeOK, Placed
        <5>6. PICK q \in Placed : PathId(at[q]) = i /\ i \in known'[q]
          BY <1>1, <5>5 DEF KnownOK, Rooted
        <5>7. at[q] = at[r]
          BY <5>4, <5>6, IdsAreIds
        <5>8. q = r /\ r \in Parts
          BY <5>4, <5>6, <5>7 DEF IdInv, SeenInv, Placed
        <5>9. r \in G
          BY <2>1, <3>1, <5>5, <5>6, <5>8
        <5> QED BY <2>4, <4>3, <5>4, <5>8, <5>9
      <4>4. aliases'[i] = id \/ (i \in DOMAIN aliases /\ aliases'[i] = aliases[i])
        BY <3>3, <3>5
      <4> QED BY <4>1, <4>2, <4>3, <4>4
    <3>6. ASSUME NEW S \in SUBSET Had(G)', S # {}, Followed(S)'
          PROVE  \E q \in G : SidecarId(sc'[q]) \in S
      <4>1. CASE id \in S
        BY <3>2, <4>1
      <4>2. CASE id \notin S
        <5>1. S \subseteq Had(G)
          BY <3>4, <4>2
        <5>2. Followed(S)
          BY <3>3, <3>6, <4>2 DEF Followed
        <5>3. PICK q \in G : SidecarId(sc[q]) \in S
          BY <2>3, <3>6, <5>1, <5>2
        <5>4. SidecarId(sc[q]) # Nothing
          <6>1. Had(G) \subseteq Ids
            BY <2>5 DEF LinkInv, KnownOK
          <6> QED BY <5>1, <5>3, <6>1, IdsAssumption
        <5>5. SidecarId(sc'[q]) = SidecarId(sc[q])
          BY <3>3, <3>6, <4>2, <5>3, <5>4 DEF Followed, HasId
        <5> QED BY <5>3, <5>5
      <4> QED BY <4>1, <4>2
    <3>7. Followed(Had(G))'
      BY <3>5 DEF Followed
    <3> QED BY <3>6, <3>7
  <2> QED BY <2>6, <2>7
<1>4. LinksOK'
  <2>1. \A G \in SUBSET Parts : Alone(G)' =>
          /\ Followed(Had(G))'
          /\ \A S \in SUBSET Had(G)' : S # {} /\ Followed(S)' => \E q \in G : SidecarId(sc'[q]) \in S
    BY <1>3
  <2> QED BY <2>1 DEF LinksOK
<1> QED BY <1>2, <1>4

(***************************************************************************)
(* Every step keeps it.                                                     *)
(***************************************************************************)
Stays == \A p \in Placed : p \in Placed' /\ at'[p] = at[p]
HadGrows == \A p \in Parts : known[p] \subseteq known'[p]

LEMMA RootedStays ==
  ASSUME Stays, HadGrows, NEW u, Rooted(u) PROVE Rooted(u)'
  BY DEF Stays, HadGrows, Rooted, Placed

LEMMA KnownGrows ==
  ASSUME KnownOK, Stays, HadGrows, known' \in [Parts -> SUBSET Ids],
         \A p \in Parts : sc'[p] # sc[p] => {sc'[p].mb, sc'[p].uid} \subseteq known'[p] \cup {Nothing},
         \A p \in Parts : seen'[p] = seen[p] \/ seen'[p].sc \in {sc[p], sc'[p]},
         \A p \in Parts : HasId(sc[p]) \/ known'[p] # known[p] => HasId(sc'[p]),
         \A p \in Parts : \A u \in PathIds : u \in known'[p] /\ u \notin known[p] => Rooted(u)'
  PROVE  KnownOK'
<1>1. \A p \in Parts : {sc'[p].mb, sc'[p].uid} \subseteq known'[p] \cup {Nothing}
  BY DEF KnownOK, HadGrows
<1>2. \A p \in Parts : {seen'[p].sc.mb, seen'[p].sc.uid} \subseteq known'[p] \cup {Nothing}
  <2> SUFFICES ASSUME NEW p \in Parts
               PROVE  {seen'[p].sc.mb, seen'[p].sc.uid} \subseteq known'[p] \cup {Nothing}
    OBVIOUS
  <2>1. CASE seen'[p] = seen[p]
    BY <2>1 DEF KnownOK, HadGrows
  <2>2. CASE seen'[p].sc = sc[p]
    BY <2>2 DEF KnownOK, HadGrows
  <2>3. CASE seen'[p].sc = sc'[p]
    BY <1>1, <2>3
  <2> QED BY <2>1, <2>2, <2>3
<1>3. \A p \in Parts : known'[p] # {} => HasId(sc'[p])
  BY DEF KnownOK
<1>4. \A p \in Parts : \A u \in known'[p] \cap PathIds : Rooted(u)'
  BY RootedStays DEF KnownOK
<1> QED BY <1>1, <1>2, <1>3, <1>4 DEF KnownOK, HasId

LEMMA OpStaysNamed ==
  ASSUME IdInv, OpNamed, Stays, HadGrows,
         op'.shown.uid \in {op.shown.uid, Nothing},
         op'.kind = "tag" =>
           /\ op.kind = "tag" /\ op'.album = op.album /\ op'.address = op.address
           /\ \A p \in op.sidecars \ op'.sidecars : known'[p] # {}
  PROVE  OpNamed'
<1>1. ASSUME op'.shown.uid # Nothing PROVE Rooted(op.shown.uid)'
  <2>1. op'.shown.uid = op.shown.uid /\ Rooted(op.shown.uid)
    BY <1>1 DEF OpNamed
  <2>2. PICK r \in Placed : PathId(at[r]) = op.shown.uid /\ op.shown.uid \in known[r]
    BY <2>1 DEF Rooted
  <2>3. r \in Placed' /\ at'[r] = at[r] /\ op.shown.uid \in known'[r]
    BY <2>2 DEF Stays, HadGrows, Placed
  <2>4. PathId(at'[r]) = op'.shown.uid /\ op'.shown.uid \in known'[r]
    BY <2>1, <2>2, <2>3
  <2> QED BY <2>3, <2>4 DEF Rooted
<1>2. ASSUME op'.kind = "tag"
      PROVE  /\ op'.album # {} /\ NameOf(op.album, op.address)'
             /\ \A p \in op'.album \ op'.sidecars : known'[p] # {}
  <2>1. /\ op'.album = op.album /\ op'.address = op.address /\ op.album # {}
        /\ NameOf(op.album, op.address)
        /\ \A p \in op.album \ op.sidecars : known[p] # {}
        /\ op.album \subseteq Placed
    BY <1>2 DEF OpNamed, IdInv, OpOK
  <2>2. \A p \in op.album : p \in Parts
    BY <2>1 DEF Placed
  <2>3. NameOf(op.album, op.address)'
    <3>1. \A p \in op.album : at'[p] = at[p] /\ known[p] \subseteq known'[p]
      BY <2>1, <2>2 DEF Stays, HadGrows
    <3>2. \/ op.address \in CopyIds
          \/ \E p \in op.album : op.address \in known'[p]
          \/ \E r \in op.album : op.address = PathId(at'[r])
      BY <2>1, <3>1 DEF NameOf
    <3>3. \/ op'.address \in CopyIds
          \/ \E p \in op'.album : op'.address \in known'[p]
          \/ \E r \in op'.album : op'.address = PathId(at'[r])
      BY <2>1, <3>2
    <3> QED BY <3>3 DEF NameOf
  <2>4. \A p \in op'.album \ op'.sidecars : known'[p] # {}
    BY <1>2, <2>1, <2>2 DEF HadGrows
  <2> QED BY <2>1, <2>3, <2>4
<1> QED BY <1>1, <1>2 DEF OpNamed

\* What moves no id and no alias.
LEMMA NothingMoves ==
  ASSUME IdInv, LinkInv, UNCHANGED <<sc, aliases, known>>, Stays,
         \A p \in Parts : seen'[p] = seen[p] \/ seen'[p].sc = sc[p]
  PROVE  KnownOK' /\ AliasOK' /\ LinksOK' /\ HadGrows
<1>1. HadGrows
  BY DEF HadGrows
<1>2. known' \in [Parts -> SUBSET Ids] /\ \A p \in Parts : known[p] # {} => HasId(sc[p])
  BY DEF LinkInv, KnownOK
<1>3. KnownOK'
  BY <1>1, <1>2, KnownGrows DEF LinkInv
<1>4. AliasOK'
  BY DEF LinkInv, AliasOK, Stays
<1>5. LinksOK'
  <2>1. \A G \in SUBSET Parts : (Alone(G)' <=> Alone(G)) /\ Had(G)' = Had(G)
    BY DEF Alone, Had
  <2>2. \A S : Followed(S)' <=> Followed(S)
    BY DEF Followed
  <2>3. ASSUME NEW G \in SUBSET Parts, Alone(G)'
        PROVE  /\ Followed(Had(G))'
               /\ \A S \in SUBSET Had(G)' : S # {} /\ Followed(S)' => \E q \in G : SidecarId(sc'[q]) \in S
    <3>1. Followed(Had(G))
      BY <2>1, <2>3 DEF LinkInv, LinksOK
    <3>2. \A S \in SUBSET Had(G) : S # {} /\ Followed(S) => \E q \in G : SidecarId(sc[q]) \in S
      BY <2>1, <2>3 DEF LinkInv, LinksOK
    <3>3. Followed(Had(G))'
      BY <2>1, <3>1 DEF Followed
    <3> QED BY <2>1, <2>2, <3>2, <3>3
  <2> QED BY <2>3 DEF LinksOK
<1> QED BY <1>1, <1>3, <1>4, <1>5

LEMMA PlacesStay ==
  ASSUME at' = at PROVE Stays
  BY DEF Stays, Placed

\* An album's address is one that it may have.
LEMMA AddressIs ==
  ASSUME NEW v, ViewOK(v), NEW a \in Albums(v),
         NEW own, own = SidecarId(MergedSidecar(v, a))
  PROVE  \/ own # Nothing /\ (IdOf(v, a) = own \/ IdOf(v, a) \in CopyIds)
         \/ own = Nothing /\ IdOf(v, a) = PathId(v[Primary(v, a)].at)
<1>1. \E c \in Catalog(v) : c.parts = a
  <2> DEFINE item(b) == [parts |-> b, id |-> AlbumId(v, Albums(v), b), mb |-> MergedSidecar(v, b).mb,
                         derived |-> PathId(v[Primary(v, b)].at)]
  <2>1. Catalog(v) = {item(b) : b \in Albums(v)}
    BY DEF Catalog
  <2>2. item(a) \in Catalog(v) /\ item(a).parts = a
    BY <2>1
  <2> QED BY <2>2
<1>2. \A c \in Catalog(v) : c.parts = a => c.id = AlbumId(v, Albums(v), a)
  BY DEF Catalog
<1>3. IdOf(v, a) = AlbumId(v, Albums(v), a)
  BY <1>1, <1>2 DEF IdOf
<1>4. MergedSidecar(v, a) \in Sidecar /\ v[Primary(v, a)].at \in Paths
  BY AlbumParts DEF MergedSidecar, ViewOK
<1>5. own \in Releases \cup PathIds \cup {Nothing}
  BY <1>4, IdsAreIds
<1> QED BY <1>3, <1>4, <1>5 DEF AlbumId, BareId, CopyIds

LEMMA AddressNames ==
  ASSUME IdInv, KnownOK, NEW v, \A p \in Parts : v[p] = seen[p] \/ v[p] = Reading(p),
         NEW a \in Albums(v)
  PROVE  NameOf(a, IdOf(v, a))
<1>1. ViewOK(v)
  BY DiskViewOK DEF IdInv
<1>2. /\ First(v, a) \in a /\ Primary(v, a) \in a /\ a \subseteq Parts
      /\ v[Primary(v, a)].at \in Paths
  BY <1>1, AlbumParts
<1>3. v[Primary(v, a)].at = at[Primary(v, a)]
  <2>1. v[Primary(v, a)].at \in {at[Primary(v, a)], Nowhere}
    <3>1. \A p \in Parts : Reading(p).at = at[p]
      BY DEF Reading
    <3>2. \A p \in Parts : v[p].at \in {at[p], Nowhere}
      BY <3>1 DEF IdInv, SeenInv
    <3> QED BY <1>2, <3>2
  <2> QED BY <1>2, <2>1, PathsAreNumbers
<1>4. SidecarId(MergedSidecar(v, a)) \in known[First(v, a)] \cup {Nothing}
  <2>1. \A p \in Parts : Reading(p).sc = sc[p]
    BY DEF Reading
  <2>2. \A p \in Parts : {v[p].sc.mb, v[p].sc.uid} \subseteq known[p] \cup {Nothing}
    BY <2>1 DEF KnownOK
  <2>3. \A p \in Parts : SidecarId(v[p].sc) \in known[p] \cup {Nothing}
    BY <2>2 DEF SidecarId
  <2> QED BY <1>2, <2>3 DEF MergedSidecar
<1> QED BY <1>1, <1>2, <1>3, <1>4, AddressIs DEF NameOf

LEMMA WithAliasIs ==
  ASSUME NEW al, NEW old, NEW new, new # Nothing, NEW b, b = WithAlias(al, old, new)
  PROVE  /\ DOMAIN al \subseteq DOMAIN b
         /\ \A i \in DOMAIN b : \/ i \in DOMAIN al /\ b[i] = al[i]
                                \/ i = old /\ old # Nothing /\ b[i] = new
         /\ old # Nothing /\ old # new => old \in DOMAIN b /\ b[old] = new
         /\ IsFiniteSet(DOMAIN al) => IsFiniteSet(DOMAIN b)
<1>1. CASE old = Nothing \/ old = new
  BY <1>1 DEF WithAlias
<1>2. CASE old # Nothing /\ old # new
  <2>1. b = [i \in DOMAIN al \cup {old} |-> IF i = old THEN new ELSE al[i]]
    BY <1>2 DEF WithAlias
  <2>2. IsFiniteSet(DOMAIN al) => IsFiniteSet(DOMAIN al \cup {old})
    BY FS_AddElement
  <2> QED BY <1>2, <2>1, <2>2
<1> QED BY <1>1, <1>2

\* A step that writes one directory's sidecar.
LEMMA OneLinked ==
  ASSUME IdInv, LinkInv, NEW p \in Placed, NEW s \in Sidecar, WriteSidecar(p, s),
         s.mb = Nothing /\ s.uid # Nothing => s.uid = PathId(at[p]) \/ Rooted(s.uid),
         UNCHANGED <<at, seen>>
  PROVE  KnownOK' /\ AliasOK' /\ LinksOK' /\ HadGrows /\ known'[p] # {}
<1> PICK new : new = Normalised(p, s)
  OBVIOUS
<1> PICK id : id = SidecarId(new)
  OBVIOUS
<1>1. /\ p \in Parts /\ Placed' = Placed
      /\ sc' = [sc EXCEPT ![p] = new]
      /\ known' = [known EXCEPT ![p] = @ \cup {id}]
  BY DEF Placed, WriteSidecar
<1>2. new \in Sidecar /\ HasId(new)
      /\ (new.uid # Nothing => \/ new.uid = PathId(at[p])
                               \/ s.mb = Nothing /\ new.uid = s.uid)
  BY NormalisedOK DEF IdInv
<1>3. new.mb = Nothing \/ new.uid = Nothing
  BY IdsAreIds DEF Normalised, Sidecar
<1>4. aliases' = WithAlias(aliases, SidecarId(sc[p]), id)
  <2>1. SidecarId(NoSidecar) = Nothing
    BY DEF SidecarId, NoSidecar
  <2> QED BY <2>1 DEF WriteSidecar, WithAlias
<1>5. /\ id \in Releases \cup PathIds /\ id \in Ids /\ id # Nothing
      /\ {new.mb, new.uid} \subseteq {id, Nothing}
      /\ (id \in PathIds => new.uid = id /\ new.uid # Nothing)
  BY <1>2, <1>3, IdsAreIds DEF SidecarId, HasId, Sidecar, Ids
<1>6. /\ known \in [Parts -> SUBSET Ids] /\ sc \in [Parts -> Sidecar]
      /\ \A q \in Parts : SidecarId(sc[q]) \in known[q] \cup {Nothing}
  BY DEF LinkInv, KnownOK, IdInv, TypeOK, SidecarId
<1>7. /\ \A q \in Parts : known'[q] = IF q = p THEN known[p] \cup {id} ELSE known[q]
      /\ \A q \in Parts : sc'[q] = IF q = p THEN new ELSE sc[q]
      /\ known' \in [Parts -> SUBSET Ids]
  BY <1>1, <1>5, <1>6
<1>8. Stays /\ HadGrows
  BY <1>7, PlacesStay DEF HadGrows
<1>9. ASSUME id \in PathIds PROVE Rooted(id)'
  <2>1. CASE id = PathId(at[p])
    BY <1>1, <1>7, <2>1 DEF Rooted
  <2>2. CASE s.mb = Nothing /\ id = s.uid /\ id # PathId(at[p])
    <3>1. Rooted(id)
      BY <1>5, <2>2
    <3>2. PICK r \in Placed : PathId(at[r]) = id /\ id \in known[r]
      BY <3>1 DEF Rooted
    <3> QED BY <1>1, <1>8, <3>2 DEF Rooted, HadGrows, Placed
  <2> QED BY <1>2, <1>5, <1>9, <2>1, <2>2
<1>10. KnownOK'
  <2>1. \A q \in Parts : sc'[q] # sc[q] => {sc'[q].mb, sc'[q].uid} \subseteq known'[q] \cup {Nothing}
    BY <1>5, <1>7
  <2>2. \A q \in Parts : HasId(sc[q]) \/ known'[q] # known[q] => HasId(sc'[q])
    BY <1>2, <1>7
  <2>3. \A q \in Parts : \A u \in PathIds : u \in known'[q] /\ u \notin known[q] => u = id
    BY <1>7
  <2>4. \A q \in Parts : \A u \in PathIds : u \in known'[q] /\ u \notin known[q] => Rooted(u)'
    BY <1>9, <2>3 DEF Rooted
  <2> QED BY <1>7, <1>8, <2>1, <2>2, <2>4, KnownGrows DEF LinkInv
<1>11. /\ DOMAIN aliases \subseteq DOMAIN aliases' /\ IsFiniteSet(DOMAIN aliases')
       /\ \A i \in DOMAIN aliases' : \/ i \in DOMAIN aliases /\ aliases'[i] = aliases[i]
                                     \/ i = SidecarId(sc[p]) /\ i # Nothing /\ aliases'[i] = id
       /\ SidecarId(sc[p]) # Nothing /\ SidecarId(sc[p]) # id =>
            SidecarId(sc[p]) \in DOMAIN aliases' /\ aliases'[SidecarId(sc[p])] = id
  BY <1>4, <1>5, WithAliasIs DEF LinkInv, AliasOK
<1> DEFINE a == {p}
<1>12. /\ a \in SUBSET Placed
       /\ \A q \in a : id \in known'[q]
       /\ \A q \in Parts : known'[q] # known[q] => q \in a /\ known'[q] \subseteq known[q] \cup {id, id}
       /\ \E q \in a : SidecarId(sc'[q]) = id
  BY <1>1, <1>7
<1>13. \A q \in Parts : SidecarId(sc'[q]) # SidecarId(sc[q]) =>
         /\ q \in a /\ SidecarId(sc'[q]) = id
         /\ HasId(sc[q]) => /\ SidecarId(sc[q]) \in DOMAIN aliases'
                            /\ aliases'[SidecarId(sc[q])] \in {id, id}
  BY <1>7, <1>11 DEF HasId
<1>14. \A i \in DOMAIN aliases' :
         \/ i \in DOMAIN aliases /\ aliases'[i] = aliases[i]
         \/ aliases'[i] = id /\ NameOf(a, i)
         \/ aliases'[i] = id /\ \E q \in a : i \in known[q]
  BY <1>1, <1>6, <1>11
<1>15. AliasOK' /\ LinksOK'
  <2> HIDE DEF a
  <2> QED BY <1>8, <1>10, <1>11, <1>12, <1>13, <1>14, LinksMove DEF HadGrows
<1> QED BY <1>1, <1>7, <1>8, <1>10, <1>15

\* A step that writes the sidecars of all of an album's directories.
LEMMA ManyLinked ==
  ASSUME IdInv, LinkInv, NEW a \in SUBSET Placed, a # {}, NEW new, \A p \in a : new[p] \in Sidecar,
         NEW id \in Releases \cup PathIds, \A p \in a : SidecarId(Normalised(p, new[p])) = id,
         NEW address, NEW now, WriteSidecars(a, new, address, now),
         now = id \/ now \in CopyIds, address = Nothing \/ NameOf(a, address),
         \A p \in a : HasId(sc[p]),
         id \in PathIds => \E p \in a : id = PathId(at[p]),
         \A p \in Parts : seen'[p].sc = sc'[p], at' = at
  PROVE  KnownOK' /\ AliasOK' /\ LinksOK' /\ HadGrows
<1> DEFINE written == [p \in a |-> Normalised(p, new[p])]
           gone == {p \in a : SidecarId(sc[p]) # SidecarId(written[p])}
           followed == [i \in DOMAIN aliases \cup {SidecarId(sc[p]) : p \in gone} |->
             IF \E p \in gone : SidecarId(sc[p]) = i
               THEN SidecarId(written[CHOOSE p \in gone : SidecarId(sc[p]) = i]) ELSE aliases[i]]
<1>1. /\ sc' = [p \in Parts |-> IF p \in a THEN written[p] ELSE sc[p]]
      /\ aliases' = WithAlias(followed, address, now)
      /\ known' = [p \in Parts |->
           IF p \in a THEN known[p] \cup {SidecarId(written[p])} \cup ({now} \ {Nothing}) ELSE known[p]]
  BY DEF WriteSidecars
<1>2. \A p \in a : /\ p \in Parts /\ p \in Placed /\ SidecarId(written[p]) = id
                   /\ written[p] \in Sidecar /\ HasId(written[p])
                   /\ (written[p].mb = Nothing \/ written[p].uid = Nothing)
  <2> SUFFICES ASSUME NEW p \in a
               PROVE  /\ p \in Parts /\ p \in Placed /\ SidecarId(written[p]) = id
                      /\ written[p] \in Sidecar /\ HasId(written[p])
                      /\ (written[p].mb = Nothing \/ written[p].uid = Nothing)
    OBVIOUS
  <2>1. written[p] = Normalised(p, new[p]) /\ new[p] \in Sidecar /\ p \in Placed
    OBVIOUS
  <2>2. Normalised(p, new[p]) \in Sidecar /\ HasId(Normalised(p, new[p]))
    BY <2>1, NormalisedOK DEF IdInv
  <2>3. Normalised(p, new[p]).mb = Nothing \/ Normalised(p, new[p]).uid = Nothing
    BY <2>1, IdsAreIds DEF Normalised, Sidecar
  <2> QED BY <2>1, <2>2, <2>3 DEF Placed
<1>3. /\ id \in Ids /\ id # Nothing /\ now \in Ids /\ now # Nothing
      /\ \A p \in a : {written[p].mb, written[p].uid} \subseteq {id, Nothing}
  <2>1. id \in Ids /\ now \in Ids
    BY DEF Ids
  <2> QED BY <1>2, <2>1, IdsAssumption DEF SidecarId
<1>4. /\ DOMAIN followed = DOMAIN aliases \cup {SidecarId(sc[p]) : p \in gone}
      /\ \A i \in DOMAIN followed :
           \/ followed[i] = id /\ \E p \in gone : SidecarId(sc[p]) = i
           \/ followed[i] = aliases[i] /\ i \in DOMAIN aliases /\ ~ \E p \in gone : SidecarId(sc[p]) = i
  <2>1. ASSUME NEW i, \E p \in gone : SidecarId(sc[p]) = i
        PROVE  SidecarId(written[CHOOSE p \in gone : SidecarId(sc[p]) = i]) = id
    <3>1. (CHOOSE p \in gone : SidecarId(sc[p]) = i) \in a
      <4> HIDE DEF written
      <4> QED BY <2>1
    <3> HIDE DEF gone, written
    <3> QED BY <1>2, <3>1
  <2> DEFINE G == {SidecarId(sc[p]) : p \in gone}
             Old(i) == \E p \in gone : SidecarId(sc[p]) = i
             To(i) == SidecarId(written[CHOOSE p \in gone : SidecarId(sc[p]) = i])
  <2>2. followed = [i \in DOMAIN aliases \cup G |-> IF Old(i) THEN To(i) ELSE aliases[i]]
    OBVIOUS
  <2>3. \A i : Old(i) => To(i) = id
    BY <2>1
  <2>4. \A i \in G : Old(i)
    OBVIOUS
  <2> HIDE DEF gone, written, followed, G, Old, To
  <2>5. /\ DOMAIN followed = DOMAIN aliases \cup G
        /\ \A i \in DOMAIN followed :
             \/ followed[i] = id /\ Old(i)
             \/ followed[i] = aliases[i] /\ i \in DOMAIN aliases /\ ~Old(i)
    BY <2>2, <2>3, <2>4
  <2> QED BY <2>5 DEF G, Old
<1>5. IsFiniteSet(DOMAIN followed)
  <2>1. IsFiniteSet(gone)
    <3>1. gone \subseteq Parts
      BY <1>2
    <3> HIDE DEF gone
    <3> QED BY <3>1, FS_Subset, PartsAssumption
  <2>2. IsFiniteSet({SidecarId(sc[p]) : p \in gone})
    <3> DEFINE f == [p \in gone |-> SidecarId(sc[p])]
               T == {SidecarId(sc[p]) : p \in gone}
    <3> HIDE DEF gone
    <3>1. f \in Surjection(gone, T)
      BY DEF Surjection
    <3> HIDE DEF f, T
    <3>2. IsFiniteSet(T)
      BY <2>1, <3>1, FS_Surjection
    <3> QED BY <3>2 DEF T
  <2> HIDE DEF followed
  <2>3. IsFiniteSet(DOMAIN aliases)
    BY DEF LinkInv, AliasOK
  <2> DEFINE T == {SidecarId(sc[p]) : p \in gone}
  <2>4. IsFiniteSet(T) /\ DOMAIN followed = DOMAIN aliases \cup T
    BY <1>4, <2>2
  <2> HIDE DEF gone, T
  <2> QED BY <2>3, <2>4, FS_Union
<1> HIDE DEF followed
<1>6. /\ DOMAIN followed \subseteq DOMAIN aliases' /\ IsFiniteSet(DOMAIN aliases')
      /\ \A i \in DOMAIN aliases' : \/ i \in DOMAIN followed /\ aliases'[i] = followed[i]
                                    \/ i = address /\ address # Nothing /\ aliases'[i] = now
  BY <1>1, <1>3, <1>5, WithAliasIs
<1>7. /\ known \in [Parts -> SUBSET Ids] /\ sc \in [Parts -> Sidecar]
      /\ \A q \in Parts : SidecarId(sc[q]) \in known[q] \cup {Nothing}
  BY DEF LinkInv, KnownOK, IdInv, TypeOK, SidecarId
<1> HIDE DEF written
<1>8. /\ \A p \in Parts : known'[p] = IF p \in a THEN known[p] \cup {id, now} ELSE known[p]
      /\ \A p \in Parts : sc'[p] = IF p \in a THEN written[p] ELSE sc[p]
  BY <1>1, <1>2, <1>3
<1>9. Stays /\ HadGrows /\ Placed' = Placed /\ known' \in [Parts -> SUBSET Ids]
  <2>1. known' \in [Parts -> SUBSET Ids]
    BY <1>1, <1>2, <1>3, <1>7
  <2> QED BY <1>8, <2>1, PlacesStay DEF HadGrows, Placed
<1>10. ASSUME id \in PathIds PROVE Rooted(id)'
  <2>1. PICK p \in a : id = PathId(at[p])
    BY <1>10
  <2>2. p \in Placed' /\ id \in known'[p]
    BY <1>2, <1>8, <1>9
  <2> QED BY <2>1, <2>2 DEF Rooted
<1>11. KnownOK'
  <2>1. \A q \in Parts : sc'[q] # sc[q] => {sc'[q].mb, sc'[q].uid} \subseteq known'[q] \cup {Nothing}
    <3> SUFFICES ASSUME NEW q \in Parts, sc'[q] # sc[q]
                 PROVE  {sc'[q].mb, sc'[q].uid} \subseteq known'[q] \cup {Nothing}
      OBVIOUS
    <3>1. q \in a /\ sc'[q] = written[q] /\ known'[q] = known[q] \cup {id, now}
      BY <1>8
    <3> QED BY <1>3, <3>1
  <2>2. \A q \in Parts : HasId(sc[q]) \/ known'[q] # known[q] => HasId(sc'[q])
    BY <1>2, <1>8
  <2>3. \A q \in Parts : \A u \in PathIds : u \in known'[q] /\ u \notin known[q] => u = id
    <3>1. CopyIds \cap PathIds = {}
      BY DEF CopyIds, PathIds, PathId
    <3>2. now \in PathIds => now = id
      BY <3>1
    <3>3. \A q \in Parts : known'[q] \subseteq known[q] \cup {id, now}
      BY <1>8
    <3> QED BY <3>2, <3>3
  <2>4. \A q \in Parts : \A u \in PathIds : u \in known'[q] /\ u \notin known[q] => Rooted(u)'
    BY <1>10, <2>3
  <2> QED BY <1>9, <2>1, <2>2, <2>4, KnownGrows DEF LinkInv
<1>12. /\ DOMAIN aliases \subseteq DOMAIN aliases'
       /\ \A p \in a : now \in known'[p]
       /\ \A p \in Parts : known[p] \subseteq known'[p]
       /\ \A p \in Parts : known'[p] # known[p] => p \in a /\ known'[p] \subseteq known[p] \cup {id, now}
       /\ \E p \in a : SidecarId(sc'[p]) = id
  <2> HIDE DEF gone
  <2>1. DOMAIN aliases \subseteq DOMAIN aliases'
    BY <1>4, <1>6
  <2>2. \E p \in a : SidecarId(sc'[p]) = id
    BY <1>2, <1>8
  <2>3. \A p \in a : now \in known'[p]
    BY <1>2, <1>8
  <2>4. \A p \in Parts : known[p] \subseteq known'[p]
    BY <1>8
  <2>5. \A p \in Parts : known'[p] # known[p] => p \in a /\ known'[p] \subseteq known[p] \cup {id, now}
    BY <1>8
  <2> QED BY <2>1, <2>2, <2>3, <2>4, <2>5
<1>13. \A q \in Parts : SidecarId(sc'[q]) # SidecarId(sc[q]) =>
         /\ q \in a /\ SidecarId(sc'[q]) = id
         /\ HasId(sc[q]) => /\ SidecarId(sc[q]) \in DOMAIN aliases'
                            /\ aliases'[SidecarId(sc[q])] \in {id, now}
  <2> SUFFICES ASSUME NEW q \in Parts, SidecarId(sc'[q]) # SidecarId(sc[q])
               PROVE  /\ q \in a /\ SidecarId(sc'[q]) = id
                      /\ SidecarId(sc[q]) \in DOMAIN aliases'
                      /\ aliases'[SidecarId(sc[q])] \in {id, now}
    OBVIOUS
  <2>1. q \in a /\ SidecarId(sc'[q]) = id /\ q \in gone
    BY <1>2, <1>8
  <2>2. SidecarId(sc[q]) \in DOMAIN followed /\ followed[SidecarId(sc[q])] = id
    <3> HIDE DEF gone
    <3> QED BY <1>4, <2>1
  <2> QED BY <1>6, <2>1, <2>2
<1>14. \A i \in DOMAIN aliases' :
         \/ i \in DOMAIN aliases /\ aliases'[i] = aliases[i]
         \/ aliases'[i] = now /\ NameOf(a, i)
         \/ aliases'[i] = id /\ \E p \in a : i \in known[p]
  <2> SUFFICES ASSUME NEW i \in DOMAIN aliases'
               PROVE  \/ i \in DOMAIN aliases /\ aliases'[i] = aliases[i]
                      \/ aliases'[i] = now /\ NameOf(a, i)
                      \/ aliases'[i] = id /\ \E p \in a : i \in known[p]
    OBVIOUS
  <2>1. CASE i = address /\ address # Nothing /\ aliases'[i] = now
    BY <2>1
  <2>2. CASE i \in DOMAIN followed /\ aliases'[i] = followed[i]
    <3>1. \A p \in gone : p \in a
      OBVIOUS
    <3>2. \A p \in gone : SidecarId(sc[p]) = i => i \in known[p]
      BY <1>2, <1>7, <3>1 DEF HasId
    <3> HIDE DEF gone
    <3> QED BY <1>4, <2>2, <3>1, <3>2
  <2> QED BY <1>6, <2>1, <2>2
<1>15. AliasOK' /\ LinksOK'
  BY <1>6, <1>11, <1>12, <1>13, <1>14, LinksMove
<1> QED BY <1>9, <1>11, <1>15

LEMMA NoOpNamed == ASSUME op' = NoOp PROVE OpNamed'
<1>1. op'.shown.uid = Nothing /\ op'.kind # "tag"
  BY DEF NoOp, NoSidecar
<1> QED BY <1>1 DEF OpNamed

LEMMA LooksLinked ==
  ASSUME IdInv, LinkInv,
         \/ Scan \/ WriteFile \/ WriteFails \/ Picard \/ Appear \/ Crash
         \/ PassStart \/ PassRead \/ PassGivesWay \/ PassEnd
  PROVE  LinkInv'
<1>1. UNCHANGED <<sc, aliases, known>>
  BY DEF Scan, WriteFile, WriteFails, Picard, Appear, Crash, PassStart, PassRead, PassGivesWay, PassEnd
<1>2. Stays
  <2>1. CASE Appear
    <3>1. PICK p \in Parts, n \in Paths \ {at[q] : q \in Parts} :
            at[p] = Nowhere /\ at' = [at EXCEPT ![p] = n]
      BY <2>1 DEF Appear
    <3> QED BY <3>1 DEF Stays, Placed, IdInv, TypeOK
  <2>2. CASE at' = at
    BY <2>2, PlacesStay
  <2> QED BY <2>1, <2>2
    DEF Scan, WriteFile, WriteFails, Picard, Crash, PassStart, PassRead, PassGivesWay, PassEnd
<1>3. \A p \in Parts : seen'[p] = seen[p] \/ seen'[p].sc = sc[p]
  <2>1. seen' = seen \/ Rescanned(Parts)
    BY DEF Scan, WriteFile, WriteFails, Picard, Appear, Crash, PassStart, PassRead, PassGivesWay, PassEnd
  <2> QED BY <2>1 DEF Rescanned, Reading
<1>4. KnownOK' /\ AliasOK' /\ LinksOK' /\ HadGrows
  BY <1>1, <1>2, <1>3, NothingMoves
<1>5. OpNamed'
  <2>1. op' \in {op, NoOp} \/ \E f \in op.todo : op' = [op EXCEPT !.todo = @ \ {f}]
    BY DEF Scan, WriteFile, WriteFails, Picard, Appear, Crash, PassStart, PassRead, PassGivesWay, PassEnd
  <2>2. CASE op' = NoOp
    BY <2>2, NoOpNamed
  <2>3. CASE op' = op
    BY <1>2, <1>4, <2>3, OpStaysNamed DEF LinkInv
  <2>4. CASE \E f \in op.todo : op' = [op EXCEPT !.todo = @ \ {f}]
    <3>1. /\ op'.shown = op.shown /\ op'.kind = op.kind /\ op'.album = op.album
          /\ op'.address = op.address /\ op'.sidecars = op.sidecars
      BY <2>4 DEF IdInv, OpOK
    <3> QED BY <1>2, <1>4, <3>1, OpStaysNamed DEF LinkInv
  <2> QED BY <2>1, <2>2, <2>3, <2>4
<1> QED BY <1>4, <1>5 DEF LinkInv

\* A request begins with what the snapshot shows.
LEMMA BeginsLinked ==
  ASSUME IdInv, LinkInv, Confirm \/ Undo PROVE LinkInv'
<1>1. UNCHANGED <<at, sc, seen, aliases, known>>
  BY DEF Confirm, Undo
<1>2. KnownOK' /\ AliasOK' /\ LinksOK' /\ Placed' = Placed
  BY <1>1, PlacesStay, NothingMoves DEF Placed
<1>3. CASE Confirm
  <2>1. PICK a \in Albums(seen), r \in Releases :
          op' = [NoOp EXCEPT !.kind = "tag", !.album = a, !.release = MergedInto[r],
                 !.address = IdOf(seen, a), !.sidecars = a, !.todo = FilesOf(a),
                 !.target = [f \in FilesOf(a) |-> MergedInto[r]], !.act = acts + 1]
    BY <1>3 DEF Confirm
  <2>2. /\ op'.album = a /\ op'.sidecars = a /\ op'.shown.uid = Nothing
        /\ op'.address = IdOf(seen, a)
    BY <2>1 DEF NoOp, NoSidecar
  <2>3. a # {}
    BY SeenAlbum
  <2>4. NameOf(a, IdOf(seen, a))
    BY AddressNames DEF LinkInv
  <2>5. NameOf(op.album, op.address)'
    BY <1>1, <2>2, <2>4 DEF NameOf
  <2> QED BY <1>2, <2>2, <2>3, <2>5 DEF LinkInv, OpNamed
<1>4. CASE Undo
  <2>1. PICK a \in Albums(seen), act \in 1..acts :
          op' = [NoOp EXCEPT !.kind = "undo", !.album = a,
                  !.release = (CHOOSE r \in PlanOf(act) : TRUE).before,
                  !.target = [f \in FilesOf(a) |-> (CHOOSE r \in PlanOf(act) : TRUE).before],
                  !.shown = MergedSidecar(seen, a),
                  !.todo = {f \in FilesOf(a) : tags[f] # (CHOOSE r \in PlanOf(act) : TRUE).before},
                  !.act = acts + 1]
    BY <1>4 DEF Undo
  <2>2. op'.shown = MergedSidecar(seen, a) /\ op'.kind = "undo"
    BY <2>1 DEF NoOp
  <2>3. First(seen, a) \in Parts /\ op'.shown = seen[First(seen, a)].sc
    BY <2>2, SeenViewOK, AlbumParts DEF IdInv, MergedSidecar
  <2>4. op'.shown \in Sidecar /\ op'.shown.uid \in known[First(seen, a)] \cup {Nothing}
    BY <2>3 DEF LinkInv, KnownOK, IdInv, TypeOK
  <2>5. ASSUME op'.shown.uid # Nothing PROVE Rooted(op.shown.uid)'
    <3>1. op'.shown.uid \in known[First(seen, a)] \cap PathIds
      BY <2>4, <2>5 DEF Sidecar
    <3>2. Rooted(op'.shown.uid)
      BY <2>3, <3>1 DEF LinkInv, KnownOK
    <3> QED BY <1>1, <1>2, <3>2 DEF Rooted
  <2> QED BY <1>2, <2>2, <2>5 DEF LinkInv, OpNamed
<1> QED BY <1>3, <1>4

LEMMA SidecarLinked ==
  ASSUME IdInv, LinkInv, SidecarFollows \/ Unlinked \/ PassWrite PROVE LinkInv'
<1>1. CASE SidecarFollows
  <2>1. PICK p \in op.sidecars :
          /\ WriteSidecar(p, [sc[p] EXCEPT !.mb = op.release])
          /\ op' = [op EXCEPT !.sidecars = @ \ {p}]
    BY <1>1 DEF SidecarFollows
  <2>2. /\ op'.kind = op.kind /\ op'.album = op.album /\ op'.address = op.address
        /\ op'.shown = op.shown /\ op.sidecars \ op'.sidecars \subseteq {p}
    BY <2>1 DEF IdInv, OpOK
  <2>3. UNCHANGED <<at, seen>> /\ op.kind = "tag"
    BY <1>1 DEF SidecarFollows
  <2>4. p \in Placed /\ p \in Parts /\ op.release \in Releases /\ sc[p] \in Sidecar
    BY <2>1, <2>3 DEF IdInv, OpOK, TypeOK, Placed
  <2>5. /\ [sc[p] EXCEPT !.mb = op.release] \in Sidecar
        /\ [sc[p] EXCEPT !.mb = op.release].mb # Nothing
    BY <2>4, PartsAssumption DEF Sidecar
  <2>6. KnownOK' /\ AliasOK' /\ LinksOK' /\ HadGrows /\ known'[p] # {}
    BY <2>1, <2>3, <2>4, <2>5, OneLinked
  <2>7. OpNamed'
    BY <2>2, <2>3, <2>6, PlacesStay, OpStaysNamed DEF LinkInv
  <2> QED BY <2>6, <2>7 DEF LinkInv
<1>2. CASE Unlinked
  <2>1. UNCHANGED <<at, seen>> /\ op' = NoOp /\ op.kind = "undo"
        /\ \/ UNCHANGED <<sc, aliases, known>>
           \/ WriteSidecar(Primary(seen, op.album), [op.shown EXCEPT !.mb = Nothing])
    BY <1>2 DEF Unlinked
  <2>2. Primary(seen, op.album) \in Placed
    BY <2>1, SeenViewOK, PrimaryIsOne DEF IdInv, OpOK, Placed
  <2>3. op.shown \in Sidecar /\ (op.shown.uid # Nothing => Rooted(op.shown.uid))
    BY DEF IdInv, OpOK, LinkInv, OpNamed
  <2>4. /\ [op.shown EXCEPT !.mb = Nothing] \in Sidecar
        /\ [op.shown EXCEPT !.mb = Nothing].uid = op.shown.uid
    BY <2>3 DEF Sidecar
  <2>5. CASE UNCHANGED <<sc, aliases, known>>
    BY <2>1, <2>5, PlacesStay, NothingMoves, NoOpNamed DEF LinkInv
  <2>6. CASE WriteSidecar(Primary(seen, op.album), [op.shown EXCEPT !.mb = Nothing])
    BY <2>1, <2>2, <2>3, <2>4, <2>6, OneLinked, NoOpNamed DEF LinkInv
  <2> QED BY <2>1, <2>5, <2>6
<1>3. CASE PassWrite
  <2>1. WriteSidecar(pass.part, pass.found) /\ UNCHANGED <<at, seen, op>> /\ pass.step = "found"
    BY <1>3 DEF PassWrite
  <2>2. /\ pass.part \in Placed /\ pass.found \in Sidecar
        /\ pass.found.mb # Nothing \/ pass.found.uid = PathId(at[pass.part])
    BY <2>1 DEF IdInv, PassOK
  <2>3. KnownOK' /\ AliasOK' /\ LinksOK' /\ HadGrows
    BY <2>1, <2>2, OneLinked
  <2>4. OpNamed'
    BY <2>1, <2>3, PlacesStay, OpStaysNamed DEF LinkInv
  <2> QED BY <2>3, <2>4 DEF LinkInv
<1> QED BY <1>1, <1>2, <1>3

\* What a tagging leads its address to: the release, whatever else the sidecar
\* got to say meanwhile, or the copy's own.
LEMMA TaggedLinked ==
  ASSUME IdInv, LinkInv, Tagged PROVE LinkInv'
<1> DEFINE v == Fresh(op.album)
           f == First(seen, op.album)
           b == AlbumWith(v, f)
<1>1. PICK now : /\ now = IdOf(v, b)
                 /\ aliases' = IF now = op.release THEN aliases ELSE WithAlias(aliases, op.address, now)
                 /\ known' = [p \in Parts |-> IF p \in op.album THEN known[p] \cup {now} ELSE known[p]]
  BY DEF Tagged
<1>2. /\ op.kind = "tag" /\ op.sidecars = {} /\ Rescanned(op.album) /\ op' = NoOp
      /\ UNCHANGED <<at, sc>>
  BY DEF Tagged
<1>3. /\ op.album \subseteq Placed /\ op.album # {} /\ NameOf(op.album, op.address)
      /\ \A p \in op.album : p \in Parts /\ HasId(sc[p])
  BY <1>2 DEF IdInv, OpOK, LinkInv, OpNamed, KnownOK, Placed
<1>4. f \in op.album
  BY <1>3, SeenViewOK, FirstIsOne DEF IdInv
<1>5. ViewOK(v) /\ v[f] = Reading(f) /\ f \in There(v)
  <2>1. v[f] = Reading(f)
    BY <1>3, <1>4 DEF Fresh
  <2> QED BY <1>3, <1>4, <2>1, FreshViewOK DEF IdInv, There, Reading, Placed
<1>6. b \in Albums(v) /\ f \in b
  <2>1. \E c \in Albums(v) : f \in c
    <3> HIDE DEF v, f
    <3> QED BY <1>5, AlbumsPartition
  <2> HIDE DEF v, f
  <2> QED BY <2>1 DEF AlbumWith
<1> PICK id : id = SidecarId(sc[f])
  OBVIOUS
<1>7. SidecarId(MergedSidecar(v, b)) = id /\ id # Nothing
  <2>1. v[f].sc = sc[f]
    BY <1>5 DEF Reading
  <2> HIDE DEF v, f, b
  <2>2. SidecarId(v[f].sc) = SidecarId(MergedSidecar(v, b))
    BY <1>5, <1>6, AlbumParts
  <2> QED BY <1>3, <1>4, <2>1, <2>2 DEF HasId
<1> HIDE DEF v, b
<1>8. now = id \/ now \in CopyIds
  BY <1>1, <1>5, <1>6, <1>7, AddressIs
<1> HIDE DEF f
<1>9. /\ known \in [Parts -> SUBSET Ids] /\ \A p \in Parts : known[p] # {} => HasId(sc[p])
      /\ f \in Parts /\ id \in known[f]
  BY <1>3, <1>4, <1>7 DEF LinkInv, KnownOK, SidecarId
<1>10. now \in Ids /\ now # Nothing /\ id \in Ids
  BY <1>8, <1>9, IdsAssumption DEF Ids
<1>11. /\ \A p \in Parts : known'[p] = IF p \in op.album THEN known[p] \cup {now} ELSE known[p]
       /\ known' \in [Parts -> SUBSET Ids]
  BY <1>1, <1>9, <1>10
<1>12. Stays /\ HadGrows /\ Placed' = Placed
  BY <1>2, <1>11, PlacesStay DEF HadGrows, Placed
<1>13. KnownOK'
  <2>1. \A p \in Parts : seen'[p] = seen[p] \/ seen'[p].sc \in {sc[p], sc'[p]}
    BY <1>2 DEF Rescanned, Reading
  <2>2. \A p \in Parts : HasId(sc[p]) \/ known'[p] # known[p] => HasId(sc'[p])
    BY <1>2, <1>3, <1>11
  <2>3. \A p \in Parts : \A u \in PathIds : u \in known'[p] /\ u \notin known[p] => Rooted(u)'
    <3> SUFFICES ASSUME NEW p \in Parts, NEW u \in PathIds, u \in known'[p], u \notin known[p]
                 PROVE  Rooted(u)'
      OBVIOUS
    <3>1. u = now /\ u = id
      <4>1. CopyIds \cap PathIds = {}
        BY DEF CopyIds, PathIds, PathId
      <4> QED BY <1>8, <1>11, <4>1
    <3>2. Rooted(u)
      BY <1>9, <3>1 DEF LinkInv, KnownOK
    <3> QED BY <1>12, <3>2, RootedStays
  <2> QED BY <1>2, <1>11, <1>12, <2>1, <2>2, <2>3, KnownGrows DEF LinkInv
<1>14. /\ DOMAIN aliases \subseteq DOMAIN aliases' /\ IsFiniteSet(DOMAIN aliases')
       /\ \A i \in DOMAIN aliases' : \/ i \in DOMAIN aliases /\ aliases'[i] = aliases[i]
                                     \/ aliases'[i] = now /\ NameOf(op.album, i)
  <2>1. IsFiniteSet(DOMAIN aliases)
    BY DEF LinkInv, AliasOK
  <2>2. CASE aliases' = aliases
    BY <2>1, <2>2
  <2>3. CASE aliases' = WithAlias(aliases, op.address, now)
    BY <1>3, <1>10, <2>1, <2>3, WithAliasIs
  <2> QED BY <1>1, <2>2, <2>3
<1>15. AliasOK' /\ LinksOK'
  <2> PICK a : a = op.album
    OBVIOUS
  <2>1. a \in SUBSET Placed /\ \A p \in a : now \in known'[p]
    BY <1>3, <1>11
  <2>2. \A p \in Parts : known'[p] # known[p] => p \in a /\ known'[p] \subseteq known[p] \cup {id, now}
    BY <1>11
  <2>3. \E p \in a : SidecarId(sc'[p]) = id
    BY <1>2, <1>4
  <2>4. \A i \in DOMAIN aliases' :
          \/ i \in DOMAIN aliases /\ aliases'[i] = aliases[i]
          \/ aliases'[i] = now /\ NameOf(a, i)
          \/ aliases'[i] = id /\ \E p \in a : i \in known[p]
    BY <1>14
  <2>5. \A p \in Parts : SidecarId(sc'[p]) # SidecarId(sc[p]) =>
          /\ p \in a /\ SidecarId(sc'[p]) = id
          /\ HasId(sc[p]) => /\ SidecarId(sc[p]) \in DOMAIN aliases'
                             /\ aliases'[SidecarId(sc[p])] \in {id, now}
    BY <1>2
  <2>6. IdInv /\ LinkInv /\ at' = at /\ \A p \in Parts : known[p] \subseteq known'[p]
    BY <1>2, <1>12 DEF HadGrows
  <2> QED BY ONLY <1>8, <1>13, <1>14, <2>1, <2>2, <2>3, <2>4, <2>5, <2>6, LinksMove
<1> QED BY <1>2, <1>13, <1>15, NoOpNamed DEF LinkInv

LEMMA PencilLinked ==
  ASSUME IdInv, LinkInv, Pencil PROVE LinkInv'
<1>1. PICK b \in Albums(seen) :
        LET view == Fresh(b)
            a == AlbumWith(view, First(view, b))
            release == sc[Primary(view, a)].mb
            address == IdOf(view, a)
            uid == PathId(at[Primary(view, a)])
        IN /\ release # Nothing
           /\ \A p \in a : sc[p].mb = release
           /\ WriteSidecars(a, [p \in a |-> [mb |-> Nothing, uid |-> uid]],
                            IF address = release THEN Nothing ELSE address, uid)
           /\ seen' = [p \in Parts |-> [Reading(p) EXCEPT !.sc = sc'[p]]]
  BY DEF Pencil
<1> PICK v : v = Fresh(b)
  OBVIOUS
<1> PICK a : a = AlbumWith(v, First(v, b))
  OBVIOUS
<1> PICK main : main = Primary(v, a)
  OBVIOUS
<1> PICK uid : uid = PathId(at[main])
  OBVIOUS
<1> PICK new : new = [p \in a |-> [mb |-> Nothing, uid |-> uid]]
  OBVIOUS
<1> PICK address : address = IF IdOf(v, a) = sc[main].mb THEN Nothing ELSE IdOf(v, a)
  OBVIOUS
<1>2. a \in Albums(v) /\ a \in SUBSET Placed /\ a # {} /\ main \in a
  BY AlbumNow
<1>3. /\ WriteSidecars(a, new, address, uid) /\ at' = at
      /\ seen' = [p \in Parts |-> [Reading(p) EXCEPT !.sc = sc'[p]]]
      /\ \A p \in a : sc[p].mb # Nothing
  BY <1>1 DEF Pencil
<1>4. uid \in PathIds /\ uid \in Releases \cup PathIds
  BY <1>2, IdsAreIds DEF IdInv, TypeOK, Placed
<1>5. \A p \in a : new[p] \in Sidecar /\ SidecarId(Normalised(p, new[p])) = uid
  BY <1>4, IdsAreIds DEF Sidecar, Normalised, SidecarId
<1>6. address = Nothing \/ NameOf(a, address)
  <2>1. \A p \in Parts : v[p] = seen[p] \/ v[p] = Reading(p)
    BY DEF Fresh
  <2>2. NameOf(a, IdOf(v, a))
    BY <1>2, <2>1, AddressNames DEF LinkInv
  <2> QED BY <2>2
<1>7. \A p \in a : HasId(sc[p])
  BY <1>3 DEF HasId, SidecarId
<1>8. \A p \in Parts : seen'[p].sc = sc'[p]
  BY <1>3 DEF Reading
<1>9. KnownOK' /\ AliasOK' /\ LinksOK' /\ HadGrows
  <2>1. IdInv /\ LinkInv /\ at' = at /\ \E p \in a : uid = PathId(at[p])
    BY <1>2, <1>3
  <2>2. \A p \in a : new[p] \in Sidecar
    BY <1>5
  <2> QED BY ONLY <1>2, <1>3, <1>4, <1>5, <1>6, <1>7, <1>8, <2>1, <2>2, ManyLinked
<1>10. op' = op
  BY DEF Pencil
<1>11. OpNamed'
  BY <1>3, <1>9, <1>10, PlacesStay, OpStaysNamed DEF LinkInv
<1> QED BY <1>9, <1>11 DEF LinkInv

LEMMA UndoPencilLinked ==
  ASSUME IdInv, LinkInv, UndoPencil PROVE LinkInv'
<1>1. PICK b \in Albums(seen) :
        LET view == Fresh(b)
            a == AlbumWith(view, First(view, b))
            carried == Carried(view, a)
            release == CHOOSE r \in carried : TRUE
            relinked == [p \in a |-> [sc[p] EXCEPT !.mb = release]]
            after == [p \in Parts |-> [Reading(p) EXCEPT !.sc =
                        IF p \in a THEN Normalised(p, relinked[p]) ELSE sc[p]]]
            now == IdOf(after, AlbumWith(after, Primary(view, a)))
        IN /\ \A p \in a : sc[p] # NoSidecar /\ sc[p].mb = Nothing
           /\ Cardinality(carried) = 1
           /\ WriteSidecars(a, relinked, IF now = release THEN Nothing ELSE IdOf(view, a), now)
           /\ seen' = after
  BY DEF UndoPencil
<1> DEFINE v == Fresh(b)
           a == AlbumWith(v, First(v, b))
           main == Primary(v, a)
           carried == Carried(v, a)
           release == CHOOSE r \in carried : TRUE
           new == [p \in a |-> [sc[p] EXCEPT !.mb = release]]
           after == [p \in Parts |-> [Reading(p) EXCEPT !.sc =
                       IF p \in a THEN Normalised(p, new[p]) ELSE sc[p]]]
           now == IdOf(after, AlbumWith(after, main))
           address == IF now = release THEN Nothing ELSE IdOf(v, a)
<1>2. a \in Albums(v) /\ a \in SUBSET Placed /\ a # {} /\ main \in a
  BY AlbumNow
<1>3. /\ WriteSidecars(a, new, address, now) /\ at' = at /\ seen' = after
      /\ \A p \in a : sc[p] # NoSidecar /\ sc[p].mb = Nothing
      /\ Cardinality(carried) = 1
  BY <1>1 DEF UndoPencil
<1>4. ViewOK(v) /\ \A p \in Parts : v[p] = seen[p] \/ v[p] = Reading(p)
  BY FreshViewOK DEF IdInv, Fresh
<1> HIDE DEF v, a, main, carried, now, after
<1>5. release \in Releases
  <2>1. carried # {}
    <3>1. Cardinality(carried) = 1
      BY <1>3
    <3> QED BY ONLY <3>1, FS_EmptySet
  <2>2. carried \subseteq Releases
    BY <1>4 DEF carried, Carried, FilesOf, ViewOK, MBIDs
  <2> QED BY <2>1, <2>2
<1> HIDE DEF release
<1>6. \A p \in a : /\ p \in Parts /\ sc[p] \in Sidecar /\ new[p] \in Sidecar
                   /\ SidecarId(Normalised(p, new[p])) = release
  <2> SUFFICES ASSUME NEW p \in a
               PROVE  /\ p \in Parts /\ sc[p] \in Sidecar /\ new[p] \in Sidecar
                      /\ SidecarId(Normalised(p, new[p])) = release
    OBVIOUS
  <2>1. p \in Parts /\ sc[p] \in Sidecar
    BY <1>2 DEF IdInv, TypeOK, Placed
  <2>2. new[p] = [sc[p] EXCEPT !.mb = release]
    OBVIOUS
  <2>3. new[p] \in Sidecar /\ new[p].mb = release /\ release # Nothing
    BY <1>5, <2>1, <2>2, PartsAssumption DEF Sidecar
  <2>4. SidecarId(Normalised(p, new[p])) = release
    BY <2>3 DEF Normalised, SidecarId, Sidecar
  <2> QED BY <2>1, <2>3, <2>4
<1> HIDE DEF new
<1>7. address = Nothing \/ NameOf(a, address)
  <2>1. NameOf(a, IdOf(v, a))
    BY <1>2, <1>4, AddressNames DEF LinkInv
  <2> QED BY <2>1
<1> HIDE DEF address
<1>8. \A p \in a : HasId(sc[p])
  <2>1. \A s \in Sidecar : s # NoSidecar /\ s.mb = Nothing => s.uid # Nothing
    BY DEF Sidecar, NoSidecar
  <2> QED BY <1>3, <1>6, <2>1 DEF HasId, SidecarId
<1>9. sc' = [p \in Parts |-> IF p \in a THEN Normalised(p, new[p]) ELSE sc[p]]
  BY <1>3 DEF WriteSidecars
<1>10. /\ \A p \in Parts : seen'[p].sc = sc'[p]
      /\ \A p \in Parts : after[p].at = at[p] /\ after[p].tags = Reading(p).tags
  <2>1. \A p \in Parts : after[p] = [Reading(p) EXCEPT !.sc =
                            IF p \in a THEN Normalised(p, new[p]) ELSE sc[p]]
    BY DEF after
  <2>2. \A p \in Parts : after[p].sc = (IF p \in a THEN Normalised(p, new[p]) ELSE sc[p])
                         /\ after[p].at = at[p] /\ after[p].tags = Reading(p).tags
    BY <2>1 DEF Reading
  <2> QED BY <1>3, <1>9, <2>2
<1>11. now = release \/ now \in CopyIds
  <2>1. ViewOK(after)
    <3>1. \A p \in Parts : after[p].at \in Paths \cup {Nowhere} /\ after[p].sc \in Sidecar
      <4>1. \A p \in a : Normalised(p, new[p]) \in Sidecar
        BY <1>2, <1>6, NormalisedOK DEF IdInv
      <4> QED BY <1>3, <1>9, <1>10, <4>1 DEF IdInv, TypeOK
    <3>2. \A f \in Files : after[PartOf[f]].tags[f] \in MBIDs
      <4>1. \A f \in Files : PartOf[f] \in Parts /\ Reading(PartOf[f]).tags[f] = tags[f]
        BY PartsAssumption DEF Reading, FilesIn
      <4> QED BY <1>10, <4>1 DEF IdInv, TypeOK
    <3>3. \A p, q \in Parts : after[p].at # Nowhere /\ after[p].at = after[q].at => p = q
      BY <1>10 DEF IdInv, SeenInv, Placed
    <3> QED BY <3>1, <3>2, <3>3 DEF ViewOK
  <2>2. main \in Parts /\ main \in There(after)
    BY <1>2, <1>10 DEF There, Placed
  <2>3. \E c \in Albums(after) : main \in c
    BY <2>2, AlbumsPartition
  <2>4. AlbumWith(after, main) \in Albums(after) /\ main \in AlbumWith(after, main)
    BY <2>3 DEF AlbumWith
  <2>5. SidecarId(after[main].sc) = release
    BY <1>2, <1>3, <1>6, <1>9, <1>10, <2>2
  <2>6. SidecarId(MergedSidecar(after, AlbumWith(after, main))) = release
    BY <2>1, <2>4, <2>5, AlbumParts
  <2> QED BY <1>5, <2>1, <2>4, <2>6, AddressIs, PartsAssumption DEF now
<1>12. release \in Releases \cup PathIds /\ release \notin PathIds
  BY <1>5, IdsAreIds
<1>13. KnownOK' /\ AliasOK' /\ LinksOK' /\ HadGrows
  <2>1. IdInv /\ LinkInv /\ at' = at /\ WriteSidecars(a, new, address, now)
    BY <1>3
  <2>2. \A p \in a : new[p] \in Sidecar
    BY <1>6
  <2>3. \A p \in a : SidecarId(Normalised(p, new[p])) = release
    BY <1>6
  <2> QED BY ONLY <1>2, <1>7, <1>8, <1>10, <1>11, <1>12, <2>1, <2>2, <2>3, ManyLinked
<1>14. op' = op
  BY DEF UndoPencil
<1>15. OpNamed'
  BY <1>3, <1>13, <1>14, PlacesStay, OpStaysNamed DEF LinkInv
<1> QED BY <1>13, <1>15 DEF LinkInv

LEMMA BeginningLinked ==
  ASSUME Init, IdInv PROVE LinkInv
<1>1. /\ sc = [p \in Parts |-> NoSidecar] /\ seen = Disk /\ op = NoOp
      /\ aliases = [i \in {} |-> Nothing] /\ known = [p \in Parts |-> {}]
  BY DEF Init
<1>2. \A p \in Parts : sc[p] = NoSidecar /\ seen[p].sc = NoSidecar /\ known[p] = {}
  BY <1>1 DEF Disk, Reading
<1>3. KnownOK
  BY <1>1, <1>2 DEF KnownOK, NoSidecar
<1>4. OpNamed
  BY <1>1 DEF OpNamed, NoOp, NoSidecar
<1>5. AliasOK
  BY <1>1, FS_EmptySet DEF AliasOK
<1>6. LinksOK
  <2>1. \A G \in SUBSET Parts : Had(G) = {}
    BY <1>2 DEF Had
  <2> QED BY <1>1, <2>1 DEF LinksOK, Followed
<1> QED BY <1>3, <1>4, <1>5, <1>6 DEF LinkInv

THEOREM LinksHold == Spec => []LinkInv
<1>1. IdInv /\ LinkInv /\ [Next]_vars => LinkInv'
  <2>1. CASE UNCHANGED vars
    <3>1. UNCHANGED <<at, sc, seen, aliases, op, known>>
      BY <2>1 DEF vars
    <3> QED BY <3>1, PlacesStay, NothingMoves, OpStaysNamed DEF LinkInv
  <2>2. ASSUME IdInv, LinkInv, Next PROVE LinkInv'
    BY <2>2, LooksLinked, BeginsLinked, SidecarLinked, TaggedLinked, PencilLinked, UndoPencilLinked
      DEF Next
  <2> QED BY <2>1, <2>2
<1>2. Init => IdInv
  BY Beginning
<1> QED BY <1>1, <1>2, BeginningLinked, IdentityHolds, PTL DEF Spec

(***************************************************************************)
(* Where the walk along the aliases ends: it stops before it runs out of    *)
(* aliases to follow, with all it has been to but the last led on.          *)
(***************************************************************************)
LEMMA LeastNumber ==
  ASSUME NEW S \in SUBSET Nat, S # {}
  PROVE  \E m \in S : \A j \in S : m <= j
<1> DEFINE f == [x \in S |-> x]
<1>1. f \in [S -> Nat]
  OBVIOUS
<1>2. \E m \in S : \A j \in S : f[m] <= f[j]
  <2> HIDE DEF f
  <2> QED BY <1>1, HasLeast
<1> QED BY <1>2

Further(w) ==
  IF w.current \in DOMAIN aliases /\ aliases[w.current] \notin w.been
    THEN [current |-> aliases[w.current], been |-> w.been \cup {aliases[w.current]}]
    ELSE w
Outset(id) == [current |-> id, been |-> {id}]
Walking(g, n, id) == g = [i \in 0..n |-> IF i = 0 THEN Outset(id) ELSE Further(g[i - 1])]

LEMMA WalkDefined ==
  ASSUME NEW id, NEW n \in Nat
  PROVE  \E g : Walking(g, n, id)
<1> DEFINE Good(m) == \E g : g = [i \in 0..m |-> IF i = 0 THEN Outset(id) ELSE Further(g[i - 1])]
           B == {m \in 0..n : ~ Good(m)}
<1>1. Good(0)
  <2> DEFINE g == [i \in 0..0 |-> Outset(id)]
  <2>1. \A i \in 0..0 : i = 0
    OBVIOUS
  <2>2. g = [i \in 0..0 |-> IF i = 0 THEN Outset(id) ELSE Further(g[i - 1])]
    BY <2>1
  <2> QED BY <2>2
<1>2. ASSUME NEW m \in Nat, Good(m) PROVE Good(m + 1)
  <2>1. PICK g : g = [i \in 0..m |-> IF i = 0 THEN Outset(id) ELSE Further(g[i - 1])]
    BY <1>2
  <2> DEFINE h == [i \in 0..(m + 1) |-> IF i = 0 THEN Outset(id) ELSE Further(g[i - 1])]
  <2>2. \A i \in 0..m : g[i] = IF i = 0 THEN Outset(id) ELSE Further(g[i - 1])
    BY <2>1
  <2>3. \A i \in 0..(m + 1) : h[i] = IF i = 0 THEN Outset(id) ELSE Further(g[i - 1])
    OBVIOUS
  <2>4. \A i \in 0..m : h[i] = g[i]
    <3> HIDE DEF h
    <3> QED BY <2>2, <2>3
  <2>5. \A i \in 0..(m + 1) : i # 0 => i - 1 \in 0..m
    OBVIOUS
  <2>6. h = [i \in 0..(m + 1) |-> IF i = 0 THEN Outset(id) ELSE Further(h[i - 1])]
    <3>1. \A i \in 0..(m + 1) : (IF i = 0 THEN Outset(id) ELSE Further(g[i - 1]))
                                = IF i = 0 THEN Outset(id) ELSE Further(h[i - 1])
      <4> HIDE DEF h
      <4> QED BY <2>4, <2>5
    <3> QED BY <3>1
  <2> QED BY <2>6
<1>3. ASSUME B # {} PROVE FALSE
  <2>1. B \in SUBSET Nat
    <3> HIDE DEF Good
    <3> QED OBVIOUS
  <2>2. PICK m \in B : \A j \in B : m <= j
    <3> HIDE DEF B
    <3> QED BY <1>3, <2>1, LeastNumber
  <2> HIDE DEF Good
  <2>3. m # 0 /\ m \in 0..n
    BY <1>1
  <2>4. m - 1 \in Nat /\ m - 1 \in 0..n /\ m - 1 \notin B
    BY <2>2, <2>3
  <2>5. Good(m - 1) /\ (m - 1) + 1 = m
    BY <2>3, <2>4
  <2>6. Good((m - 1) + 1)
    BY <1>2, <2>4, <2>5
  <2> QED BY <2>5, <2>6
<1>4. Good(n)
  <2> HIDE DEF Good
  <2> QED BY <1>3
<1> QED BY <1>4 DEF Walking

Ended(w) == w.current \in DOMAIN aliases => aliases[w.current] \in w.been
Trail(w, id) ==
  /\ w.current \in w.been /\ id \in w.been /\ IsFiniteSet(w.been)
  /\ \A i \in w.been : i # w.current => i \in DOMAIN aliases /\ aliases[i] \in w.been
  /\ \A H : id \in H /\ Followed(H) => w.been \subseteq H

LEMMA FurtherTrail ==
  ASSUME NEW id, NEW w, Trail(w, id)
  PROVE  /\ Trail(Further(w), id)
         /\ Ended(w) => Further(w) = w
         /\ ~Ended(w) => Cardinality(Further(w).been) = Cardinality(w.been) + 1
<1>1. CASE Ended(w)
  BY <1>1 DEF Ended, Further
<1>2. CASE ~Ended(w)
  <2> DEFINE next == aliases[w.current]
  <2>1. /\ w.current \in DOMAIN aliases /\ next \notin w.been
        /\ Further(w) = [current |-> next, been |-> w.been \cup {next}]
    BY <1>2 DEF Ended, Further
  <2>2. IsFiniteSet(w.been \cup {next}) /\ Cardinality(w.been \cup {next}) = Cardinality(w.been) + 1
    BY <2>1, FS_AddElement DEF Trail
  <2>3. \A H : id \in H /\ Followed(H) => w.been \cup {next} \subseteq H
    BY <2>1 DEF Trail, Followed
  <2> QED BY <1>2, <2>1, <2>2, <2>3 DEF Trail
<1> QED BY <1>1, <1>2

LEMMA WalkEnds ==
  ASSUME IsFiniteSet(DOMAIN aliases), NEW id
  PROVE  \E w : Trail(w, id) /\ Ended(w) /\ w.current = ResolveAlias(id)
<1> PICK n : n = Cardinality(DOMAIN aliases)
  OBVIOUS
<1>1. n \in Nat
  BY FS_CardinalityType
<1> DEFINE walk == CHOOSE g : Walking(g, n, id)
<1>2. walk = [i \in 0..n |-> IF i = 0 THEN Outset(id) ELSE Further(walk[i - 1])]
  <2>1. \E g : Walking(g, n, id)
    BY <1>1, WalkDefined
  <2>2. Walking(walk, n, id)
    BY <2>1
  <2> HIDE DEF walk
  <2> QED BY <2>2 DEF Walking
<1>3. ResolveAlias(id) = walk[n].current
  BY DEF ResolveAlias, Walking, Outset, Further
<1> HIDE DEF walk
<1>4. \A i \in 0..n : walk[i] = IF i = 0 THEN Outset(id) ELSE Further(walk[i - 1])
  BY <1>2
<1> DEFINE Good(i) == Trail(walk[i], id) /\ (Ended(walk[i]) \/ Cardinality(walk[i].been) = i + 1)
           B == {i \in 0..n : ~ Good(i)}
<1>5. Good(0)
  <2>1. walk[0] = [current |-> id, been |-> {id}]
    <3>1. 0 \in 0..n
      BY <1>1
    <3>2. walk[0] = Outset(id)
      BY <1>4, <3>1
    <3> QED BY <3>2 DEF Outset
  <2>2. IsFiniteSet({id}) /\ Cardinality({id}) = 1
    BY FS_Singleton
  <2> QED BY <2>1, <2>2 DEF Trail
<1>6. ASSUME NEW i \in 1..n, Good(i - 1) PROVE Good(i)
  <2>1. walk[i] = Further(walk[i - 1])
    BY <1>1, <1>4
  <2>2. (i - 1) + 1 = i /\ i \in Int
    OBVIOUS
  <2>3. CASE Ended(walk[i - 1])
    BY <1>6, <2>1, <2>3, FurtherTrail
  <2>4. CASE ~Ended(walk[i - 1])
    <3>1. Trail(walk[i], id) /\ Cardinality(walk[i].been) = Cardinality(walk[i - 1].been) + 1
      BY <1>6, <2>1, <2>4, FurtherTrail
    <3> QED BY <1>6, <2>2, <2>4, <3>1
  <2> QED BY <2>3, <2>4
<1>7. B = {}
  <2> SUFFICES ASSUME B # {} PROVE FALSE
    OBVIOUS
  <2> HIDE DEF Good
  <2>1. B \in SUBSET Nat
    BY <1>1
  <2>2. PICK i \in B : \A j \in B : i <= j
    <3> HIDE DEF B
    <3> QED BY <2>1, LeastNumber
  <2>3. i # 0 /\ i \in 0..n
    BY <1>5
  <2>4. i \in 1..n /\ i - 1 \in 0..n /\ i - 1 \notin B
    BY <1>1, <2>2, <2>3
  <2>5. Good(i - 1)
    BY <2>4
  <2> QED BY <1>6, <2>4, <2>5
<1>8. Good(n)
  <2> HIDE DEF Good
  <2> QED BY <1>1, <1>7
<1>9. Ended(walk[n])
  <2> SUFFICES ASSUME ~Ended(walk[n]) PROVE FALSE
    OBVIOUS
  <2>1. walk[n].current \in DOMAIN aliases /\ Cardinality(walk[n].been) = n + 1
    BY <1>8 DEF Ended
  <2>2. walk[n].been \subseteq DOMAIN aliases
    BY <1>8, <2>1 DEF Trail
  <2>3. Cardinality(walk[n].been) <= n
    BY <2>2, FS_Subset
  <2> QED BY <1>1, <2>1, <2>3
<1> QED BY <1>3, <1>8, <1>9

\* An album alone under its ids: the walk from any of them ends at its address.
LEMMA WalkArrives ==
  ASSUME IdInv, LinkInv, seen = Disk, NEW c \in Catalog(seen), AloneUnderItsIds(c),
         NEW p \in c.parts, NEW id \in known[p]
  PROVE  ResolveAlias(id) = c.id
<1> PICK G : G = c.parts
  OBVIOUS
<1>1. /\ G \in Albums(seen) /\ c.id = AlbumId(seen, Albums(seen), G)
      /\ ViewOK(seen)
  BY SeenViewOK DEF Catalog, IdInv
<1>2. G \in SUBSET Parts /\ G # {} /\ \A q \in G : SidecarId(seen[q].sc) = SidecarId(MergedSidecar(seen, G))
  BY <1>1, AlbumParts
<1>3. \A q \in Parts : seen[q].sc = sc[q]
  BY DEF Disk, Reading
<1> PICK own : own = SidecarId(MergedSidecar(seen, G))
  OBVIOUS
<1>4. Alone(G)
  BY <1>2 DEF AloneUnderItsIds, Alone
<1>5. /\ Followed(Had(G))
      /\ \A S \in SUBSET Had(G) : S # {} /\ Followed(S) => \E q \in G : SidecarId(sc[q]) \in S
  BY <1>2, <1>4 DEF LinkInv, LinksOK
<1>6. \A S \in SUBSET Had(G) : S # {} /\ Followed(S) => own \in S
  BY <1>2, <1>3, <1>5
<1>7. id \in Had(G) /\ Had(G) \subseteq Ids
  BY <1>2 DEF Had, LinkInv, KnownOK
<1>8. own \in Had(G) /\ own # Nothing
  BY <1>5, <1>6, <1>7, IdsAssumption
<1>9. c.id = own
  <2>1. PICK q \in G : own \in known[q]
    BY <1>8 DEF Had
  <2>2. ASSUME NEW b \in Albums(seen), SidecarId(MergedSidecar(seen, b)) = own PROVE b = G
    <3>1. PICK r \in b : TRUE
      BY AlbumsPartition
    <3>2. r \in Parts /\ SidecarId(sc[r]) = own
      BY <1>1, <1>3, <2>2, <3>1, AlbumParts
    <3>3. own \in known[r]
      BY <1>8, <3>2 DEF LinkInv, KnownOK, SidecarId
    <3>4. r \in G
      BY <1>4, <2>1, <3>2, <3>3 DEF Alone
    <3> QED BY <1>1, <3>1, <3>4, AlbumsPartition
  <2> DEFINE copies == {b \in Albums(seen) : SidecarId(MergedSidecar(seen, b)) = own}
  <2>3. copies = {G}
    BY <1>1, <2>2
  <2>4. Cardinality(copies) = 1
    BY <2>3, FS_Singleton
  <2> QED BY <1>1, <1>8, <2>4 DEF AlbumId, BareId
<1>10. own \notin DOMAIN aliases
  BY <1>9 DEF AloneUnderItsIds
<1>11. PICK w : Trail(w, id) /\ Ended(w) /\ w.current = ResolveAlias(id)
  BY WalkEnds DEF LinkInv, AliasOK
<1>12. w.been # {} /\ w.been \subseteq Had(G) /\ Followed(w.been)
  <2>1. w.been # {} /\ w.been \subseteq Had(G)
    BY <1>5, <1>7, <1>11 DEF Trail
  <2>2. Followed(w.been)
    BY <1>11 DEF Trail, Ended, Followed
  <2> QED BY <2>1, <2>2
<1>13. own \in w.been
  BY <1>6, <1>12
<1> QED BY <1>9, <1>10, <1>11, <1>13 DEF Trail

\* The other ways of finding an album find one that has had the id.
LEMMA LinksLead ==
  ASSUME IdInv, LinkInv PROVE LinksReachOnce
<1> SUFFICES ASSUME seen = Disk, NEW c \in Catalog(seen), AloneUnderItsIds(c),
                    NEW p \in c.parts, NEW id \in known[p]
             PROVE  Opens(Catalog(seen), id)
  BY DEF LinksReachOnce, Quiet
<1> PICK catalog : catalog = Catalog(seen)
  OBVIOUS
<1>1. ViewOK(seen) /\ \A q \in Parts : seen[q].sc = sc[q] /\ seen[q].at = at[q]
  BY SeenViewOK DEF IdInv, Disk, Reading
<1>2. \A d \in catalog :
        /\ d.parts \in Albums(seen) /\ d.mb = MergedSidecar(seen, d.parts).mb
        /\ d.derived = PathId(seen[Primary(seen, d.parts)].at)
  BY DEF Catalog
<1>3. \A d \in catalog :
        /\ d.parts # {} /\ d.parts \subseteq Parts
        /\ First(seen, d.parts) \in d.parts /\ Primary(seen, d.parts) \in d.parts
        /\ seen[Primary(seen, d.parts)].at \in Paths
  BY <1>1, <1>2, AlbumParts
<1>4. p \in Parts /\ id \in Ids /\ id # Nothing
  BY <1>3, IdsAssumption DEF LinkInv, KnownOK
<1>5. ASSUME NEW d \in catalog, d.id = id PROVE \E q \in d.parts : id \in known[q] \cup {d.id}
  BY <1>3, <1>5
<1>6. ASSUME NEW d \in catalog, d.mb = id PROVE \E q \in d.parts : id \in known[q] \cup {d.id}
  <2>1. id \in known[First(seen, d.parts)]
    BY <1>2, <1>3, <1>4, <1>6 DEF MergedSidecar, LinkInv, KnownOK
  <2> QED BY <1>3, <2>1
<1>7. ASSUME NEW d \in catalog, d.derived = id PROVE \E q \in d.parts : id \in known[q] \cup {d.id}
  <2> PICK m : m = Primary(seen, d.parts)
    OBVIOUS
  <2>1. m \in d.parts /\ m \in Parts /\ id = PathId(at[m]) /\ at[m] \in Paths
    BY <1>1, <1>2, <1>3, <1>7
  <2>2. id \in PathIds /\ m \in Placed
    BY <2>1, IdsAreIds, PathsAreNumbers DEF Placed
  <2>3. PICK r \in Placed : PathId(at[r]) = id /\ id \in known[r]
    BY <1>4, <2>2 DEF LinkInv, KnownOK, Rooted
  <2>4. at[r] = at[m]
    BY <2>1, <2>3, IdsAreIds
  <2>5. r = m
    BY <2>2, <2>3, <2>4 DEF IdInv, SeenInv
  <2> QED BY <2>1, <2>3, <2>5
<1>8. ASSUME NEW d \in catalog, d.id = ResolveAlias(id),
             ~ \E x \in catalog : x.id = id
      PROVE  \E q \in d.parts : id \in known[q] \cup {d.id}
  <2>1. d.id = c.id
    BY <1>8, WalkArrives
  <2>2. d = c
    BY <2>1, SeenDiffer DEF AddressesDiffer
  <2> QED BY <2>2
<1>9. \E d \in catalog : d.id = ResolveAlias(id)
  BY WalkArrives
<1>10. \E d \in FindAlbum(catalog, id) : d \in catalog /\ \E q \in d.parts : id \in known[q] \cup {d.id}
  BY <1>5, <1>6, <1>7, <1>8, <1>9 DEF FindAlbum
<1> QED BY <1>10 DEF Opens

\* A link under an id that an album has had opens an album that has had it, as
\* long as the album shared none of its ids and has not gone back to one
\* (_find_album, resolve_alias): whatever was tagged, undone, cleared, reconciled
\* or re-tagged elsewhere, and however often.
THEOREM OldLinksReach == Spec => []LinksReachOnce
<1> QED BY IdentityHolds, LinksHold, LinksLead, PTL

=============================================================================

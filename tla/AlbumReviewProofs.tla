-------------------------- MODULE AlbumReviewProofs --------------------------
(***************************************************************************)
(* What holds of the pairing ladder and of every review and tagging, for    *)
(* any release, folders and edits: see the README.                          *)
(***************************************************************************)
EXTENDS AlbumReview, FiniteSetTheorems, WellFoundedInduction, TLAPS

-----------------------------------------------------------------------------
(* The operators the pairing is built from *)

LEMMA OverIs ==
  ASSUME NEW p, NEW q
  PROVE  /\ DOMAIN Over(p, q) = DOMAIN p \cup DOMAIN q
         /\ \A k \in DOMAIN p : Over(p, q)[k] = p[k]
         /\ \A k \in DOMAIN q \ DOMAIN p : Over(p, q)[k] = q[k]
BY DEF Over

LEMMA OnceIsOne ==
  ASSUME NEW keys, NEW k, IsFiniteSet(DOMAIN keys)
  PROVE  Once(keys, k) <=> \E x \in DOMAIN keys : /\ keys[x] = k
                                                  /\ \A y \in DOMAIN keys : keys[y] = k => y = x
<1> DEFINE S == {x \in DOMAIN keys : keys[x] = k}
<1>1. IsFiniteSet(S)
  BY FS_Subset
<1>2. Cardinality(S) = 1 <=> \E x : S = {x}
  BY <1>1, FS_Singleton
<1> QED BY <1>2 DEF Once

LEMMA MatchedIs ==
  ASSUME NEW fileKeys, NEW trackKeys, IsFiniteSet(DOMAIN fileKeys), IsFiniteSet(DOMAIN trackKeys)
  PROVE  \E m : /\ m = Matched(fileKeys, trackKeys)
                /\ DOMAIN m \subseteq DOMAIN fileKeys
                /\ \A i \in DOMAIN fileKeys :
                     i \in DOMAIN m <=> /\ fileKeys[i] # None
                                       /\ Once(fileKeys, fileKeys[i])
                                       /\ Once(trackKeys, fileKeys[i])
                /\ \A i \in DOMAIN m : m[i] \in DOMAIN trackKeys /\ trackKeys[m[i]] = fileKeys[i]
                /\ \A i, j \in DOMAIN m : m[i] = m[j] => i = j
<1> DEFINE m == Matched(fileKeys, trackKeys)
<1>1. DOMAIN m = {i \in DOMAIN fileKeys : /\ fileKeys[i] # None
                                          /\ Once(fileKeys, fileKeys[i])
                                          /\ Once(trackKeys, fileKeys[i])}
  BY DEF Matched
<1>2. ASSUME NEW i \in DOMAIN m PROVE m[i] \in DOMAIN trackKeys /\ trackKeys[m[i]] = fileKeys[i]
  <2>1. m[i] = CHOOSE n \in DOMAIN trackKeys : trackKeys[n] = fileKeys[i]
    BY DEF Matched
  <2>2. \E n \in DOMAIN trackKeys : trackKeys[n] = fileKeys[i]
    BY <1>1, OnceIsOne
  <2> QED BY <2>1, <2>2
<1>3. ASSUME NEW i \in DOMAIN m, NEW j \in DOMAIN m, m[i] = m[j] PROVE i = j
  <2>1. fileKeys[i] = fileKeys[j] /\ Once(fileKeys, fileKeys[i])
    BY <1>1, <1>2, <1>3
  <2> QED BY <1>1, <2>1, OnceIsOne
<1>4. m = Matched(fileKeys, trackKeys)
  OBVIOUS
<1> HIDE DEF m
<1> QED BY <1>1, <1>2, <1>3, <1>4

-----------------------------------------------------------------------------
(* A set of numbers in order *)

LEMMA TurnsDiffer ==
  ASSUME NEW S \in SUBSET Nat, IsFiniteSet(S)
  PROVE  /\ \A m \in S : Turn(S, m) \in 1..Cardinality(S)
         /\ \A m, n \in S : Turn(S, m) = Turn(S, n) => m = n
<1> DEFINE upTo(m) == {j \in S : j <= m}
<1>1. \A m : IsFiniteSet(upTo(m)) /\ Cardinality(upTo(m)) <= Cardinality(S) /\ Cardinality(upTo(m)) \in Nat
  BY FS_Subset, FS_CardinalityType
<1>2. Cardinality(S) \in Nat
  BY FS_CardinalityType
<1>3. ASSUME NEW m \in S PROVE Turn(S, m) \in 1..Cardinality(S)
  <2>1. upTo(m) # {}
    OBVIOUS
  <2>2. Cardinality(upTo(m)) # 0
    BY <1>1, <2>1, FS_EmptySet
  <2> QED BY <1>1, <1>2, <2>2 DEF Turn
<1>4. ASSUME NEW m \in S, NEW n \in S, m < n PROVE Turn(S, m) # Turn(S, n)
  <2> m \in Nat /\ n \in Nat
    OBVIOUS
  <2>1. n \in upTo(n) /\ n \notin upTo(m) /\ \A j \in upTo(m) : j \in upTo(n)
    BY <1>4
  <2>2. IsFiniteSet(upTo(n))
    BY <1>1
  <2>3. Cardinality(upTo(m)) # Cardinality(upTo(n))
    <3> HIDE DEF upTo
    <3>1. upTo(m) \in SUBSET upTo(n)
      BY <2>1
    <3> QED BY <2>1, <2>2, <3>1, FS_Subset
  <2> QED BY <2>3 DEF Turn
<1>5. ASSUME NEW m \in S, NEW n \in S, Turn(S, m) = Turn(S, n) PROVE m = n
  <2>1. m \in Nat /\ n \in Nat
    OBVIOUS
  <2> QED BY <1>4, <1>5, <2>1
<1> QED BY <1>3, <1>5

LEMMA EveryTurn ==
  ASSUME NEW S \in SUBSET Nat, IsFiniteSet(S), NEW k \in 1..Cardinality(S)
  PROVE  \E m \in S : Turn(S, m) = k
<1> DEFINE f == [m \in S |-> Turn(S, m)]
           T == 1..Cardinality(S)
<1>1. f \in Injection(S, T)
  BY TurnsDiffer DEF Injection, IsInjective
<1>2. IsFiniteSet(T) /\ Cardinality(T) = Cardinality(S)
  BY FS_CardinalityType, FS_Interval
<1>3. f \in Surjection(S, T)
  <2> HIDE DEF f, T
  <2> QED BY <1>1, <1>2, FS_Injection
<1> QED BY <1>3 DEF Surjection

\* Every number of the set comes once, and nothing else does.
LEMMA InOrderIs ==
  ASSUME NEW S \in SUBSET Nat, IsFiniteSet(S)
  PROVE  LET s == InOrder(S)
         IN /\ DOMAIN s = 1..Cardinality(S) /\ Len(s) = Cardinality(S) /\ Cardinality(S) \in Nat
            /\ s \in [1..Cardinality(S) -> S]
            /\ \A k \in DOMAIN s : s[k] \in S
            /\ \A k, l \in DOMAIN s : s[k] = s[l] => k = l
            /\ \A m \in S : \E k \in DOMAIN s : s[k] = m
<1> DEFINE s == InOrder(S)
<1>1. DOMAIN s = 1..Cardinality(S) /\ Len(s) = Cardinality(S) /\ Cardinality(S) \in Nat
  BY FS_CardinalityType DEF InOrder
<1>2. \A k \in DOMAIN s : s[k] \in S /\ Turn(S, s[k]) = k
  BY <1>1, EveryTurn DEF InOrder
<1>3. ASSUME NEW m \in S PROVE \E k \in DOMAIN s : s[k] = m
  <2> HIDE DEF s
  <2>1. Turn(S, m) \in DOMAIN s
    BY <1>1, TurnsDiffer
  <2>2. s[Turn(S, m)] \in S /\ Turn(S, s[Turn(S, m)]) = Turn(S, m)
    BY <1>2, <2>1
  <2>3. \A n \in S : Turn(S, n) = Turn(S, m) => n = m
    BY TurnsDiffer
  <2> QED BY <2>1, <2>2, <2>3
<1>4. s \in [1..Cardinality(S) -> S]
  <2>1. s = [k \in 1..Cardinality(S) |-> CHOOSE m \in S : Turn(S, m) = k]
    BY DEF InOrder
  <2> QED BY <1>1, <1>2, <2>1
<1> HIDE DEF s
<1> QED BY <1>1, <1>2, <1>3, <1>4 DEF s

-----------------------------------------------------------------------------
(* Pairings: some of the files, each with a track of its own *)

Placing(p, files, tracks) ==
  /\ DOMAIN p \subseteq files
  /\ \A i \in DOMAIN p : p[i] \in tracks
  /\ \A i, j \in DOMAIN p : p[i] = p[j] => i = j

LEMMA MatchedPlaces ==
  ASSUME NEW fileKeys, NEW trackKeys, NEW files, NEW tracks,
         IsFiniteSet(files), IsFiniteSet(tracks),
         DOMAIN fileKeys \subseteq files, DOMAIN trackKeys \subseteq tracks
  PROVE  Placing(Matched(fileKeys, trackKeys), files, tracks)
<1>1. DOMAIN fileKeys \in SUBSET files /\ DOMAIN trackKeys \in SUBSET tracks
  OBVIOUS
<1>2. IsFiniteSet(DOMAIN fileKeys) /\ IsFiniteSet(DOMAIN trackKeys)
  BY <1>1, FS_Subset
<1>3. PICK m : /\ m = Matched(fileKeys, trackKeys)
               /\ DOMAIN m \subseteq DOMAIN fileKeys
               /\ \A i \in DOMAIN m : m[i] \in DOMAIN trackKeys
               /\ \A i, j \in DOMAIN m : m[i] = m[j] => i = j
  BY <1>2, MatchedIs
<1>4. Placing(m, files, tracks)
  BY <1>1, <1>3 DEF Placing
<1> QED BY <1>3, <1>4

LEMMA OverPlaces ==
  ASSUME NEW p, NEW q, NEW files, NEW tracks, Placing(p, files, tracks), Placing(q, files, tracks),
         \A i \in DOMAIN p, j \in DOMAIN q : p[i] # q[j]
  PROVE  Placing(Over(p, q), files, tracks)
<1> DEFINE o == Over(p, q)
<1>1. /\ DOMAIN o = DOMAIN p \cup DOMAIN q
      /\ \A k \in DOMAIN p : o[k] = p[k]
      /\ \A k \in DOMAIN q \ DOMAIN p : o[k] = q[k]
  BY OverIs
<1>2. DOMAIN o \subseteq files /\ \A i \in DOMAIN o : o[i] \in tracks
  BY <1>1 DEF Placing
<1>3. ASSUME NEW i \in DOMAIN o, NEW j \in DOMAIN o, o[i] = o[j] PROVE i = j
  <2>1. (i \in DOMAIN p /\ o[i] = p[i]) \/ (i \in DOMAIN q /\ o[i] = q[i] /\ i \notin DOMAIN p)
    BY <1>1
  <2>2. (j \in DOMAIN p /\ o[j] = p[j]) \/ (j \in DOMAIN q /\ o[j] = q[j] /\ j \notin DOMAIN p)
    BY <1>1
  <2> QED BY <1>3, <2>1, <2>2 DEF Placing
<1> HIDE DEF o
<1>4. Placing(o, files, tracks)
  BY <1>2, <1>3 DEF Placing
<1> QED BY <1>4 DEF o

\* A later rung leaves what an earlier one decided.
LEMMA ExtendPlaces ==
  ASSUME NEW p, NEW q, NEW files, NEW tracks, Placing(p, files, tracks), Placing(q, files, tracks)
  PROVE  /\ Placing(Extend(p, q), files, tracks)
         /\ DOMAIN p \subseteq DOMAIN Extend(p, q)
         /\ \A i \in DOMAIN p : Extend(p, q)[i] = p[i]
<1> DEFINE r == [i \in {i \in DOMAIN q : q[i] \notin Range(p)} |-> q[i]]
<1>1. Extend(p, q) = Over(p, r)
  BY DEF Extend
<1>2. /\ DOMAIN r \subseteq DOMAIN q
      /\ \A i \in DOMAIN r : r[i] = q[i] /\ r[i] \notin Range(p)
  OBVIOUS
<1>3. \A i \in DOMAIN p : p[i] \in Range(p)
  BY DEF Range
<1> HIDE DEF r
<1>4. Placing(r, files, tracks) /\ \A i \in DOMAIN p, j \in DOMAIN r : p[i] # r[j]
  BY <1>2, <1>3 DEF Placing
<1>5. Placing(Over(p, r), files, tracks)
  BY <1>4, OverPlaces
<1>6. /\ DOMAIN Over(p, r) = DOMAIN p \cup DOMAIN r
      /\ \A k \in DOMAIN p : Over(p, r)[k] = p[k]
  BY OverIs
<1> QED BY <1>1, <1>5, <1>6

\* Slots: for each file its track, or None.
Pairing(slots, files, tracks) ==
  /\ \A i \in files : slots[i] = None \/ slots[i] \in tracks
  /\ \A i, j \in files : slots[i] = slots[j] => i = j \/ slots[i] = None

LEMMA SlotsPair ==
  ASSUME NEW p, NEW files, NEW tracks \in SUBSET Nat, Placing(p, DOMAIN files, tracks)
  PROVE  /\ Pairing(Slots(files, p), DOMAIN files, tracks)
         /\ DOMAIN Slots(files, p) = DOMAIN files
         /\ \A i \in DOMAIN files : IF i \in DOMAIN p THEN Slots(files, p)[i] = p[i] /\ p[i] # None
                                    ELSE Slots(files, p)[i] = None
<1> DEFINE s == Slots(files, p)
<1>1. \A i \in DOMAIN p : p[i] # None
  BY NoneAssumption DEF Placing
<1>2. DOMAIN s = DOMAIN files /\ \A i \in DOMAIN files : s[i] = IF i \in DOMAIN p THEN p[i] ELSE None
  BY DEF Slots
<1> HIDE DEF s
<1>3. \A i \in DOMAIN files : s[i] = None \/ s[i] \in tracks
  BY <1>2 DEF Placing
<1>4. ASSUME NEW i \in DOMAIN files, NEW j \in DOMAIN files, s[i] = s[j], s[i] # None PROVE i = j
  BY <1>1, <1>2, <1>4 DEF Placing
<1>5. Pairing(s, DOMAIN files, tracks)
  BY <1>3, <1>4 DEF Pairing
<1> QED BY <1>1, <1>2, <1>5 DEF s

LEMMA KeysDomains ==
  ASSUME NEW xs
  PROVE  /\ DOMAIN RtIdKeys(xs) = DOMAIN xs /\ DOMAIN NumberKeys(xs) = DOMAIN xs
         /\ \A i \in DOMAIN xs : RtIdKeys(xs)[i] = xs[i].rtid
BY DEF RtIdKeys, NumberKeys

\* An id that is one file's and one track's settles that file.
LEMMA NamedPlaces ==
  ASSUME NEW files, NEW tracks, IsFiniteSet(DOMAIN files), IsFiniteSet(DOMAIN tracks)
  PROVE  /\ Placing(Named(files, tracks), DOMAIN files, DOMAIN tracks)
         /\ \A i \in DOMAIN files :
              /\ files[i].rtid # None
              /\ Once(RtIdKeys(files), files[i].rtid) /\ Once(RtIdKeys(tracks), files[i].rtid)
              => /\ i \in DOMAIN Named(files, tracks)
                 /\ tracks[Named(files, tracks)[i]].rtid = files[i].rtid
<1> DEFINE m == Matched(RtIdKeys(files), RtIdKeys(tracks))
           more == Matched(NumberKeys(files), NumberKeys(tracks))
           e == Extend(m, more)
<1>1. Named(files, tracks) = e
  BY DEF Named
<1>2. Placing(m, DOMAIN files, DOMAIN tracks) /\ Placing(more, DOMAIN files, DOMAIN tracks)
  BY KeysDomains, MatchedPlaces
<1>3. \A i \in DOMAIN files :
        files[i].rtid # None /\ Once(RtIdKeys(files), files[i].rtid) /\ Once(RtIdKeys(tracks), files[i].rtid)
        => i \in DOMAIN m /\ m[i] \in DOMAIN tracks /\ tracks[m[i]].rtid = files[i].rtid
  <2> HIDE DEF m
  <2>1. /\ \A i \in DOMAIN files :
             i \in DOMAIN m <=> /\ RtIdKeys(files)[i] # None
                               /\ Once(RtIdKeys(files), RtIdKeys(files)[i])
                               /\ Once(RtIdKeys(tracks), RtIdKeys(files)[i])
        /\ \A i \in DOMAIN m : m[i] \in DOMAIN tracks /\ RtIdKeys(tracks)[m[i]] = RtIdKeys(files)[i]
    BY KeysDomains, MatchedIs DEF m
  <2> QED BY <2>1, KeysDomains
<1> HIDE DEF m, more
<1>4. Placing(e, DOMAIN files, DOMAIN tracks) /\ DOMAIN m \subseteq DOMAIN e /\ \A i \in DOMAIN m : e[i] = m[i]
  BY <1>2, ExtendPlaces
<1> QED BY <1>1, <1>3, <1>4

\* What is left goes in order, and all of it has a place if there are tracks enough.
LEMMA RoomForTheRest ==
  ASSUME NEW p, NEW n \in Nat, NEW k \in Nat, Placing(p, 1..n, 1..k), n <= k
  PROVE  Cardinality(1..n \ DOMAIN p) <= Cardinality(1..k \ Range(p))
<1> DEFINE d == DOMAIN p
           r == Range(p)
           f == [i \in d |-> p[i]]
<1>1. IsFiniteSet(1..n) /\ Cardinality(1..n) = n /\ IsFiniteSet(1..k) /\ Cardinality(1..k) = k
  BY FS_Interval
<1>2. (1..n) \cap d = d /\ (1..k) \cap r = r
  BY DEF Placing, Range
<1>3. IsFiniteSet(d) /\ IsFiniteSet(r) /\ Cardinality(d) \in Nat /\ Cardinality(r) \in Nat
  BY <1>1, <1>2, FS_Intersection, FS_CardinalityType
<1>4. f \in Surjection(d, r)
  BY DEF Surjection, Range
<1>5. Cardinality(r) <= Cardinality(d)
  <2> HIDE DEF f, d, r
  <2> QED BY <1>3, <1>4, FS_Surjection
<1> DEFINE F == 1..n
           T == 1..k
<1> HIDE DEF d, r, F, T
<1>6. Cardinality(F \ d) = Cardinality(F) - Cardinality(F \cap d)
  BY <1>1, FS_Difference DEF F
<1>7. Cardinality(T \ r) = Cardinality(T) - Cardinality(T \cap r)
  BY <1>1, FS_Difference DEF T
<1>8. Cardinality(F \ d) <= Cardinality(T \ r)
  <2>1. Cardinality(F \ d) = n - Cardinality(d) /\ Cardinality(T \ r) = k - Cardinality(r)
    BY <1>1, <1>2, <1>6, <1>7 DEF F, T
  <2> QED BY <1>3, <1>5, <2>1
<1> QED BY <1>8 DEF d, r, F, T

LEMMA Assigned ==
  ASSUME NEW files, NEW tracks, NEW n \in Nat, NEW k \in Nat, DOMAIN files = 1..n, DOMAIN tracks = 1..k
  PROVE  /\ DOMAIN Assign(files, tracks) = DOMAIN files
         /\ Pairing(Assign(files, tracks), DOMAIN files, DOMAIN tracks)
         /\ n <= k => \A i \in DOMAIN files : Assign(files, tracks)[i] # None
         /\ \A i \in DOMAIN files :
              /\ files[i].rtid # None
              /\ Once(RtIdKeys(files), files[i].rtid) /\ Once(RtIdKeys(tracks), files[i].rtid)
              => /\ Assign(files, tracks)[i] # None
                 /\ tracks[Assign(files, tracks)[i]].rtid = files[i].rtid
<1> DEFINE placed == Named(files, tracks)
           left == DOMAIN files \ DOMAIN placed
           over == DOMAIN tracks \ Range(placed)
           free == InOrder(over)
           byOrder == [i \in {i \in left : Turn(left, i) <= Len(free)} |-> free[Turn(left, i)]]
           all == Over(placed, byOrder)
<1>1. Assign(files, tracks) = Slots(files, all)
  BY DEF Assign
<1>2. IsFiniteSet(DOMAIN files) /\ IsFiniteSet(DOMAIN tracks)
  BY FS_Interval
<1>3. Placing(placed, DOMAIN files, DOMAIN tracks)
  <2> HIDE DEF placed
  <2> QED BY <1>2, NamedPlaces DEF placed
<1>4. /\ \A i \in left : Turn(left, i) \in 1..Cardinality(left)
      /\ \A i, j \in left : Turn(left, i) = Turn(left, j) => i = j
  <2>1. left \in SUBSET Nat
    OBVIOUS
  <2>2. IsFiniteSet(left)
    <3> HIDE DEF placed
    <3> QED BY <1>2, FS_Difference
  <2> HIDE DEF left
  <2> QED BY <2>1, <2>2, TurnsDiffer
<1>5. /\ DOMAIN free = 1..Len(free) /\ Len(free) = Cardinality(over) /\ Len(free) \in Nat
      /\ \A m \in DOMAIN free : free[m] \in over
      /\ \A m, l \in DOMAIN free : free[m] = free[l] => m = l
  <2>1. over \in SUBSET Nat
    OBVIOUS
  <2>2. IsFiniteSet(over)
    <3> HIDE DEF placed
    <3> QED BY <1>2, FS_Difference
  <2> HIDE DEF over
  <2> QED BY <2>1, <2>2, InOrderIs
<1>6. left \cap DOMAIN placed = {} /\ left \subseteq DOMAIN files /\ over \subseteq DOMAIN tracks
  OBVIOUS
<1>7. \A i \in DOMAIN placed, m \in over : placed[i] # m
  BY DEF Range
<1>8. n <= k => Cardinality(left) <= Cardinality(over)
  <2> HIDE DEF placed
  <2> QED BY <1>3, RoomForTheRest
<1>9. Cardinality(left) \in Nat
  <2>1. IsFiniteSet(left)
    <3> HIDE DEF placed
    <3> QED BY <1>2, FS_Difference
  <2> HIDE DEF left
  <2> QED BY <2>1, FS_CardinalityType
<1>10. DOMAIN byOrder \subseteq left /\ \A i \in left : Turn(left, i) <= Len(free) => i \in DOMAIN byOrder
  OBVIOUS
<1>11. \A i \in DOMAIN byOrder : Turn(left, i) \in DOMAIN free /\ byOrder[i] = free[Turn(left, i)]
  <2> HIDE DEF free, left
  <2> QED BY <1>4, <1>5, <1>9
<1> HIDE DEF placed, left, over, free, byOrder
<1>12. Placing(byOrder, DOMAIN files, DOMAIN tracks)
  <2>1. \A i \in DOMAIN byOrder : byOrder[i] \in DOMAIN tracks
    BY <1>5, <1>6, <1>11
  <2>2. ASSUME NEW i \in DOMAIN byOrder, NEW j \in DOMAIN byOrder, byOrder[i] = byOrder[j] PROVE i = j
    <3>1. Turn(left, i) = Turn(left, j)
      BY <1>5, <1>11, <2>2
    <3> QED BY <1>4, <1>10, <3>1
  <2> QED BY <1>6, <1>10, <2>1, <2>2 DEF Placing
<1>13. /\ DOMAIN all = DOMAIN placed \cup DOMAIN byOrder
       /\ \A i \in DOMAIN placed : all[i] = placed[i]
  BY OverIs
<1>14. Placing(all, DOMAIN files, DOMAIN tracks)
  <2>1. \A i \in DOMAIN placed, j \in DOMAIN byOrder : placed[i] # byOrder[j]
    BY <1>5, <1>7, <1>11
  <2> QED BY <1>3, <1>12, <2>1, OverPlaces
<1>15. n <= k => DOMAIN files \subseteq DOMAIN all
  <2> SUFFICES ASSUME n <= k, NEW i \in DOMAIN files, i \notin DOMAIN placed PROVE i \in DOMAIN byOrder
    BY <1>13
  <2>1. i \in left
    BY DEF left
  <2> QED BY <1>4, <1>5, <1>8, <1>9, <1>10, <2>1
<1> HIDE DEF all
<1>16. /\ Pairing(Slots(files, all), DOMAIN files, DOMAIN tracks)
       /\ DOMAIN Slots(files, all) = DOMAIN files
       /\ \A i \in DOMAIN files : i \in DOMAIN all => Slots(files, all)[i] = all[i] /\ all[i] # None
  <2>1. DOMAIN tracks \in SUBSET Nat
    OBVIOUS
  <2> QED BY <1>14, <2>1, SlotsPair
<1>17. ASSUME NEW i \in DOMAIN files, files[i].rtid # None,
              Once(RtIdKeys(files), files[i].rtid), Once(RtIdKeys(tracks), files[i].rtid)
       PROVE  Assign(files, tracks)[i] # None /\ tracks[Assign(files, tracks)[i]].rtid = files[i].rtid
  <2>1. i \in DOMAIN placed /\ tracks[placed[i]].rtid = files[i].rtid
    BY <1>2, <1>17, NamedPlaces DEF placed
  <2> QED BY <1>1, <1>13, <1>16, <2>1
<1> QED BY <1>1, <1>15, <1>16, <1>17

-----------------------------------------------------------------------------
(* The structural pairing gives no track twice either *)

LEMMA EligibleParts ==
  ASSUME NEW rel, NEW tracks
  PROVE  Distinct(rel, tracks) \subseteq tracks /\ Sound(rel, tracks) \subseteq Distinct(rel, tracks)
BY DEF Distinct, Sound

LEMMA ByRtIdPlaces ==
  ASSUME NEW files, NEW rel, NEW eligible,
         IsFiniteSet(DOMAIN files), IsFiniteSet(DOMAIN rel.tracks)
  PROVE  Placing(ByRtId(files, rel, eligible), DOMAIN files, eligible)
<1> DEFINE own == Matched(LiveRtIds(files, rel), RtIds(rel))
<1>1. Placing(own, DOMAIN files, DOMAIN rel.tracks)
  <2>1. DOMAIN LiveRtIds(files, rel) = DOMAIN files /\ DOMAIN RtIds(rel) = DOMAIN rel.tracks
    BY DEF LiveRtIds, RtIds
  <2> QED BY <2>1, MatchedPlaces
<1>2. ByRtId(files, rel, eligible) = [i \in {i \in DOMAIN own : own[i] \in eligible} |-> own[i]]
  BY DEF ByRtId
<1> HIDE DEF own
<1> QED BY <1>1, <1>2 DEF Placing

LEMMA ByRecordingPlaces ==
  ASSUME NEW p, NEW files, NEW rel, NEW eligible, IsFiniteSet(DOMAIN files), IsFiniteSet(eligible),
         Placing(p, DOMAIN files, eligible)
  PROVE  Placing(ByRecording(p, files, rel, eligible), DOMAIN files, eligible)
<1> DEFINE keys == [m \in Distinct(rel, eligible \ Range(p)) |-> rel.tracks[m].rec]
<1>1. DOMAIN keys \subseteq eligible /\ DOMAIN LiveRecs(files, rel) = DOMAIN files
  BY EligibleParts DEF LiveRecs
<1>2. ByRecording(p, files, rel, eligible) = Extend(p, Matched(LiveRecs(files, rel), keys))
  BY DEF ByRecording
<1> HIDE DEF keys
<1>3. Placing(Matched(LiveRecs(files, rel), keys), DOMAIN files, eligible)
  BY <1>1, MatchedPlaces
<1> QED BY <1>2, <1>3, ExtendPlaces

LEMMA ByOccurrencePlaces ==
  ASSUME NEW p, NEW files, NEW rel, NEW eligible, IsFiniteSet(DOMAIN files), IsFiniteSet(eligible),
         Placing(p, DOMAIN files, eligible)
  PROVE  Placing(ByOccurrence(p, files, rel, eligible), DOMAIN files, eligible)
<1> DEFINE occurs(rec, number) == IF rec = None \/ number = None THEN None ELSE <<rec, number>>
           heard == [i \in DOMAIN files \ DOMAIN p |->
                       occurs(LiveRecs(files, rel)[i], NumberOf(files[i], rel, eligible))]
           keys == [m \in Distinct(rel, eligible \ Range(p)) |->
                      <<rel.tracks[m].rec, TrackNumber(rel, m)>>]
<1>1. DOMAIN keys \subseteq eligible /\ DOMAIN heard \subseteq DOMAIN files
  BY EligibleParts
<1>2. ByOccurrence(p, files, rel, eligible) = Extend(p, Matched(heard, keys))
  BY DEF ByOccurrence
<1> HIDE DEF keys, heard
<1>3. Placing(Matched(heard, keys), DOMAIN files, eligible)
  BY <1>1, MatchedPlaces
<1> QED BY <1>2, <1>3, ExtendPlaces

LEMMA ByNumberPlaces ==
  ASSUME NEW p, NEW files, NEW rel, NEW eligible, IsFiniteSet(DOMAIN files), IsFiniteSet(eligible),
         Placing(p, DOMAIN files, eligible)
  PROVE  Placing(ByNumber(p, files, rel, eligible), DOMAIN files, eligible)
<1> DEFINE numbers == [i \in Idless(files, rel, p) |-> NumberOf(files[i], rel, eligible)]
           keys == [m \in Sound(rel, eligible \ Range(p)) |-> TrackNumber(rel, m)]
<1>1. DOMAIN keys \subseteq eligible /\ DOMAIN numbers \subseteq DOMAIN files
  <2>1. Sound(rel, eligible \ Range(p)) \subseteq eligible \ Range(p)
    BY EligibleParts
  <2> QED BY <2>1 DEF Idless
<1>2. ByNumber(p, files, rel, eligible) = Extend(p, Matched(numbers, keys))
  BY DEF ByNumber
<1> HIDE DEF keys, numbers
<1>3. Placing(Matched(numbers, keys), DOMAIN files, eligible)
  BY <1>1, MatchedPlaces
<1> QED BY <1>2, <1>3, ExtendPlaces

LEMMA ByEliminationPlaces ==
  ASSUME NEW p, NEW settled, NEW files, NEW rel, NEW eligible,
         IsFiniteSet(DOMAIN files), IsFiniteSet(eligible), Placing(p, DOMAIN files, eligible)
  PROVE  Placing(ByElimination(p, settled, files, rel, eligible), DOMAIN files, eligible)
<1> DEFINE last == Idless(files, rel, p)
           free == Sound(rel, eligible \ Range(p))
           q == [i \in last |-> CHOOSE m \in free : TRUE]
<1>1. last \subseteq DOMAIN files /\ free \subseteq eligible \ Range(p)
  BY EligibleParts DEF Idless
<1>2. CASE Cardinality(last) = 1 /\ Cardinality(free) = 1
  <2>1. IsFiniteSet(last) /\ IsFiniteSet(free)
    BY <1>1, FS_Subset, FS_Difference
  <2>2. (\E x : last = {x}) /\ (\E y : free = {y})
    <3> HIDE DEF last, free
    <3> QED BY <1>2, <2>1, FS_Singleton
  <2>3. \A i \in DOMAIN q : q[i] \in free
    BY <2>2
  <2>4. DOMAIN q = last
    OBVIOUS
  <2> HIDE DEF last, free, q
  <2>5. Placing(q, DOMAIN files, eligible)
    BY <1>1, <2>2, <2>3, <2>4 DEF Placing
  <2>6. \A i \in DOMAIN p, j \in DOMAIN q : p[i] # q[j]
    BY <1>1, <2>3 DEF Range
  <2>7. Placing(Over(p, q), DOMAIN files, eligible)
    BY <2>5, <2>6, OverPlaces
  <2>8. ByElimination(p, settled, files, rel, eligible) \in {p, Over(p, q)}
    BY DEF ByElimination, last, free, q
  <2> QED BY <2>7, <2>8
<1>3. CASE ~(Cardinality(last) = 1 /\ Cardinality(free) = 1)
  BY <1>3 DEF ByElimination
<1> QED BY <1>2, <1>3

LEMMA ProposalPairs ==
  ASSUME NEW files, NEW rel, NEW eligible \in SUBSET Nat,
         IsFiniteSet(DOMAIN files), IsFiniteSet(DOMAIN rel.tracks), IsFiniteSet(eligible)
  PROVE  Pairing(Proposal(files, rel, eligible), DOMAIN files, eligible)
<1>1. Placing(SettledPairs(files, rel, eligible), DOMAIN files, eligible)
  BY ByRtIdPlaces, ByRecordingPlaces, ByOccurrencePlaces DEF SettledPairs
<1> DEFINE s == SettledPairs(files, rel, eligible)
<1> HIDE DEF s
<1>2. Placing(ProposedPairs(s, files, rel, eligible), DOMAIN files, eligible)
  BY <1>1, ByNumberPlaces, ByEliminationPlaces DEF ProposedPairs, s
<1> QED BY <1>2, SlotsPair DEF Proposal, s

-----------------------------------------------------------------------------
(* The pairing a review starts from *)

\* Of what a folder fills, no two files get one track.
LEMMA FilledPlaces ==
  ASSUME NEW files, NEW rel, NEW fill, NEW k \in Nat, DOMAIN rel.tracks = 1..k
  PROVE  Placing(Filled(files, rel, fill), DOMAIN Filled(files, rel, fill), DOMAIN rel.tracks)
<1> DEFINE tracks(d) == OnDisc(rel, d) \cap Taggable(rel)
           index(x) == CHOOSE i \in DOMAIN files : files[i] = x
           slots(d) == InOrder(tracks(d))
           part(d) == {<<index(on[fill[d]][j]), slots(d)[j]>> :
                         j \in DOMAIN on[fill[d]] \cap DOMAIN slots(d)}
           all == UNION {part(d) : d \in DOMAIN fill}
           f == [i \in {p[1] : p \in all} |-> CHOOSE m \in DOMAIN rel.tracks : <<i, m>> \in all]
<1>1. Filled(files, rel, fill) = f
  BY DEF Filled
<1>2. \A d : /\ \A j \in DOMAIN slots(d) : slots(d)[j] \in tracks(d)
             /\ \A j, l \in DOMAIN slots(d) : slots(d)[j] = slots(d)[l] => j = l
  <2> SUFFICES ASSUME NEW d
               PROVE  /\ \A j \in DOMAIN slots(d) : slots(d)[j] \in tracks(d)
                      /\ \A j, l \in DOMAIN slots(d) : slots(d)[j] = slots(d)[l] => j = l
    OBVIOUS
  <2>1. tracks(d) \in SUBSET (1..k)
    BY DEF OnDisc, Taggable
  <2>2. IsFiniteSet(tracks(d)) /\ tracks(d) \in SUBSET Nat
    <3>1. IsFiniteSet(1..k)
      BY FS_Interval
    <3> QED BY <2>1, <3>1, FS_Subset
  <2> QED BY <2>2, InOrderIs
<1>3. \A d, m : m \in tracks(d) => m \in DOMAIN rel.tracks /\ rel.tracks[m].disc = d
  BY DEF OnDisc
<1>4. \A i, m : <<i, m>> \in all =>
        \E d \in DOMAIN fill : \E j \in DOMAIN on[fill[d]] \cap DOMAIN slots(d) :
           i = index(on[fill[d]][j]) /\ m = slots(d)[j]
  <2> SUFFICES ASSUME NEW i, NEW m, <<i, m>> \in all
               PROVE  \E d \in DOMAIN fill : \E j \in DOMAIN on[fill[d]] \cap DOMAIN slots(d) :
                         i = index(on[fill[d]][j]) /\ m = slots(d)[j]
    OBVIOUS
  <2>1. PICK d \in DOMAIN fill : <<i, m>> \in part(d)
    OBVIOUS
  <2>2. PICK j \in DOMAIN on[fill[d]] \cap DOMAIN slots(d) :
          <<i, m>> = <<index(on[fill[d]][j]), slots(d)[j]>>
    BY <2>1
  <2> HIDE DEF index, slots
  <2> QED BY <2>2
<1>5. \A i \in DOMAIN f : \E m : <<i, m>> \in all
  <2>1. \A p \in all : p = <<p[1], p[2]>>
    <3> SUFFICES ASSUME NEW p \in all PROVE p = <<p[1], p[2]>>
      OBVIOUS
    <3>1. PICK d \in DOMAIN fill : p \in part(d)
      OBVIOUS
    <3>2. \E j : p = <<index(on[fill[d]][j]), slots(d)[j]>>
      BY <3>1
    <3> HIDE DEF index, slots
    <3> QED BY <3>2
  <2>2. DOMAIN f = {p[1] : p \in all}
    OBVIOUS
  <2> HIDE DEF f, all
  <2> QED BY <2>1, <2>2
<1>6. \A i, m : <<i, m>> \in all => m \in DOMAIN rel.tracks
  <2> HIDE DEF slots, tracks, index, all
  <2> QED BY <1>2, <1>3, <1>4
<1>7. ASSUME NEW i1, NEW i2, NEW m, <<i1, m>> \in all, <<i2, m>> \in all PROVE i1 = i2
  <2> HIDE DEF slots, tracks, index, all
  <2>1. PICK d1 \in DOMAIN fill : \E j \in DOMAIN on[fill[d1]] \cap DOMAIN slots(d1) :
          i1 = index(on[fill[d1]][j]) /\ m = slots(d1)[j]
    BY <1>4, <1>7
  <2>2. PICK j1 \in DOMAIN slots(d1) : i1 = index(on[fill[d1]][j1]) /\ m = slots(d1)[j1]
    BY <2>1
  <2>3. PICK d2 \in DOMAIN fill : \E j \in DOMAIN on[fill[d2]] \cap DOMAIN slots(d2) :
          i2 = index(on[fill[d2]][j]) /\ m = slots(d2)[j]
    BY <1>4, <1>7
  <2>4. PICK j2 \in DOMAIN slots(d2) : i2 = index(on[fill[d2]][j2]) /\ m = slots(d2)[j2]
    BY <2>3
  <2>5. d1 = d2
    <3>1. slots(d1)[j1] \in tracks(d1)
      BY <1>2
    <3>2. slots(d2)[j2] \in tracks(d2)
      BY <1>2
    <3> QED BY <1>3, <2>2, <2>4, <3>1, <3>2
  <2>6. j1 = j2
    BY <1>2, <2>2, <2>4, <2>5
  <2> QED BY <2>2, <2>4, <2>5, <2>6
<1>8. \A i \in DOMAIN f : f[i] \in DOMAIN rel.tracks /\ <<i, f[i]>> \in all
  <2> SUFFICES ASSUME NEW i \in DOMAIN f PROVE f[i] \in DOMAIN rel.tracks /\ <<i, f[i]>> \in all
    OBVIOUS
  <2>1. f[i] = CHOOSE m \in DOMAIN rel.tracks : <<i, m>> \in all
    OBVIOUS
  <2> HIDE DEF f, all
  <2> QED BY <1>5, <1>6, <2>1
<1> HIDE DEF f, all
<1>9. Placing(f, DOMAIN f, DOMAIN rel.tracks)
  BY <1>7, <1>8 DEF Placing
<1> QED BY <1>1, <1>9

LEMMA RestSlotsPair ==
  ASSUME NEW files, NEW rel, NEW confirmed, NEW open, NEW n \in Nat, NEW l \in Nat, NEW k \in Nat,
         DOMAIN files = 1..n, DOMAIN open = 1..l, DOMAIN rel.tracks = 1..k,
         \A a \in DOMAIN open : open[a] \in DOMAIN rel.tracks,
         \A a, b \in DOMAIN open : open[a] = open[b] => a = b
  PROVE  Pairing(RestSlots(files, rel, confirmed, open), DOMAIN files, Range(open))
<1>1. IsFiniteSet(1..n) /\ IsFiniteSet(1..k)
  BY FS_Interval
<1>2. Range(open) \in SUBSET (1..k)
  BY DEF Range
<1>3. ASSUME confirmed PROVE Pairing(RestSlots(files, rel, confirmed, open), DOMAIN files, Range(open))
  <2>1. IsFiniteSet(Range(open)) /\ Range(open) \in SUBSET Nat
    BY <1>1, <1>2, FS_Subset
  <2> QED BY <1>1, <1>3, <2>1, ProposalPairs DEF RestSlots
<1>4. ASSUME ~confirmed PROVE Pairing(RestSlots(files, rel, confirmed, open), DOMAIN files, Range(open))
  <2> DEFINE guess == Assign(files, [a \in DOMAIN open |-> rel.tracks[open[a]]])
             s == [a \in DOMAIN files |-> IF guess[a] = None THEN None ELSE open[guess[a]]]
  <2>1. RestSlots(files, rel, confirmed, open) = s
    BY <1>4 DEF RestSlots
  <2>2. Pairing(guess, DOMAIN files, DOMAIN open)
    <3> DEFINE tracks == [a \in DOMAIN open |-> rel.tracks[open[a]]]
    <3>1. DOMAIN tracks = 1..l
      OBVIOUS
    <3> HIDE DEF tracks
    <3>2. Pairing(Assign(files, tracks), DOMAIN files, DOMAIN tracks)
      BY <3>1, Assigned
    <3> QED BY <3>1, <3>2 DEF tracks
  <2>3. \A a \in DOMAIN files : s[a] = IF guess[a] = None THEN None ELSE open[guess[a]]
    OBVIOUS
  <2> HIDE DEF guess, s
  <2>4. \A a \in DOMAIN open : open[a] \in Range(open) /\ open[a] # None
    BY <1>2, NoneAssumption DEF Range
  <2>5. Pairing(s, DOMAIN files, Range(open))
    BY <2>2, <2>3, <2>4 DEF Pairing
  <2> QED BY <2>1, <2>5
<1> QED BY <1>3, <1>4

LEMMA BesidePairs ==
  ASSUME NEW filled, NEW rest, NEW slots, NEW files, NEW tracks \in SUBSET Nat,
         Placing(filled, DOMAIN filled, tracks),
         \A k \in DOMAIN rest : rest[k] \in files \ DOMAIN filled,
         \A m \in files \ DOMAIN filled : \E k \in DOMAIN rest : rest[k] = m,
         Pairing(slots, DOMAIN rest, tracks \ Range(filled))
  PROVE  Pairing(Beside(filled, rest, slots), files, tracks)
<1> DEFINE q == [i \in Range(rest) |-> slots[CHOOSE k \in DOMAIN rest : rest[k] = i]]
           s == Over(filled, q)
<1>1. Beside(filled, rest, slots) = s
  BY DEF Beside
<1>2. DOMAIN q = files \ DOMAIN filled
  BY DEF Range
<1>3. \A i \in DOMAIN q : \E k \in DOMAIN rest : rest[k] = i /\ q[i] = slots[k]
  <2> SUFFICES ASSUME NEW i \in DOMAIN q PROVE \E k \in DOMAIN rest : rest[k] = i /\ q[i] = slots[k]
    OBVIOUS
  <2>1. \E k \in DOMAIN rest : rest[k] = i
    BY <1>2
  <2>2. q[i] = slots[CHOOSE k \in DOMAIN rest : rest[k] = i]
    OBVIOUS
  <2> HIDE DEF q
  <2> QED BY <2>1, <2>2
<1> HIDE DEF q
<1>4. /\ DOMAIN s = DOMAIN filled \cup DOMAIN q
      /\ \A i \in DOMAIN filled : s[i] = filled[i]
      /\ \A i \in DOMAIN q \ DOMAIN filled : s[i] = q[i]
  BY OverIs
<1> HIDE DEF s
<1>5. \A i \in files : \/ i \in DOMAIN filled /\ s[i] = filled[i] /\ s[i] \in tracks
                       \/ i \in DOMAIN q /\ s[i] = q[i]
  BY <1>2, <1>4 DEF Placing
<1>6. \A i \in DOMAIN q : q[i] = None \/ q[i] \in tracks \ Range(filled)
  BY <1>3 DEF Pairing
<1>7. \A i \in files : s[i] = None \/ s[i] \in tracks
  BY <1>5, <1>6
<1>8. ASSUME NEW i \in files, NEW j \in files, s[i] = s[j], s[i] # None PROVE i = j
  <2>1. CASE i \in DOMAIN filled /\ j \in DOMAIN filled
    BY <1>4, <1>8, <2>1 DEF Placing
  <2>2. CASE i \notin DOMAIN filled /\ j \notin DOMAIN filled
    <3>1. i \in DOMAIN q /\ s[i] = q[i] /\ j \in DOMAIN q /\ s[j] = q[j]
      BY <1>2, <1>4, <2>2
    <3>2. PICK k \in DOMAIN rest : rest[k] = i /\ q[i] = slots[k]
      BY <1>3, <3>1
    <3>3. PICK l \in DOMAIN rest : rest[l] = j /\ q[j] = slots[l]
      BY <1>3, <3>1
    <3>4. slots[k] = slots[l] /\ slots[k] # None
      BY <1>8, <3>1, <3>2, <3>3
    <3>5. k = l
      BY <3>4 DEF Pairing
    <3> QED BY <3>2, <3>3, <3>5
  <2>3. CASE i \in DOMAIN filled /\ j \notin DOMAIN filled
    BY <1>2, <1>4, <1>6, <1>8, <2>3 DEF Range
  <2>4. CASE i \notin DOMAIN filled /\ j \in DOMAIN filled
    BY <1>2, <1>4, <1>6, <1>8, <2>4 DEF Range
  <2> QED BY <2>1, <2>2, <2>3, <2>4
<1> QED BY <1>1, <1>7, <1>8 DEF Pairing

LEMMA ProposedPairing ==
  ASSUME NEW files, NEW rel, NEW confirmed, NEW fill, NEW n \in Nat, NEW k \in Nat,
         DOMAIN files = 1..n, DOMAIN rel.tracks = 1..k
  PROVE  Pairing(Proposed(files, rel, confirmed, fill), DOMAIN files, DOMAIN rel.tracks)
<1> DEFINE filled == Filled(files, rel, fill)
           over == DOMAIN files \ DOMAIN filled
           rest == InOrder(over)
           eligible == IF confirmed THEN Taggable(rel) ELSE DOMAIN rel.tracks
           free == eligible \ Range(filled)
           open == InOrder(free)
           part == [a \in DOMAIN rest |-> files[rest[a]]]
           slots == RestSlots(part, rel, confirmed, open)
<1>1. Proposed(files, rel, confirmed, fill) = Beside(filled, rest, slots)
  BY DEF Proposed, Around
<1>2. Placing(filled, DOMAIN filled, DOMAIN rel.tracks)
  <2> HIDE DEF filled
  <2> QED BY FilledPlaces DEF filled
<1>3. IsFiniteSet(1..n) /\ IsFiniteSet(1..k) /\ over \in SUBSET (1..n) /\ free \in SUBSET (1..k)
  BY FS_Interval DEF Taggable
<1>4. IsFiniteSet(over) /\ IsFiniteSet(free) /\ over \in SUBSET Nat /\ free \in SUBSET Nat
  <2> HIDE DEF over, free
  <2>1. IsFiniteSet(over) /\ IsFiniteSet(free)
    BY <1>3, FS_Subset
  <2>2. over \in SUBSET Nat /\ free \in SUBSET Nat
    BY <1>3
  <2> QED BY <2>1, <2>2
<1>5. /\ DOMAIN rest = 1..Cardinality(over) /\ Cardinality(over) \in Nat
      /\ \A a \in DOMAIN rest : rest[a] \in over
      /\ \A m \in over : \E a \in DOMAIN rest : rest[a] = m
  <2> HIDE DEF over
  <2> QED BY <1>4, InOrderIs
<1>6. /\ DOMAIN open = 1..Cardinality(free) /\ Cardinality(free) \in Nat
      /\ \A a \in DOMAIN open : open[a] \in free
      /\ \A a, b \in DOMAIN open : open[a] = open[b] => a = b
  <2> HIDE DEF free
  <2> QED BY <1>4, InOrderIs
<1>7. Pairing(slots, DOMAIN rest, Range(open))
  <2>1. DOMAIN part = DOMAIN rest
    OBVIOUS
  <2> HIDE DEF over, free, rest, open, part
  <2>2. \A a \in DOMAIN open : open[a] \in DOMAIN rel.tracks
    BY <1>3, <1>6
  <2> QED BY <1>5, <1>6, <2>1, <2>2, RestSlotsPair
<1>8. Range(open) \subseteq DOMAIN rel.tracks \ Range(filled)
  <2>1. \A a \in DOMAIN open : open[a] \in DOMAIN rel.tracks \ Range(filled)
    BY <1>3, <1>6
  <2> HIDE DEF open
  <2> QED BY <2>1 DEF Range
<1> HIDE DEF slots, open, rest
<1>9. Pairing(slots, DOMAIN rest, DOMAIN rel.tracks \ Range(filled))
  BY <1>7, <1>8 DEF Pairing
<1> HIDE DEF filled
<1>10. Pairing(Beside(filled, rest, slots), DOMAIN files, DOMAIN rel.tracks)
  <2>1. DOMAIN rel.tracks \in SUBSET Nat
    OBVIOUS
  <2> QED BY <1>2, <1>5, <1>9, <2>1, BesidePairs
<1> QED BY <1>1, <1>10 DEF filled, slots, open, rest

-----------------------------------------------------------------------------
(* The rows of a draft *)

\* What a row may have on either side: a number, or a gap.
Cells == Nat \cup {None}

DraftOK(disk, tracks, files, all) ==
  /\ disk \in Seq(Cells) /\ tracks \in Seq(Cells)
  /\ Len(disk) = Len(tracks)
  /\ \A i \in files : \E k \in 1..Len(disk) : disk[k] = i
  /\ \A k \in 1..Len(tracks) : tracks[k] = None \/ tracks[k] \in all
  /\ \A k, l \in 1..Len(tracks) : tracks[k] = tracks[l] => k = l \/ tracks[k] = None

\* Two columns, one under the other.
LEMMA Stacked ==
  ASSUME NEW S, NEW a \in Nat, NEW b \in Nat, NEW s \in [1..a -> S], NEW t \in [1..b -> S]
  PROVE  /\ s \o t \in Seq(S) /\ Len(s \o t) = a + b
         /\ \A i \in 1..a : (s \o t)[i] = s[i]
         /\ \A i \in 1..b : (s \o t)[a + i] = t[i]
<1>2. s \in Seq(S) /\ t \in Seq(S) /\ Len(s) = a /\ Len(t) = b
  OBVIOUS
<1>3. s \o t \in Seq(S) /\ Len(s \o t) = a + b
  BY <1>2
<1>4. \A i \in 1..a : (s \o t)[i] = s[i]
  BY <1>2
<1>5. \A i \in 1..b : (s \o t)[a + i] = t[i]
  BY <1>2
<1> QED BY <1>3, <1>4, <1>5

LEMMA RowsDraft ==
  ASSUME NEW files, NEW rel, NEW slots, NEW n \in Nat, NEW k \in Nat,
         DOMAIN files = 1..n, DOMAIN rel.tracks = 1..k, Pairing(slots, DOMAIN files, DOMAIN rel.tracks)
  PROVE  DraftOK(Rows(files, rel, slots).disk, Rows(files, rel, slots).tracks,
                 DOMAIN files, DOMAIN rel.tracks)
<1> DEFINE rest == {i \in DOMAIN files : slots[i] = None}
           over == InOrder(rest)
           h(m) == {i \in DOMAIN files : slots[i] = m}
           holder(m) == IF h(m) = {} THEN None ELSE CHOOSE i \in h(m) : TRUE
           d1 == [m \in DOMAIN rel.tracks |-> holder(m)]
           t1 == [m \in DOMAIN rel.tracks |-> m]
           t2 == [j \in DOMAIN over |-> None]
           l == Cardinality(rest)
           disk == d1 \o over
           tracks == t1 \o t2
<1>1. Rows(files, rel, slots).disk = disk /\ Rows(files, rel, slots).tracks = tracks
  BY DEF Rows
<1>2. /\ DOMAIN over = 1..l /\ l \in Nat /\ over \in [1..l -> rest]
      /\ \A j \in DOMAIN over : over[j] \in rest
      /\ \A i \in rest : \E j \in DOMAIN over : over[j] = i
  <2>1. IsFiniteSet(1..n) /\ rest \in SUBSET (1..n)
    BY FS_Interval
  <2>2. IsFiniteSet(rest)
    <3> HIDE DEF rest
    <3> QED BY <2>1, FS_Subset
  <2>3. rest \in SUBSET Nat
    BY <2>1
  <2> HIDE DEF rest
  <2> QED BY <2>2, <2>3, InOrderIs
<1>3. over \in [1..l -> Cells]
  BY <1>2 DEF Cells
<1>4. d1 \in [1..k -> Cells]
  BY DEF Cells
<1>5. \A i \in DOMAIN files : slots[i] # None => slots[i] \in DOMAIN rel.tracks /\ d1[slots[i]] = i
  <2> SUFFICES ASSUME NEW i \in DOMAIN files, slots[i] # None
               PROVE  slots[i] \in DOMAIN rel.tracks /\ d1[slots[i]] = i
    OBVIOUS
  <2>1. h(slots[i]) = {i} /\ slots[i] \in DOMAIN rel.tracks
    BY DEF Pairing
  <2>2. holder(slots[i]) = i
    <3> HIDE DEF h
    <3> QED BY <2>1
  <2> QED BY <2>1, <2>2
<1>8. /\ t1 \in [1..k -> Cells] /\ \A m \in 1..k : t1[m] = m
      /\ t2 \in [1..l -> Cells] /\ \A j \in 1..l : t2[j] = None
  <2> HIDE DEF over
  <2> QED BY <1>2 DEF Cells
<1>9. \A i \in DOMAIN files : slots[i] = None => \E j \in DOMAIN over : over[j] = i
  BY <1>2
<1> HIDE DEF d1, t1, t2, over, l
<1>10. /\ disk \in Seq(Cells) /\ Len(disk) = k + l
       /\ \A i \in 1..k : disk[i] = d1[i]
       /\ \A i \in 1..l : disk[k + i] = over[i]
  <2>1. l \in Nat
    BY <1>2
  <2>2. /\ d1 \o over \in Seq(Cells) /\ Len(d1 \o over) = k + l
        /\ \A i \in 1..k : (d1 \o over)[i] = d1[i]
        /\ \A i \in 1..l : (d1 \o over)[k + i] = over[i]
    BY ONLY <1>3, <1>4, <2>1, k \in Nat, Stacked
  <2> QED BY <2>2
<1>11. /\ tracks \in Seq(Cells) /\ Len(tracks) = k + l
       /\ \A i \in 1..k : tracks[i] = t1[i]
       /\ \A i \in 1..l : tracks[k + i] = t2[i]
  <2>1. l \in Nat
    BY <1>2
  <2>2. t1 \in [1..k -> Cells] /\ t2 \in [1..l -> Cells]
    BY <1>8
  <2> QED BY <2>1, <2>2, Stacked
<1> HIDE DEF disk, tracks
<1>12. ASSUME NEW i \in DOMAIN files PROVE \E a \in 1..Len(disk) : disk[a] = i
  <2>1. CASE slots[i] # None
    <3>1. slots[i] \in 1..k /\ disk[slots[i]] = i
      BY <1>5, <1>10, <2>1
    <3> QED BY <1>2, <1>10, <3>1
  <2>2. CASE slots[i] = None
    <3>1. PICK j \in 1..l : over[j] = i
      BY <1>2, <1>9, <2>2
    <3>2. disk[k + j] = i /\ k + j \in 1..Len(disk)
      BY <1>2, <1>10, <3>1
    <3> QED BY <3>2
  <2> QED BY <2>1, <2>2
<1>13. \A a \in 1..Len(tracks) : \/ a \in 1..k /\ tracks[a] = a
                                 \/ tracks[a] = None
  <2> SUFFICES ASSUME NEW a \in 1..Len(tracks), a \notin 1..k PROVE tracks[a] = None
    BY <1>8, <1>11
  <2>1. a - k \in 1..l /\ k + (a - k) = a
    BY <1>2, <1>11
  <2>2. tracks[k + (a - k)] = None
    BY <1>8, <1>11, <2>1
  <2> QED BY <2>1, <2>2
<1>14. DraftOK(disk, tracks, DOMAIN files, DOMAIN rel.tracks)
  BY <1>10, <1>11, <1>12, <1>13 DEF DraftOK
<1> QED BY <1>1, <1>14

LEMMA DraftMaps ==
  ASSUME NEW p, DraftOK(p.disk, p.tracks, DOMAIN p.files, DOMAIN p.rel.tracks)
  PROVE  Pairing(Mapping(p), DOMAIN p.files, DOMAIN p.rel.tracks) /\ DOMAIN Mapping(p) = DOMAIN p.files
<1> DEFINE row(i) == CHOOSE k \in DOMAIN p.disk : p.disk[k] = i
           s == Mapping(p)
<1>1. DOMAIN p.disk = 1..Len(p.disk) /\ Len(p.disk) = Len(p.tracks)
  BY DEF DraftOK
<1>2. \A i \in DOMAIN p.files : row(i) \in 1..Len(p.tracks) /\ p.disk[row(i)] = i
  BY <1>1 DEF DraftOK
<1>3. DOMAIN s = DOMAIN p.files /\ \A i \in DOMAIN p.files : s[i] = p.tracks[row(i)]
  BY DEF Mapping
<1> HIDE DEF row, s
<1>4. Pairing(s, DOMAIN p.files, DOMAIN p.rel.tracks)
  BY <1>2, <1>3 DEF DraftOK, Pairing
<1> QED BY <1>3, <1>4 DEF s

\* A move keeps every file on a row and every track on one row at most.
LEMMA SwappedDraft ==
  ASSUME NEW disk, NEW tracks, NEW files, NEW all, DraftOK(disk, tracks, files, all),
         NEW k \in 1..(Len(disk) - 1)
  PROVE  DraftOK(Swapped(disk, k), tracks, files, all) /\ DraftOK(disk, Swapped(tracks, k), files, all)
<1> DEFINE n == Len(disk)
<1>1. /\ disk \in [1..n -> Cells] /\ tracks \in [1..n -> Cells]
      /\ n \in Nat /\ k \in 1..n /\ k + 1 \in 1..n /\ Len(tracks) = n
  BY DEF DraftOK
<1> HIDE DEF n
<1> DEFINE d == Swapped(disk, k)
           t == Swapped(tracks, k)
<1>2. /\ d \in [1..n -> Cells] /\ d[k] = disk[k + 1] /\ d[k + 1] = disk[k]
      /\ \A j \in 1..n : j # k /\ j # k + 1 => d[j] = disk[j]
  BY <1>1 DEF Swapped
<1>3. /\ t \in [1..n -> Cells] /\ t[k] = tracks[k + 1] /\ t[k + 1] = tracks[k]
      /\ \A j \in 1..n : j # k /\ j # k + 1 => t[j] = tracks[j]
  BY <1>1 DEF Swapped
<1> HIDE DEF d, t
<1>4. d \in Seq(Cells) /\ Len(d) = n /\ t \in Seq(Cells) /\ Len(t) = n
  BY <1>1, <1>2, <1>3
<1>5. ASSUME NEW i \in files PROVE \E a \in 1..n : d[a] = i
  <2>1. PICK a \in 1..n : disk[a] = i
    BY DEF DraftOK, n
  <2> QED BY <1>1, <1>2, <2>1
<1>6. \A a \in 1..n : t[a] = None \/ t[a] \in all
  BY <1>1, <1>3 DEF DraftOK
<1>7. ASSUME NEW a \in 1..n, NEW b \in 1..n, t[a] = t[b], t[a] # None PROVE a = b
  <2>1. \A c, e \in 1..n : tracks[c] = tracks[e] => c = e \/ tracks[c] = None
    BY <1>1 DEF DraftOK
  <2> QED BY <1>1, <1>3, <1>7, <2>1
<1>8. DraftOK(d, tracks, files, all)
  BY <1>1, <1>4, <1>5 DEF DraftOK
<1>9. DraftOK(disk, t, files, all)
  BY <1>1, <1>4, <1>6, <1>7 DEF DraftOK, n
<1> QED BY <1>8, <1>9 DEF d, t

LEMMA LongerDraft ==
  ASSUME NEW disk, NEW tracks, NEW files, NEW all, DraftOK(disk, tracks, files, all)
  PROVE  DraftOK(Append(disk, None), Append(tracks, None), files, all)
<1> DEFINE n == Len(disk)
           d == Append(disk, None)
           t == Append(tracks, None)
<1>1. disk \in Seq(Cells) /\ tracks \in Seq(Cells) /\ Len(tracks) = n /\ n \in Nat
  BY DEF DraftOK
<1>2. /\ d \in Seq(Cells) /\ Len(d) = n + 1 /\ \A j \in 1..n : d[j] = disk[j]
      /\ t \in Seq(Cells) /\ Len(t) = n + 1 /\ t[n + 1] = None /\ \A j \in 1..n : t[j] = tracks[j]
  BY <1>1 DEF Cells
<1> HIDE DEF d, t
<1>3. \A i \in files : \E a \in 1..(n + 1) : d[a] = i
  BY <1>1, <1>2 DEF DraftOK
<1>4. \A j \in 1..(n + 1) : j = n + 1 \/ j \in 1..n
  BY <1>1
<1> HIDE DEF n
<1>5. \A a \in 1..(n + 1) : t[a] = None \/ t[a] \in all
  BY <1>1, <1>2, <1>4 DEF DraftOK
<1>6. ASSUME NEW a \in 1..(n + 1), NEW b \in 1..(n + 1), t[a] = t[b], t[a] # None PROVE a = b
  BY <1>1, <1>2, <1>4, <1>6 DEF DraftOK
<1>7. DraftOK(d, t, files, all)
  BY <1>2, <1>3, <1>5, <1>6 DEF DraftOK
<1> QED BY <1>7 DEF d, t

\* Every pair taken apart: all the files, then all the tracks.
LEMMA ApartDraft ==
  ASSUME NEW n \in Nat, NEW m \in Nat
  PROVE  DraftOK([k \in 1..n |-> k] \o [k \in 1..m |-> None], [k \in 1..n |-> None] \o [k \in 1..m |-> k],
                 1..n, 1..m)
<1> DEFINE a == [k \in 1..n |-> k]
           b == [k \in 1..m |-> None]
           c == [k \in 1..n |-> None]
           e == [k \in 1..m |-> k]
           d == a \o b
           t == c \o e
<1>1. /\ a \in [1..n -> Cells] /\ \A k \in 1..n : a[k] = k
      /\ b \in [1..m -> Cells] /\ \A k \in 1..m : b[k] = None
      /\ c \in [1..n -> Cells] /\ \A k \in 1..n : c[k] = None
      /\ e \in [1..m -> Cells] /\ \A k \in 1..m : e[k] = k
  BY DEF Cells
<1> HIDE DEF a, b, c, e
<1>2. d \in Seq(Cells) /\ Len(d) = n + m /\ \A i \in 1..n : d[i] = a[i]
  <2>1. a \in [1..n -> Cells] /\ b \in [1..m -> Cells]
    BY <1>1
  <2>2. a \o b \in Seq(Cells) /\ Len(a \o b) = n + m /\ \A i \in 1..n : (a \o b)[i] = a[i]
    BY ONLY n \in Nat, m \in Nat, <2>1, Stacked
  <2> QED BY <2>2
<1>3. /\ t \in Seq(Cells) /\ Len(t) = n + m
      /\ \A i \in 1..n : t[i] = c[i]
      /\ \A i \in 1..m : t[n + i] = e[i]
  <2>1. c \in [1..n -> Cells] /\ e \in [1..m -> Cells]
    BY <1>1
  <2>2. /\ c \o e \in Seq(Cells) /\ Len(c \o e) = n + m
        /\ \A i \in 1..n : (c \o e)[i] = c[i]
        /\ \A i \in 1..m : (c \o e)[n + i] = e[i]
    BY ONLY n \in Nat, m \in Nat, <2>1, Stacked
  <2> QED BY <2>2
<1> HIDE DEF d, t
<1>4. ASSUME NEW i \in 1..n PROVE \E k \in 1..Len(d) : d[k] = i
  <2>1. i \in 1..Len(d) /\ d[i] = i
    BY <1>1, <1>2
  <2> QED BY <2>1
<1>5. \A i \in 1..Len(t) : t[i] = None \/ (t[i] \in 1..m /\ i = n + t[i])
  <2> SUFFICES ASSUME NEW i \in 1..Len(t), i \notin 1..n PROVE t[i] \in 1..m /\ i = n + t[i]
    BY <1>1, <1>3
  <2>1. i - n \in 1..m /\ n + (i - n) = i
    BY <1>3
  <2>2. t[n + (i - n)] = i - n
    BY <1>1, <1>3, <2>1
  <2> QED BY <2>1, <2>2
<1>6. DraftOK(d, t, 1..n, 1..m)
  BY <1>2, <1>3, <1>4, <1>5 DEF DraftOK
<1> QED BY <1>6 DEF d, t, a, b, c, e

-----------------------------------------------------------------------------
(* Folders into files *)

LEMMA LeastNumber ==
  ASSUME NEW B \in SUBSET Nat, B # {}
  PROVE  \E m \in B : \A j \in B : m <= j
<1>1. PICK m \in B : \A j \in B : ~ (<<j, m>> \in OpToRel(<, Nat))
  BY NatLessThanWellFounded, WFMin
<1>2. \A j \in B : ~ (j < m)
  BY <1>1 DEF OpToRel
<1> QED BY <1>2

\* What is in the sequences, and nothing else, is in the one they make.
Holds(s, x) == \E i \in DOMAIN s : s[i] = x

LEMMA Joined ==
  ASSUME NEW S, NEW s \in Seq(S), NEW t \in Seq(S)
  PROVE  /\ s \o t \in Seq(S)
         /\ \A x : Holds(s \o t, x) <=> Holds(s, x) \/ Holds(t, x)
<1> DEFINE a == Len(s)
           b == Len(t)
           u == s \o t
<1>1. /\ a \in Nat /\ b \in Nat /\ DOMAIN s = 1..a /\ DOMAIN t = 1..b
      /\ s \in [1..a -> S] /\ t \in [1..b -> S]
  OBVIOUS
<1> HIDE DEF a, b
<1>2. u \in Seq(S) /\ Len(u) = a + b /\ (\A i \in 1..a : u[i] = s[i]) /\ \A i \in 1..b : u[a + i] = t[i]
  BY <1>1, Stacked
<1>3. DOMAIN u = 1..(a + b)
  BY <1>2
<1> HIDE DEF u
<1>4. ASSUME NEW x, Holds(u, x) PROVE Holds(s, x) \/ Holds(t, x)
  <2>1. PICK i \in 1..(a + b) : u[i] = x
    BY <1>3, <1>4 DEF Holds
  <2>2. i \in 1..a \/ (i - a \in 1..b /\ a + (i - a) = i)
    BY <1>1
  <2>3. CASE i \in 1..a
    BY <1>1, <1>2, <2>1, <2>3 DEF Holds
  <2>4. ASSUME i - a \in 1..b, a + (i - a) = i PROVE Holds(t, x)
    <3>1. u[a + (i - a)] = t[i - a]
      BY <1>2, <2>4
    <3> QED BY <1>1, <2>1, <2>4, <3>1 DEF Holds
  <2> QED BY <2>2, <2>3, <2>4
<1>5. ASSUME NEW x, Holds(s, x) PROVE Holds(u, x)
  BY <1>1, <1>2, <1>3, <1>5 DEF Holds
<1>6. ASSUME NEW x, Holds(t, x) PROVE Holds(u, x)
  <2>1. PICK i \in 1..b : t[i] = x
    BY <1>1, <1>6 DEF Holds
  <2>2. a + i \in 1..(a + b) /\ u[a + i] = x
    BY <1>1, <1>2, <2>1
  <2> QED BY <1>3, <2>2 DEF Holds
<1> QED BY <1>2, <1>4, <1>5, <1>6 DEF u

LEMMA FlattenDefined ==
  ASSUME NEW seqs, NEW n \in Nat
  PROVE  \E g : g = [i \in 1..n |-> IF i = 1 THEN seqs[i] ELSE g[i - 1] \o seqs[i]]
<1> DEFINE Good(m) == \E g : g = [i \in 1..m |-> IF i = 1 THEN seqs[i] ELSE g[i - 1] \o seqs[i]]
           B == {m \in 0..n : ~ Good(m)}
<1>1. Good(0)
  <2> DEFINE g == [i \in 1..0 |-> seqs[i]]
  <2>1. g = [i \in 1..0 |-> IF i = 1 THEN seqs[i] ELSE g[i - 1] \o seqs[i]]
    OBVIOUS
  <2> QED BY <2>1
<1>2. ASSUME NEW m \in Nat, Good(m) PROVE Good(m + 1)
  <2>1. PICK g : g = [i \in 1..m |-> IF i = 1 THEN seqs[i] ELSE g[i - 1] \o seqs[i]]
    BY <1>2
  <2> DEFINE h == [i \in 1..(m + 1) |-> IF i = 1 THEN seqs[i] ELSE g[i - 1] \o seqs[i]]
  <2>2. \A i \in 1..m : g[i] = IF i = 1 THEN seqs[i] ELSE g[i - 1] \o seqs[i]
    BY <2>1
  <2>3. \A i \in 1..(m + 1) : h[i] = IF i = 1 THEN seqs[i] ELSE g[i - 1] \o seqs[i]
    OBVIOUS
  <2>4. \A i \in 1..m : h[i] = g[i]
    <3> HIDE DEF h
    <3> QED BY <2>2, <2>3
  <2>5. \A i \in 1..(m + 1) : i # 1 => i - 1 \in 1..m
    OBVIOUS
  <2>6. h = [i \in 1..(m + 1) |-> IF i = 1 THEN seqs[i] ELSE h[i - 1] \o seqs[i]]
    <3>1. \A i \in 1..(m + 1) : (IF i = 1 THEN seqs[i] ELSE g[i - 1] \o seqs[i])
                                = IF i = 1 THEN seqs[i] ELSE h[i - 1] \o seqs[i]
      <4> HIDE DEF h
      <4> QED BY <2>4, <2>5
    <3> QED BY <3>1
  <2> QED BY <2>6
<1>3. ASSUME B # {} PROVE FALSE
  <2>1. B \in SUBSET Nat
    <3> HIDE DEF Good
    <3> QED OBVIOUS
  <2>2. PICK m \in B : \A j \in B : m <= j
    <3> HIDE DEF B
    <3> QED BY <1>3, <2>1, LeastNumber
  <2> HIDE DEF Good
  <2>3. m # 0 /\ m \in 0..n
    BY <1>1
  <2>4. m - 1 \in Nat /\ m - 1 \in 0..n /\ m - 1 \notin B
    BY <2>2, <2>3
  <2>5. Good(m - 1) /\ (m - 1) + 1 = m
    BY <2>3, <2>4
  <2>6. Good((m - 1) + 1)
    BY <1>2, <2>4, <2>5
  <2> QED BY <2>5, <2>6
<1>4. Good(n)
  <2> HIDE DEF Good
  <2> QED BY <1>3
<1> QED BY <1>4

LEMMA Flattened ==
  ASSUME NEW S, NEW seqs \in Seq(Seq(S))
  PROVE  /\ FlattenSeq(seqs) \in Seq(S)
         /\ \A x : Holds(FlattenSeq(seqs), x) <=> \E k \in DOMAIN seqs : Holds(seqs[k], x)
<1> DEFINE n == Len(seqs)
<1>1. n \in Nat /\ DOMAIN seqs = 1..n /\ \A i \in 1..n : seqs[i] \in Seq(S)
  OBVIOUS
<1>2. CASE n = 0
  <2>1. FlattenSeq(seqs) = seqs /\ DOMAIN seqs = {}
    BY <1>1, <1>2 DEF FlattenSeq
  <2>2. seqs \in Seq(S)
    BY <1>2
  <2> QED BY <2>1, <2>2 DEF Holds
<1>3. CASE n # 0
  <2> DEFINE flatten == CHOOSE g : g = [i \in 1..n |-> IF i = 1 THEN seqs[i] ELSE g[i - 1] \o seqs[i]]
  <2>1. FlattenSeq(seqs) = flatten[n]
    BY <1>3 DEF FlattenSeq
  <2>2. \E g : g = [i \in 1..n |-> IF i = 1 THEN seqs[i] ELSE g[i - 1] \o seqs[i]]
    BY <1>1, FlattenDefined
  <2>3. flatten = [i \in 1..n |-> IF i = 1 THEN seqs[i] ELSE flatten[i - 1] \o seqs[i]]
    BY <2>2
  <2> HIDE DEF flatten, n
  <2>4. \A i \in 1..n : flatten[i] = IF i = 1 THEN seqs[i] ELSE flatten[i - 1] \o seqs[i]
    BY <2>3
  <2> DEFINE P(i) == /\ flatten[i] \in Seq(S)
                     /\ \A x : Holds(flatten[i], x) <=> \E k \in 1..i : Holds(seqs[k], x)
             B == {i \in 1..n : ~ P(i)}
  <2>5. P(1)
    <3>1. flatten[1] = seqs[1] /\ seqs[1] \in Seq(S)
      BY <1>1, <1>3, <2>4
    <3> QED BY <3>1
  <2>6. ASSUME NEW i \in 1..n, i # 1, P(i - 1) PROVE P(i)
    <3>1. flatten[i] = flatten[i - 1] \o seqs[i] /\ seqs[i] \in Seq(S) /\ flatten[i - 1] \in Seq(S)
      BY <1>1, <2>4, <2>6
    <3>2. /\ flatten[i] \in Seq(S)
          /\ \A x : Holds(flatten[i], x) <=> Holds(flatten[i - 1], x) \/ Holds(seqs[i], x)
      BY <3>1, Joined
    <3>3. \A k \in 1..i : k \in 1..(i - 1) \/ k = i
      BY <1>1
    <3>4. i \in 1..i /\ \A k \in 1..(i - 1) : k \in 1..i
      BY <1>1
    <3> QED BY <2>6, <3>2, <3>3, <3>4
  <2>7. ASSUME B # {} PROVE FALSE
    <3>1. B \in SUBSET Nat
      BY <1>1
    <3>2. PICK m \in B : \A j \in B : m <= j
      <4> HIDE DEF B
      <4> QED BY <2>7, <3>1, LeastNumber
    <3> HIDE DEF P
    <3>3. m # 1 /\ m \in 1..n
      BY <2>5
    <3>4. m - 1 \in 1..n /\ m - 1 \notin B
      BY <1>1, <3>2, <3>3
    <3>5. P(m - 1)
      BY <3>4
    <3> QED BY <2>6, <3>3, <3>5
  <2>8. P(n)
    <3> HIDE DEF P
    <3>1. n \in 1..n
      BY <1>1, <1>3
    <3> QED BY <2>7, <3>1
  <2> QED BY <1>1, <2>1, <2>8
<1> QED BY <1>2, <1>3

-----------------------------------------------------------------------------
(* Files as they are read, tagged and put back *)

IsFile(x) == {"file", "ok", "len", "rtid", "rec", "album"} \subseteq DOMAIN x

LEMMA ReadIs ==
  ASSUME NEW x, IsFile(x)
  PROVE  /\ IsFile(Read(x)) /\ Read(x).file = x.file /\ Read(x).ok = x.ok
         /\ x.ok => Read(x) = x
<1> DEFINE u == Over(Unread, x)
<1>1. /\ DOMAIN u = DOMAIN Unread \cup DOMAIN x
      /\ \A k \in DOMAIN x \ DOMAIN Unread : u[k] = x[k]
  BY OverIs
<1>2. "file" \notin DOMAIN Unread /\ "ok" \notin DOMAIN Unread
  BY DEF Unread
<1>3. Read(x) = IF x.ok THEN x ELSE u
  BY DEF Read
<1>4. "file" \in DOMAIN x /\ "ok" \in DOMAIN x
  BY DEF IsFile
<1> HIDE DEF u
<1>5. IsFile(u) /\ u.file = x.file /\ u.ok = x.ok
  BY <1>1, <1>2, <1>4 DEF IsFile
<1> QED BY <1>3, <1>5

LEMMA TaggedAsIs ==
  ASSUME NEW x, IsFile(x), NEW rel, NEW m
  PROVE  /\ IsFile(TaggedAs(x, rel, m))
         /\ TaggedAs(x, rel, m).file = x.file
         /\ TaggedAs(x, rel, m).rtid = rel.tracks[m].rtid
<1> DEFINE t == rel.tracks[m]
           new == [rtid |-> t.rtid, rec |-> t.rec, album |-> rel.id, disc |-> t.disc, num |-> t.num,
                   total |-> TrackTotal(rel, t.disc), discs |-> Cardinality(Discs(rel))]
           u == Over(new, x)
<1>1. /\ DOMAIN u = DOMAIN new \cup DOMAIN x
      /\ \A k \in DOMAIN new : u[k] = new[k]
      /\ \A k \in DOMAIN x \ DOMAIN new : u[k] = x[k]
  <2> HIDE DEF new
  <2> QED BY OverIs
<1>2. "file" \notin DOMAIN new /\ "rtid" \in DOMAIN new /\ new.rtid = t.rtid
  OBVIOUS
<1>3. TaggedAs(x, rel, m) = u
  BY DEF TaggedAs
<1>4. "file" \in DOMAIN x
  BY DEF IsFile
<1> HIDE DEF u, new
<1>5. IsFile(u) /\ u.file = x.file /\ u.rtid = t.rtid
  BY <1>1, <1>2, <1>4 DEF IsFile
<1> QED BY <1>3, <1>5

LEMMA UnassignedIs ==
  ASSUME NEW x, IsFile(x), NEW rel
  PROVE  IsFile(Unassigned(x, rel)) /\ Unassigned(x, rel).file = x.file /\ Unassigned(x, rel).rtid = x.rtid
BY DEF Unassigned, IsFile

\* What the tagging makes of the files: each stays what it is.
LEMMA TaggedIs ==
  ASSUME NEW files, NEW rel, NEW slots, \A i \in DOMAIN files : IsFile(files[i])
  PROVE  /\ DOMAIN Tagged(files, rel, slots) = DOMAIN files
         /\ \A i \in DOMAIN files :
              /\ IsFile(Tagged(files, rel, slots)[i]) /\ Tagged(files, rel, slots)[i].file = files[i].file
              /\ Tagged(files, rel, slots)[i].rtid =
                   IF slots[i] = None THEN files[i].rtid ELSE rel.tracks[slots[i]].rtid
<1> DEFINE t == Tagged(files, rel, slots)
<1>1. /\ DOMAIN t = DOMAIN files
      /\ \A i \in DOMAIN files : t[i] = IF slots[i] = None THEN files[i] ELSE TaggedAs(files[i], rel, slots[i])
  BY DEF Tagged
<1> HIDE DEF t
<1>2. ASSUME NEW i \in DOMAIN files
      PROVE  /\ IsFile(t[i]) /\ t[i].file = files[i].file
             /\ t[i].rtid = IF slots[i] = None THEN files[i].rtid ELSE rel.tracks[slots[i]].rtid
  <2>1. CASE slots[i] = None
    BY <1>1, <2>1
  <2>2. CASE slots[i] # None
    BY <1>1, <2>2, TaggedAsIs
  <2> QED BY <2>1, <2>2
<1> QED BY <1>1, <1>2 DEF t

\* Written with no track for two of the files, and none for the files without one.
LEMMA OneTrackEach ==
  ASSUME NEW files, NEW rel, NEW slots, IsRelease(rel), \A i \in DOMAIN files : IsFile(files[i]),
         Pairing(slots, DOMAIN files, DOMAIN rel.tracks),
         \A i \in DOMAIN files : slots[i] = None => files[i].rtid = None
  PROVE  \A i, j \in DOMAIN files :
           i # j /\ Tagged(files, rel, slots)[i].rtid # None
           => Tagged(files, rel, slots)[i].rtid # Tagged(files, rel, slots)[j].rtid
<1> DEFINE t == Tagged(files, rel, slots)
<1>1. \A i \in DOMAIN files : t[i].rtid = IF slots[i] = None THEN None ELSE rel.tracks[slots[i]].rtid
  BY TaggedIs
<1> HIDE DEF t
<1>2. \A m, n \in DOMAIN rel.tracks :
        rel.tracks[m].rtid = rel.tracks[n].rtid => m = n \/ rel.tracks[m].rtid = None
  BY DEF IsRelease
<1>3. ASSUME NEW i \in DOMAIN files, NEW j \in DOMAIN files, t[i].rtid # None, t[i].rtid = t[j].rtid
      PROVE  i = j
  <2>1. /\ slots[i] # None /\ t[i].rtid = rel.tracks[slots[i]].rtid
        /\ slots[j] # None /\ t[j].rtid = rel.tracks[slots[j]].rtid
    BY <1>1, <1>3
  <2>2. slots[i] \in DOMAIN rel.tracks /\ slots[j] \in DOMAIN rel.tracks
    BY <2>1 DEF Pairing
  <2>3. slots[i] = slots[j]
    BY <1>2, <1>3, <2>1, <2>2
  <2> QED BY <2>1, <2>3 DEF Pairing
<1> QED BY <1>3 DEF t

LEMMA ReleaseTracks ==
  ASSUME NEW rel, IsRelease(rel)
  PROVE  Len(rel.tracks) \in Nat /\ DOMAIN rel.tracks = 1..Len(rel.tracks) /\ rel.id \in Ids
BY DEF IsRelease, IsSequence

-----------------------------------------------------------------------------
(* What a tagging leaves: files that all say which track they are *)

\* The tags of the track are the file's.
Bears(f, rel, m) ==
  LET t == rel.tracks[m]
  IN /\ f.rtid = t.rtid /\ f.album = rel.id /\ f.disc = t.disc /\ f.num = t.num
     /\ f.total = TrackTotal(rel, t.disc) /\ f.discs = Cardinality(Discs(rel))

LEMMA TaggedBears ==
  ASSUME NEW x, IsFile(x), NEW rel, NEW m
  PROVE  /\ Bears(TaggedAs(x, rel, m), rel, m)
         /\ TaggedAs(x, rel, m).len = x.len /\ TaggedAs(x, rel, m).ok = x.ok
<1> DEFINE t == rel.tracks[m]
           new == [rtid |-> t.rtid, rec |-> t.rec, album |-> rel.id, disc |-> t.disc, num |-> t.num,
                   total |-> TrackTotal(rel, t.disc), discs |-> Cardinality(Discs(rel))]
           u == Over(new, x)
<1>1. /\ \A k \in DOMAIN new : u[k] = new[k]
      /\ \A k \in DOMAIN x \ DOMAIN new : u[k] = x[k]
  <2> HIDE DEF new
  <2> QED BY OverIs
<1>2. DOMAIN new = {"rtid", "rec", "album", "disc", "num", "total", "discs"}
  OBVIOUS
<1>3. TaggedAs(x, rel, m) = u
  BY DEF TaggedAs
<1> HIDE DEF u
<1>4. Bears(u, rel, m)
  BY <1>1, <1>2 DEF Bears
<1>5. u.len = x.len /\ u.ok = x.ok
  <2> HIDE DEF new
  <2> QED BY <1>1, <1>2 DEF IsFile
<1> QED BY <1>3, <1>4, <1>5

LEMMA TaggedAllBear ==
  ASSUME NEW files, NEW rel, NEW slots, \A i \in DOMAIN files : IsFile(files[i])
  PROVE  \A i \in DOMAIN files : slots[i] # None =>
           /\ Bears(Tagged(files, rel, slots)[i], rel, slots[i])
           /\ Tagged(files, rel, slots)[i].len = files[i].len
           /\ Tagged(files, rel, slots)[i].ok = files[i].ok
BY TaggedBears DEF Tagged

\* Every file's id is its own and its track's own: that is the pairing.
LEMMA OwnIds ==
  ASSUME NEW n \in Nat, NEW k \in Nat, NEW fileKeys, NEW trackKeys, NEW slots,
         DOMAIN fileKeys = 1..n, DOMAIN trackKeys = 1..k, slots = [i \in 1..n |-> slots[i]],
         Pairing(slots, 1..n, 1..k),
         \A i \in 1..n : /\ slots[i] # None
                         /\ fileKeys[i] = trackKeys[slots[i]] /\ fileKeys[i] # None,
         \A m, l \in 1..k : trackKeys[m] = trackKeys[l] => m = l \/ trackKeys[m] = None
  PROVE  Matched(fileKeys, trackKeys) = slots
<1>1. IsFiniteSet(DOMAIN fileKeys) /\ IsFiniteSet(DOMAIN trackKeys)
  BY FS_Interval
<1>2. \A i \in 1..n : slots[i] \in 1..k
  BY DEF Pairing
<1>3. ASSUME NEW i \in 1..n PROVE Once(fileKeys, fileKeys[i])
  <2>1. ASSUME NEW j \in 1..n, fileKeys[j] = fileKeys[i] PROVE j = i
    <3>1. slots[i] \in 1..k /\ slots[j] \in 1..k /\ trackKeys[slots[i]] = trackKeys[slots[j]]
      BY <1>2, <2>1
    <3>2. slots[i] = slots[j]
      BY <3>1
    <3> QED BY <3>2 DEF Pairing
  <2>2. \E x \in DOMAIN fileKeys : /\ fileKeys[x] = fileKeys[i]
                                  /\ \A y \in DOMAIN fileKeys : fileKeys[y] = fileKeys[i] => y = x
    BY <2>1
  <2> QED BY <1>1, <2>2, OnceIsOne
<1>4. ASSUME NEW i \in 1..n PROVE Once(trackKeys, fileKeys[i])
  <2>1. slots[i] \in 1..k /\ trackKeys[slots[i]] = fileKeys[i]
    BY <1>2
  <2>2. \A m \in 1..k : trackKeys[m] = fileKeys[i] => m = slots[i]
    BY <2>1
  <2>3. \E x \in DOMAIN trackKeys : /\ trackKeys[x] = fileKeys[i]
                                   /\ \A y \in DOMAIN trackKeys : trackKeys[y] = fileKeys[i] => y = x
    BY <2>1, <2>2
  <2> QED BY <1>1, <2>3, OnceIsOne
<1>5. PICK m : /\ m = Matched(fileKeys, trackKeys)
               /\ DOMAIN m \subseteq DOMAIN fileKeys
               /\ \A i \in DOMAIN fileKeys :
                    i \in DOMAIN m <=> /\ fileKeys[i] # None
                                      /\ Once(fileKeys, fileKeys[i])
                                      /\ Once(trackKeys, fileKeys[i])
               /\ \A i \in DOMAIN m : m[i] \in DOMAIN trackKeys /\ trackKeys[m[i]] = fileKeys[i]
  BY <1>1, MatchedIs
<1>6. DOMAIN m = 1..n
  BY <1>3, <1>4, <1>5
<1>7. \A i \in 1..n : m[i] = slots[i]
  BY <1>2, <1>5, <1>6
<1>8. m = [i \in DOMAIN m |-> m[i]]
  BY <1>5 DEF Matched
<1> QED BY <1>5, <1>6, <1>7, <1>8

\* Where every file has its place a later rung adds nothing.
LEMMA NothingToAdd ==
  ASSUME NEW n, NEW p, NEW q, p = [i \in 1..n |-> p[i]], DOMAIN q \subseteq 1..n
  PROVE  Extend(p, q) = p
<1> DEFINE r == [i \in {i \in DOMAIN q : q[i] \notin Range(p)} |-> q[i]]
<1>1. DOMAIN p = 1..n /\ DOMAIN r \subseteq 1..n
  OBVIOUS
<1>2. Extend(p, q) = Over(p, r)
  BY DEF Extend
<1> HIDE DEF r
<1>3. Over(p, r) = [k \in DOMAIN p |-> p[k]]
  BY <1>1 DEF Over
<1> QED BY <1>1, <1>2, <1>3

\* A tagging that placed every file is what the editor, the page and the
\* tagger would each say of the files it leaves.
LEMMA AllAgree ==
  ASSUME NEW rel, IsRelease(rel), None \notin Range(RtIds(rel)),
         NEW n \in Nat, NEW files, DOMAIN files = 1..n,
         NEW slots, slots = [i \in 1..n |-> slots[i]],
         Pairing(slots, 1..n, DOMAIN rel.tracks), Range(slots) \subseteq Taggable(rel),
         \A i \in 1..n : slots[i] # None => Bears(files[i], rel, slots[i])
  PROVE  /\ Reasons(files, rel) = {}
         /\ Pairs(files, rel, Taggable(rel)) = slots
         /\ PageSlots(files, rel, rel.id) = slots
         /\ UnreviewedSlots(files, rel) = slots
<1> DEFINE k == Len(rel.tracks)
<1>1. k \in Nat /\ DOMAIN rel.tracks = 1..k /\ DOMAIN slots = 1..n
  BY ReleaseTracks
<1>2. \A i \in 1..n : slots[i] \in 1..k /\ slots[i] \in Taggable(rel) /\ slots[i] # None
  BY <1>1, NoneAssumption DEF Range, Taggable
<1>3. \A i \in 1..n : Bears(files[i], rel, slots[i])
  BY <1>2
<1>4. /\ DOMAIN RtIds(rel) = 1..k
      /\ \A m \in 1..k : RtIds(rel)[m] = rel.tracks[m].rtid /\ RtIds(rel)[m] # None
  BY <1>1 DEF RtIds, Range
<1>5. \A m, l \in 1..k : RtIds(rel)[m] = RtIds(rel)[l] => m = l \/ RtIds(rel)[m] = None
  BY <1>1, <1>4 DEF IsRelease
<1> HIDE DEF k
<1>6. /\ DOMAIN RtIdKeys(files) = 1..n
      /\ \A i \in 1..n : RtIdKeys(files)[i] = files[i].rtid
  BY KeysDomains
<1>7. \A i \in 1..n : /\ slots[i] # None
                      /\ RtIdKeys(files)[i] = RtIds(rel)[slots[i]] /\ RtIdKeys(files)[i] # None
  BY <1>2, <1>3, <1>4, <1>6 DEF Bears
<1>8. Matched(RtIdKeys(files), RtIds(rel)) = slots
  <2>1. Pairing(slots, 1..n, 1..k)
    BY <1>1
  <2> DEFINE ids == RtIds(rel)
             keys == RtIdKeys(files)
  <2>2. /\ DOMAIN ids = 1..k /\ DOMAIN keys = 1..n
        /\ \A i \in 1..n : slots[i] # None /\ keys[i] = ids[slots[i]] /\ keys[i] # None
        /\ \A m, l \in 1..k : ids[m] = ids[l] => m = l \/ ids[m] = None
    BY <1>4, <1>5, <1>6, <1>7
  <2> HIDE DEF ids, keys
  <2>3. k \in Nat
    BY <1>1
  <2>4. Matched(keys, ids) = slots
    BY ONLY n \in Nat, slots = [i \in 1..n |-> slots[i]], <2>1, <2>2, <2>3, OwnIds
  <2> QED BY <2>4 DEF ids, keys
<1>9. LiveRtIds(files, rel) = RtIdKeys(files)
  <2>1. \A i \in 1..n : LiveRtId(files[i], rel) = files[i].rtid
    BY <1>3 DEF LiveRtId, Bears
  <2> QED BY <2>1 DEF LiveRtIds, RtIdKeys
<1> DEFINE E == Taggable(rel)
<1>10. ByRtId(files, rel, E) = slots
  <2>1. {i \in DOMAIN slots : slots[i] \in E} = 1..n
    BY <1>1, <1>2
  <2> HIDE DEF E
  <2> QED BY <1>8, <1>9, <2>1 DEF ByRtId
<1> HIDE DEF E
<1>11. SettledPairs(files, rel, E) = slots
  <2>1. \A keys : DOMAIN Matched(LiveRecs(files, rel), keys) \subseteq 1..n
    BY DEF Matched, LiveRecs
  <2>2. ByRecording(slots, files, rel, E) = slots
    BY <2>1, NothingToAdd DEF ByRecording
  <2> DEFINE occurs(rec, number) == IF rec = None \/ number = None THEN None ELSE <<rec, number>>
             heard == [i \in DOMAIN files \ DOMAIN slots |->
                         occurs(LiveRecs(files, rel)[i], NumberOf(files[i], rel, E))]
             keys == [m \in Distinct(rel, E \ Range(slots)) |-> <<rel.tracks[m].rec, TrackNumber(rel, m)>>]
  <2>3. DOMAIN Matched(heard, keys) \subseteq 1..n
    <3>1. DOMAIN heard \subseteq 1..n
      OBVIOUS
    <3> HIDE DEF heard, keys
    <3> QED BY <3>1 DEF Matched
  <2>4. ByOccurrence(slots, files, rel, E) = Extend(slots, Matched(heard, keys))
    BY DEF ByOccurrence
  <2> HIDE DEF heard, keys
  <2>5. ByOccurrence(slots, files, rel, E) = slots
    BY <2>3, <2>4, NothingToAdd
  <2> QED BY <1>10, <2>2, <2>5 DEF SettledPairs
<1>12. Pairs(files, rel, E) = slots
  BY <1>1, <1>11 DEF Pairs, Slots
<1>13. Reasons(files, rel) = {}
  <2>1. \A i \in 1..n : PlaceReasons(files[i], slots[i], rel) = {}
    BY <1>2, <1>3 DEF PlaceReasons, Bears
  <2>2. ReasonsIn(files, rel, slots) = {}
    BY <2>1 DEF ReasonsIn
  <2> QED BY <1>12, <2>2 DEF Reasons, E
<1>14. Assign(files, rel.tracks) = slots
  <2> DEFINE placed == Named(files, rel.tracks)
             left == DOMAIN files \ DOMAIN placed
             free == InOrder(DOMAIN rel.tracks \ Range(placed))
             byOrder == [i \in {i \in left : Turn(left, i) <= Len(free)} |-> free[Turn(left, i)]]
  <2>1. placed = slots
    <3>1. RtIdKeys(rel.tracks) = RtIds(rel)
      BY DEF RtIdKeys, RtIds
    <3>2. DOMAIN Matched(NumberKeys(files), NumberKeys(rel.tracks)) \subseteq 1..n
      BY KeysDomains DEF Matched
    <3> QED BY <1>8, <3>1, <3>2, NothingToAdd DEF Named
  <2>2. Assign(files, rel.tracks) = Slots(files, Over(placed, byOrder))
    BY DEF Assign
  <2> HIDE DEF placed, byOrder
  <2>3. \A i \in 1..n : i \in DOMAIN Over(slots, byOrder) /\ Over(slots, byOrder)[i] = slots[i]
    BY <1>1 DEF Over
  <2> QED BY <2>1, <2>2, <2>3 DEF Slots
<1>15. PageSlots(files, rel, rel.id) = slots
  <2>1. \A i \in 1..n : files[i].rtid # None
    BY <1>6, <1>7
  <2> QED BY <1>1, <1>8, <1>14, <2>1 DEF PageSlots
<1> QED BY <1>12, <1>13, <1>14, <1>15 DEF UnreviewedSlots, E

\* The files on a disc take its tracks one each, and none takes the pregap's.
LEMMA FewerBeside ==
  ASSUME NEW rel, IsRelease(rel), NEW n \in Nat, NEW slots, Pairing(slots, 1..n, DOMAIN rel.tracks),
         \A i \in 1..n : slots[i] # None,
         NEW beside \in SUBSET (1..n), NEW gap \in DOMAIN rel.tracks,
         \A j \in beside : rel.tracks[slots[j]].disc = rel.tracks[gap].disc /\ slots[j] # gap
  PROVE  Cardinality(beside) < TrackTotal(rel, rel.tracks[gap].disc)
<1> DEFINE k == Len(rel.tracks)
           S == OnDisc(rel, rel.tracks[gap].disc)
           f == [j \in beside |-> slots[j]]
<1>1. k \in Nat /\ DOMAIN rel.tracks = 1..k
  BY ReleaseTracks
<1>2. S \in SUBSET (1..k) /\ gap \in S
  BY <1>1 DEF OnDisc
<1>3. IsFiniteSet(1..k) /\ IsFiniteSet(1..n)
  BY <1>1, FS_Interval
<1>4. \A j \in beside : slots[j] \in S
  BY DEF Pairing, OnDisc
<1> HIDE DEF S, k
<1>5. IsFiniteSet(S)
  BY <1>2, <1>3, FS_Subset
<1>6. IsFiniteSet(S \ {gap}) /\ Cardinality(S \ {gap}) = Cardinality(S) - 1
  BY <1>2, <1>5, FS_RemoveElement
<1>7. f \in Injection(beside, S \ {gap})
  <2>1. f \in [beside -> S \ {gap}]
    BY <1>4
  <2>2. \A i, j \in beside : f[i] = f[j] => i = j
    BY DEF Pairing
  <2> HIDE DEF f
  <2> QED BY <2>1, <2>2 DEF Injection, IsInjective
<1> HIDE DEF f
<1>8. IsFiniteSet(beside)
  BY <1>3, FS_Subset
<1>9. Cardinality(beside) <= Cardinality(S \ {gap})
  BY <1>6, <1>7, <1>8, FS_Injection
<1>10. Cardinality(beside) \in Nat /\ Cardinality(S) \in Nat
  BY <1>5, <1>8, FS_CardinalityType
<1> QED BY <1>6, <1>9, <1>10 DEF S, TrackTotal

\* Every file is tagged, and still readable and as long as it was.
AllTagged(files, old, rel, slots, all) ==
  \A i \in all : /\ slots[i] # None /\ Bears(files[i], rel, slots[i])
                 /\ files[i].len = old[i].len /\ files[i].ok

\* The offer's file is on its first track, and no file on the pregap.
PairsWith(o, slots, all) == slots[o.file] = o.first /\ \A i \in all : slots[i] # o.gap

\* A decision on an offer of the files before is borne out by those after.
LEMMA OfferBorneOut ==
  ASSUME NEW rel, IsRelease(rel), NEW n \in Nat, NEW old, DOMAIN old = 1..n,
         NEW files, DOMAIN files = 1..n, NEW slots, Pairing(slots, 1..n, DOMAIN rel.tracks),
         AllTagged(files, old, rel, slots, 1..n),
         NEW o \in Offers(old, rel), PairsWith(o, slots, 1..n),
         NEW decisions, Decision(old, rel, o) \in decisions
  PROVE  Decision(old, rel, o) \in Effective(files, decisions, rel.id)
<1> DEFINE d == Decision(old, rel, o)
           i == o.file
           gap == rel.tracks[o.gap]
           first == rel.tracks[o.first]
           beside == {j \in 1..n : files[j].ok /\ DiscOf(files[j]) = DiscOf(files[i])}
<1> USE DEF AllTagged, PairsWith
<1>1. o.gap \in DOMAIN rel.tracks /\ o.first \in DOMAIN rel.tracks /\ i \in 1..n
  BY DEF Offers
<1>2. gap.rtid # None /\ first.rtid # None /\ first.disc = gap.disc
  BY DEF Offers, Combined
<1>3. /\ d.release = rel.id /\ d.pregap = gap.rtid /\ d.track = first.rtid
      /\ d.len = old[i].len /\ d.total = TrackTotal(rel, first.disc)
  BY DEF Decision
<1>4. \A m, l \in DOMAIN rel.tracks :
        rel.tracks[m].rtid = rel.tracks[l].rtid => m = l \/ rel.tracks[m].rtid = None
  BY DEF IsRelease
<1>5. \A j \in 1..n : slots[j] \in DOMAIN rel.tracks /\ files[j].rtid = rel.tracks[slots[j]].rtid
  BY DEF Pairing, Bears
<1>6. \A j \in 1..n : files[j].rtid # d.pregap
  BY <1>1, <1>2, <1>3, <1>4, <1>5
<1>7. files[i].rtid = d.track /\ files[i].ok /\ files[i].album = rel.id /\ files[i].len = d.len
  BY <1>1, <1>3, <1>5 DEF Bears
<1>8. Once(RtIdKeys(files), d.track)
  <2>1. DOMAIN RtIdKeys(files) = 1..n /\ \A j \in 1..n : RtIdKeys(files)[j] = files[j].rtid
    BY KeysDomains
  <2>2. i \in 1..n /\ files[i].rtid = d.track
    BY <1>1, <1>7
  <2>3. ASSUME NEW j \in 1..n, files[j].rtid = d.track PROVE j = i
    <3>1. slots[j] = o.first
      BY <1>1, <1>2, <1>3, <1>4, <1>5, <2>3
    <3> QED BY <1>1, <3>1 DEF Pairing
  <2>4. \E x \in DOMAIN RtIdKeys(files) :
           /\ RtIdKeys(files)[x] = d.track
           /\ \A y \in DOMAIN RtIdKeys(files) : RtIdKeys(files)[y] = d.track => y = x
    BY ONLY <2>2, <2>1, <2>3
  <2>5. IsFiniteSet(DOMAIN RtIdKeys(files))
    BY <2>1, FS_Interval
  <2> HIDE DEF d
  <2> QED BY <2>4, <2>5, OnceIsOne
<1>9. \A j \in 1..n : DiscOf(files[j]) = rel.tracks[slots[j]].disc
  <2>1. \A j \in 1..n : files[j].disc = rel.tracks[slots[j]].disc /\ files[j].disc # None
    BY <1>5, NoneAssumption DEF Bears, IsRelease
  <2> QED BY <2>1 DEF DiscOf
<1>10. \A j \in beside : rel.tracks[slots[j]].disc = gap.disc /\ slots[j] # o.gap
  BY <1>1, <1>2, <1>9
<1>11. \A j \in beside : files[j].total = d.total
  BY <1>2, <1>3, <1>10 DEF Bears
<1>12. Cardinality(beside) < d.total
  <2>1. beside \in SUBSET (1..n)
    OBVIOUS
  <2> HIDE DEF beside
  <2>2. /\ \A j \in 1..n : slots[j] # None
        /\ \A j \in beside : rel.tracks[slots[j]].disc = rel.tracks[o.gap].disc /\ slots[j] # o.gap
    BY <1>10
  <2>3. Cardinality(beside) < TrackTotal(rel, rel.tracks[o.gap].disc)
    BY ONLY IsRelease(rel), n \in Nat, Pairing(slots, 1..n, DOMAIN rel.tracks), <1>1, <2>1, <2>2, FewerBeside
  <2> QED BY <1>2, <1>3, <2>3
<1> HIDE DEF d, gap, first
<1>13. \E x \in DOMAIN files :
          LET near == {j \in DOMAIN files : files[j].ok /\ DiscOf(files[j]) = DiscOf(files[x])}
          IN /\ files[x].rtid = d.track /\ Once(RtIdKeys(files), d.track)
             /\ files[x].ok /\ files[x].album = rel.id /\ files[x].len = d.len
             /\ \A j \in near : files[j].total = d.total
             /\ Cardinality(near) < d.total
  BY <1>1, <1>7, <1>8, <1>11, <1>12
<1> QED BY <1>3, <1>6, <1>13 DEF Effective, d

\* The decisions the ticked offers become, and what the next scan credits.
Decided(old, rel, offers, ticks) ==
  {Decision(old, rel, o) : o \in {o \in offers : rel.tracks[o.gap].rtid \in ticks}}
Credited(files, rel, decisions) == {d.pregap : d \in Effective(files, decisions, rel.id)}

\* Files of a release tagged by a review that ticked some of its offers.
Ticked(rel, n, old, files, slots, offers, ticks) ==
  /\ IsRelease(rel) /\ n \in Nat /\ DOMAIN old = 1..n /\ DOMAIN files = 1..n
  /\ Pairing(slots, 1..n, DOMAIN rel.tracks) /\ AllTagged(files, old, rel, slots, 1..n)
  /\ offers \subseteq Offers(old, rel) /\ \A o \in offers : PairsWith(o, slots, 1..n)
  /\ ticks \subseteq GapIds(rel, offers)

\* The ticks are credited, those and no others.
LEMMA TicksCredited ==
  ASSUME NEW rel, NEW n, NEW old, NEW files, NEW slots, NEW offers, NEW ticks,
         Ticked(rel, n, old, files, slots, offers, ticks)
  PROVE  Credited(files, rel, Decided(old, rel, offers, ticks)) = ticks
<1> USE DEF Ticked
<1> DEFINE decisions == Decided(old, rel, offers, ticks)
<1>1. \A o : Decision(old, rel, o).pregap = rel.tracks[o.gap].rtid
  BY DEF Decision
<1>2. \A d \in Effective(files, decisions, rel.id) : d \in decisions
  BY DEF Effective
<1>3. \A d \in decisions : d.pregap \in ticks
  BY <1>1 DEF Decided
<1>4. ASSUME NEW t \in ticks PROVE \E d \in Effective(files, decisions, rel.id) : d.pregap = t
  <2>1. PICK o \in offers : rel.tracks[o.gap].rtid = t
    BY DEF GapIds
  <2>2. Decision(old, rel, o) \in decisions
    BY <2>1 DEF Decided
  <2>3. o \in Offers(old, rel) /\ PairsWith(o, slots, 1..n)
    BY <2>1
  <2>4. /\ DOMAIN old = 1..n /\ DOMAIN files = 1..n
        /\ AllTagged(files, old, rel, slots, 1..n)
    OBVIOUS
  <2>5. Decision(old, rel, o) \in Effective(files, decisions, rel.id)
    <3>1. IsRelease(rel) /\ n \in Nat /\ Pairing(slots, 1..n, DOMAIN rel.tracks)
      OBVIOUS
    <3> QED BY ONLY <3>1, <2>2, <2>3, <2>4, OfferBorneOut
  <2> QED BY <1>1, <2>1, <2>5
<1> DEFINE E == Effective(files, decisions, rel.id)
<1>5. (\A d \in E : d.pregap \in ticks) /\ (\A t \in ticks : \E d \in E : d.pregap = t)
  BY <1>2, <1>3, <1>4
<1> HIDE DEF E
<1>6. {d.pregap : d \in E} = ticks
  BY <1>5
<1> QED BY <1>6 DEF E, Credited

-----------------------------------------------------------------------------
(* The files of folders *)

\* The files of some folders are those in the folders.
LEMMA FilesAre ==
  ASSUME NEW folders, AreFolders(on)
  PROVE  /\ Len(FilesOf(folders)) \in Nat /\ DOMAIN FilesOf(folders) = 1..Len(FilesOf(folders))
         /\ \A x : Holds(FilesOf(folders), x) <=> \E f \in Range(Folders) : f \in folders /\ Holds(on[f], x)
         /\ \A i \in DOMAIN FilesOf(folders) : IsFile(FilesOf(folders)[i])
<1> DEFINE S == UNION {Range(on[f]) : f \in Range(Folders)}
           seqs == [k \in DOMAIN Folders |-> IF Folders[k] \in folders THEN on[Folders[k]] ELSE << >>]
           n == Len(Folders)
<1>1. n \in Nat /\ DOMAIN Folders = 1..n /\ \A k \in 1..n : Folders[k] \in Range(Folders)
  BY ReviewAssumption DEF IsSequence, Range
<1>2. \A f \in Range(Folders) : on[f] \in Seq(S)
  <2> SUFFICES ASSUME NEW f \in Range(Folders) PROVE on[f] \in Seq(S)
    OBVIOUS
  <2>1. on[f] \in Seq(Range(on[f])) /\ Range(on[f]) \subseteq S
    BY DEF AreFolders, IsSequence
  <2> HIDE DEF S
  <2> QED BY <2>1
<1>3. seqs \in Seq(Seq(S))
  <2> HIDE DEF S
  <2>1. << >> \in Seq(S)
    OBVIOUS
  <2>2. seqs \in [1..n -> Seq(S)]
    BY <1>1, <1>2, <2>1
  <2> HIDE DEF seqs, n
  <2> QED BY <1>1, <2>2
<1>4. FilesOf(folders) = FlattenSeq(seqs)
  BY DEF FilesOf
<1>5. DOMAIN seqs = 1..n /\ \A k \in 1..n : seqs[k] = IF Folders[k] \in folders THEN on[Folders[k]] ELSE << >>
  BY <1>1
<1>6. /\ FilesOf(folders) \in Seq(S)
      /\ \A x : Holds(FilesOf(folders), x) <=> \E k \in DOMAIN seqs : Holds(seqs[k], x)
  <2> HIDE DEF S, seqs
  <2> QED BY <1>3, <1>4, Flattened
<1> HIDE DEF seqs, n
<1>7. ASSUME NEW x PROVE Holds(FilesOf(folders), x) <=> \E f \in Range(Folders) : f \in folders /\ Holds(on[f], x)
  <2>1. ~ Holds(<< >>, x)
    BY DEF Holds
  <2>2. ASSUME NEW k \in 1..n, Holds(seqs[k], x)
        PROVE  \E f \in Range(Folders) : f \in folders /\ Holds(on[f], x)
    BY <1>1, <1>5, <2>1, <2>2
  <2>3. ASSUME NEW f \in Range(Folders), f \in folders, Holds(on[f], x) PROVE \E k \in 1..n : Holds(seqs[k], x)
    <3>1. PICK k \in 1..n : Folders[k] = f
      BY <1>1 DEF Range
    <3> QED BY <1>5, <2>3, <3>1
  <2> QED BY <1>5, <1>6, <2>2, <2>3
<1>8. Len(FilesOf(folders)) \in Nat /\ DOMAIN FilesOf(folders) = 1..Len(FilesOf(folders))
  <2> HIDE DEF S
  <2> QED BY <1>6
<1>9. ASSUME NEW i \in DOMAIN FilesOf(folders) PROVE IsFile(FilesOf(folders)[i])
  <2>1. Holds(FilesOf(folders), FilesOf(folders)[i])
    BY DEF Holds
  <2>2. PICK f \in Range(Folders) : Holds(on[f], FilesOf(folders)[i])
    BY <1>7, <2>1
  <2> QED BY <2>2 DEF Holds, AreFolders, IsFile
<1> QED BY <1>7, <1>8, <1>9

LEMMA ReadAllIs ==
  ASSUME NEW folders, AreFolders(on)
  PROVE  LET raw == FilesOf(folders)
         IN /\ Len(ReadAll(raw)) = Len(raw) /\ Len(raw) \in Nat /\ DOMAIN ReadAll(raw) = 1..Len(raw)
            /\ DOMAIN raw = 1..Len(raw)
            /\ ReadAll(raw) = [i \in DOMAIN ReadAll(raw) |-> ReadAll(raw)[i]]
            /\ \A i \in 1..Len(raw) :
                 /\ IsFile(ReadAll(raw)[i]) /\ ReadAll(raw)[i].file = raw[i].file
                 /\ ReadAll(raw)[i].ok = raw[i].ok
<1> DEFINE raw == FilesOf(folders)
           r == ReadAll(raw)
<1>1. Len(raw) \in Nat /\ DOMAIN raw = 1..Len(raw) /\ \A i \in DOMAIN raw : IsFile(raw[i])
  BY FilesAre
<1> HIDE DEF raw
<1>2. DOMAIN r = DOMAIN raw /\ \A i \in DOMAIN raw : r[i] = Read(raw[i])
  BY DEF ReadAll
<1>3. r = [i \in DOMAIN r |-> r[i]] /\ Len(r) = Len(raw)
  BY <1>1 DEF ReadAll
<1>4. \A i \in DOMAIN raw : IsFile(r[i]) /\ r[i].file = raw[i].file /\ r[i].ok = raw[i].ok
  BY <1>1, <1>2, ReadIs
<1> HIDE DEF r
<1> QED BY <1>1, <1>2, <1>3, <1>4 DEF r, raw

-----------------------------------------------------------------------------
(* The invariant *)

\* MusicBrainz answers, and has answered, releases.
ReleasesOK == /\ mb \in Worlds /\ DOMAIN stored = Ids
              /\ \A id \in Ids : stored[id] = None \/ IsRelease(stored[id])

\* Whatever is tagged, renamed or filled in, the files stay apart.
FoldersOK == AreFolders(on) /\ mine \subseteq Range(Folders)

SideOK == {side.release, side.candidate} \subseteq Ids \cup {None}

PageFields == {"target", "rel", "files", "fill", "disk", "tracks", "ticks", "moves"}

\* A page holds readable files, and a row for each of them.
PageOK(p) ==
  /\ PageFields \subseteq DOMAIN p
  /\ p.target \in Ids /\ IsRelease(p.rel)
  /\ Len(p.files) \in Nat /\ DOMAIN p.files = 1..Len(p.files)
  /\ p.files = [i \in DOMAIN p.files |-> p.files[i]]
  /\ AllReadable(p.files)
  /\ DraftOK(p.disk, p.tracks, DOMAIN p.files, DOMAIN p.rel.tracks)

\* No tagging gave two files one track.
WroteOK == \A i, j \in DOMAIN wrote.files :
             i # j /\ wrote.files[i].rtid # None => wrote.files[i].rtid # wrote.files[j].rtid

ReviewInv == /\ ReleasesOK /\ FoldersOK /\ SideOK /\ WroteOK
             /\ page # Closed => PageOK(page)

LEMMA KnownReleases ==
  ASSUME ReleasesOK, NEW id \in Ids
  PROVE  IsRelease(Ask(id)) /\ IsRelease(Cached(id))
BY ReviewAssumption DEF ReleasesOK, Ask, Cached

LEMMA KeepOK ==
  ASSUME ReleasesOK, NEW rel, IsRelease(rel), Keep(rel), mb' = mb
  PROVE  ReleasesOK'
<1>1. rel.id \in Ids
  BY DEF IsRelease
<1> QED BY <1>1 DEF ReleasesOK, Keep

LEMMA PanelOK ==
  ASSUME AreFolders(on), NEW target \in Ids, NEW rel, IsRelease(rel), NEW fill,
         AllReadable(FilesOf(mine \cup Range(fill)))
  PROVE  PageOK(Panel(target, rel, fill))
<1> DEFINE raw == FilesOf(mine \cup Range(fill))
           files == ReadAll(raw)
           slots == Proposed(files, rel, side.release = target, fill)
           rows == Rows(files, rel, slots)
           p == Panel(target, rel, fill)
<1>1. p = Drawn(target, rel, fill, files, rows)
  BY DEF Panel, Paired
<1> HIDE DEF p
<1>2. /\ Len(raw) \in Nat /\ DOMAIN raw = 1..Len(raw)
      /\ Len(files) = Len(raw) /\ DOMAIN files = 1..Len(raw)
      /\ files = [i \in DOMAIN files |-> files[i]]
      /\ \A i \in 1..Len(raw) : files[i].ok = raw[i].ok
  BY ReadAllIs
<1>3. AllReadable(files)
  <2> HIDE DEF raw, files
  <2> QED BY <1>2 DEF AllReadable, raw
<1>4. Len(rel.tracks) \in Nat /\ DOMAIN rel.tracks = 1..Len(rel.tracks)
  BY ReleaseTracks
<1>5. DraftOK(rows.disk, rows.tracks, DOMAIN files, DOMAIN rel.tracks)
  <2> HIDE DEF raw, files
  <2>1. \A c : Pairing(Proposed(files, rel, c, fill), DOMAIN files, DOMAIN rel.tracks)
    BY <1>2, <1>4, ProposedPairing
  <2>2. Pairing(slots, DOMAIN files, DOMAIN rel.tracks)
    BY ONLY <2>1, Zenon
  <2> HIDE DEF slots
  <2> QED BY <1>2, <1>4, <2>2, RowsDraft
<1> HIDE DEF raw, files, slots, rows
<1>6. p.target = target /\ p.rel = rel /\ p.files = files /\ p.disk = rows.disk /\ p.tracks = rows.tracks
      /\ PageFields \subseteq DOMAIN p
  BY <1>1 DEF Drawn, Closed, PageFields
<1>7. PageOK(p)
  BY <1>2, <1>3, <1>5, <1>6 DEF PageOK
<1> QED BY <1>7 DEF p

LEMMA OpenStep ==
  ASSUME ReviewInv, OpenReview
  PROVE  ReviewInv'
<1>1. Target \in Ids
  BY DEF OpenReview, Target, ReviewInv, SideOK
<1>2. PICK rel \in {Cached(Target), Ask(Target)} :
        \E fill \in {AutoFill(Panel(Target, rel, << >>))} :
          /\ AllReadable(FilesOf(mine \cup Range(fill)))
          /\ page' = Panel(Target, rel, fill) /\ Keep(rel)
  BY DEF OpenReview
<1>3. PICK fill : /\ AllReadable(FilesOf(mine \cup Range(fill)))
                  /\ page' = Panel(Target, rel, fill) /\ Keep(rel)
  BY <1>2
<1>4. IsRelease(rel)
  BY <1>1, KnownReleases DEF ReviewInv
<1>5. PageOK(page')
  BY <1>1, <1>3, <1>4, PanelOK DEF ReviewInv, FoldersOK
<1>6. UNCHANGED <<on, mine, mb, side, wrote>>
  BY DEF OpenReview
<1>7. ReleasesOK'
  BY <1>3, <1>4, <1>6, KeepOK DEF ReviewInv
<1>8. FoldersOK' /\ SideOK' /\ WroteOK'
  BY <1>6 DEF ReviewInv, FoldersOK, SideOK, WroteOK, AreFolders
<1> QED BY <1>5, <1>7, <1>8 DEF ReviewInv

LEMMA FillStep ==
  ASSUME ReviewInv, ChangeFill
  PROVE  ReviewInv'
<1>1. page.target \in Ids
  BY DEF ChangeFill, ReviewInv, PageOK
<1> DEFINE rel == Cached(page.target)
<1>2. PICK fill : /\ AllReadable(FilesOf(mine \cup Range(fill)))
                  /\ page' = [Panel(page.target, rel, fill) EXCEPT !.moves = page.moves + 1]
                  /\ Keep(rel)
  BY DEF ChangeFill
<1>3. IsRelease(rel)
  BY <1>1, KnownReleases DEF ReviewInv
<1> HIDE DEF rel
<1>4. PageOK(page')
  <2> DEFINE p == Panel(page.target, rel, fill)
  <2>1. PageOK(p)
    BY <1>1, <1>2, <1>3, PanelOK DEF ReviewInv, FoldersOK
  <2> HIDE DEF p
  <2>2. page' = [p EXCEPT !.moves = page.moves + 1]
    BY <1>2 DEF p
  <2>3. /\ page'.target = p.target /\ page'.rel = p.rel /\ page'.files = p.files
        /\ page'.disk = p.disk /\ page'.tracks = p.tracks /\ PageFields \subseteq DOMAIN page'
    BY <2>1, <2>2 DEF PageOK, PageFields
  <2> QED BY <2>1, <2>3 DEF PageOK
<1>5. UNCHANGED <<on, mine, mb, side, wrote>>
  BY DEF ChangeFill
<1>6. ReleasesOK'
  BY <1>2, <1>3, <1>5, KeepOK DEF ReviewInv
<1>7. FoldersOK' /\ SideOK' /\ WroteOK'
  BY <1>5 DEF ReviewInv, FoldersOK, SideOK, WroteOK, AreFolders
<1> QED BY <1>4, <1>6, <1>7 DEF ReviewInv

\* Moves and ticks leave everything but the page.
LEMMA PageStep ==
  ASSUME ReviewInv, UNCHANGED <<on, mine, mb, stored, side, wrote>>, page' # Closed => PageOK(page')
  PROVE  ReviewInv'
BY DEF ReviewInv, ReleasesOK, FoldersOK, SideOK, WroteOK, AreFolders

\* The same page with other rows.
LEMMA Redrawn ==
  ASSUME NEW p, NEW q, PageOK(p), PageFields \subseteq DOMAIN q, q.target = p.target, q.rel = p.rel, q.files = p.files,
         DraftOK(q.disk, q.tracks, DOMAIN p.files, DOMAIN p.rel.tracks)
  PROVE  PageOK(q)
BY DEF PageOK

LEMMA MoveStep ==
  ASSUME ReviewInv, Move
  PROVE  ReviewInv'
<1> DEFINE moved == [page EXCEPT !.moves = @ + 1]
           n == Len(page.files)
           m == Len(page.rel.tracks)
<1>1. PageOK(page) /\ UNCHANGED <<on, mine, mb, stored, side, wrote>>
  BY DEF Move, ReviewInv
<1>2. DraftOK(page.disk, page.tracks, DOMAIN page.files, DOMAIN page.rel.tracks)
  BY <1>1 DEF PageOK
<1>3. /\ n \in Nat /\ m \in Nat /\ DOMAIN page.files = 1..n /\ DOMAIN page.rel.tracks = 1..m
  BY <1>1, ReleaseTracks DEF PageOK
<1>4. /\ PageFields \subseteq DOMAIN moved /\ moved.target = page.target /\ moved.rel = page.rel
      /\ moved.files = page.files /\ moved.disk = page.disk /\ moved.tracks = page.tracks
  BY <1>1 DEF PageOK, PageFields
<1>5. page' \in
          {[moved EXCEPT !.disk = Swapped(@, k)] : k \in 1..(Len(page.disk) - 1)}
          \cup {[moved EXCEPT !.tracks = Swapped(@, k)] : k \in 1..(Len(page.disk) - 1)}
          \cup (IF Len(page.disk) < n + m + 1
                THEN {[moved EXCEPT !.disk = Append(@, None), !.tracks = Append(@, None)]}
                ELSE {})
          \cup {[moved EXCEPT !.disk = [k \in 1..n |-> k] \o [k \in 1..m |-> None],
                              !.tracks = [k \in 1..n |-> None] \o [k \in 1..m |-> k]]}
  BY DEF Move
<1> HIDE DEF moved
<1>6. /\ page'.target = page.target /\ page'.rel = page.rel /\ page'.files = page.files
      /\ PageFields \subseteq DOMAIN page'
      /\ \/ \E k \in 1..(Len(page.disk) - 1) :
              page'.disk = Swapped(page.disk, k) /\ page'.tracks = page.tracks
         \/ \E k \in 1..(Len(page.disk) - 1) :
              page'.disk = page.disk /\ page'.tracks = Swapped(page.tracks, k)
         \/ page'.disk = Append(page.disk, None) /\ page'.tracks = Append(page.tracks, None)
         \/ /\ page'.disk = [k \in 1..n |-> k] \o [k \in 1..m |-> None]
            /\ page'.tracks = [k \in 1..n |-> None] \o [k \in 1..m |-> k]
  <2> HIDE DEF n, m
  <2> DEFINE a == [k \in 1..n |-> k] \o [k \in 1..m |-> None]
             b == [k \in 1..n |-> None] \o [k \in 1..m |-> k]
             c == Append(page.disk, None)
             d == Append(page.tracks, None)
  <2>1. \/ \E k \in 1..(Len(page.disk) - 1) : page' = [moved EXCEPT !.disk = Swapped(page.disk, k)]
        \/ \E k \in 1..(Len(page.disk) - 1) : page' = [moved EXCEPT !.tracks = Swapped(page.tracks, k)]
        \/ page' = [moved EXCEPT !.disk = c, !.tracks = d]
        \/ page' = [moved EXCEPT !.disk = a, !.tracks = b]
    <3> HIDE DEF a, b
    <3>1. page' \in
            {[moved EXCEPT !.disk = Swapped(@, k)] : k \in 1..(Len(page.disk) - 1)}
            \cup {[moved EXCEPT !.tracks = Swapped(@, k)] : k \in 1..(Len(page.disk) - 1)}
            \cup {[moved EXCEPT !.disk = c, !.tracks = d]}
            \cup {[moved EXCEPT !.disk = a, !.tracks = b]}
      BY <1>4, <1>5 DEF a, b
    <3> QED BY <1>4, <3>1
  <2> HIDE DEF a, b, c, d
  <2>2. CASE \E k \in 1..(Len(page.disk) - 1) : page' = [moved EXCEPT !.disk = Swapped(page.disk, k)]
    BY <1>4, <2>2 DEF PageFields
  <2>3. CASE \E k \in 1..(Len(page.disk) - 1) : page' = [moved EXCEPT !.tracks = Swapped(page.tracks, k)]
    BY <1>4, <2>3 DEF PageFields
  <2>4. CASE page' = [moved EXCEPT !.disk = c, !.tracks = d]
    <3>1. /\ page'.target = page.target /\ page'.rel = page.rel /\ page'.files = page.files
          /\ page'.disk = c /\ page'.tracks = d /\ PageFields \subseteq DOMAIN page'
      BY <1>4, <2>4 DEF PageFields
    <3> QED BY <3>1 DEF c, d
  <2>5. CASE page' = [moved EXCEPT !.disk = a, !.tracks = b]
    <3>1. /\ page'.target = page.target /\ page'.rel = page.rel /\ page'.files = page.files
          /\ page'.disk = a /\ page'.tracks = b /\ PageFields \subseteq DOMAIN page'
      BY <1>4, <2>5 DEF PageFields
    <3> QED BY <3>1 DEF a, b
  <2> QED BY <2>1, <2>2, <2>3, <2>4, <2>5
<1> HIDE DEF n, m
<1>7. DraftOK(page'.disk, page'.tracks, DOMAIN page.files, DOMAIN page.rel.tracks)
  <2>1. CASE \E k \in 1..(Len(page.disk) - 1) :
               page'.disk = Swapped(page.disk, k) /\ page'.tracks = page.tracks
    BY <1>2, <2>1, SwappedDraft
  <2>2. CASE \E k \in 1..(Len(page.disk) - 1) :
               page'.disk = page.disk /\ page'.tracks = Swapped(page.tracks, k)
    BY <1>2, <2>2, SwappedDraft
  <2>3. CASE page'.disk = Append(page.disk, None) /\ page'.tracks = Append(page.tracks, None)
    BY <1>2, <2>3, LongerDraft
  <2>4. CASE /\ page'.disk = [k \in 1..n |-> k] \o [k \in 1..m |-> None]
             /\ page'.tracks = [k \in 1..n |-> None] \o [k \in 1..m |-> k]
    BY <1>3, <2>4, ApartDraft
  <2> QED BY <1>6, <2>1, <2>2, <2>3, <2>4
<1>8. PageOK(page')
  BY <1>1, <1>6, <1>7, Redrawn
<1> QED BY <1>1, <1>8, PageStep

LEMMA TickStep ==
  ASSUME ReviewInv, Tick
  PROVE  ReviewInv'
<1>1. PageOK(page) /\ UNCHANGED <<on, mine, mb, stored, side, wrote>>
  BY DEF Tick, ReviewInv
<1>2. \E t : page' = [page EXCEPT !.ticks = t]
  BY DEF Tick
<1>3. /\ page'.target = page.target /\ page'.rel = page.rel /\ page'.files = page.files
      /\ page'.disk = page.disk /\ page'.tracks = page.tracks /\ PageFields \subseteq DOMAIN page'
  BY <1>1, <1>2 DEF PageOK, PageFields
<1>4. PageOK(page')
  BY <1>1, <1>3 DEF PageOK
<1> QED BY <1>1, <1>4, PageStep

LEMMA CloseStep ==
  ASSUME ReviewInv, Close
  PROVE  ReviewInv'
BY PageStep DEF Close

\* The tagged files in the places of the files they were made of.
LEMMA PutOK ==
  ASSUME AreFolders(on), NEW folders, NEW files, Put(folders, files),
         DOMAIN files = DOMAIN FilesOf(folders),
         \A i \in DOMAIN files : IsFile(files[i]) /\ files[i].file = FilesOf(folders)[i].file
  PROVE  AreFolders(on)'
<1> DEFINE raw == FilesOf(folders)
<1>1. /\ DOMAIN on' = DOMAIN on
      /\ \A f \in DOMAIN on : f \notin folders => on'[f] = on[f]
      /\ \A f \in DOMAIN on : f \in folders =>
           on'[f] = [k \in DOMAIN on[f] |-> CHOOSE x \in Range(files) : x.file = on[f][k].file]
  BY DEF Put
<1>2. ASSUME NEW f \in DOMAIN on, f \in folders, NEW k \in DOMAIN on[f]
      PROVE  on'[f][k] \in Range(files) /\ on'[f][k].file = on[f][k].file
  <2>1. Holds(raw, on[f][k])
    <3>1. f \in Range(Folders)
      BY DEF AreFolders
    <3>2. Holds(on[f], on[f][k])
      BY DEF Holds
    <3> HIDE DEF raw
    <3> QED BY <1>2, <3>1, <3>2, FilesAre DEF raw
  <2>2. PICK i \in DOMAIN raw : raw[i] = on[f][k]
    BY <2>1 DEF Holds
  <2>3. files[i] \in Range(files) /\ files[i].file = on[f][k].file
    BY <2>2 DEF Range
  <2>4. on'[f][k] = CHOOSE x \in Range(files) : x.file = on[f][k].file
    BY <1>1, <1>2
  <2> QED BY <2>3, <2>4
<1>3. \A x \in Range(files) : IsFile(x)
  BY DEF Range
<1>4. \A f \in DOMAIN on : DOMAIN on'[f] = DOMAIN on[f]
  BY <1>1
<1>5. ASSUME NEW f \in DOMAIN on, NEW k \in DOMAIN on[f]
      PROVE  IsFile(on'[f][k]) /\ on'[f][k].file = on[f][k].file
  <2>1. CASE f \in folders
    BY <1>2, <1>3, <2>1
  <2>2. CASE f \notin folders
    BY <1>1, <2>2 DEF AreFolders, IsFile
  <2> QED BY <2>1, <2>2
<1>6. ASSUME NEW f \in DOMAIN on PROVE on'[f] \in Seq(Range(on'[f]))
  <2>1. on[f] \in Seq(Range(on[f]))
    BY DEF AreFolders, IsSequence
  <2>2. CASE f \notin folders
    BY <1>1, <2>1, <2>2
  <2>3. CASE f \in folders
    <3> DEFINE n == Len(on[f])
               s == [k \in DOMAIN on[f] |-> CHOOSE x \in Range(files) : x.file = on[f][k].file]
    <3>1. n \in Nat /\ DOMAIN on[f] = 1..n
      BY <2>1
    <3>2. on'[f] = s
      BY <1>1, <2>3
    <3>3. s \in [1..n -> Range(s)]
      BY <3>1 DEF Range
    <3> HIDE DEF n, s
    <3>4. s \in Seq(Range(s))
      BY <3>1, <3>3
    <3> QED BY <3>2, <3>4
  <2> QED BY <2>2, <2>3
<1>7. ASSUME NEW f \in DOMAIN on, NEW g \in DOMAIN on, NEW i \in DOMAIN on[f], NEW j \in DOMAIN on[g],
             on'[f][i].file = on'[g][j].file
      PROVE  f = g /\ i = j
  BY <1>5, <1>7 DEF AreFolders
<1> QED BY <1>1, <1>4, <1>5, <1>6, <1>7 DEF AreFolders, IsSequence, IsFile

\* The tagger's own pairing places every file, and where a file's id says.
LEMMA AloneStep ==
  ASSUME ReviewInv, NEW rel, IsRelease(rel), NEW incomplete,
         ~ Refused(ReadAll(Files), rel, incomplete), TaggedAlone(ReadAll(Files), rel)
  PROVE  /\ FoldersOK' /\ SideOK' /\ WroteOK'
         /\ wrote'.by = "alone"
         /\ LET ids == RtIdKeys(ReadAll(Files))
            IN \A i \in DOMAIN ids :
                 ids[i] \in Range(RtIds(wrote'.rel)) \ {None} /\ Once(ids, ids[i]) =>
                   wrote'.files[i].rtid = ids[i]
<1> DEFINE raw == FilesOf(mine)
           files == ReadAll(raw)
           slots == Assign(files, rel.tracks)
           tagged == Tagged(files, rel, slots)
<1>1. Files = raw
  BY DEF Files
<1>2. Follows("alone", mine, tagged, rel, slots, side.pregaps, {})
  BY <1>1 DEF TaggedAlone, WrittenAlone, UnreviewedSlots
<1>3. /\ Len(raw) \in Nat /\ DOMAIN raw = 1..Len(raw)
      /\ Len(files) = Len(raw) /\ DOMAIN files = 1..Len(raw)
      /\ \A i \in 1..Len(raw) : IsFile(files[i]) /\ files[i].file = raw[i].file
  BY ReadAllIs DEF ReviewInv, FoldersOK
<1>4. Len(rel.tracks) \in Nat /\ DOMAIN rel.tracks = 1..Len(rel.tracks) /\ rel.id \in Ids
  BY ReleaseTracks
<1>5. Len(files) <= Len(rel.tracks)
  <2> HIDE DEF files, raw
  <2>1. ~ (Len(files) > Len(rel.tracks))
    BY <1>1 DEF Refused, files
  <2> QED BY <1>3, <1>4, <2>1
<1> HIDE DEF raw, files
<1>6. /\ DOMAIN slots = DOMAIN files
      /\ Pairing(slots, DOMAIN files, DOMAIN rel.tracks)
      /\ \A i \in DOMAIN files : slots[i] # None
      /\ \A i \in DOMAIN files :
              /\ files[i].rtid # None
              /\ Once(RtIdKeys(files), files[i].rtid) /\ Once(RtIdKeys(rel.tracks), files[i].rtid)
              => slots[i] # None /\ rel.tracks[slots[i]].rtid = files[i].rtid
  BY <1>3, <1>4, <1>5, Assigned
<1> HIDE DEF slots
<1>7. /\ DOMAIN tagged = DOMAIN files
      /\ \A i \in DOMAIN files : /\ IsFile(tagged[i]) /\ tagged[i].file = files[i].file
                                 /\ tagged[i].rtid = rel.tracks[slots[i]].rtid
  BY <1>3, <1>6, TaggedIs
<1>8. \A i, j \in DOMAIN files : i # j /\ tagged[i].rtid # None => tagged[i].rtid # tagged[j].rtid
  <2>1. /\ \A i \in DOMAIN files : IsFile(files[i])
        /\ \A i \in DOMAIN files : slots[i] = None => files[i].rtid = None
        /\ Pairing(slots, DOMAIN files, DOMAIN rel.tracks)
    BY <1>3, <1>6
  <2>2. \A i, j \in DOMAIN files :
          i # j /\ Tagged(files, rel, slots)[i].rtid # None
          => Tagged(files, rel, slots)[i].rtid # Tagged(files, rel, slots)[j].rtid
    BY ONLY IsRelease(rel), <2>1, OneTrackEach
  <2> QED BY <2>2
<1> HIDE DEF tagged
<1>9. /\ Put(mine, tagged) /\ mine' = mine /\ side'.release = rel.id /\ side'.candidate = None
      /\ wrote'.by = "alone" /\ wrote'.rel = rel /\ wrote'.files = tagged
  BY <1>2 DEF Follows
<1>10. AreFolders(on)'
  BY <1>3, <1>7, <1>9, PutOK DEF ReviewInv, FoldersOK, raw
<1>11. FoldersOK' /\ SideOK'
  BY <1>4, <1>9, <1>10 DEF ReviewInv, FoldersOK, SideOK
<1>12. WroteOK'
  BY <1>7, <1>8, <1>9 DEF WroteOK
<1>13. ASSUME NEW i \in DOMAIN files, files[i].rtid # None, files[i].rtid \in Range(RtIds(rel)),
              Once(RtIdKeys(files), files[i].rtid)
       PROVE  tagged[i].rtid = files[i].rtid
  <2> DEFINE keys == RtIdKeys(rel.tracks)
  <2>1. DOMAIN keys = DOMAIN rel.tracks /\ \A m \in DOMAIN rel.tracks : keys[m] = rel.tracks[m].rtid
    BY KeysDomains
  <2>2. PICK m \in DOMAIN rel.tracks : rel.tracks[m].rtid = files[i].rtid
    BY <1>13 DEF Range, RtIds
  <2>3. \A n \in DOMAIN rel.tracks : rel.tracks[n].rtid = files[i].rtid => m = n
    BY <1>13, <2>2 DEF IsRelease
  <2> HIDE DEF keys
  <2>4. IsFiniteSet(DOMAIN keys)
    <3>1. IsFiniteSet(1..Len(rel.tracks))
      BY <1>4, FS_Interval
    <3> QED BY <1>4, <2>1, <3>1
  <2>5. Once(keys, files[i].rtid)
    <3>1. \E x \in DOMAIN keys : /\ keys[x] = files[i].rtid
                                 /\ \A y \in DOMAIN keys : keys[y] = files[i].rtid => y = x
      BY <2>1, <2>2, <2>3
    <3> QED BY <2>4, <3>1, OnceIsOne
  <2> QED BY <1>6, <1>7, <1>13, <2>5 DEF keys
<1>14. DOMAIN RtIdKeys(files) = DOMAIN files /\ \A i \in DOMAIN files : RtIdKeys(files)[i] = files[i].rtid
  BY KeysDomains
<1>15. \A i \in DOMAIN RtIdKeys(files) :
         RtIdKeys(files)[i] \in Range(RtIds(wrote'.rel)) \ {None} /\ Once(RtIdKeys(files), RtIdKeys(files)[i]) =>
           wrote'.files[i].rtid = RtIdKeys(files)[i]
  BY <1>9, <1>13, <1>14
<1>16. ReadAll(Files) = files
  BY <1>1 DEF files
<1> QED BY <1>9, <1>11, <1>12, <1>15, <1>16

\* A confirmed draft: the page's files, its release and its rows.
LEMMA ConfirmStep ==
  ASSUME ReviewInv, Confirm
  PROVE  /\ ReviewInv'
         /\ DOMAIN wrote'.files = DOMAIN page.files /\ DOMAIN Mapping(page) = DOMAIN page.files
         /\ wrote'.by = "review"
         /\ \A i \in DOMAIN page.files :
              /\ wrote'.files[i].file = page.files[i].file
              /\ wrote'.files[i].rtid = IF Mapping(page)[i] = None THEN None
                                        ELSE page.rel.tracks[Mapping(page)[i]].rtid
<1> DEFINE folders == mine \cup Range(page.fill)
           raw == FilesOf(folders)
           files == ReadAll(raw)
           rel == stored[page.rel.id]
           slots == Mapping(page)
           marked == [i \in DOMAIN files |-> IF slots[i] = None THEN Unassigned(files[i], rel) ELSE files[i]]
           tagged == Tagged(marked, rel, slots)
<1>1. PageOK(page) /\ AreFolders(on)
  BY DEF Confirm, ReviewInv, FoldersOK
<1>2. /\ Current(page) /\ DOMAIN slots = DOMAIN files /\ Writable(files, rel, slots)
      /\ \E by, decisions, ticks : by = "review" /\ Follows(by, folders, tagged, rel, slots, decisions, ticks)
      /\ page' = Closed /\ UNCHANGED <<mb, stored, edits>>
  BY DEF Confirm
<1>3. raw = page.files /\ rel = page.rel /\ folders \subseteq Range(Folders)
  BY <1>2 DEF Current, ReviewInv, FoldersOK, Unclaimed, Range
<1>4. /\ Len(raw) \in Nat /\ DOMAIN raw = 1..Len(raw) /\ DOMAIN files = 1..Len(raw)
      /\ \A i \in DOMAIN raw : IsFile(raw[i])
      /\ files = [i \in DOMAIN raw |-> Read(raw[i])]
  BY <1>1, FilesAre, ReadAllIs DEF ReadAll
<1> HIDE DEF files, raw, folders, rel
<1>5. files = page.files
  <2>1. \A i \in DOMAIN raw : Read(raw[i]) = raw[i]
    BY <1>1, <1>3, <1>4, ReadIs DEF PageOK, AllReadable
  <2>2. files = [i \in DOMAIN raw |-> raw[i]]
    BY <1>4, <2>1
  <2> QED BY <1>1, <1>3, <2>2 DEF PageOK
<1>6. Pairing(slots, DOMAIN files, DOMAIN rel.tracks)
  BY <1>1, <1>3, <1>5, DraftMaps DEF PageOK
<1> HIDE DEF slots
<1>7. /\ DOMAIN marked = DOMAIN files
      /\ \A i \in DOMAIN files : /\ IsFile(marked[i]) /\ marked[i].file = files[i].file
                                 /\ slots[i] = None => marked[i].rtid = None
  <2> SUFFICES ASSUME NEW i \in DOMAIN files
               PROVE  /\ IsFile(marked[i]) /\ marked[i].file = files[i].file
                      /\ slots[i] = None => marked[i].rtid = None
    OBVIOUS
  <2>1. IsFile(files[i])
    BY <1>3, <1>4, <1>5
  <2>2. CASE slots[i] = None
    <3>1. marked[i] = Unassigned(files[i], rel)
      BY <2>2
    <3>2. files[i].rtid = None
      BY <1>2, <2>2 DEF Writable
    <3> HIDE DEF marked
    <3> QED BY <2>1, <3>1, <3>2, UnassignedIs
  <2>3. CASE slots[i] # None
    <3>1. marked[i] = files[i]
      BY <2>3
    <3> QED BY <2>1, <2>3, <3>1
  <2> QED BY <2>2, <2>3
<1> HIDE DEF marked
<1>8. /\ DOMAIN tagged = DOMAIN files
      /\ \A i \in DOMAIN files :
           /\ IsFile(tagged[i]) /\ tagged[i].file = files[i].file
           /\ tagged[i].rtid = IF slots[i] = None THEN None ELSE rel.tracks[slots[i]].rtid
  BY <1>7, TaggedIs
<1>9. IsRelease(rel) /\ rel.id \in Ids
  BY <1>1, <1>3, ReleaseTracks DEF PageOK
<1>10. \A i, j \in DOMAIN files : i # j /\ tagged[i].rtid # None => tagged[i].rtid # tagged[j].rtid
  BY <1>6, <1>7, <1>9, OneTrackEach
<1> HIDE DEF tagged
<1>11. /\ Put(folders, tagged) /\ mine' = folders /\ side'.release = rel.id /\ side'.candidate = None
       /\ wrote'.by = "review" /\ wrote'.files = tagged
  BY <1>2 DEF Follows
<1>12. AreFolders(on)'
  <2>1. /\ DOMAIN tagged = DOMAIN raw
        /\ \A i \in DOMAIN tagged : IsFile(tagged[i]) /\ tagged[i].file = raw[i].file
    BY <1>3, <1>4, <1>5, <1>8
  <2> QED BY <1>1, <1>11, <2>1, PutOK DEF raw
<1>13. FoldersOK' /\ SideOK'
  BY <1>3, <1>9, <1>11, <1>12 DEF FoldersOK, SideOK
<1>14. WroteOK'
  BY <1>8, <1>10, <1>11 DEF WroteOK
<1>15. ReleasesOK'
  BY <1>2 DEF ReviewInv, ReleasesOK
<1>16. ReviewInv'
  BY <1>2, <1>13, <1>14, <1>15 DEF ReviewInv
<1>17. DOMAIN slots = DOMAIN page.files
  BY <1>2, <1>5
<1> QED BY <1>3, <1>5, <1>8, <1>11, <1>16, <1>17 DEF slots

\* What a step that tags unreviewed must show.
KeepsIds ==
  LET ids == RtIdKeys(ReadAll(Files))
  IN \A i \in DOMAIN ids :
       ids[i] \in Range(RtIds(wrote'.rel)) \ {None} /\ Once(ids, ids[i]) => wrote'.files[i].rtid = ids[i]

LEMMA PageKept ==
  ASSUME ReviewInv, UNCHANGED page, ReleasesOK', FoldersOK', SideOK', WroteOK'
  PROVE  ReviewInv'
BY DEF ReviewInv, PageOK, DraftOK, AllReadable

LEMMA RetagStep ==
  ASSUME ReviewInv, Retag
  PROVE  ReviewInv' /\ wrote'.by = "alone" /\ KeepsIds
<1>1. side.release \in Ids
  BY DEF Retag, ReviewInv, SideOK
<1>2. PICK rel \in {Cached(side.release), Ask(side.release)} : \E incomplete \in BOOLEAN :
        /\ ~ Refused(ReadAll(Files), rel, incomplete)
        /\ TaggedAlone(ReadAll(Files), rel) /\ Keep(rel)
  BY DEF Retag
<1>3. PICK incomplete \in BOOLEAN :
        /\ ~ Refused(ReadAll(Files), rel, incomplete)
        /\ TaggedAlone(ReadAll(Files), rel) /\ Keep(rel)
  BY <1>2
<1>4. IsRelease(rel)
  BY <1>1, KnownReleases DEF ReviewInv
<1>5. FoldersOK' /\ SideOK' /\ WroteOK' /\ wrote'.by = "alone" /\ KeepsIds
  BY <1>3, <1>4, AloneStep DEF KeepsIds
<1>6. UNCHANGED <<mb, page>>
  BY DEF Retag
<1>7. ReleasesOK'
  BY <1>3, <1>4, <1>6, KeepOK DEF ReviewInv
<1> QED BY <1>5, <1>6, <1>7, PageKept

LEMMA LookupStep ==
  ASSUME ReviewInv, Lookup
  PROVE  ReviewInv' /\ ((wrote'.by = "alone" /\ KeepsIds) \/ wrote' = wrote)
<1> DEFINE files == ReadAll(Files)
           best == Best(files, {Cached(id) : id \in Linked})
<1>1. \A rel \in best : IsRelease(rel)
  <2>1. best \subseteq {Cached(id) : id \in Linked}
    BY DEF Best
  <2>2. \A id \in Linked : IsRelease(Cached(id))
    BY ReviewAssumption, KnownReleases DEF ReviewInv
  <2> HIDE DEF best
  <2> QED BY <2>1, <2>2
<1>2. Assessed(files, best) /\ UNCHANGED <<mb, page>>
  BY DEF Lookup
<1> HIDE DEF best, files
<1>3. PICK rel \in best :
        \/ /\ ~ Refused(files, Ask(rel.id), FALSE)
           /\ TaggedAlone(files, Ask(rel.id))
           /\ Keep(Ask(rel.id))
        \/ /\ side' = [side EXCEPT !.release = None, !.candidate = rel.id]
           /\ Keep(rel)
           /\ UNCHANGED <<on, mine, wrote>>
  BY <1>2 DEF Assessed
<1>4. IsRelease(rel) /\ rel.id \in Ids /\ IsRelease(Ask(rel.id))
  BY <1>1, ReleaseTracks, KnownReleases DEF ReviewInv
<1>5. CASE /\ ~ Refused(files, Ask(rel.id), FALSE)
           /\ TaggedAlone(files, Ask(rel.id))
           /\ Keep(Ask(rel.id))
  <2> DEFINE now == Ask(rel.id)
  <2>1. IsRelease(now) /\ ~ Refused(ReadAll(Files), now, FALSE) /\ TaggedAlone(ReadAll(Files), now) /\ Keep(now)
    BY <1>4, <1>5 DEF files
  <2> HIDE DEF now
  <2>2. FoldersOK' /\ SideOK' /\ WroteOK' /\ wrote'.by = "alone" /\ KeepsIds
    BY <2>1, AloneStep DEF KeepsIds
  <2>3. ReleasesOK'
    BY <1>2, <2>1, KeepOK DEF ReviewInv
  <2> QED BY <1>2, <2>2, <2>3, PageKept
<1>6. CASE /\ side' = [side EXCEPT !.release = None, !.candidate = rel.id]
           /\ Keep(rel)
           /\ UNCHANGED <<on, mine, wrote>>
  <2>1. FoldersOK' /\ WroteOK'
    BY <1>6 DEF ReviewInv, FoldersOK, WroteOK, AreFolders
  <2>2. SideOK'
    BY <1>4, <1>6 DEF ReviewInv, SideOK
  <2>3. ReleasesOK'
    BY <1>2, <1>4, <1>6, KeepOK DEF ReviewInv
  <2> QED BY <1>2, <1>6, <2>1, <2>2, <2>3, PageKept
<1> QED BY <1>3, <1>5, <1>6

\* Another program's tags change no file's audio, and a renaming moves whole files.
LEMMA OutsideStep ==
  ASSUME ReviewInv, Outside
  PROVE  ReviewInv'
<1>1. AreFolders(on) /\ UNCHANGED <<mine, mb, stored, side, page, wrote>>
  BY DEF Outside, ReviewInv, FoldersOK
<1>2. PICK f \in Range(Folders) :
        \/ \E i \in DOMAIN on[f], t \in Elsewhere : on' = [on EXCEPT ![f][i] = Over(t, @)]
        \/ \E i \in 1..(Len(on[f]) - 1) : on' = [on EXCEPT ![f] = Swapped(@, i)]
  BY DEF Outside
<1> DEFINE s == on[f]
           n == Len(s)
<1>3. f \in DOMAIN on /\ n \in Nat /\ DOMAIN s = 1..n /\ s \in [1..n -> Range(s)]
  BY <1>1 DEF AreFolders, IsSequence
<1>4. \A i \in DOMAIN s : IsFile(s[i])
  BY <1>1, <1>3 DEF AreFolders, IsFile
<1>5. \A g \in DOMAIN on, h \in DOMAIN on : \A i \in DOMAIN on[g], j \in DOMAIN on[h] :
        on[g][i].file = on[h][j].file => g = h /\ i = j
  BY <1>1 DEF AreFolders
<1>6. ASSUME NEW t, DOMAIN t = 1..n, t \in [1..n -> Range(t)], on' = [on EXCEPT ![f] = t],
             \A i \in 1..n : IsFile(t[i]),
             \A i \in 1..n : \E j \in 1..n : t[i].file = s[j].file,
             \A i, j \in 1..n : t[i].file = t[j].file => i = j
      PROVE  AreFolders(on)'
  <2>1. /\ DOMAIN on' = DOMAIN on /\ on'[f] = t
        /\ \A g \in DOMAIN on : g # f => on'[g] = on[g]
    BY <1>3, <1>6
  <2>2. t \in Seq(Range(t))
    BY <1>3, <1>6
  <2>3. ASSUME NEW g \in DOMAIN on
        PROVE  /\ on'[g] \in Seq(Range(on'[g]))
               /\ \A i \in DOMAIN on'[g] : IsFile(on'[g][i])
    <3>1. CASE g = f
      BY <1>6, <2>1, <2>2, <3>1
    <3>2. CASE g # f
      BY <1>1, <2>1, <3>2 DEF AreFolders, IsSequence, IsFile
    <3> QED BY <3>1, <3>2
  <2>4. ASSUME NEW g \in DOMAIN on, g # f, NEW i \in 1..n, NEW j \in DOMAIN on[g]
        PROVE  t[i].file # on[g][j].file
    <3>1. PICK k \in 1..n : t[i].file = s[k].file
      BY <1>6
    <3> QED BY <1>3, <1>5, <2>4, <3>1
  <2>5. ASSUME NEW g \in DOMAIN on, NEW h \in DOMAIN on, NEW i \in DOMAIN on'[g], NEW j \in DOMAIN on'[h],
               on'[g][i].file = on'[h][j].file
        PROVE  g = h /\ i = j
    <3>1. CASE g = f /\ h = f
      BY <1>6, <2>1, <2>5, <3>1
    <3>2. CASE g = f /\ h # f
      BY <1>6, <2>1, <2>4, <2>5, <3>2
    <3>3. CASE g # f /\ h = f
      BY <1>6, <2>1, <2>4, <2>5, <3>3
    <3>4. CASE g # f /\ h # f
      BY <1>5, <2>1, <2>5, <3>4
    <3> QED BY <3>1, <3>2, <3>3, <3>4
  <2> QED BY <1>1, <2>1, <2>3, <2>5 DEF AreFolders, IsSequence, IsFile
<1>7. ASSUME \E i \in DOMAIN on[f], t \in Elsewhere : on' = [on EXCEPT ![f][i] = Over(t, @)]
      PROVE  AreFolders(on)'
  <2>1. PICK i \in DOMAIN s, u \in Elsewhere : on' = [on EXCEPT ![f] = [s EXCEPT ![i] = Over(u, s[i])]]
    BY <1>3, <1>7
  <2> DEFINE x == Over(u, s[i])
             t == [s EXCEPT ![i] = x]
  <2>2. IsFile(x) /\ x.file = s[i].file
    <3>1. /\ DOMAIN x = DOMAIN u \cup DOMAIN s[i]
          /\ \A k \in DOMAIN s[i] \ DOMAIN u : x[k] = s[i][k]
      BY OverIs
    <3>2. "file" \notin DOMAIN u
      BY ReviewAssumption
    <3>3. "file" \in DOMAIN s[i]
      BY <1>4 DEF IsFile
    <3> HIDE DEF x
    <3> QED BY <1>4, <3>1, <3>2, <3>3 DEF IsFile
  <2> HIDE DEF x
  <2>3. DOMAIN t = 1..n /\ \A j \in 1..n : t[j] = IF j = i THEN x ELSE s[j]
    BY <1>3
  <2>4. t \in [1..n -> Range(t)]
    BY <1>3 DEF Range
  <2>5. on' = [on EXCEPT ![f] = t]
    BY <2>1 DEF x
  <2> HIDE DEF t
  <2>6. \A j \in 1..n : IsFile(t[j]) /\ t[j].file = s[j].file
    BY <1>3, <1>4, <2>2, <2>3
  <2>7. \A j, k \in 1..n : s[j].file = s[k].file => j = k
    BY <1>3, <1>5
  <2> QED BY <1>6, <2>3, <2>4, <2>5, <2>6, <2>7
<1>8. ASSUME \E i \in 1..(Len(on[f]) - 1) : on' = [on EXCEPT ![f] = Swapped(@, i)]
      PROVE  AreFolders(on)'
  <2>1. PICK i \in 1..(n - 1) : on' = [on EXCEPT ![f] = Swapped(s, i)]
    BY <1>3, <1>8
  <2> DEFINE t == Swapped(s, i)
  <2>2. i \in 1..n /\ i + 1 \in 1..n
    BY <1>3
  <2>3. /\ DOMAIN t = 1..n
        /\ \A j \in 1..n : t[j] = IF j = i THEN s[i + 1] ELSE IF j = i + 1 THEN s[i] ELSE s[j]
    BY <1>3, <2>2 DEF Swapped
  <2>4. t \in [1..n -> Range(t)]
    BY <1>3 DEF Range, Swapped
  <2>5. on' = [on EXCEPT ![f] = t]
    BY <2>1
  <2> HIDE DEF t
  <2>6. \A j \in 1..n : IsFile(t[j]) /\ \E k \in 1..n : t[j] = s[k]
    BY <1>3, <1>4, <2>2, <2>3
  <2>7. \A j, k \in 1..n : s[j].file = s[k].file => j = k
    BY <1>3, <1>5
  <2>8. ASSUME NEW j \in 1..n, NEW k \in 1..n, t[j].file = t[k].file PROVE j = k
    BY <2>2, <2>3, <2>7, <2>8
  <2>9. \A j \in 1..n : IsFile(t[j]) /\ \E k \in 1..n : t[j].file = s[k].file
    BY <2>6
  <2> QED BY <1>6, <2>3, <2>4, <2>5, <2>8, <2>9
<1>9. AreFolders(on)'
  BY <1>2, <1>7, <1>8
<1>10. FoldersOK'
  <2>1. (mine \subseteq Range(Folders))'
    BY <1>1 DEF ReviewInv, FoldersOK
  <2> QED BY <1>9, <2>1 DEF FoldersOK
<1>11. ReleasesOK' /\ SideOK' /\ WroteOK' /\ page' = page
  BY <1>1 DEF ReviewInv, ReleasesOK, SideOK, WroteOK
<1> QED BY <1>10, <1>11, PageKept

LEMMA EditsStep ==
  ASSUME ReviewInv, MusicBrainzEdits
  PROVE  ReviewInv'
BY PageKept DEF MusicBrainzEdits, ReviewInv, ReleasesOK, FoldersOK, SideOK, WroteOK, AreFolders

LEMMA RefreshStep ==
  ASSUME ReviewInv, Refresh
  PROVE  ReviewInv'
<1>1. PICK id \in Ids : Keep(Ask(id))
  BY DEF Refresh
<1>2. UNCHANGED <<on, mine, mb, side, page, wrote>>
  BY DEF Refresh
<1>3. IsRelease(Ask(id))
  BY KnownReleases DEF ReviewInv
<1> DEFINE rel == Ask(id)
<1> HIDE DEF rel
<1>4. ReleasesOK'
  BY <1>1, <1>2, <1>3, KeepOK DEF ReviewInv, rel
<1>5. FoldersOK' /\ SideOK' /\ WroteOK'
  BY <1>2 DEF ReviewInv, FoldersOK, SideOK, WroteOK, AreFolders
<1>6. page' = page
  BY <1>2
<1>7. FoldersOK' /\ SideOK' /\ WroteOK'
  BY <1>5
<1> QED BY ONLY ReviewInv, <1>4, <1>6, <1>7, PageKept

LEMMA Beginning == ASSUME Init PROVE ReviewInv
<1>1. AreFolders(on) /\ SideOK
  <2>1. PICK s \in Starts : on = s.on /\ side = s.side
    BY DEF Init
  <2>2. AreFolders(s.on) /\ {s.side.release, s.side.candidate} \subseteq Ids \cup {None}
    BY ReviewAssumption
  <2>3. AreFolders(on)
    BY <2>1, <2>2, Zenon
  <2>4. SideOK
    BY <2>1, <2>2 DEF SideOK
  <2> QED BY <2>3, <2>4
<1>2. mine \subseteq Range(Folders)
  <2>1. Len(Folders) \in Nat \ {0} /\ DOMAIN Folders = 1..Len(Folders)
    BY ReviewAssumption DEF IsSequence
  <2> QED BY <2>1 DEF Init, Range
<1>3. ReleasesOK
  BY DEF Init, ReleasesOK
<1>4. WroteOK
  BY DEF Init, WroteOK
<1> QED BY <1>1, <1>2, <1>3, <1>4 DEF Init, ReviewInv, FoldersOK

LEMMA ReviewStep ==
  ASSUME ReviewInv, [Next]_vars
  PROVE  ReviewInv'
<1>1. CASE Next
  BY <1>1, OpenStep, FillStep, MoveStep, TickStep, CloseStep, ConfirmStep, RetagStep, LookupStep,
     EditsStep, RefreshStep, OutsideStep DEF Next
<1>2. CASE UNCHANGED vars
  BY <1>2, PageKept DEF vars, ReviewInv, ReleasesOK, FoldersOK, SideOK, WroteOK, AreFolders
<1> QED BY <1>1, <1>2

\* Files stay apart, releases are releases, a page has a row for every file.
THEOREM ReviewHolds == Spec => []ReviewInv
<1>1. Init => ReviewInv
  BY Beginning
<1>2. ReviewInv /\ [Next]_vars => ReviewInv'
  BY ReviewStep
<1> QED BY <1>1, <1>2, PTL DEF Spec

\* No tagging leaves two files of the album claiming one track: neither the
\* rows a review may be moved into, nor the tagger's ladder, give a track twice.
THEOREM NoTrackTwice == Spec => []OneFilePerTrack
<1>1. ReviewInv => OneFilePerTrack
  BY DEF ReviewInv, WroteOK, OneFilePerTrack
<1> QED BY <1>1, ReviewHolds, PTL

\* A step that does not tag leaves the record of the last tagging.
LEMMA OnlyTaggingsWrite ==
  ASSUME [Next]_vars, ~ Confirm, ~ Retag, ~ Lookup
  PROVE  wrote' = wrote
BY DEF Next, vars, OpenReview, ChangeFill, Move, Tick, Close, MusicBrainzEdits, Refresh, Outside

\* Whatever was renamed or edited since the page was drawn, a confirmation
\* gives each file the track its row showed, and no other file a track.
THEOREM WritesAsReviewed == Spec => AsReviewed
<1> DEFINE shown(i) == IF Mapping(page)[i] = None THEN None ELSE page.rel.tracks[Mapping(page)[i]].rtid
           A == wrote'.count # wrote.count /\ wrote'.by = "review" =>
                  {<<wrote'.files[i].file, wrote'.files[i].rtid>> :
                     i \in {i \in DOMAIN wrote'.files : wrote'.files[i].rtid # None}}
                  = {<<page.files[i].file, shown(i)>> : i \in {i \in DOMAIN page.files : shown(i) # None}}
<1>1. ASSUME ReviewInv, [Next]_vars PROVE A
  <2>1. CASE Confirm
    <3>1. /\ DOMAIN wrote'.files = DOMAIN page.files
          /\ \A i \in DOMAIN page.files : /\ wrote'.files[i].file = page.files[i].file
                                          /\ wrote'.files[i].rtid = shown(i)
      BY <1>1, <2>1, ConfirmStep
    <3> HIDE DEF shown
    <3> QED BY <3>1
  <2>2. CASE Retag
    BY <1>1, <2>2, RetagStep
  <2>3. CASE Lookup
    BY <1>1, <2>3, LookupStep
  <2>4. CASE ~ Confirm /\ ~ Retag /\ ~ Lookup
    BY <1>1, <2>4, OnlyTaggingsWrite
  <2> QED BY <2>1, <2>2, <2>3, <2>4
<1>2. ReviewInv /\ [Next]_vars => [A]_vars
  BY <1>1
<1> QED BY <1>2, ReviewHolds, PTL DEF Spec, AsReviewed

\* An unreviewed tagging leaves a file on the track its own id names.
THEOREM IdsAreKept == Spec => IdsKept
<1> DEFINE A == wrote'.count # wrote.count /\ wrote'.by = "alone" => KeepsIds
<1>1. ASSUME ReviewInv, [Next]_vars PROVE A
  <2>1. CASE Confirm
    BY <1>1, <2>1, ConfirmStep
  <2>2. CASE Retag
    BY <1>1, <2>2, RetagStep
  <2>3. CASE Lookup
    BY <1>1, <2>3, LookupStep
  <2>4. CASE ~ Confirm /\ ~ Retag /\ ~ Lookup
    BY <1>1, <2>4, OnlyTaggingsWrite
  <2> QED BY <2>1, <2>2, <2>3, <2>4
<1>2. ReviewInv /\ [Next]_vars => [A]_vars
  BY <1>1
<1> QED BY <1>2, ReviewHolds, PTL DEF Spec, IdsKept, KeepsIds

-----------------------------------------------------------------------------
(* After a tagging *)

\* The tagging that placed every file left files all agree about.
SettledOK ==
  wrote.count # 0 /\ Range(wrote.slots) \subseteq Taggable(wrote.rel) /\ None \notin Range(RtIds(wrote.rel)) =>
    /\ Reasons(wrote.files, wrote.rel) = {}
    /\ Pairs(wrote.files, wrote.rel, Taggable(wrote.rel)) = wrote.slots
    /\ PageSlots(wrote.files, wrote.rel, wrote.rel.id) = wrote.slots
    /\ UnreviewedSlots(wrote.files, wrote.rel) = wrote.slots

\* A tagged album has its release, and no lookup takes that from it again.
ReleaseOK == wrote.count # 0 => side.release # None

CreditOK ==
  wrote.count # 0 /\ wrote.by = "review" /\ None \notin Range(wrote.slots) =>
    {d.pregap : d \in Effective(wrote.files, side.pregaps, side.release)} = wrote.ticks

TaggedInv == SettledOK /\ ReleaseOK /\ CreditOK

LEMMA AloneAgrees ==
  ASSUME ReviewInv, NEW rel, IsRelease(rel), TaggedAlone(ReadAll(Files), rel)
  PROVE  TaggedInv'
<1> DEFINE raw == FilesOf(mine)
           files == ReadAll(raw)
           slots == Assign(files, rel.tracks)
           tagged == Tagged(files, rel, slots)
           n == Len(raw)
<1>1. Files = raw
  BY DEF Files
<1>2. Follows("alone", mine, tagged, rel, slots, side.pregaps, {})
  BY <1>1 DEF TaggedAlone, WrittenAlone, UnreviewedSlots
<1>3. n \in Nat /\ DOMAIN files = 1..n /\ \A i \in 1..n : IsFile(files[i])
  BY ReadAllIs DEF ReviewInv, FoldersOK
<1>4. Len(rel.tracks) \in Nat /\ DOMAIN rel.tracks = 1..Len(rel.tracks) /\ rel.id # None
  BY ReleaseTracks, ReviewAssumption
<1> HIDE DEF n, raw, files
<1>5. Pairing(slots, 1..n, DOMAIN rel.tracks)
  BY <1>3, <1>4, Assigned
<1>6. slots = [i \in 1..n |-> slots[i]]
  BY <1>3 DEF Assign, Slots
<1> HIDE DEF slots
<1>7. DOMAIN tagged = 1..n /\ \A i \in 1..n : slots[i] # None => Bears(tagged[i], rel, slots[i])
  <2>1. DOMAIN tagged = 1..n
    BY <1>3 DEF Tagged
  <2> QED BY <1>3, <2>1, TaggedAllBear
<1> HIDE DEF tagged
<1>8. /\ wrote'.by = "alone" /\ wrote'.rel = rel /\ wrote'.files = tagged /\ wrote'.slots = slots
      /\ side'.release = rel.id
  BY <1>2 DEF Follows
<1>9. SettledOK'
  <2> SUFFICES ASSUME Range(slots) \subseteq Taggable(rel), None \notin Range(RtIds(rel))
               PROVE  /\ Reasons(tagged, rel) = {}
                      /\ Pairs(tagged, rel, Taggable(rel)) = slots
                      /\ PageSlots(tagged, rel, rel.id) = slots
                      /\ UnreviewedSlots(tagged, rel) = slots
    BY <1>8 DEF SettledOK
  <2> QED BY <1>3, <1>5, <1>6, <1>7, AllAgree
<1>10. ReleaseOK' /\ CreditOK'
  BY <1>4, <1>8 DEF ReleaseOK, CreditOK
<1> QED BY <1>9, <1>10 DEF TaggedInv

LEMMA ConfirmAgrees ==
  ASSUME ReviewInv, Confirm
  PROVE  TaggedInv'
<1> DEFINE folders == mine \cup Range(page.fill)
           raw == FilesOf(folders)
           files == ReadAll(raw)
           rel == stored[page.rel.id]
           slots == Mapping(page)
           offers == OffersOf(page, files, rel, side.release = rel.id)
           marked == [i \in DOMAIN files |-> IF slots[i] = None THEN Unassigned(files[i], rel) ELSE files[i]]
           tagged == Tagged(marked, rel, slots)
           decisions == {Decision(files, rel, o) : o \in {o \in offers : rel.tracks[o.gap].rtid \in page.ticks}}
           n == Len(raw)
<1>1. PageOK(page) /\ AreFolders(on)
  BY DEF Confirm, ReviewInv, FoldersOK
<1>2. /\ Current(page) /\ DOMAIN slots = DOMAIN files
      /\ page.ticks \subseteq GapIds(rel, offers)
      /\ Follows("review", folders, tagged, rel, slots, decisions, page.ticks)
  BY DEF Confirm
<1>3. raw = page.files /\ rel = page.rel
  BY <1>2 DEF Current
<1>4. /\ n \in Nat /\ DOMAIN files = 1..n
      /\ \A i \in 1..n : IsFile(files[i]) /\ files[i].ok = raw[i].ok
  BY <1>1, ReadAllIs
<1>5. /\ offers \in SUBSET Offers(files, rel)
      /\ \A o \in offers : slots[o.file] = o.first /\ o.gap \notin Range(slots)
  <2>1. \A c : /\ OffersOf(page, files, rel, c) \subseteq Offers(files, rel)
               /\ \A o \in OffersOf(page, files, rel, c) : slots[o.file] = o.first /\ o.gap \notin Range(slots)
    <3> HIDE DEF files, rel
    <3> QED BY DEF OffersOf
  <2> HIDE DEF files, rel, slots
  <2> QED BY ONLY <2>1, Zenon DEF offers
<1> HIDE DEF offers, folders, rel, files, raw
<1>6. IsRelease(rel) /\ rel.id # None /\ \A i \in 1..n : files[i].ok
  <2>1. n = Len(page.files) /\ \A i \in 1..n : raw[i].ok
    BY <1>1, <1>3 DEF PageOK, AllReadable
  <2>2. IsRelease(rel)
    BY <1>1, <1>3 DEF PageOK
  <2>3. rel.id # None
    BY <2>2, ReleaseTracks, ReviewAssumption
  <2>4. \A i \in 1..n : files[i].ok
    BY <1>4, <2>1
  <2> QED BY <2>2, <2>3, <2>4
<1>7. Pairing(slots, 1..n, DOMAIN rel.tracks) /\ DOMAIN slots = 1..n
  <2>1. Pairing(slots, DOMAIN page.files, DOMAIN rel.tracks) /\ DOMAIN slots = DOMAIN page.files
    BY <1>1, <1>3, DraftMaps DEF PageOK
  <2> QED BY <1>2, <1>4, <2>1
<1>8. slots = [i \in 1..n |-> slots[i]]
  BY <1>7 DEF Mapping
<1> HIDE DEF slots, n
<1>9. DOMAIN marked = 1..n /\ \A i \in 1..n : IsFile(marked[i])
  BY <1>4, UnassignedIs
<1>10. /\ DOMAIN tagged = 1..n
       /\ \A i \in 1..n : slots[i] # None => /\ Bears(tagged[i], rel, slots[i])
                                             /\ tagged[i].len = marked[i].len /\ tagged[i].ok = marked[i].ok
  <2> HIDE DEF marked
  <2>1. DOMAIN tagged = 1..n
    BY <1>9 DEF Tagged
  <2>2. \A i \in DOMAIN marked : IsFile(marked[i])
    BY <1>9
  <2> DEFINE t == Tagged(marked, rel, slots)
  <2>3. \A i \in DOMAIN marked : slots[i] # None =>
          Bears(t[i], rel, slots[i]) /\ t[i].len = marked[i].len /\ t[i].ok = marked[i].ok
    BY ONLY <2>2, TaggedAllBear
  <2> HIDE DEF t
  <2>4. \A i \in 1..n : slots[i] # None =>
          Bears(t[i], rel, slots[i]) /\ t[i].len = marked[i].len /\ t[i].ok = marked[i].ok
    BY ONLY <1>9, <2>3
  <2> QED BY <2>1, <2>4 DEF t
<1>11. \A i \in 1..n : slots[i] # None => marked[i] = files[i]
  BY <1>4
<1> HIDE DEF tagged, marked, decisions
<1>12. /\ wrote'.by = "review" /\ wrote'.rel = rel /\ wrote'.files = tagged /\ wrote'.slots = slots
       /\ wrote'.ticks = page.ticks /\ side'.release = rel.id /\ side'.pregaps = decisions
  BY <1>2 DEF Follows
<1>13. SettledOK'
  <2> SUFFICES ASSUME Range(slots) \subseteq Taggable(rel), None \notin Range(RtIds(rel))
               PROVE  /\ Reasons(tagged, rel) = {}
                      /\ Pairs(tagged, rel, Taggable(rel)) = slots
                      /\ PageSlots(tagged, rel, rel.id) = slots
                      /\ UnreviewedSlots(tagged, rel) = slots
    BY <1>12 DEF SettledOK
  <2> QED BY <1>4, <1>6, <1>7, <1>8, <1>10, AllAgree
<1>14. CreditOK'
  <2> SUFFICES ASSUME None \notin Range(slots)
               PROVE  {d.pregap : d \in Effective(tagged, decisions, rel.id)} = page.ticks
    BY <1>12 DEF CreditOK
  <2>1. \A i \in 1..n : slots[i] # None
    BY <1>7 DEF Range
  <2>2. AllTagged(tagged, files, rel, slots, 1..n)
    BY <1>6, <1>10, <1>11, <2>1 DEF AllTagged
  <2>3. \A o \in offers : PairsWith(o, slots, 1..n)
    BY <1>5, <1>7 DEF Range, PairsWith
  <2>4. decisions = {Decision(files, rel, o) : o \in {o \in offers : rel.tracks[o.gap].rtid \in page.ticks}}
    BY DEF decisions
  <2> DEFINE ticks == page.ticks
  <2>5. ticks \subseteq GapIds(rel, offers)
    BY <1>2
  <2> HIDE DEF ticks
  <2>6. {d.pregap : d \in Effective(tagged, decisions, rel.id)} = ticks
    <3>1. n \in Nat /\ DOMAIN files = 1..n /\ DOMAIN tagged = 1..n /\ IsRelease(rel)
      BY <1>4, <1>6, <1>10
    <3>2. Ticked(rel, n, files, tagged, slots, offers, ticks)
      BY ONLY <1>5, <1>7, <2>2, <2>3, <2>5, <3>1 DEF Ticked
    <3>3. Credited(tagged, rel, Decided(files, rel, offers, ticks)) = ticks
      BY ONLY <3>2, TicksCredited
    <3>4. decisions = Decided(files, rel, offers, ticks)
      BY <2>4 DEF ticks, Decided
    <3> QED BY <3>3, <3>4 DEF Credited
  <2> QED BY <2>6 DEF ticks
<1>15. ReleaseOK'
  BY <1>6, <1>12 DEF ReleaseOK
<1> QED BY <1>13, <1>14, <1>15 DEF TaggedInv

LEMMA RetagAgrees ==
  ASSUME ReviewInv, Retag
  PROVE  TaggedInv'
<1>1. PICK rel \in {Cached(side.release), Ask(side.release)} : TaggedAlone(ReadAll(Files), rel)
  BY DEF Retag
<1>2. side.release \in Ids
  BY DEF Retag, ReviewInv, SideOK
<1>3. IsRelease(rel)
  BY <1>2, KnownReleases DEF ReviewInv
<1> QED BY <1>1, <1>3, AloneAgrees

LEMMA LookupAgrees ==
  ASSUME ReviewInv, TaggedInv, Lookup
  PROVE  TaggedInv'
<1> DEFINE files == ReadAll(Files)
           best == Best(files, {Cached(id) : id \in Linked})
<1>1. \A rel \in best : IsRelease(rel)
  <2>1. best \subseteq {Cached(id) : id \in Linked}
    BY DEF Best
  <2>2. \A id \in Linked : IsRelease(Cached(id))
    BY ReviewAssumption, KnownReleases DEF ReviewInv
  <2> HIDE DEF best
  <2> QED BY <2>1, <2>2
<1>2. Assessed(files, best)
  BY DEF Lookup
<1> HIDE DEF best, files
<1>3. PICK rel \in best : TaggedAlone(files, Ask(rel.id)) \/ UNCHANGED wrote
  BY <1>2 DEF Assessed
<1>4. CASE TaggedAlone(files, Ask(rel.id))
  <2> DEFINE now == Ask(rel.id)
  <2>1. IsRelease(now) /\ TaggedAlone(ReadAll(Files), now)
    BY <1>1, <1>4, ReleaseTracks, KnownReleases DEF ReviewInv, files
  <2> HIDE DEF now
  <2> QED BY <2>1, AloneAgrees
<1>5. CASE UNCHANGED wrote
  <2>1. wrote.count = 0 /\ wrote' = wrote
    BY <1>5 DEF Lookup, TaggedInv, ReleaseOK
  <2> QED BY <2>1 DEF TaggedInv, SettledOK, ReleaseOK, CreditOK
<1> QED BY <1>3, <1>4, <1>5

\* A step that does not tag leaves the record of the last tagging.
LEMMA OthersAgree ==
  ASSUME TaggedInv, [Next]_vars, ~ Confirm, ~ Retag, ~ Lookup
  PROVE  TaggedInv'
<1>1. wrote' = wrote /\ side' = side
  BY DEF Next, vars, OpenReview, ChangeFill, Move, Tick, Close, MusicBrainzEdits, Refresh, Outside
<1> QED BY <1>1 DEF TaggedInv, SettledOK, ReleaseOK, CreditOK

LEMMA TaggedHolds == Spec => []TaggedInv
<1>1. Init => TaggedInv
  BY DEF Init, TaggedInv, SettledOK, ReleaseOK, CreditOK
<1>2. ReviewInv /\ TaggedInv /\ [Next]_vars => TaggedInv'
  BY ConfirmAgrees, RetagAgrees, LookupAgrees, OthersAgree
<1> QED BY <1>1, <1>2, ReviewHolds, PTL DEF Spec

\* Once every file is placed nothing is left to review: whoever reads the tags
\* of the files -- the editor, the page, the tagger -- reads the pairing that
\* was written, whatever the files wore before and whatever the release was.
THEOREM TaggingSettles == Spec => []Settled
<1>1. TaggedInv => Settled
  <2> SUFFICES ASSUME TaggedInv, wrote.count > 0 PROVE Settled
    BY DEF Settled, Untouched
  <2>1. wrote.count # 0
    OBVIOUS
  <2> QED BY <2>1 DEF TaggedInv, SettledOK, Settled
<1> QED BY <1>1, TaggedHolds, PTL

\* A review that placed every file is believed by the next scan: each ticked
\* pregap is credited to the file that has it, and nothing else is.
THEOREM TicksAreCredited == Spec => []PregapCredited
<1>1. TaggedInv => PregapCredited
  <2> SUFFICES ASSUME TaggedInv, wrote.count > 0 PROVE PregapCredited
    BY DEF PregapCredited, Untouched
  <2>1. wrote.count # 0
    OBVIOUS
  <2> QED BY <2>1 DEF TaggedInv, CreditOK, PregapCredited
<1> QED BY <1>1, TaggedHolds, PTL

=============================================================================

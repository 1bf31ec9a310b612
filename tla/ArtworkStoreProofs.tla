------------------------- MODULE ArtworkStoreProofs -------------------------
(***************************************************************************)
(* Theorems about ArtworkStore, for any library, any store and any bounds;  *)
(* the second one for artwork operations that do not overlap.               *)
(***************************************************************************)
EXTENDS ArtworkStore, FiniteSetTheorems, WellFoundedInduction, TLAPS

(***************************************************************************)
(* Types.                                                                   *)
(***************************************************************************)
LEMMA RerankedType ==
  ASSUME NEW rank, NEW S, IsFiniteSet(S)
  PROVE  Reranked(rank, S) \in [S -> Nat]
<1>1. ASSUME NEW i \in S PROVE Cardinality({j \in S : rank[j] < rank[i]}) \in Nat
  BY FS_Subset, FS_CardinalityType
<1> QED BY <1>1 DEF Reranked

\* The store holds images and ranks, whatever was just put into it.
LEMMA SubsetRanked ==
  ASSUME NEW rank, NEW S, S \subseteq Images
  PROVE  /\ Reranked(rank, S) \in [S -> Nat]
         /\ DOMAIN Reranked(rank, S) = S
<1>1. IsFiniteSet(S)
  BY ImagesAssumption, FS_Subset
<1> QED BY <1>1, RerankedType

LEMMA IdleType == Idle \in Job
  BY BoundsAssumption DEF Idle, Job

LEMMA StartedType ==
  ASSUME ArtTypeOK, actions < MaxActions, NEW plan \in SUBSET Change, NEW kind \in {"apply", "undo"}
  PROVE  /\ Started(kind, plan) \in Job
         /\ Started(kind, plan).step = "planned"
         /\ Started(kind, plan).action \in 1..MaxActions
<1>1. actions + 1 \in 1..MaxActions
  BY BoundsAssumption DEF ArtTypeOK
<1> QED BY <1>1 DEF Started, Job

LEMMA PlanType ==
  ASSUME ArtTypeOK, NEW album,
         NEW chosen \in [{t \in Targets : AlbumOf[t] = album} -> Art]
  PROVE  Plan(chosen) \in SUBSET Change
  BY DEF Plan, Change, ArtTypeOK

LEMMA RevertsType ==
  ASSUME ArtTypeOK, NEW album, NEW action
  PROVE  Reverts(album, action) \in SUBSET Change
<1>1. ASSUME NEW e \in 1..Len(history) PROVE history[e] \in Event
  BY DEF ArtTypeOK
<1> QED BY <1>1 DEF Reverts, Change, Event

\* A set of numbers has a least one.
LEMMA LeastNumber ==
  ASSUME NEW S \in SUBSET Nat, S # {}
  PROVE  \E n \in S : \A m \in S : n <= m
<1>1. PICK n \in S : \A m \in S : ~ (<<m, n>> \in OpToRel(<, Nat))
  BY NatLessThanWellFounded, WFMin
<1>2. ASSUME NEW m \in S, ~(n <= m) PROVE FALSE
  <2>1. m < n /\ <<m, n>> \in Nat \X Nat
    BY <1>2
  <2>2. <<m, n>> \in OpToRel(<, Nat)
    BY <2>1 DEF OpToRel
  <2> QED BY <1>1, <2>2
<1> QED BY <1>2

\* The change an operation is at is one of those it still has to make.
LEMMA NextChange ==
  ASSUME ArtTypeOK, NEW w \in Workers, AtWrite(w)
  PROVE  Next1(w) \in job[w].todo /\ Next1(w) \in Change
<1>1. job[w].todo \subseteq Change /\ job[w].todo # {}
  BY DEF ArtTypeOK, Job, AtWrite
<1>2. \A c \in Change : c.target \in Nat
  BY TargetsAssumption DEF Change
<1> DEFINE places == {c.target : c \in job[w].todo}
<1>3. places \in SUBSET Nat /\ places # {}
  BY <1>1, <1>2
<1>4. PICK n \in places : \A k \in places : n <= k
  <2> HIDE DEF places
  <2> QED BY <1>3, LeastNumber
<1>5. PICK c \in job[w].todo : c.target = n
  OBVIOUS
<1>6. \A d \in job[w].todo : c.target <= d.target
  BY <1>4, <1>5
<1> QED BY <1>1, <1>5, <1>6 DEF Next1

(***************************************************************************)
(* The type invariant, one lemma per kind of step.                          *)
(***************************************************************************)

\* An operation that records anything has an action id to record it under.
Numbered == \A w \in Workers : job[w].step # "idle" => job[w].action \in 1..MaxActions
TypeInv == ArtTypeOK /\ Numbered

\* What every step of one worker has to show of that worker's record.
LEMMA OneWorker ==
  ASSUME TypeInv, NEW w \in Workers, NEW j \in Job,
         j.step # "idle" => j.action \in 1..MaxActions,
         job' = [job EXCEPT ![w] = j]
  PROVE  job' \in [Workers -> Job] /\ Numbered'
<1>1. job' \in [Workers -> Job]
  BY DEF TypeInv, ArtTypeOK
<1>2. \A v \in Workers : job'[v] = IF v = w THEN j ELSE job[v]
  BY DEF TypeInv, ArtTypeOK
<1> QED BY <1>1, <1>2 DEF TypeInv, Numbered

LEMMA BeginTypes ==
  ASSUME TypeInv, NEW w \in Workers, Apply(w) \/ Undo(w)
  PROVE  TypeInv'
<1>1. \E plan \in SUBSET Change, kind \in {"apply", "undo"} :
        job' = [job EXCEPT ![w] = Started(kind, plan)]
  <2>1. CASE Apply(w)
    <3>1. PICK album \in Albums :
            \E chosen \in [{t \in Targets : AlbumOf[t] = album} -> Art] :
              job' = [job EXCEPT ![w] = Started("apply", Plan(chosen))]
      BY <2>1 DEF Apply
    <3> QED BY <3>1, PlanType DEF TypeInv
  <2>2. CASE Undo(w)
    <3>1. PICK album \in Albums, action \in 1..actions :
            job' = [job EXCEPT ![w] =
              Started("undo", {c \in Reverts(album, action) : art[c.target] = c.before})]
      BY <2>2 DEF Undo
    <3> QED BY <3>1, RevertsType DEF TypeInv
  <2> QED BY <2>1, <2>2
<1>2. actions < MaxActions /\ actions' = actions + 1
      /\ UNCHANGED <<art, store, history, faults>>
  BY DEF Apply, Undo
<1>3. PICK plan \in SUBSET Change, kind \in {"apply", "undo"} :
        job' = [job EXCEPT ![w] = Started(kind, plan)]
  BY <1>1
<1>4. job' \in [Workers -> Job] /\ Numbered'
  BY <1>2, <1>3, StartedType, OneWorker DEF TypeInv
<1> QED BY <1>2, <1>4, BoundsAssumption DEF TypeInv, ArtTypeOK, Kept

LEMMA DoomedAreImages ==
  ASSUME ArtTypeOK, NEW w \in Workers
  PROVE  DoomedImages(w) \subseteq Images
<1>1. job[w].todo \subseteq Change
  BY DEF ArtTypeOK, Job
<1>2. \A c \in Change : c.before \in Images \cup {NoImage}
  BY DEF Change, Art
<1> QED BY <1>1, <1>2 DEF DoomedImages, Doomed

LEMMA StoreTypes ==
  ASSUME TypeInv, NEW w \in Workers, Keep(w) \/ KeepFails(w)
  PROVE  TypeInv'
<1>1. PICK images \in SUBSET Images : StoreImages(w, images)
  BY DoomedAreImages DEF Keep, KeepFails, TypeInv
<1>2. Kept \cup images \subseteq Images
  BY DEF TypeInv, ArtTypeOK
<1>3. store' \in [Kept \cup images -> Nat] /\ Kept' = Kept \cup images
  BY <1>1, <1>2, SubsetRanked DEF StoreImages, Referenced, Kept
<1> DEFINE j == [job[w] EXCEPT !.step = "stored", !.kept = images]
<1>4. j \in Job /\ j.action = job[w].action
  BY DEF TypeInv, ArtTypeOK, Job
<1>5. job[w].step = "planned" /\ job' = [job EXCEPT ![w] = j]
  BY <1>1 DEF StoreImages, TypeInv, ArtTypeOK
<1>6. job' \in [Workers -> Job] /\ Numbered'
  <2>1. j.action \in 1..MaxActions
    BY <1>4, <1>5 DEF TypeInv, Numbered
  <2> HIDE DEF j
  <2> QED BY <1>4, <1>5, <2>1, OneWorker
<1>7. faults' \in 0..MaxFaults
  BY BoundsAssumption DEF Keep, KeepFails, TypeInv, ArtTypeOK
<1> QED BY <1>2, <1>3, <1>6, <1>7 DEF TypeInv, ArtTypeOK, Keep, KeepFails

LEMMA RetainTypes ==
  ASSUME TypeInv, NEW w \in Workers, Retain(w)
  PROVE  TypeInv'
<1>1. PICK left \in SUBSET Kept, own \in SUBSET job[w].kept :
        /\ store' = Reranked(store, left)
        /\ \/ job' = [job EXCEPT ![w] = Idle]
           \/ job' = [job EXCEPT ![w] = [job[w] EXCEPT !.step = "writing", !.kept = own]]
  <2> DEFINE gone == IF job[w].kept = {} THEN {} ELSE Evicted(ProtectedDigests \cup job[w].kept)
             left == Kept \ gone
             own == job[w].kept \cap left
  <2>1. left \in SUBSET Kept /\ own \in SUBSET job[w].kept
    OBVIOUS
  <2>2. /\ store' = Reranked(store, left)
        /\ \/ job' = [job EXCEPT ![w] = Idle]
           \/ job' = [job EXCEPT ![w] = [job[w] EXCEPT !.step = "writing", !.kept = own]]
    BY DEF Retain, TypeInv, ArtTypeOK
  <2> QED BY <2>1, <2>2
<1>2. left \subseteq Images
  BY DEF TypeInv, ArtTypeOK
<1>3. store' \in [left -> Nat] /\ Kept' = left
  BY <1>1, <1>2, SubsetRanked DEF Kept
<1> DEFINE j == [job[w] EXCEPT !.step = "writing", !.kept = own]
<1>4. j \in Job /\ j.action = job[w].action
  BY DEF TypeInv, ArtTypeOK, Job
<1>5. job[w].action \in 1..MaxActions
  BY DEF Retain, TypeInv, Numbered
<1>6. job' \in [Workers -> Job] /\ Numbered'
  <2>1. CASE job' = [job EXCEPT ![w] = Idle]
    <3>1. Idle.step = "idle"
      BY DEF Idle
    <3> QED BY <2>1, <3>1, IdleType, OneWorker
  <2>2. CASE job' = [job EXCEPT ![w] = j]
    <3> HIDE DEF j
    <3> QED BY <2>2, <1>4, <1>5, OneWorker
  <2> QED BY <1>1, <2>1, <2>2
<1> QED BY <1>2, <1>3, <1>6 DEF TypeInv, ArtTypeOK, Retain

LEMMA WriteTypes ==
  ASSUME TypeInv, NEW w \in Workers, Skip(w) \/ Replace(w) \/ PutBack(w)
  PROVE  TypeInv'
<1> DEFINE c == Next1(w)
<1>1. c \in job[w].todo /\ c \in Change /\ job[w].step = "writing"
  BY NextChange DEF TypeInv, Skip, Replace, PutBack, AtWrite
<1>2. art' \in [Targets -> Art]
  <2>1. c.target \in Targets /\ c.after \in Art
    BY <1>1 DEF Change
  <2>2. art' = art \/ art' = [art EXCEPT ![c.target] = c.after]
    BY DEF Skip, Replace, PutBack
  <2> HIDE DEF c
  <2> QED BY <2>1, <2>2 DEF TypeInv, ArtTypeOK
<1>3. \E j \in Job :
        /\ job' = [job EXCEPT ![w] = j]
        /\ j.action = job[w].action
  <2> DEFINE left == [job[w] EXCEPT !.todo = @ \ {c}]
             wrote == [job[w] EXCEPT !.step = "recording", !.todo = @ \ {c}, !.done = {c}]
  <2>1. left \in Job /\ left.action = job[w].action
    BY <1>1 DEF TypeInv, ArtTypeOK, Job
  <2>2. wrote \in Job /\ wrote.action = job[w].action
    BY <1>1 DEF TypeInv, ArtTypeOK, Job
  <2>3. job' = [job EXCEPT ![w] = left] \/ job' = [job EXCEPT ![w] = wrote]
    BY DEF Skip, Replace, PutBack, TypeInv, ArtTypeOK
  <2> HIDE DEF left, wrote
  <2> QED BY <2>1, <2>2, <2>3
<1>4. job[w].action \in 1..MaxActions
  BY <1>1 DEF TypeInv, Numbered
<1>5. job' \in [Workers -> Job] /\ Numbered'
  BY <1>3, <1>4, OneWorker
<1> QED BY <1>2, <1>5 DEF TypeInv, ArtTypeOK, Kept, Skip, Replace, PutBack

LEMMA RecordTypes ==
  ASSUME TypeInv, NEW w \in Workers, Record(w) \/ RecordFails(w)
  PROVE  TypeInv'
<1>1. job[w].step = "recording" /\ job[w] \in Job /\ job[w].action \in 1..MaxActions
  BY DEF TypeInv, ArtTypeOK, Numbered, Record, RecordFails
<1>2. history' \in Seq(Event)
  <2>1. CASE Record(w)
    <3>1. PICK c \in job[w].done :
            history' = Append(history,
              [album |-> AlbumOf[c.target], action |-> job[w].action,
               target |-> c.target, before |-> c.before, after |-> c.after])
      BY <2>1 DEF Record
    <3>2. c \in Change
      BY <1>1 DEF Job
    <3>3. [album |-> AlbumOf[c.target], action |-> job[w].action,
           target |-> c.target, before |-> c.before, after |-> c.after] \in Event
      BY <1>1, <3>2 DEF Event, Change, Albums
    <3> QED BY <3>1, <3>3 DEF TypeInv, ArtTypeOK
  <2>2. CASE RecordFails(w)
    BY <2>2 DEF RecordFails, TypeInv, ArtTypeOK
  <2> QED BY <2>1, <2>2
<1> DEFINE j == [job[w] EXCEPT !.step = "writing", !.done = {}]
<1>3. j \in Job /\ j.action = job[w].action
  BY <1>1 DEF Job
<1>4. job' = [job EXCEPT ![w] = j]
  BY DEF Record, RecordFails, TypeInv, ArtTypeOK
<1>5. job' \in [Workers -> Job] /\ Numbered'
  <2> HIDE DEF j
  <2> QED BY <1>1, <1>3, <1>4, OneWorker
<1>6. faults' \in 0..MaxFaults
  BY BoundsAssumption DEF Record, RecordFails, TypeInv, ArtTypeOK
<1> QED BY <1>2, <1>5, <1>6 DEF TypeInv, ArtTypeOK, Kept, Record, RecordFails

LEMMA EndTypes ==
  ASSUME TypeInv, NEW w \in Workers, WriteFails(w) \/ Finish(w)
  PROVE  TypeInv'
<1>1. job[w].step = "writing" /\ job[w] \in Job /\ job[w].action \in 1..MaxActions
  BY DEF TypeInv, ArtTypeOK, Numbered, WriteFails, Finish, AtWrite
<1> DEFINE j == [job[w] EXCEPT !.todo = @ \ {Next1(w)}]
<1>2. j \in Job /\ j.action = job[w].action
  BY <1>1 DEF Job
<1>3. job' = [job EXCEPT ![w] = Idle] \/ job' = [job EXCEPT ![w] = j]
  <2>1. CASE Finish(w)
    BY <2>1 DEF Finish
  <2>2. CASE WriteFails(w)
    <3>1. CASE job[w].kind = "undo"
      BY <2>2, <3>1 DEF WriteFails, TypeInv, ArtTypeOK
    <3>2. CASE job[w].kind # "undo"
      BY <2>2, <3>2 DEF WriteFails, TypeInv, ArtTypeOK
    <3> QED BY <3>1, <3>2
  <2> QED BY <2>1, <2>2
<1>4. job' \in [Workers -> Job] /\ Numbered'
  <2>1. Idle.step = "idle"
    BY DEF Idle
  <2> HIDE DEF j
  <2> QED BY <1>1, <1>2, <1>3, <2>1, IdleType, OneWorker
<1>5. faults' \in 0..MaxFaults
  BY BoundsAssumption DEF WriteFails, Finish, TypeInv, ArtTypeOK
<1> QED BY <1>4, <1>5 DEF TypeInv, ArtTypeOK, Kept, WriteFails, Finish

LEMMA OutsideTypes ==
  ASSUME TypeInv, Edit \/ Crash
  PROVE  TypeInv'
<1>1. faults' \in 0..MaxFaults
  BY BoundsAssumption DEF Edit, Crash, TypeInv, ArtTypeOK
<1>2. CASE Edit
  BY <1>1, <1>2 DEF Edit, TypeInv, ArtTypeOK, Numbered, Kept
<1>3. CASE Crash
  <2>1. job' \in [Workers -> Job] /\ Numbered'
    <3>1. Idle.step = "idle"
      BY DEF Idle
    <3> QED BY <1>3, <3>1, IdleType DEF Crash, Numbered
  <2> QED BY <1>1, <1>3, <2>1 DEF Crash, TypeInv, ArtTypeOK, Kept
<1> QED BY <1>2, <1>3

LEMMA TypeInvHolds == Spec => []TypeInv
<1>1. Init => TypeInv
  <2> SUFFICES ASSUME Init PROVE TypeInv
    OBVIOUS
  <2>1. Idle.step = "idle"
    BY DEF Idle
  <2>2. Numbered
    BY <2>1 DEF Init, Numbered
  <2>3. job \in [Workers -> Job]
    BY IdleType DEF Init
  <2>4. Kept = {} /\ store \in [Kept -> Nat]
    BY DEF Init, Kept
  <2>5. history \in Seq(Event)
    BY DEF Init
  <2> QED BY <2>2, <2>3, <2>4, <2>5, BoundsAssumption DEF Init, TypeInv, ArtTypeOK
<1>2. TypeInv /\ [Next]_vars => TypeInv'
  <2> SUFFICES ASSUME TypeInv, [Next]_vars PROVE TypeInv'
    OBVIOUS
  <2>1. ASSUME NEW w \in Workers, Work(w) PROVE TypeInv'
    BY <2>1, BeginTypes, StoreTypes, RetainTypes, WriteTypes, RecordTypes, EndTypes DEF Work
  <2>2. CASE Edit \/ Crash
    BY <2>2, OutsideTypes
  <2>3. CASE UNCHANGED vars
    BY <2>3 DEF vars, TypeInv, ArtTypeOK, Numbered, Kept
  <2> QED BY <2>1, <2>2, <2>3 DEF Next
<1> QED BY <1>1, <1>2, PTL DEF Spec

\* The type invariant: what is kept are images, each record names an album of
\* the library and an action that began, each operation has changes of one plan
\* in hand (ArtTypeOK).
THEOREM TypeCorrect == Spec => []ArtTypeOK
<1>1. TypeInv => ArtTypeOK
  BY DEF TypeInv
<1> QED BY <1>1, TypeInvHolds, PTL

(***************************************************************************)
(* No backup, no replacement, for operations that do not overlap.           *)
(***************************************************************************)

\* What an operation was told is kept is kept until its last write: the cap is
\* enforced by itself only, before the first of them.
StillKept ==
  \A w \in Workers : job[w].step \in {"writing", "recording"} => job[w].kept \subseteq Kept

OneAtATime == \A v, w \in Workers : v = w
StoreInv == TypeInv /\ StillKept

LEMMA StillKeptHolds ==
  ASSUME OneAtATime, StoreInv, [Next]_vars
  PROVE  StillKept'
<1> USE DEF StoreInv
<1>1. ASSUME NEW w \in Workers, Apply(w) \/ Undo(w) PROVE StillKept'
  <2>1. PICK kind, plan : job' = [job EXCEPT ![w] = Started(kind, plan)]
    BY <1>1 DEF Apply, Undo
  <2>2. job'[w].step = "planned"
    BY <2>1 DEF Started, TypeInv, ArtTypeOK
  <2> QED BY <2>2, OneAtATime DEF OneAtATime, StillKept
<1>2. ASSUME NEW w \in Workers, Keep(w) \/ KeepFails(w) PROVE StillKept'
  <2>1. PICK images : StoreImages(w, images)
    BY <1>2 DEF Keep, KeepFails
  <2>2. job'[w].step = "stored"
    BY <2>1 DEF StoreImages, TypeInv, ArtTypeOK, Job
  <2> QED BY <2>2, OneAtATime DEF OneAtATime, StillKept
<1>3. ASSUME NEW w \in Workers, Retain(w) PROVE StillKept'
  <2> DEFINE gone == IF job[w].kept = {} THEN {} ELSE Evicted(ProtectedDigests \cup job[w].kept)
             left == Kept \ gone
  <2>1. store' = Reranked(store, left)
    BY <1>3 DEF Retain
  <2>2. Kept' = left
    BY <2>1 DEF Reranked, Kept
  <2>3. \/ job' = [job EXCEPT ![w] = Idle]
        \/ job' = [job EXCEPT ![w] =
             [job[w] EXCEPT !.step = "writing", !.kept = job[w].kept \cap left]]
    BY <1>3 DEF Retain, TypeInv, ArtTypeOK
  <2> HIDE DEF left
  <2>4. job'[w].step = "idle" \/ job'[w].kept = job[w].kept \cap left
    <3>1. CASE job' = [job EXCEPT ![w] = Idle]
      BY <3>1 DEF Idle, TypeInv, ArtTypeOK
    <3>2. CASE job' = [job EXCEPT ![w] =
                 [job[w] EXCEPT !.step = "writing", !.kept = job[w].kept \cap left]]
      <4> DEFINE j == [job[w] EXCEPT !.step = "writing", !.kept = job[w].kept \cap left]
      <4>1. job[w] \in Job
        BY DEF TypeInv, ArtTypeOK
      <4>2. j.kept = job[w].kept \cap left
        BY <4>1 DEF Job
      <4>3. job'[w] = j
        BY <3>2 DEF TypeInv, ArtTypeOK
      <4> QED BY <4>2, <4>3
    <3> QED BY <2>3, <3>1, <3>2
  <2>5. ASSUME NEW v \in Workers, job'[v].step \in {"writing", "recording"}
        PROVE  job'[v].kept \subseteq Kept'
    <3>1. v = w
      BY OneAtATime DEF OneAtATime
    <3> QED BY <2>2, <2>4, <2>5, <3>1
  <2> QED BY <2>5 DEF StillKept
<1>4. ASSUME NEW w \in Workers,
             Skip(w) \/ Replace(w) \/ Record(w) \/ RecordFails(w) \/ PutBack(w) \/ WriteFails(w) \/ Finish(w)
      PROVE  StillKept'
  <2>1. Kept' = Kept /\ job[w].step \in {"writing", "recording"}
    BY <1>4 DEF Kept, Skip, Replace, Record, RecordFails, PutBack, WriteFails, Finish, AtWrite
  <2>2. job'[w].step = "idle" \/ job'[w].kept = job[w].kept
    BY <1>4 DEF Idle, Skip, Replace, Record, RecordFails, PutBack, WriteFails, Finish,
                TypeInv, ArtTypeOK, Job
  <2> QED BY <2>1, <2>2, OneAtATime DEF OneAtATime, StillKept
<1>5. CASE Edit \/ Crash \/ UNCHANGED vars
  BY <1>5 DEF Edit, Crash, vars, Idle, StillKept, Kept
<1> QED BY <1>1, <1>2, <1>3, <1>4, <1>5 DEF Next, Work

\* What step writes an image, and under which licence.
LEMMA LicensedWrite ==
  ASSUME OneAtATime, StoreInv, [Next]_vars, NEW w \in Workers,
         job[w].step = "writing", job'[w].step = "recording",
         NEW c \in job'[w].done
  PROVE  c.before \in Kept \cup {NoImage}
<1> USE DEF StoreInv
<1>1. Work(w)
  <2>1. ~ UNCHANGED vars /\ ~ Edit
    BY DEF vars, Edit
  <2>2. ~ Crash
    BY DEF Crash, Idle
  <2> QED BY <2>1, <2>2, OneAtATime DEF Next, OneAtATime
<1>2. Replace(w)
  <2>1. ~ Apply(w) /\ ~ Undo(w) /\ ~ Keep(w) /\ ~ KeepFails(w) /\ ~ Retain(w)
        /\ ~ Record(w) /\ ~ RecordFails(w)
    BY DEF Apply, Undo, Keep, KeepFails, StoreImages, Retain, Record, RecordFails
  <2>2. ~ Skip(w) /\ ~ PutBack(w)
    BY DEF Skip, PutBack, TypeInv, ArtTypeOK, Job
  <2>3. ~ WriteFails(w)
    <3>1. SUFFICES ASSUME WriteFails(w) PROVE FALSE
      OBVIOUS
    <3>2. CASE job[w].kind = "undo"
      BY <3>1, <3>2 DEF WriteFails, Idle, TypeInv, ArtTypeOK
    <3>3. CASE job[w].kind # "undo"
      BY <3>1, <3>3 DEF WriteFails, TypeInv, ArtTypeOK, Job
    <3> QED BY <3>2, <3>3
  <2>4. ~ Finish(w)
    BY DEF Finish, Idle, TypeInv, ArtTypeOK
  <2> QED BY <1>1, <2>1, <2>2, <2>3, <2>4 DEF Work
<1>3. c = Next1(w) /\ Next1(w).before \in job[w].kept \cup {NoImage}
  BY <1>2 DEF Replace, Licensed, TypeInv, ArtTypeOK, Job
<1> QED BY <1>3 DEF StillKept

\* No backup, no replacement: while one artwork operation runs at a time, no image
\* is overwritten of which the store has no copy, whatever the cap, the failures
\* and the edits (NoBackupNoReplacement).
THEOREM BackedUpAlone ==
  ASSUME OneAtATime
  PROVE  Spec => NoBackupNoReplacement
<1>1. Init => StillKept
  BY DEF Init, StillKept, Idle
<1>2. StillKept /\ TypeInv /\ [Next]_vars => StillKept'
  BY StillKeptHolds DEF StoreInv
<1>3. TypeInv /\ StillKept /\ [Next]_vars =>
        [\A w \in Workers :
          job[w].step = "writing" /\ job'[w].step = "recording"
            => \A c \in job'[w].done : c.before \in Kept \cup {NoImage}]_vars
  BY LicensedWrite DEF StoreInv
<1> QED BY <1>1, <1>2, <1>3, TypeInvHolds, PTL DEF Spec, NoBackupNoReplacement


(***************************************************************************)
(* The retention promise, for operations that do not overlap.               *)
(***************************************************************************)
Events == 1..Len(history)

\* What is promised, and what an operation has just kept, fits the cap.  Past it
\* the promise is not one that can be kept: the oldest goes (enforce_cap).
Fits ==
  \A w \in Workers :
    job[w].step = "stored" => Cardinality(ProtectedDigests \cup job[w].kept) <= Cap

\* Actions are recorded in the order they began, a change changes something, and
\* what is recorded has been kept.
OrderInv ==
  /\ \A e \in Events : history[e].action <= actions /\ history[e].before # history[e].after
  /\ \A e, f \in Events : e <= f => history[e].action <= history[f].action
  /\ \A w \in Workers : job[w].step # "idle" => job[w].action = actions
  /\ \A w \in Workers : \A c \in job[w].todo \cup job[w].done : c.before # c.after
DoneKept ==
  \A w \in Workers :
    job[w].step = "recording" => \A c \in job[w].done : c.before \in Kept \cup {NoImage}
Promised == ProtectedDigests \subseteq Kept

\* A finite set has a finite image, which is no larger.
LEMMA FiniteImage ==
  ASSUME NEW S, IsFiniteSet(S), NEW f
  PROVE  /\ IsFiniteSet({f[x] : x \in S})
         /\ Cardinality({f[x] : x \in S}) <= Cardinality(S)
         /\ Cardinality({f[x] : x \in S}) \in Nat
<1> DEFINE T == {f[x] : x \in S}
           g == [x \in S |-> f[x]]
<1>1. g \in Surjection(S, T)
  BY DEF Surjection
<1>2. IsFiniteSet(T) /\ Cardinality(T) <= Cardinality(S)
  <2> HIDE DEF g, T
  <2> QED BY <1>1, FS_Surjection
<1> QED BY <1>2, FS_CardinalityType

\* No more of a finite set's part than of the whole.
LEMMA FinitePart ==
  ASSUME NEW S, IsFiniteSet(S), NEW T, T \subseteq S
  PROVE  /\ IsFiniteSet(T) /\ Cardinality(T) \in Nat /\ Cardinality(S) \in Nat
         /\ Cardinality(T) <= Cardinality(S)
  BY FS_Subset, FS_CardinalityType

LEMMA EventType ==
  ASSUME TypeInv, NEW e \in Events
  PROVE  /\ history[e] \in Event /\ history[e].action \in Nat /\ e \in Nat
         /\ history[e].before \in Art
<1>1. history[e] \in Event /\ e \in Nat
  BY DEF TypeInv, ArtTypeOK, Events
<1>2. history[e].action \in 1..MaxActions /\ history[e].before \in Art
  BY <1>1 DEF Event
<1> QED BY <1>1, <1>2

\* Nothing is newer than what the last action replaced.
LEMMA LastIsNewest ==
  ASSUME TypeInv, OrderInv, NEW e \in Replacements, history[e].action = actions
  PROVE  Newer(e) = {}
<1>1. SUFFICES ASSUME NEW f \in Replacements, history[f].album = history[e].album,
                      \A g \in UnitEvents(e) : g < f, Unit(f) # Unit(e)
               PROVE  FALSE
  BY DEF Newer
<1>2. e \in Events /\ f \in Events /\ e < f
  BY <1>1 DEF Replacements, Events, UnitEvents
<1>3. history[e].action <= history[f].action /\ history[f].action <= actions
  BY <1>2, EventType DEF OrderInv
<1>4. history[f].action \in Nat /\ actions \in Nat
  BY <1>2, EventType DEF TypeInv, ArtTypeOK
<1>5. history[f].action = actions
  BY <1>3, <1>4
<1> QED BY <1>1, <1>5 DEF Unit

\* A new record protects what it replaced, and nothing else that was not.
LEMMA RecordedProtected ==
  ASSUME TypeInv, OrderInv, NEW x \in Event, x.action = actions, history' = Append(history, x)
  PROVE  ProtectedDigests' \subseteq ProtectedDigests \cup ({x.before} \ {NoImage})
<1>1. PICK n \in Nat :
        /\ history'[n] = x
        /\ \A e \in Events : history'[e] = history[e] /\ e # n
        /\ 1..Len(history') = Events \cup {n}
  <2>1. Len(history) + 1 \in Nat /\ history'[Len(history) + 1] = x
    BY DEF TypeInv, ArtTypeOK
  <2>2. \A e \in Events : history'[e] = history[e] /\ e # Len(history) + 1
    BY DEF TypeInv, ArtTypeOK, Events
  <2>3. 1..Len(history') = Events \cup {Len(history) + 1}
    BY DEF TypeInv, ArtTypeOK, Events
  <2> QED BY <2>1, <2>2, <2>3
<1>2. /\ Replacements' \subseteq Replacements \cup {n} /\ Replacements \subseteq Replacements'
      /\ Replacements \subseteq Events /\ n \notin Replacements
      /\ Replacements' \subseteq 1..Len(history')
  BY <1>1 DEF Replacements, Events
<1>3. \A e \in Events : Unit(e)' = Unit(e)
  BY <1>1 DEF Unit
<1>4. IsFiniteSet(Replacements')
  <2>1. IsFiniteSet(1..Len(history'))
    BY <1>1, FS_Interval DEF TypeInv, ArtTypeOK
  <2> QED BY <1>2, <2>1, FS_Subset
<1>5. ASSUME NEW e \in Replacements
      PROVE  IsFiniteSet(Newer(e)') /\ Cardinality(Newer(e)') \in Nat
  <2> DEFINE unit == [f \in Replacements' |-> Unit(f)']
             units == {unit[f] : f \in Replacements'}
  <2>1. IsFiniteSet(units)
    <3> HIDE DEF unit
    <3> QED BY <1>4, FiniteImage
  <2>2. Newer(e)' \subseteq units
    BY DEF Newer
  <2> HIDE DEF units
  <2> QED BY <2>1, <2>2, FinitePart
<1>6. ASSUME NEW e \in Replacements, Cardinality(Newer(e)') < KeepPerAlbum
      PROVE  Cardinality(Newer(e)) < KeepPerAlbum
  <2>1. e \in Events
    BY <1>2
  <2>2. CASE history[e].action = actions
    <3>1. Cardinality(Newer(e)) = 0
      BY <2>2, LastIsNewest, FS_EmptySet
    <3> QED BY <1>5, <1>6, <3>1, BoundsAssumption
  <2>3. CASE history[e].action # actions
    <3>1. Unit(n)' # Unit(e)'
      <4>1. history'[n].action = actions /\ history'[e].action = history[e].action
        BY <1>1, <2>1
      <4> QED BY <2>3, <4>1 DEF Unit
    <3>2. UnitEvents(e)' \subseteq UnitEvents(e)
      <4> SUFFICES ASSUME NEW f \in Replacements', Unit(f)' = Unit(e)'
                   PROVE  f \in UnitEvents(e)
        BY DEF UnitEvents
      <4>1. f \in Replacements /\ f \in Events
        BY <1>2, <3>1
      <4>2. Unit(f) = Unit(e)
        BY <1>3, <2>1, <4>1
      <4> QED BY <4>1, <4>2 DEF UnitEvents
    <3>3. Newer(e) \subseteq Newer(e)'
      <4> SUFFICES ASSUME NEW f \in Replacements, history[f].album = history[e].album,
                          \A g \in UnitEvents(e) : g < f, Unit(f) # Unit(e)
                   PROVE  Unit(f) \in Newer(e)'
        BY DEF Newer
      <4>1. f \in Events /\ f \in Replacements'
        BY <1>2
      <4>2. history'[f].album = history'[e].album /\ Unit(f)' = Unit(f) /\ Unit(e)' = Unit(e)
        BY <1>1, <1>3, <2>1, <4>1
      <4>3. \A g \in UnitEvents(e)' : g < f
        BY <3>2
      <4> QED BY <4>1, <4>2, <4>3 DEF Newer
    <3>4. Cardinality(Newer(e)) <= Cardinality(Newer(e)') /\ Cardinality(Newer(e)) \in Nat
      BY <1>5, <3>3, FinitePart
    <3> QED BY <1>5, <1>6, <3>4, BoundsAssumption
  <2> QED BY <2>2, <2>3
<1>7. ASSUME NEW e \in Replacements', Cardinality(Newer(e)') < KeepPerAlbum
      PROVE  history'[e].before \in ProtectedDigests \cup ({x.before} \ {NoImage})
  <2>1. CASE e = n
    <3>1. history'[e].before # NoImage
      BY DEF Replacements
    <3> QED BY <1>1, <2>1, <3>1
  <2>2. CASE e # n
    <3>1. e \in Replacements /\ e \in Events
      BY <1>2, <2>2
    <3>2. Cardinality(Newer(e)) < KeepPerAlbum
      BY <1>6, <1>7, <3>1
    <3> QED BY <1>1, <3>1, <3>2 DEF ProtectedDigests
  <2> QED BY <2>1, <2>2
<1> QED BY <1>7 DEF ProtectedDigests

\* The cap never costs what is protected, as long as it holds that much.
LEMMA ProtectedStay ==
  ASSUME TypeInv, NEW P, IsFiniteSet(P), Cardinality(P) <= Cap, NEW i \in P \cap Kept
  PROVE  i \notin Evicted(P)
<1> DEFINE Sooner(a, b) ==
             \/ a \notin P /\ b \in P
             \/ (a \in P <=> b \in P) /\ store[a] < store[b]
           sooner == {j \in Kept : Sooner(j, i)}
<1>1. IsFiniteSet(Kept)
  BY ImagesAssumption, FS_Subset DEF TypeInv, ArtTypeOK
<1>2. Kept \ P \subseteq sooner
  OBVIOUS
<1>3. sooner \subseteq Kept
  OBVIOUS
<1> HIDE DEF sooner
<1>4. Cardinality(Kept \ P) = Cardinality(Kept) - Cardinality(Kept \cap P)
  BY <1>1, FS_Difference
<1>5. /\ Cardinality(Kept \cap P) \in Nat /\ Cardinality(P) \in Nat
      /\ Cardinality(Kept \cap P) <= Cardinality(P)
  BY FinitePart
<1>6. /\ Cardinality(sooner) \in Nat /\ Cardinality(Kept) \in Nat /\ IsFiniteSet(sooner)
  BY <1>1, <1>3, FinitePart
<1>7. Cardinality(Kept \ P) <= Cardinality(sooner)
  BY <1>2, <1>6, FinitePart
<1>8. ~(Cardinality(sooner) < Cardinality(Kept) - Cap)
  BY <1>4, <1>5, <1>6, <1>7, BoundsAssumption
<1> QED BY <1>8 DEF Evicted, sooner

\* Every step keeps the order of the records, what is done and what is promised.
PromiseInv == StoreInv /\ OrderInv /\ DoneKept /\ Promised

\* While one operation runs, its record is the only one that is not idle.
LEMMA OneRecord ==
  ASSUME OneAtATime, TypeInv, NEW w \in Workers, NEW j, job' = [job EXCEPT ![w] = j]
  PROVE  \A v \in Workers : job'[v] = j
  BY OneAtATime DEF OneAtATime, TypeInv, ArtTypeOK

\* What is recorded stays so where the history does not change.
LEMMA SameHistory ==
  ASSUME OrderInv, history' = history, actions' \in {actions, actions + 1}, TypeInv
  PROVE  /\ \A e \in Events' : history'[e].action <= actions' /\ history'[e].before # history'[e].after
         /\ \A e, f \in Events' : e <= f => history'[e].action <= history'[f].action
         /\ ProtectedDigests' = ProtectedDigests
<1>1. actions \in Nat
  BY DEF TypeInv, ArtTypeOK
<1>2. Events' = Events
  BY DEF Events
<1>3. ASSUME NEW e \in Events
      PROVE  history[e].action <= actions' /\ history[e].before # history[e].after
  <2>1. history[e].action \in Nat /\ history[e].action <= actions
    BY EventType DEF OrderInv
  <2> QED BY <1>1, <2>1 DEF OrderInv
<1>4. ProtectedDigests' = ProtectedDigests
  BY DEF ProtectedDigests, Newer, UnitEvents, Unit, Replacements
<1> QED BY <1>2, <1>3, <1>4 DEF OrderInv

LEMMA BeginPromise ==
  ASSUME OneAtATime, PromiseInv, NEW w \in Workers, Apply(w) \/ Undo(w)
  PROVE  OrderInv' /\ DoneKept' /\ Promised'
<1> USE DEF PromiseInv, StoreInv
<1>1. PICK plan, kind :
        /\ job' = [job EXCEPT ![w] = Started(kind, plan)]
        /\ \A c \in plan : c.before # c.after
  <2>1. CASE Apply(w)
    <3>1. PICK album \in Albums :
            \E chosen \in [{t \in Targets : AlbumOf[t] = album} -> Art] :
              job' = [job EXCEPT ![w] = Started("apply", Plan(chosen))]
      BY <2>1 DEF Apply
    <3>2. \A chosen : \A c \in Plan(chosen) : c.before # c.after
      BY DEF Plan
    <3> QED BY <3>1, <3>2
  <2>2. CASE Undo(w)
    <3>1. PICK album \in Albums, action \in 1..actions :
            job' = [job EXCEPT ![w] =
              Started("undo", {c \in Reverts(album, action) : art[c.target] = c.before})]
      BY <2>2 DEF Undo
    <3>2. ASSUME NEW c \in Reverts(album, action) PROVE c.before # c.after
      <4>1. PICK e \in Events : c.before = history[e].after /\ c.after = history[e].before
        BY DEF Reverts, Events
      <4>2. history[e].before # history[e].after
        BY DEF OrderInv
      <4> QED BY <4>1, <4>2
    <3> DEFINE standing == {c \in Reverts(album, action) : art[c.target] = c.before}
    <3>3. /\ job' = [job EXCEPT ![w] = Started("undo", standing)]
          /\ \A c \in standing : c.before # c.after
      BY <3>1, <3>2
    <3> HIDE DEF standing
    <3> QED BY <3>3
  <2> QED BY <2>1, <2>2
<1>2. /\ actions' = actions + 1 /\ UNCHANGED <<art, store, history, faults>>
  BY DEF Apply, Undo
<1>3. \A v \in Workers : job'[v] = Started(kind, plan)
  BY <1>1, OneRecord
<1>4. /\ Started(kind, plan).step = "planned" /\ Started(kind, plan).action = actions + 1
      /\ Started(kind, plan).todo = plan /\ Started(kind, plan).done = {}
  BY DEF Started
<1>5. Kept' = Kept
  BY <1>2 DEF Kept
<1>6. OrderInv'
  BY <1>1, <1>2, <1>3, <1>4, SameHistory DEF OrderInv
<1>7. DoneKept'
  BY <1>3, <1>4 DEF DoneKept
<1> QED BY <1>2, <1>5, <1>6, <1>7, SameHistory DEF Promised

LEMMA StorePromise ==
  ASSUME OneAtATime, PromiseInv, NEW w \in Workers, Keep(w) \/ KeepFails(w)
  PROVE  OrderInv' /\ DoneKept' /\ Promised'
<1> USE DEF PromiseInv, StoreInv
<1>1. PICK images : StoreImages(w, images)
  BY DEF Keep, KeepFails
<1>2. UNCHANGED <<art, history, actions>>
  BY DEF Keep, KeepFails
<1>3. Kept \subseteq Kept'
  BY <1>1 DEF StoreImages, Referenced, Reranked, Kept
<1> DEFINE j == [job[w] EXCEPT !.step = "stored", !.kept = images]
<1>4. job' = [job EXCEPT ![w] = j]
  BY <1>1 DEF StoreImages, TypeInv, ArtTypeOK
<1>5. j.step = "stored" /\ j.action = job[w].action /\ j.todo = job[w].todo /\ j.done = job[w].done
  BY DEF TypeInv, ArtTypeOK, Job
<1>6. job[w].action = actions
  BY <1>1 DEF StoreImages, OrderInv
<1> HIDE DEF j
<1>7. \A v \in Workers : job'[v] = j
  BY <1>4, OneRecord
<1>8. OrderInv'
  BY <1>2, <1>5, <1>6, <1>7, SameHistory DEF OrderInv
<1>9. DoneKept'
  BY <1>5, <1>7 DEF DoneKept
<1> QED BY <1>2, <1>3, <1>8, <1>9, SameHistory DEF Promised

\* The cap of one operation spares what is promised.
LEMMA RetainPromise ==
  ASSUME OneAtATime, PromiseInv, Fits, NEW w \in Workers, Retain(w)
  PROVE  OrderInv' /\ DoneKept' /\ Promised'
<1> USE DEF PromiseInv, StoreInv
<1> DEFINE own == job[w].kept
           P == ProtectedDigests \cup own
           gone == IF own = {} THEN {} ELSE Evicted(P)
           left == Kept \ gone
           j == [job[w] EXCEPT !.step = "writing", !.kept = own \cap left]
<1>1. /\ store' = Reranked(store, left) /\ UNCHANGED <<art, history, actions>>
      /\ job[w].step = "stored"
  BY DEF Retain
<1>2. Kept' = left
  BY <1>1 DEF Reranked, Kept
<1>3. job' = [job EXCEPT ![w] = Idle] \/ job' = [job EXCEPT ![w] = j]
  BY DEF Retain, TypeInv, ArtTypeOK
<1>4. /\ j.step = "writing" /\ j.action = job[w].action /\ j.todo = job[w].todo
      /\ j.done = job[w].done
  BY DEF TypeInv, ArtTypeOK, Job
<1>5. job[w].action = actions
  BY <1>1 DEF OrderInv
<1>6. IsFiniteSet(P) /\ Cardinality(P) <= Cap
  <2>1. P \subseteq Images
    <3>1. ProtectedDigests \subseteq Images
      BY DEF Promised, TypeInv, ArtTypeOK
    <3>2. own \subseteq Images
      BY DEF TypeInv, ArtTypeOK, Job
    <3> QED BY <3>1, <3>2
  <2>2. Cardinality(P) <= Cap
    BY <1>1 DEF Fits
  <2> QED BY <2>1, <2>2, ImagesAssumption, FS_Subset
<1>7. ASSUME NEW i \in ProtectedDigests PROVE i \in left
  <2>1. i \in P \cap Kept
    BY DEF Promised
  <2> HIDE DEF P
  <2>2. i \notin Evicted(P)
    BY <1>6, <2>1, ProtectedStay
  <2> QED BY <2>1, <2>2
<1> HIDE DEF j, left
<1>8. /\ \A v \in Workers : job'[v] \in {Idle, j}
      /\ Idle.step = "idle" /\ Idle.todo = {} /\ Idle.done = {}
  BY <1>3, OneRecord DEF Idle
<1>9. OrderInv'
  BY <1>1, <1>4, <1>5, <1>8, SameHistory DEF OrderInv
<1>10. DoneKept'
  BY <1>4, <1>8 DEF DoneKept
<1> QED BY <1>1, <1>2, <1>7, <1>9, <1>10, SameHistory DEF Promised

\* Steps that leave the store and the history as they are.
LEMMA WorkPromise ==
  ASSUME OneAtATime, PromiseInv, NEW w \in Workers,
         Skip(w) \/ Replace(w) \/ RecordFails(w) \/ PutBack(w) \/ WriteFails(w) \/ Finish(w)
  PROVE  OrderInv' /\ DoneKept' /\ Promised'
<1> USE DEF PromiseInv, StoreInv
<1>1. UNCHANGED <<store, history, actions>> /\ job[w].step # "idle"
  BY DEF Skip, Replace, RecordFails, PutBack, WriteFails, Finish, AtWrite
<1>2. job[w] \in Job /\ job[w].action = actions
  BY <1>1 DEF OrderInv, TypeInv, ArtTypeOK
<1> DEFINE c == Next1(w)
           left == [job[w] EXCEPT !.todo = @ \ {c}]
           wrote == [job[w] EXCEPT !.step = "recording", !.todo = @ \ {c}, !.done = {c}]
           past == [job[w] EXCEPT !.step = "writing", !.done = {}]
           Good(j) == /\ j.step # "idle" => j.action = actions
                      /\ \A d \in j.todo \cup j.done : d.before # d.after
                      /\ j.step = "recording" =>
                           \A d \in j.done : d.before \in Kept \cup {NoImage}
<1>3. \A d \in job[w].todo \cup job[w].done : d.before # d.after
  BY DEF OrderInv
<1>4. Good(Idle)
  BY DEF Idle
<1>5. PICK j : job' = [job EXCEPT ![w] = j] /\ Good(j)
  <2>1. CASE RecordFails(w)
    <3>1. job' = [job EXCEPT ![w] = past]
      BY <2>1 DEF RecordFails, TypeInv, ArtTypeOK
    <3>2. past.step = "writing" /\ past.action = actions /\ past.todo = job[w].todo /\ past.done = {}
      BY <1>2 DEF Job
    <3>3. Good(past)
      <4> HIDE DEF past
      <4> QED BY <1>3, <3>2
    <3> HIDE DEF past, Good
    <3> QED BY <3>1, <3>3
  <2>2. CASE Finish(w)
    <3>1. job' = [job EXCEPT ![w] = Idle]
      BY <2>2 DEF Finish
    <3> HIDE DEF Good
    <3> QED BY <1>4, <3>1
  <2>3. CASE Replace(w)
    <3>1. job' = [job EXCEPT ![w] = wrote]
      BY <2>3 DEF Replace, TypeInv, ArtTypeOK
    <3>2. /\ wrote.step = "recording" /\ wrote.action = actions
          /\ wrote.todo = job[w].todo \ {c} /\ wrote.done = {c}
      BY <1>2 DEF Job
    <3>3. c \in job[w].todo
      BY <2>3, NextChange DEF Replace, TypeInv
    <3>4. c.before \in Kept \cup {NoImage}
      <4>1. c.before \in job[w].kept \cup {NoImage} /\ job[w].step = "writing"
        BY <2>3 DEF Replace, Licensed, AtWrite
      <4> QED BY <4>1 DEF StillKept
    <3>5. Good(wrote)
      <4> HIDE DEF wrote, c
      <4> QED BY <1>3, <3>2, <3>3, <3>4
    <3> HIDE DEF wrote, Good
    <3> QED BY <3>1, <3>5
  <2>4. CASE Skip(w) \/ PutBack(w) \/ WriteFails(w)
    <3>1. job' = [job EXCEPT ![w] = left] \/ job' = [job EXCEPT ![w] = Idle]
      <4>1. CASE Skip(w) \/ PutBack(w)
        BY <4>1 DEF Skip, PutBack, TypeInv, ArtTypeOK
      <4>2. CASE WriteFails(w)
        <5>1. CASE job[w].kind = "undo"
          BY <4>2, <5>1 DEF WriteFails, TypeInv, ArtTypeOK
        <5>2. CASE job[w].kind # "undo"
          BY <4>2, <5>2 DEF WriteFails, TypeInv, ArtTypeOK
        <5> QED BY <5>1, <5>2
      <4> QED BY <2>4, <4>1, <4>2
    <3>2. /\ left.step = "writing" /\ left.action = actions
          /\ left.todo \subseteq job[w].todo /\ left.done = job[w].done
      BY <1>2, <2>4 DEF Job, Skip, PutBack, WriteFails, AtWrite
    <3>3. Good(left)
      <4> HIDE DEF left
      <4> QED BY <1>3, <3>2
    <3> HIDE DEF left, Good
    <3> QED BY <1>4, <3>1, <3>3
  <2> QED BY <2>1, <2>2, <2>3, <2>4
<1>6. \A v \in Workers : job'[v] = j
  BY <1>5, OneRecord
<1>7. Kept' = Kept
  BY <1>1 DEF Kept
<1>8. OrderInv'
  BY <1>1, <1>5, <1>6, SameHistory DEF OrderInv
<1>9. DoneKept'
  BY <1>5, <1>6, <1>7 DEF DoneKept
<1> QED BY <1>1, <1>7, <1>8, <1>9, SameHistory DEF Promised

LEMMA RecordPromise ==
  ASSUME OneAtATime, PromiseInv, NEW w \in Workers, Record(w)
  PROVE  OrderInv' /\ DoneKept' /\ Promised'
<1> USE DEF PromiseInv, StoreInv
<1>1. PICK c \in job[w].done :
        history' = Append(history,
          [album |-> AlbumOf[c.target], action |-> job[w].action,
           target |-> c.target, before |-> c.before, after |-> c.after])
  BY DEF Record
<1> DEFINE x == [album |-> AlbumOf[c.target], action |-> job[w].action,
                 target |-> c.target, before |-> c.before, after |-> c.after]
           j == [job[w] EXCEPT !.step = "writing", !.done = {}]
<1>2. /\ job[w] \in Job /\ job[w].step = "recording" /\ job[w].action = actions
      /\ actions \in 1..MaxActions /\ UNCHANGED <<store, actions>>
  BY DEF Record, OrderInv, TypeInv, Numbered, ArtTypeOK
<1>3. x \in Event /\ x.action = actions /\ x.before = c.before /\ x.after = c.after
  <2>1. c \in Change
    BY <1>2 DEF Job
  <2> QED BY <1>2, <2>1 DEF Event, Change, Albums
<1>4. c.before # c.after /\ c.before \in Kept \cup {NoImage}
  BY <1>2 DEF OrderInv, DoneKept
<1>5. job' = [job EXCEPT ![w] = j]
  BY DEF Record, TypeInv, ArtTypeOK
<1>6. j.step = "writing" /\ j.action = actions /\ j.todo = job[w].todo /\ j.done = {}
  BY <1>2 DEF Job
<1> HIDE DEF x, j
<1>7. \A v \in Workers : job'[v] = j
  BY <1>5, OneRecord
<1>8. history' = Append(history, x)
  BY <1>1 DEF x
<1>9. Promised'
  <2>1. ProtectedDigests' \subseteq ProtectedDigests \cup ({x.before} \ {NoImage})
    BY <1>3, <1>8, RecordedProtected
  <2>2. Kept' = Kept
    BY <1>2 DEF Kept
  <2> QED BY <1>3, <1>4, <2>1, <2>2 DEF Promised
<1>10. DoneKept'
  BY <1>6, <1>7 DEF DoneKept
<1>11. /\ Len(history') = Len(history) + 1 /\ Len(history) \in Nat
       /\ history'[Len(history) + 1] = x
       /\ \A e \in Events : history'[e] = history[e]
  BY <1>8 DEF Events, TypeInv, ArtTypeOK
<1>12. ASSUME NEW e \in Events'
       PROVE  e \in Events \/ e = Len(history) + 1
  BY <1>11 DEF Events
<1>13. ASSUME NEW e \in Events'
       PROVE  /\ history'[e].action <= actions' /\ history'[e].before # history'[e].after
              /\ history'[e].action \in Nat
  <2>1. CASE e \in Events
    <3>1. history'[e] = history[e] /\ history[e].action \in Nat
      BY <1>11, <2>1, EventType
    <3> QED BY <1>2, <2>1, <3>1 DEF OrderInv
  <2>2. CASE e = Len(history) + 1
    BY <1>2, <1>3, <1>4, <1>11, <2>2
  <2> QED BY <1>12, <2>1, <2>2
<1>14. ASSUME NEW e \in Events', NEW f \in Events', e <= f
       PROVE  history'[e].action <= history'[f].action
  <2>1. CASE f = Len(history) + 1
    <3>1. history'[f].action = actions /\ actions' = actions
      BY <1>2, <1>3, <1>11, <2>1
    <3> QED BY <1>13, <3>1
  <2>2. CASE f \in Events
    <3>1. e \in Events
      BY <1>11, <1>14, <2>2 DEF Events
    <3> QED BY <1>11, <1>14, <2>2, <3>1 DEF OrderInv
  <2> QED BY <1>12, <2>1, <2>2
<1>15. OrderInv'
  <2>1. \A v \in Workers : job'[v].step # "idle" => job'[v].action = actions'
    BY <1>2, <1>6, <1>7
  <2>2. \A v \in Workers : \A d \in job'[v].todo \cup job'[v].done : d.before # d.after
    BY <1>6, <1>7 DEF OrderInv
  <2> QED BY <1>13, <1>14, <2>1, <2>2 DEF OrderInv
<1> QED BY <1>9, <1>10, <1>15

LEMMA OutsidePromise ==
  ASSUME PromiseInv, Edit \/ Crash \/ UNCHANGED vars
  PROVE  OrderInv' /\ DoneKept' /\ Promised'
<1> USE DEF PromiseInv, StoreInv
<1>1. UNCHANGED <<store, history, actions>> /\ Kept' = Kept
  BY DEF Edit, Crash, vars, Kept
<1>2. \A v \in Workers : job'[v] \in {Idle, job[v]}
  BY DEF Edit, Crash, vars
<1>3. Idle.step = "idle" /\ Idle.todo = {} /\ Idle.done = {}
  BY DEF Idle
<1>4. OrderInv'
  BY <1>1, <1>2, <1>3, SameHistory DEF OrderInv
<1>5. DoneKept'
  BY <1>1, <1>2, <1>3 DEF DoneKept
<1> QED BY <1>1, <1>4, <1>5, SameHistory DEF Promised

LEMMA PromiseInvSteps ==
  ASSUME OneAtATime, PromiseInv, Fits, [Next]_vars, TypeInv'
  PROVE  PromiseInv'
<1>1. StillKept'
  BY StillKeptHolds DEF PromiseInv
<1>2. OrderInv' /\ DoneKept' /\ Promised'
  <2>1. ASSUME NEW w \in Workers, Work(w) PROVE OrderInv' /\ DoneKept' /\ Promised'
    BY <2>1, BeginPromise, StorePromise, RetainPromise, WorkPromise, RecordPromise DEF Work
  <2>2. CASE Edit \/ Crash \/ UNCHANGED vars
    BY <2>2, OutsidePromise
  <2> QED BY <2>1, <2>2 DEF Next
<1> QED BY <1>1, <1>2 DEF PromiseInv, StoreInv

\* What the protected images are, said of changes instead of records.
LEMMA PromiseFollows ==
  ASSUME PromiseInv
  PROVE  PromiseKept
<1> USE DEF PromiseInv, StoreInv
<1>1. SUFFICES ASSUME NEW album \in Albums, NEW a \in Replaced(album),
                      Cardinality({b \in Replaced(album) : b > a}) < KeepPerAlbum,
                      NEW c \in Reverts(album, a), c.after # NoImage
               PROVE  c.after \in Kept
  BY DEF PromiseKept
<1>2. PICK e \in Events : /\ history[e].album = album /\ history[e].action = a
                          /\ c.after = history[e].before
  BY DEF Reverts, Events
<1>3. e \in Replacements
  BY <1>1, <1>2 DEF Replacements, Events, OrderInv
<1> DEFINE later == {b \in Replaced(album) : b > a}
           unit == [b \in later |-> <<album, b>>]
           units == {unit[b] : b \in later}
<1>4. IsFiniteSet(later)
  <2>1. actions \in Nat
    BY DEF TypeInv, ArtTypeOK
  <2>2. later \subseteq 1..actions /\ IsFiniteSet(1..actions)
    BY <2>1, FS_Interval DEF Replaced
  <2> QED BY <2>2, FS_Subset
<1>5. Newer(e) \subseteq units
  <2> SUFFICES ASSUME NEW f \in Replacements, history[f].album = history[e].album,
                      \A g \in UnitEvents(e) : g < f, Unit(f) # Unit(e)
               PROVE  Unit(f) \in units
    BY DEF Newer
  <2>1. f \in Events /\ e \in UnitEvents(e)
    BY <1>3 DEF Replacements, Events, UnitEvents
  <2>2. e < f /\ history[f].action # a
    BY <1>2, <2>1 DEF Unit
  <2>3. /\ history[f].action \in Nat /\ history[e].action \in Nat /\ history[f].action <= actions
        /\ history[e].action <= history[f].action
    BY <2>1, <2>2, EventType DEF OrderInv
  <2>4. history[f].action \in 1..actions /\ history[f].action > a
    <3>1. actions \in Nat /\ history[f] \in Event
      BY <2>1, EventType DEF TypeInv, ArtTypeOK
    <3>2. history[f].action \in 1..MaxActions
      BY <3>1 DEF Event
    <3> QED BY <1>2, <2>2, <2>3, <3>1, <3>2
  <2>5. history[f].action \in later
    <3>1. history[f].album = album /\ history[f].before # NoImage
      BY <1>2 DEF Replacements
    <3> QED BY <2>1, <2>4, <3>1 DEF Replaced, Events
  <2>6. Unit(f) = unit[history[f].action]
    BY <1>2, <2>5 DEF Unit
  <2> QED BY <2>5, <2>6
<1>6. Cardinality(Newer(e)) < KeepPerAlbum
  <2> HIDE DEF unit, later
  <2>1. IsFiniteSet(units) /\ Cardinality(units) <= Cardinality(later) /\ Cardinality(units) \in Nat
    BY <1>4, FiniteImage
  <2> HIDE DEF units
  <2>2. Cardinality(Newer(e)) <= Cardinality(units) /\ Cardinality(Newer(e)) \in Nat
    BY <1>5, <2>1, FinitePart
  <2>3. Cardinality(later) \in Nat /\ Cardinality(later) < KeepPerAlbum
    BY <1>1, <1>4, FS_CardinalityType DEF later
  <2> QED BY <2>1, <2>2, <2>3, BoundsAssumption
<1> QED BY <1>2, <1>3, <1>6 DEF Promised, ProtectedDigests

\* The retention promise: while operations do not overlap and what is promised
\* fits the store, an album's last KeepPerAlbum replacing changes can be taken
\* back, whatever failed, was edited or was cut short (PromiseKept).  The order
\* of the records is what makes the count of an album's newer changes exact, and
\* the cap is what the hypothesis is about: past it the oldest promise is broken
\* on purpose.
THEOREM PromiseIsKept ==
  ASSUME OneAtATime
  PROVE  Spec /\ []Fits => []PromiseKept
<1>1. Init => StillKept /\ OrderInv /\ DoneKept /\ Promised
  <2> SUFFICES ASSUME Init PROVE StillKept /\ OrderInv /\ DoneKept /\ Promised
    OBVIOUS
  <2>1. \A w \in Workers : job[w] = Idle
    BY DEF Init
  <2>2. Idle.step = "idle" /\ Idle.todo = {} /\ Idle.done = {}
    BY DEF Idle
  <2>3. Events = {} /\ Replacements = {}
    BY DEF Init, Events, Replacements
  <2>4. ProtectedDigests = {}
    BY <2>3 DEF ProtectedDigests
  <2> QED BY <2>1, <2>2, <2>3, <2>4 DEF StillKept, OrderInv, DoneKept, Promised
<1>2. PromiseInv /\ Fits /\ TypeInv' /\ [Next]_vars => PromiseInv'
  BY PromiseInvSteps
<1>3. TypeInv /\ StillKept /\ OrderInv /\ DoneKept /\ Promised => PromiseInv
  BY DEF PromiseInv, StoreInv
<1>4. PromiseInv => PromiseKept
  BY PromiseFollows
<1> QED BY <1>1, <1>2, <1>3, <1>4, TypeInvHolds, PTL DEF Spec

=============================================================================

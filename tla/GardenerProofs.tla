--------------------------- MODULE GardenerProofs ---------------------------
(***************************************************************************)
(* Theorems about Gardener, for any releases, albums, payloads and bounds.  *)
(***************************************************************************)
EXTENDS Gardener, TLAPS

(***************************************************************************)
(* Types of what the theorems are about.                                    *)
(***************************************************************************)
Tags == [of : Payloads, spelt : Spellings]
Flags == [version : Versions, level : Levels]
Deads == [album : Albums, flag : Flags]
Looks == [album : Albums, got : [read : BOOLEAN, payload : Versions]]
News == [album : Albums, level : Levels]
Sweeps == [at : {"idle", "next", "fetch", "judge"}, todo : SUBSET Releases,
           release : Releases \cup {Nothing}, before : Versions, payload : Versions,
           albums : SUBSET Albums, dead : SUBSET Deads, news : SUBSET News]
Cards == {Nothing} \cup UNION {[S -> Versions] : S \in SUBSET Albums}
Passes == [at : {"idle", "next", "write", "publish"}, kind : {"auto", "chosen"},
           todo : SUBSET Albums, album : Albums \cup {Nothing}, payload : Versions,
           wrote : BOOLEAN, trust : Levels, spelt : Spellings, shown : Cards,
           dead : SUBSET Deads]

TypeOK ==
  /\ mb \in [Releases -> Versions]
  /\ stored \in [Releases -> Versions]
  /\ files \in [Albums -> Tags]
  /\ short \in SUBSET Albums /\ edited \in SUBSET Albums
  /\ flag \in [Albums -> Flags]
  /\ setting \in Spellings
  /\ trust \in Levels \ {Structure}
  /\ sweep \in Sweeps
  /\ pass \in Passes
  /\ looks \in SUBSET Looks
  /\ faults \in Nat

\* The greater of two numbers.
LEMMA MaxOfTwo ==
  ASSUME NEW x \in Int, NEW y \in Int
  PROVE  Max({x, y}) = IF x >= y THEN x ELSE y
<1>1. \E m \in {x, y} : \A k \in {x, y} : m >= k
  OBVIOUS
<1>2. Max({x, y}) \in {x, y} /\ \A k \in {x, y} : Max({x, y}) >= k
  BY <1>1 DEF Max
<1> QED BY <1>2

\* A verdict is a level, and says what MusicBrainz asks whatever the spelling.
LEMMA VerdictType ==
  ASSUME NEW tags \in Tags, NEW p \in Payloads, NEW s \in Spellings
  PROVE  /\ Verdict(tags, p, s) \in Levels
         /\ Reach[<<tags.of, p>>] \in Levels
         /\ Reach[<<tags.of, p>>] <= Verdict(tags, p, s)
         /\ Verdict(tags, p, s) \in {Reach[<<tags.of, p>>], Settings}
         /\ Max({Verdict(tags, p, s), Settings}) = Max({Reach[<<tags.of, p>>], Settings})
<1>1. tags.of \in Payloads /\ Reach[<<tags.of, p>>] \in Levels
  BY GardenerConstants DEF Tags
<1> DEFINE other == IF tags.spelt = s THEN NoUpdate ELSE Settings
<1>2. other \in Levels /\ other <= Settings /\ other \in {NoUpdate, Settings}
  BY DEF Levels, NoUpdate, Settings, Structure
<1>3. Verdict(tags, p, s) = Max({Reach[<<tags.of, p>>], other})
  BY DEF Verdict
<1> HIDE DEF other
<1>4. Verdict(tags, p, s) = IF Reach[<<tags.of, p>>] >= other THEN Reach[<<tags.of, p>>] ELSE other
  BY <1>1, <1>2, <1>3, MaxOfTwo DEF Levels, NoUpdate, Structure
<1>5. Verdict(tags, p, s) \in Levels
  BY <1>1, <1>2, <1>4
<1>6. Max({Verdict(tags, p, s), Settings})
        = IF Verdict(tags, p, s) >= Settings THEN Verdict(tags, p, s) ELSE Settings
  BY <1>5, MaxOfTwo DEF Levels, NoUpdate, Settings, Structure
<1>7. Max({Reach[<<tags.of, p>>], Settings})
        = IF Reach[<<tags.of, p>>] >= Settings THEN Reach[<<tags.of, p>>] ELSE Settings
  BY <1>1, MaxOfTwo DEF Levels, NoUpdate, Settings, Structure
<1> QED BY <1>1, <1>2, <1>4, <1>5, <1>6, <1>7 DEF Levels, NoUpdate, Settings, Structure

LEMMA BlankTypes ==
  /\ Blank \in Flags /\ NoSweep \in Sweeps /\ NoPass \in Passes
<1>1. Blank \in Flags
  BY DEF Blank, Flags, Versions, Levels, NoUpdate, Structure
<1>2. NoSweep \in Sweeps
  BY DEF NoSweep, Sweeps, Versions
<1>3. NoPass \in Passes
  BY DEF NoPass, Passes, Versions, Cards, Levels, NoUpdate, Structure, Spellings
<1> QED BY <1>1, <1>2, <1>3

LEMMA RecordedType ==
  ASSUME TypeOK, NEW a \in Albums, NEW p \in Payloads, NEW dead
  PROVE  Recorded(a, p, dead) \in [Albums -> Flags]
<1>1. Judged(a, p) \in Flags
  BY VerdictType DEF Judged, Flags, Versions, TypeOK
<1> QED BY <1>1 DEF Recorded, TypeOK

LEMMA OwnType ==
  ASSUME TypeOK, NEW a \in Albums, NEW dead \in SUBSET Deads
  PROVE  Own(a, dead) \in Flags /\ Replaced(dead, a) \in SUBSET Deads
<1>1. Own(a, dead) \in Flags
  <2>1. CASE \E d \in dead : d.album = a
    <3>1. (CHOOSE d \in dead : d.album = a) \in dead
      BY <2>1
    <3> QED BY <2>1, <3>1 DEF Own, Deads
  <2> QED BY <2>1 DEF Own, TypeOK
<1>2. Replaced(dead, a) \in SUBSET Deads
  BY DEF Replaced, Deads, TypeOK
<1> QED BY <1>1, <1>2

LEMMA NextReleaseType ==
  ASSUME TypeOK, NEW a \in Albums, NEW news \in SUBSET News
  PROVE  /\ Dealt(news) \in Sweeps /\ Dealt(news).at = "next"
         /\ Past(a, news) \in Sweeps
         /\ \/ Past(a, news).at = "next"
            \/ /\ Past(a, news).payload = sweep.payload
               /\ Past(a, news).albums \subseteq sweep.albums
               /\ Past(a, news).at = sweep.at
<1>1. sweep \in Sweeps
  BY DEF TypeOK
<1>2. Dealt(news) \in Sweeps /\ Dealt(news).at = "next"
  BY <1>1 DEF Dealt, NoSweep, Sweeps, Versions
<1>3. [sweep EXCEPT !.albums = @ \ {a}, !.news = news] \in Sweeps
  BY <1>1 DEF Sweeps
<1> QED BY <1>1, <1>2, <1>3 DEF Past, Sweeps

LEMMA JudgingType ==
  ASSUME NEW p \in Versions, NEW g \in SUBSET Albums, sweep \in Sweeps,
         sweep' = [sweep EXCEPT !.at = "judge", !.payload = p, !.albums = g]
  PROVE  sweep' \in Sweeps /\ sweep'.at = "judge" /\ sweep'.payload = p /\ sweep'.albums = g
<1>1. sweep'.at = "judge" /\ sweep'.payload = p /\ sweep'.albums = g
  BY DEF Sweeps
<1>2. sweep' = [at |-> "judge", todo |-> sweep.todo, release |-> sweep.release,
                before |-> sweep.before, payload |-> p, albums |-> g, dead |-> sweep.dead,
                news |-> sweep.news]
  BY DEF Sweeps
<1>3. /\ sweep.todo \in SUBSET Releases /\ sweep.release \in Releases \cup {Nothing}
      /\ sweep.before \in Versions /\ sweep.dead \in SUBSET Deads /\ sweep.news \in SUBSET News
  BY DEF Sweeps
<1>4. sweep' \in Sweeps
  BY <1>2, <1>3 DEF Sweeps
<1> QED BY <1>1, <1>4

LEMMA RebuildTypes ==
  ASSUME TypeOK, NEW a \in Albums, Rebuild(a)
  PROVE  /\ flag' \in [Albums -> Flags] /\ looks' \in SUBSET Looks /\ sweep' \in Sweeps
         /\ edited' \in SUBSET Albums
<1>1. [album |-> a, got |-> Unread] \in Looks
  BY DEF Looks, Unread, Versions
<1>2. sweep \in Sweeps /\ sweep.dead \in SUBSET Deads
  BY DEF TypeOK, Sweeps
<1>3. Replaced(sweep.dead, a) \in SUBSET Deads
  BY <1>2, OwnType
<1>4. sweep' \in Sweeps
  BY <1>2, <1>3 DEF Rebuild, Sweeps
<1> QED BY <1>1, <1>4, BlankTypes DEF Rebuild, TypeOK

\* Whatever is judged, is judged against a release that was stored, and a stored
\* release is never forgotten.
Stored(a) == stored[ReleaseOf[a]] # Nothing
StoredInv ==
  /\ \A a \in Albums : flag[a].version # Nothing => Stored(a)
  /\ sweep.at = "fetch" => sweep.release \in Releases
  /\ sweep.at = "judge" => sweep.payload # Nothing /\ \A a \in sweep.albums : Stored(a)
  /\ \A l \in looks : l.got.read => l.got.payload # Nothing /\ Stored(l.album)

\* The pass has written only what it is about to publish.
PassInv ==
  /\ pass.wrote => pass.at = "publish"
  /\ pass.at \in {"write", "publish"} => pass.album \in Albums
  /\ pass.at = "write" => pass.payload # Nothing /\ Stored(pass.album)
  /\ pass.at # "idle" /\ pass.kind = "auto" => pass.trust \in Levels \ {NoUpdate, Structure}

\* What is about to be written is what was allowed, unless the album has been
\* changed since.
IsDead(a, dead) == \E d \in dead : d.album = a
Allowed ==
  pass.at = "write" =>
    IF pass.kind = "auto"
    THEN \/ pass.album \in edited \/ IsDead(pass.album, pass.dead)
         \/ /\ Reach[<<files[pass.album].of, pass.payload>>] <= pass.trust
            /\ pass.album \notin short
    ELSE pass.payload = pass.shown[pass.album]

\* The flag is exact but for the spelling, and that too unless a re-check is to
\* come or a file could not be read.
Faithful(a) ==
  Max({flag[a].level, Settings}) = Max({Reach[<<files[a].of, flag[a].version>>], Settings})
Strict(a) == flag[a].level = Verdict(files[a], flag[a].version, setting)
Looked(a) == \E l \in looks : l.album = a
Honest(a) ==
  \/ flag[a].version = Nothing
  \/ a \in edited
  \/ pass.wrote /\ pass.album = a
  \/ Faithful(a) /\ (faults = 0 => Looked(a) \/ Strict(a))
HonestInv == \A a \in Albums : Honest(a)

GardenInv == StoredInv /\ PassInv /\ Allowed /\ HonestInv

LEMMA RebuildStored ==
  ASSUME TypeOK, StoredInv, NEW a \in Albums, Rebuild(a), stored' = stored
  PROVE  StoredInv'
<1>1. /\ flag' = [flag EXCEPT ![a] = Blank]
      /\ looks' = {l \in looks : l.album # a} \cup {[album |-> a, got |-> Unread]}
      /\ sweep' = [sweep EXCEPT !.dead = IF sweep.at = "idle" THEN @ ELSE Replaced(@, a)]
  BY DEF Rebuild
<1>2. \A b \in Albums : flag'[b] = flag[b] \/ flag'[b].version = Nothing
  BY <1>1 DEF Blank, TypeOK
<1>3. \A l \in looks' : l \in looks \/ ~l.got.read
  BY <1>1 DEF Unread
<1>4. /\ sweep'.at = sweep.at /\ sweep'.release = sweep.release
      /\ sweep'.payload = sweep.payload /\ sweep'.albums = sweep.albums
  BY <1>1 DEF TypeOK, Sweeps
<1> QED BY <1>2, <1>3, <1>4 DEF StoredInv, Stored

(***************************************************************************)
(* Every step keeps the types, and judges against what was stored.          *)
(***************************************************************************)
LEMMA CheckTypes ==
  ASSUME TypeOK, StoredInv,
         Tick \/ StartSweep \/ Ask \/ FetchGone \/ FetchFails \/ FetchAnswers \/ Digest
  PROVE  TypeOK' /\ StoredInv'
<1>1. /\ UNCHANGED <<mb, files, short, edited, flag, setting, trust, pass, looks>>
      /\ faults' \in Nat
  <2>1. UNCHANGED <<mb, files, short, edited, flag, setting, trust, pass, looks>>
    BY DEF Tick, StartSweep, Ask, FetchGone, FetchFails, FetchAnswers, Digest, choices, disc
  <2>2. faults' = faults \/ faults' = faults + 1
    BY DEF Tick, StartSweep, Ask, FetchGone, FetchFails, FetchAnswers, Digest
  <2> QED BY <2>1, <2>2 DEF TypeOK
<1>2. sweep \in Sweeps /\ sweep.news \in SUBSET News /\ sweep.todo \in SUBSET Releases
  BY DEF TypeOK, Sweeps
<1>3. CASE Tick
  BY <1>1, <1>3 DEF Tick, TypeOK, StoredInv, Stored
<1>4. CASE StartSweep
  <2>1. stored' = stored
    BY <1>4 DEF StartSweep, cache
  <2>2. CASE sweep' = sweep
    BY <1>1, <2>1, <2>2 DEF TypeOK, StoredInv, Stored
  <2>3. CASE sweep' # sweep
    <3>1. PICK todo \in kSubset(SliceSize(Cardinality(Due)), Due) :
            sweep' = [NoSweep EXCEPT !.at = "next", !.todo = todo]
      BY <1>4, <2>3 DEF StartSweep
    <3>2. todo \in SUBSET Releases
      BY DEF kSubset, Due
    <3>3. sweep' \in Sweeps /\ sweep'.at = "next"
      BY <3>1, <3>2 DEF Sweeps, NoSweep, Versions
    <3> QED BY <1>1, <2>1, <3>3 DEF TypeOK, StoredInv, Stored
  <2> QED BY <2>2, <2>3
<1>5. CASE Ask
  <2>1. PICK r \in sweep.todo :
          sweep' = [sweep EXCEPT !.at = "fetch", !.release = r, !.todo = @ \ {r},
                                 !.before = stored[r]]
    BY <1>5 DEF Ask
  <2>2. r \in Releases /\ stored[r] \in Versions
    BY <1>2, <2>1 DEF TypeOK
  <2>3. sweep' \in Sweeps /\ sweep'.at = "fetch" /\ sweep'.release = r
    BY <1>2, <2>1, <2>2 DEF Sweeps
  <2>4. stored' = stored
    BY <1>5 DEF Ask, cache
  <2> QED BY <1>1, <2>2, <2>3, <2>4 DEF TypeOK, StoredInv, Stored
<1>6. CASE FetchGone \/ FetchFails
  <2>1. sweep' \in Sweeps /\ sweep'.at = "next"
    <3>1. Dealt(sweep.news) \in Sweeps /\ Dealt(sweep.news).at = "next"
      BY <1>2 DEF Dealt, NoSweep, Sweeps, Versions
    <3>2. [Dealt(sweep.news) EXCEPT !.todo = {}] \in Sweeps
          /\ [Dealt(sweep.news) EXCEPT !.todo = {}].at = "next"
      BY <3>1 DEF Sweeps
    <3>3. [Dealt(sweep.news) EXCEPT !.todo = @] = Dealt(sweep.news)
      BY <3>1 DEF Sweeps
    <3> QED BY <1>6, <3>1, <3>2, <3>3 DEF FetchGone, FetchFails
  <2>2. stored' = stored
    BY <1>6 DEF FetchGone, FetchFails, cache
  <2> QED BY <1>1, <2>1, <2>2 DEF TypeOK, StoredInv, Stored
<1>7. CASE FetchAnswers
  <2> DEFINE r == sweep.release
             examined == Examined(sweep.before, mb[r], Group(r))
  <2>1. /\ r \in Releases /\ mb[r] # Nothing /\ mb[r] \in Payloads
        /\ stored' = [stored EXCEPT ![r] = mb[r]]
    BY <1>7 DEF FetchAnswers, StoredInv, TypeOK, Versions
  <2>2. stored' \in [Releases -> Versions]
        /\ \A a \in Albums : Stored(a) \/ ReleaseOf[a] = r => Stored(a)'
    BY <2>1, GardenerConstants DEF TypeOK, Versions, Stored
  <2>3. examined \subseteq {a \in Albums : ReleaseOf[a] = r}
    BY DEF Examined, Group
  <2> HIDE DEF examined
  <2>4. \/ sweep' = Dealt(sweep.news)
        \/ sweep' = [sweep EXCEPT !.at = "judge", !.payload = mb[r], !.albums = examined]
    BY <1>7 DEF FetchAnswers, examined
  <2>5. /\ sweep' \in Sweeps
        /\ \/ sweep'.at = "next"
           \/ sweep'.at = "judge" /\ sweep'.payload = mb[r] /\ sweep'.albums = examined
    <3>1. Dealt(sweep.news) \in Sweeps /\ Dealt(sweep.news).at = "next"
      BY <1>2 DEF Dealt, NoSweep, Sweeps, Versions
    <3>2. mb[r] \in Versions /\ examined \in SUBSET Albums
      BY <2>1, <2>3 DEF Versions
    <3> HIDE DEF r
    <3>3. CASE sweep' = Dealt(sweep.news)
      BY <3>1, <3>3
    <3>4. CASE sweep' = [sweep EXCEPT !.at = "judge", !.payload = mb[r], !.albums = examined]
      <4>1. PICK p \in Versions, g \in SUBSET Albums : p = mb[r] /\ g = examined
        BY <3>2
      <4>2. sweep' = [sweep EXCEPT !.at = "judge", !.payload = p, !.albums = g]
        BY <3>4, <4>1
      <4>3. sweep' \in Sweeps /\ sweep'.at = "judge" /\ sweep'.payload = p /\ sweep'.albums = g
        BY <1>2, <4>2, JudgingType
      <4> QED BY <4>1, <4>3
    <3> QED BY <2>4, <3>3, <3>4
  <2>6. \A l \in looks : l.album \in Albums
    BY DEF TypeOK, Looks
  <2> QED BY <1>1, <2>1, <2>2, <2>3, <2>5, <2>6 DEF TypeOK, StoredInv
<1>8. CASE Digest
  <2>1. sweep' \in Sweeps /\ sweep'.at = "idle" /\ stored' = stored
    BY <1>8, BlankTypes DEF Digest, NoSweep, cache
  <2> QED BY <1>1, <2>1 DEF TypeOK, StoredInv, Stored
<1> QED BY <1>3, <1>4, <1>5, <1>6, <1>7, <1>8

LEMMA JudgeTypes ==
  ASSUME TypeOK, StoredInv, SweepJudge
  PROVE  TypeOK' /\ StoredInv'
<1>1. /\ UNCHANGED <<mb, stored, files, short, edited, setting, trust, pass, looks, faults>>
      /\ sweep.at = "judge"
  BY DEF SweepJudge, choices, disc, cache
<1>2. PICK a \in sweep.albums :
        LET level == Verdict(files[a], sweep.payload, setting)
            new == FromMusicBrainz(level) /\ ~AlreadyOutstanding(a, sweep.before)
        IN /\ flag' = Recorded(a, sweep.payload, sweep.dead)
           /\ sweep' = Past(a, sweep.news \cup (IF new THEN {[album |-> a, level |-> level]} ELSE {}))
  BY DEF SweepJudge
<1> DEFINE level == Verdict(files[a], sweep.payload, setting)
<1>3. sweep \in Sweeps /\ sweep.news \in SUBSET News /\ a \in Albums /\ sweep.payload \in Payloads
  BY <1>1 DEF TypeOK, StoredInv, Sweeps, Versions
<1>4. level \in Levels
  BY <1>3, VerdictType DEF TypeOK
<1> HIDE DEF level
<1>5. PICK news \in SUBSET News : sweep' = Past(a, news)
  <2>1. {[album |-> a, level |-> level]} \in SUBSET News
    BY <1>3, <1>4 DEF News
  <2>2. \/ sweep' = Past(a, sweep.news \cup {[album |-> a, level |-> level]})
        \/ sweep' = Past(a, sweep.news \cup {})
    BY <1>2 DEF level
  <2>3. /\ sweep.news \cup {[album |-> a, level |-> level]} \in SUBSET News
        /\ sweep.news \cup {} \in SUBSET News
    BY <1>3, <2>1
  <2> QED BY <2>2, <2>3
<1>6. /\ sweep' \in Sweeps
      /\ \/ sweep'.at = "next"
         \/ sweep'.payload = sweep.payload /\ sweep'.albums \subseteq sweep.albums
            /\ sweep'.at = sweep.at
  BY <1>3, <1>5, NextReleaseType
<1>7. flag' = Recorded(a, sweep.payload, sweep.dead) /\ flag' \in [Albums -> Flags]
  BY <1>2, <1>3, RecordedType
<1>8. \A b \in Albums : flag'[b] = flag[b] \/ b = a
  BY <1>7 DEF Recorded, TypeOK
<1>9. Stored(a)
  BY <1>1 DEF StoredInv
<1> QED BY <1>1, <1>6, <1>7, <1>8, <1>9 DEF TypeOK, StoredInv, Stored

LEMMA LookTypes ==
  ASSUME TypeOK, StoredInv,
         \/ Unreadable
         \/ \E a \in Albums : LookStep(a) \/ OpenPage(a)
         \/ \E r \in Releases : FetchElsewhere(r)
  PROVE  TypeOK' /\ StoredInv'
<1>1. UNCHANGED <<mb, files, short, edited, setting, trust, pass>>
  BY DEF Unreadable, LookStep, ReadStored, RecordFlag, OpenPage, FetchElsewhere, choices, disc
<1>2. CASE Unreadable
  <2>1. UNCHANGED <<stored, flag>> /\ faults' \in Nat
    BY <1>2 DEF Unreadable, cache, TypeOK
  <2>2. looks' \subseteq looks
    BY <1>2 DEF Unreadable
  <2>3. /\ sweep' \in Sweeps
        /\ \/ sweep' = sweep
           \/ sweep'.at = "next"
           \/ /\ sweep'.payload = sweep.payload
              /\ sweep'.albums \subseteq sweep.albums
              /\ sweep'.at = sweep.at /\ sweep.at = "judge"
    <3>1. CASE sweep' = sweep
      BY <3>1 DEF TypeOK
    <3>2. CASE sweep.at = "judge" /\ \E a \in sweep.albums : sweep' = Past(a, sweep.news)
      <4>1. sweep.albums \subseteq Albums /\ sweep.news \in SUBSET News
        BY DEF TypeOK, Sweeps
      <4>2. PICK a \in sweep.albums : sweep' = Past(a, sweep.news)
        BY <3>2
      <4>3. a \in Albums
        BY <4>1
      <4>4. /\ Past(a, sweep.news) \in Sweeps
            /\ \/ Past(a, sweep.news).at = "next"
               \/ /\ Past(a, sweep.news).payload = sweep.payload
                  /\ Past(a, sweep.news).albums \subseteq sweep.albums
                  /\ Past(a, sweep.news).at = sweep.at
        BY <4>1, <4>3, NextReleaseType
      <4> QED BY <3>2, <4>2, <4>4
    <3>3. \/ sweep' = sweep
          \/ sweep.at = "judge" /\ \E a \in sweep.albums : sweep' = Past(a, sweep.news)
      BY <1>2 DEF Unreadable
    <3> QED BY <3>1, <3>2, <3>3
  <2> QED BY <1>1, <2>1, <2>2, <2>3 DEF TypeOK, StoredInv, Stored
<1>3. ASSUME NEW l \in looks, ReadStored(l) PROVE TypeOK' /\ StoredInv'
  <2> DEFINE p == stored[ReleaseOf[l.album]]
             read == [l EXCEPT !.got = [read |-> TRUE, payload |-> p]]
  <2>1. l \in Looks /\ l.album \in Albums /\ ReleaseOf[l.album] \in Releases
    BY GardenerConstants DEF TypeOK, Looks
  <2>2. p \in Versions /\ p = stored[ReleaseOf[l.album]]
    BY <2>1 DEF TypeOK
  <2>3. read \in Looks /\ read.album = l.album /\ read.got.payload = p
    BY <2>1, <2>2 DEF Looks
  <2>4. \/ p = Nothing /\ looks' = looks \ {l}
        \/ p # Nothing /\ looks' = (looks \ {l}) \cup {read}
    BY <1>3 DEF ReadStored
  <2> HIDE DEF p, read
  <2>5. UNCHANGED <<stored, flag, sweep, faults>>
    BY <1>3 DEF ReadStored, cache
  <2> QED BY <1>1, <2>2, <2>3, <2>4, <2>5 DEF TypeOK, StoredInv, Stored
<1>4. ASSUME NEW l \in looks, RecordFlag(l) PROVE TypeOK' /\ StoredInv'
  <2>1. l.album \in Albums /\ l.got.payload \in Payloads /\ Stored(l.album)
    BY <1>4 DEF RecordFlag, StoredInv, TypeOK, Looks, Versions
  <2>2. flag' = Recorded(l.album, l.got.payload, {}) /\ flag' \in [Albums -> Flags]
    BY <1>4, <2>1, RecordedType DEF RecordFlag
  <2>3. \A b \in Albums : flag'[b] = flag[b] \/ b = l.album
    BY <2>2 DEF Recorded, TypeOK
  <2>4. looks' \subseteq looks /\ UNCHANGED <<stored, sweep, faults>>
    BY <1>4 DEF RecordFlag, cache
  <2> QED BY <1>1, <2>1, <2>2, <2>3, <2>4 DEF TypeOK, StoredInv, Stored
<1>5. ASSUME NEW a \in Albums, OpenPage(a) PROVE TypeOK' /\ StoredInv'
  <2> DEFINE r == ReleaseOf[a]
  <2>1. r \in Releases
    BY GardenerConstants
  <2>2. /\ stored' \in [Releases -> Versions] /\ stored'[r] # Nothing
        /\ \A b \in Albums : Stored(b) => Stored(b)'
    BY <1>5, <2>1, GardenerConstants DEF OpenPage, cache, TypeOK, Stored
  <2>3. [album |-> a, got |-> [read |-> TRUE, payload |-> stored'[r]]] \in Looks
    BY <2>1, <2>2 DEF Looks
  <2>4. /\ looks' = looks \cup {[album |-> a, got |-> [read |-> TRUE, payload |-> stored'[r]]]}
        /\ UNCHANGED <<flag, sweep, faults>>
    BY <1>5 DEF OpenPage
  <2>5. Stored(a)'
    BY <2>2 DEF Stored
  <2>6. /\ \A l \in looks : l.album \in Albums
        /\ sweep.albums \subseteq Albums
    BY DEF TypeOK, Looks, Sweeps
  <2>7. \A l \in looks' : l \in looks \/ (l.album = a /\ l.got.payload # Nothing)
    BY <2>2, <2>4
  <2> HIDE DEF r
  <2>8. TypeOK'
    BY <1>1, <2>2, <2>3, <2>4 DEF TypeOK
  <2>9. StoredInv'
    BY <2>2, <2>4, <2>5, <2>6, <2>7 DEF StoredInv
  <2> QED BY <2>8, <2>9
<1>6. ASSUME NEW r \in Releases, FetchElsewhere(r) PROVE TypeOK' /\ StoredInv'
  <2>1. /\ stored' \in [Releases -> Versions]
        /\ \A b \in Albums : Stored(b) => Stored(b)'
        /\ UNCHANGED <<flag, sweep, looks, faults>>
    BY <1>6, GardenerConstants DEF FetchElsewhere, TypeOK, Stored
  <2>2. /\ \A l \in looks : l.album \in Albums
        /\ sweep.albums \subseteq Albums
    BY DEF TypeOK, Looks, Sweeps
  <2> QED BY <1>1, <2>1, <2>2 DEF TypeOK, StoredInv
<1> QED BY <1>2, <1>3, <1>4, <1>5, <1>6 DEF LookStep


(***************************************************************************)
(* What is stored is never forgotten, and the check, the re-checks and the  *)
(* pages leave the pass alone.                                              *)
(***************************************************************************)
LEMMA StoredKept ==
  ASSUME TypeOK, Next
  PROVE  \A a \in Albums : Stored(a) => Stored(a)'
<1>1. \/ stored' = stored
      \/ \E r \in Releases \cup {sweep.release} : mb[r] # Nothing /\ stored' = [stored EXCEPT ![r] = mb[r]]
  <2>1. CASE FetchAnswers
    BY <2>1 DEF FetchAnswers
  <2>2. CASE \E r \in Releases : FetchElsewhere(r)
    BY <2>2 DEF FetchElsewhere
  <2>3. ASSUME NEW a \in Albums, OpenPage(a)
        PROVE  stored' = stored \/ \E r \in Releases :
                 mb[r] # Nothing /\ stored' = [stored EXCEPT ![r] = mb[r]]
    BY <2>3, GardenerConstants DEF OpenPage, cache
  <2>4. CASE Tick \/ StartSweep \/ Ask \/ FetchGone \/ FetchFails \/ SweepJudge \/ Digest \/ Unreadable
    BY <2>4 DEF Tick, StartSweep, Ask, FetchGone, FetchFails, SweepJudge, Digest, Unreadable, cache
  <2>5. CASE StartApply \/ PassStep \/ WriteFails \/ Claim
    BY <2>5 DEF StartApply, PassStep, Consider, WriteTags, PublishApplied, EndPass, WriteFails,
                Claim, cache
  <2>6. CASE ChooseSpelling \/ Route \/ Busy \/ Restart
    BY <2>6 DEF ChooseSpelling, Route, Busy, Restart, Deed, cache
  <2>7. CASE \/ \E a \in Albums : LookStep(a) \/ Edit(a) \/ Rescan(a) \/ Ignore(a)
             \/ \E r \in Releases : Moves(r)
    BY <2>7 DEF LookStep, ReadStored, RecordFlag, Edit, Rescan, Ignore, Moves, Deed, cache
  <2> QED BY <2>1, <2>2, <2>3, <2>4, <2>5, <2>6, <2>7 DEF Next, SweepStep
<1> QED BY <1>1, GardenerConstants DEF Stored, TypeOK

LEMMA PassUndisturbed ==
  ASSUME PassInv, Allowed, UNCHANGED <<files, short, edited, pass>>,
         \A a \in Albums : Stored(a) => Stored(a)'
  PROVE  PassInv' /\ Allowed'
<1>1. PassInv'
  BY DEF PassInv
<1>2. Allowed'
  BY DEF Allowed
<1> QED BY <1>1, <1>2

(***************************************************************************)
(* The pass's steps.                                                        *)
(***************************************************************************)
LEMMA BeginPass ==
  ASSUME TypeOK, StoredInv, PassInv, Allowed, StartApply \/ Claim \/ EndPass
  PROVE  TypeOK' /\ StoredInv' /\ PassInv' /\ Allowed'
<1>1. UNCHANGED <<mb, stored, files, short, edited, flag, setting, trust, sweep, looks, faults>>
  BY DEF StartApply, Claim, EndPass, choices, disc, cache
<1>2. StoredInv'
  BY <1>1 DEF StoredInv, Stored
<1>3. CASE pass' = pass
  <2>1. \A a \in Albums : Stored(a) => Stored(a)'
    BY <1>1 DEF Stored
  <2> QED BY <1>1, <1>2, <1>3, <2>1, PassUndisturbed DEF TypeOK
<1>4. CASE StartApply /\ pass' # pass
  <2>1. /\ trust # NoUpdate
        /\ pass' = [NoPass EXCEPT !.at = "next", !.trust = trust, !.spelt = setting,
                                  !.todo = DueForApply]
    BY <1>4 DEF StartApply
  <2>2. DueForApply \in SUBSET Albums
    BY DEF DueForApply
  <2>3. trust \in Levels \ {NoUpdate, Structure} /\ setting \in Spellings
    BY <2>1 DEF TypeOK
  <2>4. /\ pass' \in Passes /\ pass'.at = "next" /\ pass'.wrote = FALSE /\ pass'.trust = trust
    <3>1. NoPass \in Passes /\ NoPass.wrote = FALSE
      BY BlankTypes DEF NoPass
    <3> QED BY <2>1, <2>2, <2>3, <3>1 DEF Passes
  <2> QED BY <1>1, <1>2, <2>3, <2>4 DEF TypeOK, PassInv, Allowed
<1>5. CASE Claim
  <2>1. PICK chosen \in SUBSET Albums :
          pass' = [NoPass EXCEPT !.at = "next", !.kind = "chosen", !.todo = chosen,
                                 !.spelt = setting, !.shown = [a \in chosen |-> flag[a].version]]
    <3>1. ForReview \subseteq Albums
      BY DEF ForReview
    <3> QED BY <1>5, <3>1 DEF Claim
  <2>2. [a \in chosen |-> flag[a].version] \in Cards
    <3>1. \A a \in chosen : flag[a].version \in Versions
      BY DEF TypeOK, Flags
    <3>2. [a \in chosen |-> flag[a].version] \in [chosen -> Versions]
      BY <3>1
    <3> QED BY <3>2 DEF Cards
  <2> DEFINE cards == [a \in chosen |-> flag[a].version]
  <2> HIDE DEF cards
  <2>3. pass' \in Passes /\ pass'.at = "next" /\ pass'.wrote = FALSE /\ pass'.kind = "chosen"
    <3>1. NoPass \in Passes /\ NoPass.wrote = FALSE
      BY BlankTypes DEF NoPass
    <3>2. cards \in Cards /\ setting \in Spellings
      BY <2>2 DEF cards, TypeOK
    <3>3. pass' = [NoPass EXCEPT !.at = "next", !.kind = "chosen", !.todo = chosen,
                                 !.spelt = setting, !.shown = cards]
      BY <2>1 DEF cards
    <3> QED BY <3>1, <3>2, <3>3 DEF Passes
  <2> QED BY <1>1, <1>2, <2>3 DEF TypeOK, PassInv, Allowed
<1>6. CASE EndPass
  <2>1. pass' \in Passes /\ pass'.at = "idle" /\ pass'.wrote = FALSE
    BY <1>6, BlankTypes DEF EndPass, NoPass
  <2> QED BY <1>1, <1>2, <2>1 DEF TypeOK, PassInv, Allowed
<1> QED BY <1>3, <1>4, <1>5, <1>6

LEMMA ConsiderTypes ==
  ASSUME TypeOK, StoredInv, PassInv, Consider
  PROVE  TypeOK' /\ StoredInv' /\ PassInv' /\ Allowed'
<1>1. /\ UNCHANGED <<mb, stored, files, short, edited, setting, trust, sweep, looks, faults>>
      /\ pass.at = "next"
  BY DEF Consider, choices, disc, cache
<1>2. PICK a \in pass.todo :
        LET p == stored[ReleaseOf[a]]
            own == Own(a, pass.dead)
            gone == /\ pass.kind = "chosen"
                    /\ own.version # pass.shown[a] \/ own.level \in {NoUpdate, Structure}
            nothing == p # Nothing /\ Verdict(files[a], p, setting) = NoUpdate
            write == ~gone /\ p # Nothing /\ ~nothing /\ ~Refuses(a, p)
        IN /\ flag' = IF gone \/ p = Nothing THEN flag ELSE Recorded(a, p, pass.dead)
           /\ pass' = [pass EXCEPT !.at = IF write THEN "write" ELSE "publish",
                                   !.album = a, !.payload = p, !.wrote = FALSE,
                                   !.todo = @ \ {a}]
  BY DEF Consider
<1> DEFINE p == stored[ReleaseOf[a]]
<1>3. PICK at \in {"write", "publish"} :
        /\ pass' = [pass EXCEPT !.at = at, !.album = a, !.payload = p, !.wrote = FALSE,
                                !.todo = @ \ {a}]
        /\ at = "write" => p # Nothing /\ ~Refuses(a, p)
  BY <1>2
<1>4. flag' = flag \/ (p # Nothing /\ flag' = Recorded(a, p, pass.dead))
  BY <1>2
<1>5. pass \in Passes /\ a \in Albums /\ p \in Versions /\ (p # Nothing => Stored(a))
  BY GardenerConstants DEF TypeOK, Passes, Stored
<1> HIDE DEF p
<1>6. /\ pass' \in Passes /\ pass'.at = at /\ pass'.album = a /\ pass'.payload = p
      /\ pass'.wrote = FALSE /\ pass'.kind = pass.kind /\ pass'.trust = pass.trust
      /\ pass'.shown = pass.shown /\ pass'.dead = pass.dead
  BY <1>3, <1>5 DEF Passes
<1>7. /\ flag' \in [Albums -> Flags]
      /\ \A b \in Albums : flag'[b] = flag[b] \/ (b = a /\ Stored(a))
  <2>1. CASE flag' = flag
    BY <2>1 DEF TypeOK
  <2>2. CASE p # Nothing /\ flag' = Recorded(a, p, pass.dead)
    BY <1>5, <2>2, RecordedType DEF Versions, Recorded, TypeOK
  <2> QED BY <1>4, <2>1, <2>2
<1>8. TypeOK'
  BY <1>1, <1>6, <1>7 DEF TypeOK
<1>9. StoredInv'
  BY <1>1, <1>7 DEF StoredInv, Stored
<1>10. PassInv'
  BY <1>1, <1>3, <1>5, <1>6 DEF PassInv, Stored
<1>11. ASSUME at = "write" PROVE Allowed'
  <2>1. p \in Payloads /\ ~Refuses(a, p)
    BY <1>3, <1>5, <1>11 DEF Versions
  <2>2. CASE pass.kind = "auto"
    <3>1. Verdict(files[a], p, setting) <= pass.trust /\ a \notin short
      <4>1. ~(~Applies(Verdict(files[a], p, setting), pass.trust) \/ a \in short)
        BY <2>1, <2>2 DEF Refuses
      <4> QED BY <4>1 DEF Applies
    <3>2. /\ Verdict(files[a], p, setting) \in Int
          /\ Reach[<<files[a].of, p>>] \in Int
          /\ Reach[<<files[a].of, p>>] <= Verdict(files[a], p, setting)
      <4>1. files[a] \in Tags /\ setting \in Spellings
        BY <1>5 DEF TypeOK
      <4>2. /\ Verdict(files[a], p, setting) \in Levels
            /\ Reach[<<files[a].of, p>>] \in Levels
            /\ Reach[<<files[a].of, p>>] <= Verdict(files[a], p, setting)
        BY <2>1, <4>1, VerdictType
      <4> QED BY <4>2 DEF Levels, NoUpdate, Structure
    <3>3. pass.trust \in Int
      BY <1>5 DEF Passes, Levels, NoUpdate, Structure
    <3>4. Reach[<<files[a].of, p>>] <= pass.trust
      BY <3>1, <3>2, <3>3
    <3> QED BY <1>1, <1>6, <2>2, <3>1, <3>4 DEF Allowed
  <2>3. CASE pass.kind # "auto"
    BY <1>6, <2>1, <2>3 DEF Refuses, Allowed
  <2> QED BY <2>2, <2>3
<1>12. Allowed'
  <2>1. CASE at # "write"
    BY <1>6, <2>1 DEF Allowed
  <2> QED BY <1>11, <2>1
<1> QED BY <1>8, <1>9, <1>10, <1>12

LEMMA WriteTypes ==
  ASSUME TypeOK, StoredInv, PassInv, WriteTags \/ WriteFails
  PROVE  TypeOK' /\ StoredInv' /\ PassInv' /\ Allowed'
<1> DEFINE a == pass.album
<1>1. /\ UNCHANGED <<mb, stored, short, edited, setting, trust, sweep, looks>>
      /\ pass.at = "write" /\ faults' \in Nat
  <2>1. UNCHANGED <<mb, stored, short, edited, setting, trust, sweep, looks>> /\ pass.at = "write"
    BY DEF WriteTags, WriteFails, choices, disc, cache
  <2>2. faults' = faults \/ faults' = faults + 1
    BY DEF WriteTags, WriteFails
  <2> QED BY <2>1, <2>2 DEF TypeOK
<1>2. pass \in Passes /\ a \in Albums /\ pass.payload \in Payloads /\ Stored(a)
      /\ pass.spelt \in Spellings
  BY <1>1 DEF TypeOK, Passes, PassInv, Versions
<1> HIDE DEF a
<1>3. /\ pass' \in Passes /\ pass'.at = "publish" /\ pass'.album = a
      /\ pass'.kind = pass.kind /\ pass'.trust = pass.trust
  <2>1. (files' # files) \in BOOLEAN /\ pass.wrote \in BOOLEAN /\ pass.album = a
    BY <1>2 DEF Passes, a
  <2>2. PICK wrote \in BOOLEAN : pass' = [pass EXCEPT !.at = "publish", !.wrote = wrote]
    <3>1. CASE WriteTags
      BY <2>1, <3>1 DEF WriteTags
    <3>2. CASE WriteFails
      <4>1. pass' = [pass EXCEPT !.at = "publish", !.wrote = pass.wrote]
        BY <1>2, <3>2 DEF WriteFails, Passes
      <4> QED BY <2>1, <4>1
    <3> QED BY <3>1, <3>2
  <2> QED BY <1>2, <2>1, <2>2 DEF Passes
<1>4. files' \in [Albums -> Tags]
  <2>1. CASE WriteFails
    BY <2>1 DEF WriteFails, TypeOK
  <2>2. CASE WriteTags
    <3>1. [of |-> pass.payload, spelt |-> pass.spelt] \in Tags
      BY <1>2 DEF Tags
    <3> QED BY <2>2, <3>1 DEF WriteTags, TypeOK
  <2> QED BY <2>1, <2>2
<1>5. /\ flag' \in [Albums -> Flags]
      /\ \A b \in Albums : flag'[b] = flag[b] \/ b = a
  <2>1. CASE WriteFails
    <3>1. flag' = Recorded(a, pass.payload, pass.dead)
      BY <2>1 DEF WriteFails, a
    <3>2. Recorded(a, pass.payload, pass.dead) \in [Albums -> Flags]
      BY <1>2, RecordedType
    <3> QED BY <1>2, <3>1, <3>2 DEF Recorded, TypeOK
  <2>2. CASE WriteTags
    <3>1. Verdict(files'[a], pass.payload, setting) \in Levels
      BY <1>2, <1>4, VerdictType DEF TypeOK
    <3>2. [version |-> pass.payload, level |-> Verdict(files'[a], pass.payload, setting)] \in Flags
      BY <1>2, <3>1 DEF Flags, Versions
    <3>3. \/ flag' = flag
          \/ flag' = [flag EXCEPT ![a] = [version |-> pass.payload,
                        level |-> Verdict(files'[a], pass.payload, setting)]]
      BY <2>2 DEF WriteTags, a
    <3> QED BY <3>2, <3>3 DEF TypeOK
  <2> QED BY <2>1, <2>2
<1>6. TypeOK'
  BY <1>1, <1>3, <1>4, <1>5 DEF TypeOK
<1>7. StoredInv'
  BY <1>1, <1>2, <1>5 DEF StoredInv, Stored
<1>8. PassInv'
  BY <1>1, <1>2, <1>3 DEF PassInv
<1>9. Allowed'
  BY <1>3 DEF Allowed
<1> QED BY <1>6, <1>7, <1>8, <1>9


LEMMA PublishTypes ==
  ASSUME TypeOK, StoredInv, PassInv, PublishApplied
  PROVE  TypeOK' /\ StoredInv' /\ PassInv' /\ Allowed'
<1> DEFINE a == pass.album
<1>1. /\ UNCHANGED <<mb, stored, short, files, setting, trust, faults>>
      /\ pass.at = "publish"
      /\ pass' = [pass EXCEPT !.at = "next", !.album = Nothing, !.payload = Nothing, !.wrote = FALSE]
      /\ Rebuild(a) \/ UNCHANGED <<flag, looks, sweep, edited>>
  BY DEF PublishApplied, choices, cache
<1>2. pass \in Passes /\ a \in Albums
  BY <1>1 DEF TypeOK, PassInv
<1>3. /\ pass' \in Passes /\ pass'.at = "next" /\ pass'.wrote = FALSE
      /\ pass'.kind = pass.kind /\ pass'.trust = pass.trust
  BY <1>1, <1>2 DEF Passes, Versions
<1> HIDE DEF a
<1>4. PassInv' /\ Allowed'
  BY <1>1, <1>3 DEF PassInv, Allowed
<1>5. CASE UNCHANGED <<flag, looks, sweep, edited>>
  BY <1>1, <1>3, <1>4, <1>5 DEF TypeOK, StoredInv, Stored
<1>6. CASE Rebuild(a)
  <2>1. /\ flag' \in [Albums -> Flags] /\ looks' \in SUBSET Looks /\ sweep' \in Sweeps
        /\ edited' \in SUBSET Albums
    BY <1>2, <1>6, RebuildTypes
  <2>2. StoredInv'
    BY <1>1, <1>2, <1>6, RebuildStored
  <2>3. TypeOK'
    BY <1>1, <1>3, <2>1 DEF TypeOK
  <2> QED BY <1>4, <2>2, <2>3
<1> QED BY <1>1, <1>5, <1>6

(***************************************************************************)
(* MusicBrainz, the owner's other tools, and the user.                      *)
(***************************************************************************)
LEMMA UserTypes ==
  ASSUME TypeOK, StoredInv, PassInv, Allowed,
         \/ ChooseSpelling \/ Route \/ Busy
         \/ \E a \in Albums : Ignore(a)
         \/ \E r \in Releases : Moves(r)
  PROVE  TypeOK' /\ StoredInv' /\ PassInv' /\ Allowed'
<1>1. UNCHANGED <<stored, files, short, edited, flag, sweep, pass, faults>>
  BY DEF ChooseSpelling, Route, Busy, Ignore, Moves, Deed, disc, cache
<1>2. \A a \in Albums : Stored(a) => Stored(a)'
  BY <1>1 DEF Stored
<1>3. PassInv' /\ Allowed'
  BY <1>1, <1>2, PassUndisturbed
<1>4. mb' \in [Releases -> Versions]
  <2>1. CASE mb' = mb
    BY <2>1 DEF TypeOK
  <2>2. CASE \E r \in Releases : Moves(r)
    <3>1. PICK r \in Releases, p \in Versions : mb' = [mb EXCEPT ![r] = p]
      BY <2>2 DEF Moves
    <3> QED BY <3>1 DEF TypeOK
  <2>3. mb' = mb \/ \E r \in Releases : Moves(r)
    BY DEF ChooseSpelling, Route, Busy, Ignore, Deed
  <2> QED BY <2>1, <2>2, <2>3
<1>5. setting' \in Spellings
  BY DEF ChooseSpelling, Route, Busy, Ignore, Moves, Deed, TypeOK, choices
<1>6. trust' \in Levels \ {Structure}
  <2>1. CASE Route
    <3>1. PICK r \in Routings : trust' = r.apply
      BY <2>1 DEF Route
    <3> QED BY <3>1, GardenerConstants
  <2>2. CASE trust' = trust
    BY <2>2 DEF TypeOK
  <2> QED BY <2>1, <2>2 DEF ChooseSpelling, Busy, Ignore, Moves, choices
<1>7. /\ looks' \in SUBSET Looks
      /\ \A l \in looks' : l \in looks \/ ~l.got.read
  <2>1. CASE looks' = looks
    BY <2>1 DEF TypeOK
  <2>2. CASE ChooseSpelling
    <3>1. \A a \in Albums : [album |-> a, got |-> Unread] \in Looks
      BY DEF Looks, Unread, Versions
    <3>2. \A a \in Albums : ~[album |-> a, got |-> Unread].got.read
      BY DEF Unread
    <3>3. looks' = looks \cup {[album |-> a, got |-> Unread] :
                                 a \in {b \in Albums : stored[ReleaseOf[b]] # Nothing}}
      BY <2>2 DEF ChooseSpelling
    <3> QED BY <3>1, <3>2, <3>3 DEF TypeOK
  <2> QED BY <2>1, <2>2 DEF Route, Busy, Ignore, Moves
<1>8. TypeOK'
  BY <1>1, <1>4, <1>5, <1>6, <1>7 DEF TypeOK
<1>9. StoredInv'
  BY <1>1, <1>7 DEF StoredInv, Stored
<1> QED BY <1>3, <1>8, <1>9

LEMMA EditTypes ==
  ASSUME TypeOK, StoredInv, PassInv, Allowed, NEW a \in Albums, Edit(a)
  PROVE  TypeOK' /\ StoredInv' /\ PassInv' /\ Allowed'
<1>1. /\ UNCHANGED <<mb, stored, flag, setting, trust, sweep, pass, looks, faults>>
      /\ edited' = edited \cup {a}
  BY DEF Edit, Deed, cache
<1>2. files' \in [Albums -> Tags] /\ short' \in SUBSET Albums
      /\ \A b \in Albums \ {a} : files'[b] = files[b] /\ (b \in short' <=> b \in short)
  <2>1. CASE files' = files /\ short' = short \cup {a}
    BY <2>1 DEF TypeOK
  <2>2. CASE /\ mb[ReleaseOf[a]] \notin {Nothing, files[a].of}
             /\ files' = [files EXCEPT ![a].of = mb[ReleaseOf[a]]] /\ short' = short
    <3> DEFINE p == mb[ReleaseOf[a]]
    <3>1. p \in Payloads
      BY <2>2, GardenerConstants DEF TypeOK, Versions
    <3>2. files' = [files EXCEPT ![a].of = p]
      BY <2>2
    <3> HIDE DEF p
    <3>3. [files[a] EXCEPT !.of = p] \in Tags
      BY <3>1 DEF TypeOK, Tags
    <3> QED BY <2>2, <3>2, <3>3 DEF TypeOK
  <2> QED BY <2>1, <2>2 DEF Edit
<1>3. TypeOK'
  BY <1>1, <1>2 DEF TypeOK
<1>4. StoredInv'
  BY <1>1 DEF StoredInv, Stored
<1>5. PassInv'
  BY <1>1 DEF PassInv, Stored
<1>6. Allowed'
  <2>1. pass.at = "write" => pass.album \in Albums
    BY DEF PassInv
  <2>2. CASE pass.album = a
    BY <1>1, <2>2 DEF Allowed
  <2>3. CASE pass.album # a
    BY <1>1, <1>2, <2>1, <2>3 DEF Allowed
  <2> QED BY <2>2, <2>3
<1> QED BY <1>3, <1>4, <1>5, <1>6

LEMMA RescanTypes ==
  ASSUME TypeOK, StoredInv, PassInv, Allowed, NEW a \in Albums, Rescan(a)
  PROVE  TypeOK' /\ StoredInv' /\ PassInv' /\ Allowed'
<1>1. /\ UNCHANGED <<mb, stored, files, short, setting, trust, faults>>
      /\ Rebuild(a) /\ edited' = edited \ {a}
      /\ pass' = [pass EXCEPT !.dead = IF pass.at = "idle" THEN @ ELSE Replaced(@, a)]
  BY DEF Rescan, Rebuild, choices, cache
<1>2. pass \in Passes /\ Replaced(pass.dead, a) \in SUBSET Deads
  BY OwnType DEF TypeOK, Passes
<1>3. /\ pass' \in Passes /\ pass'.at = pass.at /\ pass'.kind = pass.kind
      /\ pass'.album = pass.album /\ pass'.payload = pass.payload /\ pass'.wrote = pass.wrote
      /\ pass'.trust = pass.trust /\ pass'.shown = pass.shown
      /\ pass.at # "idle" => pass'.dead = Replaced(pass.dead, a)
  BY <1>1, <1>2 DEF Passes
<1>4. /\ flag' \in [Albums -> Flags] /\ looks' \in SUBSET Looks /\ sweep' \in Sweeps
      /\ edited' \in SUBSET Albums
  BY <1>1, RebuildTypes
<1>5. StoredInv'
  BY <1>1, RebuildStored
<1>6. TypeOK'
  BY <1>1, <1>3, <1>4 DEF TypeOK
<1>7. PassInv'
  BY <1>1, <1>3 DEF PassInv, Stored
<1>8. IsDead(a, Replaced(pass.dead, a))
      /\ \A b : IsDead(b, pass.dead) => IsDead(b, Replaced(pass.dead, a))
  <2>1. pass.dead \subseteq Replaced(pass.dead, a)
    BY DEF Replaced
  <2>2. CASE IsDead(a, pass.dead)
    BY <2>1, <2>2 DEF IsDead
  <2>3. CASE ~IsDead(a, pass.dead)
    <3>1. [album |-> a, flag |-> flag[a]] \in Replaced(pass.dead, a)
      BY <2>3 DEF IsDead, Replaced
    <3> QED BY <2>1, <3>1 DEF IsDead
  <2> QED BY <2>2, <2>3
<1>9. Allowed'
  <2>1. CASE pass.at = "write" /\ pass.album = a
    BY <1>1, <1>3, <1>8, <2>1 DEF Allowed
  <2>2. CASE pass.at = "write" /\ pass.album # a
    BY <1>1, <1>3, <1>8, <2>2 DEF Allowed
  <2> QED BY <1>3, <2>1, <2>2 DEF Allowed
<1> QED BY <1>5, <1>6, <1>7, <1>9

LEMMA RestartTypes ==
  ASSUME TypeOK, StoredInv, Restart
  PROVE  TypeOK' /\ StoredInv' /\ PassInv' /\ Allowed'
<1>1. /\ UNCHANGED <<mb, stored, files, short, setting, trust, faults>>
      /\ flag' = [a \in Albums |-> Blank] /\ edited' = {} /\ sweep' = NoSweep /\ pass' = NoPass
      /\ looks' = {[album |-> a, got |-> Unread] : a \in Albums}
  BY DEF Restart, cache
<1>2. \A a \in Albums : [album |-> a, got |-> Unread] \in Looks
  BY DEF Looks, Unread, Versions
<1>3. TypeOK'
  BY <1>1, <1>2, BlankTypes DEF TypeOK
<1>4. StoredInv'
  BY <1>1 DEF StoredInv, NoSweep, Unread, Blank
<1> QED BY <1>1, <1>3, <1>4 DEF PassInv, Allowed, NoPass


(***************************************************************************)
(* A flag stays honest: it is left alone with what it was judged by, or it  *)
(* is judged anew.                                                          *)
(***************************************************************************)
LEMMA LeftAlone ==
  ASSUME NEW a \in Albums, Honest(a), flag'[a] = flag[a], files'[a] = files[a],
         setting' = setting, a \in edited => a \in edited',
         pass.wrote /\ pass.album = a => pass'.wrote /\ pass'.album = a,
         faults' = 0 => faults = 0,
         faults' = 0 /\ Looked(a) => Looked(a)' \/ flag[a].version = Nothing
  PROVE  Honest(a)'
<1>1. Faithful(a)' = Faithful(a) /\ Strict(a)' = Strict(a)
  BY DEF Faithful, Strict
<1> QED BY <1>1 DEF Honest

LEMMA JudgedAnew ==
  ASSUME NEW a \in Albums, NEW p \in Payloads, files'[a] \in Tags, setting' \in Spellings,
         flag'[a] = [version |-> p, level |-> Verdict(files'[a], p, setting')]
  PROVE  Honest(a)'
<1>1. /\ flag'[a].version = p
      /\ flag'[a].level = Verdict(files'[a], p, setting')
  OBVIOUS
<1>2. Strict(a)'
  BY <1>1 DEF Strict
<1>3. Max({Verdict(files'[a], p, setting'), Settings}) = Max({Reach[<<files'[a].of, p>>], Settings})
  BY VerdictType
<1>4. Faithful(a)'
  BY <1>1, <1>3 DEF Faithful
<1> QED BY <1>2, <1>4 DEF Honest

\* Recording a verdict leaves the flags of other albums alone, and this one's too
\* when the object was replaced.
LEMMA RecordedHonest ==
  ASSUME TypeOK, HonestInv, NEW a \in Albums, NEW p \in Payloads, NEW dead,
         flag' = flag \/ flag' = Recorded(a, p, dead), UNCHANGED <<files, setting, edited>>,
         pass.wrote => pass'.wrote /\ pass'.album = pass.album,
         faults' = 0 => faults = 0,
         flag' = Recorded(a, p, {}) \/ Looked(a) = Looked(a)',
         faults' = 0 => \A b \in Albums \ {a} : Looked(b) => Looked(b)'
  PROVE  HonestInv'
<1>1. ASSUME NEW b \in Albums, b # a PROVE Honest(b)'
  <2>1. flag'[b] = flag[b] /\ Honest(b)
    BY <1>1 DEF Recorded, TypeOK, HonestInv
  <2> QED BY <1>1, <2>1, LeftAlone
<1>2. Honest(a)'
  <2>1. \/ flag' = [flag EXCEPT ![a] = Judged(a, p)]
        \/ flag' = flag /\ (Looked(a) => Looked(a)')
    BY DEF Recorded
  <2>2. CASE flag' = [flag EXCEPT ![a] = Judged(a, p)]
    <3>1. flag'[a] = [version |-> p, level |-> Verdict(files'[a], p, setting')]
      BY <2>2 DEF Judged, TypeOK
    <3>2. files'[a] \in Tags /\ setting' \in Spellings
      BY DEF TypeOK
    <3> QED BY <3>1, <3>2, JudgedAnew
  <2>3. CASE flag' = flag /\ (Looked(a) => Looked(a)')
    <3>1. Honest(a)
      BY DEF HonestInv
    <3> QED BY <2>3, <3>1, LeftAlone
  <2> QED BY <2>1, <2>2, <2>3
<1> QED BY <1>1, <1>2 DEF HonestInv

\* Nothing that a flag was judged by changes.
LEMMA NothingJudged ==
  ASSUME HonestInv, UNCHANGED <<flag, files, setting>>, edited \subseteq edited',
         pass.wrote => pass'.wrote /\ pass'.album = pass.album,
         faults' = 0 => faults = 0,
         faults' = 0 => \A a \in Albums : Looked(a) => Looked(a)' \/ flag[a].version = Nothing
  PROVE  HonestInv'
<1>1. ASSUME NEW a \in Albums PROVE Honest(a)'
  <2>1. Honest(a)
    BY DEF HonestInv
  <2> QED BY <2>1, LeftAlone
<1> QED BY <1>1 DEF HonestInv

\* An album read again is another object, with no flag yet.
LEMMA RebuildHonest ==
  ASSUME TypeOK, HonestInv, NEW a \in Albums, Rebuild(a), UNCHANGED <<files, setting, faults>>,
         pass.wrote /\ pass.album # a => pass'.wrote /\ pass'.album = pass.album
  PROVE  HonestInv'
<1>1. /\ flag' = [flag EXCEPT ![a] = Blank] /\ edited' = edited \ {a}
      /\ looks' = {l \in looks : l.album # a} \cup {[album |-> a, got |-> Unread]}
  BY DEF Rebuild
<1>2. Honest(a)'
  BY <1>1 DEF Honest, Blank, TypeOK
<1>3. ASSUME NEW b \in Albums, b # a PROVE Honest(b)'
  <2>1. flag'[b] = flag[b] /\ Honest(b)
    BY <1>1, <1>3 DEF TypeOK, HonestInv
  <2>2. Looked(b) => Looked(b)'
    BY <1>1, <1>3 DEF Looked
  <2> QED BY <1>1, <1>3, <2>1, <2>2, LeftAlone
<1> QED BY <1>2, <1>3 DEF HonestInv


LEMMA QuietHonest ==
  ASSUME TypeOK, StoredInv, PassInv, HonestInv,
         \/ Tick \/ StartSweep \/ Ask \/ FetchGone \/ FetchFails \/ FetchAnswers \/ Digest
         \/ Unreadable \/ StartApply \/ Claim \/ EndPass \/ Route \/ Busy
         \/ \E l \in looks : ReadStored(l)
         \/ \E a \in Albums : OpenPage(a) \/ Ignore(a)
         \/ \E r \in Releases : FetchElsewhere(r) \/ Moves(r)
  PROVE  HonestInv'
<1>1. CASE Tick \/ StartSweep \/ Ask \/ FetchGone \/ FetchAnswers \/ Digest
  <2>1. UNCHANGED <<flag, files, setting, edited, pass, faults, looks>>
    BY <1>1 DEF Tick, StartSweep, Ask, FetchGone, FetchAnswers, Digest, choices, disc
  <2>2. \A a \in Albums : Looked(a) => Looked(a)'
    BY <2>1 DEF Looked
  <2> QED BY <2>1, <2>2, NothingJudged
<1>2. CASE FetchFails \/ Unreadable
  <2>1. UNCHANGED <<flag, files, setting, edited, pass>> /\ faults' = faults + 1
    BY <1>2 DEF FetchFails, Unreadable, choices, disc
  <2>2. faults' # 0
    BY <2>1 DEF TypeOK
  <2> QED BY <2>1, <2>2, NothingJudged
<1>3. CASE StartApply \/ Claim \/ EndPass
  <2>1. UNCHANGED <<flag, files, setting, edited, looks, faults>>
    BY <1>3 DEF StartApply, Claim, EndPass, choices, disc
  <2>2. pass' = pass \/ ~pass.wrote
    BY <1>3 DEF StartApply, Claim, EndPass, PassInv
  <2>3. \A a \in Albums : Looked(a) => Looked(a)'
    BY <2>1 DEF Looked
  <2> QED BY <2>1, <2>2, <2>3, NothingJudged
<1>4. CASE Route \/ Busy \/ \E a \in Albums : Ignore(a)
  <2>1. UNCHANGED <<flag, files, setting, edited, pass, faults, looks>>
    BY <1>4 DEF Route, Busy, Ignore, Deed, disc
  <2>2. \A a \in Albums : Looked(a) => Looked(a)'
    BY <2>1 DEF Looked
  <2> QED BY <2>1, <2>2, NothingJudged
<1>5. ASSUME NEW l \in looks, ReadStored(l) PROVE HonestInv'
  <2> DEFINE p == stored[ReleaseOf[l.album]]
             read == [l EXCEPT !.got = [read |-> TRUE, payload |-> p]]
  <2>1. UNCHANGED <<flag, files, setting, edited, pass, faults>>
    BY <1>5 DEF ReadStored, choices, disc
  <2>2. \/ p = Nothing /\ looks' = looks \ {l}
        \/ p # Nothing /\ looks' = (looks \ {l}) \cup {read}
    BY <1>5 DEF ReadStored
  <2>3. l \in Looks /\ read.album = l.album /\ p = stored[ReleaseOf[l.album]]
    BY DEF TypeOK, Looks
  <2> HIDE DEF p, read
  <2>4. ASSUME NEW a \in Albums, Looked(a) PROVE Looked(a)' \/ flag[a].version = Nothing
    <3>1. CASE a = l.album /\ p = Nothing
      BY <2>3, <3>1 DEF StoredInv, Stored
    <3>2. CASE a = l.album /\ p # Nothing
      BY <2>2, <2>3, <3>2 DEF Looked
    <3>3. CASE a # l.album
      BY <2>2, <2>4, <3>3 DEF Looked
    <3> QED BY <3>1, <3>2, <3>3
  <2> QED BY <2>1, <2>4, NothingJudged
<1>6. CASE \E a \in Albums : OpenPage(a)
  <2>1. UNCHANGED <<flag, files, setting, edited, pass, faults>> /\ looks \subseteq looks'
    BY <1>6 DEF OpenPage, disc
  <2>2. \A a \in Albums : Looked(a) => Looked(a)'
    BY <2>1 DEF Looked
  <2> QED BY <2>1, <2>2, NothingJudged
<1>7. CASE \E r \in Releases : FetchElsewhere(r) \/ Moves(r)
  <2>1. UNCHANGED <<flag, files, setting, edited, pass, faults, looks>>
    BY <1>7 DEF FetchElsewhere, Moves, choices, disc
  <2>2. \A a \in Albums : Looked(a) => Looked(a)'
    BY <2>1 DEF Looked
  <2> QED BY <2>1, <2>2, NothingJudged
<1> QED BY <1>1, <1>2, <1>3, <1>4, <1>5, <1>6, <1>7

LEMMA JudgingHonest ==
  ASSUME TypeOK, StoredInv, PassInv, HonestInv,
         SweepJudge \/ Consider \/ WriteFails \/ \E l \in looks : RecordFlag(l)
  PROVE  HonestInv'
<1>1. UNCHANGED <<files, setting, edited>>
  BY DEF SweepJudge, Consider, WriteFails, RecordFlag, choices, disc
<1>2. CASE SweepJudge
  <2>1. PICK a \in sweep.albums : flag' = Recorded(a, sweep.payload, sweep.dead)
    BY <1>2 DEF SweepJudge
  <2>2. a \in Albums /\ sweep.payload \in Payloads
    BY <1>2 DEF SweepJudge, TypeOK, StoredInv, Sweeps, Versions
  <2>3. UNCHANGED <<pass, faults, looks>>
    BY <1>2 DEF SweepJudge
  <2>4. \A b \in Albums : Looked(b)' = Looked(b)
    BY <2>3 DEF Looked
  <2> QED BY <1>1, <2>1, <2>2, <2>3, <2>4, RecordedHonest
<1>3. CASE Consider
  <2>1. UNCHANGED <<faults, looks>> /\ ~pass.wrote
    BY <1>3 DEF Consider, PassInv
  <2>2. \A b \in Albums : Looked(b)' = Looked(b)
    BY <2>1 DEF Looked
  <2>3. PICK a \in pass.todo :
          \/ flag' = flag
          \/ /\ stored[ReleaseOf[a]] # Nothing
             /\ flag' = Recorded(a, stored[ReleaseOf[a]], pass.dead)
    BY <1>3 DEF Consider
  <2>4. CASE flag' = flag
    BY <1>1, <2>1, <2>2, <2>4, NothingJudged
  <2>5. CASE flag' # flag
    <3>1. a \in Albums /\ stored[ReleaseOf[a]] \in Payloads
      BY <2>3, <2>5, GardenerConstants DEF TypeOK, Passes, Versions
    <3> QED BY <1>1, <2>1, <2>2, <2>3, <2>5, <3>1, RecordedHonest
  <2> QED BY <2>4, <2>5
<1>4. CASE WriteFails
  <2>1. /\ looks' = looks /\ ~pass.wrote /\ pass.album \in Albums /\ pass.payload \in Payloads
        /\ flag' = Recorded(pass.album, pass.payload, pass.dead)
    BY <1>4 DEF WriteFails, PassInv, TypeOK, Passes, Versions
  <2>2. faults' = 0 => faults = 0
    BY <1>4 DEF WriteFails, TypeOK
  <2>3. \A b \in Albums : Looked(b)' = Looked(b)
    BY <2>1 DEF Looked
  <2> QED BY <1>1, <2>1, <2>2, <2>3, RecordedHonest
<1>5. ASSUME NEW l \in looks, RecordFlag(l) PROVE HonestInv'
  <2>1. l.album \in Albums /\ l.got.payload \in Payloads
    BY <1>5 DEF RecordFlag, StoredInv, TypeOK, Looks, Versions
  <2>2. /\ flag' = Recorded(l.album, l.got.payload, {}) /\ looks' = looks \ {l}
        /\ UNCHANGED <<pass, faults>>
    BY <1>5 DEF RecordFlag
  <2>3. \A b \in Albums \ {l.album} : Looked(b) => Looked(b)'
    BY <2>2 DEF Looked
  <2> QED BY <1>1, <2>1, <2>2, <2>3, RecordedHonest
<1> QED BY <1>2, <1>3, <1>4, <1>5

LEMMA WriteHonest ==
  ASSUME TypeOK, StoredInv, PassInv, HonestInv, WriteTags
  PROVE  HonestInv'
<1>0. PICK a \in Albums : a = pass.album
  BY DEF WriteTags, PassInv
<1>1. /\ UNCHANGED <<setting, edited, looks, faults>> /\ pass.at = "write"
      /\ files' = [files EXCEPT ![a] = [of |-> pass.payload, spelt |-> pass.spelt]]
      /\ pass' = [pass EXCEPT !.at = "publish", !.wrote = files' # files]
      /\ \/ flag' = flag
         \/ flag' = [flag EXCEPT ![a] = [version |-> pass.payload,
                       level |-> Verdict(files'[a], pass.payload, setting)]]
  BY <1>0 DEF WriteTags, disc
<1>2. /\ pass.payload \in Payloads /\ ~pass.wrote
      /\ pass.spelt \in Spellings
  BY <1>1 DEF PassInv, TypeOK, Passes, Versions
<1>3. pass'.album = a /\ (files' # files => pass'.wrote)
  BY <1>0, <1>1 DEF TypeOK, Passes
<1>4. ASSUME NEW b \in Albums, b # a PROVE Honest(b)'
  <2>1. flag'[b] = flag[b] /\ files'[b] = files[b] /\ Honest(b)
    BY <1>1, <1>4 DEF TypeOK, HonestInv
  <2>2. Looked(b) => Looked(b)'
    BY <1>1 DEF Looked
  <2> QED BY <1>1, <1>2, <2>1, <2>2, LeftAlone
<1>5. Honest(a)'
  <2>1. CASE files' # files
    BY <1>3, <2>1 DEF Honest
  <2>2. CASE files' = files /\ flag' = flag
    <3>1. Looked(a) => Looked(a)'
      BY <1>1 DEF Looked
    <3>2. Honest(a)
      BY DEF HonestInv
    <3> QED BY <1>1, <1>2, <2>2, <3>1, <3>2, LeftAlone
  <2>3. CASE flag' = [flag EXCEPT ![a] = [version |-> pass.payload,
                        level |-> Verdict(files'[a], pass.payload, setting)]]
    <3>1. [of |-> pass.payload, spelt |-> pass.spelt] \in Tags
      BY <1>2 DEF Tags
    <3>2. files'[a] \in Tags /\ setting' \in Spellings
      BY <1>1, <1>2, <3>1 DEF TypeOK
    <3>3. flag'[a] = [version |-> pass.payload,
                      level |-> Verdict(files'[a], pass.payload, setting')]
      BY <1>1, <1>2, <2>3 DEF TypeOK
    <3> QED BY <1>2, <3>2, <3>3, JudgedAnew
  <2> QED BY <1>1, <2>1, <2>2, <2>3
<1> QED BY <1>4, <1>5 DEF HonestInv

LEMMA ChangeHonest ==
  ASSUME TypeOK, StoredInv, PassInv, HonestInv,
         \/ PublishApplied \/ ChooseSpelling \/ Restart
         \/ \E a \in Albums : Edit(a) \/ Rescan(a)
  PROVE  HonestInv'
<1>1. CASE PublishApplied
  <2>1. UNCHANGED <<files, setting, faults>> /\ pass.album \in Albums
    BY <1>1 DEF PublishApplied, PassInv, choices
  <2>2. CASE pass.wrote \/ pass.album \in edited
    <3>1. Rebuild(pass.album)
      BY <1>1, <2>2 DEF PublishApplied
    <3>2. ~(pass.wrote /\ pass.album # pass.album)
      OBVIOUS
    <3> QED BY <2>1, <3>1, <3>2, RebuildHonest
  <2>3. CASE ~pass.wrote /\ pass.album \notin edited
    <3>1. UNCHANGED <<flag, looks, edited>>
      BY <1>1, <2>3 DEF PublishApplied
    <3>2. \A a \in Albums : Looked(a) => Looked(a)'
      BY <3>1 DEF Looked
    <3> QED BY <2>1, <2>3, <3>1, <3>2, NothingJudged
  <2> QED BY <2>2, <2>3
<1>2. CASE ChooseSpelling
  <2>1. /\ UNCHANGED <<flag, files, edited, pass, faults>>
        /\ looks' = looks \cup {[album |-> a, got |-> Unread] :
                                  a \in {b \in Albums : stored[ReleaseOf[b]] # Nothing}}
    BY <1>2 DEF ChooseSpelling, Deed, disc
  <2>2. ASSUME NEW a \in Albums PROVE Honest(a)'
    <3>1. CASE flag[a].version = Nothing
      BY <2>1, <3>1 DEF Honest
    <3>2. CASE flag[a].version # Nothing
      <4>1. [album |-> a, got |-> Unread] \in looks'
        BY <2>1, <3>2 DEF StoredInv, Stored
      <4>2. Looked(a)'
        BY <4>1 DEF Looked
      <4>3. Faithful(a)' = Faithful(a) /\ Honest(a)
        BY <2>1 DEF Faithful, HonestInv
      <4> QED BY <2>1, <3>2, <4>2, <4>3 DEF Honest
    <3> QED BY <3>1, <3>2
  <2> QED BY <2>2 DEF HonestInv
<1>3. CASE Restart
  BY <1>3 DEF Restart, HonestInv, Honest, Blank
<1>4. ASSUME NEW a \in Albums, Edit(a) PROVE HonestInv'
  <2>1. /\ UNCHANGED <<flag, setting, pass, looks, faults>> /\ edited' = edited \cup {a}
        /\ \A b \in Albums \ {a} : files'[b] = files[b]
    BY <1>4 DEF Edit, Deed, TypeOK
  <2>2. Honest(a)'
    BY <2>1 DEF Honest
  <2>3. ASSUME NEW b \in Albums, b # a PROVE Honest(b)'
    <3>1. Honest(b) /\ (Looked(b) => Looked(b)')
      BY <2>1 DEF HonestInv, Looked
    <3> QED BY <2>1, <2>3, <3>1, LeftAlone
  <2> QED BY <2>2, <2>3 DEF HonestInv
<1>5. ASSUME NEW a \in Albums, Rescan(a) PROVE HonestInv'
  <2>1. /\ UNCHANGED <<files, setting, faults>> /\ Rebuild(a)
        /\ pass'.wrote = pass.wrote /\ pass'.album = pass.album
    BY <1>5 DEF Rescan, choices, TypeOK, Passes
  <2> QED BY <2>1, RebuildHonest
<1> QED BY <1>1, <1>2, <1>3, <1>4, <1>5


(***************************************************************************)
(* The inductive invariant.                                                 *)
(***************************************************************************)
LEMMA GardenInit ==
  ASSUME Init
  PROVE  TypeOK /\ GardenInv
<1>1. /\ mb \in [Releases -> Published] /\ stored = [r \in Releases |-> Nothing]
      /\ files \in [Albums -> [of : TaggedFrom, spelt : {"release"}]]
      /\ short = {} /\ edited = {} /\ flag = [a \in Albums |-> Blank] /\ setting = "release"
      /\ sweep = NoSweep /\ pass = NoPass /\ looks = {} /\ faults = 0
  BY DEF Init
<1>2. trust \in Levels \ {Structure}
  BY GardenerConstants DEF Init
<1>3. /\ mb \in [Releases -> Versions] /\ files \in [Albums -> Tags]
      /\ stored \in [Releases -> Versions]
  <2>1. Published \subseteq Versions
    BY GardenerConstants DEF Versions
  <2>2. [of : TaggedFrom, spelt : {"release"}] \subseteq Tags
    BY GardenerConstants DEF Tags, Spellings
  <2>3. Nothing \in Versions
    BY DEF Versions
  <2> QED BY <1>1, <2>1, <2>2, <2>3
<1>4. TypeOK
  BY <1>1, <1>2, <1>3, BlankTypes DEF TypeOK, Spellings
<1>5. StoredInv
  BY <1>1 DEF StoredInv, NoSweep, Blank
<1>6. PassInv /\ Allowed
  BY <1>1 DEF PassInv, Allowed, NoPass
<1>7. HonestInv
  BY <1>1 DEF HonestInv, Honest, Blank
<1> QED BY <1>4, <1>5, <1>6, <1>7 DEF GardenInv

LEMMA GardenStep ==
  ASSUME TypeOK, GardenInv, Next
  PROVE  TypeOK' /\ GardenInv'
<1>1. StoredInv /\ PassInv /\ Allowed /\ HonestInv
  BY DEF GardenInv
<1>2. \A a \in Albums : Stored(a) => Stored(a)'
  BY StoredKept
<1>3. CASE Tick \/ StartSweep \/ Ask \/ FetchGone \/ FetchFails \/ FetchAnswers \/ Digest
  <2>1. UNCHANGED <<files, short, edited, pass>>
    BY <1>3 DEF Tick, StartSweep, Ask, FetchGone, FetchFails, FetchAnswers, Digest, disc
  <2> QED BY <1>1, <1>2, <1>3, <2>1, CheckTypes, PassUndisturbed, QuietHonest DEF GardenInv
<1>4. CASE SweepJudge
  <2>1. UNCHANGED <<files, short, edited, pass>>
    BY <1>4 DEF SweepJudge, disc
  <2> QED BY <1>1, <1>2, <1>4, <2>1, JudgeTypes, PassUndisturbed, JudgingHonest DEF GardenInv
<1>5. CASE \/ Unreadable
           \/ \E a \in Albums : LookStep(a) \/ OpenPage(a)
           \/ \E r \in Releases : FetchElsewhere(r)
  <2>1. UNCHANGED <<files, short, edited, pass>>
    BY <1>5 DEF Unreadable, LookStep, ReadStored, RecordFlag, OpenPage, FetchElsewhere, disc
  <2>2. TypeOK' /\ StoredInv' /\ PassInv' /\ Allowed'
    BY <1>1, <1>2, <1>5, <2>1, LookTypes, PassUndisturbed
  <2>3. HonestInv'
    <3>1. CASE \/ Unreadable \/ \E l \in looks : ReadStored(l)
               \/ \E a \in Albums : OpenPage(a)
               \/ \E r \in Releases : FetchElsewhere(r)
      BY <1>1, <3>1, QuietHonest
    <3>2. CASE \E l \in looks : RecordFlag(l)
      BY <1>1, <3>2, JudgingHonest
    <3> QED BY <1>5, <3>1, <3>2 DEF LookStep
  <2> QED BY <2>2, <2>3 DEF GardenInv
<1>6. CASE StartApply \/ Claim \/ EndPass
  BY <1>1, <1>6, BeginPass, QuietHonest DEF GardenInv
<1>7. CASE Consider
  BY <1>1, <1>7, ConsiderTypes, JudgingHonest DEF GardenInv
<1>8. CASE WriteTags
  BY <1>1, <1>8, WriteTypes, WriteHonest DEF GardenInv
<1>9. CASE WriteFails
  BY <1>1, <1>9, WriteTypes, JudgingHonest DEF GardenInv
<1>10. CASE PublishApplied
  BY <1>1, <1>10, PublishTypes, ChangeHonest DEF GardenInv
<1>11. CASE ChooseSpelling
  BY <1>1, <1>11, UserTypes, ChangeHonest DEF GardenInv
<1>12. CASE \/ Route \/ Busy
            \/ \E a \in Albums : Ignore(a)
            \/ \E r \in Releases : Moves(r)
  BY <1>1, <1>12, UserTypes, QuietHonest DEF GardenInv
<1>13. CASE Restart
  BY <1>1, <1>13, RestartTypes, ChangeHonest DEF GardenInv
<1>14. ASSUME NEW a \in Albums, Edit(a) PROVE TypeOK' /\ GardenInv'
  BY <1>1, <1>14, EditTypes, ChangeHonest DEF GardenInv
<1>15. ASSUME NEW a \in Albums, Rescan(a) PROVE TypeOK' /\ GardenInv'
  BY <1>1, <1>15, RescanTypes, ChangeHonest DEF GardenInv
<1> QED BY <1>3, <1>4, <1>5, <1>6, <1>7, <1>8, <1>9, <1>10, <1>11, <1>12, <1>13, <1>14, <1>15
        DEF Next, SweepStep, PassStep

\* Whatever is judged is judged against what was stored, what a pass is about to
\* write is what it was allowed, and every flag is honest.
\* (gardener.py refresh_flag; auto_apply.py _apply_one, _apply_chosen_one.)
THEOREM GardenHolds == Spec => [](TypeOK /\ GardenInv)
<1>1. Init => TypeOK /\ GardenInv
  BY GardenInit
<1>2. TypeOK /\ GardenInv /\ [Next]_vars => (TypeOK /\ GardenInv)'
  <2>1. CASE Next
    BY <2>1, GardenStep
  <2>2. CASE UNCHANGED vars
    <3>1. /\ UNCHANGED <<mb, stored, files, short, edited, flag, setting, trust, sweep, pass>>
          /\ UNCHANGED <<looks, faults>>
      BY <2>2 DEF vars
    <3> QED BY <3>1 DEF TypeOK, GardenInv, StoredInv, Stored, PassInv, Allowed, HonestInv, Honest,
                        Faithful, Strict, Looked
  <2> QED BY <2>1, <2>2
<1> QED BY <1>1, <1>2, PTL DEF Spec

LEMMA HonestMeans ==
  ASSUME TypeOK, GardenInv
  PROVE  FlagHonest
<1> SUFFICES ASSUME NEW a \in Albums, flag[a].version # Nothing, a \notin edited,
                    ~(pass.wrote /\ pass.album = a), ~Looked(a)
             PROVE  LET level == Verdict(files[a], flag[a].version, setting)
                    IN /\ Max({flag[a].level, Settings}) = Max({level, Settings})
                       /\ faults = 0 => flag[a].level = level
  BY DEF FlagHonest, Looked
<1> DEFINE p == flag[a].version
<1>1. Faithful(a) /\ (faults = 0 => Strict(a))
  BY DEF GardenInv, HonestInv, Honest
<1>2. p \in Payloads /\ files[a] \in Tags /\ setting \in Spellings
  BY DEF TypeOK, Flags, Versions
<1>3. Max({Verdict(files[a], p, setting), Settings}) = Max({Reach[<<files[a].of, p>>], Settings})
  <2> HIDE DEF p
  <2> QED BY <1>2, VerdictType
<1> QED BY <1>1, <1>3 DEF Faithful, Strict

\* A flag is the verdict on the files the album has, in the spelling in force,
\* against the version it names, unless a re-check of it, a rescan or a publish is
\* still to come.  (gardener.py refresh_flag's lock and the re-checks.)
THEOREM FlagIsHonest == Spec => []FlagHonest
<1>1. TypeOK /\ GardenInv => FlagHonest
  BY HonestMeans
<1> QED BY <1>1, GardenHolds, PTL

\* Only a write publishes other tags than it found.
LEMMA OnlyWriteTagsWrites ==
  ASSUME TypeOK, Next, pass.at = "write", pass'.at = "publish", files' # files
  PROVE  WriteTags
<1>1. CASE Tick \/ StartSweep \/ StartApply \/ SweepStep \/ FetchFails \/ Unreadable \/ WriteFails
  BY <1>1 DEF Tick, StartSweep, StartApply, SweepStep, Ask, FetchGone, FetchAnswers, SweepJudge,
              Digest, FetchFails, Unreadable, WriteFails
<1>2. CASE \E a \in Albums : LookStep(a)
  BY <1>2 DEF LookStep, ReadStored, RecordFlag
<1>3. CASE Claim \/ ChooseSpelling \/ Route \/ Busy \/ Restart
  BY <1>3 DEF Claim, ChooseSpelling, Route, Busy, Restart
<1>4. CASE \E a \in Albums : OpenPage(a) \/ Edit(a) \/ Rescan(a) \/ Ignore(a)
  BY <1>4 DEF OpenPage, Edit, Rescan, Ignore
<1>5. CASE \E r \in Releases : FetchElsewhere(r) \/ Moves(r)
  BY <1>5 DEF FetchElsewhere, Moves
<1>6. CASE PassStep
  BY <1>6 DEF PassStep, Consider, PublishApplied, EndPass
<1> QED BY <1>1, <1>2, <1>3, <1>4, <1>5, <1>6 DEF Next

LEMMA WriteWithinBounds ==
  ASSUME TypeOK, GardenInv, WriteTags, NEW a \in Albums, files'[a] # files[a],
         a \notin edited, ~\E d \in pass.dead : d.album = a
  PROVE  LET p == files'[a].of
             level == Verdict(files[a], p, pass.spelt)
         IN /\ p = stored[ReleaseOf[a]]
            /\ IF pass.kind = "auto"
               THEN level # Structure /\ level <= pass.trust /\ a \notin short
               ELSE p = pass.shown[a]
<1> DEFINE p == pass.payload
           level == Verdict(files[a], p, pass.spelt)
<1>1. /\ a = pass.album /\ files'[a].of = p /\ p = stored[ReleaseOf[a]] /\ pass.at = "write"
  BY DEF WriteTags, Reviewed, TypeOK
<1>2. p \in Payloads /\ files[a] \in Tags /\ pass.spelt \in Spellings
  BY <1>1 DEF GardenInv, PassInv, TypeOK, Passes, Versions
<1>3. CASE pass.kind = "auto"
  <2>1. Reach[<<files[a].of, p>>] <= pass.trust /\ a \notin short
    BY <1>1, <1>3 DEF GardenInv, Allowed, IsDead
  <2>2. pass.trust \in Levels \ {NoUpdate, Structure}
    BY <1>1, <1>3 DEF GardenInv, PassInv
  <2>3. level \in {Reach[<<files[a].of, p>>], Settings} /\ Reach[<<files[a].of, p>>] \in Levels
    <3> HIDE DEF p
    <3> QED BY <1>2, VerdictType DEF level
  <2>4. level # Structure /\ level <= pass.trust
    <3> HIDE DEF level, p
    <3> QED BY <2>1, <2>2, <2>3 DEF Levels, NoUpdate, Settings, Structure
  <2> QED BY <1>1, <1>3, <2>1, <2>4
<1>4. CASE pass.kind # "auto"
  BY <1>1, <1>4 DEF GardenInv, Allowed
<1> QED BY <1>3, <1>4

\* No write goes past what was allowed: an automatic one changes no more than the
\* user trusts, never the tracklist, and never an album with tracks missing; one
\* chosen in the Inbox writes the version on its card.  (auto_apply.py _apply_one,
\* _apply_chosen_one, tagger's reviewed release.)
THEOREM NoWritePastTheBounds == Spec => WritesAsAllowed
<1>1. /\ TypeOK /\ GardenInv /\ [Next]_vars
      => \A a \in Albums :
           /\ files'[a] # files[a] /\ pass.at = "write" /\ pass'.at = "publish"
           /\ a \notin edited /\ ~\E d \in pass.dead : d.album = a
           => LET p == files'[a].of
                  level == Verdict(files[a], p, pass.spelt)
              IN /\ p = stored[ReleaseOf[a]]
                 /\ IF pass.kind = "auto"
                    THEN level # Structure /\ level <= pass.trust /\ a \notin short
                    ELSE p = pass.shown[a]
  <2> SUFFICES ASSUME TypeOK, GardenInv, [Next]_vars, NEW a \in Albums, files'[a] # files[a],
                      pass.at = "write", pass'.at = "publish", a \notin edited,
                      ~\E d \in pass.dead : d.album = a
               PROVE  LET p == files'[a].of
                          level == Verdict(files[a], p, pass.spelt)
                      IN /\ p = stored[ReleaseOf[a]]
                         /\ IF pass.kind = "auto"
                            THEN level # Structure /\ level <= pass.trust /\ a \notin short
                            ELSE p = pass.shown[a]
    OBVIOUS
  <2>1. files' # files
    OBVIOUS
  <2>2. Next
    BY <2>1 DEF vars
  <2>3. WriteTags
    BY <2>1, <2>2, OnlyWriteTagsWrites
  <2> QED BY <2>3, WriteWithinBounds
<1> QED BY <1>1, GardenHolds, PTL DEF Spec, WritesAsAllowed

=============================================================================

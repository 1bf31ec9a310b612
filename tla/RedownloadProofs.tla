-------------------------- MODULE RedownloadProofs --------------------------
(***************************************************************************)
(* Theorems about Redownload, for any files, releases and bounds.           *)
(***************************************************************************)
EXTENDS Redownload, WellFoundedInduction, TLAPS

(***************************************************************************)
(* Types.                                                                   *)
(***************************************************************************)
Days == {"first", "new"}
Sidecars == [release : Releases \cup {None}, added : Days]
Matches == [release : Releases, added : Days, incomplete : BOOLEAN]
Readings == [there : BOOLEAN, side : Sidecars \cup {None}, files : SUBSET Files]
\* The lengths of the files that were listed.
Sizes == UNION {[S -> Nat] : S \in SUBSET Files}
Jobs == [at : {"list", "write", "verify", "remove"}, album : Readings,
         sizes : Sizes,
         left : (SUBSET Files) \cup (SUBSET Dirs), zip : Nat]
Syncs == [at : {"page", "landed", "resolve", "carried", "url", "end"},
          seeded : BOOLEAN, ignored : BOOLEAN, carry : Matches \cup {None}]

JobOK ==
  job # None =>
    /\ job.album.side # None
    /\ job.at \in {"write", "verify", "remove"} => /\ job.zip \in Names
                                                   /\ zips[job.zip] # None
    /\ job.left \in IF job.at = "remove" THEN SUBSET Folders ELSE SUBSET Files
    /\ job.at \in {"verify", "remove"} => zips[job.zip].whole
    /\ job.at = "verify" => job.left = {}

TypeOK ==
  /\ disk \in [Files -> Contents \cup {None}]
  /\ side \in Sidecars \cup {None}
  /\ zips \in [Names -> Archives \cup {None}]
  /\ ignored \in BOOLEAN
  /\ mem \in [card : BOOLEAN, approved : BOOLEAN, carried : Matches \cup {None}]
  /\ index \in BOOLEAN
  /\ seen \in Readings
  /\ job \in Jobs \cup {None}
  /\ JobOK
  /\ sync \in Syncs \cup {None}
  /\ sync # None /\ sync.at = "carried" => sync.carry # None
  /\ was \in Matches \cup {None}
  /\ held \in SUBSET (Files \X Contents)
  /\ budget \in [presses : 0..MaxPresses, edits : 0..MaxEdits, faults : 0..MaxFaults]

\* What is listed has a length each.
LEMMA SizesType ==
  ASSUME NEW S \in SUBSET Files, NEW s, s \in [S -> Nat]
  PROVE  s \in Sizes
<1> QED BY DEF Sizes

\* Whatever makes or spoils a content, it is one.
LEMMA ContentTypes ==
  /\ Original \in Contents
  /\ \A n \in Nat : Download(n) \in Contents /\ Edit(n) \in Contents
  /\ \A c \in Contents : Spoilt(c) \in Contents /\ Spoilt(c).made = "spoilt"
  /\ NoArchive \in Archives
<1>1. Original \in Contents /\ \A n \in Nat : Download(n) \in Contents /\ Edit(n) \in Contents
  BY DEF Original, Download, Edit, Contents
<1>2. ASSUME NEW c \in Contents PROVE Spoilt(c) \in Contents /\ Spoilt(c).made = "spoilt"
  BY DEF Spoilt, Contents
<1>3. NoArchive \in Archives
  BY DEF NoArchive, Archives
<1> QED BY <1>1, <1>2, <1>3

LEMMA SpendType ==
  ASSUME TypeOK, NEW what \in {"presses", "edits", "faults"}, Spend(what)
  PROVE  budget' \in [presses : 0..MaxPresses, edits : 0..MaxEdits, faults : 0..MaxFaults]
<1> QED BY BoundsAssumption DEF Spend, TypeOK

LEMMA UsedType ==
  ASSUME TypeOK
  PROVE  Used("presses") \in Nat /\ Used("presses") = MaxPresses - budget.presses
<1> QED BY BoundsAssumption DEF Used, TypeOK

\* A set of naturals has a least one.
LEMMA HasLeast ==
  ASSUME NEW S \in SUBSET Nat, S # {}
  PROVE  \E n \in S : \A m \in S : n <= m
<1>1. PICK n \in S : \A m \in S : ~ (<<m, n>> \in OpToRel(<, Nat))
  BY NatLessThanWellFounded, WFMin
<1>2. ASSUME NEW m \in S, m < n PROVE FALSE
  BY <1>1, <1>2 DEF OpToRel
<1> QED BY <1>2

\* While a name is free the first free one is one of them.
LEMMA FreeNameIsFree ==
  ASSUME NEW n \in Names, zips[n] = None
  PROVE  FreeName \in Names /\ zips[FreeName] = None /\ FreeName <= n
<1> DEFINE free == {k \in Names : zips[k] = None}
<1>1. PICK m \in free : \A k \in free : m <= k
  <2>1. free \in SUBSET Nat /\ free # {}
    BY BoundsAssumption DEF Names
  <2> HIDE DEF free
  <2> QED BY <2>1, HasLeast
<1>2. m \in Names /\ zips[m] = None /\ \A k \in 1..m - 1 : zips[k] # None
  BY <1>1, BoundsAssumption DEF Names
<1>3. /\ FreeName \in Names /\ zips[FreeName] = None
      /\ \A k \in 1..FreeName - 1 : zips[k] # None
  BY <1>2 DEF FreeName
<1> QED BY <1>3, BoundsAssumption DEF Names

\* What a job lists is the album's.
LEMMA JobParts ==
  ASSUME TypeOK, job # None
  PROVE  /\ job \in Jobs /\ DOMAIN job.sizes \subseteq Files
         /\ Folders \subseteq Dirs /\ JobOK
<1>1. job \in Jobs
  BY DEF TypeOK
<1>2. DOMAIN job.sizes \subseteq Files
  BY <1>1 DEF Jobs, Sizes
<1>3. Folders \subseteq Dirs
  BY <1>1 DEF Jobs, Readings, Folders, Dirs
<1> QED BY <1>1, <1>2, <1>3 DEF TypeOK

\* No press has used a later name than its number; the one that is about to name
\* its archive has that one left.
NamesUsed ==
  /\ \A n \in Names : zips[n] # None => n <= Used("presses")
  /\ job # None /\ job.at = "list" => /\ Used("presses") \in Names
                                      /\ zips[Used("presses")] = None

\* So there is one when an archive is to be named.
LEMMA FreeExists ==
  ASSUME TypeOK, NamesUsed, job # None, job.at = "list"
  PROVE  FreeName \in Names /\ zips[FreeName] = None /\ FreeName <= Used("presses")
<1> QED BY FreeNameIsFree DEF NamesUsed

LEMMA PressTypes ==
  ASSUME TypeOK, Press
  PROVE  TypeOK'
<1>1. job' \in Jobs
  <2>1. <<>> \in [{} -> Nat]
    OBVIOUS
  <2>2. <<>> \in Sizes
    BY <2>1, SizesType
  <2> QED BY <2>2 DEF Press, Jobs, TypeOK
<1>2. JobOK'
  BY <1>1 DEF Press, JobOK
<1>3. budget' \in [presses : 0..MaxPresses, edits : 0..MaxEdits, faults : 0..MaxFaults]
  BY SpendType DEF Press
<1> QED BY <1>1, <1>2, <1>3 DEF Press, TypeOK, Album, Library, Threads, History

LEMMA CollectTypes ==
  ASSUME TypeOK, NamesUsed, Collect
  PROVE  TypeOK'
<1> DEFINE listed == {f \in Present : f[1] \in Folders}
           sizes == [f \in listed |-> disk[f].size]
<1>1. /\ job # None /\ job.at = "list" /\ job \in Jobs
      /\ UNCHANGED <<disk, side, ignored, mem, index, seen, sync, was, held, budget>>
  BY DEF Collect, TypeOK, Album, Library, Threads, History
<1>2. CASE job' = None /\ UNCHANGED zips
  BY <1>1, <1>2 DEF TypeOK, JobOK
<1>3. CASE /\ job' = [job EXCEPT !.at = "write", !.left = listed, !.zip = FreeName,
                                 !.sizes = sizes]
           /\ zips' = [zips EXCEPT ![FreeName] = NoArchive]
  <2>1. listed \in SUBSET Files
    BY DEF Present
  <2>2. sizes \in Sizes
    <3>1. \A f \in listed : disk[f] \in Contents
      BY DEF Present, TypeOK
    <3>2. sizes \in [listed -> Nat]
      BY <3>1 DEF Contents
    <3> QED BY <2>1, <3>2, SizesType
  <2>3. FreeName \in Names
    BY FreeExists, <1>1
  <2>4. zips' \in [Names -> Archives \cup {None}] /\ zips'[FreeName] # None
    BY <1>3, <2>3, ContentTypes, NoneAssumption DEF TypeOK
  <2> HIDE DEF listed, sizes
  <2>n. FreeName \in Nat
    BY <2>3, BoundsAssumption DEF Names
  <2>5. job' \in Jobs
    <3>1. job' = [at |-> "write", album |-> job.album, sizes |-> sizes,
                  left |-> listed, zip |-> FreeName]
      BY <1>1, <1>3 DEF Jobs
    <3>2. job.album \in Readings
      BY <1>1 DEF Jobs
    <3> QED BY <2>1, <2>2, <2>n, <3>1, <3>2 DEF Jobs
  <2>6. /\ job'.at = "write" /\ job'.zip = FreeName /\ job'.left = listed
        /\ job'.album = job.album
    BY <1>1, <1>3 DEF Jobs
  <2>7. JobOK'
    BY <1>1, <2>1, <2>3, <2>4, <2>6 DEF JobOK, TypeOK
  <2> QED BY <1>1, <2>4, <2>5, <2>7 DEF TypeOK
<1> QED BY <1>2, <1>3 DEF Collect

\* What is left of an archive given up is its name, free again.
LEMMA GiveUpTypes ==
  ASSUME TypeOK, GiveUp,
         UNCHANGED <<disk, side, ignored, mem, index, seen, sync, was, held>>,
         budget' \in [presses : 0..MaxPresses, edits : 0..MaxEdits, faults : 0..MaxFaults]
  PROVE  TypeOK'
<1>1. zips' \in [Names -> Archives \cup {None}]
  BY DEF GiveUp, TypeOK
<1> QED BY <1>1 DEF GiveUp, TypeOK, JobOK

\* A member is written, right or wrong.
LEMMA MemberTypes ==
  ASSUME TypeOK, NEW f \in Files, NEW c \in Contents,
         job # None, job.at = "write", f \in job.left,
         zips' = [zips EXCEPT ![job.zip].members[f] = c],
         job' = [job EXCEPT !.left = @ \ {f}],
         UNCHANGED <<disk, side, ignored, mem, index, seen, sync, was, held>>,
         budget' \in [presses : 0..MaxPresses, edits : 0..MaxEdits, faults : 0..MaxFaults]
  PROVE  TypeOK'
<1>1. /\ job \in Jobs /\ job.zip \in Names /\ zips[job.zip] \in Archives
      /\ zips \in [Names -> Archives \cup {None}]
      /\ job.left \in SUBSET Files
  BY DEF TypeOK, JobOK
<1>2. [zips[job.zip] EXCEPT !.members[f] = c] \in Archives
  BY <1>1 DEF Archives
<1>3. zips' \in [Names -> Archives \cup {None}] /\ zips'[job.zip] # None
  BY <1>1, <1>2, NoneAssumption
<1>4. /\ job' \in Jobs /\ job'.at = "write" /\ job'.zip = job.zip
      /\ job'.left \in SUBSET Files /\ job'.album = job.album
  BY <1>1 DEF Jobs
<1>5. JobOK'
  BY <1>1, <1>3, <1>4 DEF TypeOK, JobOK
<1> QED BY <1>3, <1>4, <1>5 DEF TypeOK

LEMMA WriteTypes ==
  ASSUME TypeOK, NEW f \in Files, WriteMember(f)
  PROVE  TypeOK'
<1>1. /\ job # None /\ job.at = "write" /\ f \in job.left
      /\ UNCHANGED <<disk, side, ignored, mem, index, seen, sync, was, held>>
  BY DEF WriteMember, Album, Library, Threads, History
<1>2. budget' \in [presses : 0..MaxPresses, edits : 0..MaxEdits, faults : 0..MaxFaults]
  BY SpendType DEF WriteMember, TypeOK
<1>3. CASE GiveUp
  BY <1>1, <1>2, <1>3, GiveUpTypes
<1>4. CASE /\ disk[f] # None
           /\ \/ zips' = [zips EXCEPT ![job.zip].members[f] = disk[f]]
              \/ zips' = [zips EXCEPT ![job.zip].members[f] = Spoilt(disk[f])]
           /\ job' = [job EXCEPT !.left = @ \ {f}]
  <2>1. disk[f] \in Contents /\ Spoilt(disk[f]) \in Contents
    BY <1>4, ContentTypes DEF TypeOK
  <2> QED BY <1>1, <1>2, <1>4, <2>1, MemberTypes
<1> QED BY <1>3, <1>4 DEF WriteMember

LEMMA CloseTypes ==
  ASSUME TypeOK, CloseArchive
  PROVE  TypeOK'
<1>1. /\ job \in Jobs /\ job.zip \in Names /\ zips[job.zip] \in Archives
      /\ zips \in [Names -> Archives \cup {None}]
      /\ job # None /\ job.left = {}
  BY DEF CloseArchive, TypeOK, JobOK
<1>2. /\ [zips[job.zip] EXCEPT !.whole = TRUE] \in Archives
      /\ [zips[job.zip] EXCEPT !.whole = TRUE].whole
  BY <1>1 DEF Archives
<1>3. zips' \in [Names -> Archives \cup {None}] /\ zips'[job.zip] # None
      /\ zips'[job.zip].whole
  BY <1>1, <1>2, NoneAssumption DEF CloseArchive
<1>4. /\ job' \in Jobs /\ job'.at = "verify" /\ job'.zip = job.zip
      /\ job'.left = {} /\ job'.album = job.album
  BY <1>1 DEF CloseArchive, Jobs
<1>5. JobOK'
  BY <1>1, <1>3, <1>4 DEF TypeOK, JobOK
<1> QED BY <1>3, <1>4, <1>5 DEF CloseArchive, TypeOK, Album, Library, Threads, History

LEMMA VerifyTypes ==
  ASSUME TypeOK, Verify
  PROVE  TypeOK'
<1>1. /\ job # None /\ job \in Jobs /\ job.at = "verify"
      /\ UNCHANGED <<disk, side, ignored, mem, index, seen, sync, was, held, budget>>
  BY DEF Verify, TypeOK, Album, Library, Threads, History
<1>2. CASE GiveUp
  BY <1>1, <1>2, GiveUpTypes DEF TypeOK
<1>3. CASE job' = [job EXCEPT !.at = "remove", !.left = Folders] /\ UNCHANGED zips
  <2>1. Folders \subseteq Dirs
    BY <1>1, JobParts
  <2>2. /\ job' \in Jobs /\ job'.at = "remove" /\ job'.left = Folders
        /\ job'.album = job.album /\ job'.zip = job.zip
    BY <1>1, <1>3, <2>1 DEF Jobs
  <2>3. Folders' = Folders
    BY <2>2 DEF Folders
  <2>4. JobOK'
    BY <1>1, <1>3, <2>2, <2>3 DEF TypeOK, JobOK
  <2> QED BY <1>1, <1>3, <2>2, <2>4 DEF TypeOK
<1> QED BY <1>2, <1>3 DEF Verify

LEMMA WithoutType ==
  ASSUME TypeOK, NEW gone
  PROVE  Without(gone) \in [Files -> Contents \cup {None}]
<1> QED BY DEF Without, TypeOK

LEMMA RemoveTypes ==
  ASSUME TypeOK, NEW d \in Dirs, RemoveDir(d) \/ RemoveFails(d)
  PROVE  TypeOK'
<1>1. /\ disk' \in [Files -> Contents \cup {None}]
      /\ side' \in Sidecars \cup {None}
      /\ job # None /\ job \in Jobs /\ job.at = "remove"
      /\ UNCHANGED <<zips, ignored, mem, index, seen, sync, was, held>>
  BY WithoutType DEF RemoveDir, RemoveFails, TypeOK, Library, Threads, History
<1>2. budget' \in [presses : 0..MaxPresses, edits : 0..MaxEdits, faults : 0..MaxFaults]
  BY SpendType DEF RemoveDir, RemoveFails, TypeOK
<1>3. CASE RemoveDir(d)
  <2>1. job.left \in SUBSET Folders /\ Folders \subseteq Dirs
    BY <1>1, JobParts DEF JobOK
  <2>2. /\ job' \in Jobs /\ job'.at = "remove" /\ job'.left \subseteq Folders
        /\ job'.album = job.album /\ job'.zip = job.zip
    BY <1>1, <1>3, <2>1 DEF RemoveDir, Jobs
  <2>3. Folders' = Folders
    BY <2>2 DEF Folders
  <2>4. JobOK'
    BY <1>1, <2>2, <2>3 DEF TypeOK, JobOK
  <2> QED BY <1>1, <1>2, <2>2, <2>4 DEF TypeOK
<1>4. CASE RemoveFails(d)
  BY <1>1, <1>2, <1>4 DEF RemoveFails, TypeOK, JobOK
<1> QED BY <1>3, <1>4

LEMMA CommitTypes ==
  ASSUME TypeOK, Commit
  PROVE  TypeOK'
<1>1. job # None /\ job \in Jobs /\ job.album.side \in Sidecars
  BY DEF Commit, TypeOK, JobOK, Jobs, Readings
<1>2. CarriedMatch \in Matches \cup {None}
  BY <1>1 DEF CarriedMatch, Matches, Sidecars, TypeOK
<1>3. mem' \in [card : BOOLEAN, approved : BOOLEAN, carried : Matches \cup {None}]
  BY <1>2 DEF Commit
<1>4. budget' \in [presses : 0..MaxPresses, edits : 0..MaxEdits, faults : 0..MaxFaults]
  BY SpendType DEF Commit, TypeOK
<1>5. index' \in BOOLEAN /\ ignored' \in BOOLEAN
  BY DEF Commit, TypeOK
<1>6. sync' \in Syncs \cup {None} /\ (sync' # None /\ sync'.at = "carried" => sync'.carry # None)
  BY <1>5 DEF Commit, NewSync, Syncs, TypeOK
<1>7. JobOK'
  BY DEF Commit, JobOK
<1> QED BY <1>2, <1>3, <1>4, <1>5, <1>6, <1>7 DEF Commit, TypeOK, Album

LEMMA SyncTypes ==
  ASSUME TypeOK, SyncStep
  PROVE  TypeOK'
<1>1. /\ disk \in [Files -> Contents \cup {None}]
      /\ side \in Sidecars \cup {None}
      /\ mem \in [card : BOOLEAN, approved : BOOLEAN, carried : Matches \cup {None}]
      /\ sync \in Syncs \cup {None}
      /\ held \in SUBSET (Files \X Contents)
      /\ ignored \in BOOLEAN /\ index \in BOOLEAN /\ was \in Matches \cup {None}
  BY DEF TypeOK
<1>2. UNCHANGED <<zips, seen, job>>
  BY DEF SyncStep, StartSync, Fetch, Land, Resolve, TagAsCarried, ResolveByUrl, EndSync,
         SyncUntouched
<1>3. JobOK'
  BY <1>2 DEF TypeOK, JobOK, Folders
<1>4. budget' \in [presses : 0..MaxPresses, edits : 0..MaxEdits, faults : 0..MaxFaults]
  BY SpendType DEF SyncStep, StartSync, Fetch, Land, Resolve, TagAsCarried, ResolveByUrl,
                   EndSync, TypeOK
<1>5. CASE StartSync
  <2>1. sync' \in Syncs /\ sync'.at = "page"
    BY <1>1, <1>5 DEF StartSync, Syncs
  <2> QED BY <1>2, <1>3, <1>4, <1>5, <2>1 DEF StartSync, Album, Library, History, TypeOK
<1>6. CASE Fetch
  <2>1. PICK got \in Downloads :
          /\ disk' = [f \in Files |-> IF f \in got THEN Download(Used("presses"))
                                      ELSE disk[f]]
          /\ held' = held \cup {<<f, Download(Used("presses"))>> : f \in {f \in got : ~Doomed(f)}}
    BY <1>6 DEF Fetch
  <2>2. Download(Used("presses")) \in Contents /\ got \subseteq Files
    BY UsedType, ContentTypes, FilesAssumption
  <2>3. disk' \in [Files -> Contents \cup {None}] /\ held' \in SUBSET (Files \X Contents)
    BY <1>1, <2>1, <2>2
  <2>4. /\ sync' \in Syncs /\ sync'.at = "landed"
        /\ mem' \in [card : BOOLEAN, approved : BOOLEAN, carried : Matches \cup {None}]
    BY <1>1, <1>6 DEF Fetch, Syncs
  <2> QED BY <1>2, <1>3, <1>4, <1>6, <2>3, <2>4 DEF Fetch, TypeOK
<1>7. CASE Land
  <2>1. sync' \in Syncs /\ sync'.at # "carried"
    BY <1>1, <1>7 DEF Land, Syncs
  <2>2. side' \in Sidecars \cup {None} /\ index' \in BOOLEAN
    <3>1. [release |-> None, added |-> "new"] \in Sidecars
      BY DEF Sidecars, Days
    <3>2. \/ side' = [release |-> None, added |-> "new"] /\ index' = TRUE
          \/ UNCHANGED <<side, index>>
      BY <1>7 DEF Land
    <3> QED BY <1>1, <3>1, <3>2
  <2> QED BY <1>2, <1>3, <1>4, <1>7, <2>1, <2>2 DEF Land, TypeOK, History
<1>8. CASE Resolve
  <2>0. sync \in Syncs /\ mem.carried \in Matches \cup {None}
    BY <1>1, <1>8 DEF Resolve
  <2>1. sync' \in Syncs /\ (sync'.at = "carried" => sync'.carry # None)
    <3>1. CASE side = None \/ side.release # None
      BY <1>8, <2>0, <3>1 DEF Resolve, Syncs
    <3>2. CASE ~(side = None \/ side.release # None)
      <4>1. sync' = [sync EXCEPT !.at = IF mem.carried = None THEN "url" ELSE "carried",
                                 !.carry = mem.carried]
        BY <1>8, <3>2 DEF Resolve
      <4> QED BY <2>0, <4>1 DEF Syncs
    <3> QED BY <3>1, <3>2
  <2>2. side' \in Sidecars \cup {None}
    <3>1. CASE side' = side
      BY <1>1, <3>1
    <3>2. CASE /\ side # None /\ mem.carried # None
               /\ side' = [side EXCEPT !.added = mem.carried.added]
      BY <1>1, <2>0, <3>2 DEF Sidecars, Matches
    <3> QED BY <1>8, <3>1, <3>2 DEF Resolve
  <2>3. mem' \in [card : BOOLEAN, approved : BOOLEAN, carried : Matches \cup {None}]
    BY <1>1, <1>8 DEF Resolve
  <2> QED BY <1>2, <1>3, <1>4, <1>8, <2>1, <2>2, <2>3 DEF Resolve, TypeOK, History
<1>9. CASE TagAsCarried
  <2>1. sync' \in Syncs /\ sync'.at # "carried"
    BY <1>1, <1>9 DEF TagAsCarried, Syncs
  <2>2. sync.carry \in Matches
    BY <1>1, <1>9 DEF TagAsCarried, Syncs, TypeOK
  <2>3. side' \in Sidecars \cup {None} /\ was' \in Matches \cup {None}
    BY <1>1, <1>9, <2>2 DEF TagAsCarried, TaggedAs, Sidecars, Matches
  <2> QED BY <1>2, <1>3, <1>4, <1>9, <2>1, <2>3 DEF TagAsCarried, Library, TypeOK
<1>10. CASE ResolveByUrl
  <2>1. sync' \in Syncs /\ sync'.at # "carried"
    BY <1>1, <1>10 DEF ResolveByUrl, Syncs
  <2>2. side' \in Sidecars \cup {None} /\ was' \in Matches \cup {None}
    BY <1>1, <1>10, ReleasesAssumption DEF ResolveByUrl, TaggedAs, Exact, Sidecars
  <2> QED BY <1>2, <1>3, <1>4, <1>10, <2>1, <2>2 DEF ResolveByUrl, Library, TypeOK
<1>11. CASE EndSync
  <2>1. ignored' \in BOOLEAN
    BY <1>1, <1>11 DEF EndSync, Syncs
  <2> QED BY <1>2, <1>3, <1>4, <1>11, <2>1 DEF EndSync, Album, History, TypeOK
<1> QED BY <1>5, <1>6, <1>7, <1>8, <1>9, <1>10, <1>11 DEF SyncStep

LEMMA WorldTypes ==
  ASSUME TypeOK, World
  PROVE  TypeOK'
<1>1. /\ disk \in [Files -> Contents \cup {None}]
      /\ side \in Sidecars \cup {None}
      /\ zips \in [Names -> Archives \cup {None}]
      /\ mem \in [card : BOOLEAN, approved : BOOLEAN, carried : Matches \cup {None}]
      /\ held \in SUBSET (Files \X Contents)
  BY DEF TypeOK
<1>2. CASE Render
  <2>1. mem' \in [card : BOOLEAN, approved : BOOLEAN, carried : Matches \cup {None}]
    BY <1>1, <1>2 DEF Render, Pruned
  <2> QED BY <1>2, <2>1 DEF Render, Album, Threads, History, TypeOK, JobOK, Folders
<1>3. CASE Scan
  <2>1. seen' \in Readings /\ index' \in BOOLEAN
    BY <1>1, <1>3 DEF Scan, Reading, Readings, Present
  <2> QED BY <1>3, <2>1 DEF Scan, Album, History, TypeOK, JobOK, Folders
<1>4. CASE Crash
  <2>1. /\ budget' \in [presses : 0..MaxPresses, edits : 0..MaxEdits, faults : 0..MaxFaults]
        /\ mem' \in [card : BOOLEAN, approved : BOOLEAN, carried : Matches \cup {None}]
        /\ seen' \in Readings /\ index' \in BOOLEAN
    BY <1>4, SpendType DEF Crash, FreshMemory, Readings
  <2> QED BY <1>4, <2>1 DEF Crash, Album, TypeOK, JobOK
<1>5. ASSUME NEW r \in Releases, Confirm(r) PROVE TypeOK'
  <2>1. side' \in Sidecars \cup {None} /\ was' \in Matches \cup {None}
    BY <1>1, <1>5 DEF Confirm, TaggedAs, Sidecars
  <2> QED BY <1>5, <2>1 DEF Confirm, Library, Threads, TypeOK, JobOK, Folders
<1>6. ASSUME NEW n \in Names, Unzip(n) PROVE TypeOK'
  <2>1. zips[n] \in Archives
    BY <1>1, <1>6 DEF Unzip
  <2>2. disk' \in [Files -> Contents \cup {None}]
    BY <1>6, <2>1 DEF Unzip, Archives
  <2>3. side' \in Sidecars
    BY <1>6, ReleasesAssumption DEF Unzip, Sidecars, Days
  <2>4. budget' \in [presses : 0..MaxPresses, edits : 0..MaxEdits, faults : 0..MaxFaults]
    BY <1>6, SpendType DEF Unzip
  <2> QED BY <1>6, <2>2, <2>3, <2>4
          DEF Unzip, Library, Threads, History, TypeOK, JobOK, Folders
<1>7. ASSUME NEW f \in Files, Change(f) PROVE TypeOK'
  <2>1. PICK to \in {Edit(1), Edit(2), None} :
          /\ disk' = [disk EXCEPT ![f] = to]
          /\ held' = (held \ {<<f, disk[f]>>}) \cup
                       (IF Doomed(f) \/ to = None THEN {} ELSE {<<f, to>>})
    BY <1>7 DEF Change
  <2>2. to \in Contents \cup {None}
    BY <2>1, ContentTypes
  <2>3. disk' \in [Files -> Contents \cup {None}] /\ held' \in SUBSET (Files \X Contents)
    BY <1>1, <2>1, <2>2
  <2>4. budget' \in [presses : 0..MaxPresses, edits : 0..MaxEdits, faults : 0..MaxFaults]
    BY <1>7, SpendType DEF Change
  <2> QED BY <1>7, <2>3, <2>4 DEF Change, Library, Threads, TypeOK, JobOK, Folders
<1> QED BY <1>2, <1>3, <1>4, <1>5, <1>6, <1>7 DEF World

LEMMA StartTypes == Init => TypeOK
<1> SUFFICES ASSUME Init PROVE TypeOK
  OBVIOUS
<1>1. disk \in [Files -> Contents \cup {None}]
  BY ContentTypes, FilesAssumption DEF Init
<1>2. side \in Sidecars
  BY ReleasesAssumption DEF Init, Sidecars, Days
<1>3. seen \in Readings
  BY <1>2 DEF Init, Reading, Readings, Present
<1>4. held \in SUBSET (Files \X Contents)
  BY ContentTypes DEF Init, Present
<1>5. /\ mem \in [card : BOOLEAN, approved : BOOLEAN, carried : Matches \cup {None}]
      /\ budget \in [presses : 0..MaxPresses, edits : 0..MaxEdits, faults : 0..MaxFaults]
  BY BoundsAssumption DEF Init, FreshMemory
<1> QED BY <1>1, <1>2, <1>3, <1>4, <1>5 DEF Init, TypeOK, JobOK

\* Every step keeps the types.
LEMMA TypeStep ==
  ASSUME TypeOK, NamesUsed, [Next]_vars
  PROVE  TypeOK'
<1>1. CASE Press
  BY <1>1, PressTypes
<1>2. CASE Archive
  <2>1. CASE NoRoom
    <3>1. budget' \in [presses : 0..MaxPresses, edits : 0..MaxEdits, faults : 0..MaxFaults]
      BY <2>1, SpendType DEF NoRoom
    <3> QED BY <2>1, <3>1 DEF NoRoom, TypeOK, JobOK, Album, Library, Threads, History
  <2> QED BY <1>2, <2>1, CollectTypes, CloseTypes, VerifyTypes, CommitTypes, RemoveTypes,
             WriteTypes DEF Archive, Remove
<1>3. CASE UNCHANGED vars
  BY <1>3 DEF vars, TypeOK, JobOK, Folders
<1> QED BY <1>1, <1>2, <1>3, SyncTypes, WorldTypes DEF Next

(***************************************************************************)
(* Nothing is lost.                                                         *)
(***************************************************************************)

\* The archive being written or checked is not to be relied on.
Unsure(n) == job # None /\ job.at \in {"write", "verify"} /\ n = job.zip
Archived(f, content) ==
  \E n \in Names : /\ zips[n] # None /\ zips[n].whole /\ zips[n].members[f] = content
                   /\ ~Unsure(n)

\* A file about to be removed was listed, and is still to be written or was
\* written, perhaps wrong; once the archive is checked it is relied on.
Covered(f, content) ==
  /\ job.at \in {"write", "verify"}
  /\ f \in DOMAIN job.sizes
  /\ f \in job.left \/ zips[job.zip].members[f] \in {content, Spoilt(content)}
Safe(f, content) ==
  \/ Archived(f, content)
  \/ disk[f] = content /\ (Doomed(f) => Covered(f, content))
HeldInv == \A h \in held : Safe(h[1], h[2])

KeptInv == NamesUsed /\ HeldInv

LEMMA PressesKept ==
  ASSUME TypeOK, budget' = budget \/ Spend("faults") \/ Spend("edits")
  PROVE  Used("presses")' = Used("presses")
<1>1. budget'.presses = budget.presses
  BY DEF Spend, TypeOK
<1> QED BY <1>1 DEF Used

\* A name is taken by the press it is for, or was free, and stays taken only if
\* an archive stands there.
LEMMA NamesStep ==
  ASSUME TypeOK, NamesUsed, [Next]_vars
  PROVE  NamesUsed'
<1>u. Used("presses") \in Nat /\ Used("presses") = MaxPresses - budget.presses
  BY UsedType
<1>1. CASE Press
  <2>1. budget.presses \in 0..MaxPresses /\ budget.presses > 0
        /\ budget'.presses = budget.presses - 1
    BY <1>1 DEF Press, Spend, TypeOK
  <2>2. Used("presses")' = Used("presses") + 1 /\ Used("presses") + 1 \in Names
    BY <1>u, <2>1, BoundsAssumption DEF Used, Names
  <2>3. zips' = zips
    BY <1>1 DEF Press
  <2> QED BY <1>u, <2>2, <2>3, BoundsAssumption DEF NamesUsed, Names
<1>2. ASSUME zips' = zips \/ (job # None /\ \E n : zips' = [zips EXCEPT ![job.zip] = n]
                                                 /\ (n = None \/ zips[job.zip] # None)),
             budget' = budget \/ Spend("faults") \/ Spend("edits"),
             job' = None \/ job' = job \/ job'.at # "list"
      PROVE  NamesUsed'
  <2>1. Used("presses")' = Used("presses")
    BY <1>2, PressesKept
  <2>2. \A n \in Names : zips'[n] # None => zips[n] # None
    BY <1>2 DEF TypeOK
  <2>3. job' # None /\ job'.at = "list" => job' = job
    BY <1>2
  <2> QED BY <1>2, <2>1, <2>2, <2>3 DEF NamesUsed
<1>3. CASE Collect
  <2>1. job # None /\ job.at = "list" /\ job \in Jobs /\ budget' = budget
    BY <1>3 DEF Collect, TypeOK
  <2>2. CASE job' = None /\ UNCHANGED zips
    BY <1>2, <2>1, <2>2
  <2>3. CASE job'.at = "write" /\ zips' = [zips EXCEPT ![FreeName] = NoArchive]
    <3>1. FreeName \in Names /\ FreeName <= Used("presses")
      BY <2>1, FreeExists
    <3>2. Used("presses")' = Used("presses")
      BY <2>1, PressesKept
    <3>3. \A n \in Names : zips'[n] # None => zips[n] # None \/ n = FreeName
      BY <2>3, <3>1 DEF TypeOK
    <3> QED BY <2>3, <3>1, <3>2, <3>3 DEF NamesUsed
  <2>4. job' = None \/ job'.at = "write"
    BY <1>3, <2>1 DEF Collect, Jobs
  <2>5. \/ job' = None /\ UNCHANGED zips
        \/ zips' = [zips EXCEPT ![FreeName] = NoArchive]
    BY <1>3 DEF Collect
  <2>6. CASE job' = None /\ zips' = [zips EXCEPT ![FreeName] = NoArchive]
    <3>1. \A n \in Names : zips'[n] # None => zips[n] # None \/ n = FreeName
      BY <2>6 DEF TypeOK
    <3>2. FreeName <= Used("presses") /\ Used("presses")' = Used("presses")
      BY <2>1, FreeExists, PressesKept
    <3> QED BY <2>6, <3>1, <3>2 DEF NamesUsed
  <2> QED BY <2>2, <2>3, <2>4, <2>5, <2>6
<1>4. ASSUME NEW f \in Files, WriteMember(f) PROVE NamesUsed'
  <2>1. job # None /\ job.at = "write" /\ job \in Jobs /\ zips[job.zip] # None
    BY <1>4 DEF WriteMember, TypeOK, JobOK
  <2>2. job' = None \/ job'.at # "list"
    BY <1>4, <2>1 DEF WriteMember, GiveUp, Jobs
  <2>3. \E n : zips' = [zips EXCEPT ![job.zip] = n] /\ (n = None \/ zips[job.zip] # None)
    BY <1>4, <2>1 DEF WriteMember, GiveUp
  <2> QED BY <1>2, <1>4, <2>1, <2>2, <2>3 DEF WriteMember
<1>5. CASE NoRoom
  BY <1>2, <1>5 DEF NoRoom
<1>6. CASE CloseArchive
  <2>1. job # None /\ job.at = "write" /\ job \in Jobs /\ zips[job.zip] # None
    BY <1>6 DEF CloseArchive, TypeOK, JobOK
  <2>2. job'.at = "verify"
    BY <1>6, <2>1 DEF CloseArchive, Jobs
  <2>3. \E n : zips' = [zips EXCEPT ![job.zip] = n]
    BY <1>6 DEF CloseArchive
  <2> QED BY <1>2, <1>6, <2>1, <2>2, <2>3 DEF CloseArchive
<1>7. CASE Verify
  <2>1. job # None /\ job \in Jobs
    BY <1>7 DEF Verify, TypeOK
  <2>2. (job' = None /\ zips' = [zips EXCEPT ![job.zip] = None])
        \/ (job'.at = "remove" /\ zips' = zips)
    BY <1>7, <2>1 DEF Verify, GiveUp, Jobs
  <2> QED BY <1>2, <1>7, <2>1, <2>2 DEF Verify
<1>8. ASSUME NEW d \in Dirs, RemoveDir(d) \/ RemoveFails(d) PROVE NamesUsed'
  <2>1. job # None /\ job \in Jobs /\ job.at = "remove"
    BY <1>8 DEF RemoveDir, RemoveFails, TypeOK
  <2>2. job' = None \/ job'.at # "list"
    BY <1>8, <2>1 DEF RemoveDir, RemoveFails, Jobs
  <2> QED BY <1>2, <1>8, <2>2 DEF RemoveDir, RemoveFails
<1>9. CASE Commit
  BY <1>2, <1>9 DEF Commit
<1>10. CASE SyncStep
  BY <1>2, <1>10 DEF SyncStep, StartSync, Fetch, Land, Resolve, TagAsCarried, ResolveByUrl,
                     EndSync, SyncUntouched
<1>11. CASE World
  BY <1>2, <1>11 DEF World, Render, Scan, Crash, Confirm, Unzip, Change, Threads, History
<1>12. CASE UNCHANGED vars
  BY <1>2, <1>12 DEF vars
<1> QED BY <1>1, <1>3, <1>4, <1>5, <1>6, <1>7, <1>8, <1>9, <1>10, <1>11, <1>12
        DEF Next, Archive, Remove

\* What is safe stays so while neither the disk nor the archives are touched.
LEMMA HeldQuiet ==
  ASSUME HeldInv, UNCHANGED <<disk, zips, job, held>>
  PROVE  HeldInv'
<1> QED BY DEF HeldInv, Safe, Archived, Unsure, Doomed, Covered, Folders

\* A job that ends leaves its archive, or unlinks one that was not relied on.
LEMMA HeldFreed ==
  ASSUME TypeOK, HeldInv, UNCHANGED <<disk, held>>, job' = None,
         \/ UNCHANGED zips
         \/ /\ job # None /\ job.at \in {"write", "verify"}
            /\ zips' = [zips EXCEPT ![job.zip] = None]
  PROVE  HeldInv'
<1> SUFFICES ASSUME NEW h \in held, Safe(h[1], h[2])
             PROVE  Archived(h[1], h[2])' \/ disk[h[1]] = h[2]
  BY DEF HeldInv, Safe, Doomed
<1>1. CASE Archived(h[1], h[2])
  <2>1. PICK n \in Names : /\ zips[n] # None /\ zips[n].whole /\ zips[n].members[h[1]] = h[2]
                           /\ ~Unsure(n)
    BY <1>1 DEF Archived
  <2>2. zips'[n] = zips[n]
    BY <2>1 DEF Unsure, TypeOK
  <2> QED BY <2>1, <2>2 DEF Archived, Unsure
<1> QED BY <1>1 DEF Safe

\* Listing covers every file it dooms, and the new archive takes nobody's place.
LEMMA HeldCollect ==
  ASSUME TypeOK, NamesUsed, HeldInv, Collect
  PROVE  HeldInv'
<1> DEFINE listed == {f \in Present : f[1] \in Folders}
           sizes == [f \in listed |-> disk[f].size]
<1>1. job # None /\ job.at = "list" /\ job \in Jobs /\ UNCHANGED <<disk, held>>
  BY DEF Collect, TypeOK, Album, History
<1>2. CASE job' = None /\ UNCHANGED zips
  BY <1>1, <1>2, HeldFreed
<1>3. CASE /\ job' = [job EXCEPT !.at = "write", !.left = listed, !.zip = FreeName,
                                 !.sizes = sizes]
           /\ zips' = [zips EXCEPT ![FreeName] = NoArchive]
  <2>1. /\ job'.at = "write" /\ job'.left = listed /\ job'.zip = FreeName
        /\ DOMAIN job'.sizes = listed /\ job'.album = job.album
    BY <1>1, <1>3 DEF Jobs
  <2>2. Folders' = Folders
    BY <2>1 DEF Folders
  <2>3. SUFFICES ASSUME NEW f \in Files, NEW c \in Contents, Safe(f, c)
                 PROVE  Safe(f, c)'
    BY <1>1 DEF HeldInv, TypeOK
  <2>4. CASE Archived(f, c)
    <3>1. PICK n \in Names : zips[n] # None /\ zips[n].whole /\ zips[n].members[f] = c
      BY <2>4 DEF Archived
    <3>2. n # FreeName
      BY <1>1, <3>1, FreeExists
    <3>3. zips'[n] = zips[n] /\ ~Unsure(n)'
      BY <1>3, <2>1, <3>2 DEF TypeOK, Unsure
    <3> QED BY <3>1, <3>3 DEF Safe, Archived
  <2>5. CASE disk[f] = c
    <3>1. f \in Present
      BY <2>5, NoneAssumption DEF Present
    <3>2. Doomed(f)' => f \in listed
      BY <2>2, <3>1 DEF Doomed
    <3> HIDE DEF listed
    <3> QED BY <1>1, <2>1, <2>5, <3>2 DEF Safe, Covered
  <2> QED BY <2>3, <2>4, <2>5 DEF Safe
<1> QED BY <1>2, <1>3 DEF Collect

\* A member written right or wrong covers its file, and no other's cover is lost.
LEMMA HeldMember ==
  ASSUME TypeOK, HeldInv, NEW f \in Files,
         job # None, job.at = "write", f \in job.left, disk[f] # None,
         \E c \in {disk[f], Spoilt(disk[f])} : zips' = [zips EXCEPT ![job.zip].members[f] = c],
         job' = [job EXCEPT !.left = @ \ {f}],
         UNCHANGED <<disk, held>>
  PROVE  HeldInv'
<1>1. /\ job \in Jobs /\ job.zip \in Names /\ zips[job.zip] \in Archives
  BY DEF TypeOK, JobOK
<1>2. /\ job'.at = "write" /\ job'.left = job.left \ {f} /\ job'.zip = job.zip
      /\ job'.sizes = job.sizes /\ job'.album = job.album
  BY <1>1 DEF Jobs
<1>3. Folders' = Folders
  BY <1>2 DEF Folders
<1>4. PICK w \in {disk[f], Spoilt(disk[f])} : zips' = [zips EXCEPT ![job.zip].members[f] = w]
  OBVIOUS
<1>5. zips'[job.zip].members = [zips[job.zip].members EXCEPT ![f] = w]
  BY <1>1, <1>4 DEF TypeOK, Archives
<1>6. SUFFICES ASSUME NEW g \in Files, NEW c \in Contents, Safe(g, c)
               PROVE  Safe(g, c)'
  BY DEF HeldInv, TypeOK
<1>7. CASE Archived(g, c)
  <2>1. PICK n \in Names : /\ zips[n] # None /\ zips[n].whole /\ zips[n].members[g] = c
                           /\ ~Unsure(n)
    BY <1>7 DEF Archived
  <2>2. n # job.zip
    BY <2>1 DEF Unsure
  <2>3. zips'[n] = zips[n]
    BY <1>1, <1>4, <2>2 DEF TypeOK
  <2>4. ~Unsure(n)'
    BY <1>2, <2>2 DEF Unsure
  <2> QED BY <2>1, <2>3, <2>4 DEF Safe, Archived
<1>8. CASE disk[g] = c /\ (Doomed(g) => Covered(g, c))
  <2>1. Doomed(g)' => Doomed(g)
    BY <1>2, <1>3 DEF Doomed
  <2>2. Covered(g, c) => Covered(g, c)'
    <3>1. zips'[job.zip].members[g] = IF g = f THEN w ELSE zips[job.zip].members[g]
      BY <1>1, <1>5 DEF Archives
    <3> QED BY <1>2, <1>4, <1>8, <3>1 DEF Covered
  <2> QED BY <1>8, <2>1, <2>2 DEF Safe
<1> QED BY <1>6, <1>7, <1>8 DEF Safe

LEMMA HeldWrite ==
  ASSUME TypeOK, HeldInv, NEW f \in Files, WriteMember(f)
  PROVE  HeldInv'
<1>1. /\ job # None /\ job.at = "write" /\ f \in job.left /\ UNCHANGED <<disk, held>>
  BY DEF WriteMember, Album, History
<1>2. CASE GiveUp
  BY <1>1, <1>2, HeldFreed DEF GiveUp
<1>3. CASE /\ disk[f] # None
           /\ \/ zips' = [zips EXCEPT ![job.zip].members[f] = disk[f]]
              \/ zips' = [zips EXCEPT ![job.zip].members[f] = Spoilt(disk[f])]
           /\ job' = [job EXCEPT !.left = @ \ {f}]
  BY <1>1, <1>3, HeldMember
<1> QED BY <1>2, <1>3 DEF WriteMember

\* Closing an archive changes none of its members.
LEMMA HeldClose ==
  ASSUME TypeOK, HeldInv, CloseArchive
  PROVE  HeldInv'
<1>1. /\ job # None /\ job \in Jobs /\ job.zip \in Names /\ zips[job.zip] \in Archives
      /\ job.at = "write" /\ job.left = {} /\ UNCHANGED <<disk, held>>
  BY DEF CloseArchive, TypeOK, JobOK, Album, History
<1>2. /\ job'.at = "verify" /\ job'.left = job.left /\ job'.zip = job.zip
      /\ job'.sizes = job.sizes /\ job'.album = job.album
  BY <1>1 DEF CloseArchive, Jobs
<1>3. Folders' = Folders
  BY <1>2 DEF Folders
<1>4. /\ zips'[job.zip].members = zips[job.zip].members
      /\ \A n \in Names : n # job.zip => zips'[n] = zips[n]
  BY <1>1 DEF CloseArchive, TypeOK, Archives
<1>5. SUFFICES ASSUME NEW g \in Files, NEW c \in Contents, Safe(g, c)
               PROVE  Safe(g, c)'
  BY <1>1 DEF HeldInv, TypeOK
<1>6. Archived(g, c) => Archived(g, c)'
  BY <1>1, <1>2, <1>4 DEF Archived, Unsure
<1>7. (Doomed(g)' => Doomed(g)) /\ (Covered(g, c) => Covered(g, c)')
  BY <1>1, <1>2, <1>3, <1>4 DEF Doomed, Covered
<1> QED BY <1>1, <1>5, <1>6, <1>7 DEF Safe

\* A member that passes the check is the content its file had.
LEMMA HeldVerify ==
  ASSUME TypeOK, HeldInv, Verify
  PROVE  HeldInv'
<1>1. /\ job # None /\ job \in Jobs /\ job.zip \in Names /\ zips[job.zip] \in Archives
      /\ job.at = "verify" /\ job.left = {} /\ zips[job.zip].whole
      /\ zips[job.zip] # None
      /\ UNCHANGED <<disk, held>>
  BY DEF Verify, TypeOK, JobOK, Album, History
<1>2. CASE GiveUp
  BY <1>1, <1>2, HeldFreed DEF GiveUp
<1>3. CASE /\ Verified(zips[job.zip])
           /\ job' = [job EXCEPT !.at = "remove", !.left = Folders] /\ UNCHANGED zips
  <2>1. /\ job'.at = "remove" /\ job'.zip = job.zip /\ job'.album = job.album
    BY <1>1, <1>3 DEF Jobs
  <2>2. Folders' = Folders
    BY <2>1 DEF Folders
  <2>3. SUFFICES ASSUME NEW g \in Files, NEW c \in Contents, Safe(g, c)
                 PROVE  Safe(g, c)'
    BY <1>1 DEF HeldInv, TypeOK
  <2>4. \A n : ~Unsure(n)'
    BY <2>1 DEF Unsure
  <2>5. CASE Archived(g, c)
    BY <1>3, <2>4, <2>5 DEF Safe, Archived
  <2>6. CASE disk[g] = c /\ ~Doomed(g)
    <3>1. ~Doomed(g)'
      BY <1>1, <2>1, <2>2, <2>6 DEF Doomed
    <3> QED BY <1>1, <2>6, <3>1 DEF Safe
  <2>7. CASE Covered(g, c)
    <3>1. zips[job.zip].members[g] \in {c, Spoilt(c)} /\ g \in DOMAIN job.sizes
      BY <1>1, <2>7 DEF Covered
    <3>2. zips[job.zip].members[g].made # "spoilt"
      BY <1>3, <3>1 DEF Verified
    <3>3. zips[job.zip].members[g] = c
      BY <3>1, <3>2, ContentTypes
    <3> QED BY <1>1, <1>3, <2>4, <3>3 DEF Safe, Archived
  <2> QED BY <2>3, <2>5, <2>6, <2>7 DEF Safe
<1> QED BY <1>2, <1>3 DEF Verify

\* A folder's removal takes only what the archive holds.
LEMMA HeldRemove ==
  ASSUME TypeOK, HeldInv, NEW d \in Dirs, RemoveDir(d) \/ RemoveFails(d)
  PROVE  HeldInv'
<1>1. /\ job # None /\ job \in Jobs /\ job.at = "remove" /\ d \in job.left
      /\ job.left \subseteq Folders
      /\ UNCHANGED <<zips, held>>
  BY DEF RemoveDir, RemoveFails, TypeOK, JobOK, History
<1>2. \A f \in Files : f[1] # d => disk'[f] = disk[f]
  BY DEF RemoveDir, RemoveFails, Without, InDir, TypeOK
<1>3. job' = None \/ (job'.at = "remove" /\ job'.left \subseteq job.left /\ job'.album = job.album)
  BY <1>1 DEF RemoveDir, RemoveFails, Jobs
<1>4. SUFFICES ASSUME NEW g \in Files, NEW c \in Contents, Safe(g, c)
               PROVE  Safe(g, c)'
  BY <1>1 DEF HeldInv, TypeOK
<1>5. \A n : ~Unsure(n)'
  BY <1>3 DEF Unsure
<1>6. CASE Archived(g, c)
  BY <1>1, <1>5, <1>6 DEF Safe, Archived
<1>7. CASE disk[g] = c /\ ~Doomed(g)
  <2>1. g[1] # d
    BY <1>1, <1>7 DEF Doomed
  <2>2. ~Doomed(g)'
    BY <1>1, <1>3, <1>7 DEF Doomed, Folders
  <2> QED BY <1>2, <1>7, <2>1, <2>2 DEF Safe
<1>8. ~Covered(g, c)
  BY <1>1 DEF Covered
<1> QED BY <1>4, <1>6, <1>7, <1>8 DEF Safe

\* A download fills files that were not there, and an edit replaces one; neither
\* touches the archives or what they are to hold.
OnlyFiles(S) ==
  /\ UNCHANGED <<zips, job>>
  /\ \A f \in Files \ S : disk'[f] = disk[f]
  /\ \A h \in held' :
       \/ h \in held /\ h # <<h[1], disk[h[1]]>>
       \/ h \in held /\ h[1] \notin S
       \/ h[2] = disk'[h[1]] /\ ~Doomed(h[1])

LEMMA HeldFile ==
  ASSUME TypeOK, HeldInv, NEW S \in SUBSET Files, OnlyFiles(S)
  PROVE  HeldInv'
<1> USE DEF OnlyFiles
<1>1. SUFFICES ASSUME NEW h \in held' PROVE Safe(h[1], h[2])'
  BY DEF HeldInv
<1>2. \A f, x : Archived(f, x) => Archived(f, x)'
  BY DEF Archived, Unsure
<1>3. \A f, x : (Doomed(f)' => Doomed(f)) /\ (Covered(f, x) => Covered(f, x)')
  BY DEF Doomed, Covered, Folders
<1>4. CASE h \in held /\ h # <<h[1], disk[h[1]]>>
  <2>1. h = <<h[1], h[2]>>
    BY <1>4 DEF TypeOK
  <2>2. Archived(h[1], h[2])
    BY <1>4, <2>1 DEF HeldInv, Safe
  <2> QED BY <1>2, <2>2 DEF Safe
<1>5. CASE h \in held /\ h[1] \notin S
  BY <1>2, <1>3, <1>5 DEF HeldInv, Safe, TypeOK
<1>6. CASE h[2] = disk'[h[1]] /\ ~Doomed(h[1])
  BY <1>3, <1>6 DEF Safe
<1> QED BY <1>4, <1>5, <1>6

\* A sync writes where nothing was.
LEMMA HeldSync ==
  ASSUME TypeOK, HeldInv, SyncStep
  PROVE  HeldInv'
<1>1. CASE Fetch
  <2>1. PICK got \in Downloads :
          /\ disk' = [f \in Files |-> IF f \in got THEN Download(Used("presses"))
                                      ELSE disk[f]]
          /\ held' = held \cup {<<f, Download(Used("presses"))>> : f \in {f \in got : ~Doomed(f)}}
    BY <1>1 DEF Fetch
  <2>2. got \in SUBSET Files /\ \A f \in got : f[1] = Home
    BY <2>1, FilesAssumption
  <2>3. \A f \in got : disk[f] = None
    BY <1>1, <2>2 DEF Fetch, AtHome, Present
  <2>4. UNCHANGED <<zips, job>>
    BY <1>1 DEF Fetch, SyncUntouched
  <2>5. \A f \in Files \ got : disk'[f] = disk[f]
    BY <2>1
  <2>6. ASSUME NEW h \in held'
        PROVE  \/ h \in held /\ h # <<h[1], disk[h[1]]>>
               \/ h \in held /\ h[1] \notin got
               \/ h[2] = disk'[h[1]] /\ ~Doomed(h[1])
    <3>1. CASE h \in held
      <4>1. h[2] # None
        BY <3>1, NoneAssumption DEF TypeOK
      <4> QED BY <2>3, <3>1, <4>1
    <3>2. CASE h \notin held
      <4>1. PICK f \in got : ~Doomed(f) /\ h = <<f, Download(Used("presses"))>>
        BY <2>1, <3>2
      <4>2. disk'[f] = Download(Used("presses"))
        BY <2>1, <2>2
      <4>3. h[1] = f /\ h[2] = Download(Used("presses"))
        BY <4>1
      <4> QED BY <4>1, <4>2, <4>3
    <3> QED BY <3>1, <3>2
  <2>7. OnlyFiles(got)
    BY <2>4, <2>5, <2>6 DEF OnlyFiles
  <2> QED BY <2>2, <2>7, HeldFile
<1>2. CASE ~Fetch
  BY <1>2, HeldQuiet DEF SyncStep, StartSync, Land, Resolve, TagAsCarried, ResolveByUrl,
                         EndSync, SyncUntouched, Album, History
<1> QED BY <1>1, <1>2

\* The owner, other programs and a crash take only what they replace.
LEMMA HeldWorld ==
  ASSUME TypeOK, HeldInv, World
  PROVE  HeldInv'
<1>1. CASE Render \/ Scan \/ \E r \in Releases : Confirm(r)
  BY <1>1, HeldQuiet DEF Render, Scan, Confirm, TaggedAs, Album, Threads, History
<1>2. CASE Crash
  BY <1>2, HeldFreed DEF Crash, Album
<1>3. ASSUME NEW n \in Names, Unzip(n) PROVE HeldInv'
  <2>1. \A f \in Files : disk[f] = None
    BY <1>3 DEF Unzip, Present
  <2>2. \A h \in held' : h \in held /\ h # <<h[1], disk[h[1]]>>
    <3> SUFFICES ASSUME NEW h \in held PROVE h # <<h[1], disk[h[1]]>>
      BY <1>3 DEF Unzip, History
    <3> QED BY <2>1, NoneAssumption DEF TypeOK
  <2>3. UNCHANGED <<zips, job>>
    BY <1>3 DEF Unzip, Threads
  <2>4. /\ Files \in SUBSET Files
        /\ \A f \in Files \ Files : disk'[f] = disk[f]
    OBVIOUS
  <2>5. OnlyFiles(Files)
    BY <2>2, <2>3, <2>4 DEF OnlyFiles
  <2> QED BY <2>4, <2>5, HeldFile
<1>4. ASSUME NEW f \in Files, Change(f) PROVE HeldInv'
  <2>1. PICK to \in {Edit(1), Edit(2), None} :
          /\ disk' = [disk EXCEPT ![f] = to]
          /\ held' = (held \ {<<f, disk[f]>>}) \cup
                       (IF Doomed(f) \/ to = None THEN {} ELSE {<<f, to>>})
    BY <1>4 DEF Change
  <2>2. UNCHANGED <<zips, job>>
    BY <1>4 DEF Change, Threads
  <2>3. disk'[f] = to /\ \A g \in Files \ {f} : disk'[g] = disk[g]
    BY <2>1 DEF TypeOK
  <2>4. ASSUME NEW h \in held'
        PROVE  \/ h \in held /\ h # <<h[1], disk[h[1]]>>
               \/ h \in held /\ h[1] \notin {f}
               \/ h[2] = disk'[h[1]] /\ ~Doomed(h[1])
    <3>1. CASE h \in held
      BY <2>1, <2>3, <3>1
    <3>2. CASE h \notin held
      BY <2>1, <2>3, <3>2
    <3> QED BY <3>1, <3>2
  <2>5. {f} \in SUBSET Files
    OBVIOUS
  <2>6. OnlyFiles({f})
    BY <2>2, <2>3, <2>4 DEF OnlyFiles
  <2> QED BY <2>5, <2>6, HeldFile
<1> QED BY <1>1, <1>2, <1>3, <1>4 DEF World

\* No step, of anybody, loses what is held.
LEMMA HeldStep ==
  ASSUME TypeOK, NamesUsed, HeldInv, [Next]_vars
  PROVE  HeldInv'
<1>1. CASE Press
  <2>1. job = None /\ UNCHANGED <<disk, zips, held>>
    BY <1>1 DEF Press, Album, History
  <2>2. job'.at = "list"
    BY <1>1 DEF Press
  <2> QED BY <2>1, <2>2 DEF HeldInv, Safe, Archived, Unsure, Doomed
<1>2. CASE NoRoom \/ Commit
  BY <1>2, HeldFreed DEF NoRoom, Commit, Album, History
<1>3. CASE UNCHANGED vars
  BY <1>3, HeldQuiet DEF vars
<1> QED BY <1>1, <1>2, <1>3, HeldCollect, HeldWrite, HeldClose, HeldVerify, HeldRemove,
           HeldSync, HeldWorld DEF Next, Archive, Remove

\* No name is used twice, and what is held is on disk, in an archive relied on, or
\* about to be.
THEOREM KeptHolds == Spec => [](TypeOK /\ KeptInv)
<1>1. Init => NamesUsed
  BY DEF Init, NamesUsed
<1>2. Init => HeldInv
  BY DEF Init, HeldInv, Safe, Doomed, Present
<1>3. TypeOK /\ KeptInv /\ [Next]_vars => (TypeOK /\ KeptInv)'
  BY TypeStep, NamesStep, HeldStep DEF KeptInv
<1> QED BY <1>1, <1>2, <1>3, StartTypes, PTL DEF Spec, KeptInv

\* Whatever is listed for an archive is on disk or in one that opens, after any
\* number of presses, edits, failures and restarts in any order: a folder is
\* removed only after its archive was closed and checked, an archive that passed
\* is never unlinked, and its name is never given to another
\* (archive_and_remove, _verify, _unique_path, _remove).
THEOREM NothingIsLost == Spec => []NothingLost
<1>1. TypeOK /\ KeptInv => NothingLost
  <2> SUFFICES ASSUME TypeOK, HeldInv, NEW h \in held PROVE Kept(h[1], h[2])
    BY DEF KeptInv, NothingLost
  <2>1. Archived(h[1], h[2]) => Kept(h[1], h[2])
    BY DEF Archived, Kept
  <2> QED BY <2>1 DEF HeldInv, Safe, Kept
<1> QED BY <1>1, KeptHolds, PTL

=============================================================================

-------------------------- MODULE ScanRunnerProofs --------------------------
(***************************************************************************)
(* Theorems about ScanRunner, for any set of directories and threads and    *)
(* any bounds.                                                               *)
(***************************************************************************)
EXTENDS ScanRunner, TLAPS

-----------------------------------------------------------------------------
(* Jobs stay well formed.                                                     *)

\* A job that is just beginning is a job.
LEMMA NewJobType ==
  ASSUME NEW kind \in Kinds, NEW todo \in SUBSET Dirs
  PROVE  NewJob(kind, todo) \in Job
  BY BoundsAssumption DEF NewJob, Job, Version, Unread

\* refresh_album begins with a job, whatever directories it is asked for.
LEMMA RefreshJobType ==
  ASSUME NEW kind \in Kinds, NEW dirs
  PROVE  RefreshJob(kind, dirs) \in Job
  <1> DEFINE known == dirs \subseteq Known
             new == NewJob(kind, dirs \cap Known)
  <1>1. new \in Job
    BY NewJobType DEF Known
  <1>2. known \in BOOLEAN
    OBVIOUS
  <1>3. RefreshJob(kind, dirs) = [new EXCEPT !.complete = known]
    BY DEF RefreshJob
  <1> HIDE DEF known, new
  <1>4. QED
    BY <1>1, <1>2, <1>3 DEF Job

\* Recording what was read of a directory leaves a job a job.
LEMMA GotType ==
  ASSUME NEW r \in Readers, job[r] \in Job,
         NEW d \in Dirs, NEW v \in Version
  PROVE  Got(r, d, v) \in Job
  <1> DEFINE todo == job[r].todo \ {d}
             got == [job[r].got EXCEPT ![d] = v]
  <1>1. todo \in SUBSET Dirs /\ got \in [Dirs -> Version \cup {Unread}]
    BY DEF Job
  <1>2. 0 \in Version
    BY BoundsAssumption DEF Version
  <1>3. Got(r, d, v) = [job[r] EXCEPT !.todo = todo, !.at = NoDir, !.sig = 0,
                                      !.ver = 0, !.got = got]
    BY DEF Got
  <1> HIDE DEF todo, got
  <1>4. QED
    BY <1>1, <1>2, <1>3 DEF Job

\* Setting a job's flag, or its answer, leaves it a job.
LEMMA FlagType ==
  ASSUME NEW j \in Job, NEW b \in BOOLEAN
  PROVE  [j EXCEPT !.flag = b] \in Job
  BY DEF Job

\* A finished album refresh becomes a page to render.
LEMMA RenderJobType ==
  ASSUME NEW j \in Job
  PROVE  [j EXCEPT !.kind = "render"] \in Job
  BY DEF Job, Kinds

\* So does replacing one reader's job by another job.
LEMMA JobsType ==
  ASSUME job \in [Readers -> Job], NEW r \in Readers, NEW new \in Job,
         job' = [job EXCEPT ![r] = new]
  PROVE  job' \in [Readers -> Job]
  OBVIOUS

-----------------------------------------------------------------------------
(* Type correctness.  It needs one fact besides: a scan whose status is about *)
(* to be advertised has a status.                                             *)

BuiltOK == task = "built" => current \in {0, 1}

\* What a reading step leaves alone keeps its type.
LEMMA ReadStepType ==
  ASSUME TypeOK, NEW r \in Readers, NEW new \in Job, ReadStep(r, new),
         cache' \in [Dirs -> [sig : Version, ver : Version]],
         faults' \in 0..MaxFaults
  PROVE  TypeOK'
  BY DEF TypeOK, ReadStep, files, publication, triggers, display

\* Emptying cache entries leaves a cache.
LEMMA WithoutType ==
  ASSUME TypeOK, NEW gone
  PROVE  Without(cache, gone) \in [Dirs -> [sig : Version, ver : Version]]
  BY BoundsAssumption DEF TypeOK, Without, Version

\* A walk's result is a snapshot.
LEMMA ListedType ==
  ASSUME NEW got \in [Dirs -> Version \cup {Unread}]
  PROVE  Listed(got) \in [Dirs -> Version]
  BY BoundsAssumption DEF Listed, Version, Unread

\* A snapshot with some entries re-read is a snapshot.
LEMMA PatchedType ==
  ASSUME TypeOK, NEW r \in Readers
  PROVE  Patched(r) \in [Dirs -> Version]
  BY DEF TypeOK, Patched, Fresh, Job, Version, Unread

\* So is what a scan publishes, merged with what was republished meanwhile.
LEMMA CollectedType ==
  ASSUME TypeOK
  PROVE  Collected \in [Dirs -> Version]
  <1>1. job[Loop].got \in [Dirs -> Version \cup {Unread}]
    BY DEF TypeOK, Readers, Job
  <1>2. Listed(job[Loop].got) \in [Dirs -> Version]
    BY <1>1, ListedType
  <1>3. QED
    BY <1>2 DEF TypeOK, Collected

\* Advancing the scan counter keeps the display's type.
LEMMA BumpType ==
  ASSUME TypeOK, NEW changed, Bump(changed)
  PROVE  /\ seq' \in Nat
         /\ status' \in [{0, 1} -> [state : {"idle", "scanning", "done"}, seq : Nat]]
  <1>1. CASE changed
    BY <1>1 DEF TypeOK, Bump
  <1>2. CASE ~changed
    BY <1>2 DEF TypeOK, Bump
  <1>3. QED
    BY <1>1, <1>2

\* A refresh's publication keeps the types of what it publishes.
LEMMA PublishRefreshType ==
  ASSUME TypeOK, NEW r \in Readers, NothingFresh(r) \/ PublishRefresh(r)
  PROVE  /\ cache' \in [Dirs -> [sig : Version, ver : Version]]
         /\ scanned' \in [Dirs -> Version]
         /\ nfos' \in 0..MaxNfo
         /\ index' \in [Dirs -> Version]
         /\ touched' \subseteq Dirs
         /\ nfoTouched' \in BOOLEAN
         /\ moved' \in BOOLEAN
         /\ seq' \in Nat
         /\ status' \in [{0, 1} -> [state : {"idle", "scanning", "done"}, seq : Nat]]
  <1>1. CASE NothingFresh(r)
    BY <1>1 DEF TypeOK, NothingFresh, publication
  <1>2. CASE PublishRefresh(r)
    <2>1. Patched(r) \in [Dirs -> Version]
      BY PatchedType
    <2>2. CASE job[r].kind = "album"
      BY <1>2, <2>1, <2>2, WithoutType DEF TypeOK, PublishRefresh, Known
    <2>3. CASE job[r].kind # "album"
      <3>1. Bump(Patched(r) # scanned) /\ index' = Patched(r)
        BY <1>2, <2>3 DEF PublishRefresh
      <3>2. QED
        BY <1>2, <2>1, <3>1, BumpType, WithoutType DEF TypeOK, PublishRefresh, Known
    <2>4. QED
      BY <2>2, <2>3
  <1>3. QED
    BY <1>1, <1>2

\* The steps outside the readers.
LEMMA EnvironmentType ==
  ASSUME TypeOK,
         \/ \E d \in Dirs : Change(d)
         \/ ChangeNfo
         \/ WatcherDies
         \/ RequestScan
         \/ HourlyRescan
         \/ Settle
         \/ Reset
  PROVE  TypeOK'
  <1> USE BoundsAssumption DEF TypeOK, Version
  <1>1. ASSUME NEW d \in Dirs, Change(d) PROVE TypeOK'
    BY <1>1 DEF Change, Notice, publication, triggers, display, bounds
  <1>2. CASE ChangeNfo
    BY <1>2 DEF ChangeNfo, Notice, publication, triggers, display, bounds
  <1>3. CASE WatcherDies
    BY <1>3 DEF WatcherDies, publication, triggers, display, bounds
  <1>4. CASE RequestScan
    BY <1>4 DEF RequestScan, Kick, Start, files, publication, bounds, None
  <1>5. CASE HourlyRescan
    BY <1>5 DEF HourlyRescan, Start, files, publication, display, bounds
  <1>6. CASE Settle
    BY <1>6 DEF Settle, Start, publication, display, bounds
  <1>7. CASE Reset
    BY <1>7 DEF Reset, Kick, Start, files, NoEntry, Known, None
  <1>8. QED
    BY <1>1, <1>2, <1>3, <1>4, <1>5, <1>6, <1>7

\* The request threads' own steps.
LEMMA ThreadType ==
  ASSUME TypeOK, NEW t \in Threads,
         \/ \E d \in Dirs : View(t, d) \/ Mutate(t, d) \/ Remove(t, d)
         \/ Render(t)
         \/ Deliver(t)
         \/ FinishRefresh(t)
         \/ FinishNow(t)
  PROVE  TypeOK'
  <1>t. t \in Readers
    BY DEF Readers
  <1>n. NoJob \in Job
    BY NewJobType DEF NoJob, Kinds
  <1>k. NewJob("kick", {}) \in Job
    BY NewJobType DEF Kinds
  <1>1. ASSUME NEW d \in Dirs, View(t, d) PROVE TypeOK'
    <2>1. RefreshJob("album", {d}) \in Job
      BY RefreshJobType DEF Kinds, Refreshes
    <2>2. QED
      BY <1>1, <2>1, <1>t DEF TypeOK, View, files, publication, triggers, display, bounds
  <1>2. ASSUME NEW d \in Dirs, Mutate(t, d) PROVE TypeOK'
    <2>1. PICK op \in Ops : job' = [job EXCEPT ![t] = JobFor(op, d)]
      BY <1>2 DEF Mutate
    <2>2. JobFor(op, d) \in Job
      <3>1. op \in AllOps
        BY SetsAssumption
      <3>2. RefreshJob("album", {d}) \in Job /\ RefreshJob("notify", {d}) \in Job
        BY RefreshJobType DEF Kinds, Refreshes
      <3>3. NewJob("now", Dirs) \in Job
        BY NewJobType DEF Kinds, Walks
      <3>4. QED
        BY <3>1, <3>2, <3>3, <1>k DEF JobFor, AllOps
    <2>3. job' \in [Readers -> Job]
      BY <2>1, <2>2, <1>t DEF TypeOK
    <2>4. QED
      BY <1>2, <2>3, BoundsAssumption
      DEF TypeOK, Mutate, Notice, publication, triggers, display, bounds, Version
  <1>3. ASSUME NEW d \in Dirs, Remove(t, d) PROVE TypeOK'
    BY <1>3, <1>t, <1>k, BoundsAssumption
    DEF TypeOK, Remove, Notice, publication, triggers, display, bounds, Version
  <1>4. CASE Render(t)
    BY <1>4, <1>t, <1>n DEF TypeOK, Render, files, publication, triggers, display, bounds
  <1>5. CASE Deliver(t)
    BY <1>5, <1>t, <1>n DEF TypeOK, Deliver, Kick, Start, files, publication, bounds, None
  <1>6. CASE FinishRefresh(t)
    <2>1. \/ job' = [job EXCEPT ![t] = [job[t] EXCEPT !.kind = "render"]]
          \/ job' = [job EXCEPT ![t] = NoJob]
          \/ job' = [job EXCEPT ![t] = NewJob("kick", {})]
      BY <1>6, <1>t DEF FinishRefresh, TypeOK
    <2>2. job' \in [Readers -> Job]
      BY <2>1, <1>t, <1>n, <1>k, RenderJobType, JobsType DEF TypeOK
    <2>3. NothingFresh(t) \/ PublishRefresh(t)
      BY <1>6 DEF FinishRefresh
    <2>4. QED
      BY <1>6, <1>t, <2>2, <2>3, PublishRefreshType
      DEF TypeOK, FinishRefresh, files, triggers, bounds
  <1>7. CASE FinishNow(t)
    <2>1. Listed(job[t].got) \in [Dirs -> Version] /\ job[t].nfo \in 0..MaxNfo
      BY <1>7, <1>t, ListedType DEF TypeOK, Job, FinishNow
    <2>2. QED
      BY <1>7, <1>t, <1>n, <2>1, WithoutType
      DEF TypeOK, FinishNow, Bump, Known, files, triggers, bounds
  <1>8. QED
    BY <1>1, <1>2, <1>3, <1>4, <1>5, <1>6, <1>7

\* Reading, by the loop's worker or a thread.
LEMMA ReaderType ==
  ASSUME TypeOK, NEW r \in Readers,
         \/ List(r) \/ CannotList(r) \/ CacheHit(r) \/ ReadTags(r)
         \/ CannotBuild(r) \/ StoreInCache(r) \/ ReadNfos(r)
  PROVE  TypeOK'
  <1>j. job[r] \in Job
    BY DEF TypeOK
  <1>g. \A d \in Dirs, v \in Version : Got(r, d, v) \in Job
    BY <1>j, GotType
  <1>0. 0 \in Version
    BY BoundsAssumption DEF Version
  <1>c. /\ cache \in [Dirs -> [sig : Version, ver : Version]]
        /\ faults \in 0..MaxFaults
        /\ \A d \in Dirs : disk[d].ver \in Version
    BY DEF TypeOK, Version
  <1>f. faults < MaxFaults => faults + 1 \in 0..MaxFaults
    BY <1>c, BoundsAssumption
  <1>1. CASE List(r)
    <2>1. PICK d \in job[r].todo :
            ReadStep(r, IF disk[d].here
                          THEN [job[r] EXCEPT !.todo = @ \ {d}, !.at = d,
                                              !.sig = disk[d].ver]
                          ELSE Got(r, d, 0))
      BY <1>1 DEF List
    <2>2. d \in Dirs
      BY <1>j DEF Job
    <2>3. [job[r] EXCEPT !.todo = @ \ {d}, !.at = d, !.sig = disk[d].ver] \in Job
      BY <1>j, <1>c, <2>2 DEF Job
    <2>4. QED
      BY <1>1, <1>0, <1>c, <1>g, <2>1, <2>2, <2>3, ReadStepType DEF List
  <1>2. CASE CannotList(r)
    <2>1. PICK d \in job[r].todo :
            ReadStep(r, IF job[r].kind \in Walks
                          THEN Got(r, d, 0)
                          ELSE [job[r] EXCEPT !.todo = @ \ {d}, !.complete = FALSE])
      BY <1>2 DEF CannotList
    <2>2. d \in Dirs
      BY <1>j DEF Job
    <2>3. [job[r] EXCEPT !.todo = @ \ {d}, !.complete = FALSE] \in Job
      BY <1>j DEF Job
    <2>4. QED
      BY <1>2, <1>0, <1>c, <1>f, <1>g, <2>1, <2>2, <2>3, ReadStepType DEF CannotList
  <1>3. CASE CacheHit(r)
    BY <1>3, <1>c, <1>g, ReadStepType DEF CacheHit
  <1>4. CASE ReadTags(r)
    <2>1. job[r].at \in Dirs
      BY <1>4 DEF ReadTags
    <2>2. [job[r] EXCEPT !.ver = disk[job[r].at].ver] \in Job
      BY <1>j, <1>c, <2>1 DEF Job
    <2>3. QED
      BY <1>4, <1>0, <1>c, <1>g, <2>1, <2>2, ReadStepType DEF ReadTags
  <1>5. CASE CannotBuild(r)
    BY <1>5, <1>0, <1>c, <1>f, <1>g, ReadStepType DEF CannotBuild
  <1>6. CASE StoreInCache(r)
    <2>1. job[r].ver \in Version /\ job[r].sig \in Version
      BY <1>j DEF Job
    <2>2. cache' \in [Dirs -> [sig : Version, ver : Version]]
      BY <1>6, <1>c, <2>1 DEF StoreInCache, CacheEntry
    <2>3. QED
      BY <1>6, <1>c, <1>g, <2>1, <2>2, ReadStepType DEF StoreInCache, CacheEntry
  <1>7. CASE ReadNfos(r)
    <2>1. [job[r] EXCEPT !.nfo = nfoDisk] \in Job
      BY <1>j DEF TypeOK, Job
    <2>2. QED
      BY <1>7, <1>c, <2>1, ReadStepType DEF ReadNfos
  <1>8. QED
    BY <1>1, <1>2, <1>3, <1>4, <1>5, <1>6, <1>7

\* The scan's task.
LEMMA LoopType ==
  ASSUME TypeOK, BuiltOK,
         \/ BeginScan \/ Advertise \/ PublishScan \/ CloseScan \/ ScanFails
         \/ BeginWatchPass \/ BeginNfos \/ PublishNfos \/ FinishWatch
         \/ WatchFails
  PROVE  TypeOK'
  <1>l. Loop \in Readers /\ job[Loop] \in Job
    BY DEF TypeOK, Readers
  <1>n. NoJob \in Job /\ NewJob("nfo", {}) \in Job
    BY NewJobType DEF NoJob, Kinds
  <1>w. \A dirs : RefreshJob("watch", dirs) \in Job
    BY RefreshJobType DEF Kinds, Refreshes
  <1>1. CASE BeginScan
    <2>1. NewJob("scan", Dirs) \in Job /\ visible \in BOOLEAN
      BY NewJobType DEF Kinds, Walks, TypeOK
    <2>2. [NewJob("scan", Dirs) EXCEPT !.flag = visible] \in Job
      BY <2>1, FlagType
    <2>3. job' \in [Readers -> Job]
      BY <1>1, <1>l, <2>2 DEF TypeOK, BeginScan
    <2>4. status' \in [{0, 1} -> [state : {"idle", "scanning", "done"}, seq : Nat]]
      BY <1>1 DEF TypeOK, BeginScan
    <2>5. current' \in {0, 1, None} /\ base' \subseteq Dirs
      BY <1>1 DEF TypeOK, BeginScan, Known, None
    <2>6. QED
      BY <1>1, <2>3, <2>4, <2>5 DEF TypeOK, BeginScan, files, bounds
  <1>2. CASE Advertise
    <2>1. shown' \in {0, 1}
      BY <1>2 DEF TypeOK, BuiltOK, Advertise
    <2>2. QED
      BY <1>2, <2>1 DEF TypeOK, Advertise, files, publication, triggers, bounds
  <1>3. CASE PublishScan
    <2> DEFINE changed == Collected # scanned \/ CollectedNfos # nfos
    <2>1. changed \in BOOLEAN
      OBVIOUS
    <2>2. job' = [job EXCEPT ![Loop] = [NewJob("closing", {}) EXCEPT !.flag = changed]]
      BY <1>3 DEF PublishScan
    <2> HIDE DEF changed
    <2>3. NewJob("closing", {}) \in Job
      BY NewJobType DEF Kinds
    <2>4. job' \in [Readers -> Job]
      BY <1>l, <2>1, <2>2, <2>3, FlagType, JobsType DEF TypeOK
    <2>5. CollectedNfos \in 0..MaxNfo
      BY <1>3, <1>l DEF PublishScan, CollectedNfos, TypeOK, Job
    <2>6. seq' \in Nat
      BY <1>3 DEF TypeOK, PublishScan
    <2>7. QED
      BY <1>3, <2>4, <2>5, <2>6, CollectedType, WithoutType
      DEF TypeOK, PublishScan, files, triggers, bounds
  <1>4. CASE CloseScan
    BY <1>4, <1>l, <1>n
    DEF TypeOK, CloseScan, NextPass, None, files, publication, triggers, bounds
  <1>5. CASE ScanFails
    BY <1>5, <1>l, <1>n, BoundsAssumption
    DEF TypeOK, ScanFails, NextPass, None, files, publication, triggers
  <1>6. CASE BeginWatchPass
    <2>1. NewJob("nfo", paths \ {ArtistNfo}) \in Job
      BY NewJobType DEF Kinds, TypeOK
    <2>2. job' \in [Readers -> Job]
      BY <1>6, <1>l, <1>w, <2>1 DEF TypeOK, BeginWatchPass
    <2>3. QED
      BY <1>6, <2>2
      DEF TypeOK, BeginWatchPass, KickFullScan, files, publication, display, bounds
  <1>7. CASE BeginNfos
    <2>1. [job[Loop] EXCEPT !.flag = TRUE] \in Job
      BY <1>l, FlagType
    <2>2. job' = [job EXCEPT ![Loop] = [job[Loop] EXCEPT !.flag = TRUE]]
      BY <1>7, <1>l DEF BeginNfos, TypeOK
    <2>3. job' \in [Readers -> Job]
      BY <1>l, <2>1, <2>2 DEF TypeOK
    <2>4. QED
      BY <1>7, <2>3 DEF TypeOK, BeginNfos, files, triggers, display, bounds
  <1>8. CASE PublishNfos
    <2>1. job' \in [Readers -> Job]
      BY <1>8, <1>l, <1>n, <1>w DEF TypeOK, PublishNfos
    <2>2. dirty' \in BOOLEAN /\ visible' \in BOOLEAN
      BY <1>8 DEF TypeOK, PublishNfos, KickFullScan
    <2>3. task' \in {"idle", "ready", "built", "busy", "closing"}
      BY <1>8 DEF TypeOK, PublishNfos, NextPass
    <2>4. CASE moved
      BY <1>8, <2>1, <2>2, <2>3, <2>4 DEF TypeOK, PublishNfos, files, bounds
    <2>5. CASE ~moved
      <3>1. Bump(job[Loop].nfo # nfos) /\ nfos' = job[Loop].nfo
        BY <1>8, <2>5 DEF PublishNfos
      <3>2. nfos' \in 0..MaxNfo
        BY <1>8, <1>l, <3>1 DEF PublishNfos, Job
      <3>3. nfoTouched' \in BOOLEAN /\ moved' \in BOOLEAN
        BY <1>8, <2>5 DEF PublishNfos, TypeOK
      <3>4. QED
        BY <1>8, <2>1, <2>2, <2>3, <3>1, <3>2, <3>3, BumpType
        DEF TypeOK, PublishNfos, files, bounds
    <2>6. QED
      BY <2>4, <2>5
  <1>9. CASE FinishWatch
    <2>1. job' \in [Readers -> Job]
      BY <1>9, <1>l, <1>n, <1>w DEF TypeOK, FinishWatch
    <2>2. /\ dirty' \in BOOLEAN
          /\ visible' \in BOOLEAN
          /\ task' \in {"idle", "ready", "built", "busy", "closing"}
      BY <1>9 DEF TypeOK, FinishWatch, KickFullScan, NextPass
    <2>3. NothingFresh(Loop) \/ PublishRefresh(Loop)
      BY <1>9 DEF FinishWatch
    <2>4. QED
      BY <1>9, <1>l, <2>1, <2>2, <2>3, PublishRefreshType
      DEF TypeOK, FinishWatch, files, bounds
  <1>10. CASE WatchFails
    BY <1>10, <1>l, <1>n, BoundsAssumption
    DEF TypeOK, WatchFails, KickFullScan, files, publication
  <1>11. QED
    BY <1>1, <1>2, <1>3, <1>4, <1>5, <1>6, <1>7, <1>8, <1>9, <1>10

\* The status of a scan in flight is kept until the scan closes or fails.
LEMMA BuiltStep ==
  ASSUME TypeOK, BuiltOK, [Next]_vars
  PROVE  BuiltOK'
  <1> USE DEF BuiltOK
  <1>1. CASE BeginScan
    BY <1>1 DEF BeginScan, TypeOK
  <1>2. CASE \/ Advertise \/ PublishScan \/ CloseScan \/ ScanFails
             \/ BeginWatchPass \/ PublishNfos \/ FinishWatch \/ WatchFails
    BY <1>2
    DEF Advertise, PublishScan, CloseScan, ScanFails, BeginWatchPass, PublishNfos,
        FinishWatch, WatchFails, NextPass, ReadAll, Between, Reading
  <1>3. CASE RequestScan \/ HourlyRescan \/ Settle \/ Reset
    BY <1>3
    DEF RequestScan, HourlyRescan, Settle, Reset, Kick, Start, LoopFree, display
  <1>4. CASE \E t \in Threads : Deliver(t)
    BY <1>4 DEF Deliver, Kick, Start
  <1>5. CASE \/ \E d \in Dirs : Change(d)
             \/ ChangeNfo
             \/ WatcherDies
             \/ BeginNfos
             \/ UNCHANGED vars
    BY <1>5 DEF Change, ChangeNfo, WatcherDies, BeginNfos, vars, display
  <1>6. ASSUME NEW t \in Threads,
               \/ \E d \in Dirs : View(t, d) \/ Mutate(t, d) \/ Remove(t, d)
               \/ Render(t) \/ FinishRefresh(t) \/ FinishNow(t)
        PROVE  BuiltOK'
    BY <1>6 DEF View, Mutate, Remove, Render, FinishRefresh, FinishNow, display
  <1>7. ASSUME NEW r \in Readers,
               \/ List(r) \/ CannotList(r) \/ CacheHit(r) \/ ReadTags(r)
               \/ CannotBuild(r) \/ StoreInCache(r) \/ ReadNfos(r)
        PROVE  BuiltOK'
    BY <1>7
    DEF List, CannotList, CacheHit, ReadTags, CannotBuild, StoreInCache, ReadNfos,
        ReadStep, display
  <1>8. QED
    BY <1>1, <1>2, <1>3, <1>4, <1>5, <1>6, <1>7 DEF Next

\* Type correctness: no step of the loop, of a thread or of the world outside
\* leaves a variable with a value the code cannot hold (ScanRunner.__init__).
THEOREM TypeCorrect == Spec => []TypeOK
  <1>1. Init => TypeOK /\ BuiltOK
    <2> SUFFICES ASSUME Init PROVE TypeOK /\ BuiltOK
      OBVIOUS
    <2>1. NoJob \in Job
      BY NewJobType DEF NoJob, Kinds
    <2>2. job \in [Readers -> Job]
      BY <2>1 DEF Init
    <2>3. NoEntry \in [Dirs -> Version] /\ 0 \in Version
      BY BoundsAssumption DEF NoEntry, Version
    <2>4. disk \in [Dirs -> [ver : 1..MaxVersion, here : BOOLEAN]]
      BY BoundsAssumption DEF Init
    <2>5. cache \in [Dirs -> [sig : Version, ver : Version]]
      BY <2>3 DEF Init
    <2>6. status \in [{0, 1} -> [state : {"idle", "scanning", "done"}, seq : Nat]]
      BY DEF Init
    <2>7. BuiltOK
      BY DEF Init, BuiltOK
    <2>8. /\ nfoDisk \in 0..MaxNfo /\ nfos \in 0..MaxNfo /\ seq \in Nat
          /\ faults \in 0..MaxFaults /\ resets \in 0..MaxResets
      BY BoundsAssumption DEF Init
    <2>9. /\ watching \in BOOLEAN /\ nfoTouched \in BOOLEAN /\ moved \in BOOLEAN
          /\ dirty \in BOOLEAN /\ visible \in BOOLEAN /\ completed \in BOOLEAN
      BY SetsAssumption DEF Init
    <2>10. /\ scanned \in [Dirs -> Version] /\ index \in [Dirs -> Version]
           /\ task \in {"idle", "ready", "built", "busy", "closing"}
           /\ shown \in {0, 1} /\ current \in {0, 1, None}
      BY <2>3 DEF Init
    <2>11. QED
      BY <2>2, <2>4, <2>5, <2>6, <2>7, <2>8, <2>9, <2>10 DEF Init, TypeOK
  <1>2. TypeOK /\ BuiltOK /\ [Next]_vars => TypeOK' /\ BuiltOK'
    <2> SUFFICES ASSUME TypeOK, BuiltOK, [Next]_vars
                 PROVE  TypeOK' /\ BuiltOK'
      OBVIOUS
    <2>1. BuiltOK'
      BY BuiltStep
    <2>2. CASE UNCHANGED vars
      BY <2>1, <2>2 DEF vars, files, publication, triggers, display, bounds, TypeOK
    <2>3. CASE Next
      BY <2>1, <2>3, EnvironmentType, ThreadType, ReaderType, LoopType DEF Next
    <2>4. QED
      BY <2>2, <2>3
  <1>3. QED
    BY <1>1, <1>2, PTL DEF Spec

-----------------------------------------------------------------------------
(* Freshness.  FreshInv is inductive: CacheHonest alone is not, because what a *)
(* reader is about to store in the cache must be known to be no older than    *)
(* its listing; and ScanKeepsNewer needs the entries not republished to be no *)
(* newer than the scan's readings.                                            *)

\* The disk only moves on.
LEMMA DiskGrows ==
  ASSUME TypeOK, [Next]_vars
  PROVE  \A d \in Dirs : disk[d].ver <= disk'[d].ver
  <1> USE DEF TypeOK
  <1>1. ASSUME NEW d \in Dirs, Change(d)
        PROVE  \A e \in Dirs : disk[e].ver <= disk'[e].ver
    BY <1>1 DEF Change
  <1>2. ASSUME NEW t \in Threads, NEW d \in Dirs, Mutate(t, d) \/ Remove(t, d)
        PROVE  \A e \in Dirs : disk[e].ver <= disk'[e].ver
    BY <1>2 DEF Mutate, Remove
  <1>3. CASE disk' = disk
    BY <1>3
  <1>4. ASSUME NEW r \in Readers,
               \/ List(r) \/ CannotList(r) \/ CacheHit(r) \/ ReadTags(r)
               \/ CannotBuild(r) \/ StoreInCache(r) \/ ReadNfos(r)
        PROVE  disk' = disk
    BY <1>4
    DEF List, CannotList, CacheHit, ReadTags, CannotBuild, StoreInCache, ReadNfos,
        ReadStep, files
  <1>5. ASSUME NEW t \in Threads,
               \/ \E d \in Dirs : View(t, d)
               \/ Render(t) \/ Deliver(t) \/ FinishRefresh(t) \/ FinishNow(t)
        PROVE  disk' = disk
    BY <1>5 DEF View, Render, Deliver, FinishRefresh, FinishNow, files
  <1>6. CASE \/ ChangeNfo \/ WatcherDies \/ RequestScan \/ HourlyRescan \/ Settle
             \/ Reset \/ BeginScan \/ Advertise \/ PublishScan \/ CloseScan
             \/ ScanFails \/ BeginWatchPass \/ BeginNfos \/ PublishNfos
             \/ FinishWatch \/ WatchFails \/ UNCHANGED vars
    BY <1>6
    DEF ChangeNfo, WatcherDies, RequestScan, HourlyRescan, Settle, Reset, BeginScan,
        Advertise, PublishScan, CloseScan, ScanFails, BeginWatchPass, BeginNfos,
        PublishNfos, FinishWatch, WatchFails, vars, files
  <1>7. QED
    BY <1>1, <1>2, <1>3, <1>4, <1>5, <1>6 DEF Next

\* A job that has read nothing yet, and a job that differs from another only in
\* what it is for.
Blank(j) == j.at = NoDir /\ j.ver = 0 /\ \A d \in Dirs : j.got[d] = Unread
SameReading(j, k) == k.at = j.at /\ k.sig = j.sig /\ k.ver = j.ver /\ k.got = j.got
CarriesOn(j, k) == k = j \/ Blank(k) \/ (SameReading(j, k) /\ k.kind # "scan")

\* Every step but a reading one: jobs carry on, cache entries are kept or
\* dropped, and what is published is real and marked as republished.
LEMMA PublicationStep ==
  ASSUME TypeOK, TypeOK', FreshInv,
         \A d \in Dirs : disk[d].ver <= disk'[d].ver,
         \A d \in Dirs : cache'[d] = cache[d] \/ cache'[d] = [sig |-> 0, ver |-> 0],
         \A r \in Readers : CarriesOn(job[r], job'[r]),
         \A d \in Dirs : scanned'[d] <= disk[d].ver,
         job'[Loop].kind = "scan" =>
           \/ Blank(job'[Loop])
           \/ /\ touched \subseteq touched'
              /\ \A d \in Dirs \ touched' : scanned'[d] = scanned[d]
  PROVE  FreshInv'
  <1> USE DEF FreshInv, TypeOK
  <1>d. \A d \in Dirs : disk[d].ver \in Nat /\ disk'[d].ver \in Nat
    BY BoundsAssumption
  <1>1. CacheHonest'
    BY <1>d DEF CacheHonest, Version
  <1>2. ReadingsReal'
    <2>1. ASSUME NEW r \in Readers
          PROVE  Blank(job'[r]) \/ SameReading(job[r], job'[r])
      <3>1. CarriesOn(job[r], job'[r])
        OBVIOUS
      <3>2. QED
        BY <3>1 DEF CarriesOn, SameReading
    <2>2. ASSUME NEW r \in Readers
          PROVE  job'[r].at = NoDir => job'[r].ver = 0
      BY <2>1 DEF ReadingsReal, Blank, SameReading
    <2>3. ASSUME NEW r \in Readers, NEW d \in Dirs
          PROVE  /\ job'[r].at = d =>
                      /\ job'[r].sig <= disk'[d].ver
                      /\ job'[r].ver > 0 => /\ job'[r].sig <= job'[r].ver
                                            /\ job'[r].ver <= disk'[d].ver
                 /\ job'[r].got[d] <= disk'[d].ver
      <3>1. CASE Blank(job'[r])
        BY <1>d, <3>1, SetsAssumption DEF Blank, Unread
      <3>2. CASE SameReading(job[r], job'[r])
        <4>1. /\ job[r].sig \in Int /\ job[r].ver \in Int
              /\ job[r].got[d] \in Int
              /\ disk[d].ver \in Int /\ disk'[d].ver \in Int
              /\ disk[d].ver <= disk'[d].ver
          BY <1>d DEF Job, Version, Unread
        <4>2. /\ job[r].at = d =>
                   /\ job[r].sig <= disk[d].ver
                   /\ job[r].ver > 0 => /\ job[r].sig <= job[r].ver
                                        /\ job[r].ver <= disk[d].ver
              /\ job[r].got[d] <= disk[d].ver
          BY DEF ReadingsReal
        <4> HIDE DEF FreshInv, TypeOK
        <4>3. QED
          BY <3>2, <4>1, <4>2 DEF SameReading
      <3>3. QED
        BY <2>1, <3>1, <3>2
    <2> HIDE DEF FreshInv, TypeOK
    <2>4. QED
      BY <2>2, <2>3 DEF ReadingsReal
  <1>3. ShownReal'
    BY <1>d DEF ShownReal, Version
  <1>4. ScanFresh'
    <2> SUFFICES ASSUME job'[Loop].kind = "scan", NEW d \in Dirs \ touched'
                 PROVE  /\ job'[Loop].at = d => scanned'[d] <= job'[Loop].sig
                        /\ job'[Loop].got[d] > 0 => scanned'[d] <= job'[Loop].got[d]
      BY DEF ScanFresh
    <2>1. Loop \in Readers
      BY DEF Readers
    <2>2. CASE Blank(job'[Loop])
      BY <2>2, SetsAssumption DEF Blank, Unread
    <2>3. CASE ~Blank(job'[Loop])
      <3>1. job'[Loop] = job[Loop]
        BY <2>1, <2>3 DEF CarriesOn
      <3>2. d \notin touched /\ scanned'[d] = scanned[d]
        BY <2>3
      <3>3. QED
        BY <3>1, <3>2 DEF ScanFresh
    <2>4. QED
      BY <2>2, <2>3
  <1>5. QED
    BY <1>1, <1>2, <1>3, <1>4

\* Recording content that is real, and for the scan no older than the entry on
\* show, keeps the invariant.
LEMMA RecordStep ==
  ASSUME TypeOK, FreshInv, NEW r \in Readers, NEW d \in Dirs, NEW v \in Version,
         v <= disk[d].ver,
         ReadStep(r, Got(r, d, v)),
         CacheHonest',
         r = Loop /\ job[r].kind = "scan" /\ d \notin touched /\ v > 0 =>
           scanned[d] <= v
  PROVE  FreshInv'
  <1> USE DEF FreshInv
  <1>0. /\ UNCHANGED <<disk, scanned, touched>>
        /\ job' = [job EXCEPT ![r] = Got(r, d, v)]
    BY DEF ReadStep, files, publication
  <1>1. /\ \A q \in Readers \ {r} : job'[q] = job[q]
        /\ job'[r] = Got(r, d, v)
    BY <1>0 DEF TypeOK
  <1>2. /\ Got(r, d, v).at = NoDir /\ Got(r, d, v).ver = 0
        /\ Got(r, d, v).kind = job[r].kind
        /\ Got(r, d, v).got[d] = v
        /\ \A e \in Dirs \ {d} : Got(r, d, v).got[e] = job[r].got[e]
    BY DEF Got, TypeOK, Job
  <1>3. ReadingsReal'
    BY <1>0, <1>1, <1>2, SetsAssumption DEF ReadingsReal
  <1>4. ScanFresh'
    BY <1>0, <1>1, <1>2, SetsAssumption DEF ScanFresh, Readers
  <1>5. ShownReal'
    BY <1>0 DEF ShownReal
  <1>6. QED
    BY <1>3, <1>4, <1>5

\* A reading step keeps the invariant: a listing is taken of what is there now,
\* and content is read no earlier than its listing.
LEMMA ReadingStep ==
  ASSUME TypeOK, FreshInv, NEW r \in Readers,
         \/ List(r) \/ CannotList(r) \/ CacheHit(r) \/ ReadTags(r)
         \/ CannotBuild(r) \/ StoreInCache(r) \/ ReadNfos(r)
  PROVE  FreshInv'
  <1> USE DEF FreshInv
  <1>j. job[r] \in Job /\ \A d \in Dirs : disk[d].ver \in Version
    BY DEF TypeOK, Version
  <1>0. 0 \in Version /\ \A d \in Dirs : 0 <= disk[d].ver
    BY BoundsAssumption DEF TypeOK, Version
  <1>z. ASSUME NEW d \in Dirs, ReadStep(r, Got(r, d, 0)), UNCHANGED cache
        PROVE  FreshInv'
    <2>1. CacheHonest'
      BY <1>z DEF CacheHonest, ReadStep, files
    <2>2. QED
      BY <1>z, <1>0, <2>1, RecordStep
  <1>1. CASE List(r)
    <2>1. PICK d \in job[r].todo :
            ReadStep(r, IF disk[d].here
                          THEN [job[r] EXCEPT !.todo = @ \ {d}, !.at = d,
                                              !.sig = disk[d].ver]
                          ELSE Got(r, d, 0))
      BY <1>1 DEF List
    <2>2. d \in Dirs
      BY <1>j DEF Job
    <2>3. CASE disk[d].here
      <3> DEFINE new == [job[r] EXCEPT !.todo = @ \ {d}, !.at = d,
                                       !.sig = disk[d].ver]
      <3>1. /\ UNCHANGED <<disk, cache, scanned, touched>>
            /\ job' = [job EXCEPT ![r] = new]
        BY <1>1, <2>1, <2>3 DEF List, ReadStep, files, publication
      <3>2. /\ \A q \in Readers \ {r} : job'[q] = job[q]
            /\ job'[r] = new
        BY <3>1 DEF TypeOK
      <3>3. /\ new.at = d /\ new.sig = disk[d].ver /\ new.ver = 0
            /\ new.got = job[r].got /\ new.kind = job[r].kind
        BY <1>1, <1>j DEF List, Between, ReadingsReal, Job
      <3> HIDE DEF new
      <3>4. ReadingsReal'
        <4>1. ASSUME NEW q \in Readers \ {r}, NEW e \in Dirs
              PROVE  /\ job'[q] = job[q]
                     /\ disk'[e] = disk[e]
          BY <3>1, <3>2
        <4>2. ASSUME NEW e \in Dirs
              PROVE  /\ new.at = e => new.sig <= disk'[e].ver
                     /\ ~(new.ver > 0)
                     /\ new.got[e] <= disk'[e].ver
          BY <1>j, <3>1, <3>3 DEF ReadingsReal, Version
        <4>3. QED
          BY <2>2, <3>2, <3>3, <4>1, <4>2, SetsAssumption DEF ReadingsReal
      <3>5. ScanFresh'
        BY <3>1, <3>2, <3>3 DEF ScanFresh, ShownReal, Readers
      <3>6. CacheHonest' /\ ShownReal'
        BY <3>1 DEF CacheHonest, ShownReal
      <3>7. QED
        BY <3>4, <3>5, <3>6
    <2>4. CASE ~disk[d].here
      BY <1>1, <1>z, <2>1, <2>2, <2>4 DEF List
    <2>5. QED
      BY <2>3, <2>4
  <1>k. ASSUME NEW new, ReadStep(r, new), UNCHANGED cache,
               new.kind = job[r].kind, new.at = job[r].at, new.sig = job[r].sig,
               new.got = job[r].got,
               \/ new.ver = job[r].ver
               \/ /\ new.at # NoDir
                  /\ \A d \in Dirs : new.at = d =>
                       new.sig <= new.ver /\ new.ver <= disk[d].ver
        PROVE  FreshInv'
    <2>1. /\ UNCHANGED <<disk, scanned, touched>>
          /\ job' = [job EXCEPT ![r] = new]
      BY <1>k DEF ReadStep, files, publication
    <2>2. /\ \A q \in Readers \ {r} : job'[q] = job[q]
          /\ job'[r] = new
      BY <2>1 DEF TypeOK
    <2>3. ReadingsReal'
      BY <1>k, <2>1, <2>2 DEF ReadingsReal
    <2>4. ScanFresh'
      BY <1>k, <2>1, <2>2 DEF ScanFresh, Readers
    <2>5. CacheHonest' /\ ShownReal'
      BY <1>k, <2>1 DEF CacheHonest, ShownReal
    <2>6. QED
      BY <2>3, <2>4, <2>5
  <1>2. CASE CannotList(r)
    <2>1. PICK d \in job[r].todo :
            ReadStep(r, IF job[r].kind \in Walks
                          THEN Got(r, d, 0)
                          ELSE [job[r] EXCEPT !.todo = @ \ {d}, !.complete = FALSE])
      BY <1>2 DEF CannotList
    <2>2. d \in Dirs /\ UNCHANGED cache
      BY <1>2, <1>j DEF Job, CannotList
    <2>3. CASE job[r].kind \in Walks
      BY <1>z, <2>1, <2>2, <2>3
    <2>4. CASE job[r].kind \notin Walks
      <3> DEFINE new == [job[r] EXCEPT !.todo = @ \ {d}, !.complete = FALSE]
      <3>1. /\ new.kind = job[r].kind /\ new.at = job[r].at /\ new.sig = job[r].sig
            /\ new.got = job[r].got /\ new.ver = job[r].ver
        BY <1>j DEF Job
      <3>2. ReadStep(r, new)
        BY <2>1, <2>4
      <3> HIDE DEF new
      <3>3. QED
        BY <1>k, <2>2, <3>1, <3>2
    <2>5. QED
      BY <2>3, <2>4
  <1>3. CASE CacheHit(r)
    <2> DEFINE d == job[r].at
               v == cache[d].ver
    <2>1. d \in Dirs /\ ReadStep(r, Got(r, d, v)) /\ UNCHANGED cache
      BY <1>3 DEF CacheHit
    <2>2. v \in Version /\ v <= disk[d].ver
      BY <2>1 DEF TypeOK, CacheHonest
    <2>3. cache[d].sig = job[r].sig /\ cache[d].sig <= v
      BY <1>3, <2>1 DEF CacheHit, CacheHonest
    <2>4. CacheHonest'
      BY <2>1 DEF CacheHonest, ReadStep, files
    <2>5. r = Loop /\ job[r].kind = "scan" /\ d \notin touched => scanned[d] <= v
      BY <2>1, <2>2, <2>3 DEF ScanFresh, TypeOK, Version
    <2> HIDE DEF d, v
    <2>6. QED
      BY <2>1, <2>2, <2>4, <2>5, RecordStep
  <1>4. CASE ReadTags(r)
    <2>1. job[r].at \in Dirs /\ UNCHANGED cache
      BY <1>4 DEF ReadTags
    <2>2. CASE disk[job[r].at].here
      <3> DEFINE new == [job[r] EXCEPT !.ver = disk[job[r].at].ver]
      <3>1. /\ new.kind = job[r].kind /\ new.at = job[r].at /\ new.sig = job[r].sig
            /\ new.got = job[r].got /\ new.ver = disk[job[r].at].ver
        BY <1>j DEF Job
      <3>2. ReadStep(r, new)
        BY <1>4, <2>2 DEF ReadTags
      <3>3. job[r].sig <= disk[job[r].at].ver
        BY <2>1 DEF ReadingsReal
      <3>4. disk[job[r].at].ver <= disk[job[r].at].ver
        BY <1>j, <2>1 DEF Version
      <3> HIDE DEF new
      <3>5. QED
        BY <1>k, <2>1, <3>1, <3>2, <3>3, <3>4, SetsAssumption
    <2>3. CASE ~disk[job[r].at].here
      BY <1>4, <1>z, <2>1, <2>3 DEF ReadTags
    <2>4. QED
      BY <2>2, <2>3
  <1>5. CASE CannotBuild(r)
    BY <1>5, <1>z DEF CannotBuild
  <1>6. CASE StoreInCache(r)
    <2> DEFINE d == job[r].at
               v == job[r].ver
    <2>1. /\ d \in Dirs
          /\ ReadStep(r, Got(r, d, v))
          /\ cache' = [cache EXCEPT ![d] = [sig |-> job[r].sig, ver |-> v]]
          /\ v > 0
      BY <1>6 DEF StoreInCache, CacheEntry
    <2>2. v \in Version /\ job[r].sig <= v /\ v <= disk[d].ver
      BY <1>j, <2>1 DEF ReadingsReal, Job
    <2>3. CacheHonest'
      BY <2>1, <2>2 DEF CacheHonest, ReadStep, files, TypeOK
    <2>4. r = Loop /\ job[r].kind = "scan" /\ d \notin touched => scanned[d] <= v
      BY <1>j, <2>1, <2>2 DEF ScanFresh, TypeOK, Job, Version
    <2> HIDE DEF d, v
    <2>5. QED
      BY <2>1, <2>2, <2>3, <2>4, RecordStep
  <1>7. CASE ReadNfos(r)
    <2> DEFINE new == [job[r] EXCEPT !.nfo = nfoDisk]
    <2>1. /\ new.kind = job[r].kind /\ new.at = job[r].at /\ new.sig = job[r].sig
          /\ new.got = job[r].got /\ new.ver = job[r].ver
      BY <1>j DEF Job
    <2>2. ReadStep(r, new) /\ UNCHANGED cache
      BY <1>7 DEF ReadNfos
    <2> HIDE DEF new
    <2>3. QED
      BY <1>k, <2>1, <2>2
  <1>8. QED
    BY <1>1, <1>2, <1>3, <1>4, <1>5, <1>6, <1>7

\* A step that gives one reader another job: nothing read yet, or the readings
\* it had under another name.
LEMMA OneJobStep ==
  ASSUME TypeOK, TypeOK', FreshInv,
         \A d \in Dirs : disk[d].ver <= disk'[d].ver,
         \A d \in Dirs : cache'[d] = cache[d] \/ cache'[d] = [sig |-> 0, ver |-> 0],
         \A d \in Dirs : scanned'[d] <= disk[d].ver,
         NEW r \in Readers, NEW j,
         job' = [job EXCEPT ![r] = j],
         Blank(j) \/ (SameReading(job[r], j) /\ j.kind # "scan"),
         \/ r = Loop
         \/ /\ touched \subseteq touched'
            /\ \A d \in Dirs \ touched' : scanned'[d] = scanned[d]
  PROVE  FreshInv'
  <1>1. job'[r] = j /\ \A q \in Readers \ {r} : job'[q] = job[q]
    BY DEF TypeOK
  <1>2. \A q \in Readers : CarriesOn(job[q], job'[q])
    BY <1>1 DEF CarriesOn
  <1>3. job'[Loop].kind = "scan" =>
          \/ Blank(job'[Loop])
          \/ /\ touched \subseteq touched'
             /\ \A d \in Dirs \ touched' : scanned'[d] = scanned[d]
    BY <1>1
  <1>4. QED
    BY <1>2, <1>3, PublicationStep

\* A new job has read nothing.
LEMMA NewJobBlank ==
  ASSUME NEW kind, NEW todo
  PROVE  /\ Blank(NewJob(kind, todo))
         /\ NewJob(kind, todo).kind = kind
  BY DEF Blank, NewJob

\* Neither has a refresh just begun, nor a scan.
LEMMA RefreshJobBlank ==
  ASSUME NEW kind, NEW todo
  PROVE  /\ Blank(RefreshJob(kind, todo))
         /\ Blank([NewJob(kind, todo) EXCEPT !.flag = visible])
  BY DEF Blank, NewJob, RefreshJob

\* Dropping cache entries leaves the others alone.
LEMMA WithoutKeeps ==
  ASSUME NEW gone
  PROVE  \A d \in Dirs : \/ Without(cache, gone)[d] = cache[d]
                         \/ Without(cache, gone)[d] = [sig |-> 0, ver |-> 0]
  BY DEF Without

\* What a refresh, a walk or a scan is about to publish is real.
LEMMA PublishedReal ==
  ASSUME TypeOK, FreshInv, NEW r \in Readers, NEW d \in Dirs
  PROVE  /\ Patched(r)[d] <= disk[d].ver
         /\ Listed(job[r].got)[d] <= disk[d].ver
         /\ Collected[d] <= disk[d].ver
  <1>1. /\ disk[d].ver \in Nat
        /\ scanned[d] <= disk[d].ver
        /\ job[r].got[d] <= disk[d].ver
        /\ job[Loop].got[d] <= disk[d].ver
    BY DEF TypeOK, FreshInv, ReadingsReal, ShownReal, Readers
  <1>2. Listed(job[r].got)[d] <= disk[d].ver
    BY <1>1 DEF Listed
  <1>3. Listed(job[Loop].got)[d] <= disk[d].ver
    BY <1>1 DEF Listed
  <1>4. Patched(r)[d] <= disk[d].ver
    BY <1>1 DEF Patched
  <1>5. Collected[d] <= disk[d].ver
    BY <1>1, <1>3 DEF Collected
  <1>6. QED
    BY <1>2, <1>4, <1>5

\* refresh_album's publication, from a request or a watcher pass.
LEMMA RefreshPublishes ==
  ASSUME TypeOK, TypeOK', FreshInv, NEW r \in Readers, NEW j,
         NothingFresh(r) \/ PublishRefresh(r),
         disk' = disk,
         job' = [job EXCEPT ![r] = j],
         Blank(j) \/ (SameReading(job[r], j) /\ j.kind # "scan")
  PROVE  FreshInv'
  <1>1. \A d \in Dirs : disk[d].ver <= disk'[d].ver
    BY DEF TypeOK
  <1>2. CASE NothingFresh(r)
    <2>1. UNCHANGED <<cache, scanned, touched>>
      BY <1>2 DEF NothingFresh, publication
    <2>2. QED
      BY <1>1, <2>1, OneJobStep DEF FreshInv, ShownReal
  <1>3. CASE PublishRefresh(r)
    <2>1. /\ scanned' = Patched(r)
          /\ cache' = Without(cache, {d \in Fresh(r) \cap Known : job[r].got[d] = 0})
          /\ touched' = touched \cup (Fresh(r) \cap Known)
      BY <1>3 DEF PublishRefresh
    <2>2. \A d \in Dirs : \/ cache'[d] = cache[d]
                          \/ cache'[d] = [sig |-> 0, ver |-> 0]
      BY <2>1, WithoutKeeps
    <2>3. \A d \in Dirs : scanned'[d] <= disk[d].ver
      BY <2>1, PublishedReal
    <2>4. \A d \in Dirs \ touched' : scanned'[d] = scanned[d]
      BY <2>1 DEF Patched
    <2>5. touched \subseteq touched'
      BY <2>1
    <2>6. QED
      BY <1>1, <2>2, <2>3, <2>4, <2>5, OneJobStep
  <1>4. QED
    BY <1>2, <1>3

\* The steps that publish no entry and cache nothing: they change the files, the
\* triggers, the status, or what one reader is for.
LEMMA QuietStep ==
  ASSUME TypeOK, TypeOK', FreshInv,
         \A d \in Dirs : disk[d].ver <= disk'[d].ver,
         UNCHANGED <<cache, scanned, touched>>,
         \/ job' = job
         \/ \E r \in Readers : \E j :
              /\ job' = [job EXCEPT ![r] = j]
              /\ Blank(j) \/ (SameReading(job[r], j) /\ j.kind # "scan")
  PROVE  FreshInv'
  <1>1. \A d \in Dirs : scanned'[d] <= disk[d].ver
    BY DEF FreshInv, ShownReal
  <1>2. CASE job' = job
    <2>1. \A q \in Readers : CarriesOn(job[q], job'[q])
      BY <1>2 DEF CarriesOn
    <2>2. QED
      BY <1>1, <2>1, PublicationStep
  <1>3. CASE \E r \in Readers : \E j :
               /\ job' = [job EXCEPT ![r] = j]
               /\ Blank(j) \/ (SameReading(job[r], j) /\ j.kind # "scan")
    BY <1>1, <1>3, OneJobStep
  <1>4. QED
    BY <1>2, <1>3

\* The library, the watcher and the triggers.
LEMMA FreshOutside ==
  ASSUME TypeOK, TypeOK', FreshInv,
         \A d \in Dirs : disk[d].ver <= disk'[d].ver,
         \/ \E d \in Dirs : Change(d)
         \/ ChangeNfo \/ WatcherDies \/ RequestScan \/ HourlyRescan \/ Settle
         \/ Reset \/ UNCHANGED vars
  PROVE  FreshInv'
  <1>1. CASE Reset
    <2>1. /\ scanned' = NoEntry
          /\ touched' = touched \cup Known
          /\ UNCHANGED <<disk, cache, job>>
      BY <1>1 DEF Reset, files
    <2>2. \A d \in Dirs : scanned'[d] <= disk[d].ver
      BY <2>1 DEF NoEntry, TypeOK
    <2>3. \A d \in Dirs \ touched' : scanned'[d] = scanned[d]
      BY <2>1 DEF NoEntry, Known, TypeOK, Version
    <2>4. \A q \in Readers : CarriesOn(job[q], job'[q])
      BY <2>1 DEF CarriesOn
    <2>5. QED
      BY <2>1, <2>2, <2>3, <2>4, PublicationStep
  <1>2. CASE ~Reset
    <2>1. UNCHANGED <<cache, scanned, touched, job>>
      BY <1>2 DEF Change, ChangeNfo, WatcherDies, RequestScan, HourlyRescan, Settle,
                  vars, publication
    <2>2. QED
      BY <2>1, QuietStep
  <1>3. QED
    BY <1>1, <1>2

\* Request threads.
LEMMA FreshThread ==
  ASSUME TypeOK, TypeOK', FreshInv,
         \A d \in Dirs : disk[d].ver <= disk'[d].ver,
         NEW t \in Threads,
         \/ \E d \in Dirs : View(t, d) \/ Mutate(t, d) \/ Remove(t, d)
         \/ Render(t) \/ Deliver(t) \/ FinishRefresh(t) \/ FinishNow(t)
  PROVE  FreshInv'
  <1>t. t \in Readers
    BY DEF Readers
  <1>n. Blank(NoJob)
    BY NewJobBlank DEF NoJob
  <1>1. ASSUME NEW d \in Dirs, View(t, d)
        PROVE  FreshInv'
    <2>1. /\ job' = [job EXCEPT ![t] = RefreshJob("album", {d})]
          /\ UNCHANGED <<cache, scanned, touched>>
      BY <1>1 DEF View, publication
    <2>2. QED
      BY <1>t, <2>1, RefreshJobBlank, QuietStep
  <1>2. ASSUME NEW d \in Dirs, Mutate(t, d)
        PROVE  FreshInv'
    <2>1. PICK op \in Ops : job' = [job EXCEPT ![t] = JobFor(op, d)]
      BY <1>2 DEF Mutate
    <2>2. op \in AllOps
      BY SetsAssumption
    <2>3. Blank(JobFor(op, d))
      BY <2>2, NewJobBlank, RefreshJobBlank DEF JobFor, AllOps
    <2>4. UNCHANGED <<cache, scanned, touched>>
      BY <1>2 DEF Mutate, publication
    <2>5. QED
      BY <1>t, <2>1, <2>3, <2>4, QuietStep
  <1>3. ASSUME NEW d \in Dirs, Remove(t, d)
        PROVE  FreshInv'
    <2>1. /\ job' = [job EXCEPT ![t] = NewJob("kick", {})]
          /\ UNCHANGED <<cache, scanned, touched>>
      BY <1>3 DEF Remove, publication
    <2>2. QED
      BY <1>t, <2>1, NewJobBlank, QuietStep
  <1>4. CASE Render(t) \/ Deliver(t)
    <2>1. /\ job' = [job EXCEPT ![t] = NoJob]
          /\ UNCHANGED <<cache, scanned, touched>>
      BY <1>4 DEF Render, Deliver, publication
    <2>2. QED
      BY <1>n, <1>t, <2>1, QuietStep
  <1>5. CASE FinishRefresh(t)
    <2> DEFINE new == IF job[t].kind = "album" THEN [job[t] EXCEPT !.kind = "render"]
                      ELSE IF job[t].complete  THEN NoJob
                      ELSE NewJob("kick", {})
    <2>1. /\ NothingFresh(t) \/ PublishRefresh(t)
          /\ job' = [job EXCEPT ![t] = new]
          /\ disk' = disk
      BY <1>5 DEF FinishRefresh, files, TypeOK
    <2>2. CASE job[t].kind = "album"
      <3>1. SameReading(job[t], [job[t] EXCEPT !.kind = "render"])
        BY <1>t DEF SameReading, TypeOK, Job
      <3>2. [job[t] EXCEPT !.kind = "render"].kind = "render"
        BY <1>t DEF TypeOK, Job
      <3>3. SameReading(job[t], new) /\ new.kind # "scan"
        BY <2>2, <3>1, <3>2
      <3> HIDE DEF new
      <3>4. QED
        BY <1>t, <2>1, <3>3, RefreshPublishes
    <2>3. CASE job[t].kind # "album"
      <3>1. Blank(new)
        BY <1>n, <2>3, NewJobBlank
      <3> HIDE DEF new
      <3>2. QED
        BY <1>t, <2>1, <3>1, RefreshPublishes
    <2>4. QED
      BY <2>2, <2>3
  <1>6. CASE FinishNow(t)
    <2> DEFINE new == Listed(job[t].got)
    <2>1. /\ scanned' = new
          /\ cache' = Without(cache, {d \in Dirs : new[d] = 0})
          /\ touched' = touched \cup Known \cup {d \in Dirs : new[d] > 0}
          /\ job' = [job EXCEPT ![t] = NoJob]
      BY <1>6 DEF FinishNow
    <2>2. \A d \in Dirs : \/ cache'[d] = cache[d]
                          \/ cache'[d] = [sig |-> 0, ver |-> 0]
      BY <2>1, WithoutKeeps
    <2>3. \A d \in Dirs : scanned'[d] <= disk[d].ver
      BY <1>t, <2>1, PublishedReal
    <2>4. \A d \in Dirs \ touched' : scanned'[d] = scanned[d]
      <3>1. \A d \in Dirs : new[d] = 0 \/ new[d] > 0
        BY DEF Listed
      <3>2. \A d \in Dirs : scanned[d] = 0 \/ scanned[d] > 0
        BY DEF TypeOK, Version
      <3> HIDE DEF new
      <3>3. QED
        BY <2>1, <3>1, <3>2 DEF Known
    <2>5. touched \subseteq touched'
      BY <2>1
    <2>6. QED
      BY <1>n, <1>t, <2>1, <2>2, <2>3, <2>4, <2>5, OneJobStep
  <1>7. QED
    BY <1>1, <1>2, <1>3, <1>4, <1>5, <1>6

\* The loop's task.
LEMMA FreshLoop ==
  ASSUME TypeOK, TypeOK', FreshInv,
         \A d \in Dirs : disk[d].ver <= disk'[d].ver,
         \/ BeginScan \/ Advertise \/ PublishScan \/ CloseScan \/ ScanFails
         \/ BeginWatchPass \/ BeginNfos \/ PublishNfos \/ FinishWatch \/ WatchFails
  PROVE  FreshInv'
  <1>l. Loop \in Readers
    BY DEF Readers
  <1>n. Blank(NoJob)
    BY NewJobBlank DEF NoJob
  <1>1. CASE BeginScan
    <2>1. /\ job' = [job EXCEPT ![Loop] = [NewJob("scan", Dirs) EXCEPT !.flag = visible]]
          /\ UNCHANGED <<cache, scanned>>
      BY <1>1 DEF BeginScan
    <2>2. \A d \in Dirs : scanned'[d] <= disk[d].ver
      BY <2>1 DEF FreshInv, ShownReal
    <2>3. QED
      BY <1>l, <2>1, <2>2, RefreshJobBlank, OneJobStep
  <1>2. CASE Advertise
    BY <1>2, QuietStep DEF Advertise, publication
  <1>3. CASE PublishScan
    <2>1. /\ scanned' = Collected
          /\ cache' = Without(cache, {d \in Dirs : Collected[d] = 0})
          /\ job' = [job EXCEPT ![Loop] =
               [NewJob("closing", {}) EXCEPT
                  !.flag = (Collected # scanned \/ CollectedNfos # nfos)]]
      BY <1>3 DEF PublishScan
    <2>2. Blank([NewJob("closing", {}) EXCEPT
                   !.flag = (Collected # scanned \/ CollectedNfos # nfos)])
      BY DEF Blank, NewJob
    <2>3. \A d \in Dirs : \/ cache'[d] = cache[d]
                          \/ cache'[d] = [sig |-> 0, ver |-> 0]
      BY <2>1, WithoutKeeps
    <2>4. \A d \in Dirs : scanned'[d] <= disk[d].ver
      BY <1>l, <2>1, PublishedReal
    <2>5. QED
      BY <1>l, <2>1, <2>2, <2>3, <2>4, OneJobStep
  <1>4. CASE CloseScan \/ ScanFails \/ WatchFails
    <2>1. /\ job' = [job EXCEPT ![Loop] = NoJob]
          /\ UNCHANGED <<cache, scanned, touched>>
      BY <1>4 DEF CloseScan, ScanFails, WatchFails, publication
    <2>2. QED
      BY <1>l, <1>n, <2>1, QuietStep
  <1>5. CASE BeginWatchPass
    <2>1. /\ UNCHANGED <<cache, scanned, touched>>
          /\ \/ job' = job
             \/ job' = [job EXCEPT ![Loop] = NewJob("nfo", paths \ {ArtistNfo})]
             \/ job' = [job EXCEPT ![Loop] = RefreshJob("watch", paths)]
      BY <1>5 DEF BeginWatchPass, publication
    <2>2. QED
      BY <1>l, <2>1, NewJobBlank, RefreshJobBlank, QuietStep
  <1>6. CASE BeginNfos
    <2> DEFINE new == [job[Loop] EXCEPT !.flag = TRUE]
    <2>1. /\ job' = [job EXCEPT ![Loop] = new]
          /\ UNCHANGED <<cache, scanned, touched>>
          /\ job[Loop].kind = "nfo"
      BY <1>l, <1>6 DEF BeginNfos, TypeOK
    <2>2. SameReading(job[Loop], new) /\ new.kind = job[Loop].kind
      BY <1>l DEF SameReading, TypeOK, Job
    <2> HIDE DEF new
    <2>3. QED
      BY <1>l, <2>1, <2>2, QuietStep
  <1>7. CASE PublishNfos
    <2>1. /\ UNCHANGED <<cache, scanned, touched>>
          /\ \/ job' = [job EXCEPT ![Loop] = NoJob]
             \/ job' = [job EXCEPT ![Loop] = RefreshJob("watch", job[Loop].todo)]
      BY <1>7 DEF PublishNfos
    <2>2. QED
      BY <1>l, <1>n, <2>1, RefreshJobBlank, QuietStep
  <1>8. CASE FinishWatch
    <2>1. /\ NothingFresh(Loop) \/ PublishRefresh(Loop)
          /\ disk' = disk
          /\ \/ job' = [job EXCEPT ![Loop] = NoJob]
             \/ job' = [job EXCEPT ![Loop] = NewJob("nfo", {})]
      BY <1>8 DEF FinishWatch, files
    <2>2. QED
      BY <1>l, <1>n, <2>1, NewJobBlank, RefreshPublishes
  <1>9. QED
    BY <1>1, <1>2, <1>3, <1>4, <1>5, <1>6, <1>7, <1>8

\* Every step keeps the invariant.
LEMMA FreshStep ==
  ASSUME TypeOK, TypeOK', FreshInv, [Next]_vars
  PROVE  FreshInv'
  <1>1. \A d \in Dirs : disk[d].ver <= disk'[d].ver
    BY DiskGrows
  <1>2. CASE \/ \E d \in Dirs : Change(d)
             \/ ChangeNfo \/ WatcherDies \/ RequestScan \/ HourlyRescan \/ Settle
             \/ Reset \/ UNCHANGED vars
    BY <1>1, <1>2, FreshOutside
  <1>3. CASE \E t \in Threads :
               \/ \E d \in Dirs : View(t, d) \/ Mutate(t, d) \/ Remove(t, d)
               \/ Render(t) \/ Deliver(t) \/ FinishRefresh(t) \/ FinishNow(t)
    BY <1>1, <1>3, FreshThread
  <1>4. CASE \E r \in Readers :
               \/ List(r) \/ CannotList(r) \/ CacheHit(r) \/ ReadTags(r)
               \/ CannotBuild(r) \/ StoreInCache(r) \/ ReadNfos(r)
    BY <1>4, ReadingStep
  <1>5. CASE \/ BeginScan \/ Advertise \/ PublishScan \/ CloseScan \/ ScanFails
             \/ BeginWatchPass \/ BeginNfos \/ PublishNfos \/ FinishWatch
             \/ WatchFails
    BY <1>1, <1>5, FreshLoop
  <1>6. QED
    BY <1>2, <1>3, <1>4, <1>5 DEF Next

\* The cache is empty, nothing is on show and nobody has read anything.
LEMMA FreshInit == Init => FreshInv
  <1> SUFFICES ASSUME Init PROVE FreshInv
    OBVIOUS
  <1>2. \A r \in Readers : Blank(job[r]) /\ job[r].kind = "idle"
    BY NewJobBlank DEF Init, NoJob
  <1>3. \A d \in Dirs : disk[d].ver = 1 /\ scanned[d] = 0
                        /\ cache[d].sig = 0 /\ cache[d].ver = 0
    BY DEF Init, NoEntry
  <1>4. ReadingsReal
    BY <1>2, <1>3, SetsAssumption DEF ReadingsReal, Blank, Unread
  <1>5. CacheHonest /\ ShownReal
    BY <1>3 DEF CacheHonest, ShownReal
  <1>6. ScanFresh
    BY <1>2 DEF ScanFresh, Readers
  <1>7. QED
    BY <1>4, <1>5, <1>6 DEF FreshInv

\* Whatever readers overlap and whatever changes while they read, the cache is
\* filed under signatures no newer than its content, the snapshot and every
\* reading in hand are versions the disk has had, and the running scan has read
\* nothing older than what it will replace.
THEOREM FreshnessHolds == Spec => []FreshInv
  <1>1. Init => FreshInv
    BY FreshInit
  <1>2. TypeOK /\ TypeOK' /\ FreshInv /\ [Next]_vars => FreshInv'
    BY FreshStep
  <1>3. QED
    BY <1>1, <1>2, TypeCorrect, PTL DEF Spec

\* In particular the mtime cache is honest: an entry may be stale, never wrong
\* about the signature it answers for (scanner.resolve_dir).
THEOREM CacheIsHonest == Spec => []CacheHonest
  <1>1. FreshInv => CacheHonest
    BY DEF FreshInv
  <1>2. QED
    BY <1>1, FreshnessHolds, PTL

\* _scan_once never replaces an entry on show by an older reading, however many
\* publications happened while it walked.
THEOREM ScanNeverTakesBack == Spec => ScanKeepsNewer
  <1>1. TypeOK /\ FreshInv /\ PublishScan =>
          \A d \in Dirs : scanned'[d] = 0 \/ scanned'[d] >= scanned[d]
    <2> SUFFICES ASSUME TypeOK, FreshInv, PublishScan, NEW d \in Dirs
                 PROVE  scanned'[d] = 0 \/ scanned'[d] >= scanned[d]
      OBVIOUS
    <2>1. /\ scanned'[d] = Collected[d]
          /\ job[Loop].kind = "scan"
      BY DEF PublishScan
    <2>2. scanned[d] \in Nat
      BY DEF TypeOK, Version
    <2>3. CASE Republished(d)
      BY <2>1, <2>2, <2>3 DEF Collected
    <2>4. CASE ~Republished(d)
      <3>1. scanned'[d] = Listed(job[Loop].got)[d]
        BY <2>1, <2>4 DEF Collected
      <3>2. d \notin touched \/ scanned[d] = 0
        BY <2>2, <2>4 DEF Republished
      <3>3. job[Loop].got[d] \in Int
        BY DEF TypeOK, Job, Readers, Version, Unread
      <3>4. CASE d \notin touched
        BY <2>1, <3>1, <3>3, <3>4 DEF FreshInv, ScanFresh, Listed
      <3>5. CASE scanned[d] = 0
        BY <2>2, <3>1, <3>3, <3>5 DEF Listed
      <3>6. QED
        BY <3>2, <3>4, <3>5
    <2>5. QED
      BY <2>3, <2>4
  <1>2. TypeOK /\ FreshInv /\ [Next]_vars =>
          [PublishScan =>
             \A d \in Dirs : scanned'[d] = 0 \/ scanned'[d] >= scanned[d]]_vars
    BY <1>1
  <1>3. QED
    BY <1>2, TypeCorrect, FreshnessHolds, PTL DEF Spec, ScanKeepsNewer

-----------------------------------------------------------------------------
(* The abstract snapshot: the safety half of what the scanner promises.       *)

Abstract == INSTANCE Snapshot WITH Dirs <- Dirs, MaxVersion <- MaxVersion, disk <- disk, scanned <- scanned

\* The files change under edits, mutations and removals; each is an edit of the
\* abstract snapshot and publishes nothing.
LEMMA DiskStep ==
  ASSUME TypeOK, [Next]_vars
  PROVE  disk' = disk \/ \E d \in Dirs : Abstract!Edit(d)
  <1> USE DEF TypeOK
  <1>1. ASSUME NEW d \in Dirs, Change(d)
        PROVE  Abstract!Edit(d)
    BY <1>1 DEF Change, Abstract!Edit, publication
  <1>2. ASSUME NEW t \in Threads, NEW d \in Dirs, Mutate(t, d)
        PROVE  Abstract!Edit(d)
    <2>1. disk' = [disk EXCEPT ![d] = [ver |-> disk[d].ver + 1, here |-> TRUE]]
      <3>1. /\ disk[d] = [ver |-> disk[d].ver, here |-> disk[d].here]
            /\ disk[d].here = TRUE
        BY <1>2 DEF Mutate
      <3>2. ASSUME NEW v, NEW w
            PROVE  [[ver |-> v, here |-> w] EXCEPT !.ver = v + 1]
                     = [ver |-> v + 1, here |-> w]
        OBVIOUS
      <3>3. [disk[d] EXCEPT !.ver = disk[d].ver + 1]
              = [ver |-> disk[d].ver + 1, here |-> TRUE]
        BY <3>1, <3>2, Zenon
      <3>4. QED
        BY <1>2, <3>3 DEF Mutate
    <2>2. disk[d].ver < MaxVersion /\ scanned' = scanned
      BY <1>2 DEF Mutate, publication
    <2>3. QED
      BY <2>1, <2>2 DEF Abstract!Edit
  <1>3. ASSUME NEW t \in Threads, NEW d \in Dirs, Remove(t, d)
        PROVE  Abstract!Edit(d)
    BY <1>3 DEF Remove, Abstract!Edit, publication
  <1>4. ASSUME NEW r \in Readers,
               \/ List(r) \/ CannotList(r) \/ CacheHit(r) \/ ReadTags(r)
               \/ CannotBuild(r) \/ StoreInCache(r) \/ ReadNfos(r)
        PROVE  disk' = disk
    BY <1>4
    DEF List, CannotList, CacheHit, ReadTags, CannotBuild, StoreInCache, ReadNfos,
        ReadStep, files
  <1>5. ASSUME NEW t \in Threads,
               \/ \E d \in Dirs : View(t, d)
               \/ Render(t) \/ Deliver(t) \/ FinishRefresh(t) \/ FinishNow(t)
        PROVE  disk' = disk
    BY <1>5 DEF View, Render, Deliver, FinishRefresh, FinishNow, files
  <1>6. CASE \/ ChangeNfo \/ WatcherDies \/ RequestScan \/ HourlyRescan \/ Settle
             \/ Reset \/ BeginScan \/ Advertise \/ PublishScan \/ CloseScan
             \/ ScanFails \/ BeginWatchPass \/ BeginNfos \/ PublishNfos
             \/ FinishWatch \/ WatchFails \/ UNCHANGED vars
    BY <1>6
    DEF ChangeNfo, WatcherDies, RequestScan, HourlyRescan, Settle, Reset, BeginScan,
        Advertise, PublishScan, CloseScan, ScanFails, BeginWatchPass, BeginNfos,
        PublishNfos, FinishWatch, WatchFails, vars, files
  <1>7. QED
    BY <1>1, <1>2, <1>3, <1>4, <1>5, <1>6 DEF Next

\* Every step is an edit or a publication of versions the disk has had: whatever
\* readers overlap, the snapshot never shows a reading nobody took.
THEOREM ImplementsSafety == Spec => Abstract!Safety
  <1>1. Init => Abstract!Init
    BY DEF Init, NoEntry, Abstract!Init
  <1>2. TypeOK /\ TypeOK' /\ FreshInv' /\ [Next]_vars =>
          [Abstract!Next]_<<disk, scanned>>
    <2> SUFFICES ASSUME TypeOK, TypeOK', FreshInv', [Next]_vars, disk' = disk
                 PROVE  Abstract!Publish
      BY DiskStep DEF Abstract!Next
    <2>1. scanned' \in [Dirs -> 0..MaxVersion]
      BY DEF TypeOK, Version
    <2>2. \A d \in Dirs : scanned'[d] <= disk[d].ver
      BY DEF FreshInv, ShownReal
    <2>3. QED
      BY <2>1, <2>2 DEF Abstract!Publish
  <1>3. QED
    BY <1>1, <1>2, TypeCorrect, FreshnessHolds, PTL DEF Spec, Abstract!Safety

-----------------------------------------------------------------------------
(* The task, what is wanted of it, and the lock on the inbox.                 *)

\* The loop's job is the task's: a full pass from its status to its stamp, a
\* watcher pass while the task is busy, and nothing in between.
TaskJob ==
  /\ job[Loop].kind = "scan" => task \in {"built", "busy"}
  /\ job[Loop].kind \in {"watch", "nfo"} => task = "busy"
  /\ job[Loop].kind = "closing" <=> task = "closing"
  /\ task = "built" => job[Loop].kind = "scan"

\* A scan has a status of its own until it closes or fails, which says it scans
\* and is not on show when nobody asked for the scan.
ScanStatusInv ==
  /\ current # None <=> job[Loop].kind \in {"scan", "closing"}
  /\ current # None => status[current].state = "scanning"
  /\ task = "built" => current # shown /\ ~visible

LockInv == TaskJob /\ ScanStatusInv /\ InboxLock /\ NothingForgotten

\* The counter on show lags only where a scan in flight will stamp it.
Stamped == faults = 0 => \/ shown = current
                         \/ task = "closing" /\ job[Loop].flag
                         \/ status[shown].seq = seq

\* Steps that leave the loop's job what it is for, and the task, the triggers and
\* the statuses what they say.
SameDisplay ==
  /\ shown' = shown /\ current' = current
  /\ status'[0].state = status[0].state /\ status'[1].state = status[1].state

\* Such a step keeps the agreement of the task, its triggers and the statuses.
LEMMA LockKept ==
  ASSUME TypeOK, LockInv, SameDisplay,
         job'[Loop].kind = job[Loop].kind, job'[Loop].flag = job[Loop].flag,
         UNCHANGED <<task, triggers>>
  PROVE  LockInv'
  <1>1. current \in {0, 1, None} /\ shown \in {0, 1}
    BY DEF TypeOK
  <1>2. UNCHANGED <<dirty, paths, visible>>
    BY DEF triggers
  <1>3. TaskJob' /\ NothingForgotten'
    BY <1>2 DEF LockInv, TaskJob, NothingForgotten
  <1>4. ScanStatusInv' /\ InboxLock'
    BY <1>1, <1>2 DEF LockInv, ScanStatusInv, InboxLock, SameDisplay, None
  <1>5. QED
    BY <1>3, <1>4 DEF LockInv

\* A publication that moves the counter leaves what the statuses say.
LEMMA BumpDisplay ==
  ASSUME TypeOK, NEW changed, Bump(changed) \/ UNCHANGED <<seq, status>>,
         UNCHANGED <<shown, current>>
  PROVE  SameDisplay
  <1>1. status \in [{0, 1} -> [state : {"idle", "scanning", "done"}, seq : Nat]]
        /\ shown \in {0, 1}
    BY DEF TypeOK
  <1>2. CASE status' = [status EXCEPT ![shown].seq = seq + 1]
    BY <1>1, <1>2 DEF SameDisplay
  <1>3. CASE status' = status
    BY <1>3 DEF SameDisplay
  <1>4. QED
    BY <1>2, <1>3 DEF Bump

\* A trigger: the scan is wanted, and the one in flight promoted if it was quiet.
LEMMA LockKick ==
  ASSUME TypeOK, LockInv, Kick,
         job'[Loop].kind = job[Loop].kind, job'[Loop].flag = job[Loop].flag
  PROVE  LockInv'
  <1>1. /\ current \in {0, 1, None} /\ shown \in {0, 1}
        /\ status \in [{0, 1} -> [state : {"idle", "scanning", "done"}, seq : Nat]]
        /\ job[Loop].flag \in BOOLEAN
    BY DEF TypeOK, Readers, Job
  <1>2. /\ task \notin {"built", "closing"}
        /\ dirty' = TRUE /\ visible' = TRUE /\ current' = current
        /\ task' = IF task = "idle" THEN "ready" ELSE task
    BY DEF Kick, LoopFree, Start
  <1>3. TaskJob' /\ NothingForgotten'
    BY <1>2 DEF LockInv, TaskJob, NothingForgotten
  <1>4. CASE current # None /\ shown # current
    <2>1. /\ shown' = current
          /\ status'[current].state = "scanning"
      BY <1>1, <1>4 DEF Kick, None
    <2>2. QED
      BY <1>1, <1>2, <1>3, <1>4, <2>1 DEF LockInv, ScanStatusInv, InboxLock, TaskJob, None
  <1>5. CASE ~(current # None /\ shown # current)
    <2>1. UNCHANGED <<shown, status>>
      BY <1>5 DEF Kick
    <2>2. job[Loop].kind = "scan" => shown = current /\ status[shown].state = "scanning"
      BY <1>5 DEF LockInv, ScanStatusInv
    <2>3. QED
      BY <1>1, <1>2, <1>3, <2>1, <2>2 DEF LockInv, ScanStatusInv, InboxLock, TaskJob, None
  <1>6. QED
    BY <1>4, <1>5

\* Everything outside the loop's task.
LEMMA LockOutside ==
  ASSUME TypeOK, LockInv,
         \/ \E d \in Dirs : Change(d)
         \/ ChangeNfo \/ WatcherDies \/ RequestScan \/ HourlyRescan \/ Settle
         \/ Reset \/ UNCHANGED vars
  PROVE  LockInv'
  <1>0. job' = job
    BY DEF Change, ChangeNfo, WatcherDies, RequestScan, HourlyRescan, Settle, Reset, vars
  <1>1. CASE (\E d \in Dirs : Change(d)) \/ ChangeNfo \/ WatcherDies \/ UNCHANGED vars
    <2>1. UNCHANGED <<task, triggers, display>>
      BY <1>1 DEF Change, ChangeNfo, WatcherDies, vars
    <2>2. QED
      BY <1>0, <2>1, LockKept DEF SameDisplay, display
  <1>2. CASE RequestScan \/ Reset
    BY <1>0, <1>2, LockKick DEF RequestScan, Reset
  <1>3. CASE HourlyRescan
    <2>1. /\ task \notin {"built", "closing"} /\ dirty' = TRUE
          /\ task' = IF task = "idle" THEN "ready" ELSE task
          /\ UNCHANGED <<paths, visible, status, shown, current>>
      BY <1>3 DEF HourlyRescan, LoopFree, Start, display
    <2>2. QED
      BY <1>0, <2>1 DEF LockInv, TaskJob, ScanStatusInv, InboxLock, NothingForgotten
  <1>4. CASE Settle
    <2>1. /\ task \notin {"built", "closing"}
          /\ task' = IF task = "idle" THEN "ready" ELSE task
          /\ UNCHANGED <<dirty, visible, status, shown, current>>
      BY <1>4 DEF Settle, LoopFree, Start, display
    <2>2. QED
      BY <1>0, <2>1 DEF LockInv, TaskJob, ScanStatusInv, InboxLock, NothingForgotten
  <1>5. QED
    BY <1>1, <1>2, <1>3, <1>4

\* The request threads: they publish beside the task and may ask for a scan.
LEMMA LockThread ==
  ASSUME TypeOK, LockInv, NEW t \in Threads,
         \/ \E d \in Dirs : View(t, d) \/ Mutate(t, d) \/ Remove(t, d)
         \/ Render(t) \/ Deliver(t) \/ FinishRefresh(t) \/ FinishNow(t)
  PROVE  LockInv'
  <1>1. \E j : job' = [job EXCEPT ![t] = j]
    BY DEF View, Mutate, Remove, Render, Deliver, FinishRefresh, FinishNow
  <1>2. job'[Loop] = job[Loop]
    BY <1>1, SetsAssumption DEF TypeOK, Readers
  <1>3. CASE \/ \E d \in Dirs : View(t, d) \/ Mutate(t, d) \/ Remove(t, d)
             \/ Render(t)
    <2>1. UNCHANGED <<task, triggers, display>>
      BY <1>3 DEF View, Mutate, Remove, Render
    <2>2. QED
      BY <1>2, <2>1, LockKept DEF SameDisplay, display
  <1>4. CASE Deliver(t)
    BY <1>2, <1>4, LockKick DEF Deliver
  <1>5. CASE FinishRefresh(t)
    <2>1. \E changed : Bump(changed) \/ UNCHANGED <<seq, status>>
      BY <1>5 DEF FinishRefresh, NothingFresh, PublishRefresh
    <2>2. UNCHANGED <<task, triggers, shown, current>>
      BY <1>5 DEF FinishRefresh
    <2>3. QED
      BY <1>2, <2>1, <2>2, BumpDisplay, LockKept
  <1>6. CASE FinishNow(t)
    <2>1. Bump(job[t].nfo # nfos) /\ UNCHANGED <<task, triggers, shown, current>>
      BY <1>6 DEF FinishNow
    <2>2. QED
      BY <1>2, <2>1, BumpDisplay, LockKept
  <1>7. QED
    BY <1>3, <1>4, <1>5, <1>6

\* Reading changes what a job has in hand and not what it is for.
LEMMA ReadKeepsPurpose ==
  ASSUME TypeOK, NEW r \in Readers,
         \/ List(r) \/ CannotList(r) \/ CacheHit(r) \/ ReadTags(r)
         \/ CannotBuild(r) \/ StoreInCache(r) \/ ReadNfos(r)
  PROVE  /\ job'[Loop].kind = job[Loop].kind
         /\ job'[Loop].flag = job[Loop].flag
         /\ UNCHANGED <<task, triggers, display>>
  <1>1. PICK j : ReadStep(r, j) /\ j.kind = job[r].kind /\ j.flag = job[r].flag
    <2>1. \A d, v : Got(r, d, v).kind = job[r].kind /\ Got(r, d, v).flag = job[r].flag
      BY DEF Got, TypeOK, Job
    <2>2. job[r] \in Job
      BY DEF TypeOK
    <2>3. CASE List(r)
      <3>1. PICK d \in job[r].todo :
              ReadStep(r, IF disk[d].here
                            THEN [job[r] EXCEPT !.todo = @ \ {d}, !.at = d,
                                                !.sig = disk[d].ver]
                            ELSE Got(r, d, 0))
        BY <2>3 DEF List
      <3> DEFINE listed == [job[r] EXCEPT !.todo = @ \ {d}, !.at = d, !.sig = disk[d].ver]
      <3>2. listed.kind = job[r].kind /\ listed.flag = job[r].flag
        BY <2>2 DEF Job
      <3> HIDE DEF listed
      <3>3. ReadStep(r, listed) \/ ReadStep(r, Got(r, d, 0))
        BY <3>1 DEF listed
      <3>4. QED
        BY <2>1, <3>2, <3>3
    <2>4. CASE CannotList(r)
      <3>1. PICK d \in job[r].todo :
              ReadStep(r, IF job[r].kind \in Walks
                            THEN Got(r, d, 0)
                            ELSE [job[r] EXCEPT !.todo = @ \ {d}, !.complete = FALSE])
        BY <2>4 DEF CannotList
      <3> DEFINE passed == [job[r] EXCEPT !.todo = @ \ {d}, !.complete = FALSE]
      <3>2. passed.kind = job[r].kind /\ passed.flag = job[r].flag
        BY <2>2 DEF Job
      <3> HIDE DEF passed
      <3>3. ReadStep(r, passed) \/ ReadStep(r, Got(r, d, 0))
        BY <3>1 DEF passed
      <3>4. QED
        BY <2>1, <3>2, <3>3
    <2>5. CASE CacheHit(r) \/ CannotBuild(r) \/ StoreInCache(r)
      BY <2>1, <2>5 DEF CacheHit, CannotBuild, StoreInCache
    <2>6. CASE ReadTags(r)
      BY <2>1, <2>2, <2>6 DEF ReadTags, Job
    <2>7. CASE ReadNfos(r)
      BY <2>2, <2>7 DEF ReadNfos, Job
    <2>8. QED
      BY <2>3, <2>4, <2>5, <2>6, <2>7
  <1>2. job' = [job EXCEPT ![r] = j] /\ UNCHANGED <<task, triggers, display>>
    BY <1>1 DEF ReadStep
  <1>3. QED
    BY <1>1, <1>2 DEF TypeOK, Readers

\* The task's own steps.
LEMMA LockLoop ==
  ASSUME TypeOK, LockInv,
         \/ BeginScan \/ Advertise \/ PublishScan \/ CloseScan \/ ScanFails
         \/ BeginWatchPass \/ BeginNfos \/ PublishNfos \/ FinishWatch
         \/ WatchFails
  PROVE  LockInv'
  <1> USE DEF LockInv, TaskJob, ScanStatusInv, InboxLock, NothingForgotten, None
  <1>0. /\ Loop \in DOMAIN job /\ job[Loop] \in Job
        /\ job[Loop].flag \in BOOLEAN
        /\ current \in {0, 1, None} /\ shown \in {0, 1}
        /\ task \in {"idle", "ready", "built", "busy", "closing"}
        /\ dirty \in BOOLEAN /\ visible \in BOOLEAN
        /\ status \in [{0, 1} -> [state : {"idle", "scanning", "done"}, seq : Nat]]
    BY DEF TypeOK, Readers, Job
  <1>j. /\ NoJob.kind = "idle"
        /\ \A k, todo : NewJob(k, todo).kind = k
        /\ \A k, dirs : RefreshJob(k, dirs).kind = k
        /\ \A b : [NewJob("scan", Dirs) EXCEPT !.flag = b].kind = "scan"
        /\ \A b : [NewJob("scan", Dirs) EXCEPT !.flag = b].flag = b
        /\ \A b : [NewJob("closing", {}) EXCEPT !.flag = b].kind = "closing"
    BY DEF NoJob, NewJob, RefreshJob
  <1>1. CASE BeginScan
    <2>1. job'[Loop].kind = "scan" /\ job'[Loop].flag = visible
      BY <1>0, <1>1, <1>j DEF BeginScan
    <2>2. current = None
      BY <1>1 DEF BeginScan
    <2>3. /\ current' = 1 - shown /\ shown' = shown
          /\ status'[1 - shown].state = "scanning" /\ status'[shown] = status[shown]
      BY <1>0, <1>1 DEF BeginScan
    <2>4. task' = "built" /\ dirty' = FALSE /\ paths' = {} /\ visible' = FALSE
      BY <1>1 DEF BeginScan
    <2>5. QED
      BY <1>0, <2>1, <2>2, <2>3, <2>4
  <1>2. CASE Advertise
    <2>1. /\ task = "built" /\ task' = "busy" /\ job' = job
          /\ shown' = IF job[Loop].flag THEN current ELSE shown
          /\ UNCHANGED <<dirty, paths, visible, status, current>>
      BY <1>2 DEF Advertise, triggers
    <2>2. QED
      BY <1>0, <2>1
  <1>3. CASE PublishScan
    <2>1. job'[Loop].kind = "closing"
      BY <1>0, <1>3, <1>j DEF PublishScan
    <2>2. /\ job[Loop].kind = "scan" /\ task' = "closing"
          /\ UNCHANGED <<dirty, paths, visible, status, shown, current>>
      BY <1>3 DEF PublishScan, triggers
    <2>3. task = "busy"
      BY <1>3 DEF PublishScan, ReadAll, Between, Reading
    <2>4. QED
      BY <1>0, <2>1, <2>2, <2>3
  <1>4. CASE CloseScan
    <2>1. job'[Loop].kind = "idle" /\ task = "closing"
      BY <1>0, <1>4, <1>j DEF CloseScan
    <2>2. /\ current' = None
          /\ task' = IF dirty \/ paths # {} THEN "ready" ELSE "idle"
          /\ UNCHANGED <<dirty, paths, visible, shown>>
      BY <1>4 DEF CloseScan, NextPass, triggers
    <2>3. status'[shown].state = IF shown = current THEN "done" ELSE status[shown].state
      BY <1>0, <1>4 DEF CloseScan
    <2>4. QED
      BY <1>0, <2>1, <2>2, <2>3
  <1>5. CASE ScanFails
    <2>1. job'[Loop].kind = "idle" /\ status'[shown].state = "idle"
      BY <1>0, <1>5, <1>j DEF ScanFails
    <2>2. /\ current' = None
          /\ task' = IF dirty \/ paths # {} THEN "ready" ELSE "idle"
          /\ UNCHANGED <<dirty, paths, visible, shown>>
      BY <1>5 DEF ScanFails, NextPass, triggers
    <2>3. QED
      BY <1>0, <2>1, <2>2
  <1>6. CASE BeginWatchPass
    <2>1. task = "ready" /\ ~dirty /\ paths' = {}
          /\ UNCHANGED <<status, shown, current>>
      BY <1>6 DEF BeginWatchPass, display
    <2>2. \/ /\ job'[Loop].kind \in {"nfo", "watch"} /\ task' = "busy"
             /\ visible' = FALSE /\ dirty' = dirty
          \/ job' = job /\ task' = "ready" /\ dirty' = TRUE /\ visible' = TRUE
      BY <1>0, <1>6, <1>j DEF BeginWatchPass, KickFullScan
    <2>3. QED
      BY <1>0, <2>1, <2>2
  <1>7. CASE BeginNfos
    <2>1. job'[Loop].kind = "nfo" /\ job[Loop].kind = "nfo"
      BY <1>0, <1>7 DEF BeginNfos, Job
    <2>2. UNCHANGED <<task, dirty, paths, visible, status, shown, current>>
      BY <1>7 DEF BeginNfos, triggers, display
    <2>3. QED
      BY <1>0, <2>1, <2>2
  <1>8. CASE PublishNfos
    <2>1. job[Loop].kind = "nfo" /\ UNCHANGED <<paths, shown, current>>
      BY <1>8 DEF PublishNfos
    <2>2. Bump(job[Loop].nfo # nfos) \/ UNCHANGED <<seq, status>>
      BY <1>8 DEF PublishNfos
    <2>3. SameDisplay
      BY <2>1, <2>2, BumpDisplay
    <2>4. \/ /\ job'[Loop].kind = "idle" /\ dirty' = (dirty \/ moved) /\ visible' = visible
             /\ task' = IF dirty' \/ paths' # {} THEN "ready" ELSE "idle"
          \/ /\ job'[Loop].kind = "watch" /\ task' = task /\ dirty' = (dirty \/ moved)
             /\ visible' = visible
          \/ job'[Loop].kind = "idle" /\ task' = "ready" /\ dirty' = TRUE /\ visible' = TRUE
      BY <1>0, <1>8, <1>j DEF PublishNfos, NextPass, KickFullScan
    <2>5. QED
      BY <1>0, <2>1, <2>3, <2>4 DEF SameDisplay
  <1>9. CASE FinishWatch
    <2>1. job[Loop].kind = "watch" /\ UNCHANGED <<paths, shown, current>>
      BY <1>9 DEF FinishWatch
    <2>2. \E changed : Bump(changed) \/ UNCHANGED <<seq, status>>
      BY <1>9 DEF FinishWatch, NothingFresh, PublishRefresh
    <2>3. SameDisplay
      BY <2>1, <2>2, BumpDisplay
    <2>4. \/ job'[Loop].kind = "idle" /\ task' = "ready" /\ dirty' = TRUE /\ visible' = TRUE
          \/ /\ job'[Loop].kind = "idle" /\ UNCHANGED <<dirty, visible>>
             /\ task' = IF dirty \/ paths # {} THEN "ready" ELSE "idle"
          \/ job'[Loop].kind = "nfo" /\ UNCHANGED <<dirty, visible, task>>
      BY <1>0, <1>9, <1>j, <2>1 DEF FinishWatch, NextPass, KickFullScan
    <2>5. QED
      BY <1>0, <2>1, <2>3, <2>4 DEF SameDisplay
  <1>10. CASE WatchFails
    <2>1. job[Loop].kind \in {"watch", "nfo"} /\ job'[Loop].kind = "idle"
          /\ status'[shown].state = "idle"
      BY <1>0, <1>10, <1>j DEF WatchFails
    <2>2. /\ task' = "ready" /\ dirty' = TRUE /\ visible' = TRUE
          /\ UNCHANGED <<paths, shown, current>>
      BY <1>10 DEF WatchFails, KickFullScan
    <2>3. QED
      BY <1>0, <2>1, <2>2
  <1>11. QED
    BY <1>1, <1>2, <1>3, <1>4, <1>5, <1>6, <1>7, <1>8, <1>9, <1>10

\* Every step of the system keeps that agreement.
LEMMA LockStep ==
  ASSUME TypeOK, LockInv, [Next]_vars
  PROVE  LockInv'
  <1>1. CASE \/ \E d \in Dirs : Change(d)
             \/ ChangeNfo \/ WatcherDies \/ RequestScan \/ HourlyRescan \/ Settle
             \/ Reset \/ UNCHANGED vars
    BY <1>1, LockOutside
  <1>2. CASE \E t \in Threads :
               \/ \E d \in Dirs : View(t, d) \/ Mutate(t, d) \/ Remove(t, d)
               \/ Render(t) \/ Deliver(t) \/ FinishRefresh(t) \/ FinishNow(t)
    BY <1>2, LockThread
  <1>3. CASE \E r \in Readers :
               \/ List(r) \/ CannotList(r) \/ CacheHit(r) \/ ReadTags(r)
               \/ CannotBuild(r) \/ StoreInCache(r) \/ ReadNfos(r)
    BY <1>3, ReadKeepsPurpose, LockKept DEF SameDisplay, display
  <1>4. CASE \/ BeginScan \/ Advertise \/ PublishScan \/ CloseScan \/ ScanFails
             \/ BeginWatchPass \/ BeginNfos \/ PublishNfos \/ FinishWatch
             \/ WatchFails
    BY <1>4, LockLoop
  <1>5. QED
    BY <1>1, <1>2, <1>3, <1>4 DEF Next

\* The task, its triggers and the statuses agree, in every interleaving.
THEOREM LockHolds == Spec => []LockInv
  <1>1. Init => LockInv
    <2> SUFFICES ASSUME Init PROVE LockInv
      OBVIOUS
    <2>1. job[Loop].kind = "idle"
      BY DEF Init, Readers, NoJob, NewJob
    <2>2. QED
      BY <2>1 DEF Init, LockInv, TaskJob, ScanStatusInv, InboxLock, NothingForgotten, None
  <1>2. TypeOK /\ LockInv /\ [Next]_vars => LockInv'
    BY LockStep
  <1>3. QED
    BY <1>1, <1>2, TypeCorrect, PTL DEF Spec

\* The inbox is locked exactly while a scan somebody asked for is due or running:
\* a promotion, a failing scan or a publication beside it leaves no lock behind and
\* takes none away (_kick, _run and the two ScanStatus objects).
THEOREM InboxLockHolds == Spec => []InboxLock
  <1>1. LockInv => InboxLock
    BY DEF LockInv
  <1>2. QED
    BY <1>1, LockHolds, PTL

\* No request and no reported path is left without a pass to take it, whenever it
\* came and whatever failed (the end of _run's while, and _kick).
THEOREM NothingIsForgotten == Spec => []NothingForgotten
  <1>1. LockInv => NothingForgotten
    BY DEF LockInv
  <1>2. QED
    BY <1>1, LockHolds, PTL

\* A publication beside the task stamps the status on show with the number it gives.
LEMMA StampedBump ==
  ASSUME TypeOK, Stamped, NEW changed, Bump(changed) \/ UNCHANGED <<seq, status>>,
         UNCHANGED <<shown, current>>, faults' = 0 => faults = 0,
         task = "closing" /\ job[Loop].flag => task' = "closing" /\ job'[Loop].flag
  PROVE  Stamped'
  <1>1. status \in [{0, 1} -> [state : {"idle", "scanning", "done"}, seq : Nat]]
        /\ shown \in {0, 1}
    BY DEF TypeOK
  <1>2. CASE seq' = seq + 1 /\ status' = [status EXCEPT ![shown].seq = seq + 1]
    BY <1>1, <1>2 DEF Stamped
  <1>3. CASE UNCHANGED <<seq, status>>
    BY <1>3 DEF Stamped
  <1>4. QED
    BY <1>2, <1>3 DEF Bump

\* Every step leaves the number on show either the last one or about to be stamped.
LEMMA StampedStep ==
  ASSUME TypeOK, LockInv, Stamped, [Next]_vars
  PROVE  Stamped'
  <1>0. /\ Loop \in DOMAIN job /\ job[Loop] \in Job
        /\ current \in {0, 1, None} /\ shown \in {0, 1}
        /\ faults \in Nat
        /\ status \in [{0, 1} -> [state : {"idle", "scanning", "done"}, seq : Nat]]
    BY BoundsAssumption DEF TypeOK, Readers
  <1>1. CASE \/ \E d \in Dirs : Change(d)
             \/ ChangeNfo \/ WatcherDies \/ UNCHANGED vars
    BY <1>1 DEF Change, ChangeNfo, WatcherDies, vars, display, bounds, Stamped
  <1>2. CASE RequestScan \/ Reset \/ \E t \in Threads : Deliver(t)
    <2>1. Kick /\ UNCHANGED <<faults, seq>>
      BY <1>2 DEF RequestScan, Reset, Deliver, Kick, bounds
    <2>2. CASE current # None /\ shown # current
      BY <2>1, <2>2 DEF Kick, Stamped
    <2>3. CASE ~(current # None /\ shown # current)
      BY <2>1, <2>3 DEF Kick, LoopFree, Stamped
    <2>4. QED
      BY <2>2, <2>3
  <1>3. CASE HourlyRescan \/ Settle
    BY <1>3 DEF HourlyRescan, Settle, LoopFree, display, bounds, Stamped
  <1>4. ASSUME NEW t \in Threads,
               \/ \E d \in Dirs : View(t, d) \/ Mutate(t, d) \/ Remove(t, d)
               \/ Render(t) \/ FinishRefresh(t) \/ FinishNow(t)
        PROVE  Stamped'
    <2>1. \E j : job' = [job EXCEPT ![t] = j]
      BY <1>4 DEF View, Mutate, Remove, Render, FinishRefresh, FinishNow
    <2>2. job'[Loop] = job[Loop]
      BY <2>1, SetsAssumption DEF TypeOK, Readers
    <2>3. /\ \E changed : Bump(changed) \/ UNCHANGED <<seq, status>>
          /\ UNCHANGED <<task, shown, current, faults>>
      BY <1>4 DEF View, Mutate, Remove, Render, FinishRefresh, FinishNow,
                  NothingFresh, PublishRefresh, display, bounds
    <2>4. QED
      BY <2>2, <2>3, StampedBump
  <1>5. ASSUME NEW r \in Readers,
               \/ List(r) \/ CannotList(r) \/ CacheHit(r) \/ ReadTags(r)
               \/ CannotBuild(r) \/ StoreInCache(r) \/ ReadNfos(r)
        PROVE  Stamped'
    <2>1. job'[Loop].flag = job[Loop].flag /\ UNCHANGED <<task, display>>
      BY <1>5, ReadKeepsPurpose
    <2>2. faults' = faults \/ faults' = faults + 1
      BY <1>5 DEF List, CannotList, CacheHit, ReadTags, CannotBuild, StoreInCache,
                  ReadNfos
    <2>3. QED
      BY <1>0, <2>1, <2>2 DEF display, Stamped
  <1>6. CASE BeginScan
    <2>1. /\ task = "ready" /\ UNCHANGED <<shown, seq, faults>>
          /\ status'[shown] = status[shown]
      BY <1>0, <1>6 DEF BeginScan, bounds
    <2>2. current = None
      BY <2>1 DEF LockInv, ScanStatusInv, TaskJob
    <2>3. QED
      BY <1>0, <2>1, <2>2 DEF Stamped, None
  <1>7. CASE Advertise
    BY <1>7 DEF Advertise, bounds, Stamped
  <1>8. CASE PublishScan
    <2> DEFINE changed == Collected # scanned \/ CollectedNfos # nfos
    <2>1. /\ task' = "closing" /\ UNCHANGED <<status, shown, current, faults>>
          /\ seq' = IF changed THEN seq + 1 ELSE seq
          /\ job'[Loop].flag = changed
      BY <1>0, <1>8 DEF PublishScan, NewJob, bounds
    <2>2. task = "busy"
      BY <1>8 DEF PublishScan, ReadAll, Between, Reading
    <2> HIDE DEF changed
    <2>3. QED
      BY <2>1, <2>2 DEF Stamped
  <1>9. CASE CloseScan
    <2>1. /\ task = "closing" /\ UNCHANGED <<shown, seq, faults>>
          /\ status'[shown].seq = IF shown = current \/ job[Loop].flag
                                    THEN seq ELSE status[shown].seq
      BY <1>0, <1>9 DEF CloseScan, bounds
    <2>2. QED
      BY <2>1 DEF Stamped
  <1>10. CASE ScanFails \/ WatchFails
    BY <1>0, <1>10 DEF ScanFails, WatchFails, Stamped
  <1>11. CASE BeginWatchPass \/ BeginNfos
    <2>1. UNCHANGED <<display, bounds>> /\ task # "closing"
      BY <1>11 DEF BeginWatchPass, BeginNfos, LockInv, TaskJob
    <2>2. QED
      BY <2>1 DEF display, bounds, Stamped
  <1>12. CASE PublishNfos \/ FinishWatch
    <2>1. /\ \E changed : Bump(changed) \/ UNCHANGED <<seq, status>>
          /\ UNCHANGED <<shown, current, faults>>
      BY <1>12 DEF PublishNfos, FinishWatch, NothingFresh, PublishRefresh, bounds
    <2>2. task # "closing"
      BY <1>12 DEF PublishNfos, FinishWatch, LockInv, TaskJob
    <2>3. QED
      BY <2>1, <2>2, StampedBump
  <1>13. QED
    BY <1>1, <1>2, <1>3, <1>4, <1>5, <1>6, <1>7, <1>8, <1>9, <1>10, <1>11, <1>12
       DEF Next

\* Once the task has nothing left to do the status on show carries the number of
\* the last changed snapshot, whoever published it and whichever of the two
\* statuses was on show: no client goes on showing an old library (_publish's
\* counter, and the last lines of _scan_once and _run).
THEOREM SeqIsCaughtUp == Spec => []SeqCaughtUp
  <1>1. Init => Stamped
    BY DEF Init, Stamped
  <1>2. TypeOK /\ LockInv /\ Stamped /\ [Next]_vars => Stamped'
    BY StampedStep
  <1>3. TypeOK /\ LockInv /\ Stamped => SeqCaughtUp
    <2>1. TypeOK /\ LockInv /\ task = "idle" => shown # current
      BY DEF TypeOK, LockInv, TaskJob, ScanStatusInv, None
    <2>2. QED
      BY <2>1 DEF Stamped, SeqCaughtUp
  <1>4. QED
    BY <1>1, <1>2, <1>3, TypeCorrect, LockHolds, PTL DEF Spec

=============================================================================

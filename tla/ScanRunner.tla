----------------------------- MODULE ScanRunner -----------------------------
(***************************************************************************)
(* The background scanner: one asyncio task that walks the library, request *)
(* threads that re-read single albums or the whole library beside it, and   *)
(* the snapshot, the purchase index and the scan status all of them publish *)
(* (web/scan_runner.py, with scanner.resolve_dir and library_index).        *)
(*                                                                          *)
(* The content of a directory is abstracted to a version number: every     *)
(* change on disk makes a new version, so "older" and "newer" readings can  *)
(* be told apart.  Version 0 stands for "no entry".                         *)
(***************************************************************************)
EXTENDS Integers, FiniteSets

CONSTANTS
  Dirs,        \* album directories
  Threads,     \* request handlers and passes that run beside the loop
  Loop,        \* the scan's own worker: the single-thread executor
  NoDir,       \* "not reading a directory"
  ArtistNfo,   \* an artist.nfo path, among the watcher's changed paths
  Ops,         \* what request threads do (the routes exercised)
  Watched,     \* the library is on a file system the watcher gets events for
  MaxVersion,  \* bound: versions of one directory on disk
  MaxNfo,      \* bound: versions of the artist.nfo evidence on disk
  MaxFaults,   \* bound: reads and scans that fail
  MaxResets    \* bound: erase-sidecars and demo resets

AllOps == {"album", "notify", "now", "kick"}

ASSUME SetsAssumption ==
  /\ Loop \notin Threads
  /\ NoDir \notin Dirs
  /\ ArtistNfo \notin Dirs
  /\ Ops \subseteq AllOps
  /\ Watched \in BOOLEAN

ASSUME BoundsAssumption ==
  /\ MaxVersion \in Nat \ {0}
  /\ MaxNfo \in Nat
  /\ MaxFaults \in Nat
  /\ MaxResets \in Nat

VARIABLES
  disk,       \* the directories as they are: [ver, here]
  nfoDisk,    \* the artist.nfo evidence as it is
  watching,   \* the file watcher is alive
  pending,    \* paths the watcher has seen change and not yet reported
  cache,      \* the mtime cache: signature and content of the last reading
  scanned,    \* _scanned: the version of each directory the snapshot shows
  nfos,       \* _nfos: the artist.nfo inventory the snapshot shows
  index,      \* library_index: the version of each sidecar it was built from
  job,        \* what each reader is doing: a Job record
  base,       \* directories with an entry in the running scan's baseline
  touched,    \* directories whose entry was replaced since that baseline
  nfoTouched, \* _nfos was replaced since that baseline
  moved,      \* anything was published since the nfo pass took its baseline
  task,       \* the asyncio task: "idle", "ready", "built", "busy", "closing"
  dirty,      \* _dirty: a full scan is wanted
  paths,      \* _changed_paths
  visible,    \* _visible: the wanted scan advertises itself
  status,     \* the two ScanStatus objects that can be alive: [state, seq]
  shown,      \* which of them _status is
  current,    \* which of them _current is; 2 stands for None
  seq,        \* _scan_seq
  completed,  \* _completed_once
  faults, resets

files == <<disk, nfoDisk, watching, pending>>
publication == <<scanned, nfos, touched, nfoTouched, moved>>
triggers == <<dirty, paths, visible>>
display == <<status, shown, current, seq>>
bounds == <<faults, resets>>
vars == <<files, cache, publication, index, job, base, task, triggers, display,
          completed, bounds>>

Readers == Threads \cup {Loop}
Version == 0..MaxVersion
Unread == -1
None == 2                       \* no ScanStatus object

(***************************************************************************)
(* A reader's job.  "scan" and "now" walk the library; "album", "notify"   *)
(* and "watch" re-read named directories; "nfo" re-reads artist.nfo files;  *)
(* "render" has refreshed the album page's album and has yet to render it;  *)
(* "kick" only has a request_scan left to deliver; "closing" is a scan that *)
(* has published and not yet stamped its status.                            *)
(***************************************************************************)
Walks == {"scan", "now"}
Refreshes == {"album", "notify", "watch"}
Kinds == Walks \cup Refreshes \cup {"idle", "render", "nfo", "kick", "closing"}

Job == [kind : Kinds,
        todo : SUBSET Dirs,                \* directories still to be listed
        at : Dirs \cup {NoDir},            \* the directory being read
        sig : Version,                     \* its signature, from the listing
        ver : Version,                     \* its content, 0 until read
        got : [Dirs -> Version \cup {Unread}],  \* what was read so far
        nfo : (0..MaxNfo) \cup {Unread},   \* the inventory read at the end
        complete : BOOLEAN,                \* refresh_album's answer
        flag : BOOLEAN]      \* scan: visible; closing: changed; nfo: has a baseline

NewJob(kind, todo) ==
  [kind |-> kind, todo |-> todo, at |-> NoDir, sig |-> 0, ver |-> 0,
   got |-> [d \in Dirs |-> Unread], nfo |-> Unread,
   complete |-> TRUE, flag |-> FALSE]

NoJob == NewJob("idle", {})

Known == {d \in Dirs : scanned[d] > 0}
Truth(d) == IF disk[d].here THEN disk[d].ver ELSE 0
Listed(got) == [d \in Dirs |-> IF got[d] > 0 THEN got[d] ELSE 0]

TypeOK ==
  /\ disk \in [Dirs -> [ver : 1..MaxVersion, here : BOOLEAN]]
  /\ nfoDisk \in 0..MaxNfo
  /\ watching \in BOOLEAN
  /\ pending \subseteq Dirs \cup {ArtistNfo}
  /\ cache \in [Dirs -> [sig : Version, ver : Version]]
  /\ scanned \in [Dirs -> Version]
  /\ nfos \in 0..MaxNfo
  /\ index \in [Dirs -> Version]
  /\ job \in [Readers -> Job]
  /\ base \subseteq Dirs
  /\ touched \subseteq Dirs
  /\ nfoTouched \in BOOLEAN
  /\ moved \in BOOLEAN
  /\ task \in {"idle", "ready", "built", "busy", "closing"}
  /\ dirty \in BOOLEAN
  /\ paths \subseteq Dirs \cup {ArtistNfo}
  /\ visible \in BOOLEAN
  /\ status \in [{0, 1} -> [state : {"idle", "scanning", "done"}, seq : Nat]]
  /\ shown \in {0, 1}
  /\ current \in {0, 1, None}
  /\ seq \in Nat
  /\ completed \in BOOLEAN
  /\ faults \in 0..MaxFaults
  /\ resets \in 0..MaxResets

NoEntry == [d \in Dirs |-> 0]

Init ==
  /\ disk \in [Dirs -> [ver : {1}, here : BOOLEAN]]
  /\ nfoDisk = 0
  /\ watching = Watched
  /\ pending = {}
  /\ cache = [d \in Dirs |-> [sig |-> 0, ver |-> 0]]
  /\ scanned = NoEntry
  /\ nfos = 0
  /\ index = NoEntry
  /\ job = [r \in Readers |-> NoJob]
  /\ base = {}
  /\ touched = {}
  /\ nfoTouched = FALSE
  /\ moved = FALSE
  /\ task = "ready"              \* attach_loop kicks the initial scan
  /\ dirty = TRUE
  /\ paths = {}
  /\ visible = TRUE
  /\ status = [s \in {0, 1} |-> [state |-> "idle", seq |-> 0]]
  /\ shown = 0
  /\ current = None
  /\ seq = 0
  /\ completed = FALSE
  /\ faults = 0
  /\ resets = 0

-----------------------------------------------------------------------------
(* The library changing underneath, and the watcher that sees it.            *)

Notice(p) == pending' = IF watching THEN pending \cup {p} ELSE pending

\* Someone outside Harmonist edits, adds or removes an album's files.
Change(d) ==
  /\ disk[d].ver < MaxVersion
  /\ \E here \in BOOLEAN :
       disk' = [disk EXCEPT ![d] = [ver |-> @.ver + 1, here |-> here]]
  /\ Notice(d)
  /\ UNCHANGED <<nfoDisk, watching, cache, publication, index, job, base, task,
                 triggers, display, completed, bounds>>

ChangeNfo ==
  /\ nfoDisk < MaxNfo
  /\ nfoDisk' = nfoDisk + 1
  /\ Notice(ArtistNfo)
  /\ UNCHANGED <<disk, watching, cache, publication, index, job, base, task,
                 triggers, display, completed, bounds>>

\* An exhausted inotify limit: the watcher logs and ends.
WatcherDies ==
  /\ watching
  /\ watching' = FALSE
  /\ pending' = {}
  /\ UNCHANGED <<disk, nfoDisk, cache, publication, index, job, base, task,
                 triggers, display, completed, bounds>>

-----------------------------------------------------------------------------
(* Triggers.  They run on the loop thread, so never between two steps that   *)
(* the scan's task takes without awaiting.                                    *)

LoopFree == task \notin {"built", "closing"}
Start == task' = IF task = "idle" THEN "ready" ELSE task

\* Slips _kick could make: leave a quiet scan in flight unpromoted, or promote
\* without asking whether any scan is in flight.
KickUnpromoted ==
  /\ LoopFree
  /\ dirty' = TRUE
  /\ visible' = TRUE
  /\ Start
  /\ UNCHANGED <<paths, display>>

KickUnchecked ==
  /\ LoopFree
  /\ dirty' = TRUE
  /\ visible' = TRUE
  /\ shown' = current
  /\ status' = [s \in {0, 1} |-> IF s = current
                                   THEN [status[s] EXCEPT !.state = "scanning"]
                                   ELSE status[s]]
  /\ Start
  /\ UNCHANGED <<paths, current, seq>>

\* _kick: a scan is wanted, visibly; a quiet scan in flight is promoted.
Kick ==
  /\ LoopFree
  /\ dirty' = TRUE
  /\ visible' = TRUE
  /\ IF current # None /\ shown # current
       THEN /\ status' = [status EXCEPT ![current].state = "scanning"]
            /\ shown' = current
       ELSE UNCHANGED <<status, shown>>
  /\ Start
  /\ UNCHANGED <<paths, current, seq>>

\* request_scan, from the middleware, a finished sync or reconcile.
RequestScan ==
  /\ Kick
  /\ UNCHANGED <<files, cache, publication, index, job, base, completed, bounds>>

\* request_quiet_rescan, from the hourly tick.
HourlyRescan ==
  /\ LoopFree
  /\ dirty' = TRUE
  /\ Start
  /\ UNCHANGED <<files, cache, publication, index, job, base, paths, visible,
                 display, completed, bounds>>

\* The watcher's settle timer fires: request_refresh.
Settle ==
  /\ LoopFree
  /\ pending # {}
  /\ paths' = paths \cup pending
  /\ pending' = {}
  /\ Start
  /\ UNCHANGED <<disk, nfoDisk, watching, cache, publication, index, job, base,
                 dirty, visible, display, completed, bounds>>

\* reset_and_rescan: the snapshot is emptied, then a scan is kicked.
Reset ==
  /\ resets < MaxResets
  /\ resets' = resets + 1
  /\ scanned' = NoEntry
  /\ nfos' = 0
  /\ touched' = touched \cup Known
  /\ nfoTouched' = TRUE
  /\ moved' = TRUE
  /\ Kick
  /\ UNCHANGED <<files, cache, index, job, base, completed, faults>>

-----------------------------------------------------------------------------
(* Request threads.                                                           *)

Idle(t) == job[t].kind = "idle"

\* refresh_album(dirs): directories the snapshot has never heard of are
\* skipped and make the answer incomplete.
RefreshJob(kind, dirs) ==
  [NewJob(kind, dirs \cap Known) EXCEPT !.complete = dirs \subseteq Known]

JobFor(op, d) ==
  CASE op \in {"album", "notify"} -> RefreshJob(op, {d})
    [] op = "now"  -> NewJob("now", Dirs)
    [] op = "kick" -> NewJob("kick", {})

\* The album page re-reads the album it is about to show.
View(t, d) ==
  /\ Idle(t)
  /\ "album" \in Ops
  /\ job' = [job EXCEPT ![t] = RefreshJob("album", {d})]
  /\ UNCHANGED <<files, cache, publication, index, base, task, triggers, display,
                 completed, bounds>>

\* A route or an apply pass writes the album's files and sidecar (sidecar.write
\* upserts the index), then publishes the change one of four ways.
Mutate(t, d) ==
  /\ Idle(t)
  /\ disk[d].here
  /\ disk[d].ver < MaxVersion
  /\ disk' = [disk EXCEPT ![d].ver = @ + 1]
  /\ index' = [index EXCEPT ![d] = disk[d].ver + 1]
  /\ \E op \in Ops : job' = [job EXCEPT ![t] = JobFor(op, d)]
  /\ Notice(d)
  /\ UNCHANGED <<nfoDisk, watching, cache, publication, base, task, triggers,
                 display, completed, bounds>>

\* A re-download archives the album away and takes it out of the index.
Remove(t, d) ==
  /\ Idle(t)
  /\ "kick" \in Ops
  /\ disk[d].here
  /\ disk[d].ver < MaxVersion
  /\ disk' = [disk EXCEPT ![d] = [ver |-> @.ver + 1, here |-> FALSE]]
  /\ index' = [index EXCEPT ![d] = 0]
  /\ job' = [job EXCEPT ![t] = NewJob("kick", {})]
  /\ Notice(d)
  /\ UNCHANGED <<nfoDisk, watching, cache, publication, base, task, triggers,
                 display, completed, bounds>>

\* The album page renders from the snapshot.
Render(t) ==
  /\ job[t].kind = "render"
  /\ job' = [job EXCEPT ![t] = NoJob]
  /\ UNCHANGED <<files, cache, publication, index, base, task, triggers, display,
                 completed, bounds>>

\* The middleware's request_scan, or the one after an incomplete refresh.
Deliver(t) ==
  /\ job[t].kind = "kick"
  /\ Kick
  /\ job' = [job EXCEPT ![t] = NoJob]
  /\ UNCHANGED <<files, cache, publication, index, base, completed, bounds>>

-----------------------------------------------------------------------------
(* Reading, the same for every reader: list a directory, then resolve it.     *)

Reading(r) == job[r].kind \in Walks \cup Refreshes /\ (r = Loop => task = "busy")
Between(r) == Reading(r) /\ job[r].at = NoDir
ReadAll(r) == Between(r) /\ job[r].todo = {}

ReadStep(r, new) ==
  /\ job' = [job EXCEPT ![r] = new]
  /\ UNCHANGED <<files, publication, index, base, task, triggers, display,
                 completed, resets>>

Got(r, d, v) == [job[r] EXCEPT !.todo = @ \ {d}, !.at = NoDir, !.sig = 0,
                               !.ver = 0, !.got = [@ EXCEPT ![d] = v]]

\* read_dir stats the directory's files into a signature, or finds no audio.
List(r) ==
  /\ Between(r)
  /\ \E d \in job[r].todo :
       ReadStep(r, IF disk[d].here
                     THEN [job[r] EXCEPT !.todo = @ \ {d}, !.at = d,
                                         !.sig = disk[d].ver]
                     ELSE Got(r, d, 0))
  /\ UNCHANGED <<cache, faults>>

\* The directory cannot be listed: a walk goes on without it, a refresh leaves
\* its entry alone and answers "incomplete".
CannotList(r) ==
  /\ Between(r)
  /\ faults < MaxFaults
  /\ faults' = faults + 1
  /\ \E d \in job[r].todo :
       ReadStep(r, IF job[r].kind \in Walks
                     THEN Got(r, d, 0)
                     ELSE [job[r] EXCEPT !.todo = @ \ {d}, !.complete = FALSE])
  /\ UNCHANGED cache

\* resolve_dir with an unchanged signature: the cached album, no I/O.
CacheHit(r) ==
  LET d == job[r].at
  IN /\ Reading(r)
     /\ d \in Dirs
     /\ job[r].ver = 0
     /\ cache[d].sig = job[r].sig
     /\ ReadStep(r, Got(r, d, cache[d].ver))
     /\ UNCHANGED <<cache, faults>>

\* resolve_dir otherwise: tags and sidecar are read now, which may be later
\* than the listing; files gone meanwhile make the directory unbuildable.
ReadTags(r) ==
  LET d == job[r].at
  IN /\ Reading(r)
     /\ d \in Dirs
     /\ job[r].ver = 0
     /\ cache[d].sig # job[r].sig
     /\ ReadStep(r, IF disk[d].here
                      THEN [job[r] EXCEPT !.ver = disk[d].ver]
                      ELSE Got(r, d, 0))
     /\ UNCHANGED <<cache, faults>>

\* A corrupt sidecar or an unreadable file: resolve_dir warns and gives None.
CannotBuild(r) ==
  LET d == job[r].at
  IN /\ Reading(r)
     /\ d \in Dirs
     /\ job[r].ver = 0
     /\ cache[d].sig # job[r].sig
     /\ faults < MaxFaults
     /\ faults' = faults + 1
     /\ ReadStep(r, Got(r, d, 0))
     /\ UNCHANGED cache

\* The album is cached under the signature it was listed with; the slip would be
\* to take the signature again after reading.
LateEntry(r) == [sig |-> disk[job[r].at].ver, ver |-> job[r].ver]
CacheEntry(r) == [sig |-> job[r].sig, ver |-> job[r].ver]

StoreInCache(r) ==
  LET d == job[r].at
  IN /\ Reading(r)
     /\ d \in Dirs
     /\ job[r].ver > 0
     /\ cache' = [cache EXCEPT ![d] = CacheEntry(r)]
     /\ ReadStep(r, Got(r, d, job[r].ver))
     /\ UNCHANGED faults

\* Discovery.finish: a walk reads the artist.nfo files it met, at its end.
ReadNfos(r) ==
  /\ \/ ReadAll(r) /\ job[r].kind \in Walks
     \/ job[r].kind = "nfo" /\ job[r].flag
  /\ job[r].nfo = Unread
  /\ ReadStep(r, [job[r] EXCEPT !.nfo = nfoDisk])
  /\ UNCHANGED <<cache, faults>>

-----------------------------------------------------------------------------
(* Publishing, under _snapshot_lock.                                          *)

Without(c, gone) ==
  [d \in Dirs |-> IF d \in gone THEN [sig |-> 0, ver |-> 0] ELSE c[d]]

\* The scan counter moves, and the status on show carries it; the slip would be
\* to forget the status.
BumpUnshown(changed) ==
  /\ seq' = IF changed THEN seq + 1 ELSE seq
  /\ UNCHANGED status

Bump(changed) ==
  IF changed
    THEN /\ seq' = seq + 1
         /\ status' = [status EXCEPT ![shown].seq = seq + 1]
    ELSE UNCHANGED <<seq, status>>

Fresh(r) == {d \in Dirs : job[r].got[d] # Unread}

\* The entries refresh_album publishes: only entries present are replaced.
Patched(r) ==
  [d \in Dirs |-> IF d \in Fresh(r) \cap Known THEN job[r].got[d] ELSE scanned[d]]

PublishRefresh(r) ==
  /\ scanned' = Patched(r)
  /\ cache' = Without(cache, {d \in Fresh(r) \cap Known : job[r].got[d] = 0})
  /\ touched' = touched \cup (Fresh(r) \cap Known)
  /\ moved' = TRUE
  /\ IF job[r].kind = "album"
       THEN UNCHANGED <<index, seq, status>>
       ELSE /\ index' = Patched(r)
            /\ Bump(Patched(r) # scanned)
  /\ UNCHANGED <<nfos, nfoTouched>>

NothingFresh(r) ==
  /\ Fresh(r) = {}
  /\ UNCHANGED <<cache, publication, index, seq, status>>

\* A request thread's refresh_album returns; a caller that asked to notify
\* requests a full scan when the answer was incomplete.
FinishRefresh(t) ==
  /\ job[t].kind \in {"album", "notify"}
  /\ ReadAll(t)
  /\ NothingFresh(t) \/ (Fresh(t) # {} /\ PublishRefresh(t))
  /\ job' = [job EXCEPT ![t] =
       IF @.kind = "album" THEN [@ EXCEPT !.kind = "render"]
       ELSE IF @.complete  THEN NoJob
       ELSE NewJob("kick", {})]
  /\ UNCHANGED <<files, base, task, triggers, shown, current, completed, bounds>>

\* refresh_now: a full walk from a worker thread, published as it was read.
FinishNow(t) ==
  LET new == Listed(job[t].got)
  IN /\ job[t].kind = "now"
     /\ ReadAll(t)
     /\ job[t].nfo # Unread
     /\ cache' = Without(cache, {d \in Dirs : new[d] = 0})
     /\ scanned' = new
     /\ nfos' = job[t].nfo
     /\ touched' = touched \cup Known \cup {d \in Dirs : new[d] > 0}
     /\ nfoTouched' = TRUE
     /\ moved' = TRUE
     /\ Bump(job[t].nfo # nfos)
     /\ completed' = TRUE
     /\ job' = [job EXCEPT ![t] = NoJob]
     /\ UNCHANGED <<files, index, base, task, triggers, shown, current, bounds>>

-----------------------------------------------------------------------------
(* The loop's task.                                                           *)

\* Back at the top of _run's while: another pass, or the task is done.  The slip
\* would be to look only at _dirty.
NextScan == task' = IF dirty' THEN "ready" ELSE "idle"
NextPass == task' = IF dirty' \/ paths' # {} THEN "ready" ELSE "idle"

\* _kick at the end of a watcher pass, when no scan status is in flight.
KickFullScan == dirty' = TRUE /\ visible' = TRUE

\* A full pass takes its baseline and builds its status.
BeginScan ==
  /\ task = "ready"
  /\ dirty
  /\ dirty' = FALSE
  /\ paths' = {}
  /\ visible' = FALSE
  /\ base' = Known
  /\ touched' = {}
  /\ nfoTouched' = FALSE
  /\ current' = 1 - shown
  /\ status' = [status EXCEPT ![1 - shown] = [state |-> "scanning", seq |-> seq]]
  /\ job' = [job EXCEPT ![Loop] = [NewJob("scan", Dirs) EXCEPT !.flag = visible]]
  /\ task' = "built"
  /\ UNCHANGED <<files, cache, scanned, nfos, moved, index, shown, seq, completed,
                 bounds>>

\* A visible scan publishes its status; the walk begins.
Advertise ==
  /\ task = "built"
  /\ shown' = IF job[Loop].flag THEN current ELSE shown
  /\ task' = "busy"
  /\ UNCHANGED <<files, cache, publication, index, job, base, triggers, status,
                 current, seq, completed, bounds>>

\* Entries published since the baseline win over what the scan read; the slip
\* would be to keep only the removals.
RemovedMeanwhile(d) == d \in touched /\ d \in base /\ scanned[d] = 0
Republished(d) == d \in touched /\ (d \in base \/ scanned[d] > 0)
Collected ==
  [d \in Dirs |-> IF Republished(d) THEN scanned[d] ELSE Listed(job[Loop].got)[d]]

\* So does a newer inventory; the slip would be to swap the two.
SwappedNfos == IF nfoTouched THEN job[Loop].nfo ELSE nfos
CollectedNfos == IF nfoTouched THEN nfos ELSE job[Loop].nfo

PublishScan ==
  LET changed == Collected # scanned \/ CollectedNfos # nfos
  IN /\ job[Loop].kind = "scan"
     /\ ReadAll(Loop)
     /\ job[Loop].nfo # Unread
     /\ cache' = Without(cache, {d \in Dirs : Collected[d] = 0})
     /\ scanned' = Collected
     /\ nfos' = CollectedNfos
     /\ index' = Collected
     /\ seq' = IF changed THEN seq + 1 ELSE seq
     /\ moved' = TRUE
     /\ task' = "closing"
     /\ job' = [job EXCEPT ![Loop] = [NewJob("closing", {}) EXCEPT !.flag = changed]]
     /\ UNCHANGED <<files, touched, nfoTouched, base, triggers, status, shown,
                    current, completed, bounds>>

\* The status is stamped; a quiet scan that changed something tells the client
\* through the status on show.
CloseScan ==
  /\ task = "closing"
  /\ completed' = TRUE
  /\ status' = [s \in {0, 1} |->
       IF s = current THEN [state |-> "done", seq |-> seq]
       ELSE IF s = shown /\ job[Loop].flag THEN [status[s] EXCEPT !.seq = seq]
       ELSE status[s]]
  /\ current' = None
  /\ job' = [job EXCEPT ![Loop] = NoJob]
  /\ UNCHANGED <<files, cache, publication, index, base, triggers, shown, seq,
                 bounds>>
  /\ NextPass

\* The walk raises: the task survives, the scan is not asked for again.
ScanFails ==
  /\ job[Loop].kind = "scan"
  /\ task = "busy"
  /\ faults < MaxFaults
  /\ faults' = faults + 1
  /\ status' = [status EXCEPT ![shown].state = "idle"]
  /\ current' = None
  /\ job' = [job EXCEPT ![Loop] = NoJob]
  /\ UNCHANGED <<files, cache, publication, index, base, triggers, shown, seq,
                 completed, resets>>
  /\ NextPass

\* A pass over the watcher's paths: artist.nfo files first, then albums.  A
\* path that is a directory, an unknown directory or a library not yet scanned
\* is left to a full scan.
BeginWatchPass ==
  /\ task = "ready"
  /\ ~dirty
  /\ paths # {}
  /\ paths' = {}
  /\ \/ /\ completed
        /\ ArtistNfo \in paths
        /\ job' = [job EXCEPT ![Loop] = NewJob("nfo", paths \ {ArtistNfo})]
        /\ task' = "busy"
        /\ visible' = FALSE
        /\ UNCHANGED dirty
     \/ /\ completed
        /\ paths \subseteq Known
        /\ job' = [job EXCEPT ![Loop] = RefreshJob("watch", paths)]
        /\ task' = "busy"
        /\ visible' = FALSE
        /\ UNCHANGED dirty
     \/ /\ KickFullScan
        /\ task' = "ready"
        /\ UNCHANGED job
  /\ UNCHANGED <<files, cache, publication, index, base, display, completed,
                 bounds>>

\* _refresh_nfos takes its baseline ...
BeginNfos ==
  /\ job[Loop].kind = "nfo"
  /\ ~job[Loop].flag
  /\ moved' = FALSE
  /\ job' = [job EXCEPT ![Loop].flag = TRUE]
  /\ UNCHANGED <<files, cache, scanned, nfos, touched, nfoTouched, index, base,
                 task, triggers, display, completed, bounds>>

\* ... and publishes what it read, unless something was published since: then
\* a quiet rescan is asked for.  The pass goes on with the changed albums.
PublishNfos ==
  LET rest == job[Loop].todo
  IN /\ job[Loop].kind = "nfo"
     /\ job[Loop].nfo # Unread
     /\ IF moved
          THEN UNCHANGED <<nfos, nfoTouched, moved, seq, status>>
          ELSE /\ nfos' = job[Loop].nfo
               /\ nfoTouched' = (nfoTouched \/ job[Loop].nfo # nfos)
               /\ moved' = TRUE
               /\ Bump(job[Loop].nfo # nfos)
     /\ UNCHANGED <<files, cache, scanned, touched, index, base, paths, shown,
                    current, completed, bounds>>
     /\ \/ /\ rest = {}
           /\ dirty' = (dirty \/ moved)
           /\ job' = [job EXCEPT ![Loop] = NoJob]
           /\ NextPass
           /\ UNCHANGED visible
        \/ /\ rest # {}
           /\ rest \subseteq Known
           /\ dirty' = (dirty \/ moved)
           /\ job' = [job EXCEPT ![Loop] = RefreshJob("watch", rest)]
           /\ UNCHANGED <<visible, task>>
        \/ /\ KickFullScan
           /\ rest # {}
           /\ job' = [job EXCEPT ![Loop] = NoJob]
           /\ task' = "ready"

\* The watcher pass's refresh_album; re-tagged audio may re-read the artist.nfo
\* evidence after it.
FinishWatch ==
  /\ job[Loop].kind = "watch"
  /\ ReadAll(Loop)
  /\ NothingFresh(Loop) \/ (Fresh(Loop) # {} /\ PublishRefresh(Loop))
  /\ UNCHANGED <<files, base, paths, shown, current, completed, bounds>>
  /\ \/ /\ ~job[Loop].complete
        /\ KickFullScan
        /\ job' = [job EXCEPT ![Loop] = NoJob]
        /\ task' = "ready"
     \/ /\ job[Loop].complete
        /\ job' = [job EXCEPT ![Loop] = NoJob]
        /\ UNCHANGED <<dirty, visible>>
        /\ NextPass
     \/ /\ job[Loop].complete
        /\ job' = [job EXCEPT ![Loop] = NewJob("nfo", {})]
        /\ UNCHANGED <<dirty, visible, task>>

\* A watcher pass raises: a full scan takes over.
WatchFails ==
  /\ job[Loop].kind \in {"watch", "nfo"}
  /\ faults < MaxFaults
  /\ faults' = faults + 1
  /\ status' = [status EXCEPT ![shown].state = "idle"]
  /\ job' = [job EXCEPT ![Loop] = NoJob]
  /\ KickFullScan
  /\ task' = "ready"
  /\ UNCHANGED <<files, cache, publication, index, base, paths, shown, current,
                 seq, completed, resets>>

Next ==
  \/ \E d \in Dirs : Change(d)
  \/ ChangeNfo
  \/ WatcherDies
  \/ RequestScan
  \/ HourlyRescan
  \/ Settle
  \/ Reset
  \/ \E t \in Threads :
       \/ \E d \in Dirs : View(t, d) \/ Mutate(t, d) \/ Remove(t, d)
       \/ Render(t)
       \/ Deliver(t)
       \/ FinishRefresh(t)
       \/ FinishNow(t)
  \/ \E r \in Readers :
       \/ List(r)
       \/ CannotList(r)
       \/ CacheHit(r)
       \/ ReadTags(r)
       \/ CannotBuild(r)
       \/ StoreInCache(r)
       \/ ReadNfos(r)
  \/ BeginScan
  \/ Advertise
  \/ PublishScan
  \/ CloseScan
  \/ ScanFails
  \/ BeginWatchPass
  \/ BeginNfos
  \/ PublishNfos
  \/ FinishWatch
  \/ WatchFails

Spec == Init /\ [][Next]_vars

(***************************************************************************)
(* Fairness.  The event loop and the threads keep running what they have    *)
(* begun; the hourly tick keeps coming (periodic.run_periodically survives  *)
(* a failing action).  Edits, requests, the watcher and faults owe nothing. *)
(***************************************************************************)
LoopStep ==
  \/ BeginScan \/ Advertise \/ PublishScan \/ CloseScan
  \/ BeginWatchPass \/ BeginNfos \/ PublishNfos \/ FinishWatch

ReaderStep(r) ==
  List(r) \/ CacheHit(r) \/ ReadTags(r) \/ StoreInCache(r) \/ ReadNfos(r)

ThreadStep(t) == Render(t) \/ Deliver(t) \/ FinishRefresh(t) \/ FinishNow(t)

Fairness ==
  /\ WF_vars(LoopStep)
  /\ WF_vars(HourlyRescan)
  /\ \A r \in Readers : WF_vars(ReaderStep(r))
  /\ \A t \in Threads : WF_vars(ThreadStep(t))

FairSpec == Spec /\ Fairness

-----------------------------------------------------------------------------
(* Properties.                                                                *)

\* The mtime cache never serves content older than the signature it is filed
\* under: a reading taken late is filed under the earlier listing, so a change
\* between the two is read again (scanner.resolve_dir shared by every thread).
CacheHonest ==
  \A d \in Dirs : /\ cache[d].sig <= cache[d].ver
                  /\ cache[d].ver <= disk[d].ver

\* Why that holds: what a reader has in hand is a version its directory has had,
\* no older than the listing; the snapshot shows nothing the disk never had; and
\* where nothing was republished since the running scan's baseline, the scan's
\* reading is at least as new as the entry on show.
ReadingsReal ==
  /\ \A r \in Readers, d \in Dirs :
       /\ job[r].at = d => /\ job[r].sig <= disk[d].ver
                           /\ job[r].ver > 0 => /\ job[r].sig <= job[r].ver
                                                /\ job[r].ver <= disk[d].ver
       /\ job[r].got[d] <= disk[d].ver
  /\ \A r \in Readers : job[r].at = NoDir => job[r].ver = 0

ShownReal == \A d \in Dirs : scanned[d] <= disk[d].ver

ScanFresh ==
  job[Loop].kind = "scan" =>
    \A d \in Dirs \ touched :
      /\ job[Loop].at = d => scanned[d] <= job[Loop].sig
      /\ job[Loop].got[d] > 0 => scanned[d] <= job[Loop].got[d]

FreshInv == CacheHonest /\ ReadingsReal /\ ShownReal /\ ScanFresh

\* A background scan, however long it walked, never replaces an entry of the
\* snapshot by an older reading of the directory: what a page or a mutation
\* published while it walked wins (the merge in _scan_once).
ScanKeepsNewer ==
  [][PublishScan =>
       \A d \in Dirs : scanned'[d] = 0 \/ scanned'[d] >= scanned[d]]_vars

\* The inbox lock follows the scans somebody asked for: it is never left on
\* without a scan in flight, is on throughout an asked-for scan and from the
\* moment a request promotes a quiet one, and is never on for a quiet one.
InboxLock ==
  /\ status[shown].state = "scanning" => shown = current
  /\ job[Loop].kind = "scan" /\ task = "busy" =>
       (shown = current /\ status[shown].state = "scanning"
          <=> job[Loop].flag \/ visible)

\* Once the task is done, and nothing failed, the status on show carries the
\* number of the last changed snapshot, so no client misses it.
SeqCaughtUp == faults = 0 /\ task = "idle" => status[shown].seq = seq

\* A wanted scan or reported change is never left without a task to run it.
NothingForgotten ==
  /\ dirty \/ paths # {} => task # "idle"
  /\ visible => dirty

\* Whatever the watcher missed and the threads overlapped, once the library
\* stops changing the snapshot, its artist inventory and the purchase index
\* come to agree with it and stay so (the hourly rescan is the backstop).
AgreesWithDisk ==
  /\ \A d \in Dirs : scanned[d] = Truth(d) /\ index[d] = Truth(d)
  /\ nfos = nfoDisk

Converges == <>[]AgreesWithDisk

=============================================================================

----------------------------- MODULE Redownload -----------------------------
(***************************************************************************)
(* An album archived off disk, fetched again and tagged again (archive.py,  *)
(* redownloads.py, and the routes, the sync and the scan beside them).      *)
(*                                                                          *)
(* What is deleted has been zipped, checked and closed; what comes back is  *)
(* tagged as what the archived copy was, by a match that only memory        *)
(* carries.  Which purchase a sync considers, and when, is BandcampSync's   *)
(* question: here it may consider the one album at any time.                *)
(***************************************************************************)
EXTENDS Integers, FiniteSets

CONSTANTS
  Files,        \* the <<directory, name>> pairs an album's files may have
  Home,         \* the directory a download goes to, which holds the sidecar
  Beginnings,   \* the files there may be before anybody presses
  Downloads,    \* the files Bandcamp may send
  Releases, Match,
  Length,       \* tracks of each release
  LinkedFrom,   \* the releases that name the purchase's store page
  None,
  MaxPresses, MaxEdits, MaxFaults

ASSUME ReleasesAssumption ==
  /\ Match \in Releases /\ LinkedFrom \subseteq Releases
  /\ None \notin Releases
  /\ Length \in [Releases -> Nat]

\* Whatever the files are: those Bandcamp sends land in one directory.
ASSUME FilesAssumption ==
  /\ Beginnings \subseteq SUBSET Files
  /\ \A got \in Downloads : got \subseteq {f \in Files : f[1] = Home}

ASSUME BoundsAssumption == MaxPresses \in Nat /\ MaxEdits \in Nat /\ MaxFaults \in Nat

VARIABLES
  disk,      \* each file's content, or None
  side,      \* Home's sidecar [release, added], or None; it names the purchase
  zips,      \* the archives, by their place among the names tried
  ignored,   \* whether ignores.txt has the purchase
  mem,       \* [card, approved, carried] of redownloads and pending_downloads
  index,     \* whether library_index has the purchase
  seen,      \* what the library snapshot says: [there, side]
  job,       \* the re-download under way, or None
  sync,      \* the sync under way, or None
  was,       \* history: what the album was when it was archived, until somebody
             \* or something decides anew, or the process forgets
  held,      \* history: the contents nobody but a re-download can have removed
  budget

vars == <<disk, side, zips, ignored, mem, index, seen, job, sync, was, held, budget>>

Dirs == {f[1] : f \in Files}
Present == {f \in Files : disk[f] # None}
Spend(what) == budget[what] > 0 /\ budget' = [budget EXCEPT ![what] = @ - 1]
Used(what) == [presses |-> MaxPresses, edits |-> MaxEdits, faults |-> MaxFaults][what] - budget[what]

\* A content is told by what made it and its length: a download by the press it
\* answers.  A member that was written wrong keeps the length and fails its CRC.
Contents == [made : {"sold", "edit", "spoilt"}, press : Nat, size : Nat]
Original == [made |-> "sold", press |-> 0, size |-> 1]
Download(n) == [made |-> "sold", press |-> n, size |-> 1]
Edit(size) == [made |-> "edit", press |-> 0, size |-> size]
Spoilt(content) == [content EXCEPT !.made = "spoilt"]

\* An archive may be whole or not yet, and holds a member for each file written.
Names == 1..MaxPresses
Archives == [whole : BOOLEAN, members : [Files -> Contents \cup {None}]]
NoArchive == [whole |-> FALSE, members |-> [f \in Files |-> None]]
ASSUME NoneAssumption == None \notin Contents /\ None \notin Archives

FreshMemory == [card |-> FALSE, approved |-> FALSE, carried |-> None]
Reading == [there |-> Present # {}, side |-> side, files |-> Present]
AtHome == {f \in Present : f[1] = Home}
Short(release) == Cardinality(AtHome) < Length[release]
Fits(release) == Cardinality(AtHome) = Length[release]

-----------------------------------------------------------------------------
(* The archive.                                                             *)

Album == <<disk, side>>
Library == <<ignored, mem, index>>
Threads == <<seen, sync>>
History == <<was, held>>

\* The route's refusals, and what it takes from the snapshot's album before the
\* sidecar is gone.
Press ==
  /\ job = None /\ sync = None /\ seen.there /\ seen.side # None
  /\ Spend("presses")
  /\ job' = [at |-> "list", album |-> seen, sizes |-> <<>>, left |-> {}, zip |-> 0]
  /\ UNCHANGED <<Album, zips, Library, Threads, History>>

\* _collect and _check_space, which may refuse, then the first name that is free.
FreeName == CHOOSE n \in Names : zips[n] = None /\ \A k \in 1..n - 1 : zips[k] # None
Folders == {f[1] : f \in job.album.files}

\* A file whose folder has been listed for an archive and not removed yet: what
\* arrives there, or is written there, in that time is not promised anything.
Doomed(f) ==
  /\ job # None /\ job.at # "list" /\ f[1] \in Folders
  /\ job.at = "remove" => f[1] \in job.left

Collect ==
  /\ job # None /\ job.at = "list"
  /\ LET listed == {f \in Present : f[1] \in Folders}
     IN  IF \A d \in Folders : \E f \in listed : f[1] = d
         THEN /\ job' = [job EXCEPT !.at = "write", !.left = listed, !.zip = FreeName,
                                    !.sizes = [f \in listed |-> disk[f].size]]
              /\ zips' = [zips EXCEPT ![FreeName] = NoArchive]
         ELSE job' = None /\ UNCHANGED zips
  /\ UNCHANGED <<Album, Library, Threads, History, budget>>
NoRoom ==
  /\ job # None /\ job.at = "list" /\ Spend("faults")
  /\ job' = None
  /\ UNCHANGED <<Album, zips, Library, Threads, History>>

\* An archive that fails is unlinked, and the album stays.
GiveUp == job' = None /\ zips' = [zips EXCEPT ![job.zip] = None]

WriteMember(f) ==
  /\ job # None /\ job.at = "write" /\ f \in job.left
  /\ IF disk[f] = None THEN GiveUp /\ UNCHANGED budget
     ELSE \/ /\ zips' = [zips EXCEPT ![job.zip].members[f] = disk[f]]
             /\ job' = [job EXCEPT !.left = @ \ {f}]
             /\ UNCHANGED budget
          \/ /\ Spend("faults")
             /\ \/ GiveUp
                \/ /\ zips' = [zips EXCEPT ![job.zip].members[f] = Spoilt(disk[f])]
                   /\ job' = [job EXCEPT !.left = @ \ {f}]
  /\ UNCHANGED <<Album, Library, Threads, History>>

CloseArchive ==
  /\ job # None /\ job.at = "write" /\ job.left = {}
  /\ zips' = [zips EXCEPT ![job.zip].whole = TRUE]
  /\ job' = [job EXCEPT !.at = "verify"]
  /\ UNCHANGED <<Album, Library, Threads, History, budget>>

\* Every member reads back, is there, and has the length that was listed.
VerifiedByName(zip) ==   \* mutant: the members' names are looked at, and nothing else
  \A f \in DOMAIN job.sizes : zip.members[f] # None
Verified(zip) ==
  \A f \in DOMAIN job.sizes :
    LET c == zip.members[f] IN c # None /\ c.made # "spoilt" /\ c.size = job.sizes[f]
Verify ==
  /\ job # None /\ job.at = "verify"
  /\ IF Verified(zips[job.zip])
     THEN job' = [job EXCEPT !.at = "remove", !.left = Folders] /\ UNCHANGED zips
     ELSE GiveUp
  /\ UNCHANGED <<Album, Library, Threads, History, budget>>

Without(gone) == [f \in Files |-> IF f \in gone THEN None ELSE disk[f]]
InDir(d) == {f \in Present : f[1] = d}
RemoveDir(d) ==
  /\ job # None /\ job.at = "remove" /\ d \in job.left
  /\ disk' = Without(InDir(d)) /\ side' = IF d = Home THEN None ELSE side
  /\ job' = [job EXCEPT !.left = @ \ {d}]
  /\ UNCHANGED <<zips, Library, Threads, History, budget>>

\* rmtree stops part way: the archive stands, and the rest of the album too.
RemoveFails(d) ==
  /\ job # None /\ job.at = "remove" /\ d \in job.left /\ Spend("faults")
  /\ \E gone \in SUBSET InDir(d) : disk' = Without(gone)
  /\ \/ UNCHANGED side
     \/ d = Home /\ side' = None
  /\ job' = None
  /\ UNCHANGED <<zips, Library, Threads, History>>

CarriedMatch ==
  LET sc == job.album.side
  IN IF sc.release = None THEN mem.carried
     ELSE [release |-> sc.release, added |-> sc.added,
           incomplete |-> Cardinality(job.album.files) < Length[sc.release]]

\* The rest of the route: out of the index, out of ignores.txt (whose rewriting
\* may fail), approved, awaited, and a sync started if none has been meanwhile.
NewSync == [at |-> "page", seeded |-> index', ignored |-> ignored', carry |-> None]
Commit ==
  /\ job # None /\ job.at = "remove" /\ job.left = {}
  /\ index' = FALSE
  /\ \/ ignored' = FALSE /\ UNCHANGED budget
     \/ ignored /\ UNCHANGED ignored /\ Spend("faults")
  /\ mem' = [card |-> TRUE, approved |-> TRUE, carried |-> CarriedMatch]
  /\ was' = CarriedMatch
  /\ job' = None
  /\ sync' = IF sync = None THEN NewSync ELSE sync
  /\ UNCHANGED <<Album, zips, seen, held>>

Remove == Commit \/ \E d \in Dirs : RemoveDir(d) \/ RemoveFails(d)
Archive == Collect \/ NoRoom \/ CloseArchive \/ Verify \/ Remove \/ \E f \in Files : WriteMember(f)

-----------------------------------------------------------------------------
(* The sync that fetches it again, and tags it.                             *)

SyncUntouched == UNCHANGED <<zips, seen, job>>

StartSync ==
  /\ sync = None
  /\ sync' = [at |-> "page", seeded |-> index, ignored |-> ignored, carry |-> None]
  /\ UNCHANGED <<Album, Library, History, budget>> /\ SyncUntouched

\* A download comes whole, or short of what the album had.
Fetch ==
  /\ sync # None /\ sync.at = "page"
  /\ ~sync.seeded /\ ~sync.ignored /\ mem.approved
  /\ AtHome = {} /\ side = None   \* an absent or an empty destination
  /\ \E got \in Downloads :
       /\ disk' = [f \in Files |-> IF f \in got THEN Download(Used("presses")) ELSE disk[f]]
       /\ held' = held \cup {<<f, Download(Used("presses"))>> : f \in {f \in got : ~Doomed(f)}}
  /\ sync' = [sync EXCEPT !.at = "landed", !.ignored = TRUE]
  /\ mem' = [mem EXCEPT !.approved = FALSE]
  /\ UNCHANGED <<side, ignored, index, was, budget>> /\ SyncUntouched

\* write_sidecar_for_item, whose failure ends the item without the callback; a
\* directory that has gone again fails it.
Land ==
  /\ sync # None /\ sync.at = "landed"
  /\ \/ /\ AtHome # {} /\ side' = [release |-> None, added |-> "new"] /\ index' = TRUE
        /\ sync' = [sync EXCEPT !.at = "resolve"] /\ UNCHANGED budget
     \/ /\ \/ AtHome = {} /\ UNCHANGED budget
           \/ AtHome # {} /\ Spend("faults")
        /\ sync' = [sync EXCEPT !.at = "end"] /\ UNCHANGED <<side, index>>
  /\ UNCHANGED <<disk, ignored, mem, History>> /\ SyncUntouched

\* The match is taken once, and the album keeps the date it was added.
Resolve ==
  /\ sync # None /\ sync.at = "resolve"
  /\ IF side = None \/ side.release # None
     THEN sync' = [sync EXCEPT !.at = "end"] /\ UNCHANGED <<mem, side>>
     ELSE /\ sync' = [sync EXCEPT !.at = IF mem.carried = None THEN "url" ELSE "carried",
                                  !.carry = mem.carried]
          /\ mem' = [mem EXCEPT !.carried = None]
          /\ side' = IF mem.carried = None THEN side ELSE [side EXCEPT !.added = mem.carried.added]
  /\ UNCHANGED <<disk, ignored, index, History, budget>> /\ SyncUntouched

\* tag_with_release refuses files that are not the release's; a copy that was
\* short when it was archived may come back short.
Taggable(carry) == Fits(carry.release) \/ (carry.incomplete /\ Short(carry.release))
TaggedAs(release) ==
  /\ side # None /\ side' = [side EXCEPT !.release = release]
  /\ was' = None
TagAsCarried ==
  /\ sync # None /\ sync.at = "carried"
  /\ \/ /\ Taggable(sync.carry) /\ TaggedAs(sync.carry.release)
        /\ sync' = [sync EXCEPT !.at = "end"] /\ UNCHANGED budget
     \/ /\ \/ ~Taggable(sync.carry) /\ UNCHANGED budget
           \/ Taggable(sync.carry) /\ Spend("faults")   \* MusicBrainz does not answer
        /\ sync' = [sync EXCEPT !.at = "url"]
        /\ UNCHANGED <<side, was>>
     \/ /\ side = None /\ sync' = [sync EXCEPT !.at = "end"]
        /\ UNCHANGED <<side, was, budget>>
  /\ UNCHANGED <<disk, Library, held>> /\ SyncUntouched

\* The ordinary resolution: one exact release of the store page is tagged, and
\* anything else waits for the user.
Exact == {r \in LinkedFrom : Fits(r)}
ResolveByUrl ==
  /\ sync # None /\ sync.at = "url"
  /\ \/ /\ Cardinality(Exact) = 1 /\ \E r \in Exact : TaggedAs(r)
     \/ /\ Cardinality(Exact) # 1 \/ side = None
        /\ UNCHANGED <<side, was>>
  /\ sync' = [sync EXCEPT !.at = "end"]
  /\ UNCHANGED <<disk, Library, held, budget>> /\ SyncUntouched

\* ignores.txt is rewritten from the copy the sync began with.
EndSync ==
  /\ sync # None /\ sync.at \in {"page", "end"}
  /\ sync' = None /\ ignored' = sync.ignored
  /\ UNCHANGED <<Album, mem, index, History, budget>> /\ SyncUntouched

SyncStep == StartSync \/ Fetch \/ Land \/ Resolve \/ TagAsCarried \/ ResolveByUrl \/ EndSync

-----------------------------------------------------------------------------
(* The inbox, the scan, the owner and the process.                          *)

\* Every render of the inbox drops the card of what is back on disk, and not the
\* match, which the tagging still needs.
PruneMatch ==   \* mutant: one entry holds the card and the match
  [mem EXCEPT !.card = FALSE, !.carried = None]
Pruned == [mem EXCEPT !.card = FALSE]
Render ==
  /\ mem.card /\ index
  /\ mem' = Pruned
  /\ UNCHANGED <<Album, zips, ignored, index, Threads, job, History, budget>>

\* The user picks a release for the album the page shows.
Confirm(release) ==
  /\ seen.there /\ side # None /\ Present # {} /\ side.release = None
  /\ TaggedAs(release)
  /\ UNCHANGED <<disk, zips, Library, Threads, job, held, budget>>

Scan ==
  /\ Reading # seen \/ index # (Present # {} /\ side # None)
  /\ seen' = Reading /\ index' = (Present # {} /\ side # None)
  /\ UNCHANGED <<Album, zips, ignored, mem, sync, job, History, budget>>

\* The owner unzips an archive where the album was; a member that fails its CRC is
\* not taken.
Unzip(n) ==
  /\ zips[n] # None /\ zips[n].whole /\ Present = {} /\ side = None
  /\ job = None /\ Spend("edits")
  /\ disk' = [f \in Files |-> LET c == zips[n].members[f]
                             IN  IF c # None /\ c.made = "spoilt" THEN None ELSE c]
  /\ side' = [release |-> Match, added |-> "first"]
  /\ UNCHANGED <<zips, Library, Threads, job, History>>

\* Another program rewrites or deletes a file.
Change(f) ==
  /\ disk[f] # None /\ Spend("edits")
  /\ \E to \in {Edit(1), Edit(2), None} :
       /\ disk' = [disk EXCEPT ![f] = to]
       /\ held' = (held \ {<<f, disk[f]>>}) \cup
                    (IF Doomed(f) \/ to = None THEN {} ELSE {<<f, to>>})
  /\ UNCHANGED <<side, zips, Library, Threads, job, was>>

\* What was in memory goes; an archive being written stays, without its directory.
Crash ==
  /\ Spend("faults")
  /\ mem' = FreshMemory /\ index' = FALSE
  /\ seen' = [there |-> FALSE, side |-> None, files |-> {}]
  /\ job' = None /\ sync' = None /\ was' = None
  /\ UNCHANGED <<Album, zips, ignored, held>>

World ==
  \/ Render \/ Scan \/ Crash
  \/ \E r \in Releases : Confirm(r)
  \/ \E n \in Names : Unzip(n)
  \/ \E f \in Files : Change(f)

Init ==
  /\ disk \in {[f \in Files |-> IF f \in files THEN Original ELSE None] : files \in Beginnings}
  /\ side = [release |-> Match, added |-> "first"]
  /\ zips = [n \in Names |-> None] /\ ignored = TRUE
  /\ mem = FreshMemory /\ index = TRUE /\ seen = Reading
  /\ job = None /\ sync = None /\ was = None
  /\ held = {<<f, Original>> : f \in Present}
  /\ budget = [presses |-> MaxPresses, edits |-> MaxEdits, faults |-> MaxFaults]

Next == Press \/ Archive \/ SyncStep \/ World

Spec == Init /\ [][Next]_vars

-----------------------------------------------------------------------------
(* Properties.                                                              *)

\* Nothing is lost: a content the album had when it was listed is on disk or in an
\* archive that opens, whatever failed, stopped or was pressed again since.
\* (archive_and_remove's order, _verify, _unique_path, _remove)
Kept(f, content) ==
  \/ disk[f] = content
  \/ \E n \in Names : zips[n] # None /\ zips[n].whole /\ zips[n].members[f] = content
NothingLost == \A h \in held : Kept(h[1], h[2])

\* The copy that comes back is tagged as the archived one was, and short only if
\* that one was; it is tagged otherwise only when that was tried first.  (Not
\* claimed of a press that overtakes the tagging of the press before it.)
\* (_tag_as_redownloaded, take_match, prune)
TaggedAsItWas ==
  [][\A r \in Releases :
       /\ was # None /\ sync # None /\ sync' # sync /\ sync.carry \in {None, was}
       /\ side # None /\ side.release # r /\ side' = [side EXCEPT !.release = r]
       => \/ r = was.release /\ (Short(r) => was.incomplete)
          \/ sync.at = "url" /\ sync.carry = was]_vars

=============================================================================

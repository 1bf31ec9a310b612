---------------------------- MODULE BandcampSync ----------------------------
(***************************************************************************)
(* A Bandcamp sync: which purchases it pages, what it decides about each,   *)
(* and what it leaves behind for the next one -- the collection checkpoint, *)
(* ignores.txt, the sidecars and the cards in the inbox -- while the user   *)
(* presses buttons and albums change beside it (bandcamp_hook.py,          *)
(* web/sync_runner.py, pending_downloads.py and the routes of web/main.py). *)
(*                                                                         *)
(* Purchases are numbered in the order they were bought, so a sync pages    *)
(* the ones above the checkpoint, highest first.  A purchase may have one   *)
(* copy the user put on disk, besides the folder a download would create.   *)
(***************************************************************************)
EXTENDS Integers, FiniteSets

CONSTANTS
  Last,        \* bound: purchases that are ever made
  Bought,      \* purchases made before the first sync
  Preorders,   \* purchases not released yet when they are made
  RootOnly,    \* copies whose sidecar knows the artist's page and no album page
  OtherPage,   \* copies tagged with another of their release's pages
  CrossListed, \* the release is on disk, linked to its purchase on another page
  Lookalikes,  \* an album on disk shares the slug on another page, by accident
  FolderOf,    \* the folder a purchase is downloaded to, by artist and title
  Occupied,    \* folders that hold files of unknown origin from the start
  Adopted,     \* purchases whose folder holds a linked copy and no marker
  Copies,      \* what the user's copy of each purchase may be at the start
  HasStray,    \* an album waits for a purchase that was never made
  Cap,         \* max_downloads_per_sync
  Modes,       \* what POST /sync asks for: "auto", "link", "full"
  Deeds,       \* what else the user and the rest of the program do
  MaxFaults    \* bound: failures, restarts, erasures and re-downloads

Purchases == 1..Last
Folders == {FolderOf[p] : p \in Purchases}
CopyStates == {"none", "orphan", "waiting", "surrendered", "linked"}
AllModes == {"auto", "link", "full"}
AllDeeds == {"skip", "approve", "match", "restore", "confirm", "reconcile",
             "erase", "redownload", "restart", "badscan", "clear"}

ASSUME PurchasesAssumption ==
  /\ Last \in Nat /\ Bought \in 0..Last
  /\ Preorders \subseteq Purchases /\ RootOnly \subseteq Purchases
  /\ CrossListed \subseteq Purchases /\ Lookalikes \subseteq Purchases
  /\ OtherPage \subseteq Purchases \ RootOnly
  /\ CrossListed \cap (Lookalikes \cup RootOnly \cup OtherPage) = {}
  /\ Purchases \subseteq DOMAIN FolderOf /\ Occupied \subseteq Folders
  /\ Adopted \subseteq 1..Bought
  /\ \A p \in Adopted : /\ FolderOf[p] \notin Occupied
                        /\ \A q \in Adopted : FolderOf[p] = FolderOf[q] => p = q

ASSUME ChoicesAssumption ==
  /\ Copies \in [Purchases -> SUBSET CopyStates] /\ HasStray \in BOOLEAN
  /\ Cap \in Nat /\ MaxFaults \in Nat
  /\ Modes \subseteq AllModes /\ Deeds \subseteq AllDeeds

VARIABLES
  bought,      \* the newest purchase
  preorder,    \* purchases Bandcamp does not serve yet
  copy,        \* the user's copy of each purchase's album
  stray,       \* the stray album is in Needs Linking
  folder,      \* download folders: whose files, the marker, the sidecar's purchase
  ignores,     \* ignores.txt: the user's region and bandcampsync's own
  checkpoint,  \* the collection checkpoint; 0 when there is none
  cards,       \* pending_downloads._pending
  approved,    \* pending_downloads._approved
  override,    \* SyncRunner.link_only_override; "auto" stands for None
  scan,        \* the scanner: "first" scan running, first scan "failed", "idle"
  index,       \* purchases whose sidecars library_index holds
  waiting,     \* Needs Linking in the scanner's snapshot; 0 is the stray album
  redo,        \* the re-download past its check; 0 when there is none
  awaited,     \* redownloads._pending: archived, and not back yet
  sync,        \* the sync thread: a Run record
  faults

disk == <<copy, stray, folder>>
memory == <<cards, approved, override>>
redownload == <<redo, awaited>>
scanner == <<scan, index, waiting>>
store == <<bought, preorder>>
vars == <<store, disk, ignores, checkpoint, memory, scanner, redownload, sync,
          faults>>

(***************************************************************************)
(* A run of the sync, with what it read when it began: its own copy of      *)
(* ignores.txt, the markers on disk and the purchases it paged.             *)
(***************************************************************************)
Run == [pc : {"idle", "started", "decided", "items", "landing", "saved", "passes"},
        linkOnly : BOOLEAN,
        floor : 0..Last,              \* the checkpoint it pages down to
        top : 0..Last,                \* the newest purchase it paged
        todo : SUBSET Purchases,      \* paged and not yet handled
        file : [user : SUBSET Purchases, auto : SUBSET Purchases],
        ignored : SUBSET Purchases,   \* the run's ignores.ids
        added : SUBSET Purchases,     \* of these, the ones it added itself
        markers : SUBSET Purchases,   \* purchases with a marker file on disk
        marked : SUBSET Folders,      \* folders with a marker file
        adopt : SUBSET Purchases,     \* _adopt_index
        at : 0..Last,                 \* the purchase being downloaded
        fetched : SUBSET Purchases,   \* downloaded; new_items is their number
        unfinished : SUBSET Purchases,
        cards : SUBSET Purchases,     \* _pending_this_run
        failed : BOOLEAN]             \* a download failed

NoRun == [pc |-> "idle", linkOnly |-> FALSE, floor |-> 0,
          top |-> 0, todo |-> {}, file |-> [user |-> {}, auto |-> {}],
          ignored |-> {}, added |-> {}, markers |-> {}, marked |-> {},
          adopt |-> {}, at |-> 0, fetched |-> {}, unfinished |-> {},
          cards |-> {}, failed |-> FALSE]

Running == sync.pc # "idle"
Paged == {p \in Purchases : sync.floor < p /\ p <= sync.top}
FullPage == sync.floor = 0           \* collection_checkpoint_token is None

SyncTypeOK ==
  /\ bought \in 0..Last
  /\ preorder \subseteq Purchases
  /\ copy \in [Purchases -> CopyStates]
  /\ stray \in BOOLEAN
  /\ folder \in [Folders -> [files : SUBSET (0..Last), marker : 0..Last,
                             owner : 0..Last]]
  /\ ignores \in [user : SUBSET Purchases, auto : SUBSET Purchases]
  /\ checkpoint \in 0..Last
  /\ cards \subseteq Purchases /\ approved \subseteq Purchases
  /\ override \in AllModes
  /\ scan \in {"first", "failed", "idle"}
  /\ index \subseteq Purchases
  /\ waiting \subseteq 0..Last
  /\ redo \in 0..Last /\ awaited \subseteq Purchases
  /\ sync \in Run
  /\ faults \in 0..MaxFaults

(***************************************************************************)
(* What the code asks about a purchase.                                     *)
(***************************************************************************)
Home(p) == folder[FolderOf[p]]
HoldsSidecar(p) == Home(p).owner = p \/ copy[p] = "linked"

\* library_index.item_ids: every purchase a sidecar in the index is linked to
ItemIds == {p \in index : HoldsSidecar(p)}

\* library_index.dir_for_url: an album in the index carries this purchase's page
KnownUrl(p) ==
  /\ p \in index
  /\ \/ HoldsSidecar(p)
     \/ copy[p] \in {"waiting", "surrendered"} /\ p \notin RootOnly \cup OtherPage

\* Albums in Needs Linking as the sidecars have it; the snapshot may be older
NeedsLinking ==
  {p \in Purchases : copy[p] = "waiting"} \cup (IF stray THEN {0} ELSE {})

\* A purchase the program has dealt with for good
Settled(p) ==
  \/ p \in ignores.user \cup ignores.auto
  \/ HoldsSidecar(p)
  \/ Home(p).marker = p

InitialCopies ==
  {c \in [Purchases -> CopyStates] :
     \A p \in Purchases : c[p] \in (IF p > Bought THEN {} ELSE Copies[p]) \cup {"none"}}

InitialFolder(f) ==
  LET owners == {p \in Adopted : FolderOf[p] = f}
  IN  [files |-> owners \cup (IF f \in Occupied THEN {0} ELSE {}), marker |-> 0,
       owner |-> IF owners = {} THEN 0 ELSE CHOOSE p \in owners : TRUE]

Init ==
  /\ bought = Bought
  /\ preorder = Preorders
  /\ copy \in InitialCopies
  /\ stray = HasStray
  /\ folder = [f \in Folders |-> InitialFolder(f)]
  /\ ignores = [user |-> {}, auto |-> {}]
  /\ checkpoint = 0
  /\ cards = {} /\ approved = {} /\ override = "auto"
  /\ scan = "first" /\ index = {} /\ waiting = {}
  /\ redo = 0 /\ awaited = {}
  /\ sync = NoRun
  /\ faults = 0

(***************************************************************************)
(* Starting a sync.                                                         *)
(***************************************************************************)
StartRun == sync' = [NoRun EXCEPT !.pc = "started"]

\* POST /sync: the override is stored before start() is asked whether it may
PostSync(mode) ==
  /\ scan # "first"
  /\ override' = mode
  /\ IF Running THEN UNCHANGED sync ELSE StartRun
  /\ UNCHANGED <<store, disk, ignores, checkpoint, cards, approved, scanner, redownload,
                 faults>>

\* The head of runner_fn: full page when albums wait, link-only or not
OnlyIfAsked == override = "link"              \* mutant: what waits is not adopted first
LinkOnlyMode == IF override = "auto" THEN waiting # {} ELSE override = "link"

Decide ==
  /\ sync.pc = "started"
  /\ sync' = [sync EXCEPT !.pc = "decided", !.linkOnly = LinkOnlyMode]
  /\ checkpoint' = IF waiting # {} \/ LinkOnlyMode THEN 0 ELSE checkpoint
  /\ override' = "auto"
  /\ UNCHANGED <<store, disk, ignores, cards, approved, scanner, redownload, faults>>

(***************************************************************************)
(* The syncer reads ignores.txt, the markers and the checkpoint, pages the  *)
(* collection, adds what the index says is on disk to what it ignores, and  *)
(* links the albums of purchases it will skip (_backfill_ignored_purchases).*)
(***************************************************************************)
Backfilled(ignored) ==
  {p \in Purchases : checkpoint < p /\ p <= bought /\ p \in ignored
                     /\ copy[p] \in {"waiting", "surrendered"}}

LinkCopies(ps) == copy' = [p \in Purchases |-> IF p \in ps THEN "linked" ELSE copy[p]]

Open ==
  /\ sync.pc = "decided"
  /\ LET ignored == ignores.user \cup ignores.auto \cup ItemIds
         backfilled == Backfilled(ignored)
     IN  /\ LinkCopies(backfilled)
         /\ index' = index \cup backfilled
         /\ sync' = [sync EXCEPT
              !.pc = "items", !.floor = checkpoint, !.top = bought,
              !.todo = (checkpoint + 1)..bought,
              !.file = ignores, !.ignored = ignored,
              !.markers = {p \in Purchases : Home(p).marker = p},
              !.marked = {f \in Folders : folder[f].marker # 0},
              !.adopt = IF sync.linkOnly
                        THEN {p \in RootOnly : copy[p] \in {"waiting", "surrendered"}
                                               /\ p \notin backfilled}
                        ELSE {}]
  /\ UNCHANGED <<store, stray, folder, ignores, checkpoint, memory, scan, waiting,
                 redownload, faults>>

(***************************************************************************)
(* sync_item, for the newest purchase left.  The cases below are its returns*)
(* in order; each one's guard is the negation of those before it.           *)
(***************************************************************************)
Considering(p) ==
  /\ sync.pc = "items"
  /\ p \in sync.todo
  /\ \A q \in sync.todo : q <= p

Approved(p) == p \in approved
Ignored(p) == p \in sync.ignored
Local(p) == p \in sync.markers \/ FolderOf[p] \in sync.marked  \* is_locally_downloaded
Preorder(p) == p \in preorder

\* Drop p from the run, keeping what the record r says
Done(p, r) == sync' = [r EXCEPT !.todo = @ \ {p}]
Ignore(r, p) == [r EXCEPT !.ignored = @ \cup {p}, !.added = @ \cup {p}]
Card(r, p) == [r EXCEPT !.cards = @ \cup {p}]
Forget(r, p) == r                             \* mutant: deferred, and not noted
Leave(r, p) == [r EXCEPT !.unfinished = @ \cup {p}]

\* Everything a purchase that changes nothing on disk leaves alone
Deciding == UNCHANGED <<store, disk, ignores, checkpoint, memory, scanner, redownload>>

\* bandcampsync's loop never hands an ignored purchase to sync_item
SkipIgnored(p) ==
  /\ Considering(p) /\ Ignored(p)
  /\ Done(p, sync)
  /\ Deciding /\ UNCHANGED faults

\* An album on disk carries this page: link it unless it is, then ignore
LinkKnown(p) ==
  /\ Considering(p) /\ ~Ignored(p) /\ KnownUrl(p)
  /\ Done(p, Ignore(sync, p))
  /\ \/ /\ LinkCopies(IF HoldsSidecar(p) THEN {} ELSE {p})
        /\ UNCHANGED faults
     \/ /\ ~HoldsSidecar(p)               \* the sidecar write failed: a warning
        /\ faults < MaxFaults /\ faults' = faults + 1
        /\ UNCHANGED copy
  /\ UNCHANGED <<store, stray, folder, ignores, checkpoint, memory, scanner, redownload>>

\* The release is on disk under another page, and MusicBrainz confirms it
SkipCrossListed(p) ==
  /\ Considering(p) /\ ~Ignored(p) /\ ~KnownUrl(p) /\ p \in CrossListed
  /\ Done(p, Ignore(sync, p))
  /\ Deciding /\ UNCHANGED faults

\* ... or the lookup fails, and it is a lookalike like any other
Unmatched(p) == Considering(p) /\ ~Ignored(p) /\ ~KnownUrl(p)

Adoptable(p) == sync.linkOnly /\ ~Approved(p) /\ p \in sync.adopt

Adopt(p) ==
  /\ Unmatched(p) /\ Adoptable(p)
  /\ copy' = [copy EXCEPT ![p] = IF @ = "none" THEN @ ELSE "linked"]
  /\ index' = index \cup {p}
  /\ Done(p, Ignore(sync, p))
  /\ UNCHANGED <<store, stray, folder, ignores, checkpoint, memory, scan, waiting,
                 redownload, faults>>

\* Shares a slug with another page's album: neither downloaded nor skipped
CardLookalike(p) ==
  /\ Unmatched(p) /\ ~Approved(p) /\ ~Adoptable(p)
  /\ \/ p \in Lookalikes /\ UNCHANGED faults
     \/ p \in CrossListed /\ faults < MaxFaults /\ faults' = faults + 1
  /\ Done(p, Card(sync, p))
  /\ Deciding

\* Past every match: link-only holds back whatever was not asked for
Fetchable(p) ==
  /\ Unmatched(p) /\ ~Adoptable(p)
  /\ p \in CrossListed \cup Lookalikes => Approved(p)

CardLinkOnly(p) ==
  /\ Fetchable(p) /\ sync.linkOnly /\ ~Approved(p)
  /\ Done(p, Card(sync, p))
  /\ Deciding /\ UNCHANGED faults

Wanted(p) == Fetchable(p) /\ (sync.linkOnly => Approved(p))
Guarded(p) == ~Preorder(p) /\ p \notin sync.markers
Owners(p) == {Home(p).marker, Home(p).owner} \ {0}

\* _can_download_to: an occupied folder is never written to
Block(p) ==
  /\ Wanted(p) /\ Guarded(p) /\ Home(p).files # {} /\ Owners(p) # {p}
  /\ Done(p, Card(Leave(sync, p), p))
  /\ Deciding /\ UNCHANGED faults

\* ... and a folder that is this purchase's own is left as it is
SkipOwned(p) ==
  /\ Wanted(p) /\ Guarded(p) /\ Home(p).files # {} /\ Owners(p) = {p}
  /\ Done(p, sync)
  /\ Deciding /\ UNCHANGED faults

\* mutant: a folder that no marker claims is free
AllowedUnmarked(p) == Wanted(p) /\ (Guarded(p) => Home(p).marker = 0)
Allowed(p) == Wanted(p) /\ (Guarded(p) => Home(p).files = {})

\* The cap: as many downloads as this sync may make
DeferCapped(p) ==
  /\ Allowed(p) /\ ~Approved(p) /\ Cardinality(sync.fetched) >= Cap
  /\ ~Preorder(p) /\ ~Local(p)
  /\ Done(p, Leave(sync, p))
  /\ Deciding /\ UNCHANGED faults

UnderCap(p) ==
  /\ Allowed(p)
  /\ Approved(p) \/ Cardinality(sync.fetched) < Cap \/ Preorder(p) \/ Local(p)

\* bandcampsync skips a pre-order; _note_preorder_deferral records that it did
DeferPreorder(p) ==
  /\ UnderCap(p) /\ Preorder(p)
  /\ Done(p, IF Local(p) THEN sync ELSE Leave(sync, p))
  /\ Deciding /\ UNCHANGED faults

SkipLocal(p) ==
  /\ UnderCap(p) /\ ~Preorder(p) /\ Local(p)
  /\ Done(p, sync)
  /\ Deciding /\ UNCHANGED faults

\* A download that fails before its files are in place: the sync goes on
FetchFails(p) ==
  /\ UnderCap(p) /\ ~Preorder(p) /\ ~Local(p)
  /\ faults < MaxFaults /\ faults' = faults + 1
  /\ Done(p, [sync EXCEPT !.failed = TRUE])
  /\ Deciding

\* The files are being moved into the folder; the marker is not there yet
Fetch(p) ==
  /\ UnderCap(p) /\ ~Preorder(p) /\ ~Local(p)
  /\ folder' = [folder EXCEPT ![FolderOf[p]].files = @ \cup {p}]
  /\ sync' = [sync EXCEPT !.pc = "landing", !.at = p]
  /\ UNCHANGED <<store, copy, stray, ignores, checkpoint, memory, scanner, redownload,
                 faults>>

\* ... then the marker, the ignore, and the sidecar (whose failure only warns)
Land ==
  /\ sync.pc = "landing"
  /\ LET p == sync.at
     IN  /\ Done(p, [Ignore(sync, p) EXCEPT !.pc = "items", !.at = 0,
                                            !.fetched = @ \cup {p}])
         /\ \/ /\ folder' = [folder EXCEPT ![FolderOf[p]].marker = p,
                                           ![FolderOf[p]].owner = p]
               /\ index' = index \cup {p}
               /\ UNCHANGED faults
            \/ /\ faults < MaxFaults /\ faults' = faults + 1
               /\ folder' = [folder EXCEPT ![FolderOf[p]].marker = p]
               /\ UNCHANGED index
  /\ UNCHANGED <<store, copy, stray, ignores, checkpoint, memory, scan, waiting,
                 redownload>>

SyncItem ==
  \/ Land
  \/ \E p \in Purchases :
       \/ SkipIgnored(p) \/ LinkKnown(p) \/ SkipCrossListed(p) \/ Adopt(p)
       \/ CardLookalike(p) \/ CardLinkOnly(p) \/ Block(p) \/ SkipOwned(p)
       \/ DeferCapped(p) \/ DeferPreorder(p) \/ SkipLocal(p)
       \/ FetchFails(p) \/ Fetch(p)

(***************************************************************************)
(* The end of the loop: the checkpoint covers finished work only, and       *)
(* ignores.txt is rewritten from the run's own copy of it.                  *)
(***************************************************************************)
Newest(ps) == CHOOSE p \in ps : \A q \in ps : q <= p
FinishedThemselves == Paged \ sync.unfinished  \* mutant: what lies below is not asked
Finished == {p \in Paged : \A q \in sync.unfinished : p < q}

SavePastNewest ==                             \* mutant: one past the newest
  checkpoint' = IF sync.linkOnly \/ sync.failed \/ Finished = {}
                THEN checkpoint ELSE sync.top + 1
SaveCheckpoint ==
  checkpoint' = IF sync.linkOnly \/ sync.failed \/ Finished = {}
                THEN checkpoint ELSE Newest(Finished)

Save ==
  /\ sync.pc = "items" /\ sync.todo = {}
  /\ SaveCheckpoint
  /\ ignores' = [sync.file EXCEPT !.auto = @ \cup sync.added]
  /\ sync' = [sync EXCEPT !.pc = "saved"]
  /\ UNCHANGED <<store, disk, memory, scanner, redownload, faults>>

\* pending_downloads.replace_all: the cards are this run's and no others
Publish ==
  /\ sync.pc = "saved"
  /\ cards' = sync.cards
  /\ sync' = [sync EXCEPT !.pc = "passes"]
  /\ UNCHANGED <<store, disk, ignores, checkpoint, approved, override, scanner, redownload,
                 faults>>

\* Link what MusicBrainz lists under a purchase's page; give up on the rest,
\* but only when the whole collection was paged
Relinkable == {p \in Paged \ RootOnly : copy[p] = "waiting"}

PassAnyway(relinked) ==                       \* mutant: full page or not
  /\ copy' = [p \in Purchases |->
       IF p \in relinked THEN "linked"
       ELSE IF copy[p] = "waiting" THEN "surrendered" ELSE copy[p]]
  /\ stray' = FALSE
  /\ index' = Purchases /\ scan' = "idle"
  /\ waiting' = {}

Pass(relinked) ==
  /\ copy' = [p \in Purchases |->
       IF p \in relinked THEN "linked"
       ELSE IF FullPage /\ copy[p] = "waiting" THEN "surrendered" ELSE copy[p]]
  /\ stray' = (stray /\ ~FullPage)
  /\ index' = Purchases /\ scan' = "idle"         \* scan_now has re-read the disk
  /\ waiting' = IF FullPage THEN {} ELSE NeedsLinking \ relinked

Passes ==
  /\ sync.pc = "passes"
  /\ \/ Pass(Relinkable) /\ UNCHANGED faults
     \/ Pass({}) /\ faults < MaxFaults /\ faults' = faults + 1  \* MusicBrainz is down
  /\ sync' = NoRun
  /\ UNCHANGED <<store, folder, ignores, checkpoint, memory, redownload>>

\* An exception ends the run before it has saved or published anything
SyncFails ==
  /\ sync.pc \in {"started", "decided", "items", "landing"}
  /\ faults < MaxFaults /\ faults' = faults + 1
  /\ sync' = NoRun
  /\ UNCHANGED <<store, disk, ignores, checkpoint, memory, scanner, redownload>>

SyncStep == Decide \/ Open \/ SyncItem \/ Save \/ Publish \/ Passes

(***************************************************************************)
(* The user, at any time.                                                   *)
(***************************************************************************)
AppendIgnore(p) ==
  ignores' = IF p \in ignores.auto THEN ignores ELSE [ignores EXCEPT !.user = @ \cup {p}]

Skip(p) ==                                    \* Don't download
  /\ "skip" \in Deeds /\ p \in cards
  /\ AppendIgnore(p)
  /\ cards' = cards \ {p}
  /\ UNCHANGED <<store, disk, checkpoint, approved, override, scanner, redownload, sync, faults>>

Approve(p) ==                                 \* Download
  /\ "approve" \in Deeds /\ p \in cards
  /\ cards' = cards \ {p}
  /\ approved' = approved \cup {p}
  /\ UNCHANGED <<store, disk, ignores, checkpoint, override, scanner, redownload, sync,
                 faults>>

Match(p) ==                                   \* Already in your library
  /\ "match" \in Deeds /\ p \in cards /\ copy[p] # "none"
  /\ copy' = [copy EXCEPT ![p] = "linked"]
  /\ index' = index \cup {p}
  /\ AppendIgnore(p)
  /\ cards' = cards \ {p}
  /\ UNCHANGED <<store, stray, folder, checkpoint, approved, override, scan, waiting,
                 redownload, sync, faults>>

Restore(p) ==                                 \* Settings: Won't download
  /\ "restore" \in Deeds /\ p \in ignores.user
  /\ ignores' = [ignores EXCEPT !.user = @ \ {p}]
  /\ UNCHANGED <<store, disk, checkpoint, memory, scanner, redownload, sync, faults>>

\* Confirming a match tags the album, so it waits for its purchase from now on;
\* the route refreshes the snapshot and claims a card for the same page
Confirm(p) ==
  /\ "confirm" \in Deeds /\ scan = "idle" /\ copy[p] = "orphan"
  /\ copy' = [copy EXCEPT ![p] = "waiting"]
  /\ index' = index \cup {p}
  /\ waiting' = waiting \cup {p}
  /\ cards' = IF p \in RootOnly \cup OtherPage THEN cards ELSE cards \ {p}
  /\ UNCHANGED <<store, stray, folder, ignores, checkpoint, approved, override, scan,
                 redownload, sync, faults>>

\* Reconcile writes the sidecar and leaves the snapshot to the scan it asks for
Reconcile(p) ==
  /\ "reconcile" \in Deeds /\ scan = "idle" /\ copy[p] = "orphan"
  /\ copy' = [copy EXCEPT ![p] = "waiting"]
  /\ index' = index \cup {p}
  /\ UNCHANGED <<store, stray, folder, ignores, checkpoint, memory, scan, waiting, redownload,
                 sync, faults>>

EraseSidecars ==
  /\ "erase" \in Deeds
  /\ faults < MaxFaults /\ faults' = faults + 1
  /\ copy' = [p \in Purchases |-> IF copy[p] = "none" THEN "none" ELSE "orphan"]
  /\ stray' = FALSE
  /\ folder' = [f \in Folders |-> [folder[f] EXCEPT !.owner = 0]]
  /\ checkpoint' = 0
  /\ index' = {} /\ waiting' = {}
  /\ UNCHANGED <<store, ignores, memory, scan, redownload, sync>>

\* Re-download: the check that no sync runs, and everything that follows it
RedoBegin(p) ==
  /\ "redownload" \in Deeds /\ redo = 0 /\ ~Running /\ HoldsSidecar(p)
  /\ faults < MaxFaults /\ faults' = faults + 1
  /\ redo' = p
  /\ UNCHANGED <<store, disk, ignores, checkpoint, memory, awaited, scanner, sync>>

Unignored(p) == [user |-> ignores.user \ {p}, auto |-> ignores.auto \ {p}]

RedoCommit ==
  /\ redo # 0
  /\ copy' = [copy EXCEPT ![redo] = IF @ = "linked" THEN "none" ELSE @]
  /\ folder' = IF Home(redo).owner = redo
               THEN [folder EXCEPT ![FolderOf[redo]] = [files |-> {}, marker |-> 0, owner |-> 0]]
               ELSE folder
  /\ index' = index \ {redo}
  /\ ignores' = Unignored(redo)
  /\ cards' = cards \ {redo} /\ approved' = approved \cup {redo}
  /\ checkpoint' = 0
  /\ redo' = 0 /\ awaited' = awaited \cup {redo}
  /\ IF Running THEN UNCHANGED sync ELSE StartRun
  /\ UNCHANGED <<store, stray, override, scan, waiting, faults>>

\* Every render of the inbox drops the cards of what is back on disk
Prune ==
  /\ awaited \cap ItemIds # {}
  /\ awaited' = awaited \ ItemIds
  /\ UNCHANGED <<store, disk, ignores, checkpoint, memory, scanner, redo, sync, faults>>

\* The owner moves a folder that blocks a download out of its way
ClearFolder(f) ==
  /\ "clear" \in Deeds /\ folder[f].files # {}
  /\ folder[f].marker = 0 /\ folder[f].owner = 0
  /\ ~(sync.pc = "landing" /\ FolderOf[sync.at] = f)
  /\ folder' = [folder EXCEPT ![f].files = {}]
  /\ UNCHANGED <<store, copy, stray, ignores, checkpoint, memory, scanner, redownload, sync,
                 faults>>

(***************************************************************************)
(* Bandcamp, the scanner, and the process itself.                           *)
(***************************************************************************)
Buy ==
  /\ bought < Last
  /\ bought' = bought + 1
  /\ UNCHANGED <<preorder, disk, ignores, checkpoint, memory, scanner, redownload, sync,
                 faults>>

Release(p) ==
  /\ p \in preorder
  /\ preorder' = preorder \ {p}
  /\ UNCHANGED <<bought, disk, ignores, checkpoint, memory, scanner, redownload, sync,
                 faults>>

Rescan ==
  /\ scan' = "idle"
  /\ index' = Purchases
  /\ waiting' = NeedsLinking
  /\ UNCHANGED <<store, disk, ignores, checkpoint, memory, redownload, sync, faults>>

FirstScanFails ==
  /\ "badscan" \in Deeds /\ scan = "first"
  /\ scan' = "failed"
  /\ UNCHANGED <<store, disk, ignores, checkpoint, memory, index, waiting, redownload, sync,
                 faults>>

Restart ==
  /\ "restart" \in Deeds
  /\ faults < MaxFaults /\ faults' = faults + 1
  /\ cards' = {} /\ approved' = {} /\ override' = "auto"
  /\ scan' = "first" /\ index' = {} /\ waiting' = {}
  /\ redo' = 0 /\ awaited' = {} /\ sync' = NoRun
  /\ UNCHANGED <<store, disk, ignores, checkpoint>>

User ==
  \/ \E mode \in Modes : PostSync(mode)
  \/ \E p \in Purchases : Skip(p) \/ Approve(p) \/ Match(p) \/ Restore(p) \/ Confirm(p)
                          \/ Reconcile(p) \/ RedoBegin(p)
  \/ \E f \in Folders : ClearFolder(f)
  \/ EraseSidecars

World ==
  \/ Buy \/ \E p \in Purchases : Release(p)
  \/ Rescan \/ FirstScanFails \/ Restart

Next == SyncStep \/ SyncFails \/ RedoCommit \/ Prune \/ User \/ World

Spec == Init /\ [][Next]_vars

(***************************************************************************)
(* A started sync goes on until it ends: it has a thread of its own.        *)
(* Nothing else is obliged to happen; whether the user keeps syncing is     *)
(* part of the property that needs it.                                      *)
(***************************************************************************)
Fairness == WF_vars(SyncStep)
LiveSpec == Spec /\ Fairness

(***************************************************************************)
(* Properties.                                                              *)
(***************************************************************************)
InFlight(p) == Home(p)'.files # Home(p).files /\ p \in Home(p)'.files   \* p's download

Plain == Purchases \ (Lookalikes \cup CrossListed)

\* A purchase at or below the checkpoint is never paged by an incremental sync
\* again, so it must be one the program is through with: on disk, marked as
\* downloaded there, or in ignores.txt.  Whatever was deferred, blocked, failed
\* or not released holds the checkpoint back.  (_save_collection_checkpoint)
\* A resemblance to another page's album is not among these: see CardsFound.
NothingBuried ==
  \A p \in Plain : p <= checkpoint => Settled(p)

(***************************************************************************)
(* The invariant that NothingBuried rests on.  It speaks of runs that page  *)
(* and decide: what such a run has read still holds, and whatever it has    *)
(* let go of is either unfinished or dealt with in a way that its own copy  *)
(* of ignores.txt will not lose.                                            *)
(***************************************************************************)
Choosing == sync.pc \in {"items", "landing"}

Kept(p) ==
  \/ p \in sync.file.user \cup sync.file.auto \cup sync.added
  \/ HoldsSidecar(p)
  \/ Home(p).marker = p

FoldersInv ==
  \A f \in Folders :
    /\ folder[f].marker # 0 \/ folder[f].owner # 0 => folder[f].files # {}
    /\ folder[f].marker # 0 => FolderOf[folder[f].marker] = f

RunInv ==
  Choosing =>
    /\ sync.floor = checkpoint
    /\ \A p \in Plain : p <= checkpoint => Kept(p)
    /\ \A p \in sync.ignored : Kept(p)
    /\ \A p \in sync.markers : Home(p).marker = p
    /\ \A f \in sync.marked : folder[f].marker # 0
    /\ \/ sync.linkOnly \/ sync.failed
       \/ \A p \in Plain \cap Paged : p \in sync.todo \cup sync.unfinished \/ Kept(p)

LandingInv ==
  sync.pc = "landing" =>
    /\ sync.at \in sync.todo
    /\ Home(sync.at).files # {} /\ Home(sync.at).marker = 0 /\ Home(sync.at).owner = 0

\* NothingBuried, strengthened until every step preserves it: folders bear their
\* own purchase's marker, and a run forgets nothing.  (sync_items, sync_item)
BuriedInv ==
  /\ NothingBuried
  /\ FoldersInv /\ RunInv /\ LandingInv
  /\ redo = 0 /\ preorder \subseteq Preorders

\* Files of two purchases, or of a purchase and of anyone else, never share a
\* folder, whatever fails or restarts between the files, the marker and the
\* sidecar of a download.  (_can_download_to)
NeverMixed == \A f \in Folders : Cardinality(folder[f].files) <= 1

\* A purchase is not downloaded beside a copy of it that is linked or waits in
\* Needs Linking, unless the user pressed Download for it.  (runner_fn: "so we
\* never re-download a copy of an album already on disk")
NoCopyRefetched ==
  [][\A p \in Purchases :
       InFlight(p) /\ p \notin approved => copy[p] \notin {"waiting", "linked"}]_vars

\* An album whose purchase was made before the sync paged the collection is not
\* given up on.  (runner_fn: "only then is 'no matching purchase' conclusive
\* enough to surrender an album")
SurrenderConclusive ==
  [][\A p \in Purchases :
       copy[p] = "waiting" /\ copy'[p] = "surrendered" => p > sync.top]_vars

\* A purchase a sync could not match is either still in the inbox or paged
\* again by the next sync.  (storage.md: "The next sync finds them again")
CardsFound ==
  ~Running => \A p \in Purchases : p <= checkpoint => Settled(p) \/ p \in cards

\* A purchase taken off the Won't download list is one the next sync pages.
\* (ignored_restore: "so the next sync considers it again")
RestoredConsidered ==
  [][\A p \in Purchases :
       p \in ignores.user /\ p \notin ignores'.user /\ ~Running /\ UNCHANGED sync
         => p > checkpoint' \/ HoldsSidecar(p)]_vars

\* While an archived album is awaited and no sync runs, the next sync can fetch
\* it: its purchase is paged and not ignored.  (redownload: "the archive stands
\* and the purchase is un-ignored, so the *next* sync fetches it")
ReplacementReachable ==
  ~Running => \A p \in awaited : \/ HoldsSidecar(p) \/ Home(p).marker = p
                                 \/ p > checkpoint /\ p \notin ignores.user \cup ignores.auto

\* As long as syncs keep being run to their end, every purchase that is released
\* is in time downloaded, linked or ignored, or shown in the inbox: neither the
\* cap, nor link-only runs, nor failures, nor a held checkpoint starve one.
EveryPurchaseSettles ==
  \A p \in Purchases :
    []<>(sync.pc = "passes") /\ <>[](p <= bought /\ p \notin preorder)
      => <>[]Settled(p) \/ []<>(p \in cards)

=============================================================================

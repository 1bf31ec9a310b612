------------------------- MODULE BandcampSyncProofs -------------------------
(***************************************************************************)
(* Theorems about BandcampSync, for every number of purchases, every        *)
(* assignment of folders and every set of things the user may do.           *)
(***************************************************************************)
EXTENDS BandcampSync, FiniteSetTheorems, WellFoundedInduction, TLAPS

(***************************************************************************)
(* Types.                                                                   *)
(***************************************************************************)
FolderType == [files : SUBSET (0..Last), marker : 0..Last, owner : 0..Last]

LEMMA Numbers ==
  /\ Last \in Nat /\ Purchases \subseteq 0..Last /\ 0 \in 0..Last
  /\ \A p \in Purchases : p # 0 /\ FolderOf[p] \in Folders
  BY PurchasesAssumption DEF Purchases, Folders

LEMMA NoRunType == NoRun \in Run
  BY PurchasesAssumption DEF NoRun, Run, AllModes, Purchases, Folders

LEMMA InitialFolderType ==
  ASSUME NEW f \in Folders
  PROVE  InitialFolder(f) \in FolderType
<1> DEFINE owners == {p \in Adopted : FolderOf[p] = f}
           owner == IF owners = {} THEN 0 ELSE CHOOSE p \in owners : TRUE
           files == owners \cup (IF f \in Occupied THEN {0} ELSE {})
<1>1. owners \subseteq 0..Last
  <2> SUFFICES ASSUME NEW q \in Adopted PROVE q \in 0..Last
    OBVIOUS
  <2> QED BY PurchasesAssumption
<1>2. owner \in 0..Last
  <2>1. CASE owners = {}
    BY <2>1, PurchasesAssumption
  <2>2. CASE owners # {}
    <3>1. (CHOOSE p \in owners : TRUE) \in owners
      BY <2>2
    <3> QED BY <3>1, <2>2, <1>1
  <2> QED BY <2>1, <2>2
<1>3. files \in SUBSET (0..Last)
  BY <1>1, PurchasesAssumption
<1>4. InitialFolder(f) = [files |-> files, marker |-> 0, owner |-> owner]
  BY DEF InitialFolder
<1> HIDE DEF owners, owner, files
<1> QED BY <1>2, <1>3, <1>4, PurchasesAssumption DEF FolderType

LEMMA InitTypes == Init => SyncTypeOK
<1> SUFFICES ASSUME Init PROVE SyncTypeOK
  OBVIOUS
<1>1. folder \in [Folders -> FolderType]
  BY InitialFolderType DEF Init
<1>2. sync \in Run
  BY NoRunType DEF Init
<1>3. copy \in [Purchases -> CopyStates]
  BY DEF Init, InitialCopies
<1> QED
  BY <1>1, <1>2, <1>3, PurchasesAssumption, ChoicesAssumption
  DEF Init, SyncTypeOK, FolderType, Purchases, AllModes

(***************************************************************************)
(* The run's record, field by field.                                        *)
(***************************************************************************)
LEMMA HandledType ==
  ASSUME sync \in Run, NEW p \in Purchases
  PROVE  /\ Ignore(sync, p) \in Run
         /\ Card(sync, p) \in Run
         /\ Leave(sync, p) \in Run
         /\ Card(Leave(sync, p), p) \in Run
         /\ [sync EXCEPT !.failed = TRUE] \in Run
  BY DEF Run, Ignore, Card, Leave

LEMMA DoneType ==
  ASSUME NEW r \in Run, NEW p, Done(p, r)
  PROVE  sync' \in Run
  BY DEF Done, Run

LEMMA DecidingTypes ==
  ASSUME SyncTypeOK, Deciding, sync' \in Run, faults' \in 0..MaxFaults
  PROVE  SyncTypeOK'
  BY DEF Deciding, SyncTypeOK, store, disk, memory, scanner, redownload

LEMMA FaultType ==
  ASSUME SyncTypeOK, (faults < MaxFaults /\ faults' = faults + 1) \/ UNCHANGED faults
  PROVE  faults' \in 0..MaxFaults
  BY ChoicesAssumption DEF SyncTypeOK

\* The returns of sync_item that leave the disk alone
Returns(p) ==
  \/ SkipIgnored(p) \/ SkipCrossListed(p) \/ CardLookalike(p) \/ CardLinkOnly(p)
  \/ Block(p) \/ SkipOwned(p) \/ DeferCapped(p) \/ DeferPreorder(p) \/ SkipLocal(p)
  \/ FetchFails(p)

LEMMA ReturnsConsider ==
  ASSUME NEW p \in Purchases, Returns(p) \/ LinkKnown(p) \/ Adopt(p) \/ Fetch(p)
  PROVE  Considering(p)
  BY DEF Returns, SkipIgnored, SkipCrossListed, CardLookalike, CardLinkOnly, Block, SkipOwned,
         DeferCapped, DeferPreorder, SkipLocal, FetchFails, LinkKnown, Adopt, Fetch, UnderCap,
         Allowed, Wanted, Fetchable, Unmatched

LEMMA ReturnTypes ==
  ASSUME SyncTypeOK, NEW p \in Purchases, Returns(p)
  PROVE  SyncTypeOK'
<1>1. sync \in Run
  BY DEF SyncTypeOK
<1>2. Deciding
  BY DEF Returns, SkipIgnored, SkipCrossListed, CardLookalike, CardLinkOnly, Block, SkipOwned,
         DeferCapped, DeferPreorder, SkipLocal, FetchFails
<1>3. faults' \in 0..MaxFaults
  <2>1. (faults < MaxFaults /\ faults' = faults + 1) \/ UNCHANGED faults
    BY DEF Returns, SkipIgnored, SkipCrossListed, CardLookalike, CardLinkOnly, Block, SkipOwned,
           DeferCapped, DeferPreorder, SkipLocal, FetchFails
  <2> QED BY <2>1, FaultType
<1>4. \E r \in Run : Done(p, r)
  <2>1. \/ Done(p, sync)
        \/ Done(p, Ignore(sync, p))
        \/ Done(p, Card(sync, p))
        \/ Done(p, Card(Leave(sync, p), p))
        \/ Done(p, Leave(sync, p))
        \/ Done(p, [sync EXCEPT !.failed = TRUE])
    BY DEF Returns, SkipIgnored, SkipCrossListed, CardLookalike, CardLinkOnly, Block, SkipOwned,
           DeferCapped, DeferPreorder, SkipLocal, FetchFails
  <2> QED BY <1>1, <2>1, HandledType
<1>5. sync' \in Run
  BY <1>4, DoneType
<1> QED BY <1>2, <1>3, <1>5, DecidingTypes

LEMMA LinkedTypes ==
  ASSUME SyncTypeOK, NEW ps, LinkCopies(ps)
  PROVE  copy' \in [Purchases -> CopyStates]
  BY DEF SyncTypeOK, LinkCopies, CopyStates

LEMMA LinkKnownTypes ==
  ASSUME SyncTypeOK, NEW p \in Purchases, LinkKnown(p)
  PROVE  SyncTypeOK'
<1>1. sync' \in Run
  BY HandledType, DoneType DEF LinkKnown, SyncTypeOK
<1>2. copy' \in [Purchases -> CopyStates]
  BY LinkedTypes DEF LinkKnown, SyncTypeOK
<1>3. faults' \in 0..MaxFaults
  BY FaultType DEF LinkKnown
<1> QED
  BY <1>1, <1>2, <1>3 DEF LinkKnown, SyncTypeOK, store, memory, scanner, redownload

LEMMA AdoptTypes ==
  ASSUME SyncTypeOK, NEW p \in Purchases, Adopt(p)
  PROVE  SyncTypeOK'
<1>1. sync' \in Run
  BY HandledType, DoneType DEF Adopt, SyncTypeOK
<1>2. copy' \in [Purchases -> CopyStates]
  BY DEF Adopt, SyncTypeOK, CopyStates
<1> QED
  BY <1>1, <1>2 DEF Adopt, SyncTypeOK, store, memory, redownload

LEMMA FetchTypes ==
  ASSUME SyncTypeOK, NEW p \in Purchases, Fetch(p)
  PROVE  SyncTypeOK'
<1>1. sync' \in Run
  BY Numbers DEF Fetch, SyncTypeOK, Run
<1>2. folder' \in [Folders -> FolderType]
  BY Numbers DEF Fetch, SyncTypeOK, FolderType
<1> QED
  BY <1>1, <1>2 DEF Fetch, SyncTypeOK, FolderType, store, memory, scanner, redownload

LEMMA LandTypes ==
  ASSUME SyncTypeOK, Land, sync.at \in Purchases
  PROVE  SyncTypeOK'
<1>1. sync' \in Run
  <2> DEFINE r == [Ignore(sync, sync.at) EXCEPT !.pc = "items", !.at = 0,
                                               !.fetched = @ \cup {sync.at}]
  <2>1. r \in Run
    BY Numbers DEF SyncTypeOK, Run, Ignore
  <2>2. Done(sync.at, r)
    BY DEF Land
  <2> HIDE DEF r
  <2> QED BY <2>1, <2>2, DoneType
<1>2. folder' \in [Folders -> FolderType]
  BY Numbers DEF Land, SyncTypeOK, FolderType
<1>3. faults' \in 0..MaxFaults /\ index' \subseteq Purchases
  BY FaultType DEF Land, SyncTypeOK
<1> QED
  BY <1>1, <1>2, <1>3 DEF Land, SyncTypeOK, FolderType, store, memory, scanner, redownload

\* A nonempty set of bounded numbers has a greatest one: the gap to the bound
\* is least there.
LEMMA HasNewest ==
  ASSUME NEW N \in Nat, NEW ps \in SUBSET (0..N), ps # {}
  PROVE  \E p \in ps : \A q \in ps : q <= p
<1> DEFINE gaps == {N - p : p \in ps}
<1>1. gaps \subseteq Nat /\ gaps # {}
  <2>1. \A p \in ps : N - p \in Nat
    OBVIOUS
  <2>2. gaps \subseteq Nat
    BY <2>1
  <2> QED BY <2>2
<1>2. PICK g \in gaps : \A h \in gaps : ~ (<<h, g>> \in OpToRel(<, Nat))
  <2> HIDE DEF gaps
  <2> QED BY <1>1, NatLessThanWellFounded, WFMin
<1>3. \A h \in gaps : g <= h
  <2> SUFFICES ASSUME NEW h \in gaps, ~(g <= h) PROVE FALSE
    OBVIOUS
  <2>1. h < g /\ <<h, g>> \in Nat \X Nat
    BY <1>1
  <2>2. <<h, g>> \in OpToRel(<, Nat)
    BY <2>1 DEF OpToRel
  <2> QED BY <1>2, <2>2
<1>4. PICK p \in ps : g = N - p
  OBVIOUS
<1>5. ASSUME NEW q \in ps PROVE q <= p
  <2>1. g <= N - q
    BY <1>3
  <2> HIDE DEF gaps
  <2>2. p \in 0..N /\ q \in 0..N
    BY <1>4, <1>5
  <2> QED BY <1>4, <2>1, <2>2
<1> QED BY <1>5

LEMMA NewestIsOne ==
  ASSUME NEW ps \in SUBSET Purchases, ps # {}
  PROVE  Newest(ps) \in ps /\ \A q \in ps : q <= Newest(ps)
<1>1. \E p \in ps : \A q \in ps : q <= p
  <2>1. ps \in SUBSET (0..Last)
    BY Numbers
  <2> QED BY <2>1, Numbers, HasNewest
<1> QED BY <1>1 DEF Newest

LEMMA StartTypes ==
  ASSUME SyncTypeOK, StartRun
  PROVE  sync' \in Run
  BY NoRunType DEF StartRun, Run

LEMMA PostSyncTypes ==
  ASSUME SyncTypeOK, NEW mode \in Modes, PostSync(mode)
  PROVE  SyncTypeOK'
<1>1. sync' \in Run
  BY StartTypes DEF PostSync, SyncTypeOK
<1>2. override' \in AllModes
  BY ChoicesAssumption DEF PostSync
<1> QED
  BY <1>1, <1>2 DEF PostSync, SyncTypeOK, store, disk, scanner, redownload

LEMMA DecideTypes ==
  ASSUME SyncTypeOK, Decide
  PROVE  SyncTypeOK'
<1>1. LinkOnlyMode \in BOOLEAN
  BY DEF LinkOnlyMode
<1>2. sync' \in Run
  BY <1>1 DEF Decide, SyncTypeOK, Run
<1>3. checkpoint' \in 0..Last
  BY Numbers DEF Decide, SyncTypeOK
<1> QED
  BY <1>2, <1>3 DEF Decide, SyncTypeOK, AllModes, store, disk, scanner, redownload

LEMMA OpenTypes ==
  ASSUME SyncTypeOK, Open
  PROVE  SyncTypeOK'
<1> DEFINE ignored == ignores.user \cup ignores.auto \cup ItemIds
           backfilled == Backfilled(ignored)
           markers == {p \in Purchases : Home(p).marker = p}
           marked == {f \in Folders : folder[f].marker # 0}
           adopt == IF sync.linkOnly
                    THEN {p \in RootOnly : copy[p] \in {"waiting", "surrendered"}
                                            /\ p \notin backfilled}
                    ELSE {}
           todo == (checkpoint + 1)..bought
<1>1. ignored \subseteq Purchases /\ backfilled \subseteq Purchases
  BY DEF SyncTypeOK, ItemIds, Backfilled
<1>2. markers \subseteq Purchases /\ marked \subseteq Folders
  OBVIOUS
<1>3. adopt \subseteq Purchases
  BY PurchasesAssumption
<1>4. todo \subseteq Purchases
  BY Numbers DEF SyncTypeOK, Purchases
<1>5. sync' = [sync EXCEPT !.pc = "items", !.floor = checkpoint, !.top = bought,
              !.todo = todo, !.file = ignores, !.ignored = ignored,
              !.markers = markers, !.marked = marked, !.adopt = adopt]
  BY DEF Open
<1>6. LinkCopies(backfilled) /\ index' = index \cup backfilled
  BY DEF Open
<1> HIDE DEF ignored, backfilled, markers, marked, adopt, todo
<1>7. sync' \in Run
  BY <1>1, <1>2, <1>3, <1>4, <1>5 DEF SyncTypeOK, Run
<1>8. copy' \in [Purchases -> CopyStates] /\ index' \subseteq Purchases
  BY <1>1, <1>6, LinkedTypes DEF SyncTypeOK
<1> QED
  BY <1>7, <1>8 DEF Open, SyncTypeOK, store, memory, redownload

LEMMA SaveTypes ==
  ASSUME SyncTypeOK, Save
  PROVE  SyncTypeOK'
<1>1. sync' \in Run
  BY DEF Save, SyncTypeOK, Run
<1>2. ignores' \in [user : SUBSET Purchases, auto : SUBSET Purchases]
  BY DEF Save, SyncTypeOK, Run
<1>3. checkpoint' \in 0..Last
  <2>1. CASE Finished = {}
    BY <2>1 DEF Save, SaveCheckpoint, SyncTypeOK
  <2>2. CASE Finished # {}
    <3>1. Finished \in SUBSET Purchases
      BY DEF Finished, Paged
    <3>2. Newest(Finished) \in Finished
      BY <2>2, <3>1, NewestIsOne
    <3> QED BY <3>1, <3>2, Numbers DEF Save, SaveCheckpoint, SyncTypeOK
  <2> QED BY <2>1, <2>2
<1> QED
  BY <1>1, <1>2, <1>3 DEF Save, SyncTypeOK, store, disk, memory, scanner, redownload

LEMMA PublishTypes ==
  ASSUME SyncTypeOK, Publish
  PROVE  SyncTypeOK'
<1>1. sync' \in Run /\ cards' \subseteq Purchases
  BY DEF Publish, SyncTypeOK, Run
<1> QED
  BY <1>1 DEF Publish, SyncTypeOK, store, disk, scanner, redownload

LEMMA PassesTypes ==
  ASSUME SyncTypeOK, Passes
  PROVE  SyncTypeOK'
<1>1. PICK relinked : Pass(relinked)
  BY DEF Passes
<1>2. copy' \in [Purchases -> CopyStates]
  BY <1>1 DEF Pass, SyncTypeOK, CopyStates
<1>3. index' \subseteq Purchases /\ scan' = "idle" /\ stray' \in BOOLEAN
  BY <1>1 DEF Pass, SyncTypeOK
<1>4. waiting' \subseteq 0..Last
  BY <1>1, Numbers DEF Pass, NeedsLinking
<1>5. faults' \in 0..MaxFaults
  BY FaultType DEF Passes
<1>6. sync' \in Run
  BY NoRunType DEF Passes
<1> QED
  BY <1>2, <1>3, <1>4, <1>5, <1>6 DEF Passes, SyncTypeOK, store, memory, redownload

LEMMA SyncFailsTypes ==
  ASSUME SyncTypeOK, SyncFails
  PROVE  SyncTypeOK'
  BY NoRunType, FaultType
  DEF SyncFails, SyncTypeOK, store, disk, memory, scanner, redownload

LEMMA IgnoredTypes ==
  ASSUME SyncTypeOK, NEW p \in Purchases, AppendIgnore(p)
  PROVE  ignores' \in [user : SUBSET Purchases, auto : SUBSET Purchases]
  BY DEF AppendIgnore, SyncTypeOK

LEMMA InboxTypes ==
  ASSUME SyncTypeOK, NEW p \in Purchases, Skip(p) \/ Approve(p) \/ Match(p) \/ Restore(p)
  PROVE  SyncTypeOK'
<1>1. CASE Skip(p)
  <2>1. ignores' \in [user : SUBSET Purchases, auto : SUBSET Purchases]
    BY <1>1, IgnoredTypes DEF Skip
  <2> QED BY <1>1, <2>1 DEF Skip, SyncTypeOK, store, disk, scanner, redownload
<1>2. CASE Approve(p)
  BY <1>2 DEF Approve, SyncTypeOK, store, disk, scanner, redownload
<1>3. CASE Match(p)
  <2>1. ignores' \in [user : SUBSET Purchases, auto : SUBSET Purchases]
    BY <1>3, IgnoredTypes DEF Match
  <2>2. copy' \in [Purchases -> CopyStates]
    BY <1>3 DEF Match, SyncTypeOK, CopyStates
  <2> QED BY <1>3, <2>1, <2>2 DEF Match, SyncTypeOK, store, redownload
<1>4. CASE Restore(p)
  BY <1>4 DEF Restore, SyncTypeOK, store, disk, memory, scanner, redownload
<1> QED BY <1>1, <1>2, <1>3, <1>4

LEMMA AlbumTypes ==
  ASSUME SyncTypeOK, NEW p \in Purchases, Confirm(p) \/ Reconcile(p)
  PROVE  SyncTypeOK'
<1>1. copy' \in [Purchases -> CopyStates]
  BY DEF Confirm, Reconcile, SyncTypeOK, CopyStates
<1>2. index' \subseteq Purchases /\ waiting' \subseteq 0..Last /\ cards' \subseteq Purchases
  BY Numbers DEF Confirm, Reconcile, SyncTypeOK, memory
<1> QED
  BY <1>1, <1>2 DEF Confirm, Reconcile, SyncTypeOK, store, memory, redownload

LEMMA EraseTypes ==
  ASSUME SyncTypeOK, EraseSidecars
  PROVE  SyncTypeOK'
<1>1. copy' \in [Purchases -> CopyStates]
  BY DEF EraseSidecars, SyncTypeOK, CopyStates
<1>2. folder' \in [Folders -> FolderType]
  BY Numbers DEF EraseSidecars, SyncTypeOK, FolderType
<1>3. faults' \in 0..MaxFaults
  BY FaultType DEF EraseSidecars
<1> QED
  BY <1>1, <1>2, <1>3, Numbers
  DEF EraseSidecars, SyncTypeOK, FolderType, store, memory, redownload

LEMMA RedoTypes ==
  ASSUME SyncTypeOK, RedoCommit \/ \E p \in Purchases : RedoBegin(p)
  PROVE  SyncTypeOK'
<1>1. CASE \E p \in Purchases : RedoBegin(p)
  <2>1. faults' \in 0..MaxFaults
    BY <1>1, FaultType DEF RedoBegin
  <2> QED
    BY <1>1, <2>1, Numbers
    DEF RedoBegin, SyncTypeOK, store, disk, memory, scanner
<1>2. CASE RedoCommit
  <2>1. redo \in Purchases
    BY <1>2, PurchasesAssumption DEF RedoCommit, SyncTypeOK, Purchases
  <2>2. copy' \in [Purchases -> CopyStates]
    BY <1>2, <2>1 DEF RedoCommit, SyncTypeOK, CopyStates
  <2>3. folder' \in [Folders -> FolderType]
    BY <1>2, <2>1, Numbers DEF RedoCommit, SyncTypeOK, FolderType
  <2>4. ignores' \in [user : SUBSET Purchases, auto : SUBSET Purchases]
    BY <1>2 DEF RedoCommit, Unignored, SyncTypeOK
  <2>5. sync' \in Run
    BY <1>2, StartTypes DEF RedoCommit, SyncTypeOK
  <2> QED
    BY <1>2, <2>1, <2>2, <2>3, <2>4, <2>5, Numbers
    DEF RedoCommit, SyncTypeOK, FolderType, store
<1> QED BY <1>1, <1>2

LEMMA OtherTypes ==
  ASSUME SyncTypeOK,
         Prune \/ Buy \/ Rescan \/ FirstScanFails \/ (\E p \in Purchases : Release(p))
  PROVE  SyncTypeOK'
<1>1. CASE Prune
  BY <1>1 DEF Prune, SyncTypeOK, store, disk, memory, scanner
<1>2. CASE Buy
  BY <1>2, Numbers DEF Buy, SyncTypeOK, disk, memory, scanner, redownload
<1>3. CASE Rescan
  <2>1. waiting' \subseteq 0..Last
    BY <1>3, Numbers DEF Rescan, NeedsLinking
  <2> QED BY <1>3, <2>1 DEF Rescan, SyncTypeOK, store, disk, memory, redownload
<1>4. CASE FirstScanFails
  BY <1>4 DEF FirstScanFails, SyncTypeOK, store, disk, memory, redownload
<1>5. CASE \E p \in Purchases : Release(p)
  BY <1>5 DEF Release, SyncTypeOK, disk, memory, scanner, redownload
<1> QED BY <1>1, <1>2, <1>3, <1>4, <1>5

LEMMA ClearTypes ==
  ASSUME SyncTypeOK, NEW f \in Folders, ClearFolder(f)
  PROVE  SyncTypeOK'
<1>1. folder' \in [Folders -> FolderType]
  BY DEF ClearFolder, SyncTypeOK, FolderType
<1> QED
  BY <1>1
  DEF ClearFolder, SyncTypeOK, FolderType, store, memory, scanner, redownload

LEMMA RestartTypes ==
  ASSUME SyncTypeOK, Restart
  PROVE  SyncTypeOK'
<1>1. faults' \in 0..MaxFaults
  BY FaultType DEF Restart
<1> QED
  BY <1>1, NoRunType, Numbers DEF Restart, SyncTypeOK, AllModes, store, disk

(***************************************************************************)
(* Type correctness.  The purchase a run is downloading is one.             *)
(***************************************************************************)
LandsOne == sync.pc = "landing" => sync.at \in Purchases
TypeInv == SyncTypeOK /\ LandsOne

LEMMA InitTypeInv == Init => TypeInv
  BY InitTypes DEF Init, TypeInv, LandsOne, NoRun

LEMMA StepTypes ==
  ASSUME TypeInv, Next
  PROVE  SyncTypeOK'
<1>1. SyncTypeOK
  BY DEF TypeInv
<1>2. CASE Decide \/ Open \/ Save \/ Publish \/ Passes \/ SyncFails
  BY <1>1, <1>2, DecideTypes, OpenTypes, SaveTypes, PublishTypes, PassesTypes, SyncFailsTypes
<1>3. CASE SyncItem
  <2>1. CASE Land
    BY <1>1, <2>1, LandTypes DEF TypeInv, LandsOne, Land
  <2>2. CASE \E p \in Purchases : Returns(p)
    BY <1>1, <2>2, ReturnTypes
  <2>3. CASE \E p \in Purchases : LinkKnown(p) \/ Adopt(p) \/ Fetch(p)
    BY <1>1, <2>3, LinkKnownTypes, AdoptTypes, FetchTypes
  <2> QED BY <1>3, <2>1, <2>2, <2>3 DEF SyncItem, Returns
<1>4. CASE RedoCommit \/ Prune
  BY <1>1, <1>4, RedoTypes, OtherTypes
<1>5. CASE User
  BY <1>1, <1>5, PostSyncTypes, InboxTypes, AlbumTypes, RedoTypes, ClearTypes, EraseTypes
  DEF User
<1>6. CASE World
  BY <1>1, <1>6, OtherTypes, RestartTypes DEF World
<1> QED BY <1>2, <1>3, <1>4, <1>5, <1>6 DEF Next, SyncStep

\* Only a download leads to "landing", and nothing moves it while it lasts
LEMMA StepLandsOne ==
  ASSUME TypeInv, Next
  PROVE  LandsOne'
<1>1. \/ UNCHANGED sync
      \/ sync'.pc # "landing"
      \/ \E p \in Purchases : sync'.at = p
  <2>1. CASE SyncItem
    <3>1. CASE Land
      <4> DEFINE r == [Ignore(sync, sync.at) EXCEPT !.pc = "items", !.at = 0,
                                                   !.fetched = @ \cup {sync.at}]
      <4>1. r \in Run /\ r.pc = "items"
        BY <3>1, Numbers DEF Land, TypeInv, SyncTypeOK, LandsOne, Run, Ignore
      <4>2. Done(sync.at, r)
        BY <3>1 DEF Land
      <4> HIDE DEF r
      <4> QED BY <4>1, <4>2 DEF Done, Run
    <3>2. CASE \E p \in Purchases : Fetch(p)
      BY <3>2 DEF Fetch, TypeInv, SyncTypeOK, Run
    <3>3. ASSUME NEW p \in Purchases, Returns(p) \/ LinkKnown(p) \/ Adopt(p)
          PROVE  sync'.pc # "landing"
      <4>1. sync.pc = "items" /\ sync \in Run
        BY <3>3, ReturnsConsider DEF Considering, TypeInv, SyncTypeOK
      <4>2. \/ Done(p, sync)
            \/ Done(p, Ignore(sync, p))
            \/ Done(p, Card(sync, p))
            \/ Done(p, Card(Leave(sync, p), p))
            \/ Done(p, Leave(sync, p))
            \/ Done(p, [sync EXCEPT !.failed = TRUE])
        BY <3>3 DEF Returns, SkipIgnored, SkipCrossListed, CardLookalike, CardLinkOnly, Block,
          SkipOwned, DeferCapped, DeferPreorder, SkipLocal, FetchFails, LinkKnown, Adopt
      <4> QED BY <4>1, <4>2 DEF Done, Run, Ignore, Card, Leave
    <3> QED BY <2>1, <3>1, <3>2, <3>3 DEF SyncItem, Returns
  <2>2. CASE Decide \/ Open \/ Save \/ Publish \/ Passes \/ SyncFails
    <3>1. sync \in Run
      BY DEF TypeInv, SyncTypeOK
    <3>2. CASE Decide
      BY <3>1, <3>2 DEF Decide, Run
    <3>3. CASE Open
      BY <3>1, <3>3 DEF Open, Run
    <3>4. CASE Save \/ Publish
      BY <3>1, <3>4 DEF Save, Publish, Run
    <3>5. CASE Passes \/ SyncFails
      BY <3>5 DEF Passes, SyncFails, NoRun
    <3> QED BY <2>2, <3>2, <3>3, <3>4, <3>5
  <2>3. CASE RedoCommit \/ Prune
    BY <2>3 DEF RedoCommit, Prune, StartRun, NoRun
  <2>4. CASE User
    BY <2>4 DEF User, PostSync, StartRun, NoRun, Skip, Approve, Match, Restore, Confirm,
      Reconcile, RedoBegin, ClearFolder, EraseSidecars
  <2>5. CASE World
    BY <2>5 DEF World, Buy, Release, Rescan, FirstScanFails, Restart, NoRun
  <2> QED BY <2>1, <2>2, <2>3, <2>4, <2>5 DEF Next, SyncStep
<1> QED BY <1>1 DEF LandsOne, TypeInv

\* Every variable has its type in every reachable state, whatever is bought,
\* however the purchases map to folders and whatever the user may do.
\* (bandcamp_hook.py, sync_runner.py, pending_downloads.py)
THEOREM TypeCorrect == Spec => []SyncTypeOK
<1>1. TypeInv /\ [Next]_vars => TypeInv'
  <2>1. CASE Next
    BY <2>1, StepTypes, StepLandsOne DEF TypeInv
  <2>2. CASE UNCHANGED vars
    BY <2>2 DEF TypeInv, LandsOne, SyncTypeOK, vars, store, disk, memory, redownload, scanner
  <2> QED BY <2>1, <2>2
<1>2. TypeInv => SyncTypeOK
  BY DEF TypeInv
<1> QED BY <1>1, <1>2, InitTypeInv, PTL DEF Spec

(***************************************************************************)
(* Folders.  A download begins only in an empty folder: the purchase has no *)
(* marker on disk, or it would count as downloaded, and so _can_download_to *)
(* looked at the folder before it was let through.                          *)
(***************************************************************************)
LEMMA FetchEntersEmpty ==
  ASSUME NEW p \in Purchases, Fetch(p)
  PROVE  Home(p).files = {}
  BY DEF Fetch, UnderCap, Allowed, Guarded, Local

\* Everyone's files in a folder are one's
Alone == \A f \in Folders : \A x, y \in folder[f].files : x = y

LEMMA AloneIsUnmixed == Alone => NeverMixed
<1> SUFFICES ASSUME Alone, NEW f \in Folders
             PROVE  Cardinality(folder[f].files) <= 1
  BY DEF NeverMixed
<1>1. CASE folder[f].files = {}
  BY <1>1, FS_EmptySet
<1>2. CASE folder[f].files # {}
  <2>1. PICK x : x \in folder[f].files
    BY <1>2
  <2>2. folder[f].files = {x}
    BY <2>1 DEF Alone
  <2>3. Cardinality({x}) = 1
    BY FS_Singleton
  <2> QED BY <2>2, <2>3
<1> QED BY <1>1, <1>2

LEMMA InitAlone == Init => Alone
<1> SUFFICES ASSUME Init, NEW f \in Folders, NEW x \in folder[f].files, NEW y \in folder[f].files
             PROVE  x = y
  BY DEF Alone
<1> DEFINE owners == {p \in Adopted : FolderOf[p] = f}
<1>1. folder[f].files = owners \cup (IF f \in Occupied THEN {0} ELSE {})
  BY DEF Init, InitialFolder
<1>2. CASE f \in Occupied
  <2>1. owners = {}
    BY <1>2, PurchasesAssumption
  <2> QED BY <1>1, <1>2, <2>1
<1>3. CASE f \notin Occupied
  <2>1. x \in owners /\ y \in owners
    BY <1>1, <1>3
  <2> QED BY <2>1, PurchasesAssumption
<1> QED BY <1>2, <1>3

\* Only a download puts files into a folder
LEMMA FilesAppear ==
  ASSUME TypeInv, Next
  PROVE  \/ \E p \in Purchases : Fetch(p)
         \/ \A f \in Folders : folder'[f].files \subseteq folder[f].files
<1>1. folder \in [Folders -> FolderType]
  BY DEF TypeInv, SyncTypeOK, FolderType
<1>2. CASE SyncItem
  <2>1. CASE Land
    <3>1. FolderOf[sync.at] \in Folders
      BY <2>1, Numbers DEF Land, TypeInv, LandsOne
    <3> QED BY <1>1, <2>1, <3>1 DEF Land, FolderType
  <2>2. ASSUME NEW p \in Purchases, Returns(p) \/ LinkKnown(p) \/ Adopt(p)
        PROVE  UNCHANGED folder
    <3>1. CASE Returns(p)
      BY <3>1 DEF Returns, SkipIgnored, SkipCrossListed, CardLookalike, CardLinkOnly, Block,
         SkipOwned, DeferCapped, DeferPreorder, SkipLocal, FetchFails, Deciding, disk
    <3> QED BY <2>2, <3>1 DEF LinkKnown, Adopt
  <2> QED BY <1>2, <2>1, <2>2 DEF SyncItem, Returns
<1>3. CASE Decide \/ Open \/ Save \/ Publish \/ Passes \/ SyncFails \/ Prune \/ World
  BY <1>3 DEF Decide, Open, Save, Publish, Passes, SyncFails, Prune, World, Buy, Release,
    Rescan, FirstScanFails, Restart, disk
<1>4. CASE RedoCommit
  <2>1. FolderOf[redo] \in Folders
    BY <1>4, Numbers, PurchasesAssumption DEF RedoCommit, TypeInv, SyncTypeOK, Purchases
  <2> QED BY <1>1, <1>4, <2>1 DEF RedoCommit, FolderType
<1>5. CASE User
  <2>1. CASE \E f \in Folders : ClearFolder(f)
    BY <1>1, <2>1 DEF ClearFolder, FolderType
  <2>2. CASE EraseSidecars
    BY <1>1, <2>2 DEF EraseSidecars, FolderType
  <2> QED
    BY <1>5, <2>1, <2>2 DEF User, PostSync, Skip, Approve, Match, Restore, Confirm, Reconcile,
      RedoBegin, disk
<1> QED BY <1>2, <1>3, <1>4, <1>5 DEF Next, SyncStep

LEMMA StepAlone ==
  ASSUME TypeInv, Alone, Next
  PROVE  Alone'
<1>1. CASE \E p \in Purchases : Fetch(p)
  <2>1. PICK p \in Purchases : Fetch(p)
    BY <1>1
  <2>2. Home(p).files = {}
    BY <2>1, FetchEntersEmpty
  <2>3. folder' = [folder EXCEPT ![FolderOf[p]].files = {p}]
    BY <2>1, <2>2 DEF Fetch, Home
  <2> QED BY <2>3 DEF Alone, TypeInv, SyncTypeOK
<1>2. CASE \A f \in Folders : folder'[f].files \subseteq folder[f].files
  BY <1>2 DEF Alone
<1> QED BY <1>1, <1>2, FilesAppear

\* No two purchases, and no purchase and a stranger, ever share a folder, for
\* every assignment of folders to purchases.  (_can_download_to)
THEOREM FoldersNeverMixed == Spec => []NeverMixed
<1>1. TypeInv /\ Alone /\ [Next]_vars => (TypeInv /\ Alone)'
  <2>1. CASE UNCHANGED vars
    BY <2>1 DEF Alone, TypeInv, LandsOne, SyncTypeOK, vars, store, disk, memory, redownload,
      scanner
  <2> QED BY <2>1, StepTypes, StepLandsOne, StepAlone DEF TypeInv
<1> QED BY <1>1, InitTypeInv, InitAlone, AloneIsUnmixed, PTL DEF Spec

(***************************************************************************)
(* What is dealt with stays dealt with.  Erasing sidecars, archiving for a  *)
(* re-download and taking a purchase off the list undo it on purpose, and   *)
(* reset or ought to reset the checkpoint; the theorem leaves them out.  A  *)
(* pre-order is skipped when the folder it would have carries any marker,   *)
(* so it also needs that folder to be no other purchase's.                  *)
(***************************************************************************)
Undisturbed == Deeds \cap {"restore", "erase", "redownload"} = {}
PreordersApart ==
  \A p \in Preorders, q \in Purchases : FolderOf[p] = FolderOf[q] => p = q

\* A step takes no sidecar and no marker away
DiskKept ==
  /\ \A p \in Purchases : HoldsSidecar(p) => HoldsSidecar(p)'
  /\ \A p \in Purchases : Home(p).marker = p => Home(p)'.marker = p
  /\ \A f \in Folders : folder[f].marker # 0 => folder'[f].marker # 0

LEMMA LinkedStays ==
  ASSUME TypeInv, \A p \in Purchases : copy[p] = "linked" => copy'[p] = "linked",
         \A f \in Folders : folder'[f].marker = folder[f].marker
                            /\ folder'[f].owner = folder[f].owner
  PROVE  DiskKept
  BY Numbers DEF DiskKept, HoldsSidecar, Home

LEMMA LandKeepsDisk ==
  ASSUME TypeInv, LandingInv, Land
  PROVE  DiskKept
<1>1. sync.at \in Purchases /\ FolderOf[sync.at] \in Folders /\ sync.pc = "landing"
  BY Numbers DEF Land, TypeInv, LandsOne
<1>2. Home(sync.at).marker = 0 /\ Home(sync.at).owner = 0
  BY <1>1 DEF LandingInv
<1>3. folder \in [Folders -> FolderType] /\ UNCHANGED copy
  BY DEF TypeInv, SyncTypeOK, FolderType, Land
<1>4. \A f \in Folders : \/ f = FolderOf[sync.at] /\ folder'[f].marker = sync.at
                         \/ folder'[f] = folder[f]
  BY <1>1, <1>3 DEF Land, FolderType
<1> QED BY <1>1, <1>2, <1>3, <1>4, Numbers DEF DiskKept, HoldsSidecar, Home

LEMMA StepKeepsDisk ==
  ASSUME TypeInv, LandingInv, Undisturbed, redo = 0, Next
  PROVE  DiskKept
<1>1. folder \in [Folders -> FolderType] /\ copy \in [Purchases -> CopyStates]
  BY DEF TypeInv, SyncTypeOK, FolderType
<1>2. CASE Land
  BY <1>2, LandKeepsDisk
<1>3. ASSUME NEW p \in Purchases, Fetch(p)
      PROVE  DiskKept
  <2>1. \A f \in Folders : folder'[f].marker = folder[f].marker
                           /\ folder'[f].owner = folder[f].owner
    BY <1>1, <1>3 DEF Fetch, FolderType
  <2> QED BY <1>3, <2>1, LinkedStays DEF Fetch
<1>4. ASSUME NEW p \in Purchases, Returns(p) \/ LinkKnown(p) \/ Adopt(p)
      PROVE  DiskKept
  <2>1. UNCHANGED folder
    <3>1. CASE Returns(p)
      BY <3>1 DEF Returns, SkipIgnored, SkipCrossListed, CardLookalike, CardLinkOnly, Block,
         SkipOwned, DeferCapped, DeferPreorder, SkipLocal, FetchFails, Deciding, disk
    <3> QED BY <1>4, <3>1 DEF LinkKnown, Adopt
  <2>2. \A q \in Purchases : copy[q] = "linked" => copy'[q] = "linked"
    <3>1. CASE Returns(p)
      BY <3>1 DEF Returns, SkipIgnored, SkipCrossListed, CardLookalike, CardLinkOnly, Block,
         SkipOwned, DeferCapped, DeferPreorder, SkipLocal, FetchFails, Deciding, disk
    <3>2. CASE LinkKnown(p)
      BY <3>2 DEF LinkKnown, LinkCopies
    <3>3. CASE Adopt(p)
      BY <1>1, <3>3 DEF Adopt
    <3> QED BY <1>4, <3>1, <3>2, <3>3
  <2> QED BY <2>1, <2>2, LinkedStays
<1>5. CASE Decide \/ Save \/ Publish \/ SyncFails \/ Prune \/ World
  <2>1. UNCHANGED <<copy, folder>>
    BY <1>5 DEF Decide, Save, Publish, SyncFails, Prune, World, Buy, Release,
      Rescan, FirstScanFails, Restart, disk
  <2> QED BY <2>1, LinkedStays
<1>6. CASE Open \/ Passes
  <2>1. \A q \in Purchases : copy[q] = "linked" => copy'[q] = "linked"
    BY <1>6 DEF Open, LinkCopies, Passes, Pass
  <2>2. UNCHANGED folder
    BY <1>6 DEF Open, Passes
  <2> QED BY <2>1, <2>2, LinkedStays
<1>7. CASE RedoCommit
  BY <1>7 DEF RedoCommit
<1>8. CASE User
  <2>1. CASE \E f \in Folders : ClearFolder(f)
    <3>1. UNCHANGED copy /\ \A f \in Folders : folder'[f].marker = folder[f].marker
                                                /\ folder'[f].owner = folder[f].owner
      BY <1>1, <2>1 DEF ClearFolder, FolderType
    <3> QED BY <3>1, LinkedStays
  <2>2. ASSUME NEW p \in Purchases, Match(p) \/ Confirm(p) \/ Reconcile(p)
        PROVE  DiskKept
    <3>1. UNCHANGED folder
      BY <2>2 DEF Match, Confirm, Reconcile
    <3>2. \A q \in Purchases : copy[q] = "linked" => copy'[q] = "linked"
      BY <1>1, <2>2 DEF Match, Confirm, Reconcile
    <3> QED BY <3>1, <3>2, LinkedStays
  <2>3. ASSUME NEW p \in Purchases,
               (\E m \in Modes : PostSync(m)) \/ Skip(p) \/ Approve(p) \/ Restore(p)
               \/ RedoBegin(p)
        PROVE  DiskKept
    <3>1. UNCHANGED <<copy, folder>>
      BY <2>3 DEF PostSync, Skip, Approve, Restore, RedoBegin, disk
    <3> QED BY <3>1, LinkedStays
  <2>4. CASE \E m \in Modes : PostSync(m)
    <3>1. UNCHANGED <<copy, folder>>
      BY <2>4 DEF PostSync, disk
    <3> QED BY <3>1, LinkedStays
  <2>5. ~EraseSidecars
    BY DEF EraseSidecars, Undisturbed
  <2> QED BY <1>8, <2>1, <2>2, <2>3, <2>4, <2>5 DEF User
<1> QED BY <1>2, <1>3, <1>4, <1>5, <1>6, <1>7, <1>8 DEF Next, SyncStep, SyncItem, Returns

(***************************************************************************)
(* What a purchase leaves the run with: each return of sync_item notes it   *)
(* as unfinished, or it is dealt with, or the run will not move the         *)
(* checkpoint.                                                              *)
(***************************************************************************)
Accounted(p, r) ==
  \/ r.linkOnly \/ r.failed
  \/ p \in r.unfinished \cup r.added
  \/ HoldsSidecar(p) \/ Home(p).marker = p \/ p \in sync.ignored \/ p \notin Plain

\* The records a return may leave, and what they have in common
Outcome(p, r) ==
  r \in {sync, Ignore(sync, p), Card(sync, p), Card(Leave(sync, p), p), Leave(sync, p),
         [sync EXCEPT !.failed = TRUE]}

\* A marker on disk that makes a purchase count as downloaded is its own
LEMMA LocalIsOwn ==
  ASSUME TypeInv, FoldersInv, RunInv, PreordersApart, preorder \subseteq Preorders,
         NEW p \in Purchases, UnderCap(p), Local(p)
  PROVE  Home(p).marker = p
<1>1. sync.pc = "items"
  BY DEF UnderCap, Allowed, Wanted, Fetchable, Unmatched, Considering
<1>2. CASE p \in sync.markers
  BY <1>1, <1>2 DEF RunInv, Choosing
<1>3. CASE p \notin sync.markers
  <2>1. Home(p).marker # 0 /\ FolderOf[p] \in Folders
    BY <1>1, <1>3, Numbers DEF Local, RunInv, Choosing, Home
  <2>2. Home(p).files # {} /\ FolderOf[Home(p).marker] = FolderOf[p]
    BY <2>1 DEF FoldersInv, Home
  <2>3. p \in Preorders
    BY <1>3, <2>2 DEF UnderCap, Allowed, Guarded, Preorder
  <2>4. Home(p).marker \in Purchases
    BY <2>1, PurchasesAssumption DEF TypeInv, SyncTypeOK, Home, Purchases
  <2> QED BY <2>2, <2>3, <2>4 DEF PreordersApart
<1> QED BY <1>2, <1>3

LEMMA ReturnsAccount ==
  ASSUME TypeInv, FoldersInv, RunInv, PreordersApart, preorder \subseteq Preorders,
         NEW p \in Purchases, Returns(p) \/ LinkKnown(p) \/ Adopt(p)
  PROVE  \E r \in Run : Done(p, r) /\ Outcome(p, r) /\ Accounted(p, r)
<1>1. sync \in Run
  BY DEF TypeInv, SyncTypeOK
<1>2. /\ Ignore(sync, p) \in Run /\ p \in Ignore(sync, p).added
      /\ Leave(sync, p) \in Run /\ p \in Leave(sync, p).unfinished
      /\ Card(sync, p) \in Run /\ Card(sync, p).linkOnly = sync.linkOnly
      /\ Card(Leave(sync, p), p) \in Run /\ p \in Card(Leave(sync, p), p).unfinished
      /\ [sync EXCEPT !.failed = TRUE] \in Run /\ [sync EXCEPT !.failed = TRUE].failed
  BY <1>1 DEF Run, Ignore, Leave, Card
<1>3. CASE SkipIgnored(p)
  BY <1>1, <1>3 DEF SkipIgnored, Ignored, Outcome, Accounted
<1>4. CASE LinkKnown(p) \/ SkipCrossListed(p) \/ Adopt(p)
  BY <1>2, <1>4 DEF LinkKnown, SkipCrossListed, Adopt, Outcome, Accounted
<1>5. CASE CardLookalike(p)
  BY <1>2, <1>5 DEF CardLookalike, Outcome, Accounted, Plain
<1>6. CASE CardLinkOnly(p)
  BY <1>2, <1>6 DEF CardLinkOnly, Outcome, Accounted
<1>7. CASE Block(p) \/ DeferCapped(p)
  BY <1>2, <1>7 DEF Block, DeferCapped, Outcome, Accounted
<1>8. CASE SkipOwned(p)
  <2>1. Home(p).marker = p \/ Home(p).owner = p
    BY <1>8 DEF SkipOwned, Owners
  <2> QED BY <1>1, <1>8, <2>1 DEF SkipOwned, Outcome, Accounted, HoldsSidecar
<1>9. CASE DeferPreorder(p)
  BY <1>1, <1>2, <1>9, LocalIsOwn DEF DeferPreorder, Outcome, Accounted
<1>10. CASE SkipLocal(p)
  BY <1>1, <1>10, LocalIsOwn DEF SkipLocal, Outcome, Accounted
<1>11. CASE FetchFails(p)
  BY <1>2, <1>11 DEF FetchFails, Outcome, Accounted
<1> QED BY <1>3, <1>4, <1>5, <1>6, <1>7, <1>8, <1>9, <1>10, <1>11 DEF Returns

(***************************************************************************)
(* The folders, and the download under way.                                 *)
(***************************************************************************)
LEMMA InitFolders == Init => FoldersInv
<1> SUFFICES ASSUME Init, NEW f \in Folders
             PROVE  /\ folder[f].marker = 0
                    /\ folder[f].owner # 0 => folder[f].files # {}
  BY DEF FoldersInv
<1> DEFINE owners == {p \in Adopted : FolderOf[p] = f}
<1>1. /\ folder[f].marker = 0
      /\ folder[f].owner = IF owners = {} THEN 0 ELSE CHOOSE p \in owners : TRUE
      /\ owners \subseteq folder[f].files
  BY DEF Init, InitialFolder
<1> QED BY <1>1

LEMMA StepFolders ==
  ASSUME TypeInv, FoldersInv, LandingInv, Undisturbed, redo = 0, Next
  PROVE  FoldersInv'
<1>1. folder \in [Folders -> FolderType]
  BY DEF TypeInv, SyncTypeOK, FolderType
<1>2. CASE Land
  <2>1. sync.at \in Purchases /\ FolderOf[sync.at] \in Folders /\ Home(sync.at).files # {}
    BY <1>2, Numbers DEF Land, TypeInv, LandsOne, LandingInv
  <2>2. \A f \in Folders : \/ /\ f = FolderOf[sync.at] /\ folder'[f].marker = sync.at
                              /\ folder'[f].files = folder[f].files
                           \/ folder'[f] = folder[f]
    BY <1>1, <1>2, <2>1 DEF Land, FolderType
  <2> QED BY <2>1, <2>2 DEF FoldersInv, Home
<1>3. ASSUME NEW p \in Purchases, Fetch(p)
      PROVE  FoldersInv'
  <2>1. \A f \in Folders : /\ folder'[f].marker = folder[f].marker
                           /\ folder'[f].owner = folder[f].owner
                           /\ folder[f].files \subseteq folder'[f].files
    BY <1>1, <1>3 DEF Fetch, FolderType
  <2> QED BY <2>1 DEF FoldersInv
<1>4. ASSUME NEW f \in Folders, ClearFolder(f)
      PROVE  FoldersInv'
  <2>1. folder[f].marker = 0 /\ folder[f].owner = 0
        /\ folder' = [folder EXCEPT ![f].files = {}]
    BY <1>4 DEF ClearFolder
  <2> QED BY <1>1, <2>1 DEF FoldersInv, FolderType
<1>5. CASE UNCHANGED folder
  BY <1>5 DEF FoldersInv
<1>6. \/ Land \/ \E p \in Purchases : Fetch(p)
      \/ \E f \in Folders : ClearFolder(f)
      \/ UNCHANGED folder
  <2>1. CASE SyncItem
    <3>1. ASSUME NEW p \in Purchases, Returns(p)
          PROVE  UNCHANGED folder
      BY <3>1 DEF Returns, SkipIgnored, SkipCrossListed, CardLookalike, CardLinkOnly, Block,
         SkipOwned, DeferCapped, DeferPreorder, SkipLocal, FetchFails, Deciding, disk
    <3> QED BY <2>1, <3>1 DEF SyncItem, Returns, LinkKnown, Adopt
  <2>2. CASE Decide \/ Open \/ Save \/ Publish \/ Passes \/ SyncFails \/ Prune \/ World
    BY <2>2 DEF Decide, Open, Save, Publish, Passes, SyncFails, Prune, World, Buy, Release,
      Rescan, FirstScanFails, Restart, disk
  <2>3. CASE User
    BY <2>3 DEF User, PostSync, Skip, Approve, Match, Restore, Confirm, Reconcile, RedoBegin,
      EraseSidecars, Undisturbed, disk
  <2>4. ~RedoCommit
    BY DEF RedoCommit
  <2> QED BY <2>1, <2>2, <2>3, <2>4 DEF Next, SyncStep
<1> QED BY <1>2, <1>3, <1>4, <1>5, <1>6

\* What happens beside a run leaves it alone, or ends or begins it
LEMMA Beside ==
  ASSUME TypeInv, Undisturbed, redo = 0,
         Prune \/ User \/ World \/ RedoCommit
  PROVE  UNCHANGED checkpoint /\ (UNCHANGED sync \/ sync'.pc \in {"idle", "started"})
<1>1. CASE Prune \/ World
  BY <1>1 DEF Prune, World, Buy, Release, Rescan, FirstScanFails, Restart, NoRun
<1>2. CASE User
  BY <1>2 DEF User, PostSync, StartRun, NoRun, Skip, Approve, Match, Restore, Confirm,
    Reconcile, RedoBegin, ClearFolder, EraseSidecars, Undisturbed
<1>3. CASE RedoCommit
  BY <1>3 DEF RedoCommit
<1> QED BY <1>1, <1>2, <1>3

\* Every step is an item of the run, opens it, leaves it alone, or leaves no run
\* that pages
LEMMA StepKinds ==
  ASSUME TypeInv, Undisturbed, redo = 0, Next
  PROVE  \/ \E p \in Purchases : Returns(p) \/ LinkKnown(p) \/ Adopt(p)
         \/ \E p \in Purchases : Fetch(p)
         \/ Land
         \/ Open
         \/ UNCHANGED <<sync, checkpoint>>
         \/ ~Choosing'
<1>1. CASE Prune \/ User \/ World \/ RedoCommit
  BY <1>1, Beside DEF Choosing
<1>2. CASE Decide \/ Save \/ Publish
  BY <1>2 DEF Decide, Save, Publish, Choosing, TypeInv, SyncTypeOK, Run
<1>3. CASE Passes \/ SyncFails
  BY <1>3 DEF Passes, SyncFails, NoRun, Choosing
<1> QED BY <1>1, <1>2, <1>3 DEF Next, SyncStep, SyncItem, Returns

\* The fields a return leaves as they were, and those it only adds to
LEMMA DoneFields ==
  ASSUME TypeInv, NEW p \in Purchases, NEW r \in Run, Done(p, r), Outcome(p, r)
  PROVE  /\ sync'.pc = sync.pc /\ sync'.floor = sync.floor /\ sync'.top = sync.top
         /\ sync'.file = sync.file /\ sync'.markers = sync.markers
         /\ sync'.marked = sync.marked /\ sync'.linkOnly = sync.linkOnly
         /\ sync'.failed = r.failed /\ r.linkOnly = sync.linkOnly
         /\ sync'.todo = sync.todo \ {p}
         /\ sync'.added = r.added /\ sync.added \subseteq r.added
         /\ sync'.unfinished = r.unfinished /\ sync.unfinished \subseteq r.unfinished
         /\ sync'.ignored \subseteq sync.ignored \cup r.added
         /\ sync.failed => r.failed
<1>1. sync \in Run
  BY DEF TypeInv, SyncTypeOK
<1>2. sync' = [r EXCEPT !.todo = @ \ {p}]
  BY DEF Done
<1>3. CASE r = Ignore(sync, p)
  BY <1>1, <1>2, <1>3 DEF Run, Ignore
<1>4. CASE r = Card(sync, p)
  BY <1>1, <1>2, <1>4 DEF Run, Card
<1>5. CASE r = Leave(sync, p)
  BY <1>1, <1>2, <1>5 DEF Run, Leave
<1>6. CASE r = Card(Leave(sync, p), p)
  BY <1>1, <1>2, <1>6 DEF Run, Card, Leave
<1>7. CASE r = sync \/ r = [sync EXCEPT !.failed = TRUE]
  BY <1>1, <1>2, <1>7 DEF Run
<1> QED BY <1>3, <1>4, <1>5, <1>6, <1>7 DEF Outcome

(***************************************************************************)
(* The run: what it read still holds.                                       *)
(***************************************************************************)
LEMMA OpenRun ==
  ASSUME TypeInv, NothingBuried, DiskKept, Open
  PROVE  RunInv'
<1>1. sync \in Run
  BY DEF TypeInv, SyncTypeOK
<1> DEFINE ignored == ignores.user \cup ignores.auto \cup ItemIds
<1>2. /\ sync'.floor = checkpoint /\ sync'.top = bought /\ sync'.file = ignores
      /\ sync'.todo = (checkpoint + 1)..bought /\ sync'.ignored = ignored
      /\ sync'.markers = {p \in Purchases : Home(p).marker = p}
      /\ sync'.marked = {f \in Folders : folder[f].marker # 0}
      /\ UNCHANGED <<checkpoint, folder, bought>>
  BY <1>1 DEF Open, Run, store
<1> HIDE DEF ignored
<1>3. ASSUME NEW p \in Purchases, Settled(p)
      PROVE  Kept(p)'
  BY <1>2, <1>3 DEF Settled, Kept, DiskKept, Home
<1>4. \A p \in ignored : p \in Purchases /\ Settled(p)
  BY DEF ignored, ItemIds, Settled, TypeInv, SyncTypeOK
<1>5. \A p \in Plain : p \in Purchases
  BY DEF Plain
<1>6. (\A p \in Plain : p <= checkpoint => Kept(p))'
  BY <1>2, <1>3, <1>5 DEF NothingBuried, Plain
<1>7. (\A p \in Plain \cap Paged : p \in sync.todo \cup sync.unfinished \/ Kept(p))'
  <2> SUFFICES ASSUME NEW p \in Plain, p \in Paged' PROVE p \in sync'.todo
    BY DEF Plain
  <2>1. p \in Purchases /\ checkpoint < p /\ p <= bought
    BY <1>2 DEF Paged
  <2>2. p \in Int /\ checkpoint \in Int /\ bought \in Int
    BY <2>1, Numbers DEF TypeInv, SyncTypeOK
  <2> QED BY <1>2, <2>1, <2>2
<1>8. (\A p \in sync.ignored : Kept(p))'
  BY <1>2, <1>3, <1>4
<1>9. (\A p \in sync.markers : Home(p).marker = p)' /\ (\A f \in sync.marked : folder[f].marker # 0)'
  BY <1>2 DEF Home
<1> QED BY <1>2, <1>6, <1>7, <1>8, <1>9 DEF RunInv

LEMMA ItemRun ==
  ASSUME TypeInv, RunInv, DiskKept, Choosing, UNCHANGED checkpoint,
         NEW p \in Purchases, NEW r \in Run, Done(p, r), Outcome(p, r), Accounted(p, r)
  PROVE  /\ sync'.floor = checkpoint'
         /\ \A q \in Plain : q <= checkpoint' => Kept(q)'
         /\ \A q \in sync'.ignored : Kept(q)'
         /\ \A q \in sync'.markers : Home(q)'.marker = q
         /\ \A f \in sync'.marked : folder'[f].marker # 0
         /\ \/ sync'.linkOnly \/ sync'.failed
            \/ \A q \in Plain \cap Paged' : q \in sync'.todo \cup sync'.unfinished \/ Kept(q)'
<1>1. sync \in Run
  BY DEF TypeInv, SyncTypeOK
<1>2. ASSUME NEW q \in Purchases, Kept(q)
      PROVE  Kept(q)'
  BY <1>2, DoneFields DEF Kept, DiskKept
<1>3. sync.markers \subseteq Purchases /\ sync.marked \subseteq Folders
      /\ sync.ignored \subseteq Purchases /\ r.added \subseteq Purchases
  BY <1>1 DEF Run
<1>4. sync'.floor = checkpoint' /\ \A q \in Plain : q <= checkpoint' => Kept(q)'
  BY <1>2, DoneFields DEF RunInv, Plain
<1>5. \A q \in sync'.ignored : Kept(q)'
  <2> SUFFICES ASSUME NEW q \in sync'.ignored PROVE Kept(q)'
    OBVIOUS
  <2>1. CASE q \in r.added
    BY <2>1, DoneFields DEF Kept
  <2>2. CASE q \in sync.ignored
    BY <1>2, <1>3, <2>2 DEF RunInv
  <2> QED BY <2>1, <2>2, DoneFields
<1>6. /\ \A q \in sync'.markers : Home(q)'.marker = q
      /\ \A f \in sync'.marked : folder'[f].marker # 0
  BY <1>3, DoneFields DEF RunInv, DiskKept
<1>7. ASSUME ~sync'.linkOnly, ~sync'.failed, NEW q \in Plain \cap Paged'
      PROVE  q \in sync'.todo \cup sync'.unfinished \/ Kept(q)'
  <2>1. ~sync.linkOnly /\ ~sync.failed /\ ~r.linkOnly /\ ~r.failed
    BY <1>7, DoneFields
  <2>2. q \in Plain \cap Paged /\ q \in Purchases
    BY <1>7, DoneFields DEF Paged, Plain
  <2>3. q \in sync.todo \cup sync.unfinished \/ Kept(q)
    BY <2>1, <2>2 DEF RunInv
  <2>4. CASE q = p
    <3>1. \/ p \in sync'.unfinished \cup sync'.added \/ HoldsSidecar(p) \/ Home(p).marker = p
          \/ p \in sync.ignored
      BY <2>1, <2>2, <2>4, DoneFields DEF Accounted
    <3>2. CASE p \in sync'.unfinished \cup sync'.added
      BY <2>4, <3>2 DEF Kept
    <3>3. CASE HoldsSidecar(p) \/ Home(p).marker = p \/ p \in sync.ignored
      <4>1. Kept(p)
        BY <3>3 DEF Kept, RunInv
      <4> QED BY <1>2, <2>4, <4>1
    <3> QED BY <3>1, <3>2, <3>3
  <2>5. CASE q # p
    BY <1>2, <2>2, <2>3, <2>5, DoneFields
  <2> QED BY <2>4, <2>5
<1> QED BY <1>4, <1>5, <1>6, <1>7

\* A run that keeps what it read, and drops from its list only what it ignores
LEMMA RunStays ==
  ASSUME TypeInv, RunInv, DiskKept, Choosing, UNCHANGED checkpoint,
         sync'.floor = sync.floor, sync'.top = sync.top, sync'.file = sync.file,
         sync'.markers = sync.markers, sync'.marked = sync.marked,
         sync'.linkOnly = sync.linkOnly, sync'.failed = sync.failed,
         sync'.unfinished = sync.unfinished, sync.added \subseteq sync'.added,
         sync'.ignored \subseteq sync.ignored \cup sync'.added,
         sync.todo \subseteq sync'.todo \cup sync'.added
  PROVE  RunInv'
<1>1. sync.markers \subseteq Purchases /\ sync.marked \subseteq Folders
      /\ sync.ignored \subseteq Purchases
  BY DEF TypeInv, SyncTypeOK, Run
<1>2. ASSUME NEW q \in Purchases, Kept(q)
      PROVE  Kept(q)'
  BY <1>2 DEF Kept, DiskKept
<1>3. sync'.floor = checkpoint' /\ \A q \in Plain : q <= checkpoint' => Kept(q)'
  BY <1>2 DEF RunInv, Plain
<1>4. \A q \in sync'.ignored : Kept(q)'
  <2> SUFFICES ASSUME NEW q \in sync'.ignored PROVE Kept(q)'
    OBVIOUS
  <2>1. CASE q \in sync'.added
    BY <2>1 DEF Kept
  <2>2. CASE q \in sync.ignored
    BY <1>1, <1>2, <2>2 DEF RunInv
  <2> QED BY <2>1, <2>2
<1>5. /\ \A q \in sync'.markers : Home(q)'.marker = q
      /\ \A f \in sync'.marked : folder'[f].marker # 0
  BY <1>1 DEF RunInv, DiskKept
<1>6. \/ sync'.linkOnly \/ sync'.failed
      \/ \A q \in Plain \cap Paged' : q \in sync'.todo \cup sync'.unfinished \/ Kept(q)'
  <2> SUFFICES ASSUME ~sync.linkOnly, ~sync.failed, NEW q \in Plain \cap Paged'
               PROVE  q \in sync'.todo \cup sync'.unfinished \/ Kept(q)'
    OBVIOUS
  <2>1. q \in Plain \cap Paged /\ q \in Purchases
    BY DEF Paged, Plain
  <2>2. q \in sync.todo \cup sync.unfinished \/ Kept(q)
    BY <2>1 DEF RunInv
  <2>3. CASE q \in sync'.added
    BY <2>3 DEF Kept
  <2> QED BY <1>2, <2>1, <2>2, <2>3
<1> QED BY <1>3, <1>4, <1>5, <1>6 DEF RunInv, Plain

LEMMA StepRun ==
  ASSUME TypeInv, NothingBuried, FoldersInv, RunInv, LandingInv, preorder \subseteq Preorders,
         redo = 0, Undisturbed, PreordersApart, Next
  PROVE  RunInv'
<1>1. DiskKept
  BY StepKeepsDisk
<1>2. sync \in Run
  BY DEF TypeInv, SyncTypeOK
<1>3. ASSUME NEW p \in Purchases, Returns(p) \/ LinkKnown(p) \/ Adopt(p)
      PROVE  RunInv'
  <2>1. PICK r \in Run : Done(p, r) /\ Outcome(p, r) /\ Accounted(p, r)
    BY <1>3, ReturnsAccount
  <2>2. Choosing
    BY <1>3, ReturnsConsider DEF Considering, Choosing
  <2>3. UNCHANGED checkpoint
    <3>1. CASE Returns(p)
      BY <3>1 DEF Returns, SkipIgnored, SkipCrossListed, CardLookalike, CardLinkOnly, Block,
         SkipOwned, DeferCapped, DeferPreorder, SkipLocal, FetchFails, Deciding
    <3> QED BY <1>3, <3>1 DEF LinkKnown, Adopt
  <2> QED BY <1>1, <2>1, <2>2, <2>3, ItemRun DEF RunInv, Plain, Paged
<1>4. ASSUME NEW p \in Purchases, Fetch(p)
      PROVE  RunInv'
  <2>1. Choosing /\ UNCHANGED checkpoint
    BY <1>4, ReturnsConsider DEF Considering, Choosing, Fetch
  <2>2. sync' = [sync EXCEPT !.pc = "landing", !.at = p]
    BY <1>4 DEF Fetch
  <2>3. /\ sync'.floor = sync.floor /\ sync'.top = sync.top /\ sync'.file = sync.file
        /\ sync'.markers = sync.markers /\ sync'.marked = sync.marked
        /\ sync'.ignored = sync.ignored /\ sync'.added = sync.added
        /\ sync'.todo = sync.todo /\ sync'.unfinished = sync.unfinished
        /\ sync'.linkOnly = sync.linkOnly /\ sync'.failed = sync.failed
    BY <1>2, <2>2 DEF Run
  <2> QED BY <1>1, <1>2, <2>1, <2>3, RunStays
<1>5. CASE Land
  <2> DEFINE p == sync.at
             r == Ignore(sync, p)
             landed == [r EXCEPT !.pc = "items", !.at = 0, !.fetched = @ \cup {p}]
  <2>1. p \in Purchases /\ sync.pc = "landing" /\ UNCHANGED checkpoint
    BY <1>5 DEF Land, TypeInv, LandsOne
  <2>2. sync' = [landed EXCEPT !.todo = @ \ {p}]
    BY <1>5 DEF Land, Done
  <2>3. /\ sync'.floor = sync.floor /\ sync'.top = sync.top /\ sync'.file = sync.file
        /\ sync'.markers = sync.markers /\ sync'.marked = sync.marked
        /\ sync'.ignored = sync.ignored \cup {p} /\ sync'.added = sync.added \cup {p}
        /\ sync'.todo = sync.todo \ {p} /\ sync'.unfinished = sync.unfinished
        /\ sync'.linkOnly = sync.linkOnly /\ sync'.failed = sync.failed
    BY <1>2, <2>1, <2>2, Numbers DEF Run, Ignore
  <2> HIDE DEF p
  <2> QED BY <1>1, <1>2, <2>1, <2>3, RunStays DEF Choosing
<1>6. CASE Open
  BY <1>1, <1>6, OpenRun
<1>7. CASE UNCHANGED <<sync, checkpoint>>
  <2>1. CASE Choosing
    BY <1>1, <1>2, <1>7, <2>1, RunStays
  <2>2. CASE ~Choosing
    BY <1>7, <2>2 DEF RunInv, Choosing
  <2> QED BY <2>1, <2>2
<1>8. CASE ~Choosing'
  BY <1>8 DEF RunInv
<1> QED BY <1>3, <1>4, <1>5, <1>6, <1>7, <1>8, StepKinds

LEMMA StepLanding ==
  ASSUME TypeInv, FoldersInv, LandingInv, redo = 0, Undisturbed, Next
  PROVE  LandingInv'
<1>1. folder \in [Folders -> FolderType] /\ sync \in Run
  BY DEF TypeInv, SyncTypeOK, FolderType
<1>2. ASSUME NEW p \in Purchases, Fetch(p)
      PROVE  LandingInv'
  <2>1. p \in sync.todo /\ Home(p).files = {} /\ FolderOf[p] \in Folders
    BY <1>2, ReturnsConsider, FetchEntersEmpty, Numbers DEF Considering
  <2>2. Home(p).marker = 0 /\ Home(p).owner = 0
    BY <2>1 DEF FoldersInv, Home
  <2>3. sync'.at = p /\ sync'.todo = sync.todo
    BY <1>1, <1>2 DEF Fetch, Run
  <2>4. /\ folder'[FolderOf[p]].files = Home(p).files \cup {p}
        /\ folder'[FolderOf[p]].marker = Home(p).marker
        /\ folder'[FolderOf[p]].owner = Home(p).owner
    BY <1>1, <1>2, <2>1 DEF Fetch, FolderType, Home
  <2> QED BY <2>1, <2>2, <2>3, <2>4 DEF LandingInv, Home
<1>3. CASE sync'.pc # "landing"
  BY <1>3 DEF LandingInv
<1>4. CASE UNCHANGED <<sync, folder>>
  BY <1>4 DEF LandingInv, Home
<1>5. ASSUME UNCHANGED sync, NEW f \in Folders, ClearFolder(f)
      PROVE  LandingInv'
  <2> SUFFICES ASSUME sync.pc = "landing" PROVE LandingInv'
    BY <1>5 DEF LandingInv
  <2>1. sync.at \in Purchases /\ FolderOf[sync.at] \in Folders /\ f # FolderOf[sync.at]
    BY <1>5, Numbers DEF TypeInv, LandsOne, ClearFolder
  <2>2. folder'[FolderOf[sync.at]] = folder[FolderOf[sync.at]]
    BY <1>1, <1>5, <2>1 DEF ClearFolder
  <2> QED BY <1>5, <2>2 DEF LandingInv, Home
<1>6. \/ \E p \in Purchases : Fetch(p)
      \/ sync'.pc # "landing"
      \/ UNCHANGED <<sync, folder>>
      \/ UNCHANGED sync /\ \E f \in Folders : ClearFolder(f)
  <2>1. CASE Prune \/ User \/ World \/ RedoCommit
    <3>1. CASE UNCHANGED sync
      BY <2>1, <3>1 DEF Prune, World, Buy, Release, Rescan, FirstScanFails, Restart, disk, User,
        PostSync, Skip, Approve, Match, Restore, Confirm, Reconcile, RedoBegin, EraseSidecars,
        Undisturbed, RedoCommit
    <3> QED BY <2>1, <3>1, Beside
  <2>2. CASE Decide \/ Save \/ Publish
    BY <1>1, <2>2 DEF Decide, Save, Publish, Run
  <2>3. CASE Passes \/ SyncFails
    BY <2>3 DEF Passes, SyncFails, NoRun
  <2>4. CASE Open
    BY <1>1, <2>4 DEF Open, Run
  <2>5. ASSUME NEW p \in Purchases, Returns(p) \/ LinkKnown(p) \/ Adopt(p)
        PROVE  sync'.pc # "landing"
    <3>1. \/ Done(p, sync)
          \/ Done(p, Ignore(sync, p))
          \/ Done(p, Card(sync, p))
          \/ Done(p, Card(Leave(sync, p), p))
          \/ Done(p, Leave(sync, p))
          \/ Done(p, [sync EXCEPT !.failed = TRUE])
      BY <2>5 DEF Returns, SkipIgnored, SkipCrossListed, CardLookalike, CardLinkOnly, Block,
        SkipOwned, DeferCapped, DeferPreorder, SkipLocal, FetchFails, LinkKnown, Adopt
    <3>2. sync.pc = "items"
      BY <2>5, ReturnsConsider DEF Considering
    <3> QED BY <1>1, <3>1, <3>2 DEF Done, Run, Ignore, Card, Leave
  <2>6. CASE Land
    <3> DEFINE r == [Ignore(sync, sync.at) EXCEPT !.pc = "items", !.at = 0,
                                                 !.fetched = @ \cup {sync.at}]
    <3>1. r \in Run /\ r.pc = "items"
      BY <1>1, <2>6, Numbers DEF Land, TypeInv, LandsOne, Run, Ignore
    <3>2. Done(sync.at, r)
      BY <2>6 DEF Land
    <3> HIDE DEF r
    <3> QED BY <3>1, <3>2 DEF Done, Run
  <2> QED BY <2>1, <2>2, <2>3, <2>4, <2>5, <2>6 DEF Next, SyncStep, SyncItem, Returns
<1> QED BY <1>2, <1>3, <1>4, <1>5, <1>6

(***************************************************************************)
(* The checkpoint.                                                          *)
(***************************************************************************)

\* ignores.txt is only added to, but for the end of a run
LEMMA IgnoresGrow ==
  ASSUME TypeInv, redo = 0, Undisturbed, Next, ~Save
  PROVE  ignores.user \cup ignores.auto \subseteq ignores'.user \cup ignores'.auto
<1>1. ignores \in [user : SUBSET Purchases, auto : SUBSET Purchases]
  BY DEF TypeInv, SyncTypeOK
<1>2. CASE SyncItem
  <2>1. ASSUME NEW p \in Purchases, Returns(p)
        PROVE  UNCHANGED ignores
    BY <2>1 DEF Returns, SkipIgnored, SkipCrossListed, CardLookalike, CardLinkOnly, Block,
         SkipOwned, DeferCapped, DeferPreorder, SkipLocal, FetchFails, Deciding
  <2> QED BY <1>2, <2>1 DEF SyncItem, Returns, LinkKnown, Adopt, Fetch, Land
<1>3. CASE Decide \/ Open \/ Publish \/ Passes \/ SyncFails \/ Prune \/ World \/ RedoCommit
  BY <1>3 DEF Decide, Open, Publish, Passes, SyncFails, Prune, World, Buy, Release, Rescan,
    FirstScanFails, Restart, RedoCommit
<1>4. CASE User
  <2>1. ASSUME NEW p \in Purchases, Skip(p) \/ Match(p)
        PROVE  ignores.user \cup ignores.auto \subseteq ignores'.user \cup ignores'.auto
    BY <1>1, <2>1 DEF Skip, Match, AppendIgnore
  <2> QED BY <1>4, <2>1 DEF User, PostSync, Approve, Restore, Confirm, Reconcile, RedoBegin,
    ClearFolder, EraseSidecars, Undisturbed
<1> QED BY <1>2, <1>3, <1>4 DEF Next, SyncStep

LEMMA SaveBuriesNothing ==
  ASSUME TypeInv, RunInv, DiskKept, Save
  PROVE  NothingBuried'
<1>1. sync \in Run /\ Choosing /\ sync.todo = {} /\ sync.floor = checkpoint
  BY DEF TypeInv, SyncTypeOK, Save, Choosing, RunInv
<1>2. ASSUME NEW p \in Purchases, Kept(p)
      PROVE  Settled(p)'
  <2>1. /\ sync.file.user \cup sync.file.auto \cup sync.added
           \subseteq ignores'.user \cup ignores'.auto
    BY <1>1 DEF Save, Run
  <2> QED BY <1>2, <2>1 DEF Kept, Settled, DiskKept
<1> SUFFICES ASSUME NEW p \in Plain, p <= checkpoint'
             PROVE  Kept(p)
  BY <1>2 DEF NothingBuried, Plain
<1>3. p \in Purchases
  BY DEF Plain
<1>4. CASE p <= checkpoint
  BY <1>1, <1>4 DEF RunInv
<1>5. CASE ~(p <= checkpoint)
  <2>1. ~sync.linkOnly /\ ~sync.failed /\ Finished # {} /\ checkpoint' = Newest(Finished)
    BY <1>5 DEF Save, SaveCheckpoint
  <2>2. Newest(Finished) \in Finished
    <3>1. Finished \in SUBSET Purchases
      BY DEF Finished, Paged
    <3> QED BY <2>1, <3>1, NewestIsOne
  <2>3. checkpoint' <= sync.top /\ \A q \in sync.unfinished : checkpoint' < q
    BY <2>1, <2>2 DEF Finished, Paged
  <2>4. /\ p \in Int /\ checkpoint \in Int /\ checkpoint' \in Int /\ sync.top \in Int
        /\ \A q \in sync.unfinished : q \in Int
    <3>1. \A q \in Purchases : q \in Int
      BY Numbers
    <3>2. sync.unfinished \subseteq Purchases /\ sync.top \in Int /\ checkpoint \in Int
      BY <1>1, Numbers DEF TypeInv, SyncTypeOK, Run
    <3>3. checkpoint' \in Purchases
      BY <2>1, <2>2 DEF Finished, Paged
    <3> QED BY <1>3, <3>1, <3>2, <3>3
  <2>5. p \in Paged /\ p \notin sync.unfinished
    BY <1>1, <1>3, <1>5, <2>3, <2>4 DEF Paged
  <2> QED BY <1>1, <2>1, <2>5 DEF RunInv
<1> QED BY <1>4, <1>5

LEMMA StepBuriesNothing ==
  ASSUME TypeInv, NothingBuried, RunInv, LandingInv, redo = 0, Undisturbed, Next
  PROVE  NothingBuried'
<1>1. DiskKept
  BY StepKeepsDisk
<1>2. CASE Save
  BY <1>1, <1>2, SaveBuriesNothing
<1>3. CASE ~Save
  <2>1. \A p \in Purchases : Settled(p) => Settled(p)'
    BY <1>1, <1>3, IgnoresGrow DEF Settled, DiskKept
  <2>2. checkpoint' = checkpoint \/ checkpoint' = 0
    <3>1. CASE SyncItem
      <4>1. ASSUME NEW p \in Purchases, Returns(p)
            PROVE  UNCHANGED checkpoint
        BY <4>1 DEF Returns, SkipIgnored, SkipCrossListed, CardLookalike, CardLinkOnly, Block,
          SkipOwned, DeferCapped, DeferPreorder, SkipLocal, FetchFails, Deciding
      <4> QED BY <3>1, <4>1 DEF SyncItem, Returns, LinkKnown, Adopt, Fetch, Land
    <3>2. CASE Decide \/ Open \/ Publish \/ Passes \/ SyncFails
      BY <3>2 DEF Decide, Open, Publish, Passes, SyncFails
    <3>3. CASE Prune \/ User \/ World \/ RedoCommit
      BY <3>3, Beside
    <3> QED BY <1>3, <3>1, <3>2, <3>3 DEF Next, SyncStep
  <2>3. \A p \in Plain : p \in Purchases /\ p \in 1..Last
    BY DEF Plain, Purchases
  <2> QED BY <2>1, <2>2, <2>3, Numbers DEF NothingBuried
<1> QED BY <1>2, <1>3

LEMMA OnlyReleases ==
  ASSUME TypeInv, redo = 0, Undisturbed, Next
  PROVE  redo' = 0 /\ preorder' \subseteq preorder
<1>1. CASE SyncItem
  <2>1. ASSUME NEW p \in Purchases, Returns(p)
        PROVE  UNCHANGED <<store, redownload>>
    BY <2>1 DEF Returns, SkipIgnored, SkipCrossListed, CardLookalike, CardLinkOnly, Block,
      SkipOwned, DeferCapped, DeferPreorder, SkipLocal, FetchFails, Deciding
  <2>2. UNCHANGED <<store, redownload>>
    BY <1>1, <2>1 DEF SyncItem, Returns, LinkKnown, Adopt, Fetch, Land
  <2> QED BY <2>2 DEF store, redownload
<1>2. CASE Decide \/ Open \/ Save \/ Publish \/ Passes \/ SyncFails
  BY <1>2 DEF Decide, Open, Save, Publish, Passes, SyncFails, store, redownload
<1>3. CASE RedoCommit \/ Prune \/ World
  BY <1>3 DEF RedoCommit, Prune, World, Buy, Release, Rescan, FirstScanFails, Restart, store,
    redownload
<1>4. CASE User
  BY <1>4 DEF User, PostSync, Skip, Approve, Match, Restore, Confirm, Reconcile, RedoBegin,
    ClearFolder, EraseSidecars, Undisturbed, store, redownload
<1> QED BY <1>1, <1>2, <1>3, <1>4 DEF Next, SyncStep

LEMMA InitBuried == Init => BuriedInv
<1> SUFFICES ASSUME Init PROVE BuriedInv
  OBVIOUS
<1>1. NothingBuried
  BY Numbers DEF Init, NothingBuried, Plain, Purchases
<1>2. RunInv /\ LandingInv /\ redo = 0 /\ preorder \subseteq Preorders
  BY DEF Init, NoRun, RunInv, LandingInv, Choosing
<1> QED BY <1>1, <1>2, InitFolders DEF BuriedInv

\* No sync lets go of a purchase it has not dealt with, as long as nothing that
\* was dealt with is undone and no pre-order shares its folder's name with
\* another purchase.  (_save_collection_checkpoint, sync_item, ignores.txt)
THEOREM CheckpointBuriesNothing ==
  ASSUME Undisturbed, PreordersApart
  PROVE  Spec => []NothingBuried
<1>1. TypeInv /\ BuriedInv /\ [Next]_vars => (TypeInv /\ BuriedInv)'
  <2>1. CASE UNCHANGED vars
    BY <2>1 DEF BuriedInv, NothingBuried, FoldersInv, RunInv, LandingInv, Choosing, Kept, Settled,
      HoldsSidecar, Home, Paged, TypeInv, LandsOne, SyncTypeOK, vars, store, disk, memory,
      redownload, scanner
  <2>2. ASSUME TypeInv, BuriedInv, Next
        PROVE  (TypeInv /\ BuriedInv)'
    <3>1. NothingBuried' /\ FoldersInv' /\ RunInv' /\ LandingInv'
      BY <2>2, StepBuriesNothing, StepFolders, StepRun, StepLanding DEF BuriedInv
    <3>2. redo' = 0 /\ preorder' \subseteq Preorders
      BY <2>2, OnlyReleases DEF BuriedInv
    <3> QED BY <2>2, <3>1, <3>2, StepTypes, StepLandsOne DEF TypeInv, BuriedInv
  <2> QED BY <2>1, <2>2
<1>2. BuriedInv => NothingBuried
  BY DEF BuriedInv
<1> QED BY <1>1, <1>2, InitTypeInv, InitBuried, PTL DEF Spec

(***************************************************************************)
(* Second copies.  A run knows of the copies on disk from the index, which  *)
(* the scanner fills before the first run, and of those tagged with a page  *)
(* that is not their purchase's from the snapshot it decided by.            *)
(***************************************************************************)
Misleading == RootOnly \cup OtherPage

\* What the theorem leaves out: a full sync, which holds back nothing; a
\* re-download begun before the first scan has filled the index; a first scan that
\* fails; erased sidecars; and a copy that is confirmed under the wrong page while
\* a sync runs.
CopiesInView ==
  /\ Modes \subseteq {"auto", "link"}
  /\ Deeds \cap {"redownload", "badscan", "erase"} = {}
  /\ \A p \in Misleading : "orphan" \notin Copies[p]

PastDecision == sync.pc \in {"decided", "items", "landing"}

CopyInv ==
  /\ override # "full" /\ redo = 0
  /\ Running => scan # "first"
  /\ scan # "first" =>
       \A p \in Purchases :
         /\ copy[p] \in {"waiting", "linked"} => p \in index
         /\ p \in Misleading /\ copy[p] = "waiting" => p \in waiting
  /\ PastDecision /\ ~sync.linkOnly => \A p \in Misleading : copy[p] # "waiting"
  /\ \A p \in Misleading : copy[p] # "orphan"

\* Copies are linked, and no other part of what CopyInv speaks of is lost.
LEMMA CopyKept ==
  ASSUME CopyInv, override' = override, redo' = redo, scan' = scan, waiting' = waiting,
         index \subseteq index', Running' => Running,
         \A p \in Purchases : copy'[p] = copy[p] \/ (copy'[p] = "linked" /\ p \in index'),
         PastDecision' => PastDecision /\ sync'.linkOnly = sync.linkOnly
  PROVE  CopyInv'
<1>1. \A p \in Misleading : p \in Purchases
  BY PurchasesAssumption DEF Misleading, Purchases
<1>2. (scan # "first" =>
         \A p \in Purchases :
           /\ copy[p] \in {"waiting", "linked"} => p \in index
           /\ p \in Misleading /\ copy[p] = "waiting" => p \in waiting)'
  BY DEF CopyInv
<1>3. (PastDecision /\ ~sync.linkOnly => \A p \in Misleading : copy[p] # "waiting")'
      /\ (\A p \in Misleading : copy[p] # "orphan")'
  BY <1>1 DEF CopyInv
<1> QED BY <1>2, <1>3 DEF CopyInv

LEMMA ItemCopies ==
  ASSUME TypeInv, CopyInv, SyncItem \/ Open \/ Save \/ Publish \/ SyncFails
  PROVE  CopyInv'
<1>1. UNCHANGED <<override, redo, scan, waiting>>
  <2>1. CASE SyncItem
    <3>1. ASSUME NEW p \in Purchases, Returns(p)
          PROVE  UNCHANGED <<override, redo, scan, waiting>>
      BY <3>1 DEF Returns, SkipIgnored, SkipCrossListed, CardLookalike, CardLinkOnly, Block,
        SkipOwned, DeferCapped, DeferPreorder, SkipLocal, FetchFails, Deciding, memory, scanner,
        redownload
    <3> QED BY <2>1, <3>1 DEF SyncItem, Returns, Land, LinkKnown, Adopt, Fetch, memory, scanner,
              redownload
  <2> QED BY <2>1 DEF Open, Save, Publish, SyncFails, memory, scanner, redownload
<1>2. sync \in Run /\ copy \in [Purchases -> CopyStates]
  BY DEF TypeInv, SyncTypeOK
<1>3. /\ index \subseteq index'
      /\ \A p \in Purchases : copy'[p] = copy[p] \/ (copy'[p] = "linked" /\ p \in index')
  <2>1. CASE Land
    BY <2>1 DEF Land
  <2>2. ASSUME NEW p \in Purchases, Returns(p)
        PROVE  UNCHANGED <<copy, index>>
    BY <2>2 DEF Returns, SkipIgnored, SkipCrossListed, CardLookalike, CardLinkOnly, Block,
      SkipOwned, DeferCapped, DeferPreorder, SkipLocal, FetchFails, Deciding, disk, scanner
  <2>3. ASSUME NEW p \in Purchases, LinkKnown(p) \/ Adopt(p) \/ Fetch(p)
        PROVE  /\ index \subseteq index'
               /\ \A q \in Purchases : copy'[q] = copy[q] \/ (copy'[q] = "linked" /\ q \in index')
    <3>1. CASE LinkKnown(p)
      BY <3>1 DEF LinkKnown, KnownUrl, LinkCopies, scanner
    <3>2. CASE Adopt(p)
      BY <1>2, <3>2 DEF Adopt
    <3>3. CASE Fetch(p)
      BY <3>3 DEF Fetch, scanner
    <3> QED BY <2>3, <3>1, <3>2, <3>3
  <2>4. CASE Open
    BY <2>4 DEF Open, LinkCopies
  <2>5. CASE Save \/ Publish \/ SyncFails
    BY <2>5 DEF Save, Publish, SyncFails, disk, scanner
  <2>6. CASE SyncItem
    BY <2>1, <2>2, <2>3, <2>6 DEF SyncItem, Returns
  <2> QED BY <2>4, <2>5, <2>6
<1>4. (Running' => Running) /\ (PastDecision' => PastDecision /\ sync'.linkOnly = sync.linkOnly)
  <2>1. CASE Land
    <3> DEFINE r == [Ignore(sync, sync.at) EXCEPT !.pc = "items", !.at = 0,
                                                 !.fetched = @ \cup {sync.at}]
    <3>1. r \in Run /\ r.linkOnly = sync.linkOnly
      BY <2>1, Numbers DEF Land, TypeInv, SyncTypeOK, LandsOne, Run, Ignore
    <3>2. Done(sync.at, r)
      BY <2>1 DEF Land
    <3> HIDE DEF r
    <3> QED BY <2>1, <3>1, <3>2 DEF Land, Done, Run, Running, PastDecision
  <2>2. ASSUME NEW p \in Purchases, Fetch(p)
        PROVE  (Running' => Running) /\ (PastDecision' => PastDecision /\ sync'.linkOnly = sync.linkOnly)
    <3>1. sync.pc = "items"
      BY <2>2, ReturnsConsider DEF Considering
    <3> QED BY <1>2, <2>2, <3>1 DEF Fetch, Run, Running, PastDecision
  <2>3. ASSUME NEW p \in Purchases, Returns(p) \/ LinkKnown(p) \/ Adopt(p)
        PROVE  (Running' => Running) /\ (PastDecision' => PastDecision /\ sync'.linkOnly = sync.linkOnly)
    <3>1. sync.pc = "items"
      BY <2>3, ReturnsConsider DEF Considering
    <3>2. \/ Done(p, sync)
          \/ Done(p, Ignore(sync, p))
          \/ Done(p, Card(sync, p))
          \/ Done(p, Card(Leave(sync, p), p))
          \/ Done(p, Leave(sync, p))
          \/ Done(p, [sync EXCEPT !.failed = TRUE])
      BY <2>3 DEF Returns, SkipIgnored, SkipCrossListed, CardLookalike, CardLinkOnly, Block,
        SkipOwned, DeferCapped, DeferPreorder, SkipLocal, FetchFails, LinkKnown, Adopt
    <3>3. sync'.linkOnly = sync.linkOnly
      BY <1>2, <3>2 DEF Done, Run, Ignore, Card, Leave
    <3> QED BY <3>1, <3>3 DEF Running, PastDecision
  <2>4. CASE Open
    BY <1>2, <2>4 DEF Open, Run, Running, PastDecision
  <2>5. CASE Save \/ Publish
    BY <1>2, <2>5 DEF Save, Publish, Run, Running, PastDecision
  <2>6. CASE SyncFails
    BY <2>6 DEF SyncFails, NoRun, Running, PastDecision
  <2>7. CASE SyncItem
    BY <2>1, <2>2, <2>3, <2>7 DEF SyncItem, Returns
  <2> QED BY <2>4, <2>5, <2>6, <2>7
<1> QED BY <1>1, <1>3, <1>4, CopyKept

LEMMA DecideCopies ==
  ASSUME TypeInv, CopyInv, Decide
  PROVE  CopyInv'
<1>1. /\ UNCHANGED <<redo, scan, waiting, copy, index>> /\ override' = "auto"
      /\ sync.pc = "started" /\ sync' = [sync EXCEPT !.pc = "decided", !.linkOnly = LinkOnlyMode]
  BY DEF Decide, disk, scanner, redownload
<1>2. sync'.linkOnly = LinkOnlyMode
  BY <1>1 DEF TypeInv, SyncTypeOK, Run
<1>3. \A p \in Misleading : p \in Purchases
  BY PurchasesAssumption DEF Misleading, Purchases
<1>4. scan # "first"
  BY <1>1 DEF CopyInv, Running
<1>5. ~LinkOnlyMode => waiting = {}
  BY DEF LinkOnlyMode, CopyInv, TypeInv, SyncTypeOK, AllModes
<1>6. ~LinkOnlyMode => \A p \in Misleading : copy[p] # "waiting"
  BY <1>3, <1>4, <1>5 DEF CopyInv
<1> QED BY <1>1, <1>2, <1>4, <1>6 DEF CopyInv

LEMMA PassesCopies ==
  ASSUME TypeInv, CopyInv, Passes
  PROVE  CopyInv'
<1>1. /\ override' = override /\ redo' = redo /\ sync' = NoRun
      /\ \E relinked \in {Relinkable, {}} : Pass(relinked)
  BY DEF Passes, memory, redownload
<1>2. PICK relinked : Pass(relinked)
  BY <1>1
<1>3. index' = Purchases
      /\ \A p \in Purchases : copy'[p] = "waiting" => copy[p] = "waiting" /\ p \in waiting'
  <2>1. index' = Purchases
    BY <1>2 DEF Pass
  <2>2. ASSUME NEW p \in Purchases, copy'[p] = "waiting"
        PROVE  copy[p] = "waiting" /\ p \in waiting'
    BY <1>2, <2>2 DEF Pass, NeedsLinking
  <2> QED BY <2>1, <2>2
<1>4. \A p \in Purchases : copy'[p] = "orphan" => copy[p] = "orphan"
  BY <1>2 DEF Pass
<1>5. \A p \in Misleading : p \in Purchases
  BY PurchasesAssumption DEF Misleading, Purchases
<1> QED BY <1>1, <1>3, <1>4, <1>5 DEF CopyInv, NoRun, Running, PastDecision

LEMMA UserCopies ==
  ASSUME TypeInv, CopyInv, CopiesInView, RedoCommit \/ Prune \/ User
  PROVE  CopyInv'
<1>1. sync \in Run /\ copy \in [Purchases -> CopyStates]
  BY DEF TypeInv, SyncTypeOK
<1>2. ~RedoCommit
  BY DEF RedoCommit, CopyInv
<1>3. CASE Prune
  BY <1>3, CopyKept DEF Prune, memory, scanner, disk, redownload, Running, PastDecision
<1>4. ASSUME NEW mode \in Modes, PostSync(mode) PROVE CopyInv'
  <2>1. mode # "full"
    BY DEF CopiesInView
  <2>2. /\ UNCHANGED <<redo, scan, waiting, copy, index>> /\ override' = mode /\ scan # "first"
        /\ sync' = sync \/ sync'.pc = "started"
    BY <1>4 DEF PostSync, StartRun, NoRun, disk, scanner, redownload
  <2> QED BY <2>1, <2>2 DEF CopyInv, PastDecision
<1>5. ASSUME NEW p \in Purchases, Skip(p) \/ Approve(p) \/ Match(p) \/ Restore(p)
      PROVE  CopyInv'
  <2>1. UNCHANGED <<override, redo, scan, waiting, sync>>
    BY <1>5 DEF Skip, Approve, Match, Restore, memory, scanner, redownload
  <2>2. /\ index \subseteq index'
        /\ \A q \in Purchases : copy'[q] = copy[q] \/ (copy'[q] = "linked" /\ q \in index')
    <3>1. CASE Match(p)
      BY <1>1, <3>1 DEF Match
    <3> QED BY <1>5, <3>1 DEF Skip, Approve, Restore, disk, scanner
  <2> QED BY <2>1, <2>2, CopyKept DEF Running, PastDecision
<1>6. ASSUME NEW p \in Purchases, Confirm(p) \/ Reconcile(p)
      PROVE  CopyInv'
  <2>1. /\ UNCHANGED <<override, redo, scan, sync>> /\ copy[p] = "orphan"
        /\ copy' = [copy EXCEPT ![p] = "waiting"] /\ index' = index \cup {p}
        /\ waiting \subseteq waiting'
    BY <1>6 DEF Confirm, Reconcile, memory, redownload
  <2>2. p \notin Misleading
    BY <2>1 DEF CopyInv
  <2>3. \A q \in Purchases : copy'[q] = copy[q] \/ q = p
    BY <1>1, <2>1
  <2>4. \A q \in Misleading : q \in Purchases
    BY PurchasesAssumption DEF Misleading, Purchases
  <2> QED BY <2>1, <2>2, <2>3, <2>4 DEF CopyInv, Running, PastDecision
<1>7. ASSUME NEW f \in Folders, ClearFolder(f) PROVE CopyInv'
  BY <1>7, CopyKept DEF ClearFolder, memory, scanner, redownload, Running, PastDecision
<1>8. \A p \in Purchases : ~RedoBegin(p)
  BY DEF RedoBegin, CopiesInView
<1>9. ~EraseSidecars
  BY DEF EraseSidecars, CopiesInView
<1> QED BY <1>2, <1>3, <1>4, <1>5, <1>6, <1>7, <1>8, <1>9 DEF User

LEMMA WorldCopies ==
  ASSUME TypeInv, CopyInv, CopiesInView, World
  PROVE  CopyInv'
<1>1. CASE Buy \/ \E p \in Purchases : Release(p)
  BY <1>1, CopyKept DEF Buy, Release, disk, memory, scanner, redownload, Running, PastDecision
<1>2. CASE Rescan
  <2>1. UNCHANGED <<override, redo, copy, sync>> /\ index' = Purchases /\ waiting' = NeedsLinking
    BY <1>2 DEF Rescan, disk, memory, redownload
  <2>2. (scan # "first" =>
           \A p \in Purchases :
             /\ copy[p] \in {"waiting", "linked"} => p \in index
             /\ p \in Misleading /\ copy[p] = "waiting" => p \in waiting)'
    BY <2>1 DEF NeedsLinking
  <2>3. scan' = "idle"
    BY <1>2 DEF Rescan
  <2> QED BY <2>1, <2>2, <2>3 DEF CopyInv, Running, PastDecision
<1>3. ~FirstScanFails
  BY DEF FirstScanFails, CopiesInView
<1>4. CASE Restart
  BY <1>4 DEF Restart, CopyInv, NoRun, Running, PastDecision, disk
<1> QED BY <1>1, <1>2, <1>3, <1>4 DEF World

LEMMA InitCopies ==
  ASSUME Init, CopiesInView
  PROVE  CopyInv
<1>1. \A p \in Misleading : p \in Purchases
  BY PurchasesAssumption DEF Misleading, Purchases
<1>2. \A p \in Misleading : copy[p] # "orphan"
  BY <1>1 DEF Init, InitialCopies, CopiesInView
<1> QED BY <1>2 DEF Init, CopyInv, NoRun, Running, PastDecision

\* A download that begins is of a purchase no copy of which is on disk.
LEMMA FetchIsNew ==
  ASSUME TypeInv, CopyInv, NEW p \in Purchases, Fetch(p), p \notin approved
  PROVE  copy[p] \notin {"waiting", "linked"}
<1>1. /\ Considering(p) /\ ~KnownUrl(p) /\ ~sync.linkOnly
  BY DEF Fetch, UnderCap, Allowed, Wanted, Fetchable, Unmatched, Approved
<1>2. scan # "first" /\ PastDecision
  BY <1>1 DEF Considering, CopyInv, Running, PastDecision
<1>3. ASSUME copy[p] = "linked" PROVE FALSE
  BY <1>1, <1>2, <1>3 DEF CopyInv, KnownUrl, HoldsSidecar
<1>4. ASSUME copy[p] = "waiting" PROVE FALSE
  BY <1>1, <1>2, <1>4 DEF CopyInv, KnownUrl, Misleading
<1> QED BY <1>3, <1>4

LEMMA OnlyFetchesAppear ==
  ASSUME TypeInv, Alone, Next, NEW p \in Purchases, InFlight(p)
  PROVE  Fetch(p)
<1>1. FolderOf[p] \in Folders
  BY Numbers
<1>2. CASE \A f \in Folders : folder'[f].files \subseteq folder[f].files
  <2>1. p \in folder[FolderOf[p]].files
    BY <1>1, <1>2 DEF InFlight, Home
  <2>2. folder[FolderOf[p]].files = {p}
    BY <1>1, <2>1 DEF Alone
  <2> QED BY <1>1, <1>2, <2>2 DEF InFlight, Home
<1>3. CASE \E q \in Purchases : Fetch(q)
  <2>1. PICK q \in Purchases : Fetch(q)
    BY <1>3
  <2>2. folder' = [folder EXCEPT ![FolderOf[q]].files = {q}]
    BY <2>1, FetchEntersEmpty DEF Fetch, Home
  <2>3. p = q
    BY <1>1, <2>2 DEF InFlight, Home, TypeInv, SyncTypeOK
  <2> QED BY <2>1, <2>3
<1> QED BY <1>2, <1>3, FilesAppear

\* A purchase is not downloaded beside a copy of it that is linked or waits in Needs
\* Linking, unless the user pressed Download for it, for every library and every
\* order of syncs, confirmations, reconciles and restarts.  (runner_fn: "so we never
\* re-download a copy of an album already on disk")
THEOREM CopiesAreNotRefetched ==
  ASSUME CopiesInView
  PROVE  Spec => NoCopyRefetched
<1>1. TypeInv /\ Alone /\ CopyInv /\ [Next]_vars => (TypeInv /\ Alone /\ CopyInv)'
  <2>1. CASE UNCHANGED vars
    BY <2>1 DEF CopyInv, Running, PastDecision, Alone, TypeInv, LandsOne, SyncTypeOK, vars, store,
      disk, memory, redownload, scanner
  <2>2. ASSUME TypeInv, Alone, CopyInv, Next
        PROVE  (TypeInv /\ Alone /\ CopyInv)'
    <3>1. CopyInv'
      BY <2>2, ItemCopies, DecideCopies, PassesCopies, UserCopies, WorldCopies
      DEF Next, SyncStep
    <3> QED BY <2>2, <3>1, StepTypes, StepLandsOne, StepAlone DEF TypeInv
  <2> QED BY <2>1, <2>2
<1>2. TypeInv /\ Alone /\ CopyInv /\ [Next]_vars
      => \A p \in Purchases : InFlight(p) /\ p \notin approved => copy[p] \notin {"waiting", "linked"}
  <2> SUFFICES ASSUME TypeInv, Alone, CopyInv, [Next]_vars, NEW p \in Purchases,
                      InFlight(p), p \notin approved
               PROVE  copy[p] \notin {"waiting", "linked"}
    OBVIOUS
  <2>1. Next
    BY DEF InFlight, Home, vars, disk
  <2> QED BY <2>1, OnlyFetchesAppear, FetchIsNew
<1>3. Init => TypeInv /\ Alone /\ CopyInv
  BY InitTypeInv, InitAlone, InitCopies
<1> QED BY <1>1, <1>2, <1>3, PTL DEF Spec, NoCopyRefetched

(***************************************************************************)
(* Giving up on an album.                                                   *)
(***************************************************************************)
\* With nothing that fails, MusicBrainz answers for every purchase a full page
\* lists, so what is given up on was not listed.
LEMMA SurrendersUnpaged ==
  ASSUME TypeInv, MaxFaults = 0, RootOnly = {}, Next, NEW p \in Purchases,
         copy[p] = "waiting", copy'[p] = "surrendered"
  PROVE  p > sync.top
<1>1. copy \in [Purchases -> CopyStates] /\ faults = 0 /\ sync \in Run
  BY DEF TypeInv, SyncTypeOK
<1>2. CASE Passes
  <2>1. Pass(Relinkable)
    BY <1>1, <1>2 DEF Passes
  <2>2. p \notin Relinkable /\ FullPage
    BY <2>1 DEF Pass
  <2>3. p \notin Paged /\ sync.floor = 0
    BY <2>2 DEF Relinkable, FullPage
  <2>4. p \in Nat /\ p > 0 /\ sync.top \in Int
    BY <1>1, Numbers DEF Run, Purchases
  <2> QED BY <2>3, <2>4 DEF Paged
<1>3. CASE SyncItem
  <2>1. ASSUME NEW q \in Purchases, Returns(q)
        PROVE  copy' = copy
    BY <2>1 DEF Returns, SkipIgnored, SkipCrossListed, CardLookalike, CardLinkOnly, Block,
      SkipOwned, DeferCapped, DeferPreorder, SkipLocal, FetchFails, Deciding, disk
  <2>2. ASSUME NEW q \in Purchases, LinkKnown(q) \/ Adopt(q) \/ Fetch(q)
        PROVE  copy'[p] \in {copy[p], "linked"}
    BY <1>1, <2>2 DEF LinkKnown, LinkCopies, Adopt, Fetch
  <2>3. CASE Land
    BY <2>3 DEF Land
  <2> QED BY <1>3, <2>1, <2>2, <2>3 DEF SyncItem, Returns
<1>4. CASE Decide \/ Open \/ Save \/ Publish \/ SyncFails \/ Prune \/ RedoCommit
  BY <1>1, <1>4 DEF Decide, Open, LinkCopies, Save, Publish, SyncFails, Prune, RedoCommit, disk
<1>5. CASE User
  <2>1. ASSUME NEW q \in Purchases, \/ Skip(q) \/ Approve(q) \/ Match(q) \/ Restore(q)
                                    \/ Confirm(q) \/ Reconcile(q) \/ RedoBegin(q)
        PROVE  copy'[p] # "surrendered"
    BY <1>1, <2>1 DEF Skip, Approve, Match, Restore, Confirm, Reconcile, RedoBegin, disk
  <2>2. CASE EraseSidecars
    BY <2>2 DEF EraseSidecars
  <2>3. CASE (\E mode \in Modes : PostSync(mode)) \/ \E f \in Folders : ClearFolder(f)
    BY <2>3 DEF PostSync, ClearFolder, disk
  <2> QED BY <1>5, <2>1, <2>2, <2>3 DEF User
<1>6. CASE World
  BY <1>6 DEF World, Buy, Release, Rescan, FirstScanFails, Restart, disk
<1> QED BY <1>2, <1>3, <1>4, <1>5, <1>6 DEF Next, SyncStep

\* An album whose purchase was made before the sync paged the collection is not
\* given up on, when nothing fails and every sidecar names its album's page.
\* (runner_fn: "only then is 'no matching purchase' conclusive enough to surrender")
THEOREM SurrenderIsConclusive ==
  ASSUME MaxFaults = 0, RootOnly = {}
  PROVE  Spec => SurrenderConclusive
<1>1. TypeInv /\ [Next]_vars => TypeInv'
  <2>1. CASE UNCHANGED vars
    BY <2>1 DEF TypeInv, LandsOne, SyncTypeOK, vars, store, disk, memory, redownload, scanner
  <2> QED BY <2>1, StepTypes, StepLandsOne DEF TypeInv
<1>2. TypeInv /\ [Next]_vars
      => \A p \in Purchases : copy[p] = "waiting" /\ copy'[p] = "surrendered" => p > sync.top
  <2> SUFFICES ASSUME TypeInv, [Next]_vars, NEW p \in Purchases,
                      copy[p] = "waiting", copy'[p] = "surrendered"
               PROVE  p > sync.top
    OBVIOUS
  <2>1. Next
    BY DEF vars, disk
  <2> QED BY <2>1, SurrendersUnpaged
<1> QED BY <1>1, <1>2, InitTypeInv, PTL DEF Spec, SurrenderConclusive

==============================================================================

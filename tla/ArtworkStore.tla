---------------------------- MODULE ArtworkStore ----------------------------
(***************************************************************************)
(* Replacing artwork and taking it back: tagger.apply_artwork and          *)
(* restore_artwork, the store of images they keep (artwork_store.py), and  *)
(* the history that says what each change replaced (activity_store,        *)
(* tag_history).                                                           *)
(*                                                                         *)
(* An image is its digest.  Targets are numbered in album order, an        *)
(* album's tracks before its folder cover.  Every image counts one towards *)
(* the store's cap.                                                        *)
(***************************************************************************)
EXTENDS Integers, Sequences, FiniteSets

CONSTANTS
  Images, NoImage,
  Archived,       \* images the Cover Art Archive's cache has in hand
  Targets,        \* tracks and folder covers, numbered
  AlbumOf,        \* the album a target belongs to
  Workers,        \* request threads and background passes
  Cap,            \* _max_bytes, in images
  KeepPerAlbum,   \* _keep_per_album
  MaxActions,     \* bound: artwork changes applied or undone
  MaxFaults       \* bound: failing writes, crashes, images changed by hand

ASSUME ImagesAssumption ==
  IsFiniteSet(Images) /\ NoImage \notin Images /\ Archived \subseteq Images
ASSUME TargetsAssumption == Targets \subseteq Nat /\ IsFiniteSet(Targets)
ASSUME BoundsAssumption ==
  /\ Cap \in Nat /\ KeepPerAlbum \in Nat
  /\ MaxActions \in Nat /\ MaxFaults \in Nat

VARIABLES
  art,       \* the image each target carries
  store,     \* images kept, each with how many were last referenced before it
  history,   \* tag.track details with an artwork pair, in event order
  job,       \* what each worker is doing
  actions, faults

vars == <<art, store, history, job, actions, faults>>

Art == Images \cup {NoImage}
Albums == {AlbumOf[t] : t \in Targets}
Change == [target : Targets, before : Art, after : Art]
Event == [album : Albums, action : 1..MaxActions, target : Targets, before : Art, after : Art]
Least(S) == CHOOSE t \in S : \A u \in S : t <= u

\* What a worker holds: the changes still to make, the images it was told are
\* kept, and the change it has written and not yet recorded.
Idle == [step |-> "idle", kind |-> "none", action |-> 0, todo |-> {}, kept |-> {}, done |-> {}]
Job ==
  [step : {"idle", "planned", "stored", "writing", "recording"},
   kind : {"none", "apply", "undo"},
   action : 0..MaxActions,
   todo : SUBSET Change,
   kept : SUBSET Images,
   done : SUBSET Change]

\* Nothing is kept and nothing recorded before the first change.
Init ==
  /\ art \in [Targets -> Art]
  /\ store = [i \in {} |-> 0]
  /\ history = <<>>
  /\ job = [w \in Workers |-> Idle]
  /\ actions = 0 /\ faults = 0

-----------------------------------------------------------------------------
(* The store.                                                              *)

Kept == DOMAIN store
Reranked(rank, S) == [i \in S |-> Cardinality({j \in S : rank[j] < rank[i]})]

\* One album's change, however many files it wrote, that replaced an image.
Replacements == {e \in 1..Len(history) :
  history[e].before # NoImage /\ history[e].before # history[e].after}
PerFile(e) == <<history[e].album, e>>   \* mutant: every file's change counts for itself
Unit(e) == <<history[e].album, history[e].action>>
UnitEvents(e) == {f \in Replacements : Unit(f) = Unit(e)}
Newer(e) == {Unit(f) : f \in {f \in Replacements :
  /\ history[f].album = history[e].album
  /\ \A g \in UnitEvents(e) : g < f}} \ {Unit(e)}

\* The images the retention promise covers: what each album's KeepPerAlbum
\* most recent changes replaced.
ProtectedDigests ==
  {history[e].before : e \in {e \in Replacements : Cardinality(Newer(e)) < KeepPerAlbum}}

\* What goes when the store is over its cap: the unprotected before the
\* protected, and the least recently referenced first.
Evicted(protected) ==
  LET Sooner(i, j) ==
        \/ i \notin protected /\ j \in protected
        \/ (i \in protected <=> j \in protected) /\ store[i] < store[j]
  IN {i \in Kept : Cardinality({j \in Kept : Sooner(j, i)}) < Cardinality(Kept) - Cap}

-----------------------------------------------------------------------------
(* Applying and undoing, up to the first write.                            *)

\* Every operation has an action id, which its records carry.
StartedUnnumbered(kind, plan) ==   \* mutant: outside any action
  [step |-> "planned", kind |-> kind, action |-> 0, todo |-> plan, kept |-> {}, done |-> {}]
Started(kind, plan) ==
  [step |-> "planned", kind |-> kind, action |-> actions + 1,
   todo |-> plan, kept |-> {}, done |-> {}]

\* A plan chooses an image for some of an album's targets; only those that
\* would change are changes.  A scope of additions is a choice that leaves
\* alone whatever carries an image.
Plan(chosen) ==
  {[target |-> t, before |-> art[t], after |-> chosen[t]] :
     t \in {t \in DOMAIN chosen : chosen[t] \notin {NoImage, art[t]}}}

\* A winner that the archive does not have is read from a track of the album.
InHand(plan, album) ==
  \A c \in plan :
    c.after \in Archived \/ \E t \in Targets : AlbumOf[t] = album /\ art[t] = c.after

Apply(w) ==
  /\ job[w].step = "idle"
  /\ actions < MaxActions
  /\ \E album \in Albums :
       \E chosen \in [{t \in Targets : AlbumOf[t] = album} -> Art] :
         /\ Plan(chosen) # {}
         /\ InHand(Plan(chosen), album)
         /\ job' = [job EXCEPT ![w] = Started("apply", Plan(chosen))]
  /\ actions' = actions + 1
  /\ UNCHANGED <<art, store, history, faults>>

\* artwork_revert_plan: the changes of one action, turned round.
Reverts(album, action) ==
  {[target |-> history[e].target, before |-> history[e].after, after |-> history[e].before] :
     e \in {e \in 1..Len(history) :
              history[e].album = album /\ history[e].action = action}}

\* Everything resolves before anything is written: an image to put back that is
\* not in the store refuses the undo; a target that no longer carries what the
\* change left stays as it is.
Undo(w) ==
  /\ job[w].step = "idle"
  /\ actions < MaxActions
  /\ \E album \in Albums, action \in 1..actions :
       LET plan == Reverts(album, action)
           standing == {c \in plan : art[c.target] = c.before}
       IN /\ \A c \in plan : c.after \in Kept \cup {NoImage}
          /\ standing # {}
          /\ job' = [job EXCEPT ![w] = Started("undo", standing)]
  /\ actions' = actions + 1
  /\ UNCHANGED <<art, store, history, faults>>

\* _keep_doomed_art: the images about to be overwritten, where they still are.
\* Reading and storing them is one step: nothing else looks at the store until
\* the cap is enforced.
Doomed(w) == {c \in job[w].todo : c.before # NoImage /\ art[c.target] = c.before}
DoomedImages(w) == {c.before : c \in Doomed(w)}

\* keep_all's writes: new images are stored, held ones are marked as referenced
\* now, in the order of the targets they come from.
Referenced(w, images) ==
  LET First(i) == Least({c.target : c \in {c \in Doomed(w) : c.before = i}})
      rank == [i \in Kept \cup images |->
        IF i \in images
          THEN Cardinality(Kept) + Cardinality({j \in images : First(j) < First(i)})
          ELSE store[i]]
  IN Reranked(rank, Kept \cup images)

StoreImages(w, images) ==
  /\ job[w].step = "planned"
  /\ store' = Referenced(w, images)
  /\ job' = [job EXCEPT ![w].step = "stored", ![w].kept = images]

Keep(w) ==
  /\ StoreImages(w, DoomedImages(w))
  /\ UNCHANGED <<art, history, actions, faults>>

\* Some or all of them cannot be stored: the others are.
KeepFails(w) ==
  /\ faults < MaxFaults
  /\ faults' = faults + 1
  /\ \E some \in SUBSET DoomedImages(w) : some # DoomedImages(w) /\ StoreImages(w, some)
  /\ UNCHANGED <<art, history, actions>>

\* The end of keep_all: the cap, with this operation's own images protected,
\* and then which of them are still there.  An undo that would destroy an image
\* without one is refused as a whole.
Retain(w) ==
  LET own == job[w].kept
      left == Kept \ IF own = {} THEN {} ELSE Evicted(ProtectedDigests \cup own)
      unkept == {c \in job[w].todo : c.before # NoImage /\ c.before \notin own \cap left}
  IN /\ job[w].step = "stored"
     /\ store' = Reranked(store, left)
     /\ job' = [job EXCEPT ![w] =
          IF @.kind = "undo" /\ unkept # {} THEN Idle
          ELSE [@ EXCEPT !.step = "writing", !.kept = own \cap left]]
     /\ UNCHANGED <<art, history, actions, faults>>

-----------------------------------------------------------------------------
(* The writes, in target order.                                            *)

Next1(w) == CHOOSE c \in job[w].todo : \A d \in job[w].todo : c.target <= d.target
AtWrite(w) == job[w].step = "writing" /\ job[w].todo # {}

\* No retained backup, no replacement.
LicensedAnyway(w, c) == TRUE   \* mutant: a full or unwritable store is passed over
Licensed(w, c) == c.before \in job[w].kept \cup {NoImage}

\* A target whose image is not what the plan saw, or could not be kept, is left.
Skip(w) ==
  /\ AtWrite(w)
  /\ job[w].kind = "apply"
  /\ LET c == Next1(w) IN
       /\ art[c.target] # c.before \/ ~Licensed(w, c)
       /\ job' = [job EXCEPT ![w].todo = @ \ {c}]
  /\ UNCHANGED <<art, store, history, actions, faults>>

Replace(w) ==
  /\ AtWrite(w)
  /\ job[w].kind = "apply"
  /\ LET c == Next1(w) IN
       /\ art[c.target] = c.before
       /\ Licensed(w, c)
       /\ art' = [art EXCEPT ![c.target] = c.after]
       /\ job' = [job EXCEPT ![w].step = "recording", ![w].todo = @ \ {c}, ![w].done = {c}]
  /\ UNCHANGED <<store, history, actions, faults>>

\* The detail hangs off the tag.track line, after the write.
Record(w) ==
  /\ job[w].step = "recording"
  /\ \E c \in job[w].done :
       history' = Append(history,
         [album |-> AlbumOf[c.target], action |-> job[w].action,
          target |-> c.target, before |-> c.before, after |-> c.after])
  /\ job' = [job EXCEPT ![w].step = "writing", ![w].done = {}]
  /\ UNCHANGED <<art, store, actions, faults>>

\* Recording never stops the work it records.
RecordFails(w) ==
  /\ job[w].step = "recording"
  /\ faults < MaxFaults
  /\ faults' = faults + 1
  /\ job' = [job EXCEPT ![w].step = "writing", ![w].done = {}]
  /\ UNCHANGED <<art, store, history, actions>>

\* An undo writes what it resolved; its own line carries no detail.
PutBack(w) ==
  /\ AtWrite(w)
  /\ job[w].kind = "undo"
  /\ LET c == Next1(w) IN
       /\ art' = [art EXCEPT ![c.target] = c.after]
       /\ job' = [job EXCEPT ![w].todo = @ \ {c}]
  /\ UNCHANGED <<store, history, actions, faults>>

\* One file's failure is not the apply's, but it ends an undo.
WriteFails(w) ==
  /\ AtWrite(w)
  /\ faults < MaxFaults
  /\ faults' = faults + 1
  /\ job' = [job EXCEPT ![w] =
       IF @.kind = "undo" THEN Idle ELSE [@ EXCEPT !.todo = job[w].todo \ {Next1(w)}]]
  /\ UNCHANGED <<art, store, history, actions>>

Finish(w) ==
  /\ job[w].step = "writing" /\ job[w].todo = {}
  /\ job' = [job EXCEPT ![w] = Idle]
  /\ UNCHANGED <<art, store, history, actions, faults>>

-----------------------------------------------------------------------------
\* Somebody puts another image there, or takes one off.
Edit ==
  /\ faults < MaxFaults
  /\ faults' = faults + 1
  /\ \E t \in Targets, i \in Art : i # art[t] /\ art' = [art EXCEPT ![t] = i]
  /\ UNCHANGED <<store, history, job, actions>>

Crash ==
  /\ faults < MaxFaults
  /\ \E w \in Workers : job[w] # Idle
  /\ faults' = faults + 1
  /\ job' = [w \in Workers |-> Idle]
  /\ UNCHANGED <<art, store, history, actions>>

Work(w) ==
  \/ Apply(w) \/ Undo(w) \/ Keep(w) \/ KeepFails(w) \/ Retain(w)
  \/ Skip(w) \/ Replace(w) \/ Record(w) \/ RecordFails(w)
  \/ PutBack(w) \/ WriteFails(w) \/ Finish(w)

Next == (\E w \in Workers : Work(w)) \/ Edit \/ Crash

Spec == Init /\ [][Next]_vars

-----------------------------------------------------------------------------
(* Properties.                                                             *)

ArtTypeOK ==
  /\ art \in [Targets -> Art]
  /\ Kept \subseteq Images /\ store \in [Kept -> Nat]
  /\ history \in Seq(Event)
  /\ job \in [Workers -> Job]
  /\ actions \in 0..MaxActions /\ faults \in 0..MaxFaults

\* No backup, no replacement: an apply overwrites an image only while a copy of
\* it is in the store, whatever was edited, evicted or failed since the copy
\* was made ("A digest returned means the image is still there", keep_all).
NoBackupNoReplacement ==
  [][\A w \in Workers :
       job[w].step = "writing" /\ job'[w].step = "recording"
         => \A c \in job'[w].done : c.before \in Kept \cup {NoImage}]_vars

\* The retention promise: what an album's last KeepPerAlbum replacing changes
\* replaced is there to be put back, whatever other albums needed room for.
Replaced(album) ==
  {a \in 1..actions : \E e \in 1..Len(history) :
     history[e].album = album /\ history[e].action = a /\ history[e].before # NoImage}
PromiseKept ==
  \A album \in Albums : \A a \in Replaced(album) :
    Cardinality({b \in Replaced(album) : b > a}) < KeepPerAlbum
      => \A c \in Reverts(album, a) : c.after \in Kept \cup {NoImage}

=============================================================================

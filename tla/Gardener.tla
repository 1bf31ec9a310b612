------------------------------ MODULE Gardener ------------------------------
(***************************************************************************)
(* Noticing that MusicBrainz has changed a release, and writing what the    *)
(* user trusts (gardener.py, auto_apply.py, mb_cache.py, retag.py).         *)
(*                                                                         *)
(* A payload is what MusicBrainz said of a release; Reach[p, q] is how far  *)
(* tagging files that carry p with q reaches (owned.Significance).  The     *)
(* flag of an album is the verdict of a dry run of the tagging.  Several    *)
(* threads compute it: the timed check, the apply pass, the re-check after  *)
(* a rescan or a change of settings, the warm-up, and the album's page.     *)
(***************************************************************************)
EXTENDS Integers, FiniteSets, FiniteSetsExt

CONSTANTS
  Releases, Albums,
  ReleaseOf,      \* the release each album is tagged as
  Payloads,       \* what MusicBrainz may say of a release
  Reach,          \* [Payloads \X Payloads -> Levels]
  Edits,          \* what edits MusicBrainz may see: from a payload to another, or to Nothing
  Published,      \* what it may say at first
  TaggedFrom,     \* what the files may have been tagged from
  Nothing,        \* no payload
  RecheckAfter,   \* ticks an answer is good for
  Window, Fits,   \* the sweep's window in ticks, and the most that fit one tick
  GiveUpAfter,    \* failures in a row that end a pass
  Readers,        \* who else may read a release: subset of {"page", "search"}
  Routings,       \* the settings the user may choose: [apply |-> .., review |-> ..]
  MaxDeeds        \* bound on failures and on what the user does, together

\* owned.ORDER, with 0 for nothing outstanding
NoUpdate == 0
Settings == 1
Cosmetic == 2
Structure == 5
Levels == NoUpdate..Structure
Spellings == {"release", "mine"}

ASSUME GardenerConstants ==
  /\ ReleaseOf \in [Albums -> Releases]
  /\ Reach \in [Payloads \X Payloads -> Levels \ {Settings}]
  /\ \A p \in Payloads : Reach[<<p, p>>] = NoUpdate
  /\ Nothing \notin Payloads
  /\ RecheckAfter \in Nat \ {0} /\ Window \in Nat \ {0} /\ Fits \in Nat \ {0}
  /\ GiveUpAfter \in Nat \ {0} /\ Readers \subseteq {"page", "search"}
  /\ Routings \subseteq [apply : Levels \ {Structure}, review : Levels] /\ Routings # {}
  /\ Edits \subseteq Payloads \X (Payloads \cup {Nothing}) /\ MaxDeeds \in Nat
  /\ Published \subseteq Payloads /\ TaggedFrom \subseteq Payloads

VARIABLES
  mb,       \* what MusicBrainz holds, Nothing once the release is deleted
  stored,   \* the row of mb_release_cache, kept for ever
  fetched,  \* ticks since the row was stored, up to RecheckAfter
  asked,    \* ticks since this process last asked, up to RecheckAfter
  files,    \* the tags on disk: whose payload, in whose spelling
  short,    \* albums with tracks missing
  edited,   \* albums another tool has written since they were last read
  flag,     \* what the snapshot's Album says: version and level
  ignored,  \* the version the user pressed Ignore at
  held,     \* the version an update was held at
  setting,  \* the user's spelling
  trust,    \* apply_up_to; NoUpdate is "none"
  review,   \* review_from; NoUpdate is "none"
  failures, \* _consecutive_failures
  timer,    \* the ticks that have fired and not been served
  sweep,    \* the check's thread
  pass,     \* the apply pass's thread
  looks,    \* re-checks and page views under way: an album, and the payload read
  told,     \* albums announced, and outstanding ever since
  faults, deeds

vars == <<mb, stored, fetched, asked, files, short, edited, flag, ignored, held, setting, trust,
          review, failures, timer, sweep, pass, looks, told, faults, deeds>>

choices == <<ignored, setting, trust, review, deeds>>
cache == <<stored, fetched>>
disc == <<short, edited>>

\* A version is a payload: the hash names it (release_version)
Versions == Payloads \cup {Nothing}
Blank == [version |-> Nothing, level |-> NoUpdate]
Unread == [read |-> FALSE, payload |-> Nothing]
NoSweep == [at |-> "idle", todo |-> {}, release |-> Nothing, before |-> Nothing,
            payload |-> Nothing, albums |-> {}, dead |-> {}, news |-> {}]
NoPass == [at |-> "idle", kind |-> "auto", todo |-> {}, album |-> Nothing, payload |-> Nothing,
           wrote |-> FALSE, trust |-> NoUpdate, spelt |-> "release", shown |-> Nothing, dead |-> {}]

Init ==
  /\ mb \in [Releases -> Published]
  /\ stored = [r \in Releases |-> Nothing]
  /\ fetched = [r \in Releases |-> RecheckAfter]
  /\ asked = [r \in Releases |-> RecheckAfter]
  /\ files \in [Albums -> [of : TaggedFrom, spelt : {"release"}]]
  /\ short = {} /\ edited = {} /\ flag = [a \in Albums |-> Blank]
  /\ ignored = [a \in Albums |-> Nothing]
  /\ held = [a \in Albums |-> [is |-> FALSE, version |-> Nothing]]
  /\ setting = "release" /\ \E r \in Routings : trust = r.apply /\ review = r.review
  /\ failures = 0 /\ timer = {}
  /\ sweep = NoSweep /\ pass = NoPass /\ looks = {} /\ told = {}
  /\ faults = 0 /\ deeds = 0

-----------------------------------------------------------------------------
(* The verdict, and where an update goes                                   *)

\* A tracklist that does not fit has no plan, and is Structure.  Otherwise the
\* furthest-reaching entry of the plan wins; a file in the other spelling is an
\* entry of its own.
Verdict(tags, p, s) ==
  Max({Reach[<<tags.of, p>>], IF tags.spelt = s THEN NoUpdate ELSE Settings})

FromMusicBrainz(level) == level > Settings

Applies(level, upTo) == upTo # NoUpdate /\ level # Structure /\ level <= upTo
Reviews(level, from) == from # NoUpdate /\ level >= from
BoundForReview(level) == Reviews(level, review) /\ ~Applies(level, trust)

IsIgnored(f, bookmark) == bookmark # Nothing /\ bookmark = f.version /\ f.level # Settings

IsHeld(a) == held[a].is /\ held[a].version = flag[a].version

\* waiting_at: the level an album waits at, NoUpdate when it does not
WaitingAt(f, bookmark) == IF IsIgnored(f, bookmark) THEN NoUpdate ELSE f.level

\* auto_apply.due, and the Inbox's for_review
DueForApply ==
  {a \in Albums : LET level == WaitingAt(flag[a], ignored[a])
                  IN level # NoUpdate /\ Applies(level, trust) /\ ~IsHeld(a)}
ForReview ==
  {a \in Albums : LET level == WaitingAt(flag[a], ignored[a])
                  IN /\ level # NoUpdate
                     /\ IF Applies(level, trust) THEN IsHeld(a) ELSE Reviews(level, review)}

\* `told` is kept for the properties: an album leaves it when nothing from
\* MusicBrainz is outstanding on it any more
Outstanding(a, kept, tags, s) ==
  kept[ReleaseOf[a]] # Nothing /\ FromMusicBrainz(Verdict(tags[a], kept[ReleaseOf[a]], s))
Tell(named) ==
  told' = {a \in told \cup named : Outstanding(a, stored', files', setting')}

-----------------------------------------------------------------------------
(* The check: which releases, and how many a tick                           *)

Older(t) == IF t < RecheckAfter THEN t + 1 ELSE t

\* _last_look: the later of the row's stamp and the request's
Age(r) == Min({fetched[r], asked[r]})
Due == {r \in Releases : Age(r) >= RecheckAfter}

\* mutant: rounded down
SliceDown(n) == Min({n \div Window, Fits})

\* A tick's share of the window, rounded up, and no more than fits the tick
SliceSize(n) == Min({(n + Window - 1) \div Window, Fits})

Tick ==
  /\ timer = {}
  /\ timer' = {"check", "apply"}
  /\ fetched' = [r \in Releases |-> Older(fetched[r])]
  /\ asked' = [r \in Releases |-> Older(asked[r])]
  /\ UNCHANGED <<stored, files, flag, held, failures, sweep, pass, looks, faults, disc>>
  /\ UNCHANGED mb /\ UNCHANGED choices
  /\ Tell({})

\* _update_check_if_idle: the stalest of what is due, with the albums of the
\* snapshot; a pass still running refuses a second
StartSweep ==
  /\ "check" \in timer
  /\ timer' = timer \ {"check"}
  /\ \/ /\ sweep.at = "idle"
        /\ \E todo \in kSubset(SliceSize(Cardinality(Due)), Due) :
             sweep' = [NoSweep EXCEPT !.at = "next", !.todo = todo]
     \/ sweep.at # "idle" /\ UNCHANGED sweep
  /\ UNCHANGED <<asked, files, flag, held, failures, pass, looks, faults, disc>>
  /\ UNCHANGED cache /\ UNCHANGED mb /\ UNCHANGED choices
  /\ Tell({})

\* The baseline is read before the fetch, which replaces the row; the request is
\* counted whatever comes of it
Ask ==
  /\ sweep.at = "next"
  /\ \E r \in sweep.todo :
       /\ sweep' = [sweep EXCEPT !.at = "fetch", !.release = r, !.todo = @ \ {r},
                                 !.before = stored[r]]
       /\ asked' = [asked EXCEPT ![r] = 0]
  /\ UNCHANGED <<files, flag, held, failures, timer, pass, looks, faults, disc>>
  /\ UNCHANGED cache /\ UNCHANGED mb /\ UNCHANGED choices
  /\ Tell({})

\* On to the next release; nothing of this one is kept but what it brought
Dealt(news) == [NoSweep EXCEPT !.at = "next", !.todo = sweep.todo, !.dead = sweep.dead, !.news = news]

\* The rest of the release's albums, or the next release
Past(a, news) == IF sweep.albums = {a} THEN Dealt(news)
                 ELSE [sweep EXCEPT !.albums = @ \ {a}, !.news = news]

\* A 404 is an answer: nothing is stored, and the run of failures ends
FetchGone ==
  /\ sweep.at = "fetch" /\ mb[sweep.release] = Nothing
  /\ failures' = 0
  /\ sweep' = Dealt(sweep.news)
  /\ UNCHANGED <<asked, files, flag, held, timer, pass, looks, faults, disc>>
  /\ UNCHANGED cache /\ UNCHANGED mb /\ UNCHANGED choices
  /\ Tell({})

\* Failures count across passes; enough in a row end the pass
FetchFails ==
  /\ sweep.at = "fetch" /\ faults + deeds < MaxDeeds
  /\ faults' = faults + 1
  /\ failures' = Min({failures + 1, GiveUpAfter})
  /\ sweep' = [Dealt(sweep.news) EXCEPT !.todo = IF failures + 1 >= GiveUpAfter THEN {} ELSE @]
  /\ UNCHANGED <<asked, files, flag, held, timer, pass, looks, disc>>
  /\ UNCHANGED cache /\ UNCHANGED mb /\ UNCHANGED choices
  /\ Tell({})

\* The row is replaced; an unchanged release ends there, with no file read
Examined(before, p, group) == IF before = p THEN {} ELSE group
Group(r) == {a \in Albums : ReleaseOf[a] = r}

FetchAnswers ==
  LET r == sweep.release IN
  /\ sweep.at = "fetch" /\ mb[r] # Nothing
  /\ stored' = [stored EXCEPT ![r] = mb[r]]
  /\ fetched' = [fetched EXCEPT ![r] = 0]
  /\ failures' = 0
  /\ sweep' = LET examined == Examined(sweep.before, mb[r], Group(r))
              IN IF examined = {} THEN Dealt(sweep.news)
                 ELSE [sweep EXCEPT !.at = "judge", !.payload = mb[r], !.albums = examined]
  /\ UNCHANGED <<asked, files, flag, held, timer, pass, looks, faults, disc>>
  /\ UNCHANGED mb /\ UNCHANGED choices
  /\ Tell({})

\* The Album a thread was handed; a rescan may have put another in its place, and
\* then what the thread records is seen by nobody (dead: the objects replaced)
Own(a, dead) == IF \E d \in dead : d.album = a THEN (CHOOSE d \in dead : d.album = a).flag
                ELSE flag[a]
Replaced(dead, a) == IF \E d \in dead : d.album = a THEN dead
                     ELSE dead \cup {[album |-> a, flag |-> flag[a]]}

\* mutant: what the flag says, whichever version it was judged against
FlaggedBefore(a, before) == before = Nothing \/ FromMusicBrainz(Own(a, sweep.dead).level)

\* _already_outstanding: by the flag if it was judged against the same baseline,
\* by the files otherwise; with no baseline nothing is news
AlreadyOutstanding(a, before) ==
  \/ before = Nothing
  \/ FromMusicBrainz(IF Own(a, sweep.dead).version = before THEN Own(a, sweep.dead).level
                     ELSE Verdict(files[a], before, setting))

\* What judging an album against a payload leaves on the snapshot's Album
Judged(a, p) == [version |-> p, level |-> Verdict(files[a], p, setting)]
\* mutant: judged against this version already, so not judged again
RecordedOnce(a, p, dead) ==
  IF flag[a].version = p \/ \E d \in dead : d.album = a THEN flag ELSE [flag EXCEPT ![a] = Judged(a, p)]

Recorded(a, p, dead) == IF \E d \in dead : d.album = a THEN flag ELSE [flag EXCEPT ![a] = Judged(a, p)]

SweepJudge ==
  /\ sweep.at = "judge"
  /\ \E a \in sweep.albums :
       LET level == Verdict(files[a], sweep.payload, setting)
           new == FromMusicBrainz(level) /\ ~AlreadyOutstanding(a, sweep.before)
       IN /\ flag' = Recorded(a, sweep.payload, sweep.dead)
          /\ sweep' = Past(a, sweep.news \cup (IF new THEN {[album |-> a, level |-> level]} ELSE {}))
  /\ UNCHANGED <<asked, files, held, failures, timer, pass, looks, faults, disc>>
  /\ UNCHANGED cache /\ UNCHANGED mb /\ UNCHANGED choices
  /\ Tell({})

\* _record_digest: what is new and bound for the Inbox is named in the feed
Named == {n.album : n \in {m \in sweep.news :
            BoundForReview(IF \E d \in sweep.dead : d.album = m.album THEN m.level ELSE flag[m.album].level)}}
Digest ==
  /\ sweep.at = "next" /\ sweep.todo = {}
  /\ sweep' = NoSweep
  /\ UNCHANGED <<asked, files, flag, held, failures, timer, pass, looks, faults, disc>>
  /\ UNCHANGED cache /\ UNCHANGED mb /\ UNCHANGED choices
  /\ Tell(Named)

\* A file that cannot be read says nothing: the flag stays as it was
Unreadable ==
  /\ faults + deeds < MaxDeeds
  /\ faults' = faults + 1
  /\ \/ /\ sweep.at = "judge"
        /\ \E a \in sweep.albums : sweep' = Past(a, sweep.news)
        /\ UNCHANGED looks
     \/ /\ \E l \in looks : l.got.read /\ looks' = looks \ {l}
        /\ UNCHANGED sweep
  /\ UNCHANGED <<asked, files, flag, held, failures, timer, pass, disc>>
  /\ UNCHANGED cache /\ UNCHANGED mb /\ UNCHANGED choices
  /\ Tell({})

-----------------------------------------------------------------------------
(* Re-checks from the store, and pages                                      *)

\* The stored payload is read before the loop waits for the web server to go
\* idle, and used after (_refresh_from_cache); with none there is nothing to do
ReadStored(l) ==
  /\ ~l.got.read
  /\ LET p == stored[ReleaseOf[l.album]]
     IN looks' = (looks \ {l}) \cup
                   (IF p = Nothing THEN {}
                    ELSE {[l EXCEPT !.got = [read |-> TRUE, payload |-> p]]})
  /\ UNCHANGED <<asked, files, flag, held, failures, timer, sweep, pass, faults, disc>>
  /\ UNCHANGED cache /\ UNCHANGED mb /\ UNCHANGED choices
  /\ Tell({})

\* refresh_flag, under _flag_lock from the setting to the verdict
RecordFlag(l) ==
  /\ l.got.read
  /\ flag' = Recorded(l.album, l.got.payload, {})
  /\ looks' = looks \ {l}
  /\ UNCHANGED <<asked, files, held, failures, timer, sweep, pass, faults, disc>>
  /\ UNCHANGED cache /\ UNCHANGED mb /\ UNCHANGED choices
  /\ Tell({})

\* An album page renders the stored payload at any age, or one it has fetched
OpenPage(a) ==
  LET r == ReleaseOf[a] IN
  /\ "page" \in Readers /\ faults + deeds < MaxDeeds
  /\ deeds' = deeds + 1
  /\ \/ stored[r] # Nothing /\ UNCHANGED cache
     \/ /\ mb[r] # Nothing
        /\ stored' = [stored EXCEPT ![r] = mb[r]]
        /\ fetched' = [fetched EXCEPT ![r] = 0]
  /\ looks' = looks \cup
                {[album |-> a, got |-> [read |-> TRUE, payload |-> stored'[r]]]}
  /\ UNCHANGED <<asked, files, flag, held, failures, timer, sweep, pass, faults,
                 ignored, setting, trust, review, disc>>
  /\ UNCHANGED mb
  /\ Tell({})

\* A search, or the mis-tag pass: the row is replaced and no flag is looked at
FetchElsewhere(r) ==
  /\ "search" \in Readers /\ faults + deeds < MaxDeeds /\ mb[r] # Nothing
  /\ deeds' = deeds + 1
  /\ stored' = [stored EXCEPT ![r] = mb[r]]
  /\ fetched' = [fetched EXCEPT ![r] = 0]
  /\ UNCHANGED <<asked, files, flag, held, failures, timer, sweep, pass, looks, faults,
                 ignored, setting, trust, review, disc>>
  /\ UNCHANGED mb
  /\ Tell({})

-----------------------------------------------------------------------------
(* The apply pass                                                           *)

\* Publishing an album whose files were written makes it another object, with
\* no flag, re-judged by the rebuilt re-check (scan_runner.set_on_rebuilt)
Rebuild(a) ==
  /\ flag' = [flag EXCEPT ![a] = Blank]
  /\ looks' = {l \in looks : l.album # a} \cup {[album |-> a, got |-> Unread]}
  /\ sweep' = [sweep EXCEPT !.dead = IF sweep.at = "idle" THEN @ ELSE Replaced(@, a)]
  /\ edited' = edited \ {a}

\* apply_due: what waits in the apply range when it begins, by the ignores and
\* the settings it was handed
StartApply ==
  /\ "apply" \in timer
  /\ timer' = timer \ {"apply"}
  /\ \/ /\ pass.at = "idle" /\ trust # NoUpdate
        /\ pass' = [NoPass EXCEPT !.at = "next", !.trust = trust, !.spelt = setting,
                                  !.todo = DueForApply]
     \/ (pass.at # "idle" \/ trust = NoUpdate) /\ UNCHANGED pass
  /\ UNCHANGED <<asked, files, flag, held, failures, sweep, looks, faults, disc>>
  /\ UNCHANGED cache /\ UNCHANGED mb /\ UNCHANGED choices
  /\ Tell({})

\* claim: the albums the user selected in the Inbox, each at the version its card
\* showed.  Refused while another pass is writing
Claim ==
  /\ pass.at = "idle" /\ faults + deeds < MaxDeeds
  /\ deeds' = deeds + 1
  /\ \E chosen \in SUBSET {a \in ForReview : flag[a].level # Structure} \ {{}} :
       pass' = [NoPass EXCEPT !.at = "next", !.kind = "chosen", !.todo = chosen, !.spelt = setting,
                              !.shown = [a \in chosen |-> flag[a].version]]
  /\ UNCHANGED <<asked, files, flag, held, failures, timer, sweep, looks, faults,
                 ignored, setting, trust, review, disc>>
  /\ UNCHANGED cache /\ UNCHANGED mb
  /\ Tell({})

\* mutant: what was due at the start of the pass still is
NeverRefuses(a, p) == pass.kind = "chosen" /\ p # pass.shown[a]

\* What the pass's own Album says, re-judged against the stored release
Refuses(a, p) ==
  LET level == Verdict(files[a], p, setting)
  IN IF pass.kind = "auto"
     THEN ~Applies(level, pass.trust) \/ a \in short
     ELSE \/ p # pass.shown[a]
          \/ level > Own(a, pass.dead).level

\* mutant: refused, and not remembered
NotHeld(a, version) == held

\* _apply_one and _apply_chosen_one up to the write.  No release stored, or one
\* that asks more than was allowed: an automatic update is held, a chosen one
\* reported.  Nothing outstanding: nothing to do
HoldAt(a, version) == [held EXCEPT ![a] = [is |-> TRUE, version |-> version]]
Free(a) == [held EXCEPT ![a] = [is |-> FALSE, version |-> Nothing]]

Consider ==
  /\ pass.at = "next"
  /\ \E a \in pass.todo :
       LET p == stored[ReleaseOf[a]]
           own == Own(a, pass.dead)
           gone == /\ pass.kind = "chosen"
                   /\ own.version # pass.shown[a] \/ own.level \in {NoUpdate, Structure}
           nothing == p # Nothing /\ Verdict(files[a], p, setting) = NoUpdate
           write == ~gone /\ p # Nothing /\ ~nothing /\ ~Refuses(a, p)
       IN /\ flag' = IF gone \/ p = Nothing THEN flag ELSE Recorded(a, p, pass.dead)
          /\ held' = IF pass.kind = "chosen" \/ write THEN held
                     ELSE IF p = Nothing THEN HoldAt(a, own.version)
                     ELSE IF nothing THEN Free(a) ELSE HoldAt(a, p)
          /\ pass' = [pass EXCEPT !.at = IF write THEN "write" ELSE "publish",
                                  !.album = a, !.payload = p, !.wrote = FALSE,
                                  !.todo = @ \ {a}]
  /\ UNCHANGED <<asked, files, failures, timer, sweep, looks, faults, disc>>
  /\ UNCHANGED cache /\ UNCHANGED mb /\ UNCHANGED choices
  /\ Tell({})

\* mutant: written from whatever was judged, without asking the store again
AnyRelease == TRUE

\* tag_with_release: the reviewed release, or none; in the spelling of the
\* settings the pass was handed.  The Ignore of the album goes, and its hold
Reviewed == stored[ReleaseOf[pass.album]] = pass.payload

WriteTags ==
  LET a == pass.album IN
  /\ pass.at = "write" /\ Reviewed
  /\ files' = [files EXCEPT ![a] = [of |-> pass.payload, spelt |-> pass.spelt]]
  /\ flag' = IF \E d \in pass.dead : d.album = a THEN flag
             ELSE [flag EXCEPT ![a] = [version |-> pass.payload,
                     level |-> Verdict(files'[a], pass.payload, setting)]]
  /\ ignored' = [ignored EXCEPT ![a] = Nothing]
  /\ held' = IF pass.kind = "auto" THEN Free(a) ELSE held
  /\ pass' = [pass EXCEPT !.at = "publish", !.wrote = files' # files]
  /\ UNCHANGED <<asked, failures, timer, sweep, looks, faults, setting, trust, review, deeds, disc>>
  /\ UNCHANGED cache /\ UNCHANGED mb
  /\ Tell({})

\* The release moved since it was judged, or a file could not be written: held
\* until MusicBrainz moves, or reported
WriteFails ==
  LET a == pass.album IN
  /\ pass.at = "write"
  /\ \/ ~Reviewed /\ UNCHANGED faults
     \/ faults + deeds < MaxDeeds /\ faults' = faults + 1
  /\ flag' = Recorded(a, pass.payload, pass.dead)
  /\ held' = IF pass.kind = "auto" THEN HoldAt(a, pass.payload) ELSE held
  /\ pass' = [pass EXCEPT !.at = "publish"]
  /\ UNCHANGED <<asked, files, failures, timer, sweep, looks, disc>>
  /\ UNCHANGED cache /\ UNCHANGED mb /\ UNCHANGED choices
  /\ Tell({})

\* on_processed: the folder is read again whatever happened; only a change on
\* disk makes another Album of it.  The last album ends the pass
PublishApplied ==
  LET a == pass.album IN
  /\ pass.at = "publish"
  /\ IF pass.wrote \/ a \in edited THEN Rebuild(a)
     ELSE UNCHANGED <<flag, looks, sweep, edited>>
  /\ pass' = [pass EXCEPT !.at = "next", !.album = Nothing, !.payload = Nothing, !.wrote = FALSE]
  /\ UNCHANGED <<asked, files, short, held, failures, timer, faults>>
  /\ UNCHANGED cache /\ UNCHANGED mb /\ UNCHANGED choices
  /\ Tell({})

EndPass ==
  /\ pass.at = "next" /\ pass.todo = {}
  /\ pass' = NoPass
  /\ UNCHANGED <<asked, files, flag, held, failures, timer, sweep, looks, faults, disc>>
  /\ UNCHANGED cache /\ UNCHANGED mb /\ UNCHANGED choices
  /\ Tell({})

-----------------------------------------------------------------------------
(* MusicBrainz, the owner's other tools, and the user                       *)

Moves(r) ==
  /\ \E p \in Versions : <<mb[r], p>> \in Edits /\ mb' = [mb EXCEPT ![r] = p]
  /\ UNCHANGED <<asked, files, flag, held, failures, timer, sweep, pass, looks, faults, disc>>
  /\ UNCHANGED cache /\ UNCHANGED choices
  /\ Tell({})

Deed ==
  /\ faults + deeds < MaxDeeds
  /\ deeds' = deeds + 1
  /\ UNCHANGED cache /\ UNCHANGED mb /\ UNCHANGED <<asked, failures, faults>>

\* Another tool tags an album from MusicBrainz, or takes a track; the rescan that sees it
\* comes later
Edit(a) ==
  /\ Deed
  /\ \/ /\ mb[ReleaseOf[a]] \notin {Nothing, files[a].of}
        /\ files' = [files EXCEPT ![a].of = mb[ReleaseOf[a]]] /\ UNCHANGED short
     \/ short' = short \cup {a} /\ UNCHANGED files
  /\ edited' = edited \cup {a}
  /\ UNCHANGED <<flag, held, timer, sweep, pass, looks, ignored, setting, trust, review>>
  /\ Tell({})

Rescan(a) ==
  /\ a \in edited
  /\ Rebuild(a)
  /\ pass' = [pass EXCEPT !.dead = IF pass.at = "idle" THEN @ ELSE Replaced(@, a)]
  /\ UNCHANGED <<asked, files, short, held, failures, timer, faults>>
  /\ UNCHANGED cache /\ UNCHANGED mb /\ UNCHANGED choices
  /\ Tell({})

\* The page's checkbox, both ways: a bookmark of the version on offer
Ignore(a) ==
  /\ Deed
  /\ \/ /\ flag[a].level > Settings /\ ignored[a] = Nothing
        /\ ignored' = [ignored EXCEPT ![a] = flag[a].version]
     \/ /\ ignored[a] # Nothing
        /\ ignored' = [ignored EXCEPT ![a] = Nothing]
  /\ UNCHANGED <<files, disc, flag, held, timer, sweep, pass, looks, setting, trust, review>>
  /\ Tell({})

\* Settings: a new spelling re-judges every album it can move, and what it finds
\* may be applied at once; new thresholds apply from the next pass
ChooseSpelling ==
  /\ Deed
  /\ \E s \in Spellings \ {setting} : setting' = s
  /\ looks' = looks \cup {[album |-> a, got |-> Unread] :
                            a \in {b \in Albums : stored[ReleaseOf[b]] # Nothing}}
  /\ timer' = timer \cup {"apply"}
  /\ UNCHANGED <<files, disc, flag, held, sweep, pass, ignored, trust, review>>
  /\ Tell({})

Route ==
  /\ Deed
  /\ \E r \in Routings : trust' = r.apply /\ review' = r.review
  /\ <<trust', review'>> # <<trust, review>>
  /\ timer' = timer \cup {"apply"}
  /\ UNCHANGED <<files, disc, flag, held, sweep, pass, looks, ignored, setting>>
  /\ Tell({})

\* A sync or a reconcile is running when a tick comes: it is skipped
Busy ==
  /\ Deed
  /\ timer # {} /\ timer' = {}
  /\ UNCHANGED <<files, disc, flag, held, sweep, pass, looks, ignored, setting, trust, review>>
  /\ Tell({})

\* Everything but the store, the files and the settings goes; the warm-up
\* re-judges every album from its stored release
Restart ==
  /\ faults + deeds < MaxDeeds
  /\ deeds' = deeds + 1
  /\ asked' = [r \in Releases |-> RecheckAfter]
  /\ flag' = [a \in Albums |-> Blank]
  /\ held' = [a \in Albums |-> [is |-> FALSE, version |-> Nothing]]
  /\ failures' = 0 /\ timer' = {} /\ edited' = {}
  /\ sweep' = NoSweep /\ pass' = NoPass
  /\ looks' = {[album |-> a, got |-> Unread] : a \in Albums}
  /\ UNCHANGED <<files, short, faults, ignored, setting, trust, review>>
  /\ UNCHANGED cache /\ UNCHANGED mb
  /\ Tell({})

SweepStep ==
  \/ Ask \/ FetchGone \/ FetchAnswers \/ SweepJudge \/ Digest
PassStep ==
  \/ Consider \/ WriteTags \/ PublishApplied \/ EndPass
LookStep(a) == \E l \in looks : l.album = a /\ (ReadStored(l) \/ RecordFlag(l))

Next ==
  \/ Tick \/ StartSweep \/ StartApply
  \/ SweepStep \/ PassStep \/ \E a \in Albums : LookStep(a)
  \/ FetchFails \/ Unreadable \/ WriteFails
  \/ Claim \/ ChooseSpelling \/ Route \/ Busy \/ Restart
  \/ \E a \in Albums : OpenPage(a) \/ Edit(a) \/ Rescan(a) \/ Ignore(a)
  \/ \E r \in Releases : FetchElsewhere(r) \/ Moves(r)

Spec == Init /\ [][Next]_vars
FairSpec ==
  /\ Spec
  /\ WF_vars(Tick) /\ WF_vars(StartSweep) /\ WF_vars(StartApply)
  /\ WF_vars(SweepStep) /\ WF_vars(PassStep \/ WriteFails)
  /\ \A a \in Albums : WF_vars(LookStep(a)) /\ WF_vars(Rescan(a))
-----------------------------------------------------------------------------
(* Properties                                                               *)

\* Whatever threads judged an album, and in whatever order, its flag is the
\* verdict on the files it has, in the spelling in force, against the version the
\* flag names; short of that a rescan or a re-check of it is still to come, or
\* the pass that has just written it has yet to publish it.  Where a file could not
\* be read, what MusicBrainz asks is still exact, and the spelling may not be.
\* (gardener.py refresh_flag's lock, the re-checks after a rescan and a change of settings.)
FlagHonest ==
  \A a \in Albums :
    \/ flag[a].version = Nothing
    \/ a \in edited \/ (pass.wrote /\ pass.album = a) \/ \E l \in looks : l.album = a
    \/ LET level == Verdict(files[a], flag[a].version, setting)
       IN /\ Max({flag[a].level, Settings}) = Max({level, Settings})
          /\ faults = 0 => flag[a].level = level

\* No write goes past what was allowed: an automatic one changes no more than the
\* user trusts, never the tracklist, and never an album with tracks missing; one
\* chosen in the Inbox writes the version on its card.  Either way the release
\* written is the one stored when the files are, and the album not one that
\* another tool changed after it was judged.  (auto_apply.py _apply_one,
\* _apply_chosen_one, tagger's reviewed release.)
WritesAsAllowed ==
  [][\A a \in Albums :
       /\ files'[a] # files[a] /\ pass.at = "write" /\ pass'.at = "publish"
       /\ a \notin edited /\ ~\E d \in pass.dead : d.album = a
       => LET p == files'[a].of
              level == Verdict(files[a], p, pass.spelt)
          IN /\ p = stored[ReleaseOf[a]]
             /\ IF pass.kind = "auto"
                THEN level # Structure /\ level <= pass.trust /\ a \notin short
                ELSE p = pass.shown[a]]_vars

\* The feed names an album when an update for it appears and not again while that
\* update, or a later one on top of it, is still outstanding: not after a restart,
\* nor when the page fetched the release first, nor when a rescan replaced the
\* album half way.  (gardener.py _already_outstanding and _record_digest.)
AnnouncedOnce == [][sweep.at = "next" /\ sweep'.at = "idle" /\ deeds' = deeds => Named \cap told = {}]_vars

\* Every release comes round: whatever failed, none stays due.
\* (gardener.py's slices, oldest first, and its giving up.)
QueueDrains == \A r \in Releases : []<>(r \notin Due)

\* What the user trusts is written or held: however MusicBrainz moved and the user
\* chose, the apply pass does not leave, for ever, an update that it may write.
TrustedSettle == []<>(DueForApply = {})
=============================================================================

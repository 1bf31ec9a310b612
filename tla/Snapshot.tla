------------------------------ MODULE Snapshot ------------------------------
(***************************************************************************)
(* What the library snapshot promises, whatever reads and publishes it:     *)
(* every entry is a version its directory has had on disk, nothing from the *)
(* future and nothing invented, and a snapshot that disagrees with a        *)
(* library left alone is brought up to date.                                *)
(***************************************************************************)
EXTENDS Integers

CONSTANTS Dirs, MaxVersion

VARIABLES
  disk,     \* each directory's current version, and whether it holds an album
  scanned   \* the version the snapshot shows of each directory, 0 for none

Truth(d) == IF disk[d].here THEN disk[d].ver ELSE 0

Init ==
  /\ disk \in [Dirs -> [ver : {1}, here : BOOLEAN]]
  /\ scanned = [d \in Dirs |-> 0]

Edit(d) ==
  /\ disk[d].ver < MaxVersion
  /\ disk' \in {[disk EXCEPT ![d] = [ver |-> @.ver + 1, here |-> here]] :
                  here \in BOOLEAN}
  /\ UNCHANGED scanned

Publish ==
  /\ scanned' \in [Dirs -> 0..MaxVersion]
  /\ \A d \in Dirs : scanned'[d] <= disk[d].ver
  /\ UNCHANGED disk

CatchUp == Publish /\ \A d \in Dirs : scanned'[d] = Truth(d)

Next == (\E d \in Dirs : Edit(d)) \/ Publish

Safety == Init /\ [][Next]_<<disk, scanned>>
Spec == Safety /\ WF_<<disk, scanned>>(CatchUp)

=============================================================================

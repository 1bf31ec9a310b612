--------------------------- MODULE MCBandcampSync ---------------------------
(***************************************************************************)
(* Instances of BandcampSync for TLC.                                       *)
(***************************************************************************)
EXTENDS BandcampSync

\* Each purchase has a folder of its own, or all share one name
OwnFolders == [p \in 1..Last |-> p]
OneFolder == [p \in 1..Last |-> 1]

\* What the user's copies may be
NoCopies == [p \in 1..Last |-> {}]
OrphanCopies == [p \in 1..Last |-> {"orphan"}]
WaitingCopies == [p \in 1..Last |-> {"waiting"}]
LinkedCopies == [p \in 1..Last |-> {"linked"}]

\* A copy known from the start by another page, and one confirmed later
LibraryCopies == [p \in 1..Last |-> IF p = 1 THEN {"waiting", "linked"}
                                    ELSE {"orphan", "waiting"}]
=============================================================================

--------------------------- MODULE MCArtworkStore ---------------------------
(* ArtworkStore for TLC: which album each target belongs to.                  *)
EXTENDS ArtworkStore, TLC

OneAlbum == [t \in Targets |-> "a"]
TwoAlbums == [t \in Targets |-> IF t = 1 THEN "a" ELSE "b"]
Symmetry == Permutations(Archived)

=============================================================================

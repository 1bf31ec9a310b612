-------------------------- MODULE MCAlbumIdentity --------------------------
(* A release on two discs in directories of their own; the second may come later. *)
EXTENDS AlbumIdentity, TLC

CONSTANTS this, other
ThreePaths == 1..3
TwoParts == 1..2
Tracks == <<1, 2>>
TwoParts2 == <<1, 2>>
NoMerge == this :> this @@ other :> other
\* Two directories that name nothing; one that names a release, or nothing yet,
\* with the other to come
Apart == <<1, 3>>
FirstOnly == <<3, Nowhere>>
Untagged == <<Nothing, Nothing>>
BothTagged == <<this, this>>
ThreeStarts == {<<Apart, Untagged>>, <<FirstOnly, Untagged>>, <<FirstOnly, BothTagged>>}
=============================================================================

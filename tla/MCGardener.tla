----------------------------- MODULE MCGardener -----------------------------
(***************************************************************************)
(* Instances of Gardener for TLC.                                           *)
(***************************************************************************)
EXTENDS Gardener

\* Two albums tagged as one release, or a release each
OneRelease == [a \in Albums |-> CHOOSE r \in Releases : TRUE]

\* To the last payload is a retitle, to any other a correction
Near == [pq \in Payloads \X Payloads |->
           IF pq[1] = pq[2] THEN NoUpdate ELSE IF pq[2] = 3 THEN 4 ELSE 3]
Course == {<<1, 2>>, <<2, 3>>, <<1, Nothing>>}

Trusting == {[apply |-> 3, review |-> 3], [apply |-> NoUpdate, review |-> 3]}
=============================================================================

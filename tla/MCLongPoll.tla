----------------------------- MODULE MCLongPoll -----------------------------
(* LongPoll for one host, whose requests either of two replicas may serve.   *)
EXTENDS LongPoll

CONSTANTS h1, r1, r2, p1, p2

ForOne == [j \in Jobs |-> h1]
PlacesOfOne == [p \in Polls |-> h1]

AtEither == [p \in Polls |-> IF p = p1 THEN r1 ELSE r2]
=============================================================================

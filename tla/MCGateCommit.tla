---------------------------- MODULE MCGateCommit ----------------------------
(* Instances of GateCommit for TLC.                                          *)
EXTENDS GateCommit, TLC

CONSTANTS t1, t2, t3, p1, p2

\* Two trees share a policy revision; the third changes it.
PolicyOfTree == [t \in Trees |-> IF t = t3 THEN p2 ELSE p1]

\* Runs are alike, and so are the trees of one revision.
Alike == Permutations(Runs) \cup Permutations({t1, t2})
=============================================================================

------------------------------ MODULE MCReseal ------------------------------
(* Instance of Reseal: two test files, the first imported by the second.   *)
EXTENDS Reseal

\* helper is a test file that flow imports.
MCFiles == {"helper", "flow"}
MCReach == [f \in MCFiles |-> IF f = "helper" THEN MCFiles ELSE {"flow"}]

\* Two revisions with the same tests, and two of which one adds a test.
SameTests == {[rev |-> 1, tests |-> 1], [rev |-> 2, tests |-> 1]}
AddedTest == {[rev |-> 1, tests |-> 1], [rev |-> 2, tests |-> 2]}
=============================================================================

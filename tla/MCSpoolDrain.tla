---------------------------- MODULE MCSpoolDrain ----------------------------
(* A small instance of SpoolDrain. *)
EXTENDS SpoolDrain

CONSTANTS w1, w2, t1, t2, t3

MCWorkers == {w1, w2}

(* Two tests on one worker, spooled by the worker and by the reporter.     *)
Fixture == [tests |-> [w \in MCWorkers |-> IF w = w1 THEN <<t1, t3>> ELSE << >>],
            twoWriters |-> TRUE]

(* Two workers behind one reporter process; t2 is not in the expected set. *)
Reporter == [tests |-> [w \in MCWorkers |-> IF w = w1 THEN <<t1, t2>> ELSE <<t3>>],
             twoWriters |-> FALSE]

BothSetups == {Fixture, Reporter}

TwoExpected == {t1, t3}

(* The two halves of Reporter, for more disturbances than all of it allows: *)
(* a test behind another on one worker, and two workers at once.           *)
Queue == [tests |-> [w \in MCWorkers |-> IF w = w1 THEN <<t1, t2>> ELSE << >>],
          twoWriters |-> FALSE]
Parallel == [tests |-> [w \in MCWorkers |-> IF w = w1 THEN <<t1>> ELSE <<t3>>],
             twoWriters |-> FALSE]

SmallSetups == {Fixture, Queue, Parallel}

Undisturbed == Genuine /\ faults = 0

(* The view of SpoolDrain.cfg: what its properties and the steps to come   *)
(* depend on.  Left out are lines that were read, the event of a handler   *)
(* that is done, the runner's progress once it is dead, which disturbances *)
(* there were beyond what a premise asks, the names in a set that is only  *)
(* compared with {}, and minted, which no step reads.                      *)
Relevant ==
    <<setup, IF alive THEN <<wpos, rpos>> ELSE << >>, result, alive,
      SubSeq(file, offset + 1, Len(file)), settling,
      pc, IF pc = "idle" THEN NULL ELSE cur, openByWorker, pendingByWorker,
      endedTests, IF Undisturbed THEN begunTests ELSE {}, awaitingOutcome,
      chainVars, stop, wslot, wstatus, woutcome,
      lost + replays + rebegins + faults, Undisturbed, faults = 0,
      GenuineRunsDoNotConflict, NextTestFindsItsSlot, FinalizeBeforeSeal>>
=============================================================================

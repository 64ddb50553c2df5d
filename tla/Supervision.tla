---------------------------- MODULE Supervision ----------------------------
(***************************************************************************)
(* What the supervision of a run promises the witness, whatever becomes of *)
(* the lines and calls between runner, drain and witness: an expected test *)
(* has one session, alone on its worker, which is never taken up again; it *)
(* gets the outcome the runner reported, once; a session that was not      *)
(* released is given up without an outcome only after the runner has       *)
(* exited, and nothing moves once supervision is over.                     *)
(***************************************************************************)
CONSTANTS Workers, Tests, Expected, NULL

VARIABLES
    running,   \* the runner has not exited
    reported,  \* what the runner reported for a test
    status,    \* "none", "open", "outcome-pending" or "sealed"
    holds,     \* per worker: the test whose session is open
    outcome,   \* what the session of a test carries
    over       \* supervision has returned

vars == <<running, reported, status, holds, outcome, over>>

Init ==
    /\ running = TRUE /\ over = FALSE
    /\ reported = [t \in Tests |-> NULL] /\ outcome = [t \in Tests |-> NULL]
    /\ status = [t \in Tests |-> "none"] /\ holds = [w \in Workers |-> NULL]

Report(t, o) ==
    /\ running /\ reported[t] = NULL
    /\ reported' = [reported EXCEPT ![t] = o]
    /\ UNCHANGED <<running, status, holds, outcome, over>>

Exit ==
    /\ running /\ running' = FALSE
    /\ UNCHANGED <<reported, status, holds, outcome, over>>

Open(w, t) ==
    /\ ~over /\ t \in Expected
    /\ status[t] = "none" /\ holds[w] = NULL
    /\ status' = [status EXCEPT ![t] = "open"] /\ holds' = [holds EXCEPT ![w] = t]
    /\ UNCHANGED <<running, reported, outcome, over>>

\* The session of t ends with status s and outcome o.
Close(w, t, s, o) ==
    /\ ~over /\ holds[w] = t /\ status[t] = "open"
    /\ status' = [status EXCEPT ![t] = s] /\ holds' = [holds EXCEPT ![w] = NULL]
    /\ outcome' = [outcome EXCEPT ![t] = o]
    /\ UNCHANGED <<running, reported, over>>

\* The worker is done with the test; what became of it is not yet known.
Release(w, t) == Close(w, t, "outcome-pending", NULL)

Seal(w, t) == reported[t] # NULL /\ Close(w, t, "sealed", reported[t])

GiveUp(w, t) == ~running /\ Close(w, t, "sealed", NULL)

\* The outcome of a test that was released.
Settle(t) ==
    /\ ~over /\ status[t] = "outcome-pending"
    /\ outcome[t] = NULL /\ reported[t] # NULL
    /\ outcome' = [outcome EXCEPT ![t] = reported[t]]
    /\ UNCHANGED <<running, reported, status, holds, over>>

Finish ==
    /\ ~running /\ ~over /\ over' = TRUE
    /\ UNCHANGED <<running, reported, status, holds, outcome>>

Next ==
    \/ Exit \/ Finish
    \/ \E t \in Tests :
         \/ Settle(t)
         \/ \E o \in {"passed", "failed"} : Report(t, o)
         \/ \E w \in Workers : Open(w, t) \/ Release(w, t) \/ Seal(w, t) \/ GiveUp(w, t)

Spec == Init /\ [][Next]_vars

=============================================================================

---------------------------- MODULE PluginCalls ----------------------------
(***************************************************************************)
(* What a plugin session promises its client: calls one at a time, each    *)
(* ending once, an answer only for the request just asked, nothing after a *)
(* failure, a clean end only of a process that has exited, and no process  *)
(* left when the client is done.                                           *)
(***************************************************************************)
EXTENDS Naturals

VARIABLES
    phase,     \* "call" (one is under way), "free", "failed", "clean", "over"
    asked,     \* discover requests made
    answered,  \* discover requests answered
    alive      \* the plugin process has not been reaped

vars == <<phase, asked, answered, alive>>

Init == phase = "call" /\ asked = 0 /\ answered = 0 /\ alive = TRUE

\* The handshake succeeds.
Started ==
    /\ phase = "call" /\ asked = answered
    /\ phase' = "free"
    /\ UNCHANGED <<asked, answered, alive>>

Ask ==
    /\ phase = "free"
    /\ phase' = "call" /\ asked' = asked + 1
    /\ UNCHANGED <<answered, alive>>

Answer ==
    /\ phase = "call" /\ answered < asked
    /\ phase' = "free" /\ answered' = asked
    /\ UNCHANGED <<asked, alive>>

\* The shutdown handshake is begun.
Close ==
    /\ phase = "free"
    /\ phase' = "call"
    /\ UNCHANGED <<asked, answered, alive>>

\* A call fails, or is refused.
Fail ==
    /\ phase \in {"call", "free"}
    /\ phase' = "failed"
    /\ alive' \in {alive, FALSE}
    /\ UNCHANGED <<asked, answered>>

\* The plugin is gone, with no request left unanswered.
Clean ==
    /\ phase = "call" /\ asked = answered
    /\ phase' = "clean" /\ alive' = FALSE
    /\ UNCHANGED <<asked, answered>>

Exit ==
    /\ alive /\ alive' = FALSE
    /\ UNCHANGED <<phase, asked, answered>>

\* The client lets go of the session; by then the process is gone.
Over ==
    /\ phase # "over"
    /\ phase' = "over" /\ alive' = FALSE
    /\ UNCHANGED <<asked, answered>>

Next == Started \/ Ask \/ Answer \/ Close \/ Fail \/ Clean \/ Exit \/ Over

Spec == Init /\ [][Next]_vars

=============================================================================

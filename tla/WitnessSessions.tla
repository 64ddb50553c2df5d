-------------------------- MODULE WitnessSessions --------------------------
(***************************************************************************)
(* The test-session lifecycle of the witness service                      *)
(* (packages/witness/src/witness/server.ts): open, re-open, abandon,      *)
(* resolve, submit, release, close.                                       *)
(*                                                                        *)
(* The witness is one Node process: a handler runs without interruption   *)
(* up to its next await, so every action below is one such stretch.  An   *)
(* open handler awaits twice (proxy ports, then before-snapshots); while  *)
(* it does, the session's readiness gate (`snapshotReady`) is unsettled   *)
(* and other requests may wait on it.  Settling the gate queues the       *)
(* waiters as microtasks, in the order they began to wait, and no new     *)
(* request is served before those microtasks have run.                    *)
(*                                                                        *)
(* Left out as data: titles, tokens, claim ids, URLs and messages; ticks  *)
(* and action intervals are the subject of WitnessEvidence.               *)
(***************************************************************************)
EXTENDS Naturals, Sequences

CONSTANTS
    Sessions,      \* the session ids randomUUID() can return
    Workers,       \* worker indices
    Tests,         \* test identities the supervisor may name
    Expected,      \* the registered expected set (a subset of Tests)
    RawTwins,      \* expected tests registered observationOnly
    Observed,      \* tests with an observe-declared claim
    ProxyWired,    \* an observation proxy is configured (options.proxyTarget)
    Outcomes,      \* runner outcomes a close may carry
    NULL,
    MaxWaiters     \* bound: requests parked on one readiness gate

ASSUME SessionsAssumption ==
    /\ Expected \subseteq Tests
    /\ RawTwins \subseteq Expected /\ Observed \subseteq Expected
    /\ ProxyWired \in BOOLEAN
    /\ NULL \notin Sessions /\ NULL \notin Outcomes /\ NULL \notin Tests
    /\ NULL \notin Workers
    /\ MaxWaiters \in Nat

VARIABLES
    status,          \* TestSession.status; "unborn" until minted
    testOf,          \* TestSession.testId
    workerOf,        \* TestSession.workerIndex
    claimed,         \* TestSession.claims is not empty
    outcome,         \* TestSession.outcome
    stage,           \* where the open handler of the session stands
    channel,         \* TestSession.proxyServer # null
    sessions,        \* keys of state.sessions
    workerSessions,  \* state.workerSessions
    snapshots,       \* state.observeSnapshots: none, being taken, stored
    identities,      \* keys of state.sessionIdentities
    waiters,         \* per session: requests awaiting its snapshotReady
    microtasks,      \* woken continuations, in FIFO order
    handedOut,       \* credentials POST /sessions/resolve answered 200 with
    ledger,          \* suite records, as <<session, test>> pairs
    viewSent         \* the session whose view the last answer carried

sessVars == <<status, testOf, workerOf, claimed, outcome>>
openVars == <<stage, channel, snapshots>>
mapVars  == <<sessions, workerSessions, identities>>
vars     == <<sessVars, openVars, mapVars, waiters, microtasks, handedOut,
              ledger, viewSent>>

Request == [op : {"open", "close", "release"}, s : Sessions,
            outcome : Outcomes \cup {NULL}]

(* Session.snapshotReady # null: the gate is unsettled. *)
Pending(s) == stage[s] \in {"proxy", "snapshot", "discard"}

(* A session with claims is graded, so it is never observation-only.      *)
ObservationOnly(s) == ~claimed[s] /\ testOf[s] \in RawTwins

(* takeObserveSnapshots has a resource to list.                           *)
TakesSnapshots(s) == claimed[s] /\ testOf[s] \in Observed

(* An answer 200 {sessionView(session)}, or any other answer.             *)
SendView(s) == viewSent' = s
SendNoView  == viewSent' = NULL

(* Mutant: the gate settles but its waiters are never resolved.           *)
SettleGateSilently(s) ==
    /\ stage' = [stage EXCEPT ![s] = "done"]
    /\ UNCHANGED <<microtasks, waiters>>

(* resolveSnapshotReady(): every waiter becomes a microtask. *)
SettleGate(s) ==
    /\ stage' = [stage EXCEPT ![s] = "done"]
    /\ microtasks' = microtasks \o waiters[s]
    /\ waiters' = [waiters EXCEPT ![s] = << >>]

Park(op, s, o) ==
    /\ Len(waiters[s]) < MaxWaiters
    /\ waiters' = [waiters EXCEPT ![s] =
                     Append(@, [op |-> op, s |-> s, outcome |-> o])]

(* workerSessions.delete(w) when it still names s. *)
Unbind(ws, w, s) == IF ws[w] = s THEN [ws EXCEPT ![w] = NULL] ELSE ws

Init ==
    /\ status = [s \in Sessions |-> "unborn"]
    /\ testOf = [s \in Sessions |-> NULL]
    /\ workerOf = [s \in Sessions |-> NULL]
    /\ claimed = [s \in Sessions |-> FALSE]
    /\ outcome = [s \in Sessions |-> NULL]
    /\ stage = [s \in Sessions |-> "idle"]
    /\ channel = [s \in Sessions |-> FALSE]
    /\ sessions = {}
    /\ workerSessions = [w \in Workers |-> NULL]
    /\ snapshots = [s \in Sessions |-> "none"]
    /\ identities = {}
    /\ waiters = [s \in Sessions |-> << >>]
    /\ microtasks = << >>
    /\ handedOut = {}
    /\ ledger = {}
    /\ viewSent = NULL

----------------------------------------------------------------------------
(* POST /sessions/open.                                                    *)

(* The worker's slot as the open handler reads it. *)
SlotFree(w)        == workerSessions[w] = NULL
SlotSame(w, t)     == ~SlotFree(w) /\ workerSessions[w] \in sessions
                      /\ testOf[workerSessions[w]] = t
(* A pending session of a different test: its open answer died with the  *)
(* transport, so the new open abandons it.                                *)
SlotAbandoned(w, t) == ~SlotFree(w) /\ workerSessions[w] \in sessions
                       /\ testOf[workerSessions[w]] # t
                       /\ Pending(workerSessions[w])

(* 403: not a test of the registered expected set.                        *)
OpenRefused(w, t) ==
    /\ t \notin Expected
    /\ SendNoView
    /\ UNCHANGED <<sessVars, openVars, mapVars, waiters, microtasks,
                   handedOut, ledger>>

(* Idempotent re-open: the same session, once it is ready.                *)
OpenAgain(w, t) ==
    /\ t \in Expected
    /\ SlotSame(w, t)
    /\ LET s == workerSessions[w] IN
         \/ /\ Pending(s)
            /\ Park("open", s, NULL)
            /\ UNCHANGED viewSent
         \/ /\ ~Pending(s)
            /\ SendView(s)
            /\ UNCHANGED waiters
    /\ UNCHANGED <<sessVars, openVars, mapVars, microtasks, handedOut, ledger>>

(* 409: the worker already carries a ready session for another test.      *)
OpenBusy(w, t) ==
    /\ t \in Expected
    /\ ~SlotFree(w) /\ ~SlotSame(w, t) /\ ~SlotAbandoned(w, t)
    /\ SendNoView
    /\ UNCHANGED <<sessVars, openVars, mapVars, waiters, microtasks,
                   handedOut, ledger>>

(* state.sessions / observeSnapshots / workerSessions without the session *)
(* the worker abandons, if it abandons one.                               *)
Left(w, t) == IF SlotAbandoned(w, t) THEN {workerSessions[w]} ELSE {}

(* Malformed claims are refused only after the abandonment took effect.   *)
OpenBadClaims(w, t) ==
    /\ t \in Expected
    /\ SlotFree(w) \/ SlotAbandoned(w, t)
    /\ sessions' = sessions \ Left(w, t)
    /\ snapshots' = [s \in Sessions |->
                       IF s \in Left(w, t) THEN "none" ELSE snapshots[s]]
    /\ workerSessions' = [workerSessions EXCEPT ![w] = NULL]
    /\ SendNoView
    /\ UNCHANGED <<sessVars, stage, channel, identities, waiters, microtasks,
                   handedOut, ledger>>

(* Registration happens before the first await; c says whether the       *)
(* supervisor's open carries claims.                                      *)
OpenMint(s, w, t, c) ==
    /\ t \in Expected
    /\ SlotFree(w) \/ SlotAbandoned(w, t)
    /\ status[s] = "unborn"
    /\ status' = [status EXCEPT ![s] = "open"]
    /\ testOf' = [testOf EXCEPT ![s] = t]
    /\ workerOf' = [workerOf EXCEPT ![s] = w]
    /\ claimed' = [claimed EXCEPT ![s] = c]
    /\ stage' = [stage EXCEPT ![s] = "proxy"]
    /\ sessions' = (sessions \ Left(w, t)) \cup {s}
    /\ workerSessions' = [workerSessions EXCEPT ![w] = s]
    /\ snapshots' = [x \in Sessions |->
                       IF x \in Left(w, t) THEN "none" ELSE snapshots[x]]
    /\ UNCHANGED <<outcome, channel, identities, waiters, microtasks,
                   handedOut, ledger, viewSent>>

(* startSessionProxy resolved; takeObserveSnapshots registers its map     *)
(* (even for a session abandoned meanwhile) and awaits the adapter reads. *)
ProxyReady(s) ==
    /\ stage[s] = "proxy"
    /\ stage' = [stage EXCEPT ![s] = "snapshot"]
    /\ channel' = [channel EXCEPT ![s] = ProxyWired]
    /\ snapshots' = [snapshots EXCEPT ![s] =
                       IF TakesSnapshots(s) THEN "taking" ELSE @]
    /\ UNCHANGED <<sessVars, mapVars, waiters, microtasks, handedOut, ledger,
                   viewSent>>

(* startSessionProxy threw: no port could be bound.  The registration is  *)
(* undone and the gate settles resolved.                                  *)
ProxyFailed(s) ==
    /\ ProxyWired
    /\ stage[s] = "proxy"
    /\ sessions' = sessions \ {s}
    /\ workerSessions' = Unbind(workerSessions, workerOf[s], s)
    /\ snapshots' = [snapshots EXCEPT ![s] = "none"]
    /\ SettleGate(s)
    /\ SendNoView
    /\ UNCHANGED <<sessVars, channel, identities, handedOut, ledger>>

(* The snapshot round ended and the session is still registered: ready.   *)
OpenReady(s) ==
    /\ stage[s] = "snapshot"
    /\ s \in sessions
    /\ snapshots' = [snapshots EXCEPT ![s] =
                       IF TakesSnapshots(s) THEN "stored" ELSE @]
    /\ SettleGate(s)
    /\ SendView(s)
    /\ UNCHANGED <<sessVars, channel, mapVars, handedOut, ledger>>

(* Mutant: the late snapshots and the proxy of an abandoned open stay.    *)
OpenDiscardKeeping(s) ==
    /\ stage[s] = "snapshot"
    /\ s \notin sessions
    /\ snapshots' = [snapshots EXCEPT ![s] =
                       IF TakesSnapshots(s) THEN "stored" ELSE @]
    /\ stage' = [stage EXCEPT ![s] = "discard"]
    /\ UNCHANGED <<sessVars, channel, mapVars, waiters, microtasks, handedOut,
                   ledger, viewSent>>

(* The snapshot round ended after the session was abandoned: discard the  *)
(* late snapshots, close the proxy (two more awaits), then settle.        *)
OpenDiscard(s) ==
    /\ stage[s] = "snapshot"
    /\ s \notin sessions
    /\ snapshots' = [snapshots EXCEPT ![s] = "none"]
    /\ channel' = [channel EXCEPT ![s] = FALSE]
    /\ stage' = [stage EXCEPT ![s] = "discard"]
    /\ UNCHANGED <<sessVars, mapVars, waiters, microtasks, handedOut, ledger,
                   viewSent>>

OpenDiscarded(s) ==
    /\ stage[s] = "discard"
    /\ SettleGate(s)
    /\ SendNoView
    /\ UNCHANGED <<sessVars, channel, snapshots, mapVars, handedOut, ledger>>

----------------------------------------------------------------------------
(* POST /sessions/close and /sessions/release, past the readiness gate.    *)

(* Mutant: a second, different outcome overwrites the first.              *)
CloseReleasedAnyOutcome(s, o) ==
    /\ status[s] = "outcome-pending"
    /\ outcome' = [outcome EXCEPT ![s] = IF o # NULL THEN o ELSE @]
    /\ snapshots' = [snapshots EXCEPT ![s] = "none"]
    /\ identities' = identities \ {s}
    /\ SendNoView
    /\ UNCHANGED <<status, channel, workerSessions>>

(* Mutant: the close of a released session clears its worker's slot, as   *)
(* the close of an open session does.                                     *)
CloseReleasedClearingSlot(s, o) ==
    /\ status[s] = "outcome-pending"
    /\ o # NULL /\ outcome[s] # NULL => outcome[s] = o
    /\ outcome' = [outcome EXCEPT ![s] = IF o # NULL THEN o ELSE @]
    /\ snapshots' = [snapshots EXCEPT ![s] = "none"]
    /\ identities' = identities \ {s}
    /\ workerSessions' = [workerSessions EXCEPT ![workerOf[s]] = NULL]
    /\ SendNoView
    /\ UNCHANGED <<status, channel>>

(* A released session: the close only records the runner's outcome, and a *)
(* second different outcome is refused.                                   *)
CloseReleased(s, o) ==
    /\ status[s] = "outcome-pending"
    /\ IF o # NULL /\ outcome[s] # NULL /\ outcome[s] # o
       THEN /\ SendNoView
            /\ UNCHANGED <<outcome, snapshots, identities>>
       ELSE /\ outcome' = [outcome EXCEPT ![s] = IF o # NULL THEN o ELSE @]
            /\ snapshots' = [snapshots EXCEPT ![s] = "none"]
            /\ identities' = identities \ {s}
            /\ SendNoView
    /\ UNCHANGED <<status, channel, workerSessions>>

(* Mutant: a close without an outcome stores the missing field.           *)
CloseOpenRawOutcome(s, o) ==
    /\ status[s] = "open"
    /\ status' = [status EXCEPT ![s] = "sealed"]
    /\ outcome' = [outcome EXCEPT ![s] = IF o = NULL THEN "undefined" ELSE o]
    /\ workerSessions' = [workerSessions EXCEPT ![workerOf[s]] = NULL]
    /\ snapshots' = [snapshots EXCEPT ![s] = "none"]
    /\ identities' = identities \ {s}
    /\ channel' = [channel EXCEPT ![s] = FALSE]
    /\ SendNoView

(* An open session is sealed.  The worker's slot is cleared without       *)
(* comparing it with s.                                                   *)
CloseOpen(s, o) ==
    /\ status[s] = "open"
    /\ status' = [status EXCEPT ![s] = "sealed"]
    /\ outcome' = [outcome EXCEPT ![s] = o]
    /\ workerSessions' = [workerSessions EXCEPT ![workerOf[s]] = NULL]
    /\ snapshots' = [snapshots EXCEPT ![s] = "none"]
    /\ identities' = identities \ {s}
    /\ channel' = [channel EXCEPT ![s] = FALSE]
    /\ SendNoView

CloseSealed(s) ==
    /\ status[s] = "sealed"
    /\ SendNoView
    /\ UNCHANGED <<status, outcome, workerSessions, snapshots, identities,
                   channel>>

CloseBody(s, o) ==
    /\ CloseReleased(s, o) \/ CloseOpen(s, o) \/ CloseSealed(s)
    /\ UNCHANGED <<testOf, workerOf, claimed, stage, sessions,
                   handedOut, ledger>>

ReleaseBody(s) ==
    /\ IF status[s] = "open"
       THEN /\ status' = [status EXCEPT ![s] = "outcome-pending"]
            /\ workerSessions' = Unbind(workerSessions, workerOf[s], s)
            /\ channel' = [channel EXCEPT ![s] = FALSE]
       ELSE UNCHANGED <<status, workerSessions, channel>>
    /\ SendNoView
    /\ UNCHANGED <<testOf, workerOf, claimed, outcome, stage,
                   snapshots, sessions, identities, handedOut, ledger>>

(* 400: the session is not registered.                                    *)
Refuse ==
    /\ SendNoView
    /\ UNCHANGED <<sessVars, openVars, mapVars, handedOut, ledger>>

(* Mutant: the seal does not wait for the readiness gate.                 *)
CloseAtOnce(s, o) ==
    \/ s \notin sessions /\ Refuse /\ UNCHANGED <<waiters, microtasks>>
    \/ s \in sessions /\ CloseBody(s, o) /\ UNCHANGED <<waiters, microtasks>>

(* The handler up to the gate: unknown session, park, or go on. *)
Close(s, o) ==
    \/ s \notin sessions /\ Refuse /\ UNCHANGED <<waiters, microtasks>>
    \/ /\ s \in sessions /\ Pending(s)
       /\ Park("close", s, o)
       /\ UNCHANGED <<sessVars, openVars, mapVars, microtasks, handedOut,
                      ledger, viewSent>>
    \/ s \in sessions /\ ~Pending(s) /\ CloseBody(s, o)
       /\ UNCHANGED <<waiters, microtasks>>

Release(s) ==
    \/ s \notin sessions /\ Refuse /\ UNCHANGED <<waiters, microtasks>>
    \/ /\ s \in sessions /\ Pending(s)
       /\ Park("release", s, NULL)
       /\ UNCHANGED <<sessVars, openVars, mapVars, microtasks, handedOut,
                      ledger, viewSent>>
    \/ s \in sessions /\ ~Pending(s) /\ ReleaseBody(s)
       /\ UNCHANGED <<waiters, microtasks>>

(* Mutant: a woken re-open answers without looking at the registry.        *)
WakeOpenUnchecked(s) ==
    /\ SendView(s)
    /\ UNCHANGED <<sessVars, openVars, mapVars, handedOut, ledger>>

(* One woken continuation: each re-checks that the session is still       *)
(* registered and nothing else.                                           *)
WakeOpen(s) ==
    /\ IF s \in sessions THEN SendView(s) ELSE SendNoView
    /\ UNCHANGED <<sessVars, openVars, mapVars, handedOut, ledger>>

Wake ==
    /\ microtasks # << >>
    /\ LET m == Head(microtasks) IN
         \/ m.op = "open" /\ WakeOpen(m.s)
         \/ /\ m.op # "open" /\ m.s \notin sessions
            /\ Refuse
         \/ m.op = "close" /\ m.s \in sessions /\ CloseBody(m.s, m.outcome)
         \/ m.op = "release" /\ m.s \in sessions /\ ReleaseBody(m.s)
    /\ microtasks' = Tail(microtasks)
    /\ UNCHANGED waiters

----------------------------------------------------------------------------
(* The worker's side.                                                      *)

(* Mutant: a session still being opened answers a resolve.                *)
ResolvableEarly(w, t) ==
    /\ workerSessions[w] # NULL
    /\ workerSessions[w] \in sessions
    /\ status[workerSessions[w]] = "open"
    /\ testOf[workerSessions[w]] = t

(* POST /sessions/resolve: only the open, ready session of exactly this   *)
(* (worker, test) answers; everything else is the same 404.               *)
Resolvable(w, t) ==
    /\ workerSessions[w] # NULL
    /\ workerSessions[w] \in sessions
    /\ status[workerSessions[w]] = "open"
    /\ testOf[workerSessions[w]] = t
    /\ ~Pending(workerSessions[w])

Resolve(w, t) ==
    /\ IF Resolvable(w, t)
       THEN /\ SendView(workerSessions[w])
            /\ handedOut' = handedOut \cup {workerSessions[w]}
       ELSE /\ SendNoView
            /\ UNCHANGED handedOut
    /\ UNCHANGED <<sessVars, openVars, mapVars, waiters, microtasks, ledger>>

(* requireOpenSession: registered, still open, not a raw twin.            *)
AcceptsSubmission(s) ==
    s \in sessions /\ status[s] = "open" /\ ~ObservationOnly(s)

(* POST /records naming test t under s's credential.                      *)
Records(s, t) ==
    /\ s \in handedOut
    /\ ledger' = IF AcceptsSubmission(s) /\ testOf[s] = t
                 THEN ledger \cup {<<s, testOf[s]>>} ELSE ledger
    /\ SendNoView
    /\ UNCHANGED <<sessVars, openVars, mapVars, waiters, microtasks, handedOut>>

(* POST /sessions/identity under s's credential.                          *)
SessionIdentity(s) ==
    /\ s \in handedOut
    /\ identities' = IF AcceptsSubmission(s) THEN identities \cup {s}
                     ELSE identities
    /\ SendNoView
    /\ UNCHANGED <<sessVars, openVars, sessions, workerSessions, waiters,
                   microtasks, handedOut, ledger>>

----------------------------------------------------------------------------
OpenStep(s) == ProxyReady(s) \/ ProxyFailed(s) \/ OpenReady(s)
               \/ OpenDiscard(s) \/ OpenDiscarded(s)

Requests ==
    \/ \E w \in Workers, t \in Tests :
         \/ OpenRefused(w, t) \/ OpenAgain(w, t) \/ OpenBusy(w, t)
         \/ OpenBadClaims(w, t)
         \/ \E s \in Sessions, c \in BOOLEAN : OpenMint(s, w, t, c)
         \/ Resolve(w, t)
    \/ \E s \in Sessions :
         \/ \E o \in Outcomes \cup {NULL} : Close(s, o)
         \/ Release(s)
         \/ \E t \in Tests : Records(s, t)
         \/ SessionIdentity(s)

Next ==
    \/ Wake
    \/ microtasks = << >> /\ (Requests \/ \E s \in Sessions : OpenStep(s))

Spec == Init /\ [][Next]_vars

(* The event loop runs queued microtasks, and the open handler's awaits    *)
(* are bounded (listen either succeeds or errors; the snapshot round is    *)
(* total and every adapter read carries a timeout).                        *)
Fairness == /\ WF_vars(Wake)
            /\ \A s \in Sessions : WF_vars(microtasks = << >> /\ OpenStep(s))

FairSpec == Spec /\ Fairness

----------------------------------------------------------------------------
(* Properties.                                                             *)

(* Type invariant of the witness's session maps and handler stages.       *)
TypeOK ==
    /\ status \in [Sessions -> {"unborn", "open", "outcome-pending", "sealed"}]
    /\ testOf \in [Sessions -> Tests \cup {NULL}]
    /\ workerOf \in [Sessions -> Workers \cup {NULL}]
    /\ claimed \in [Sessions -> BOOLEAN]
    /\ outcome \in [Sessions -> Outcomes \cup {NULL}]
    /\ stage \in [Sessions -> {"idle", "proxy", "snapshot", "discard", "done"}]
    /\ channel \in [Sessions -> BOOLEAN]
    /\ sessions \subseteq Sessions
    /\ workerSessions \in [Workers -> Sessions \cup {NULL}]
    /\ snapshots \in [Sessions -> {"none", "taking", "stored"}]
    /\ identities \subseteq Sessions
    /\ waiters \in [Sessions -> Seq(Request)]
    /\ microtasks \in Seq(Request)
    /\ handedOut \subseteq Sessions
    /\ ledger \subseteq Sessions \X Tests
    /\ viewSent \in Sessions \cup {NULL}

(* A worker's slot names exactly the one registered open session of that  *)
(* worker.  Close clears the slot without comparing it, so it must never  *)
(* clear the slot of another test's session.                              *)
SlotIsTheOpenSession ==
    /\ \A w \in Workers : workerSessions[w] # NULL =>
         /\ workerSessions[w] \in sessions
         /\ status[workerSessions[w]] = "open"
         /\ workerOf[workerSessions[w]] = w
    /\ \A s \in sessions : status[s] = "open" =>
         workerOf[s] \in Workers /\ workerSessions[workerOf[s]] = s

(* A credential handed to a worker belongs to a session whose before-     *)
(* snapshots had been stored and which is never unregistered afterwards:  *)
(* the abandonment and proxy-failure paths only hit pending sessions.     *)
HandedOutOnlyWhenReady ==
    \A s \in handedOut :
      /\ stage[s] = "done" /\ s \in sessions
      /\ status[s] = "open" /\ TakesSnapshots(s) => snapshots[s] = "stored"

(* The seal never overtakes the snapshot round: once a session is sealed, *)
(* or recorded its outcome after a release, no before-state, identity or  *)
(* observation channel of it is left, and none can appear later.          *)
EndedLeavesNothing ==
    \A s \in Sessions :
      /\ status[s] \in {"outcome-pending", "sealed"} => ~channel[s]
      /\ status[s] = "sealed" => snapshots[s] = "none" /\ s \notin identities
      /\ outcome[s] # NULL => snapshots[s] = "none" /\ s \notin identities

(* A session that died unregistered (abandoned, or its ports could not be *)
(* bound) leaves no snapshots and no listener behind once its open ended. *)
DeadOpenLeavesNothing ==
    \A s \in Sessions :
      stage[s] = "done" /\ s \notin sessions =>
        /\ snapshots[s] = "none" /\ ~channel[s]
        /\ s \notin identities /\ s \notin handedOut

(* Evidence attributed to a session names its registered test, and a raw  *)
(* twin (observation-only) never contributes a record.                    *)
RecordsBindToSession ==
    \A r \in ledger : r[2] = testOf[r[1]] /\ ~ObservationOnly(r[1])
                      /\ r[1] \in handedOut

(* How the open handler's stage, the registration and the status hang     *)
(* together: the strengthening that makes the invariants above inductive. *)
Lifecycle ==
    \A s \in Sessions :
      /\ status[s] = "unborn" <=> stage[s] = "idle"
      /\ s \in sessions => stage[s] \notin {"idle", "discard"}
      /\ status[s] # "unborn" => workerOf[s] \in Workers /\ testOf[s] \in Tests
      /\ status[s] \in {"outcome-pending", "sealed"} =>
           stage[s] = "done" /\ s \in sessions
      /\ outcome[s] # NULL => status[s] \in {"outcome-pending", "sealed"}
      /\ stage[s] \in {"idle", "proxy", "discard"} =>
           snapshots[s] = "none" /\ ~channel[s]
      /\ TakesSnapshots(s) /\ s \in sessions /\ stage[s] = "snapshot" =>
           snapshots[s] = "taking"
      /\ TakesSnapshots(s) /\ s \in sessions /\ stage[s] = "done"
           /\ status[s] = "open" => snapshots[s] = "stored"

(* Parked requests name the session whose gate they wait on, that gate is *)
(* unsettled, and every woken continuation's gate is settled.             *)
Gates ==
    /\ \A s \in Sessions : waiters[s] # << >> => Pending(s)
    /\ \A s \in Sessions : \A i \in 1..Len(waiters[s]) : waiters[s][i].s = s
    /\ \A i \in 1..Len(microtasks) : stage[microtasks[i].s] = "done"

SessionInv ==
    /\ TypeOK /\ Lifecycle /\ Gates /\ SlotIsTheOpenSession
    /\ HandedOutOnlyWhenReady /\ EndedLeavesNothing /\ DeadOpenLeavesNothing
    /\ RecordsBindToSession /\ identities \subseteq handedOut

(* A sealed session never changes again, a recorded outcome is never      *)
(* overwritten, and a released session never re-opens.                    *)
Irrevocable ==
    \A s \in Sessions :
      /\ status[s] = "sealed" =>
           status'[s] = "sealed" /\ outcome'[s] = outcome[s]
      /\ status[s] = "outcome-pending" => status'[s] = "outcome-pending"
      /\ outcome[s] # NULL => outcome'[s] = outcome[s]
      /\ s \notin sessions /\ status[s] # "unborn" => s \notin sessions'

IrrevocableProp == [][Irrevocable]_vars

(* A request parked on a readiness gate is answered: the gate of an       *)
(* abandoned or failed open settles too.                                  *)
NoRequestHangs ==
    \A s \in Sessions : waiters[s] # << >> ~> waiters[s] = << >> /\ ~Pending(s)

(* An answer that carries a session view (an open, a re-open that waited   *)
(* for the snapshots of another open, a resolve) is of a session that is   *)
(* registered and ready at that moment, also when that other open failed   *)
(* or was abandoned meanwhile.                                             *)
ReadyView ==
    viewSent' # viewSent /\ viewSent' # NULL =>
      viewSent' \in sessions' /\ stage'[viewSent'] = "done"

ViewIsOfReadySession == [][ReadyView]_vars

=============================================================================

----------------------------- MODULE SpoolDrain -----------------------------
(***************************************************************************)
(* The supervisor's spool drain (packages/pack-playwright/src/supervisor/  *)
(* drain.ts): lifecycle events of a genuine runner become supervisor calls *)
(* on the witness.                                                         *)
(*                                                                         *)
(* Events are handled strictly one after the other (`settling`); a handler *)
(* step below ends at each awaited client call.  The outcome of a released *)
(* test is sealed by a second serial chain (`outcomeChains`).  A call may  *)
(* lose its request or its answer (WitnessRequestError status 0, also on a *)
(* timeout).  The runner writes each test's lifecycle from one process (the*)
(* reporter) or from two (worker and reporter, TwoWriters), each in its own*)
(* order; how a line of the file is read is the subject of Spool: here a   *)
(* poll may hand the last line over twice.  The witness is abstracted to   *)
(* the answers WitnessSessions gives to a single supervisor.               *)
(***************************************************************************)
EXTENDS Naturals, Sequences, FiniteSets

CONSTANTS
    Workers,      \* worker slots
    Setups,       \* runs to consider: tests[w] in execution order, and
                  \* whether the worker spools its begins and ends as well
    Expected,     \* tests the witness registered
    NULL,
    MaxDisturbances  \* bound: lost appends, lines read twice, begins after
                     \* a recorded outcome, calls lost in transport

TestsIn(u) == UNION {{u.tests[w][i] : i \in 1..Len(u.tests[w])} : w \in Workers}
Tests == UNION {TestsIn(u) : u \in Setups}

ASSUME DrainAssumption ==
    /\ NULL \notin Tests /\ NULL \notin {"passed", "failed", "absent"}
    /\ MaxDisturbances \in Nat
    /\ \A u \in Setups :
         /\ u.twoWriters \in BOOLEAN /\ \A w \in Workers : u.tests[w] \in Seq(Tests)
         /\ \A w, v \in Workers : \A i \in 1..Len(u.tests[w]), j \in 1..Len(u.tests[v]) :
              u.tests[w][i] = u.tests[v][j] => w = v /\ i = j

VARIABLES
    setup,        \* the run under way, one of Setups
    wpos, rpos,   \* per worker: lifecycle steps done by worker and reporter
    result,       \* what the runner reported for a test
    file,         \* the spool, line by line
    alive,        \* the runner has not exited
    offset,       \* lines the drain will not read again
    settling,     \* events handed to the drain and not handled yet
    pc, cur,      \* where the current handler stands, and its event
    openByWorker, pendingByWorker, endedTests, begunTests, awaitingOutcome,
    conflicts,    \* tests a conflict names
    chains,       \* outcomeChains: <<test, outcome>>, in order
    chainPc,
    stop,         \* stop(): "no", "draining", "done"
    wslot,        \* witness: workerSessions, as the test of the session
    wstatus,      \* witness: status of the test's last session
    woutcome,     \* witness: outcome of the test's last session
    minted,       \* witness: sessions minted per test
    late,         \* witness: finalize requests refused because sealed
    refused,      \* witness: expected tests whose open was answered 409
    lost,         \* appends that failed (best effort)
    replays,      \* polls that handed the last line over again
    rebegins,     \* begins of a test after its recorded outcome
    faults        \* client calls lost in transport

MayDisturb == lost + replays + rebegins + faults < MaxDisturbances

TestsOf == setup.tests
TwoWriters == setup.twoWriters

runnerVars == <<setup, wpos, rpos, result, file, alive, lost, rebegins>>
pollVars == <<offset, replays>>
mapVars == <<openByWorker, pendingByWorker, endedTests, begunTests,
             awaitingOutcome, conflicts>>
chainVars == <<chains, chainPc>>
witVars == <<wslot, wstatus, woutcome, minted, late, refused>>
vars == <<runnerVars, pollVars, settling, pc, cur, mapVars, chainVars, stop,
          witVars, faults>>

Event == [kind : {"testBegin", "testEnd"}, w : Workers, t : Tests,
          outcome : {NULL, "passed", "failed"}]
Begin(w, t)  == [kind |-> "testBegin", w |-> w, t |-> t, outcome |-> NULL]
End(w, t, o) == [kind |-> "testEnd", w |-> w, t |-> t, outcome |-> o]

(* awaitingOutcome of a test: absent, or the outcome recorded so far.      *)
Absent == "absent"

Init ==
    /\ setup \in Setups
    /\ wpos = [w \in Workers |-> 0] /\ rpos = [w \in Workers |-> 0]
    /\ result = [t \in Tests |-> NULL]
    /\ file = << >> /\ alive = TRUE
    /\ offset = 0 /\ settling = << >>
    /\ pc = "idle" /\ cur = NULL
    /\ openByWorker = [w \in Workers |-> NULL]
    /\ pendingByWorker = [w \in Workers |-> << >>]
    /\ endedTests = {} /\ begunTests = {} /\ conflicts = {}
    /\ awaitingOutcome = [t \in Tests |-> Absent]
    /\ chains = << >> /\ chainPc = "idle"
    /\ stop = "no"
    /\ wslot = [w \in Workers |-> NULL]
    /\ wstatus = [t \in Tests |-> "none"]
    /\ woutcome = [t \in Tests |-> NULL]
    /\ minted = [t \in Tests |-> 0]
    /\ late = {} /\ refused = {}
    /\ lost = 0 /\ replays = 0 /\ rebegins = 0 /\ faults = 0

----------------------------------------------------------------------------
(* The runner (external: Playwright, Vitest or Cypress with the reporter). *)

(* appendSpoolEvent is best effort: a failed append only warns.            *)
Append1(e) ==
    \/ file' = Append(file, e) /\ UNCHANGED lost
    \/ MayDisturb /\ lost' = lost + 1 /\ UNCHANGED file

(* Odd steps begin the test, even ones end it.                             *)
TestAt(w, p) == TestsOf[w][(p + 1) \div 2]

(* spoolTestBegin / spoolWorkerTestEnd: the worker runs ahead of the       *)
(* reporter and states no outcome.                                         *)
WorkerStep(w) ==
    LET p == wpos[w] + 1
    IN  /\ alive /\ TwoWriters
        /\ p <= 2 * Len(TestsOf[w])
        /\ wpos' = [wpos EXCEPT ![w] = p]
        /\ Append1(IF p % 2 = 1 THEN Begin(w, TestAt(w, p))
                                ELSE End(w, TestAt(w, p), NULL))
        /\ UNCHANGED <<setup, rpos, result, alive, rebegins, pollVars, settling, pc,
                       cur, mapVars, chainVars, stop, witVars, faults>>

(* onTestBegin / onTestEnd of the main process, which trails the worker.   *)
ReporterStep(w, o) ==
    LET p == rpos[w] + 1
        t == TestAt(w, p)
    IN  /\ alive
        /\ p <= 2 * Len(TestsOf[w])
        /\ TwoWriters => wpos[w] >= (IF p % 2 = 1 THEN p - 1 ELSE p)
        /\ rpos' = [rpos EXCEPT ![w] = p]
        /\ result' = IF p % 2 = 0 THEN [result EXCEPT ![t] = o] ELSE result
        /\ Append1(IF p % 2 = 1 THEN Begin(w, t) ELSE End(w, t, o))
        /\ UNCHANGED <<setup, wpos, alive, rebegins, pollVars, settling, pc, cur,
                       mapVars, chainVars, stop, witVars, faults>>

(* A second lifecycle of a test whose outcome was reported.                *)
Rebegin(w, t) ==
    /\ alive /\ MayDisturb
    /\ result[t] # NULL
    /\ file' = Append(file, Begin(w, t))
    /\ rebegins' = rebegins + 1
    /\ UNCHANGED <<setup, wpos, rpos, result, alive, lost, pollVars, settling, pc, cur,
                   mapVars, chainVars, stop, witVars, faults>>

(* The runner exits, having finished or not.                               *)
RunnerExit ==
    /\ alive
    /\ alive' = FALSE
    /\ UNCHANGED <<setup, wpos, rpos, result, file, lost, rebegins, pollVars, settling,
                   pc, cur, mapVars, chainVars, stop, witVars, faults>>

----------------------------------------------------------------------------
(* drainOnce: everything past the offset is queued; a last line without    *)
(* its newline is queued and read again by the next poll.                  *)
DrainOnce(again) ==
    /\ Len(file) > offset
    /\ settling' = settling \o SubSeq(file, offset + 1, Len(file))
    /\ offset' = IF again THEN Len(file) - 1 ELSE Len(file)
    /\ again => MayDisturb
    /\ replays' = IF again THEN replays + 1 ELSE replays

Poll ==
    /\ stop = "no"
    /\ \E again \in BOOLEAN : DrainOnce(again)
    /\ UNCHANGED <<runnerVars, pc, cur, mapVars, chainVars, stop, witVars, faults>>

----------------------------------------------------------------------------
(* The witness, as far as one supervisor sees it (external to the drain).  *)

(* POST /sessions/open by (w, t): idempotent while t holds the slot.       *)
WitnessOpens(w, t)  == t \in Expected /\ wslot[w] \in {NULL, t}
WitnessOpen(w, t) ==
    IF WitnessOpens(w, t) /\ wslot[w] = NULL
    THEN /\ wslot' = [wslot EXCEPT ![w] = t]
         /\ wstatus' = [wstatus EXCEPT ![t] = "open"]
         /\ woutcome' = [woutcome EXCEPT ![t] = NULL]
         /\ minted' = [minted EXCEPT ![t] = @ + 1]
         /\ UNCHANGED <<late, refused>>
    ELSE /\ refused' = IF t \in Expected /\ ~WitnessOpens(w, t)
                       THEN refused \cup {t} ELSE refused
         /\ UNCHANGED <<wslot, wstatus, woutcome, minted, late>>

WitnessRelease(w, t) ==
    IF wstatus[t] = "open"
    THEN /\ wstatus' = [wstatus EXCEPT ![t] = "outcome-pending"]
         /\ wslot' = [wslot EXCEPT ![w] = NULL]
         /\ UNCHANGED <<woutcome, minted, late, refused>>
    ELSE UNCHANGED witVars

(* A close seals an open session, and records the outcome of a released    *)
(* one unless another is recorded.                                         *)
WitnessClose(w, t, o) ==
    \/ /\ wstatus[t] = "open"
       /\ wstatus' = [wstatus EXCEPT ![t] = "sealed"]
       /\ woutcome' = [woutcome EXCEPT ![t] = o]
       /\ wslot' = [wslot EXCEPT ![w] = NULL]
       /\ UNCHANGED <<minted, late, refused>>
    \/ /\ wstatus[t] = "outcome-pending"
       /\ woutcome' = IF woutcome[t] = NULL THEN [woutcome EXCEPT ![t] = o]
                      ELSE woutcome
       /\ UNCHANGED <<wslot, wstatus, minted, late, refused>>
    \/ wstatus[t] \in {"none", "sealed"} /\ UNCHANGED witVars

WitnessFinalize(t) ==
    /\ late' = IF wstatus[t] = "sealed" THEN late \cup {t} ELSE late
    /\ UNCHANGED <<wslot, wstatus, woutcome, minted, refused>>

(* A call lost in transport, before or after it took effect.               *)
Faulty(effect) ==
    /\ MayDisturb
    /\ faults' = faults + 1
    /\ effect \/ UNCHANGED witVars

----------------------------------------------------------------------------
(* handleEvent, one stretch per await.                                     *)

(* Mutant: a begin of a released test is not recognised.                   *)
OpenSessionForReleased(e, pending) ==
    /\ begunTests' = begunTests \cup {e.t}
    /\ pendingByWorker' = pending
    /\ IF <<e.w, e.t>> \in endedTests
       THEN pc' = "idle" /\ conflicts' = conflicts \cup {e.t}
       ELSE /\ pc' = IF openByWorker[e.w] = NULL THEN "open" ELSE "idle"
            /\ UNCHANGED conflicts
    /\ UNCHANGED <<openByWorker, endedTests, awaitingOutcome>>

(* Mutant: a begin of an ended test opens again.                           *)
OpenSessionForAgain(e, pending) ==
    /\ begunTests' = begunTests \cup {e.t}
    /\ pendingByWorker' = pending
    /\ pc' = IF openByWorker[e.w] = NULL /\ awaitingOutcome[e.t] = Absent
             THEN "open" ELSE "idle"
    /\ UNCHANGED <<openByWorker, endedTests, awaitingOutcome, conflicts>>

(* openSessionFor up to its client call: nothing for a known lifecycle, a  *)
(* place in the queue behind a busy slot, a conflict for an ended test.    *)
OpenSessionFor(e, pending) ==
    /\ begunTests' = begunTests \cup {e.t}
    /\ \/ /\ awaitingOutcome[e.t] # Absent \/ openByWorker[e.w] = e.t
          /\ pc' = "idle" /\ pendingByWorker' = pending
          /\ UNCHANGED conflicts
       \/ /\ awaitingOutcome[e.t] = Absent
          /\ openByWorker[e.w] \notin {NULL, e.t}
          /\ pc' = "idle"
          /\ pendingByWorker' =
               IF \E i \in 1..Len(pending[e.w]) : pending[e.w][i].t = e.t
               THEN pending ELSE [pending EXCEPT ![e.w] = Append(@, e)]
          /\ UNCHANGED conflicts
       \/ /\ awaitingOutcome[e.t] = Absent /\ openByWorker[e.w] = NULL
          /\ pendingByWorker' = pending
          /\ IF <<e.w, e.t>> \in endedTests
             THEN pc' = "idle" /\ conflicts' = conflicts \cup {e.t}
             ELSE pc' = "open" /\ UNCHANGED conflicts
    /\ UNCHANGED <<openByWorker, endedTests, awaitingOutcome>>

TakeBegin(e) ==
    /\ e.kind = "testBegin"
    /\ OpenSessionFor(e, pendingByWorker)
    /\ UNCHANGED chainVars

(* Mutant: the worker's end frees the drain's slot, not the witness's.     *)
TakeEndOfSlotUnreleased(e) ==
    /\ e.kind = "testEnd" /\ openByWorker[e.w] = e.t
    /\ openByWorker' = [openByWorker EXCEPT ![e.w] = NULL]
    /\ endedTests' = endedTests \cup {<<e.w, e.t>>}
    /\ pc' = CASE e.outcome = NULL -> "next"
               [] e.outcome = "passed" -> "finalize"
               [] OTHER -> "seal"
    /\ awaitingOutcome' = IF e.outcome = NULL
                          THEN [awaitingOutcome EXCEPT ![e.t] = NULL]
                          ELSE awaitingOutcome
    /\ UNCHANGED <<pendingByWorker, begunTests, conflicts, chainVars>>

(* The end of the test that holds the worker's slot.                       *)
TakeEndOfSlot(e) ==
    /\ e.kind = "testEnd" /\ openByWorker[e.w] = e.t
    /\ openByWorker' = [openByWorker EXCEPT ![e.w] = NULL]
    /\ endedTests' = endedTests \cup {<<e.w, e.t>>}
    /\ pc' = CASE e.outcome = NULL -> "release"
               [] e.outcome = "passed" -> "finalize"
               [] OTHER -> "seal"
    /\ UNCHANGED <<pendingByWorker, begunTests, awaitingOutcome, conflicts,
                   chainVars>>

(* Mutant: the outcome is remembered and never sealed.                     *)
TakeEndOfReleasedUnsealed(e) ==
    /\ e.kind = "testEnd" /\ openByWorker[e.w] # e.t
    /\ awaitingOutcome[e.t] # Absent
    /\ pc' = "idle"
    /\ awaitingOutcome' = [awaitingOutcome EXCEPT ![e.t] = e.outcome]
    /\ UNCHANGED <<openByWorker, pendingByWorker, endedTests, begunTests,
                   conflicts, chains, chainPc>>

(* The runner's end of a released test: its outcome goes to the chain.     *)
TakeEndOfReleased(e) ==
    /\ e.kind = "testEnd" /\ openByWorker[e.w] # e.t
    /\ awaitingOutcome[e.t] # Absent
    /\ pc' = "idle"
    /\ CASE e.outcome = NULL -> UNCHANGED <<awaitingOutcome, conflicts, chains>>
         [] e.outcome # NULL /\ awaitingOutcome[e.t] \notin {NULL, e.outcome} ->
              /\ conflicts' = conflicts \cup {e.t}
              /\ UNCHANGED <<awaitingOutcome, chains>>
         [] OTHER ->
              /\ awaitingOutcome' = [awaitingOutcome EXCEPT ![e.t] = e.outcome]
              /\ chains' = Append(chains, <<e.w, e.t, e.outcome>>)
              /\ UNCHANGED conflicts
    /\ UNCHANGED <<openByWorker, pendingByWorker, endedTests, begunTests, chainPc>>

(* An end that closes nothing: a conflict only if no begin was ever seen.  *)
TakeLoneEnd(e) ==
    /\ e.kind = "testEnd" /\ openByWorker[e.w] # e.t
    /\ awaitingOutcome[e.t] = Absent
    /\ pc' = "idle"
    /\ conflicts' = IF e.t \in begunTests THEN conflicts
                    ELSE conflicts \cup {e.t}
    /\ UNCHANGED <<openByWorker, pendingByWorker, endedTests, begunTests,
                   awaitingOutcome, chainVars>>

HandleEvent ==
    /\ pc = "idle" /\ settling # << >>
    /\ LET e == Head(settling) IN
         /\ cur' = e
         /\ TakeBegin(e) \/ TakeEndOfSlot(e) \/ TakeEndOfReleased(e)
            \/ TakeLoneEnd(e)
    /\ settling' = Tail(settling)
    /\ UNCHANGED <<runnerVars, pollVars, stop, witVars, faults>>

(* client.openSession, with one recovery attempt after a lost answer.      *)
AwaitOpen ==
    /\ pc \in {"open", "reopen"}
    /\ \/ /\ WitnessOpen(cur.w, cur.t)
          /\ openByWorker' = IF WitnessOpens(cur.w, cur.t)
                             THEN [openByWorker EXCEPT ![cur.w] = cur.t]
                             ELSE openByWorker
          /\ pc' = "idle"
          /\ UNCHANGED faults
       \/ /\ Faulty(WitnessOpen(cur.w, cur.t))
          /\ pc' = IF pc = "open" THEN "reopen" ELSE "idle"
          /\ UNCHANGED openByWorker
    /\ UNCHANGED <<runnerVars, pollVars, settling, cur, pendingByWorker,
                   endedTests, begunTests, awaitingOutcome, conflicts,
                   chainVars, stop>>

(* Mutant: the worker's end seals the session instead of releasing it.     *)
AwaitReleaseAsSeal ==
    /\ pc = "release"
    /\ pc' = "next"
    /\ WitnessClose(cur.w, cur.t, NULL)
    /\ awaitingOutcome' = [awaitingOutcome EXCEPT ![cur.t] = NULL]
    /\ UNCHANGED <<runnerVars, pollVars, settling, cur, openByWorker,
                   pendingByWorker, endedTests, begunTests, conflicts,
                   chainVars, stop, faults>>

(* releaseQuietly: a release that failed is a conflict.                    *)
AwaitRelease ==
    /\ pc = "release"
    /\ pc' = "next"
    /\ \/ /\ WitnessRelease(cur.w, cur.t)
          /\ awaitingOutcome' = [awaitingOutcome EXCEPT ![cur.t] = NULL]
          /\ UNCHANGED <<conflicts, faults>>
       \/ /\ Faulty(WitnessRelease(cur.w, cur.t))
          /\ conflicts' = conflicts \cup {cur.t}
          /\ UNCHANGED awaitingOutcome
    /\ UNCHANGED <<runnerVars, pollVars, settling, cur, openByWorker,
                   pendingByWorker, endedTests, begunTests, chainVars, stop>>

(* finalizeObserveQuietly and sealQuietly: failures are only noted.        *)
AwaitFinalize ==
    /\ pc = "finalize"
    /\ pc' = "seal"
    /\ \/ WitnessFinalize(cur.t) /\ UNCHANGED faults
       \/ Faulty(WitnessFinalize(cur.t))
    /\ UNCHANGED <<runnerVars, pollVars, settling, cur, mapVars, chainVars, stop>>

AwaitSeal ==
    /\ pc = "seal"
    /\ pc' = "next"
    /\ \/ WitnessClose(cur.w, cur.t, cur.outcome) /\ UNCHANGED faults
       \/ Faulty(WitnessClose(cur.w, cur.t, cur.outcome))
    /\ UNCHANGED <<runnerVars, pollVars, settling, cur, mapVars, chainVars, stop>>

(* openNextPending: queued begins of ended tests are dropped, the first    *)
(* other one is opened.                                                    *)
FirstOpenable(w) ==
    LET q == pendingByWorker[w]
    IN  {i \in 1..Len(q) : /\ <<w, q[i].t>> \notin endedTests
                           /\ \A j \in 1..(i - 1) : <<w, q[j].t>> \in endedTests}

OpenNextPending ==
    /\ pc = "next"
    /\ LET w == cur.w
           q == pendingByWorker[w]
       IN  \/ /\ FirstOpenable(w) = {}
              /\ pendingByWorker' = [pendingByWorker EXCEPT ![w] = << >>]
              /\ pc' = "idle"
              /\ UNCHANGED <<cur, openByWorker, endedTests, begunTests,
                             awaitingOutcome, conflicts>>
           \/ \E i \in FirstOpenable(w) :
                /\ cur' = q[i]
                /\ OpenSessionFor(q[i],
                     [pendingByWorker EXCEPT ![w] = SubSeq(q, i + 1, Len(q))])
    /\ UNCHANGED <<runnerVars, pollVars, settling, chainVars, stop, witVars,
                   faults>>

----------------------------------------------------------------------------
(* The outcome chain: finalize a passed test, then seal it.                *)
ChainStart ==
    /\ chainPc = "idle" /\ chains # << >>
    /\ chainPc' = IF Head(chains)[3] = "passed" THEN "finalize" ELSE "seal"
    /\ UNCHANGED <<runnerVars, pollVars, settling, pc, cur, mapVars, chains,
                   stop, witVars, faults>>

ChainFinalize ==
    /\ chainPc = "finalize"
    /\ chainPc' = "seal"
    /\ \/ WitnessFinalize(Head(chains)[2]) /\ UNCHANGED faults
       \/ Faulty(WitnessFinalize(Head(chains)[2]))
    /\ UNCHANGED <<runnerVars, pollVars, settling, pc, cur, mapVars, chains, stop>>

ChainSeal ==
    LET c == Head(chains) IN
    /\ chainPc = "seal"
    /\ chainPc' = "idle" /\ chains' = Tail(chains)
    /\ \/ WitnessClose(c[1], c[2], c[3]) /\ UNCHANGED faults
       \/ Faulty(WitnessClose(c[1], c[2], c[3]))
    /\ UNCHANGED <<runnerVars, pollVars, settling, pc, cur, mapVars, stop>>

----------------------------------------------------------------------------
(* stop(): after the runner exited, one last poll; when the handlers and   *)
(* the chain are done, whatever is still open is sealed without outcome.   *)
Stop ==
    /\ stop = "no" /\ ~alive
    /\ stop' = "draining"
    /\ IF Len(file) > offset THEN DrainOnce(FALSE)
       ELSE UNCHANGED <<settling, pollVars>>
    /\ UNCHANGED <<runnerVars, pc, cur, mapVars, chainVars, witVars, faults>>

Settled == pc = "idle" /\ settling = << >> /\ chains = << >> /\ chainPc = "idle"

(* Mutant: a session the runner left open is sealed as passed.             *)
ForceCloseAsPassed(w) ==
    /\ stop = "draining" /\ Settled
    /\ openByWorker[w] # NULL
    /\ openByWorker' = [openByWorker EXCEPT ![w] = NULL]
    /\ WitnessClose(w, openByWorker[w], "passed")
    /\ UNCHANGED <<runnerVars, pollVars, settling, pc, cur, pendingByWorker,
                   endedTests, begunTests, awaitingOutcome, conflicts,
                   chainVars, stop, faults>>

(* Mutant: stop() returns without closing what is left open.               *)
StopDoneEarly ==
    /\ stop = "draining" /\ Settled
    /\ stop' = "done"
    /\ UNCHANGED <<runnerVars, pollVars, settling, pc, cur, mapVars, chainVars,
                   witVars, faults>>

ForceClose(w) ==
    /\ stop = "draining" /\ Settled
    /\ openByWorker[w] # NULL
    /\ openByWorker' = [openByWorker EXCEPT ![w] = NULL]
    /\ \/ WitnessClose(w, openByWorker[w], NULL) /\ UNCHANGED faults
       \/ Faulty(WitnessClose(w, openByWorker[w], NULL))
    /\ UNCHANGED <<runnerVars, pollVars, settling, pc, cur, pendingByWorker,
                   endedTests, begunTests, awaitingOutcome, conflicts,
                   chainVars, stop>>

StopDone ==
    /\ stop = "draining" /\ Settled
    /\ \A w \in Workers : openByWorker[w] = NULL
    /\ stop' = "done"
    /\ UNCHANGED <<runnerVars, pollVars, settling, pc, cur, mapVars, chainVars,
                   witVars, faults>>

Drain == \/ Poll \/ HandleEvent \/ AwaitOpen \/ AwaitRelease \/ AwaitFinalize
         \/ AwaitSeal \/ OpenNextPending \/ ChainStart \/ ChainFinalize
         \/ ChainSeal \/ Stop \/ StopDone \/ \E w \in Workers : ForceClose(w)

Runner == \/ RunnerExit
          \/ \E w \in Workers :
               \/ WorkerStep(w)
               \/ \E o \in {"passed", "failed"} : ReporterStep(w, o)
               \/ \E i \in 1..Len(TestsOf[w]) : Rebegin(w, TestsOf[w][i])

Next == Runner \/ Drain

Spec == Init /\ [][Next]_vars

(* The drain's loop and promises run on, its client calls end (they carry  *)
(* timeouts), and the supervised runner exits in the end.                  *)
FairSpec == Spec /\ WF_vars(Drain) /\ WF_vars(RunnerExit)

----------------------------------------------------------------------------
(* Properties.                                                             *)

(* Type invariant of the drain's maps, its queues and the witness answers. *)
TypeOK ==
    /\ setup \in Setups
    /\ wpos \in [Workers -> Nat] /\ rpos \in [Workers -> Nat]
    /\ result \in [Tests -> {NULL, "passed", "failed"}]
    /\ file \in Seq(Event) /\ alive \in BOOLEAN /\ offset \in 0..Len(file)
    /\ settling \in Seq(Event)
    /\ pc \in {"idle", "open", "reopen", "release", "finalize", "seal", "next"}
    /\ cur \in Event \cup {NULL}
    /\ openByWorker \in [Workers -> Tests \cup {NULL}]
    /\ pendingByWorker \in [Workers -> Seq(Event)]
    /\ endedTests \subseteq Workers \X Tests
    /\ begunTests \subseteq Tests /\ conflicts \subseteq Tests
    /\ awaitingOutcome \in [Tests -> {Absent, NULL, "passed", "failed"}]
    /\ chains \in Seq(Workers \X Tests \X {"passed", "failed"})
    /\ chainPc \in {"idle", "finalize", "seal"}
    /\ stop \in {"no", "draining", "done"}
    /\ wslot \in [Workers -> Tests \cup {NULL}]
    /\ wstatus \in [Tests -> {"none", "open", "outcome-pending", "sealed"}]
    /\ woutcome \in [Tests -> {NULL, "passed", "failed"}]
    /\ minted \in [Tests -> Nat]
    /\ late \subseteq Tests /\ refused \subseteq Tests
    /\ {lost, replays, rebegins, faults} \subseteq Nat

(* Every line the runner meant to write is in the spool, once per step.    *)
Genuine == lost = 0 /\ rebegins = 0

(* Genuine events never conflict, whatever order the two writers append    *)
(* in and also when the last line is read twice.                           *)
GenuineRunsDoNotConflict == Genuine /\ faults = 0 => conflicts = {}

(* Lines may be lost and read twice: no expected test is refused its       *)
(* session because the worker's previous session still holds the witness's *)
(* slot.                                                                   *)
NextTestFindsItsSlot == faults = 0 => refused = {}

(* One test has one session, also with replayed lines, lost answers and a  *)
(* reporter that trails the worker.                                        *)
OneSessionPerTest == \A t \in Tests : minted[t] <= 1

(* What the witness holds as a test's outcome is what the runner reported, *)
(* and a session the runner never finished carries none.                   *)
OutcomeIsTheRunners == \A t \in Tests : woutcome[t] # NULL => woutcome[t] = result[t]

(* Finalize precedes the seal of the same session.                         *)
FinalizeBeforeSeal == late = {}

(* However the runner ended, once stop() returned the witness holds no     *)
(* open session, unless a call was lost in transport.                      *)
StopLeavesNothingOpen ==
    stop = "done" /\ faults = 0 => \A t \in Tests : wstatus[t] # "open"

Contract ==
    INSTANCE Supervision WITH running <- alive, reported <- result, status <- wstatus,
                              holds <- wslot, outcome <- woutcome, over <- (stop = "done")

(* The drain keeps what Supervision promises the witness: however lines are *)
(* lost, repeated or late, and calls lost before or after their effect, no  *)
(* session is taken up again, sealed with anything but the runner's outcome,*)
(* given up while the runner runs, or touched after stop() has returned.    *)
ImplementsSupervision == Contract!Spec

(* stop() returns, and by then every expected test whose outcome reached   *)
(* the spool is sealed with it, if its lifecycle reached the spool too and *)
(* no call was lost.                                                       *)
RunIsSealed ==
    <>(/\ stop = "done"
       /\ Genuine /\ faults = 0 =>
            \A i \in 1..Len(file) :
              file[i].outcome # NULL /\ file[i].t \in Expected =>
                woutcome[file[i].t] = file[i].outcome)

=============================================================================

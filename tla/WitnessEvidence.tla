-------------------------- MODULE WitnessEvidence --------------------------
(***************************************************************************)
(* What the witness credits as evidence, and when                          *)
(* (packages/witness/src/witness/server.ts): the run-context binding and   *)
(* its watermark, the observation proxy's exchanges, the UI-action         *)
(* intervals on the witness clock, the single-use consumption by           *)
(* /witness/http-observation, the Observe finalize of a passed session,    *)
(* and the records a release and a close leave behind.                     *)
(*                                                                         *)
(* A handler is atomic up to its next await.  The finalize awaits adapter  *)
(* reads between matching an exchange and issuing the record, and a proxied*)
(* exchange is a request now and a completion later.  Paths, bodies and    *)
(* status codes are data: whether an exchange matches a binding is a free  *)
(* choice.  The open handler's own awaits are the subject of               *)
(* WitnessSessions; here a session is simply open.                         *)
(***************************************************************************)
EXTENDS Naturals, Sequences, FiniteSets

CONSTANTS
    Sessions,
    Exchanges,     \* bound: the proxied requests of the run
    NULL,
    MaxIntervals,  \* bound: UI-action intervals per session
    MaxCloses      \* bound: http.exchanges records of one session

ASSUME EvidenceAssumption ==
    /\ NULL \notin Sessions /\ NULL \notin {"passed", "failed"}
    /\ MaxIntervals \in Nat /\ MaxCloses \in Nat

VARIABLES
    bound,      \* state.runContext # null
    watermark,  \* state.observedSeqAtBind
    seq,        \* state.observedSeq
    tick,       \* state.tick
    status,     \* TestSession.status
    outcome,    \* TestSession.outcome
    snapshots,  \* keys of state.observeSnapshots
    sealedTick, \* TestSession.sealedTick
    intervals,  \* TestSession.intervals, in opening order; end 0 = still open
    phase,      \* an exchange: idle, flying, observed (in state.observed), gone
    owner,      \* ... the session of the port it arrived on, NULL = shared
    seqOf,      \* ... its completion sequence number
    tickOf,     \* ... its completion tick
    fresh,      \* ... whether the context was bound when it started
    finalize,   \* the finalize handler's continuation, per session
    ledger      \* state.ledger

exVars == <<phase, owner, seqOf, tickOf, fresh>>
endVars == <<outcome, snapshots, sealedTick>>
vars == <<bound, watermark, seq, tick, status, endVars, intervals, exVars,
          finalize, ledger>>

Interval == [start : Nat, end : Nat]

(* The claims of a finalizing session still to resolve, the transport      *)
(* snapshot taken when it began (and the sequence number then), and the    *)
(* exchanges a persistence claim matched while its adapter read is awaited *)
(* (one, or several reads of the same entity).                             *)
NotFinalizing == [todo |-> {}, snap |-> {}, upto |-> 0, match |-> {},
                  begun |-> FALSE]

(* issueRecord: the session, the exchanges the record rests on, a number   *)
(* (for http.observed the sequence number of its snapshot, for             *)
(* http.exchanges which of the session's such records it is), and whether  *)
(* the session was already sealed when the record was issued.              *)
Record(kind, s, exs, n) ==
    [kind |-> kind, s |-> s, exs |-> exs, n |-> n,
     late |-> status[s] = "sealed"]

Init ==
    /\ bound = FALSE /\ watermark = 0 /\ seq = 0 /\ tick = 0
    /\ status = [s \in Sessions |-> "unborn"]
    /\ outcome = [s \in Sessions |-> NULL]
    /\ snapshots = {}
    /\ sealedTick = [s \in Sessions |-> 0]
    /\ intervals = [s \in Sessions |-> << >>]
    /\ phase = [e \in Exchanges |-> "idle"]
    /\ owner = [e \in Exchanges |-> NULL]
    /\ seqOf = [e \in Exchanges |-> 0]
    /\ tickOf = [e \in Exchanges |-> 0]
    /\ fresh = [e \in Exchanges |-> FALSE]
    /\ finalize = [s \in Sessions |-> NotFinalizing]
    /\ ledger = {}

----------------------------------------------------------------------------
(* Mutant: only evidence already held refuses the binding, not an open     *)
(* session or a proxied request in flight.                                 *)
HoldsNothing ==
    /\ ledger = {}
    /\ \A e \in Exchanges : phase[e] # "observed"

(* POST /run-context: only a witness that has seen and issued nothing, and *)
(* has no proxied request in flight, can be bound; bound state is never    *)
(* relabelled, and a refused bind (409) changes nothing.                   *)
Unused ==
    /\ ledger = {}
    /\ \A e \in Exchanges : phase[e] \notin {"flying", "observed"}
    /\ \A s \in Sessions : status[s] = "unborn"

RunContext ==
    /\ ~bound
    /\ Unused
    /\ bound' = TRUE
    /\ watermark' = seq
    /\ UNCHANGED <<seq, tick, status, endVars, intervals, exVars, finalize,
                   ledger>>

SessionOpen(s) ==
    /\ status[s] = "unborn"
    /\ status' = [status EXCEPT ![s] = "open"]
    /\ snapshots' = snapshots \cup {s}
    /\ tick' = tick + 1
    /\ UNCHANGED <<bound, watermark, seq, outcome, sealedTick, intervals,
                   exVars, finalize, ledger>>

----------------------------------------------------------------------------
(* The observation proxy.                                                  *)

(* A request reaches a port: the shared one, or the dedicated port of a    *)
(* session whose listeners are up.                                         *)
ExchangeStart(e, o) ==
    /\ phase[e] = "idle"
    /\ o # NULL => status[o] = "open"
    /\ phase' = [phase EXCEPT ![e] = "flying"]
    /\ owner' = [owner EXCEPT ![e] = o]
    /\ fresh' = [fresh EXCEPT ![e] = bound]
    /\ UNCHANGED <<bound, watermark, seq, tick, status, endVars, intervals,
                   seqOf, tickOf, finalize, ledger>>

(* The upstream response ended: numbered, stamped with the witness clock,  *)
(* attributed to its port's session whatever became of that session.       *)
ExchangeEnd(e) ==
    /\ phase[e] = "flying"
    /\ seq' = seq + 1
    /\ tick' = tick + 1
    /\ phase' = [phase EXCEPT ![e] = "observed"]
    /\ seqOf' = [seqOf EXCEPT ![e] = seq + 1]
    /\ tickOf' = [tickOf EXCEPT ![e] = tick + 1]
    /\ UNCHANGED <<bound, watermark, status, endVars, intervals, owner,
                   fresh, finalize, ledger>>

(* The upstream errored: settled, never observed.                          *)
ExchangeError(e) ==
    /\ phase[e] = "flying"
    /\ phase' = [phase EXCEPT ![e] = "gone"]
    /\ UNCHANGED <<bound, watermark, seq, tick, status, endVars, intervals,
                   owner, seqOf, tickOf, fresh, finalize, ledger>>

----------------------------------------------------------------------------
(* UI-action intervals.                                                    *)

IsOpen(i) == i.end = 0

(* Mutant: a dangling interval stays open when the next one starts.        *)
IntervalOpenDangling(s) ==
    /\ status[s] = "open"
    /\ Len(intervals[s]) < MaxIntervals
    /\ tick' = tick + 1
    /\ intervals' = [intervals EXCEPT ![s] =
                       Append(@, [start |-> tick + 1, end |-> 0])]
    /\ UNCHANGED <<bound, watermark, seq, status, endVars, exVars, finalize,
                   ledger>>

(* openActionInterval: every open interval is closed at its own tick, then *)
(* the new one starts; at most one is ever open.                           *)
IntervalOpen(s) ==
    LET n == Cardinality({i \in 1..Len(intervals[s]) : IsOpen(intervals[s][i])})
        closed == [i \in 1..Len(intervals[s]) |->
                     IF IsOpen(intervals[s][i])
                     THEN [intervals[s][i] EXCEPT !.end = tick + 1]
                     ELSE intervals[s][i]]
    IN  /\ status[s] = "open"
        /\ Len(intervals[s]) < MaxIntervals
        /\ tick' = tick + n + 1
        /\ intervals' = [intervals EXCEPT ![s] =
                           Append(closed, [start |-> tick + n + 1, end |-> 0])]
        /\ UNCHANGED <<bound, watermark, seq, status, endVars, exVars,
                       finalize, ledger>>

(* closeActionInterval: an already closed window is never stretched.       *)
IntervalClose(s, i) ==
    /\ status[s] = "open"
    /\ IsOpen(intervals[s][i])
    /\ tick' = tick + 1
    /\ intervals' = [intervals EXCEPT ![s][i].end = tick + 1]
    /\ UNCHANGED <<bound, watermark, seq, status, endVars, exVars, finalize,
                   ledger>>

(* tickWithinSessionInterval. *)
WithinInterval(s, t) ==
    \E i \in 1..Len(intervals[s]) :
      /\ t >= intervals[s][i].start
      /\ IsOpen(intervals[s][i]) \/ t <= intervals[s][i].end

----------------------------------------------------------------------------
(* Consumption.                                                            *)

(* Exchanges that completed before the binding are never consumable.       *)
Watermark == IF bound THEN watermark ELSE 0

(* state.observed entries of session s past the bind watermark.            *)
Observed(s) == {e \in Exchanges : /\ phase[e] = "observed" /\ owner[e] = s
                                  /\ seqOf[e] > Watermark}

(* POST /witness/http-observation by an open session: the exchange came    *)
(* through its own port, inside one of its intervals.  Consumed first,     *)
(* then recorded.                                                          *)
HttpObservation(s, e) ==
    /\ status[s] = "open"
    /\ e \in Observed(s)
    /\ WithinInterval(s, tickOf[e])
    /\ phase' = [phase EXCEPT ![e] = "gone"]
    /\ ledger' = ledger \cup {Record("http.request", s, {e}, 0)}
    /\ UNCHANGED <<bound, watermark, seq, tick, status, endVars, intervals,
                   owner, seqOf, tickOf, fresh, finalize>>

(* Mutant: a transport claim reads the live log, after the exchanges of    *)
(* the persistence claims before it were consumed.                         *)
TransportRecordLive(s, f) ==
    LET left == Observed(s) \ f.match
    IN  IF "transport" \in f.todo /\ left # {}
        THEN {Record("http.observed", s, left, f.upto)} ELSE {}

(* finalizeHttpObserveClaim: what a transport claim (request-observed,     *)
(* response-status-ok) of a finalize with snapshot f.snap adds.            *)
TransportRecord(s, f) ==
    IF "transport" \in f.todo /\ f.snap # {}
    THEN {Record("http.observed", s, f.snap, f.upto)} ELSE {}

(* POST /observe/finalize (once per session: the drain finalizes a passed  *)
(* test before it closes it).  The transport snapshot is taken before any  *)
(* claim is walked.  Claims are walked in id order: a transport claim that *)
(* comes first is resolved at once; a persistence claim awaits its adapter *)
(* first.                                                                  *)
ObserveFinalize(s, transportFirst) ==
    LET f == [todo |-> {"transport", "persistence"}, snap |-> Observed(s),
              upto |-> seq, match |-> {}, begun |-> TRUE]
    IN  /\ status[s] \in {"open", "outcome-pending"}
        /\ ~finalize[s].begun
        /\ IF transportFirst
           THEN /\ ledger' = ledger \cup TransportRecord(s, f)
                /\ finalize' = [finalize EXCEPT ![s] =
                                  [f EXCEPT !.todo = {"persistence"}]]
           ELSE /\ finalize' = [finalize EXCEPT ![s] = f]
                /\ UNCHANGED ledger
        /\ UNCHANGED <<bound, watermark, seq, tick, status, endVars,
                       intervals, exVars>>

(* A persistence claim found its before-state and matched exchanges M of   *)
(* the live log (exactly one, or agreeing repeated reads); the adapter     *)
(* read is awaited next.                                                   *)
FinalizeMatch(s, M) ==
    /\ "persistence" \in finalize[s].todo /\ finalize[s].match = {}
    /\ s \in snapshots
    /\ M # {} /\ M \subseteq Observed(s)
    /\ finalize' = [finalize EXCEPT ![s].match = M]
    /\ UNCHANGED <<bound, watermark, seq, tick, status, endVars, intervals,
                   exVars, ledger>>

(* No adapter, no usable snapshot, no or ambiguous traffic, or the adapter *)
(* read failed: a note, never a record; a later transport claim follows in *)
(* the same stretch.                                                       *)
FinalizeNote(s) ==
    /\ "persistence" \in finalize[s].todo
    /\ ledger' = ledger \cup TransportRecord(s, finalize[s])
    /\ finalize' = [finalize EXCEPT ![s] = [NotFinalizing EXCEPT !.begun = TRUE]]
    /\ UNCHANGED <<bound, watermark, seq, tick, status, endVars, intervals,
                   exVars>>

(* The read returned: the record is issued, whatever became of the session *)
(* meanwhile, and the exchanges are dropped from the log if still there.   *)
FinalizeIssue(s) ==
    /\ finalize[s].match # {}
    /\ LET M == finalize[s].match IN
         /\ ledger' = ledger \cup {Record("persistence.observed", s, M, 0)}
                             \cup TransportRecord(s, finalize[s])
         /\ phase' = [e \in Exchanges |-> IF e \in M THEN "gone" ELSE phase[e]]
    /\ finalize' = [finalize EXCEPT ![s] = [NotFinalizing EXCEPT !.begun = TRUE]]
    /\ UNCHANGED <<bound, watermark, seq, tick, status, endVars, intervals,
                   owner, seqOf, tickOf, fresh>>

----------------------------------------------------------------------------
(* POST /sessions/release and /sessions/close.                             *)
SessionRelease(s) ==
    /\ status[s] = "open"
    /\ status' = [status EXCEPT ![s] = "outcome-pending"]
    /\ tick' = tick + 1
    /\ sealedTick' = [sealedTick EXCEPT ![s] = tick + 1]
    /\ UNCHANGED <<bound, watermark, seq, outcome, snapshots, intervals, exVars,
                   finalize, ledger>>

(* issueSessionExchangesRecord: the claim-free record of a session whose   *)
(* outcome is o.                                                           *)
ExchangesIssued(s) ==
    Cardinality({r \in ledger : r.kind = "http.exchanges" /\ r.s = s})

ExchangesRecord(s, o) ==
    IF o = "passed" /\ Observed(s) # {}
    THEN {Record("http.exchanges", s, Observed(s), ExchangesIssued(s) + 1)}
    ELSE {}

(* Mutant: the close's own outcome decides, also one that carries none.    *)
CloseOutcomeOnly(s, o) == o

(* A close that carries outcome o (NULL: none) of an open session, or of a *)
(* released one, where a second, different outcome is refused (409).       *)
CloseOutcome(s, o) == IF status[s] = "open" \/ o # NULL THEN o ELSE outcome[s]

SessionClose(s, o) ==
    /\ status[s] \in {"open", "outcome-pending"}
    /\ outcome[s] # NULL /\ o # NULL => o = outcome[s]
    /\ ExchangesIssued(s) < MaxCloses
    /\ outcome' = [outcome EXCEPT ![s] = CloseOutcome(s, o)]
    /\ ledger' = ledger \cup ExchangesRecord(s, CloseOutcome(s, o))
    /\ snapshots' = snapshots \ {s}
    /\ IF status[s] = "open"
       THEN /\ status' = [status EXCEPT ![s] = "sealed"]
            /\ tick' = tick + 1
            /\ sealedTick' = [sealedTick EXCEPT ![s] = tick + 1]
       ELSE UNCHANGED <<status, tick, sealedTick>>
    /\ UNCHANGED <<bound, watermark, seq, intervals, exVars, finalize>>

Next ==
    \/ RunContext
    \/ \E s \in Sessions :
         \/ SessionOpen(s) \/ SessionRelease(s)
         \/ \E o \in {NULL, "passed", "failed"} : SessionClose(s, o)
         \/ IntervalOpen(s)
         \/ \E i \in 1..Len(intervals[s]) : IntervalClose(s, i)
         \/ \E e \in Exchanges : HttpObservation(s, e)
         \/ \E M \in SUBSET Exchanges : FinalizeMatch(s, M)
         \/ \E first \in BOOLEAN : ObserveFinalize(s, first)
         \/ FinalizeNote(s) \/ FinalizeIssue(s)
    \/ \E e \in Exchanges :
         \/ \E o \in Sessions \cup {NULL} : ExchangeStart(e, o)
         \/ ExchangeEnd(e) \/ ExchangeError(e)

Spec == Init /\ [][Next]_vars

----------------------------------------------------------------------------
(* Properties.                                                             *)

Statuses == {"unborn", "open", "outcome-pending", "sealed"}
Kinds == {"http.request", "http.observed", "persistence.observed",
          "http.exchanges"}

(* Type invariant of the witness's clocks, exchange log and ledger.        *)
TypeOK ==
    /\ bound \in BOOLEAN /\ watermark \in Nat /\ seq \in Nat /\ tick \in Nat
    /\ status \in [Sessions -> Statuses]
    /\ outcome \in [Sessions -> {NULL, "passed", "failed"}]
    /\ snapshots \subseteq Sessions
    /\ sealedTick \in [Sessions -> Nat]
    /\ intervals \in [Sessions -> Seq(Interval)]
    /\ phase \in [Exchanges -> {"idle", "flying", "observed", "gone"}]
    /\ owner \in [Exchanges -> Sessions \cup {NULL}]
    /\ seqOf \in [Exchanges -> Nat] /\ tickOf \in [Exchanges -> Nat]
    /\ fresh \in [Exchanges -> BOOLEAN]
    /\ finalize \in [Sessions ->
         [todo : SUBSET {"transport", "persistence"}, snap : SUBSET Exchanges,
          upto : Nat, match : SUBSET Exchanges, begun : BOOLEAN]]
    /\ ledger \subseteq [kind : Kinds, s : Sessions, exs : SUBSET Exchanges,
                         n : Nat, late : BOOLEAN]

(* Nothing that started under an older invocation is ever signed under the *)
(* bound context: every exchange a record of a bound witness rests on had  *)
(* started after the binding.  An exchange in flight at the bind is what   *)
(* could break this: it completes above the watermark.                     *)
ContextPrecedesEvidence ==
    bound => \A r \in ledger : \A e \in r.exs : fresh[e]

(* Action windows of a session never overlap and at most one is open.      *)
IntervalsDisjoint ==
    \A s \in Sessions : \A i, j \in 1..Len(intervals[s]) :
      i < j => /\ ~IsOpen(intervals[s][i])
               /\ intervals[s][i].end < intervals[s][j].start

(* Evidence never crosses sessions, and a browser-credited request         *)
(* completed inside exactly one recorded action window of its own session: *)
(* a dangling window does not widen the window of a later action, which    *)
(* would let one request prove two actions.                                *)
RequestsWithinOwnIntervals ==
    /\ IntervalsDisjoint
    /\ \A r \in ledger : \A e \in r.exs :
         /\ owner[e] = r.s
         /\ r.kind = "http.request" => WithinInterval(r.s, tickOf[e])

(* A transport record carries every completed exchange the same finalize   *)
(* credited to a persistence claim: the order the claims are walked in     *)
(* does not decide what the transport record says.                         *)
TransportSeesConsumed ==
    \A r, p \in ledger :
      /\ r.kind = "http.observed" /\ p.kind = "persistence.observed"
      /\ r.s = p.s
      => \A e \in p.exs : seqOf[e] <= r.n => e \in r.exs

(* Only a session that ended passed retains its exchanges: a session with  *)
(* an http.exchanges record keeps the outcome passed for good.             *)
ExchangesOfPassedOnly ==
    \A r \in ledger : r.kind = "http.exchanges" => outcome[r.s] = "passed"

(* "observe finalizes before seal, never after (records cannot be injected *)
(* after the test ended)".                                                 *)
NoRecordAfterSeal == \A r \in ledger : ~r.late

=============================================================================

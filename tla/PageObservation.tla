-------------------------- MODULE PageObservation --------------------------
(***************************************************************************)
(* Page observers of test sessions and the page records they leave in the *)
(* witness ledger (packages/witness/src/witness: server.ts,               *)
(* page-observer-registration.ts, page-observer.ts).                      *)
(*                                                                        *)
(* An observer attaches to the test's browser (an await), then emits a    *)
(* pair of page records per settled page.  The records are tracked per    *)
(* session in pageObservationRecords until the session's seal decides     *)
(* whether they stay.  Closing an observer awaits a flush, during which   *)
(* it still emits.  What a page looked like is data: an emission either   *)
(* names a declared page (records) or does not (none).                    *)
(***************************************************************************)
EXTENDS Naturals

CONSTANTS
    Sessions,
    Observers,    \* bound: attach attempts
    NULL,
    MaxVisits     \* bound: recorded page visits per session

ASSUME PageAssumption ==
    /\ NULL \notin Observers /\ NULL \notin Sessions /\ NULL \notin {"passed", "failed"}
    /\ MaxVisits \in Nat

VARIABLES
    status,      \* TestSession.status: open, outcome-pending, sealed
    outcome,     \* TestSession.outcome
    stopping,    \* the session's close or release handler: "none", "proxy"
                 \* (awaits stopSessionProxy), "ended" (past stopPageObserver)
    obs,         \* an observer: idle, attaching, live, closing, closed
    sessionOf,   \* ... the session it was registered for
    dirty,       \* ... has an observation it has not emitted yet
    pageObservers,  \* state.pageObservers
    visits,      \* records issued per session so far
    tracked,     \* state.pageObservationRecords, as visit numbers
    ledger,      \* page records in state.ledger: <<session, visit>>
    attested,    \* page records some signed attestation named
    shutdown,    \* stopWitness: "up", "stopping", "sealed", "down"
    awaited      \* ... the observer whose close it awaits

handlerVars == <<status, outcome, stopping>>
obsVars == <<obs, sessionOf, pageObservers>>
recVars == <<visits, tracked, ledger>>
stopVars == <<shutdown, awaited>>
vars == <<handlerVars, obsVars, dirty, recVars, attested, stopVars>>

Outcomes == {NULL, "passed", "failed"}

Init ==
    /\ status = [s \in Sessions |-> "open"]
    /\ outcome = [s \in Sessions |-> NULL]
    /\ stopping = [s \in Sessions |-> "none"]
    /\ obs = [o \in Observers |-> "idle"]
    /\ sessionOf = [o \in Observers |-> NULL]
    /\ dirty = [o \in Observers |-> FALSE]
    /\ pageObservers = [s \in Sessions |-> NULL]
    /\ visits = [s \in Sessions |-> 0]
    /\ tracked = [s \in Sessions |-> {}]
    /\ ledger = {}
    /\ attested = {}
    /\ shutdown = "up" /\ awaited = NULL

----------------------------------------------------------------------------
(* POST /sessions/page-observer.                                           *)

(* registerPageObserver up to its await: an open session without an       *)
(* observer in the map.                                                   *)
RegisterPageObserver(o, s) ==
    /\ obs[o] = "idle"
    /\ shutdown # "down"
    /\ status[s] = "open"
    /\ pageObservers[s] = NULL
    /\ obs' = [obs EXCEPT ![o] = "attaching"]
    /\ sessionOf' = [sessionOf EXCEPT ![o] = s]
    /\ UNCHANGED <<handlerVars, dirty, pageObservers, recVars, attested,
                   stopVars>>

(* The browser answered: the observer goes into the map, whatever is      *)
(* there and whatever became of the session.                              *)
Attached(o) ==
    /\ obs[o] = "attaching"
    /\ obs' = [obs EXCEPT ![o] = "live"]
    /\ pageObservers' = [pageObservers EXCEPT ![sessionOf[o]] = o]
    /\ UNCHANGED <<handlerVars, sessionOf, dirty, recVars, attested, stopVars>>

AttachFailed(o) ==
    /\ obs[o] = "attaching"
    /\ obs' = [obs EXCEPT ![o] = "closed"]
    /\ UNCHANGED <<handlerVars, sessionOf, dirty, pageObservers, recVars,
                   attested, stopVars>>

(* Page activity an attached observer has to report.                      *)
PageActivity(o) ==
    /\ obs[o] \in {"live", "closing"}
    /\ ~dirty[o]
    /\ dirty' = [dirty EXCEPT ![o] = TRUE]
    /\ UNCHANGED <<handlerVars, obsVars, recVars, attested, stopVars>>

(* onVisit for a declared page: its records are issued and tracked.       *)
OnVisit(o) ==
    LET s == sessionOf[o]
        n == visits[s] + 1
    IN  /\ dirty[o]
        /\ visits[s] < MaxVisits
        /\ dirty' = [dirty EXCEPT ![o] = FALSE]
        /\ visits' = [visits EXCEPT ![s] = n]
        /\ ledger' = ledger \cup {<<s, n>>}
        /\ tracked' = [tracked EXCEPT ![s] = @ \cup {n}]
        /\ UNCHANGED <<handlerVars, obsVars, attested, stopVars>>

(* onVisit for a page nobody declared, or a window that is not graded.    *)
OnUnmatchedVisit(o) ==
    /\ dirty[o]
    /\ dirty' = [dirty EXCEPT ![o] = FALSE]
    /\ UNCHANGED <<handlerVars, obsVars, recVars, attested, stopVars>>

(* The flush of close() found nothing left to emit: `closed` stops it.    *)
ObserverClosed(o) ==
    /\ obs[o] = "closing"
    /\ ~dirty[o]
    /\ obs' = [obs EXCEPT ![o] = "closed"]
    /\ UNCHANGED <<handlerVars, sessionOf, dirty, pageObservers, recVars,
                   attested, stopVars>>

----------------------------------------------------------------------------
(* The end of a session.                                                   *)

(* stopPageObserver up to its await.                                      *)
StopPageObserver(s) ==
    /\ obs' = [o \in Observers |->
                 IF o = pageObservers[s] THEN "closing" ELSE obs[o]]
    /\ pageObservers' = [pageObservers EXCEPT ![s] = NULL]
    /\ UNCHANGED sessionOf

(* Mutant: the records of a session without an outcome stay.              *)
SealPageObservationRecordsUnlessFailed(s, o) ==
    /\ ledger' = IF o = "failed" THEN ledger \ ({s} \X tracked[s]) ELSE ledger
    /\ tracked' = [tracked EXCEPT ![s] = {}]

(* sealPageObservationRecords: only a passed session keeps them.          *)
SealPageObservationRecords(s, o) ==
    /\ ledger' = IF o # "passed" THEN ledger \ ({s} \X tracked[s]) ELSE ledger
    /\ tracked' = [tracked EXCEPT ![s] = {}]

(* POST /sessions/close of an open session: sealed, records decided, then *)
(* the proxy's listeners are closed (an await) before the observer is.    *)
CloseOpen(s, o) ==
    /\ status[s] = "open"
    /\ status' = [status EXCEPT ![s] = "sealed"]
    /\ outcome' = [outcome EXCEPT ![s] = o]
    /\ SealPageObservationRecords(s, o)
    /\ stopping' = [stopping EXCEPT ![s] = "proxy"]
    /\ UNCHANGED <<obsVars, dirty, visits, attested, stopVars>>

(* POST /sessions/close of a released session: a second, different        *)
(* outcome is refused.                                                    *)
CloseReleased(s, o) ==
    /\ status[s] = "outcome-pending"
    /\ o # NULL /\ outcome[s] # NULL => outcome[s] = o
    /\ outcome' = [outcome EXCEPT ![s] = IF o # NULL THEN o ELSE @]
    /\ SealPageObservationRecords(s, outcome'[s])
    /\ StopPageObserver(s)
    /\ UNCHANGED <<status, stopping, dirty, visits, attested, stopVars>>

(* POST /sessions/release. *)
Release(s) ==
    /\ status[s] = "open"
    /\ status' = [status EXCEPT ![s] = "outcome-pending"]
    /\ stopping' = [stopping EXCEPT ![s] = "proxy"]
    /\ UNCHANGED <<outcome, obsVars, dirty, recVars, attested, stopVars>>

(* stopSessionProxy is over; the handler stops the observer.              *)
ProxyStopped(s) ==
    /\ stopping[s] = "proxy"
    /\ stopping' = [stopping EXCEPT ![s] = "ended"]
    /\ StopPageObserver(s)
    /\ UNCHANGED <<status, outcome, dirty, recVars, attested, stopVars>>

----------------------------------------------------------------------------
(* GET /ledger attestation of the live ledger.                             *)
LedgerAttestation ==
    /\ shutdown # "down"
    /\ attested' = attested \cup ledger
    /\ UNCHANGED <<handlerVars, obsVars, dirty, recVars, stopVars>>

(* stopWitness: the observers in the map are closed one after the other,  *)
(* then every record still tracked is dropped, then (server.close, more   *)
(* awaits) the record ids go into the signed manifest.                    *)
StopWitness ==
    /\ shutdown = "up"
    /\ shutdown' = "stopping"
    /\ UNCHANGED <<handlerVars, obsVars, dirty, recVars, attested, awaited>>

LastObserverClosed == awaited # NULL => obs[awaited] = "closed"

StopObserver(s) ==
    /\ shutdown = "stopping" /\ LastObserverClosed
    /\ pageObservers[s] # NULL
    /\ awaited' = pageObservers[s]
    /\ StopPageObserver(s)
    /\ UNCHANGED <<handlerVars, dirty, recVars, attested, shutdown>>

(* Mutant: shutdown drops every page record, not only the tracked ones.   *)
StopSealEverything ==
    /\ shutdown = "stopping" /\ LastObserverClosed
    /\ \A s \in Sessions : pageObservers[s] = NULL
    /\ shutdown' = "sealed" /\ awaited' = NULL
    /\ ledger' = {}
    /\ tracked' = [s \in Sessions |-> {}]
    /\ UNCHANGED <<handlerVars, obsVars, dirty, visits, attested>>

StopSeal ==
    /\ shutdown = "stopping" /\ LastObserverClosed
    /\ \A s \in Sessions : pageObservers[s] = NULL
    /\ shutdown' = "sealed" /\ awaited' = NULL
    /\ ledger' = {r \in ledger : r[2] \notin tracked[r[1]]}
    /\ tracked' = [s \in Sessions |-> {}]
    /\ UNCHANGED <<handlerVars, obsVars, dirty, visits, attested>>

AppendRecordIds ==
    /\ shutdown = "sealed"
    /\ shutdown' = "down"
    /\ attested' = attested \cup ledger
    /\ UNCHANGED <<handlerVars, obsVars, dirty, recVars, awaited>>

Next ==
    \/ \E o \in Observers :
         \/ \E s \in Sessions : RegisterPageObserver(o, s)
         \/ Attached(o) \/ AttachFailed(o) \/ PageActivity(o) \/ OnVisit(o)
         \/ OnUnmatchedVisit(o) \/ ObserverClosed(o)
    \/ \E s \in Sessions :
         \/ \E o \in Outcomes : CloseOpen(s, o) \/ CloseReleased(s, o)
         \/ Release(s) \/ ProxyStopped(s) \/ StopObserver(s)
    \/ LedgerAttestation \/ StopWitness \/ StopSeal \/ AppendRecordIds

Spec == Init /\ [][Next]_vars

----------------------------------------------------------------------------
(* Properties.                                                             *)

(* Type invariant of the observer and page-record maps.                   *)
TypeOK ==
    /\ status \in [Sessions -> {"open", "outcome-pending", "sealed"}]
    /\ outcome \in [Sessions -> Outcomes]
    /\ stopping \in [Sessions -> {"none", "proxy", "ended"}]
    /\ obs \in [Observers -> {"idle", "attaching", "live", "closing", "closed"}]
    /\ sessionOf \in [Observers -> Sessions \cup {NULL}]
    /\ dirty \in [Observers -> BOOLEAN]
    /\ pageObservers \in [Sessions -> Observers \cup {NULL}]
    /\ visits \in [Sessions -> Nat]
    /\ tracked \in [Sessions -> SUBSET Nat]
    /\ ledger \subseteq Sessions \X Nat
    /\ attested \subseteq Sessions \X Nat
    /\ shutdown \in {"up", "stopping", "sealed", "down"}
    /\ awaited \in Observers \cup {NULL}

(* A page record that no later step can take back belongs to a session    *)
(* that ended passed: every other record in the ledger is still tracked,  *)
(* also one a flush emitted after its session was sealed.                 *)
KeptMeansPassed ==
    \A r \in ledger : r[2] \notin tracked[r[1]] => outcome[r[1]] = "passed"

(* A record, once kept by the seal of a passed session, stays; a record   *)
(* once dropped never comes back.                                         *)
KeptForGood ==
    [][\A s \in Sessions : \A n \in 1..visits[s] :
         /\ <<s, n>> \in ledger /\ n \notin tracked[s] => <<s, n>> \in ledger'
         /\ <<s, n>> \notin ledger => <<s, n>> \notin ledger']_vars

(* "Only a test session sealed as passing can retain its page             *)
(* observations": no attestation names a page record of a session that    *)
(* has ended with another outcome.                                        *)
AttestedMeansPassed ==
    [][\A r \in attested' \ attested :
         status[r[1]] = "sealed" => outcome[r[1]] = "passed"]_vars

=============================================================================

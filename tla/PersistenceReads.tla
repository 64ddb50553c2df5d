-------------------------- MODULE PersistenceReads --------------------------
(***************************************************************************)
(* What the engine reads of the application's state before and after a     *)
(* mutation (packages/witness/src/witness/server.ts), on both channels: a  *)
(* session's engine-driven actions, pre-observations and persistence reads *)
(* and, for obligations registered as server-e2e, the intents a suite      *)
(* writes to its spool and the drain (pack-playwright/src/supervisor) has  *)
(* the witness resolve.                                                    *)
(*                                                                         *)
(* Every handler awaits the adapter's context (loopback, fingerprint) and  *)
(* then its read; others run in between.  An observation is the number of  *)
(* mutations the application had seen when it answered the read; what it   *)
(* then held is data.  A claim is named by its entity.                     *)
(***************************************************************************)
EXTENDS Naturals, Sequences, FiniteSets

CONSTANTS
    Sessions,
    Keys,         \* the entities
    Patient,      \* server channel: whose test announces and awaits its mutation
    NULL,
    MaxRequests,  \* bound: requests of the browser channel
    MaxWrites     \* bound: mutations of the browser channel

ASSUME ReadsAssumption ==
    /\ Patient \subseteq Keys
    /\ NULL \notin Keys \cup Sessions
    /\ {MaxRequests, MaxWrites} \subseteq Nat

VARIABLES
    channel,    \* how the obligations are registered
    writes,     \* mutations of the application
    requests,   \* the handlers' continuations, in the order of arrival
    ledger,     \* persistence records
    open,       \* sessions with status open
    intervals,  \* UI-action intervals, with the ui.action record they got
    tokens,     \* state.preObservations
    pres,       \* state.serverPreObservations
    sequences,  \* state.serverIntentSequences
    tests,      \* server channel: the test of each claim
    file,       \* persistence-intents.jsonl
    offset,     \* the drain's intentsOffset
    queue,      \* intents chained behind the drain's settling promise
    call,       \* the request whose answer the drain awaits, or 0
    answered,   \* answeredIntents
    expired,    \* history: a call of the drain has timed out
    repeated    \* history: a line has been read twice

browserVars == <<open, intervals, tokens>>
serverVars == <<pres, sequences>>
drainVars == <<offset, queue, call, answered, expired, repeated>>
vars == <<channel, writes, requests, ledger, browserVars, serverVars, tests, file, drainVars>>

\* An observation that a record may cite as its before; NULL as its key is the
\* id set of the whole resource.
Observation(id, key, at) == [id |-> id, key |-> key, at |-> at]
Nothing == Observation(0, NULL, 0)

Request(kind, who, key) ==
    [kind |-> kind, who |-> who, key |-> key, step |-> "context",
     of |-> key, anchor |-> 0, token |-> 0, before |-> Nothing,
     sequence |-> 0, paired |-> FALSE, saw |-> 0]

Init ==
    /\ channel \in {"browser", "server"}
    /\ writes = 0 /\ requests = << >> /\ ledger = {}
    /\ open = Sessions /\ intervals = << >> /\ tokens = {}
    /\ pres = {} /\ sequences = [k \in Keys |-> 0]
    /\ tests = [k \in Keys |-> [stage |-> "begun", count |-> 0]]
    /\ file = << >> /\ offset = 0 /\ queue = << >> /\ call = 0 /\ answered = 0
    /\ expired = FALSE /\ repeated = FALSE

----------------------------------------------------------------------------
(* Requests of a test on the browser channel.                              *)

Arrives(r) ==
    /\ channel = "browser" /\ Len(requests) < MaxRequests
    /\ r.who \in open
    /\ requests' = Append(requests, r)
    /\ UNCHANGED <<channel, writes, ledger, open, tokens, serverVars, tests, file, drainVars>>

Ends == Cardinality({i \in DOMAIN intervals : intervals[i].end # 0})

\* openActionInterval ends the one the session still has open.
WithoutOpen(s) ==
    [i \in DOMAIN intervals |->
       IF intervals[i].who = s /\ intervals[i].end = 0
         THEN [intervals[i] EXCEPT !.end = Ends + 1] ELSE intervals[i]]

\* POST /browser/action: a create takes the id set or, with a natural key, the
\* entity first, an update the entity.
BrowserAction(s, k, of) ==
    /\ intervals' = Append(WithoutOpen(s), [who |-> s, key |-> k, end |-> 0, at |-> 0, acted |-> FALSE])
    /\ Arrives([Request("action", s, k) EXCEPT !.of = of, !.anchor = Len(intervals) + 1])

PreObservation(s, of) ==
    /\ Arrives(Request("pre", s, of))
    /\ UNCHANGED intervals

\* Mutant: an anchor is only looked up.
AnchorKnown(s, k, a) == intervals[a].who = s /\ intervals[a].key = k

\* The anchor is ended, has its ui.action record for this claim and entity, no
\* later action of the session on the entity, and no read of its own yet.
AnchorFits(s, k, a) ==
    LET v == intervals[a]
    IN /\ v.who = s /\ v.end # 0 /\ v.acted /\ v.key = k
       /\ ~\E i \in DOMAIN intervals :
             intervals[i].who = s /\ intervals[i].acted /\ intervals[i].key = k /\ intervals[i].end > v.end
       /\ ~\E r \in ledger : r.anchor = a

\* The requests that take a pre-observation.
Preceding == {i \in DOMAIN requests : requests[i].kind \in {"pre", "action"}}

\* POST /witness/persistence, up to its first await.
Persistence(s, k, t, a) ==
    /\ a # 0 => AnchorFits(s, k, a)
    /\ Arrives([Request("persistence", s, k) EXCEPT !.token = t, !.anchor = a])
    /\ UNCHANGED intervals

\* The supervisor seals the session; what is under way goes on.
Close(s) ==
    /\ channel = "browser" /\ s \in open
    /\ open' = open \ {s}
    /\ UNCHANGED <<channel, writes, requests, ledger, intervals, tokens, serverVars, tests, file, drainVars>>

----------------------------------------------------------------------------
(* The suite and the drain on the server channel.                          *)

Test(k, from, to) ==
    /\ channel = "server" /\ tests[k].stage = from
    /\ tests' = [tests EXCEPT ![k] = [stage |-> to, count |-> IF file' = file THEN @.count ELSE Len(file')]]
    /\ UNCHANGED <<channel, requests, ledger, browserVars, serverVars, drainVars>>

\* A create or update is written before and after its mutation, any other
\* operation after it only.
Line(k, n, paired) == [key |-> k, sequence |-> n, paired |-> paired]

WritePre(k) ==
    /\ file' = Append(file, Line(k, 1, TRUE)) /\ UNCHANGED writes
    /\ Test(k, "begun", "announced")

\* Mutant: any answer releases the waiters.
ReleasedByAny(n) == answered > 0

\* releaseReachedWaiters: the caller that awaits its n-th intent goes on.
Released(n) == answered >= n

\* The test mutates the application, at once or when its wait is over.
Mutate(k) ==
    /\ k \in Patient => tests[k].stage = "announced" /\ Released(tests[k].count)
    /\ writes' = writes + 1 /\ UNCHANGED file
    /\ \E stage \in {"begun", "announced"} : Test(k, stage, "mutated")

WritePost(k) ==
    /\ file' = Append(file, Line(k, 2, tests[k].count # 0)) /\ UNCHANGED writes
    /\ Test(k, "mutated", "posted")

\* readPersistenceIntents hands over every line but goes on from the size it
\* took before the read.
Poll(size) ==
    /\ size \in offset + 1..Len(file) /\ (repeated => size = Len(file))
    /\ queue' = queue \o SubSeq(file, offset + 1, Len(file))
    /\ offset' = size
    /\ repeated' = (repeated \/ size < Len(file))
    /\ UNCHANGED <<channel, writes, requests, ledger, browserVars, serverVars, tests, file,
                   call, answered, expired>>

\* handleIntent, and POST /witness/server-persistence up to its first await; a
\* sequence that does not exceed the last one is refused.
Forward ==
    /\ call = 0 /\ queue # << >>
    /\ queue' = Tail(queue)
    /\ LET line == Head(queue)
       IN IF line.sequence > sequences[line.key]
            THEN /\ sequences' = [sequences EXCEPT ![line.key] = line.sequence]
                 /\ requests' = Append(requests, [Request("intent", NULL, line.key) EXCEPT
                                                    !.sequence = line.sequence, !.paired = line.paired])
                 /\ call' = Len(requests') /\ UNCHANGED answered
            ELSE /\ answered' = answered + 1
                 /\ UNCHANGED <<sequences, requests, call>>
    /\ UNCHANGED <<channel, writes, ledger, browserVars, pres, tests, file, offset, expired, repeated>>

\* The call of the drain times out and counts as answered; the witness goes on.
Timeout ==
    /\ call # 0 /\ ~expired
    /\ call' = 0 /\ answered' = answered + 1 /\ expired' = TRUE
    /\ UNCHANGED <<channel, writes, requests, ledger, browserVars, serverVars, tests, file,
                   offset, queue, repeated>>

----------------------------------------------------------------------------
(* The continuations of the witness's handlers.                            *)

Moves(i, step) == requests' = [requests EXCEPT ![i].step = step]

\* Handler i has answered; the drain may be waiting for it.
Answers(i) ==
    /\ Moves(i, "done")
    /\ call' = IF call = i THEN 0 ELSE call
    /\ answered' = IF call = i THEN answered + 1 ELSE answered
    /\ UNCHANGED <<channel, tests, file, offset, queue, expired, repeated>>

Continues(i, step) == Moves(i, step) /\ UNCHANGED <<channel, serverVars, tests, file, drainVars>>

Taken(r) == {o \in tokens : o.id = r.token /\ o.key \in {NULL, r.key}}

\* Mutant: the pre-observation a persistence read refers to stays.
ConsumedLate(i) == tokens

\* The pre-observation a persistence read refers to is used up as it begins.
Consumed(i) == tokens \ Taken(requests[i])

\* adapterReadContext settles; the read begins.
Begin(i) ==
    LET r == requests[i]
    IN /\ r.step = "context"
       /\ r.token # 0 => Taken(r) # {}
       /\ tokens' = Consumed(i)
       /\ requests' = [requests EXCEPT ![i].step = "reading",
                         ![i].before = IF r.token = 0 THEN Nothing ELSE CHOOSE o \in Taken(r) : TRUE]
       /\ UNCHANGED <<channel, writes, ledger, open, intervals, serverVars, tests, file, drainVars>>

\* The application answers the read.
Observe(i) ==
    /\ requests[i].step = "reading"
    /\ requests' = [requests EXCEPT ![i].step = "read", ![i].saw = writes]
    /\ UNCHANGED <<channel, writes, ledger, browserVars, serverVars, tests, file, drainVars>>

Seen(i) == Observation(i, requests[i].of, requests[i].saw)
Issued(i, before) ==
    ledger \cup {[id |-> i, key |-> requests[i].key, anchor |-> requests[i].anchor,
                  intent |-> requests[i].sequence, before |-> before, at |-> requests[i].saw]}

Is(i, kind, step) == requests[i].kind = kind /\ requests[i].step = step

\* takePreObservation stores what it saw; an action goes on to its drive.
PreObserved(i) ==
    /\ requests[i].kind \in {"pre", "action"} /\ requests[i].step = "read"
    /\ tokens' = tokens \cup {Seen(i)}
    /\ Continues(i, IF requests[i].kind = "pre" THEN "done" ELSE "driving")
    /\ UNCHANGED <<writes, ledger, open, intervals>>

\* The engine's browser performs the action.
Drive(i) ==
    /\ Is(i, "action", "driving") /\ writes < MaxWrites
    /\ writes' = writes + 1
    /\ Continues(i, "driven")
    /\ UNCHANGED <<ledger, browserVars>>

\* The interval ends and the ui.action record is issued, unless another action
\* has ended the interval.
Driven(i) ==
    LET a == requests[i].anchor
    IN /\ Is(i, "action", "driven") /\ intervals[a].end = 0
       /\ intervals' = [intervals EXCEPT ![a].end = Ends + 1, ![a].at = writes, ![a].acted = TRUE]
       /\ Continues(i, "done")
       /\ UNCHANGED <<writes, ledger, open, tokens>>

PersistenceRead(i) ==
    /\ Is(i, "persistence", "read")
    /\ ledger' = Issued(i, requests[i].before)
    /\ Continues(i, "done")
    /\ UNCHANGED <<writes, browserVars>>

Stored(k) == {o \in pres : o.key = k}

\* The probe of a pre intent is stored, unless one is pending already.
IntentBefore(i) ==
    /\ Is(i, "intent", "read") /\ requests[i].sequence = 1
    /\ pres' = IF Stored(requests[i].key) = {} THEN pres \cup {Seen(i)} ELSE pres
    /\ Answers(i)
    /\ UNCHANGED <<writes, ledger, browserVars, sequences>>

\* The probe of a post intent consumes its before, or is refused without one.
IntentAfter(i) ==
    LET k == requests[i].key
    IN /\ Is(i, "intent", "read") /\ requests[i].sequence = 2
       /\ ledger' = IF ~requests[i].paired THEN Issued(i, Nothing)
                    ELSE ledger \cup UNION {Issued(i, o) : o \in Stored(k)}
       /\ pres' = pres \ Stored(k)
       /\ Answers(i)
       /\ UNCHANGED <<writes, browserVars, sequences>>

\* A handler fails in one of its awaits, or refuses.  An action that fails in
\* its drive ends its interval; before it, the interval stays open.
Fail(i) ==
    /\ requests[i].step # "done"
    /\ intervals' = [j \in DOMAIN intervals |->
                       IF j = requests[i].anchor /\ requests[i].step \in {"driving", "driven"}
                          /\ intervals[j].end = 0
                         THEN [intervals[j] EXCEPT !.end = Ends + 1] ELSE intervals[j]]
    /\ Answers(i)
    /\ UNCHANGED <<writes, ledger, open, tokens, serverVars>>

----------------------------------------------------------------------------
Next ==
    \/ \E s \in Sessions, k \in Keys :
          \/ \E of \in {k, NULL} : BrowserAction(s, k, of)
          \/ \E t \in {0} \cup Preceding, a \in 0..Len(intervals) : Persistence(s, k, t, a)
    \/ \E s \in Sessions : Close(s) \/ \E of \in Keys \cup {NULL} : PreObservation(s, of)
    \/ \E k \in Keys : WritePre(k) \/ Mutate(k) \/ WritePost(k)
    \/ \E n \in 1..Len(file) : Poll(n)
    \/ Forward \/ Timeout
    \/ \E i \in DOMAIN requests :
          \/ Begin(i) \/ Observe(i) \/ PreObserved(i) \/ Drive(i) \/ Driven(i)
          \/ PersistenceRead(i) \/ IntentBefore(i) \/ IntentAfter(i) \/ Fail(i)

Spec == Init /\ [][Next]_vars

----------------------------------------------------------------------------
(* Properties.                                                             *)

\* A record's before was read no later than its after and of the same entity,
\* and the read for an action follows that action: no record grades a mutation
\* by a state from the wrong side of it.  A timed-out call of the drain leaves
\* its probe behind, which may then be overtaken.
ReadsSurroundTheMutation ==
    ~expired =>
      \A r \in ledger :
        /\ r.before # Nothing => r.before.at <= r.at /\ r.before.key \in {NULL, r.key}
        /\ r.anchor # 0 =>
             /\ intervals[r.anchor].key = r.key /\ intervals[r.anchor].end # 0
             /\ intervals[r.anchor].at <= r.at

\* A pre-observation stands in one record, and an intent is resolved once,
\* however requests overlap, lines repeat and calls time out.
UsedOnce ==
    \A r, q \in ledger :
      r # q => /\ r.before # Nothing => r.before # q.before
               /\ r.intent # 0 => <<r.key, r.intent>> # <<q.key, q.intent>>

\* A test that awaits its own intent mutates the application only after the
\* witness has resolved that intent.
MutatesAfterProbe ==
    (~expired /\ ~repeated) =>
      \A k \in Patient :
        tests[k].stage \in {"mutated", "posted"} =>
          \E i \in DOMAIN requests :
             requests[i].key = k /\ requests[i].sequence = 1 /\ requests[i].step = "done"

\* Not so in the code: the check for an earlier read of an anchor comes before
\* the awaits, the record after them.
AnchorReadOnce ==
    \A r, q \in ledger : (r # q /\ r.anchor # 0) => r.anchor # q.anchor
=============================================================================

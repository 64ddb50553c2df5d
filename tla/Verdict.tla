------------------------------ MODULE Verdict ------------------------------
(***************************************************************************)
(* The evaluator (packages/core/src/verdict/evaluate.ts) and the inputs it *)
(* is called with: the ledger of a run, which grows record by record in    *)
(* the order of issue, the claims of its tests, the waivers, their owners  *)
(* and the clock.  The verdict of an obligation is a function of them, and *)
(* every state of the inputs is graded.                                    *)
(*                                                                         *)
(* A field value stands for its normal form, so that values echo exactly   *)
(* when they are equal; an object without fields is no object.  The label  *)
(* of a record (its recordId) is a number that says nothing of its place   *)
(* in the ledger, which is its field at; a set of records stands for the   *)
(* list of them in the order of the ledger.  Sessions are numbers too, and *)
(* 0 is none.  Reasons are left out.                                       *)
(***************************************************************************)
EXTENDS Naturals, Sequences, SequencesExt

CONSTANTS
    Obligations,  \* [contract, op, archive, endpoint, inventory, classification]
    Issuable,     \* Issuable[o]: the records that may come to name o, by label
    Tests,        \* the tests, numbered in the order of their ids
    Owners,       \* the owners of waivers
    Instants,     \* the instants at which a waiver may expire
    Updateable,   \* the updateableFields of the classification
    Archived,     \* its archiveFields
    MaxTime,      \* bound: the clock
    MaxChanges    \* bound: changes of the inputs

ASSUME VerdictAssumption ==
    /\ Tests \subseteq Nat /\ Instants \subseteq Nat /\ {MaxTime, MaxChanges} \subseteq Nat
    /\ \A o \in Obligations :
          /\ DOMAIN Issuable[o] \subseteq Nat
          /\ \A i \in DOMAIN Issuable[o] :
                LET r == Issuable[o][i]
                IN /\ {"id", "at", "test", "session", "sequence"} \subseteq DOMAIN r
                   /\ r.id = i /\ r.test \in Tests /\ {r.session, r.sequence} \subseteq Nat

VARIABLES
    obligation,
    ledger,    \* the labels of the records that name it, in the order of issue
    claims,    \* the tests that declare it
    waivers,   \* its waivers, [owner, expires]
    stale,     \* the owners that fail the owner check
    now,
    changes,
    verdict    \* the verdict on the inputs as they are

vars == <<obligation, ledger, claims, waivers, stale, now, changes, verdict>>

----------------------------------------------------------------------------
(* Records.                                                                *)

\* trustOf and isProvenancedRecord: a claimed record may still be one that the
\* witness issued; a forged one does not recompute.
Witnessed(r) == r.tier = "witnessed"
Provenanced(r) == r.tier # "forged"

OfKind(ev, kind) == {r \in ev : r.kind = kind}
IsPersistence(r) == r.kind \in {"persistence.entity", "persistence.observed"}

\* normalizeEntityId: an identity that is missing or has the wrong keys names
\* nothing.
Identified(r) == r.entity # "broken"

Ids(S) == {r.id : r \in S}
First(S) == CHOOSE r \in S : \A q \in S : r.at <= q.at
Smallest(S) == CHOOSE r \in S : \A q \in S : r.id <= q.id

\* Checks are made in order, and the first that fails gives the status.
Require(condition, status) == IF condition THEN "satisfied" ELSE status
FirstFailure(checks) ==
    LET failed == {i \in DOMAIN checks : checks[i] # "satisfied"}
    IN IF failed = {} THEN "satisfied" ELSE checks[Min(failed)]

Outcome(status, ids) == [status |-> status, ids |-> ids]

\* satisfied beats invalid beats missing, in the order of the outcomes.
Aggregate(outcomes) ==
    LET With(status) == {i \in DOMAIN outcomes : outcomes[i].status = status}
    IN IF With("satisfied") # {} THEN outcomes[Min(With("satisfied"))]
       ELSE Outcome(IF With("invalid") # {} THEN "invalid" ELSE "missing", {})

----------------------------------------------------------------------------
(* What an observation must show.                                          *)

\* persistencePostconditionFailure finds nothing.  A key that only one of the
\* two reads has is no delta.
Meets(o, r) ==
    CASE o.op = "create" -> r.before.state = "absent" /\ r.found
      [] o.op = "update" ->
            /\ r.before.state = "present" /\ r.found
            /\ \E k \in Updateable \cap DOMAIN r.before.fields \cap DOMAIN r.fields :
                  r.before.fields[k] # r.fields[k]
      [] o.op = "read" -> r.found
      [] o.op = "delete" ->
            IF o.archive
              THEN /\ r.found /\ DOMAIN Archived # {}
                   /\ \A k \in DOMAIN Archived : k \in DOMAIN r.fields /\ r.fields[k] = Archived[k]
              ELSE ~r.found

\* What was entered comes back, except for keys the adapter calls volatile.
EchoesFields(entered, r) ==
    /\ DOMAIN entered # {} /\ DOMAIN r.fields # {}
    /\ \A k \in DOMAIN entered \ r.volatile : k \in DOMAIN r.fields /\ r.fields[k] = entered[k]

Echoed(o) == o.op \in {"create", "update"}

\* exactValueEchoFailure and observedEchoFailure find nothing.
Echoes(o, action, r) == Echoed(o) => EchoesFields(action.fields, r)
ObservedEchoes(o, r) == Echoed(o) => EchoesFields(r.observed, r)

\* fieldsDisagreement finds nothing.
Agree(visible, r) ==
    \A k \in DOMAIN visible.fields \cap DOMAIN r.fields : visible.fields[k] = r.fields[k]

----------------------------------------------------------------------------
(* crud:<op>, on the channel of one supervised session.                    *)

\* resolveHttpRoute gives one route, and that of the obligation if it is an
\* endpoint.
Attributed(o, r) == r.route = "match" \/ (r.route = "mismatch" /\ ~o.endpoint)

\* Mutant: a read of any session serves.
CrudReadsOfAnySession(ev, s, entity) ==
    {r \in ev : IsPersistence(r) /\ Witnessed(r) /\ r.entity = entity}

\* The engine-observed reads of a session and an entity.
CrudReads(ev, s, entity) ==
    {r \in ev : IsPersistence(r) /\ Witnessed(r) /\ r.session = s /\ r.entity = entity}

\* Mutant: the visible result is not cited.
SessionRecordsUnseen(anchor, exchange, visible, read) == Ids({anchor, exchange, read})

\* The records a satisfied session cites.
SessionRecords(anchor, exchange, visible, read) == Ids({anchor, exchange, visible, read})

\* The exchanges of the obligation, what confirms an action on the page, and
\* the reads that show its effect.
AttributedExchanges(o, ev) == {r \in OfKind(ev, "http.request") : Attributed(o, r)}
Confirming(a, ev) ==
    {r \in OfKind(ev, "ui.visible-result") : r.session = a.session /\ r.entity = a.entity}
Proving(o, a, ev) == {r \in CrudReads(ev, a.session, a.entity) : Meets(o, r)}

GradeCrudSession(o, anchor, ev) ==
    LET s == anchor.session
        exchanges == OfKind(ev, "http.request")
        attributed == AttributedExchanges(o, ev)
        visible == OfKind(ev, "ui.visible-result")
        confirming == Confirming(anchor, ev)
        proving == Proving(o, anchor, ev)
        claimed == \E r \in ev : IsPersistence(r) /\ ~Witnessed(r)
        status == FirstFailure(<<
            Require(exchanges # {}, "missing"),
            Require(\A r \in exchanges : Witnessed(r) /\ r.session = s, "invalid"),
            Require(o.inventory, "missing"),
            Require(\A r \in exchanges : r.route # "malformed", "invalid"),
            Require(attributed # {}, "invalid"),
            Require(\A r \in visible : Witnessed(r), "invalid"),
            Require(\E r \in visible : r.session = s, "missing"),
            Require(confirming # {}, "invalid"),
            Require(CrudReads(ev, s, anchor.entity) # {}, IF claimed THEN "invalid" ELSE "missing"),
            Require(proving # {}, "invalid"),
            Require(proving = {} \/ Echoes(o, anchor, First(proving)), "invalid"),
            Require(confirming = {} \/ proving = {} \/ Agree(First(confirming), First(proving)),
                    "invalid") >>)
    IN Outcome(status,
         IF status # "satisfied" THEN {}
         ELSE SessionRecords(anchor, Smallest(attributed), First(confirming), First(proving)))

\* The rendered actions of the operation in a session.
Anchors(o, ev) == {r \in OfKind(ev, "ui.action") : r.session # 0 /\ r.op = o.op}

CrudClaimVerifier(o, ev) ==
    LET actions == OfKind(ev, "ui.action")
        anchors == Anchors(o, ev)
        AnchorOf(s) == Smallest({r \in anchors : r.session = s})
        unanchored == IF actions # {} /\ \A r \in actions : r.session # 0
                        THEN "invalid" ELSE "missing"
        status == FirstFailure(<<
            Require(ev # {}, "missing"),
            Require(\A r \in actions : Witnessed(r), "invalid"),
            Require(\A r \in anchors : Identified(r), "invalid"),
            Require(anchors # {}, unanchored) >>)
    IN IF status # "satisfied" THEN Outcome(status, {})
       ELSE Aggregate([s \in {r.session : r \in anchors} |-> GradeCrudSession(o, AnchorOf(s), ev)])

----------------------------------------------------------------------------
(* persistence:<op>, on three channels.                                    *)

\* The reads of the browser channel.
BrowserReads(ev) == {r \in ev : IsPersistence(r) /\ r.channel # "server"}

\* The actions of the operation that the witness issued.
Matching(o, ev) == {r \in OfKind(ev, "ui.action") : Provenanced(r) /\ r.op = o.op}

\* What was read and what was seen at an anchor.
Snapshots(a, ev) ==
    {r \in BrowserReads(ev) : Witnessed(r) /\ r.entity = a.entity /\ r.anchor = a.anchor}
SeenAt(a, ev) ==
    {r \in OfKind(ev, "ui.visible-result") : r.entity = a.entity /\ r.anchor = a.anchor}

\* What each of several anchors on one entity needs, in the code's order.
AnchorStatus(o, a, ev) ==
    LET snapshots == Snapshots(a, ev)
        visible == SeenAt(a, ev)
    IN FirstFailure(<<
         Require(snapshots # {}, "missing"),
         Require(snapshots = {} \/ Meets(o, First(snapshots)), "invalid"),
         Require(snapshots = {} \/ Echoes(o, a, First(snapshots)), "invalid"),
         Require(snapshots = {} \/ visible = {} \/ Agree(First(visible), First(snapshots)),
                 "invalid") >>)

\* The actions on the entity of an action, and the reads of it.
SameEntity(o, action, ev) ==
    {r \in Matching(o, ev) : Identified(r) /\ r.entity = action.entity}
AnchoredReads(action, ev) ==
    {r \in BrowserReads(ev) : /\ Witnessed(r) /\ r.entity = action.entity
                              /\ action.anchor \in {"none", r.anchor}}

\* What was seen of it; a result without an anchor serves a single action.
SeenOf(action, several, ev) ==
    {r \in OfKind(ev, "ui.visible-result") :
        /\ r.entity = action.entity
        /\ action.anchor \in {"none", r.anchor} \/ (~several /\ r.anchor = "none")}

BrowserAnchoredPersistenceClaim(o, ev) ==
    LET action == First(Matching(o, ev))
        same == SameEntity(o, action, ev)
        several == \E a, b \in same : a # b
        distinct == /\ \A a \in same : a.anchor # "none"
                    /\ \A a, b \in same : a # b => a.anchor # b.anchor
        failing == {a \in same : AnchorStatus(o, a, ev) # "satisfied"}
        reads == AnchoredReads(action, ev)
        foreign == \E r \in BrowserReads(ev) : ~Witnessed(r) \/ r.entity # action.entity
        proving == {r \in reads : Meets(o, r)}
        visible == SeenOf(action, several, ev)
        status == FirstFailure(<<
            Require(Identified(action), "invalid"),
            Require(several => distinct, "invalid"),
            IF several /\ distinct /\ failing # {}
              THEN AnchorStatus(o, First(failing), ev) ELSE "satisfied",
            Require(reads # {}, IF foreign THEN "invalid" ELSE "missing"),
            Require(proving # {}, "invalid"),
            Require(proving = {} \/ Echoes(o, action, First(proving)), "invalid"),
            Require(proving = {} \/ visible = {} \/ Agree(First(visible), First(proving)),
                    "invalid") >>)
        cited == (IF several THEN same \cup {First(Snapshots(a, ev)) : a \in same}
                  ELSE {action, First(proving)})
                 \cup (IF visible = {} THEN {} ELSE {First(visible)})
    IN IF Matching(o, ev) = {}
         THEN Outcome(IF OfKind(ev, "ui.action") = {} THEN "missing" ELSE "invalid", {})
       ELSE Outcome(status, IF status # "satisfied" THEN {} ELSE Ids(cited))

\* The witness stamps the server channel on one kind, and only for obligations
\* that are declared server-e2e.
ServerReads(ev) ==
    {r \in ev : /\ Witnessed(r) /\ r.kind = "persistence.entity"
                /\ r.channel = "server" /\ r.declared}
ObserveReads(ev) ==
    {r \in ev : Witnessed(r) /\ r.kind = "persistence.observed" /\ r.channel = "observe"}

PersistenceClaimVerifier(o, ev) ==
    LET browser == BrowserAnchoredPersistenceClaim(o, ev)
        server == {r \in ServerReads(ev) : Identified(r) /\ Meets(o, r)}
        observe == {r \in ObserveReads(ev) : Identified(r) /\ Meets(o, r) /\ ObservedEchoes(o, r)}
    IN IF ev = {} THEN Outcome("missing", {})
       ELSE IF browser.status = "satisfied" THEN browser
       ELSE IF server # {} THEN Outcome("satisfied", {Smallest(server).id})
       ELSE IF observe # {} THEN Outcome("satisfied", {Smallest(observe).id})
       ELSE IF ServerReads(ev) \cup ObserveReads(ev) # {} THEN Outcome("invalid", {})
       ELSE browser

----------------------------------------------------------------------------
(* page:<promise> and alembic:<contract>, which need no claim.             *)

\* An observation counts with a sequence, and only the last one of a test.
Observations(ev) ==
    {r \in ev : r.kind = "page.observed" /\ Witnessed(r) /\ r.here /\ r.sequence > 0}

Payload(r) == <<r.sequence, r.settled, r.clean, r.rest>>

\* Mutant: the last record of a test replaces the ones before it.
TrackByOrder(latest, r) == [latest EXCEPT ![r.test] = <<r, FALSE>>]

\* One record of the loop of gradePageObligation over the ledger.
Track(latest, r) ==
    LET held == latest[r.test]
    IN CASE held = << >> \/ (held # << >> /\ held[1].sequence < r.sequence) ->
              [latest EXCEPT ![r.test] = <<r, FALSE>>]
         [] held # << >> /\ held[1].sequence = r.sequence /\ Payload(held[1]) # Payload(r) ->
              [latest EXCEPT ![r.test] = <<held[1], TRUE>>]
         [] OTHER -> latest

\* The loop over the observations, by their places in the ledger.
Visited(visits, latest, n) ==
    IF \E r \in visits : r.at = n THEN Track(latest, CHOOSE r \in visits : r.at = n) ELSE latest

LatestByTest(visits) ==
    LET last == Max({0} \cup {r.at : r \in visits})
        latest[n \in 0 .. last] ==
            IF n = 0 THEN [t \in Tests |-> << >>] ELSE Visited(visits, latest[n - 1], n)
    IN latest[last]

GradePageObligation(ev) ==
    LET latest == LatestByTest(Observations(ev))
        seen == {t \in Tests : latest[t] # << >>}
        clean == {t \in seen : ~latest[t][2] /\ latest[t][1].settled /\ latest[t][1].clean}
    IN IF clean # {} THEN Outcome("satisfied", {latest[Min(clean)][1].id})
       ELSE IF seen # {} THEN Outcome("invalid", {latest[Min(seen)][1].id})
       ELSE Outcome("missing", {})

\* Records of the engine's own execution; those of the suite are not looked at.
GradeAlembicObligation(ev) ==
    LET own == {r \in OfKind(ev, "alembic.witness") : Witnessed(r)}
        passing == {r \in own : r.clean}
    IN IF passing # {} THEN Outcome("satisfied", {First(passing).id})
       ELSE Outcome("missing", IF own = {} THEN {} ELSE {First(own).id})

----------------------------------------------------------------------------
(* evaluateObligation.                                                     *)

Live(w, gone, t) == t < w.expires /\ w.owner \notin gone

\* Mutant: a waiver whose owner is gone says nothing.
WaiverOutcomeOfOwned(ws, gone, t) ==
    IF \E w \in ws : Live(w, gone, t) THEN "waived"
    ELSE IF \E w \in ws : t >= w.expires /\ w.owner \notin gone THEN "invalid" ELSE "silent"

\* waiverOutcome.
WaiverOutcome(ws, gone, t) ==
    IF \E w \in ws : Live(w, gone, t) THEN "waived"
    ELSE IF \E w \in ws : t >= w.expires /\ w.owner \notin gone THEN "invalid"
    ELSE IF ws # {} THEN "stale" ELSE "silent"

\* Every claim, with the records of its test; they are taken in the order of
\* the tests.
ClaimOutcomes(o, ev, declared) ==
    LET Mine(t) == {r \in ev : r.test = t}
    IN [t \in declared |-> CASE o.contract = "crud" -> CrudClaimVerifier(o, Mine(t))
                              [] o.contract = "persistence" -> PersistenceClaimVerifier(o, Mine(t))
                              [] OTHER -> Outcome("missing", {})]

\* The evaluation of obligation o against all inputs.
EvaluateObligation(o, ev, declared, ws, gone, t) ==
    LET waiver == WaiverOutcome(ws, gone, t)
        graded == Aggregate(ClaimOutcomes(o, ev, declared))
    IN CASE o.contract = "alembic" -> GradeAlembicObligation(ev)
         [] o.contract = "page" ->
              IF waiver # "silent" THEN Outcome(waiver, {}) ELSE GradePageObligation(ev)
         [] OTHER ->
              IF o.classification = "none" THEN Outcome("unclassified", {})
              ELSE IF o.classification = "internal" THEN Outcome("invalid", {})
              ELSE IF waiver # "silent" THEN Outcome(waiver, {})
              ELSE IF declared = {} THEN Outcome("missing", {})
              ELSE IF graded.status = "satisfied" THEN graded
              ELSE Outcome(graded.status, Ids(ev))

\* The records of the ledger, each at its place.
Records(labels) == {[Issuable[obligation][labels[i]] EXCEPT !.at = i] : i \in DOMAIN labels}
Evidence == Records(ledger)

\* The evaluation of the obligation.
Evaluate(ev, declared, ws, gone, t) == EvaluateObligation(obligation, ev, declared, ws, gone, t)

Clean(outcome) == outcome.status \in {"satisfied", "waived"}

Init ==
    /\ obligation \in Obligations
    /\ ledger = << >> /\ claims = {} /\ waivers = {} /\ stale = {}
    /\ now = 0 /\ changes = 0
    /\ verdict = Evaluate(Evidence, claims, waivers, stale, now)

----------------------------------------------------------------------------
(* The inputs change.                                                      *)

Change == changes < MaxChanges /\ changes' = changes + 1

\* The witness issues a record, or the suite writes one.
Issue(r) ==
    /\ Change /\ r \notin ToSet(ledger)
    /\ ledger' = Append(ledger, r)
    /\ UNCHANGED <<obligation, claims, waivers, stale, now>>
    /\ verdict' = Evaluate(Records(ledger'), claims, waivers, stale, now)

Declare(t) ==
    /\ Change /\ t \notin claims
    /\ claims' = claims \cup {t}
    /\ UNCHANGED <<obligation, ledger, waivers, stale, now>>
    /\ verdict' = Evaluate(Evidence, claims', waivers, stale, now)

Waive(w) ==
    /\ Change /\ w \notin waivers
    /\ waivers' = waivers \cup {w}
    /\ UNCHANGED <<obligation, ledger, claims, stale, now>>
    /\ verdict' = Evaluate(Evidence, claims, waivers', stale, now)

Revoke(w) ==
    /\ Change /\ w \in waivers
    /\ waivers' = waivers \ {w}
    /\ UNCHANGED <<obligation, ledger, claims, stale, now>>
    /\ verdict' = Evaluate(Evidence, claims, waivers', stale, now)

OwnerLeaves(p) ==
    /\ Change /\ p \notin stale
    /\ stale' = stale \cup {p}
    /\ UNCHANGED <<obligation, ledger, claims, waivers, now>>
    /\ verdict' = Evaluate(Evidence, claims, waivers, stale', now)

Tick ==
    /\ Change /\ now < MaxTime
    /\ now' = now + 1
    /\ UNCHANGED <<obligation, ledger, claims, waivers, stale>>
    /\ verdict' = Evaluate(Evidence, claims, waivers, stale, now')

Next ==
    \/ \E r \in DOMAIN Issuable[obligation] : Issue(r)
    \/ \E t \in Tests : Declare(t)
    \/ \E w \in [owner : Owners, expires : Instants] : Waive(w) \/ Revoke(w)
    \/ \E p \in Owners : OwnerLeaves(p)
    \/ Tick

Spec == Init /\ [][Next]_vars

----------------------------------------------------------------------------
(* Properties.                                                             *)

\* The records a satisfied verdict cites are a proof of their own: without the
\* rest of the ledger the obligation is satisfied still.
CitedRecordsProve ==
    verdict.status = "satisfied" =>
      Evaluate({r \in Evidence : r.id \in verdict.ids}, claims, waivers, stale, now).status = "satisfied"

\* A satisfied crud obligation stands on one session of one test: the rendered
\* action, the exchange, the visible result and the read of the same entity,
\* all of them witnessed, and no record of another test or session among them.
OneSessionProves ==
    (obligation.contract = "crud" /\ verdict.status = "satisfied") =>
      LET cited == {r \in Evidence : r.id \in verdict.ids}
      IN /\ \E t \in claims : \E a \in cited :
               \A r \in cited : r.test = t /\ r.session = a.session /\ a.kind = "ui.action"
         /\ {r.kind : r \in cited} \in
              {{"ui.action", "http.request", "ui.visible-result", k} :
                  k \in {"persistence.entity", "persistence.observed"}}
         /\ \A r \in cited : Witnessed(r)
         /\ \A q, r \in cited : (q.kind # "http.request" /\ r.kind # "http.request")
                                  => q.entity = r.entity

\* The page lane depends on the records and not on their order: a test proves
\* the page if its last visits agree that it was clean.
PageIsByLatestVisit ==
    (obligation.contract = "page" /\ waivers = {}) =>
      LET seen == Observations(Evidence)
          Newest(t) == {r \in seen : r.test = t /\ \A q \in seen : q.test = t => q.sequence <= r.sequence}
          Proves(S) == /\ S # {}
                       /\ \A q, r \in S : Payload(q) = Payload(r)
                       /\ \A r \in S : r.settled /\ r.clean
      IN verdict.status = IF \E t \in Tests : Proves(Newest(t)) THEN "satisfied"
                          ELSE IF seen # {} THEN "invalid" ELSE "missing"

\* Nothing that is not the witness's own turns a blocking verdict into a clean
\* one, except where the suite's action only anchors what the witness saw; nor
\* does the passing of time or the loss of an owner.
NothingElseUnblocks ==
    [][ (Clean(verdict') /\ ~Clean(verdict)) =>
          /\ now' = now /\ stale' = stale
          /\ \A r \in Evidence' \ Evidence :
                Witnessed(r) \/ (obligation.contract = "persistence" /\ r.kind = "ui.action") ]_vars

\* Not so in the code: observe-channel records are no browser evidence, they
\* neither satisfy nor invalidate a claim on the browser channel.
ObserveStaysOut ==
    obligation.contract = "persistence" =>
      \A t \in claims :
        LET ev == {r \in Evidence : r.test = t}
            rest == {r \in ev : r.channel # "observe"}
        IN BrowserAnchoredPersistenceClaim(obligation, ev).status
             = BrowserAnchoredPersistenceClaim(obligation, rest).status
=============================================================================

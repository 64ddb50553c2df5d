---------------------------- MODULE VerdictProofs ----------------------------
(***************************************************************************)
(* What holds of Verdict for every set of obligations, records, tests and  *)
(* waivers.  The lanes are graded by checks made in order and by choices   *)
(* of the first or the smallest record; each grade is first shown to be a  *)
(* formula over the records (SessionGood, BrowserGood, PageProof), and     *)
(* what is cited is shown to satisfy that formula by itself.               *)
(***************************************************************************)
EXTENDS Verdict, SequenceTheorems, WellFoundedInduction, TLAPS

----------------------------------------------------------------------------
(* The first of some records, and the first failing check.                 *)

\* Every set of numbers that is not empty has a least member.
LEMMA LeastNumber ==
  ASSUME NEW S, S \subseteq Nat, S # {}
  PROVE  Min(S) \in S /\ \A m \in S : Min(S) <= m
  <1> DEFINE Less == OpToRel(<, Nat)
  <1>1. IsWellFoundedOn(Less, Nat)
    BY NatLessThanWellFounded, Zenon
  <1> HIDE DEF Less
  <1>2. PICK n \in S : \A m \in S : ~(<<m, n>> \in Less)
    BY <1>1, WFMin
  <1>3. \A m \in S : ~(m < n)
    BY <1>2 DEF Less, OpToRel
  <1>4. \A m \in S : n <= m
    BY <1>3
  <1> QED BY <1>4 DEF Min

\* The records of a set are told apart by their labels and by their places,
\* and none lies behind the end of the ledger.
IsEvidence(ev) ==
    /\ \A r \in ev : /\ {r.id, r.session, r.sequence} \subseteq Nat
                     /\ r.at \in Nat \ {0} /\ r.test \in Tests
    /\ \A q, r \in ev : (q.id = r.id \/ q.at = r.at) => q = r
    /\ \E n \in Nat : \A r \in ev : r.at <= n

\* Part of some evidence is evidence.
LEMMA PartOfEvidence ==
  ASSUME NEW ev, IsEvidence(ev), NEW S, S \subseteq ev
  PROVE  IsEvidence(S)
  BY DEF IsEvidence

\* The first record of some evidence exists.
LEMMA FirstExists ==
  ASSUME NEW S, IsEvidence(S), S # {}
  PROVE  First(S) \in S /\ \A q \in S : First(S).at <= q.at
  <1> DEFINE P == {r.at : r \in S}
  <1>1. P \subseteq Nat /\ P # {}
    BY DEF IsEvidence
  <1>2. Min(P) \in P /\ \A m \in P : Min(P) <= m
    BY <1>1, LeastNumber
  <1>3. \E r \in S : \A q \in S : r.at <= q.at
    BY <1>2
  <1> QED BY <1>3 DEF First

\* So does the one with the smallest label.
LEMMA SmallestExists ==
  ASSUME NEW S, IsEvidence(S), S # {}
  PROVE  Smallest(S) \in S
  <1> DEFINE P == {r.id : r \in S}
  <1>1. P \subseteq Nat /\ P # {}
    BY DEF IsEvidence
  <1>2. Min(P) \in P /\ \A m \in P : Min(P) <= m
    BY <1>1, LeastNumber
  <1>3. \E r \in S : \A q \in S : r.id <= q.id
    BY <1>2
  <1> QED BY <1>3 DEF Smallest

\* Of fewer records that still hold the first, the first is the same.
LEMMA FirstOfFewer ==
  ASSUME NEW S, IsEvidence(S), NEW T, T \subseteq S, First(S) \in T
  PROVE  First(T) = First(S)
  <1>1. First(S) \in S /\ \A q \in S : First(S).at <= q.at
    BY FirstExists
  <1>2. First(T) \in T /\ \A q \in T : First(T).at <= q.at
    BY FirstExists, PartOfEvidence
  <1>3. First(S).at = First(T).at
    BY <1>1, <1>2 DEF IsEvidence
  <1> QED BY <1>1, <1>2, <1>3 DEF IsEvidence

\* A later record does not become the first.
LEMMA FirstOfMore ==
  ASSUME NEW S, IsEvidence(S), S # {}, NEW r, IsEvidence(S \cup {r}),
         \A q \in S : q.at < r.at
  PROVE  First(S \cup {r}) = First(S)
  <1>1. First(S) \in S /\ \A q \in S : First(S).at <= q.at
    BY FirstExists
  <1>2. First(S \cup {r}) \in S \cup {r} /\ \A q \in S \cup {r} : First(S \cup {r}).at <= q.at
    BY FirstExists
  <1>3. First(S \cup {r}) # r
    BY <1>1, <1>2 DEF IsEvidence
  <1> HIDE DEF First
  <1>4. First(S \cup {r}).at = First(S).at
    BY <1>1, <1>2, <1>3 DEF IsEvidence
  <1> QED BY <1>1, <1>2, <1>3, <1>4 DEF IsEvidence

\* A single record is the first and the smallest.
LEMMA Single ==
  ASSUME NEW r, IsEvidence({r})
  PROVE  First({r}) = r /\ Smallest({r}) = r
  BY FirstExists, SmallestExists

\* The labels of records give the records back.
LEMMA Citing ==
  ASSUME NEW ev, IsEvidence(ev), NEW S, S \subseteq ev
  PROVE  {r \in ev : r.id \in Ids(S)} = S
  BY DEF IsEvidence, Ids

\* All checks are met, or one that failed gives the status.
LEMMA AllChecksMet ==
  ASSUME NEW checks, DOMAIN checks \subseteq Nat
  PROVE  FirstFailure(checks) = "satisfied" <=> \A i \in DOMAIN checks : checks[i] = "satisfied"
  <1> DEFINE failed == {i \in DOMAIN checks : checks[i] # "satisfied"}
  <1>1. failed # {} => Min(failed) \in failed
    BY LeastNumber
  <1> QED BY <1>1 DEF FirstFailure

\* The aggregate is satisfied if an outcome is, and is then such an outcome.
LEMMA SatisfiedAggregate ==
  ASSUME NEW outcomes, DOMAIN outcomes \subseteq Nat
  PROVE  /\ (\E i \in DOMAIN outcomes : outcomes[i].status = "satisfied")
              => Aggregate(outcomes).status = "satisfied"
         /\ Aggregate(outcomes).status = "satisfied" =>
              \E i \in DOMAIN outcomes :
                 outcomes[i].status = "satisfied" /\ Aggregate(outcomes) = outcomes[i]
         /\ Aggregate(outcomes).status \in {"satisfied", "invalid", "missing"}
  <1> DEFINE good == {i \in DOMAIN outcomes : outcomes[i].status = "satisfied"}
  <1>1. CASE good = {}
    <2>1. Aggregate(outcomes).status \in {"invalid", "missing"}
      BY <1>1 DEF Aggregate, Outcome
    <2> QED BY <1>1, <2>1
  <1>2. CASE good # {}
    <2>1. Min(good) \in good
      BY <1>2, LeastNumber
    <2>2. Aggregate(outcomes) = outcomes[Min(good)]
      BY <1>2 DEF Aggregate
    <2> QED BY <2>1, <2>2
  <1> QED BY <1>1, <1>2

----------------------------------------------------------------------------
(* The crud lane.                                                          *)

\* Everything that a session of a crud claim needs.
SessionGood(o, a, ev) ==
    LET exchanges == OfKind(ev, "http.request")
        visible == OfKind(ev, "ui.visible-result")
        confirming == Confirming(a, ev)
        proving == Proving(o, a, ev)
    IN /\ \A r \in exchanges : Witnessed(r) /\ r.session = a.session /\ r.route # "malformed"
       /\ o.inventory
       /\ AttributedExchanges(o, ev) # {}
       /\ \A r \in visible : Witnessed(r)
       /\ confirming # {} /\ proving # {}
       /\ Echoes(o, a, First(proving))
       /\ Agree(First(confirming), First(proving))

\* The records that make a good session a proof.
SessionProof(o, a, ev) ==
    {a, Smallest(AttributedExchanges(o, ev)), First(Confirming(a, ev)), First(Proving(o, a, ev))}

\* The checks of gradeCrudSession, made in order, come to that; and a satisfied
\* session cites those records.
LEMMA SessionGrade ==
  ASSUME NEW o, NEW a, NEW ev
  PROVE  /\ GradeCrudSession(o, a, ev).status = "satisfied" <=> SessionGood(o, a, ev)
         /\ SessionGood(o, a, ev) =>
              GradeCrudSession(o, a, ev) = Outcome("satisfied", Ids(SessionProof(o, a, ev)))
  <1> DEFINE s == a.session
             exchanges == OfKind(ev, "http.request")
             attributed == AttributedExchanges(o, ev)
             visible == OfKind(ev, "ui.visible-result")
             confirming == Confirming(a, ev)
             proving == Proving(o, a, ev)
             claimed == \E r \in ev : IsPersistence(r) /\ ~Witnessed(r)
             c1 == exchanges # {}
             c2 == \A r \in exchanges : Witnessed(r) /\ r.session = s
             c3 == o.inventory
             c4 == \A r \in exchanges : r.route # "malformed"
             c5 == attributed # {}
             c6 == \A r \in visible : Witnessed(r)
             c7 == \E r \in visible : r.session = s
             c8 == confirming # {}
             c9 == CrudReads(ev, s, a.entity) # {}
             c10 == proving # {}
             c11 == proving = {} \/ Echoes(o, a, First(proving))
             c12 == confirming = {} \/ proving = {} \/ Agree(First(confirming), First(proving))
             checks == <<
                Require(c1, "missing"), Require(c2, "invalid"), Require(c3, "missing"),
                Require(c4, "invalid"), Require(c5, "invalid"), Require(c6, "invalid"),
                Require(c7, "missing"), Require(c8, "invalid"),
                Require(c9, IF claimed THEN "invalid" ELSE "missing"),
                Require(c10, "invalid"), Require(c11, "invalid"), Require(c12, "invalid") >>
             status == FirstFailure(checks)
  <1>1. GradeCrudSession(o, a, ev) =
          Outcome(status, IF status # "satisfied" THEN {}
                          ELSE SessionRecords(a, Smallest(attributed), First(confirming), First(proving)))
    BY DEF GradeCrudSession
  <1>2. SessionGood(o, a, ev) <=>
          (c1 /\ c2 /\ c3 /\ c4 /\ c5 /\ c6 /\ c7 /\ c8 /\ c9 /\ c10 /\ c11 /\ c12)
    <2>1. c5 => c1
      BY DEF AttributedExchanges
    <2>2. c8 => c7
      BY DEF Confirming
    <2>3. c10 => c9
      BY DEF Proving
    <2> HIDE DEF attributed, confirming, proving
    <2> QED BY <2>1, <2>2, <2>3 DEF SessionGood, attributed, confirming, proving
  <1>3. SessionRecords(a, Smallest(attributed), First(confirming), First(proving))
          = Ids(SessionProof(o, a, ev))
    BY DEF SessionRecords, SessionProof
  <1> HIDE DEF c1, c2, c3, c4, c5, c6, c7, c8, c9, c10, c11, c12, claimed
  <1>4. status = "satisfied" <=>
          (c1 /\ c2 /\ c3 /\ c4 /\ c5 /\ c6 /\ c7 /\ c8 /\ c9 /\ c10 /\ c11 /\ c12)
    <2>1. DOMAIN checks = 1..12
      OBVIOUS
    <2>2. status = "satisfied" <=> \A i \in 1..12 : checks[i] = "satisfied"
      BY <2>1, AllChecksMet
    <2>3. (\A i \in 1..12 : checks[i] = "satisfied") <=>
             /\ checks[1] = "satisfied" /\ checks[2] = "satisfied" /\ checks[3] = "satisfied"
             /\ checks[4] = "satisfied" /\ checks[5] = "satisfied" /\ checks[6] = "satisfied"
             /\ checks[7] = "satisfied" /\ checks[8] = "satisfied" /\ checks[9] = "satisfied"
             /\ checks[10] = "satisfied" /\ checks[11] = "satisfied" /\ checks[12] = "satisfied"
      <3> HIDE DEF checks
      <3> QED OBVIOUS
    <2>4. \A c, x : (x \in {"missing", "invalid"}) => (Require(c, x) = "satisfied" <=> c)
      BY DEF Require
    <2> QED BY <2>2, <2>3, <2>4
  <1> HIDE DEF status, attributed, confirming, proving
  <1>5. GradeCrudSession(o, a, ev).status = status
    BY <1>1 DEF Outcome
  <1> QED BY <1>1, <1>2, <1>3, <1>4, <1>5

\* The four records of a good session are of its evidence, in their parts.
LEMMA SessionParts ==
  ASSUME NEW o, NEW ev, IsEvidence(ev), NEW a \in ev, SessionGood(o, a, ev)
  PROVE  LET x == Smallest(AttributedExchanges(o, ev))
             v == First(Confirming(a, ev))
             p == First(Proving(o, a, ev))
         IN /\ x \in AttributedExchanges(o, ev) /\ v \in Confirming(a, ev)
            /\ p \in Proving(o, a, ev)
            /\ Witnessed(x) /\ x.session = a.session /\ x.route # "malformed" /\ Witnessed(v)
            /\ SessionProof(o, a, ev) = {a, x, v, p} /\ SessionProof(o, a, ev) \subseteq ev
  <1> DEFINE x == Smallest(AttributedExchanges(o, ev))
             v == First(Confirming(a, ev))
             p == First(Proving(o, a, ev))
  <1>1. /\ AttributedExchanges(o, ev) \subseteq OfKind(ev, "http.request")
        /\ Confirming(a, ev) \subseteq OfKind(ev, "ui.visible-result")
        /\ Proving(o, a, ev) \subseteq ev
    BY DEF AttributedExchanges, Confirming, Proving, CrudReads
  <1>2. OfKind(ev, "http.request") \subseteq ev /\ OfKind(ev, "ui.visible-result") \subseteq ev
    BY DEF OfKind
  <1>3. AttributedExchanges(o, ev) # {} /\ Confirming(a, ev) # {} /\ Proving(o, a, ev) # {}
    BY DEF SessionGood
  <1>4. x \in AttributedExchanges(o, ev)
    BY <1>1, <1>2, <1>3, PartOfEvidence, SmallestExists
  <1>5. v \in Confirming(a, ev)
    BY <1>1, <1>2, <1>3, PartOfEvidence, FirstExists
  <1>6. p \in Proving(o, a, ev)
    BY <1>1, <1>2, <1>3, PartOfEvidence, FirstExists
  <1>7. Witnessed(x) /\ x.session = a.session /\ x.route # "malformed" /\ Witnessed(v)
    <2> HIDE DEF x, v
    <2> QED BY <1>1, <1>4, <1>5 DEF SessionGood
  <1>8. SessionProof(o, a, ev) = {a, x, v, p}
    BY DEF SessionProof
  <1> HIDE DEF x, v, p
  <1>9. SessionProof(o, a, ev) \subseteq ev
    BY <1>1, <1>2, <1>4, <1>5, <1>6, <1>8
  <1> QED
    <2> USE DEF x, v, p
    <2> QED BY ONLY <1>4, <1>5, <1>6, <1>7, <1>8, <1>9

\* The proof of a good session is a good session of its own.
LEMMA SessionProofIsGood ==
  ASSUME NEW o, NEW ev, IsEvidence(ev), NEW a \in OfKind(ev, "ui.action"), SessionGood(o, a, ev)
  PROVE  SessionGood(o, a, SessionProof(o, a, ev))
  <1> DEFINE x == Smallest(AttributedExchanges(o, ev))
             v == First(Confirming(a, ev))
             p == First(Proving(o, a, ev))
             C == SessionProof(o, a, ev)
  <1>1. /\ a \in ev /\ a.kind = "ui.action"
        /\ x \in AttributedExchanges(o, ev) /\ v \in Confirming(a, ev) /\ p \in Proving(o, a, ev)
        /\ Witnessed(x) /\ x.session = a.session /\ x.route # "malformed" /\ Witnessed(v)
        /\ C = {a, x, v, p} /\ C \subseteq ev
    BY SessionParts DEF OfKind
  <1>2. Echoes(o, a, p) /\ Agree(v, p) /\ o.inventory
    BY DEF SessionGood
  <1> HIDE DEF x, v, p, C
  <1>3. x \in ev /\ x.kind = "http.request" /\ Attributed(o, x)
    BY <1>1 DEF AttributedExchanges, OfKind
  <1>4. v \in ev /\ v.kind = "ui.visible-result" /\ v.session = a.session /\ v.entity = a.entity
    BY <1>1 DEF Confirming, OfKind
  <1>5. /\ p \in ev /\ IsPersistence(p) /\ Witnessed(p) /\ p.session = a.session
        /\ p.entity = a.entity /\ Meets(o, p)
        /\ p.kind \in {"persistence.entity", "persistence.observed"}
    BY <1>1 DEF Proving, CrudReads, IsPersistence
  <1>6. AttributedExchanges(o, C) = {x} /\ OfKind(C, "http.request") = {x}
    BY <1>1, <1>3, <1>4, <1>5 DEF AttributedExchanges, OfKind
  <1>7. Confirming(a, C) = {v} /\ OfKind(C, "ui.visible-result") = {v}
    BY <1>1, <1>3, <1>4, <1>5 DEF Confirming, OfKind
  <1>8. Proving(o, a, C) = {p}
    BY <1>1, <1>3, <1>4, <1>5 DEF Proving, CrudReads, IsPersistence
  <1>9. First({v}) = v /\ First({p}) = p
    BY <1>1, <1>4, <1>5, PartOfEvidence, Single
  <1>10. SessionGood(o, a, C)
    BY <1>1, <1>2, <1>6, <1>7, <1>8, <1>9 DEF SessionGood
  <1> QED BY <1>10 DEF C

\* What the crud verifier asks of all the records of a test.
CrudGood(o, ev) ==
    /\ \A r \in OfKind(ev, "ui.action") : Witnessed(r)
    /\ \A r \in Anchors(o, ev) : Identified(r)
    /\ Anchors(o, ev) # {}

AnchorOf(o, s, ev) == Smallest({r \in Anchors(o, ev) : r.session = s})
Sessions(o, ev) == {r.session : r \in Anchors(o, ev)}

\* A crud claim is satisfied if one of its sessions is, and cites the records of
\* such a session.
LEMMA CrudGrade ==
  ASSUME NEW o, NEW ev, IsEvidence(ev)
  PROVE  /\ CrudClaimVerifier(o, ev).status = "satisfied" <=>
              CrudGood(o, ev) /\ \E s \in Sessions(o, ev) : SessionGood(o, AnchorOf(o, s, ev), ev)
         /\ CrudClaimVerifier(o, ev).status = "satisfied" =>
              \E s \in Sessions(o, ev) :
                 /\ SessionGood(o, AnchorOf(o, s, ev), ev)
                 /\ CrudClaimVerifier(o, ev)
                      = Outcome("satisfied", Ids(SessionProof(o, AnchorOf(o, s, ev), ev)))
  <1> DEFINE actions == OfKind(ev, "ui.action")
             unanchored == IF actions # {} /\ \A r \in actions : r.session # 0
                             THEN "invalid" ELSE "missing"
             c1 == ev # {}
             c2 == \A r \in actions : Witnessed(r)
             c3 == \A r \in Anchors(o, ev) : Identified(r)
             c4 == Anchors(o, ev) # {}
             checks == << Require(c1, "missing"), Require(c2, "invalid"), Require(c3, "invalid"),
                          Require(c4, unanchored) >>
             status == FirstFailure(checks)
             outcomes == [s \in Sessions(o, ev) |-> GradeCrudSession(o, AnchorOf(o, s, ev), ev)]
  <1>1. CrudClaimVerifier(o, ev) =
          IF status # "satisfied" THEN Outcome(status, {}) ELSE Aggregate(outcomes)
    BY DEF CrudClaimVerifier, Sessions, AnchorOf
  <1>2. CrudGood(o, ev) <=> (c1 /\ c2 /\ c3 /\ c4)
    BY DEF CrudGood, Anchors, OfKind
  <1>3. Sessions(o, ev) \subseteq Nat
    BY DEF Sessions, Anchors, OfKind, IsEvidence
  <1> HIDE DEF c1, c2, c3, c4
  <1>4. status = "satisfied" <=> (c1 /\ c2 /\ c3 /\ c4)
    <2>1. DOMAIN checks = 1..4
      OBVIOUS
    <2>2. status = "satisfied" <=> \A i \in 1..4 : checks[i] = "satisfied"
      BY <2>1, AllChecksMet
    <2>3. (\A i \in 1..4 : checks[i] = "satisfied") <=>
             /\ checks[1] = "satisfied" /\ checks[2] = "satisfied" /\ checks[3] = "satisfied"
             /\ checks[4] = "satisfied"
      <3> HIDE DEF checks
      <3> QED OBVIOUS
    <2>4. \A c, x : (x \in {"missing", "invalid"}) => (Require(c, x) = "satisfied" <=> c)
      BY DEF Require
    <2>5. unanchored \in {"missing", "invalid"}
      OBVIOUS
    <2> HIDE DEF unanchored
    <2> QED BY <2>2, <2>3, <2>4, <2>5
  <1>5. CASE ~CrudGood(o, ev)
    <2>1. status # "satisfied"
      BY <1>2, <1>4, <1>5
    <2> HIDE DEF status
    <2>2. CrudClaimVerifier(o, ev).status = status
      BY <1>1, <2>1 DEF Outcome
    <2> QED BY <1>5, <2>1, <2>2
  <1>6. CASE CrudGood(o, ev)
    <2>1. CrudClaimVerifier(o, ev) = Aggregate(outcomes)
      BY <1>1, <1>2, <1>4, <1>6
    <2>2. DOMAIN outcomes \subseteq Nat /\ DOMAIN outcomes = Sessions(o, ev)
      BY <1>3
    <2>3. \A s \in Sessions(o, ev) :
             /\ outcomes[s] = GradeCrudSession(o, AnchorOf(o, s, ev), ev)
             /\ outcomes[s].status = "satisfied" <=> SessionGood(o, AnchorOf(o, s, ev), ev)
             /\ SessionGood(o, AnchorOf(o, s, ev), ev) =>
                  outcomes[s] = Outcome("satisfied", Ids(SessionProof(o, AnchorOf(o, s, ev), ev)))
      BY SessionGrade
    <2> HIDE DEF outcomes
    <2>4. /\ (\E i \in Sessions(o, ev) : outcomes[i].status = "satisfied")
                => Aggregate(outcomes).status = "satisfied"
          /\ Aggregate(outcomes).status = "satisfied" =>
                \E i \in Sessions(o, ev) :
                   outcomes[i].status = "satisfied" /\ Aggregate(outcomes) = outcomes[i]
      BY <2>2, SatisfiedAggregate
    <2> QED BY <1>6, <2>1, <2>3, <2>4
  <1> QED BY <1>5, <1>6

\* The anchor of a session is an action of it.
LEMMA AnchorInSession ==
  ASSUME NEW o, NEW ev, IsEvidence(ev), NEW s \in Sessions(o, ev)
  PROVE  /\ AnchorOf(o, s, ev) \in Anchors(o, ev) /\ AnchorOf(o, s, ev).session = s
         /\ AnchorOf(o, s, ev) \in OfKind(ev, "ui.action") /\ AnchorOf(o, s, ev) \in ev
  <1> DEFINE A == {r \in Anchors(o, ev) : r.session = s}
  <1>1. A # {} /\ A \subseteq ev
    BY DEF Sessions, Anchors, OfKind
  <1>2. Smallest(A) \in A
    BY <1>1, PartOfEvidence, SmallestExists
  <1> HIDE DEF A
  <1>3. AnchorOf(o, s, ev) \in A
    BY <1>2 DEF AnchorOf, A
  <1> QED BY <1>3 DEF A, Anchors, OfKind

\* The action, the exchange, the visible result and the read that a crud verdict
\* cites are of one session and one entity, and give the same verdict.
CrudProof(o, ev, a, x, v, p) ==
    LET C == {a, x, v, p}
    IN /\ CrudClaimVerifier(o, ev).ids = Ids(C)
       /\ CrudClaimVerifier(o, C).status = "satisfied"
       /\ \A r \in C : Witnessed(r) /\ r.session = a.session
       /\ a.kind = "ui.action" /\ x.kind = "http.request" /\ v.kind = "ui.visible-result"
       /\ p.kind \in {"persistence.entity", "persistence.observed"}
       /\ v.entity = a.entity /\ p.entity = a.entity

\* A satisfied crud claim has such a proof among its records.
LEMMA CrudCites ==
  ASSUME NEW o, NEW ev, IsEvidence(ev), CrudClaimVerifier(o, ev).status = "satisfied"
  PROVE  \E a, x, v, p \in ev : CrudProof(o, ev, a, x, v, p)
  <1>1. PICK s \in Sessions(o, ev) :
           /\ SessionGood(o, AnchorOf(o, s, ev), ev)
           /\ CrudClaimVerifier(o, ev) = Outcome("satisfied", Ids(SessionProof(o, AnchorOf(o, s, ev), ev)))
    BY CrudGrade
  <1>2. CrudGood(o, ev)
    BY CrudGrade
  <1> DEFINE a == AnchorOf(o, s, ev)
             x == Smallest(AttributedExchanges(o, ev))
             v == First(Confirming(a, ev))
             p == First(Proving(o, a, ev))
             C == SessionProof(o, a, ev)
  <1>3. a \in Anchors(o, ev) /\ a.session = s /\ a \in OfKind(ev, "ui.action") /\ a \in ev
    BY AnchorInSession
  <1>4. SessionGood(o, a, C)
    BY <1>1, <1>3, SessionProofIsGood
  <1>5. CrudClaimVerifier(o, ev).ids = Ids(C)
    BY <1>1 DEF Outcome
  <1> HIDE DEF a
  <1>6. /\ x \in AttributedExchanges(o, ev) /\ v \in Confirming(a, ev) /\ p \in Proving(o, a, ev)
        /\ Witnessed(x) /\ x.session = a.session /\ x.route # "malformed" /\ Witnessed(v)
        /\ C = {a, x, v, p} /\ C \subseteq ev
    BY <1>1, <1>3, SessionParts DEF a
  <1> HIDE DEF x, v, p, C
  <1>7. x.kind = "http.request" /\ v.kind = "ui.visible-result" /\ a.kind = "ui.action"
    BY <1>3, <1>6 DEF AttributedExchanges, Confirming, OfKind
  <1>8. /\ v.session = a.session /\ v.entity = a.entity
        /\ p.kind \in {"persistence.entity", "persistence.observed"}
        /\ Witnessed(p) /\ p.session = a.session /\ p.entity = a.entity
    BY <1>6 DEF Confirming, OfKind, Proving, CrudReads, IsPersistence
  <1>9. Witnessed(a) /\ Identified(a)
    BY <1>2, <1>3 DEF CrudGood
  <1>10. OfKind(C, "ui.action") = {a}
    BY <1>6, <1>7, <1>8 DEF OfKind
  <1>11. Anchors(o, C) = {a}
    BY <1>3, <1>10 DEF Anchors
  <1>12. CrudGood(o, C)
    BY <1>9, <1>10, <1>11 DEF CrudGood
  <1>13. Sessions(o, C) = {s} /\ AnchorOf(o, s, C) = a
    <2>1. IsEvidence({a})
      BY <1>3, PartOfEvidence
    <2>2. {r \in Anchors(o, C) : r.session = s} = {a}
      BY <1>3, <1>11
    <2> QED BY <1>3, <1>11, <2>1, <2>2, Single DEF Sessions, AnchorOf
  <1>14. CrudClaimVerifier(o, C).status = "satisfied"
    <2>1. IsEvidence(C)
      BY <1>6, PartOfEvidence
    <2> QED BY <1>4, <1>12, <1>13, <2>1, CrudGrade
  <1>15. a \in ev /\ x \in ev /\ v \in ev /\ p \in ev
    BY <1>3, <1>6
  <1>16. CrudProof(o, ev, a, x, v, p)
    BY <1>5, <1>6, <1>7, <1>8, <1>9, <1>14 DEF CrudProof
  <1> QED BY <1>15, <1>16

\* A record that is not the witness's does not help a crud claim.
LEMMA CrudUnwitnessed ==
  ASSUME NEW o, NEW ev, NEW r, IsEvidence(ev \cup {r}), ~Witnessed(r),
         CrudClaimVerifier(o, ev \cup {r}).status = "satisfied"
  PROVE  CrudClaimVerifier(o, ev).status = "satisfied"
  <1> DEFINE more == ev \cup {r}
  <1>1. CrudGood(o, more)
    BY CrudGrade
  <1>2. PICK s \in Sessions(o, more) : SessionGood(o, AnchorOf(o, s, more), more)
    BY CrudGrade
  <1>3. r.kind # "ui.action"
    BY <1>1 DEF CrudGood, OfKind
  <1>4. OfKind(ev, "ui.action") = OfKind(more, "ui.action")
    BY <1>3 DEF OfKind
  <1>5. Anchors(o, ev) = Anchors(o, more)
    BY <1>4 DEF Anchors
  <1>6. Sessions(o, ev) = Sessions(o, more) /\ AnchorOf(o, s, ev) = AnchorOf(o, s, more)
    BY <1>5 DEF Sessions, AnchorOf
  <1>7. CrudGood(o, ev)
    BY <1>1, <1>4, <1>5 DEF CrudGood
  <1> DEFINE a == AnchorOf(o, s, more)
  <1>8. r.kind # "http.request" /\ r.kind # "ui.visible-result"
    BY <1>2 DEF SessionGood, OfKind
  <1>9. /\ OfKind(ev, "http.request") = OfKind(more, "http.request")
        /\ OfKind(ev, "ui.visible-result") = OfKind(more, "ui.visible-result")
    BY <1>8 DEF OfKind
  <1> HIDE DEF a
  <1>10. CrudReads(ev, a.session, a.entity) = CrudReads(more, a.session, a.entity)
    BY DEF CrudReads
  <1>11. /\ AttributedExchanges(o, ev) = AttributedExchanges(o, more)
         /\ Confirming(a, ev) = Confirming(a, more) /\ Proving(o, a, ev) = Proving(o, a, more)
    BY <1>9, <1>10 DEF AttributedExchanges, Confirming, Proving
  <1>12. SessionGood(o, a, more)
    BY <1>2 DEF a
  <1>13. SessionGood(o, a, ev)
    BY <1>9, <1>11, <1>12 DEF SessionGood
  <1>14. SessionGood(o, AnchorOf(o, s, ev), ev)
    BY <1>6, <1>13 DEF a
  <1> QED BY <1>6, <1>7, <1>14, CrudGrade, PartOfEvidence

----------------------------------------------------------------------------
(* The persistence lane.                                                   *)

\* Everything that one of several anchors needs.
AnchorGood(o, a, ev) ==
    /\ Snapshots(a, ev) # {}
    /\ Meets(o, First(Snapshots(a, ev)))
    /\ Echoes(o, a, First(Snapshots(a, ev)))
    /\ SeenAt(a, ev) # {} => Agree(First(SeenAt(a, ev)), First(Snapshots(a, ev)))

\* The checks of an anchor, made in order, come to that.
LEMMA AnchorGrade ==
  ASSUME NEW o, NEW a, NEW ev
  PROVE  AnchorStatus(o, a, ev) = "satisfied" <=> AnchorGood(o, a, ev)
  <1> DEFINE snapshots == Snapshots(a, ev)
             visible == SeenAt(a, ev)
             c1 == snapshots # {}
             c2 == snapshots = {} \/ Meets(o, First(snapshots))
             c3 == snapshots = {} \/ Echoes(o, a, First(snapshots))
             c4 == snapshots = {} \/ visible = {} \/ Agree(First(visible), First(snapshots))
             checks == << Require(c1, "missing"), Require(c2, "invalid"), Require(c3, "invalid"),
                          Require(c4, "invalid") >>
  <1>1. AnchorStatus(o, a, ev) = FirstFailure(checks)
    BY DEF AnchorStatus
  <1>2. AnchorGood(o, a, ev) <=> (c1 /\ c2 /\ c3 /\ c4)
    BY DEF AnchorGood
  <1> HIDE DEF c1, c2, c3, c4
  <1>3. DOMAIN checks = 1..4
    OBVIOUS
  <1>4. FirstFailure(checks) = "satisfied" <=> \A i \in 1..4 : checks[i] = "satisfied"
    BY <1>3, AllChecksMet
  <1>5. (\A i \in 1..4 : checks[i] = "satisfied") <=>
           /\ checks[1] = "satisfied" /\ checks[2] = "satisfied" /\ checks[3] = "satisfied"
           /\ checks[4] = "satisfied"
    <2> HIDE DEF checks
    <2> QED OBVIOUS
  <1>6. \A c, x : (x \in {"missing", "invalid"}) => (Require(c, x) = "satisfied" <=> c)
    BY DEF Require
  <1> QED BY <1>1, <1>2, <1>4, <1>5, <1>6

Action(o, ev) == First(Matching(o, ev))
Same(o, ev) == SameEntity(o, Action(o, ev), ev)
Several(o, ev) == \E a, b \in Same(o, ev) : a # b
Distinct(o, ev) == /\ \A a \in Same(o, ev) : a.anchor # "none"
                   /\ \A a, b \in Same(o, ev) : a # b => a.anchor # b.anchor
Shown(o, ev) == {r \in AnchoredReads(Action(o, ev), ev) : Meets(o, r)}
Visible(o, ev) == SeenOf(Action(o, ev), Several(o, ev), ev)

\* Everything that a claim on the browser channel needs.
BrowserGood(o, ev) ==
    /\ Matching(o, ev) # {}
    /\ Identified(Action(o, ev))
    /\ Several(o, ev) => Distinct(o, ev) /\ \A a \in Same(o, ev) : AnchorGood(o, a, ev)
    /\ Shown(o, ev) # {}
    /\ Echoes(o, Action(o, ev), First(Shown(o, ev)))
    /\ Visible(o, ev) # {} => Agree(First(Visible(o, ev)), First(Shown(o, ev)))

BrowserProof(o, ev) ==
    (IF Several(o, ev) THEN Same(o, ev) \cup {First(Snapshots(a, ev)) : a \in Same(o, ev)}
     ELSE {Action(o, ev), First(Shown(o, ev))})
    \cup (IF Visible(o, ev) = {} THEN {} ELSE {First(Visible(o, ev))})

\* The checks of the browser channel, made in order, come to that; and a satisfied
\* claim cites those records.
LEMMA BrowserGrade ==
  ASSUME NEW o, NEW ev, IsEvidence(ev)
  PROVE  /\ BrowserAnchoredPersistenceClaim(o, ev).status = "satisfied" <=> BrowserGood(o, ev)
         /\ BrowserGood(o, ev) =>
              BrowserAnchoredPersistenceClaim(o, ev) = Outcome("satisfied", Ids(BrowserProof(o, ev)))
  <1> DEFINE action == Action(o, ev)
             same == Same(o, ev)
             several == Several(o, ev)
             distinct == Distinct(o, ev)
             failing == {a \in same : AnchorStatus(o, a, ev) # "satisfied"}
             reads == AnchoredReads(action, ev)
             foreign == \E r \in BrowserReads(ev) : ~Witnessed(r) \/ r.entity # action.entity
             proving == Shown(o, ev)
             visible == Visible(o, ev)
             c1 == Identified(action)
             c2 == several => distinct
             s3 == IF several /\ distinct /\ failing # {}
                     THEN AnchorStatus(o, First(failing), ev) ELSE "satisfied"
             c4 == reads # {}
             x4 == IF foreign THEN "invalid" ELSE "missing"
             c5 == proving # {}
             c6 == proving = {} \/ Echoes(o, action, First(proving))
             c7 == proving = {} \/ visible = {} \/ Agree(First(visible), First(proving))
             checks == << Require(c1, "invalid"), Require(c2, "invalid"), s3, Require(c4, x4),
                          Require(c5, "invalid"), Require(c6, "invalid"), Require(c7, "invalid") >>
             status == FirstFailure(checks)
             none == IF OfKind(ev, "ui.action") = {} THEN "missing" ELSE "invalid"
  <1>1. BrowserAnchoredPersistenceClaim(o, ev) =
          IF Matching(o, ev) = {} THEN Outcome(none, {})
          ELSE Outcome(status, IF status # "satisfied" THEN {} ELSE Ids(BrowserProof(o, ev)))
    BY DEF BrowserAnchoredPersistenceClaim, BrowserProof, Action, Same, Several, Distinct, Shown,
           Visible
  <1>2. s3 = "satisfied" <=> (several /\ distinct => \A a \in same : AnchorGood(o, a, ev))
    <2>1. same \subseteq ev
      BY DEF Same, SameEntity, Matching, OfKind
    <2>2. failing # {} => First(failing) \in failing
      BY <2>1, FirstExists, PartOfEvidence
    <2>3. failing = {a \in same : ~AnchorGood(o, a, ev)}
      BY AnchorGrade
    <2> HIDE DEF same, several, distinct
    <2>4. CASE several /\ distinct /\ failing # {}
      BY <2>2, <2>3, <2>4
    <2>5. CASE ~(several /\ distinct /\ failing # {})
      BY <2>3, <2>5
    <2> QED BY <2>4, <2>5
  <1>3. BrowserGood(o, ev) <=>
           (Matching(o, ev) # {} /\ c1 /\ c2 /\ s3 = "satisfied" /\ c4 /\ c5 /\ c6 /\ c7)
    <2>1. c5 => c4
      BY DEF Shown
    <2> HIDE DEF s3
    <2> QED BY <1>2, <2>1 DEF BrowserGood
  <1> HIDE DEF c1, c2, c4, c5, c6, c7, s3, foreign
  <1>4. status = "satisfied" <=> (c1 /\ c2 /\ s3 = "satisfied" /\ c4 /\ c5 /\ c6 /\ c7)
    <2>1. DOMAIN checks = 1..7
      OBVIOUS
    <2>2. status = "satisfied" <=> \A i \in 1..7 : checks[i] = "satisfied"
      BY <2>1, AllChecksMet
    <2>3. (\A i \in 1..7 : checks[i] = "satisfied") <=>
             /\ checks[1] = "satisfied" /\ checks[2] = "satisfied" /\ checks[3] = "satisfied"
             /\ checks[4] = "satisfied" /\ checks[5] = "satisfied" /\ checks[6] = "satisfied"
             /\ checks[7] = "satisfied"
      <3> HIDE DEF checks
      <3> QED OBVIOUS
    <2>4. \A c, x : (x \in {"missing", "invalid"}) => (Require(c, x) = "satisfied" <=> c)
      BY DEF Require
    <2>5. x4 \in {"missing", "invalid"}
      OBVIOUS
    <2> HIDE DEF x4
    <2> QED BY <2>2, <2>3, <2>4, <2>5
  <1>5. none # "satisfied"
    OBVIOUS
  <1> HIDE DEF status, none
  <1>6. \A st, ids : Outcome(st, ids).status = st
    BY DEF Outcome
  <1> QED BY <1>1, <1>3, <1>4, <1>5, <1>6

\* The action of a good claim is one of the actions on its entity.
LEMMA ActionIsSame ==
  ASSUME NEW o, NEW ev, IsEvidence(ev), BrowserGood(o, ev)
  PROVE  /\ Action(o, ev) \in Matching(o, ev) /\ Action(o, ev) \in Same(o, ev)
         /\ Matching(o, ev) \subseteq ev /\ Same(o, ev) \subseteq Matching(o, ev)
         /\ \A r \in Matching(o, ev) : r.kind = "ui.action"
         /\ First(Shown(o, ev)) \in Shown(o, ev) /\ Shown(o, ev) \subseteq BrowserReads(ev)
         /\ \A r \in BrowserReads(ev) : r \in ev /\ r.kind \in {"persistence.entity", "persistence.observed"}
         /\ Visible(o, ev) # {} => First(Visible(o, ev)) \in Visible(o, ev)
         /\ \A r \in Visible(o, ev) : r \in ev /\ r.kind = "ui.visible-result"
  <1>1. Matching(o, ev) \subseteq ev /\ \A r \in Matching(o, ev) : r.kind = "ui.action"
    BY DEF Matching, OfKind
  <1>2. Matching(o, ev) # {} /\ Identified(Action(o, ev)) /\ Shown(o, ev) # {}
    BY DEF BrowserGood
  <1>3. Action(o, ev) \in Matching(o, ev)
    BY <1>1, <1>2, FirstExists, PartOfEvidence DEF Action
  <1>4. Action(o, ev) \in Same(o, ev) /\ Same(o, ev) \subseteq Matching(o, ev)
    BY <1>2, <1>3 DEF Same, SameEntity
  <1>5. \A r \in BrowserReads(ev) : r \in ev /\ r.kind \in {"persistence.entity", "persistence.observed"}
    BY DEF BrowserReads, IsPersistence
  <1>6. Shown(o, ev) \subseteq BrowserReads(ev)
    BY DEF Shown, AnchoredReads
  <1>7. First(Shown(o, ev)) \in Shown(o, ev)
    BY <1>2, <1>5, <1>6, FirstExists, PartOfEvidence
  <1>8. Visible(o, ev) \subseteq ev /\ \A r \in Visible(o, ev) : r.kind = "ui.visible-result"
    BY DEF Visible, SeenOf, OfKind
  <1>9. Visible(o, ev) # {} => First(Visible(o, ev)) \in Visible(o, ev)
    BY <1>8, FirstExists, PartOfEvidence
  <1> QED BY <1>1, <1>3, <1>4, <1>5, <1>6, <1>7, <1>8, <1>9

\* A claim that rests on a single action is proved by the records it cites.
LEMMA SingleProofIsGood ==
  ASSUME NEW o, NEW ev, IsEvidence(ev), BrowserGood(o, ev), ~Several(o, ev)
  PROVE  BrowserProof(o, ev) \subseteq ev /\ BrowserGood(o, BrowserProof(o, ev))
  <1> DEFINE a == Action(o, ev)
             p == First(Shown(o, ev))
             v == First(Visible(o, ev))
             V == IF Visible(o, ev) = {} THEN {} ELSE {v}
             C == BrowserProof(o, ev)
  <1>1. C = {a, p} \cup V
    BY DEF BrowserProof
  <1>2. /\ a \in ev /\ a.kind = "ui.action" /\ a \in Matching(o, ev) /\ a \in Same(o, ev)
        /\ p \in ev /\ p.kind \in {"persistence.entity", "persistence.observed"}
        /\ p \in Shown(o, ev)
        /\ V \subseteq Visible(o, ev) /\ \A r \in V : r \in ev /\ r.kind = "ui.visible-result"
    BY ActionIsSame
  <1>3. Identified(a) /\ Echoes(o, a, p) /\ (V # {} => Agree(v, p))
    BY DEF BrowserGood
  <1> HIDE DEF a, p, v, C
  <1>4. C \subseteq ev /\ IsEvidence(C)
    <2>1. C \subseteq ev
      BY <1>1, <1>2
    <2> QED BY <2>1, PartOfEvidence
  <1>5. Provenanced(a) /\ a.op = o.op
    BY <1>2 DEF Matching
  <1>6. First({a}) = a /\ First({p}) = p
    <2>1. {a} \subseteq ev /\ {p} \subseteq ev
      BY <1>2
    <2>2. IsEvidence({a}) /\ IsEvidence({p})
      BY <2>1, PartOfEvidence
    <2> QED BY <2>2, Single
  <1>7. Matching(o, C) = {a}
    BY <1>1, <1>2, <1>5 DEF Matching, OfKind
  <1>8. Action(o, C) = a
    BY <1>6, <1>7 DEF Action
  <1>9. Same(o, C) = {a}
    BY <1>3, <1>7, <1>8 DEF Same, SameEntity
  <1>10. ~Several(o, C)
    BY <1>9 DEF Several
  <1>11. Shown(o, C) = {p}
    <2>1. p \in BrowserReads(ev) /\ Witnessed(p) /\ p.entity = a.entity
          /\ a.anchor \in {"none", p.anchor} /\ Meets(o, p)
      BY <1>2 DEF Shown, AnchoredReads, a
    <2>2. BrowserReads(C) = {p}
      BY <1>1, <1>2, <2>1 DEF BrowserReads, IsPersistence
    <2> QED BY <1>8, <2>1, <2>2 DEF Shown, AnchoredReads
  <1>12. Visible(o, C) = V
    <2>1. OfKind(C, "ui.visible-result") = V
      BY <1>1, <1>2 DEF OfKind
    <2>2. \A r \in V : r.entity = a.entity /\ (a.anchor \in {"none", r.anchor} \/ r.anchor = "none")
      BY <1>2 DEF Visible, SeenOf, a
    <2> QED BY <1>8, <1>10, <2>1, <2>2 DEF Visible, SeenOf
  <1>13. V # {} => V = {v} /\ First(V) = v
    <2>1. CASE V # {}
      <3>1. V = {v}
        BY <2>1
      <3>2. IsEvidence({v})
        BY <1>2, <3>1, PartOfEvidence
      <3> QED BY <3>1, <3>2, Single
    <2> QED BY <2>1
  <1> HIDE DEF V
  <1>14. BrowserGood(o, C)
    BY <1>3, <1>6, <1>7, <1>8, <1>10, <1>11, <1>12, <1>13 DEF BrowserGood
  <1> QED BY <1>4, <1>14 DEF C

\* Several actions on an entity are proved by the records they cite, each by
\* what was read at its own anchor.
LEMMA SeveralProofIsGood ==
  ASSUME NEW o, NEW ev, IsEvidence(ev), BrowserGood(o, ev), Several(o, ev)
  PROVE  BrowserProof(o, ev) \subseteq ev /\ BrowserGood(o, BrowserProof(o, ev))
  <1> DEFINE a == Action(o, ev)
             S == Same(o, ev)
             Snap(b) == First(Snapshots(b, ev))
             v == First(Visible(o, ev))
             V == IF Visible(o, ev) = {} THEN {} ELSE {v}
             C == BrowserProof(o, ev)
  <1>1. C = S \cup {Snap(b) : b \in S} \cup V
    BY DEF BrowserProof
  <1>2. /\ a \in S /\ S \subseteq Matching(o, ev) /\ Matching(o, ev) \subseteq ev
        /\ \A r \in S : r \in ev /\ r.kind = "ui.action"
        /\ V \subseteq Visible(o, ev) /\ \A r \in V : r \in ev /\ r.kind = "ui.visible-result"
    BY ActionIsSame
  <1>3. /\ \A b \in S : AnchorGood(o, b, ev) /\ b.anchor # "none"
        /\ \A b, c \in S : b # c => b.anchor # c.anchor
        /\ Identified(a)
    BY DEF BrowserGood, Distinct
  <1>4. \A b \in S : Identified(b) /\ b.entity = a.entity /\ Provenanced(b) /\ b.op = o.op
    BY DEF Same, SameEntity, Matching
  <1>5. \A b \in S : Snap(b) \in Snapshots(b, ev)
    <2> SUFFICES ASSUME NEW b \in S PROVE Snap(b) \in Snapshots(b, ev)
      OBVIOUS
    <2>1. Snapshots(b, ev) # {}
      BY <1>3 DEF AnchorGood
    <2>2. Snapshots(b, ev) \subseteq ev
      BY DEF Snapshots, BrowserReads
    <2> QED BY <2>1, <2>2, FirstExists, PartOfEvidence
  <1>6. \A b \in S : /\ Snap(b) \in ev /\ Witnessed(Snap(b)) /\ Snap(b) \in BrowserReads(ev)
                     /\ Snap(b).kind \in {"persistence.entity", "persistence.observed"}
                     /\ Snap(b).entity = b.entity /\ Snap(b).anchor = b.anchor
                     /\ Meets(o, Snap(b)) /\ Echoes(o, b, Snap(b))
    BY <1>3, <1>5 DEF Snapshots, BrowserReads, IsPersistence, AnchorGood
  <1>7. \A r \in V : SeenAt(a, ev) # {} /\ r = First(SeenAt(a, ev)) /\ r.anchor = a.anchor
                     /\ r.entity = a.entity
    <2>1. Visible(o, ev) = SeenAt(a, ev)
      BY <1>2, <1>3 DEF Visible, SeenOf, SeenAt
    <2> HIDE DEF a
    <2> QED BY <1>2, <2>1 DEF SeenAt
  <1>8. \A r \in V : Agree(r, Snap(a))
    BY <1>2, <1>3, <1>7 DEF AnchorGood
  <1> HIDE DEF a, S, Snap, v, V, C
  <1>9. C \subseteq ev /\ IsEvidence(C)
    <2>1. C \subseteq ev
      BY <1>1, <1>2, <1>6
    <2> QED BY <2>1, PartOfEvidence
  <1>10. Matching(o, C) = S
    BY <1>1, <1>2, <1>4, <1>6 DEF Matching, OfKind
  <1>11. Action(o, C) = a
    <2>1. a = First(Matching(o, ev)) /\ IsEvidence(Matching(o, ev))
      BY <1>2, PartOfEvidence DEF Action, a
    <2> QED BY <1>2, <1>10, <2>1, FirstOfFewer DEF Action
  <1>12. Same(o, C) = S
    BY <1>4, <1>10, <1>11 DEF Same, SameEntity
  <1>13. Several(o, C) /\ Distinct(o, C)
    BY <1>3, <1>12 DEF Several, Distinct, S
  <1>14. \A b \in S : Snapshots(b, C) = {Snap(b)}
    <2> SUFFICES ASSUME NEW b \in S PROVE Snapshots(b, C) = {Snap(b)}
      OBVIOUS
    <2>1. BrowserReads(C) \subseteq {Snap(c) : c \in S}
      BY <1>1, <1>2 DEF BrowserReads, IsPersistence
    <2>2. \A c \in S : Snap(c) \in Snapshots(b, C) => c = b
      BY <1>3, <1>6 DEF Snapshots
    <2>3. Snap(b) \in Snapshots(b, C)
      BY <1>1, <1>6 DEF Snapshots, BrowserReads
    <2> QED BY <2>1, <2>2, <2>3 DEF Snapshots
  <1>15. OfKind(C, "ui.visible-result") = V
    BY <1>1, <1>2, <1>6 DEF OfKind
  <1>16. \A b \in S : SeenAt(b, C) # {} => b = a
    BY <1>2, <1>3, <1>7, <1>15 DEF SeenAt
  <1>17. SeenAt(a, C) = V
    BY <1>7, <1>15 DEF SeenAt
  <1>18. V # {} => First(V) \in V
    <2>1. V \subseteq ev
      BY <1>2
    <2> QED BY <2>1, FirstExists, PartOfEvidence
  <1>19. \A b \in S : First({Snap(b)}) = Snap(b)
    <2> SUFFICES ASSUME NEW b \in S PROVE First({Snap(b)}) = Snap(b)
      OBVIOUS
    <2>1. {Snap(b)} \subseteq ev
      BY <1>6
    <2>2. IsEvidence({Snap(b)})
      BY <2>1, PartOfEvidence
    <2> QED BY <2>2, Single
  <1>20. \A b \in S : AnchorGood(o, b, C)
    <2> SUFFICES ASSUME NEW b \in S PROVE AnchorGood(o, b, C)
      OBVIOUS
    <2>1. Snapshots(b, C) = {Snap(b)} /\ First(Snapshots(b, C)) = Snap(b)
      BY <1>14, <1>19
    <2>2. SeenAt(b, C) # {} => Agree(First(SeenAt(b, C)), Snap(b))
      BY <1>8, <1>16, <1>17, <1>18
    <2> QED BY <1>6, <2>1, <2>2 DEF AnchorGood
  <1>21. Shown(o, C) = {Snap(a)}
    <2>1. AnchoredReads(a, C) = Snapshots(a, C)
      BY <1>2, <1>3 DEF AnchoredReads, Snapshots
    <2> QED BY <1>2, <1>6, <1>11, <1>14, <2>1 DEF Shown
  <1>22. Visible(o, C) = V
    <2>1. Visible(o, C) = SeenAt(a, C)
      BY <1>2, <1>3, <1>11, <1>13 DEF Visible, SeenOf, SeenAt
    <2> QED BY <1>17, <2>1
  <1>23. BrowserGood(o, C)
    BY <1>2, <1>3, <1>6, <1>8, <1>10, <1>11, <1>12, <1>13, <1>18, <1>19, <1>20, <1>21, <1>22
       DEF BrowserGood
  <1> QED BY <1>9, <1>23 DEF C

\* What a server read or an observed change proves without the browser.
ServerProof(o, ev) == {r \in ServerReads(ev) : Identified(r) /\ Meets(o, r)}
ObserveProof(o, ev) ==
    {r \in ObserveReads(ev) : Identified(r) /\ Meets(o, r) /\ ObservedEchoes(o, r)}

\* A persistence claim is satisfied on one of its three channels.
LEMMA PersistenceGrade ==
  ASSUME NEW o, NEW ev, IsEvidence(ev)
  PROVE  /\ PersistenceClaimVerifier(o, ev).status = "satisfied" <=>
              BrowserGood(o, ev) \/ ServerProof(o, ev) # {} \/ ObserveProof(o, ev) # {}
         /\ BrowserGood(o, ev) =>
              PersistenceClaimVerifier(o, ev) = Outcome("satisfied", Ids(BrowserProof(o, ev)))
         /\ ~BrowserGood(o, ev) /\ ServerProof(o, ev) # {} =>
              PersistenceClaimVerifier(o, ev) = Outcome("satisfied", {Smallest(ServerProof(o, ev)).id})
         /\ ~BrowserGood(o, ev) /\ ServerProof(o, ev) = {} /\ ObserveProof(o, ev) # {} =>
              PersistenceClaimVerifier(o, ev) = Outcome("satisfied", {Smallest(ObserveProof(o, ev)).id})
  <1> DEFINE browser == BrowserAnchoredPersistenceClaim(o, ev)
             server == ServerProof(o, ev)
             observe == ObserveProof(o, ev)
             tried == ServerReads(ev) \cup ObserveReads(ev) # {}
  <1>1. PersistenceClaimVerifier(o, ev) =
          IF ev = {} THEN Outcome("missing", {})
          ELSE IF browser.status = "satisfied" THEN browser
          ELSE IF server # {} THEN Outcome("satisfied", {Smallest(server).id})
          ELSE IF observe # {} THEN Outcome("satisfied", {Smallest(observe).id})
          ELSE IF tried THEN Outcome("invalid", {})
          ELSE browser
    BY DEF PersistenceClaimVerifier, ServerProof, ObserveProof
  <1>2. /\ browser.status = "satisfied" <=> BrowserGood(o, ev)
        /\ BrowserGood(o, ev) => browser = Outcome("satisfied", Ids(BrowserProof(o, ev)))
    BY BrowserGrade
  <1>3. BrowserGood(o, ev) \/ server # {} \/ observe # {} => ev # {}
    BY DEF BrowserGood, Matching, OfKind, ServerProof, ObserveProof, ServerReads, ObserveReads
  <1>4. \A st, ids : Outcome(st, ids).status = st
    BY DEF Outcome
  <1> HIDE DEF browser, server, observe, tried
  <1>5. CASE BrowserGood(o, ev)
    BY <1>1, <1>2, <1>3, <1>4, <1>5
  <1>6. CASE ~BrowserGood(o, ev)
    BY <1>1, <1>2, <1>3, <1>4, <1>6 DEF server, observe
  <1> QED BY <1>5, <1>6

\* The records a persistence claim cites satisfy it by themselves.
LEMMA PersistenceCites ==
  ASSUME NEW o, NEW ev, IsEvidence(ev), PersistenceClaimVerifier(o, ev).status = "satisfied"
  PROVE  \E C \in SUBSET ev :
            /\ PersistenceClaimVerifier(o, ev).ids = Ids(C)
            /\ PersistenceClaimVerifier(o, C).status = "satisfied"
  <1>1. CASE BrowserGood(o, ev)
    <2> DEFINE C == BrowserProof(o, ev)
    <2>1. C \subseteq ev /\ BrowserGood(o, C)
      BY <1>1, SingleProofIsGood, SeveralProofIsGood
    <2>2. PersistenceClaimVerifier(o, ev).ids = Ids(C)
      <3>1. PersistenceClaimVerifier(o, ev) = Outcome("satisfied", Ids(C))
        BY <1>1, PersistenceGrade
      <3> QED BY <3>1 DEF Outcome
    <2>3. PersistenceClaimVerifier(o, C).status = "satisfied"
      BY <2>1, PersistenceGrade, PartOfEvidence
    <2> QED BY <2>1, <2>2, <2>3
  <1>2. CASE ~BrowserGood(o, ev) /\ ServerProof(o, ev) # {}
    <2> DEFINE r == Smallest(ServerProof(o, ev))
               C == {r}
    <2>1. ServerProof(o, ev) \subseteq ev
      BY DEF ServerProof, ServerReads
    <2>2. r \in ServerProof(o, ev)
      BY <1>2, <2>1, SmallestExists, PartOfEvidence
    <2>3. PersistenceClaimVerifier(o, ev).ids = {r.id}
      <3>1. PersistenceClaimVerifier(o, ev) = Outcome("satisfied", {r.id})
        BY <1>2, PersistenceGrade
      <3> QED BY <3>1 DEF Outcome
    <2> HIDE DEF r
    <2>4. C \subseteq ev /\ Ids(C) = {r.id}
      BY <2>1, <2>2 DEF Ids
    <2>5. ServerProof(o, C) # {}
      BY <2>2 DEF ServerProof, ServerReads
    <2>6. PersistenceClaimVerifier(o, C).status = "satisfied"
      BY <2>4, <2>5, PersistenceGrade, PartOfEvidence
    <2> QED BY <2>3, <2>4, <2>6
  <1>3. CASE ~BrowserGood(o, ev) /\ ServerProof(o, ev) = {} /\ ObserveProof(o, ev) # {}
    <2> DEFINE r == Smallest(ObserveProof(o, ev))
               C == {r}
    <2>1. ObserveProof(o, ev) \subseteq ev
      BY DEF ObserveProof, ObserveReads
    <2>2. r \in ObserveProof(o, ev)
      BY <1>3, <2>1, SmallestExists, PartOfEvidence
    <2>3. PersistenceClaimVerifier(o, ev).ids = {r.id}
      <3>1. PersistenceClaimVerifier(o, ev) = Outcome("satisfied", {r.id})
        BY <1>3, PersistenceGrade
      <3> QED BY <3>1 DEF Outcome
    <2> HIDE DEF r
    <2>4. C \subseteq ev /\ Ids(C) = {r.id}
      BY <2>1, <2>2 DEF Ids
    <2>5. ObserveProof(o, C) # {}
      BY <2>2 DEF ObserveProof, ObserveReads
    <2>6. PersistenceClaimVerifier(o, C).status = "satisfied"
      BY <2>4, <2>5, PersistenceGrade, PartOfEvidence
    <2> QED BY <2>3, <2>4, <2>6
  <1> QED BY <1>1, <1>2, <1>3, PersistenceGrade

\* The first of the records seen is the one that was seen before r.
LEMMA FirstSeen ==
  ASSUME NEW S, NEW r, IsEvidence(S \cup {r}), \A q \in S : q.at < r.at,
         NEW T, T = S \/ T = S \cup {r}
  PROVE  S # {} => T # {} /\ First(T) = First(S)
  <1>1. IsEvidence(S)
    BY PartOfEvidence
  <1> QED BY <1>1, FirstOfMore

\* A later record that is not the witness's and no action of the suite does
\* not help a claim on the browser channel.
LEMMA BrowserUnwitnessed ==
  ASSUME NEW o, NEW ev, NEW r, IsEvidence(ev \cup {r}), \A q \in ev : q.at < r.at,
         ~Witnessed(r), r.kind # "ui.action", BrowserGood(o, ev \cup {r})
  PROVE  BrowserGood(o, ev)
  <1> DEFINE more == ev \cup {r}
             a == Action(o, more)
  <1> HIDE DEF more
  <1>1. Matching(o, more) = Matching(o, ev)
    BY DEF Matching, OfKind, more
  <1>2. Action(o, ev) = a
    BY <1>1 DEF Action
  <1> HIDE DEF a
  <1>3. Same(o, more) = Same(o, ev)
    BY <1>1, <1>2 DEF Same, SameEntity, a
  <1>4. (Several(o, more) <=> Several(o, ev)) /\ (Distinct(o, more) <=> Distinct(o, ev))
    BY <1>3 DEF Several, Distinct
  <1>5. \A b : Snapshots(b, more) = Snapshots(b, ev)
    BY DEF Snapshots, BrowserReads, more
  <1>6. \A b : SeenAt(b, more) = SeenAt(b, ev) \/ SeenAt(b, more) = SeenAt(b, ev) \cup {r}
    BY DEF SeenAt, OfKind, more
  <1>7. \A b : SeenAt(b, ev) # {} =>
            SeenAt(b, more) # {} /\ First(SeenAt(b, more)) = First(SeenAt(b, ev))
    <2> SUFFICES ASSUME NEW b, SeenAt(b, ev) # {}
                 PROVE  SeenAt(b, more) # {} /\ First(SeenAt(b, more)) = First(SeenAt(b, ev))
      OBVIOUS
    <2> DEFINE S == SeenAt(b, ev)
               T == SeenAt(b, more)
    <2>1. S \subseteq ev
      BY DEF SeenAt, OfKind
    <2>2. T = S \/ T = S \cup {r}
      BY <1>6
    <2> HIDE DEF S, T
    <2>3. S \cup {r} \subseteq more /\ \A q \in S : q.at < r.at
      BY <2>1 DEF more
    <2>4. IsEvidence(S \cup {r})
      BY <2>3, PartOfEvidence DEF more
    <2>5. S # {} => T # {} /\ First(T) = First(S)
      BY <2>2, <2>3, <2>4, FirstSeen
    <2> QED BY <2>5 DEF S, T
  <1>8. \A b : AnchorGood(o, b, more) => AnchorGood(o, b, ev)
    BY <1>5, <1>7 DEF AnchorGood
  <1>9. Shown(o, more) = Shown(o, ev)
    BY <1>2 DEF Shown, AnchoredReads, BrowserReads, more, a
  <1>10. Visible(o, ev) # {} =>
            Visible(o, more) # {} /\ First(Visible(o, more)) = First(Visible(o, ev))
    <2> DEFINE S == Visible(o, ev)
               T == Visible(o, more)
    <2>1. S \subseteq ev
      BY DEF Visible, SeenOf, OfKind
    <2>2. T = S \/ T = S \cup {r}
      <3>1. SeenOf(a, Several(o, more), more) = SeenOf(a, Several(o, ev), ev)
              \/ SeenOf(a, Several(o, more), more) = SeenOf(a, Several(o, ev), ev) \cup {r}
        BY <1>4 DEF SeenOf, OfKind, more
      <3> QED BY <1>2, <3>1 DEF Visible, a
    <2> HIDE DEF S, T
    <2>3. S \cup {r} \subseteq more /\ \A q \in S : q.at < r.at
      BY <2>1 DEF more
    <2>4. IsEvidence(S \cup {r})
      BY <2>3, PartOfEvidence DEF more
    <2>5. S # {} => T # {} /\ First(T) = First(S)
      BY <2>2, <2>3, <2>4, FirstSeen
    <2> QED BY <2>5 DEF S, T
  <1>11. BrowserGood(o, more)
    BY DEF more
  <1> QED
    BY <1>1, <1>2, <1>3, <1>4, <1>8, <1>9, <1>10, <1>11 DEF BrowserGood, a

\* A later record that is not the witness's and no action of the suite does not
\* help a persistence claim, on any channel.
LEMMA PersistenceUnwitnessed ==
  ASSUME NEW o, NEW ev, NEW r, IsEvidence(ev \cup {r}), \A q \in ev : q.at < r.at,
         ~Witnessed(r), r.kind # "ui.action",
         PersistenceClaimVerifier(o, ev \cup {r}).status = "satisfied"
  PROVE  PersistenceClaimVerifier(o, ev).status = "satisfied"
  <1>1. BrowserGood(o, ev \cup {r}) => BrowserGood(o, ev)
    BY BrowserUnwitnessed
  <1>2. ServerReads(ev \cup {r}) = ServerReads(ev) /\ ObserveReads(ev \cup {r}) = ObserveReads(ev)
    BY DEF ServerReads, ObserveReads
  <1>3. /\ ServerProof(o, ev \cup {r}) = ServerProof(o, ev)
        /\ ObserveProof(o, ev \cup {r}) = ObserveProof(o, ev)
    BY <1>2 DEF ServerProof, ObserveProof
  <1>4. IsEvidence(ev)
    BY PartOfEvidence
  <1> QED BY <1>1, <1>3, <1>4, PersistenceGrade

----------------------------------------------------------------------------
(* The page lane.                                                          *)

\* The end of the loop, and what it starts from.
EndOf(visits) == Max({0} \cup {r.at : r \in visits})
Unseen == [t \in Tests |-> << >>]

\* f is the loop of the page lane over the first m places of the ledger.
IsLoop(f, visits, m) ==
    f = [n \in 0 .. m |-> IF n = 0 THEN Unseen ELSE Visited(visits, f[n - 1], n)]

\* The last place is that of no record before another.
LEMMA LastPlace ==
  ASSUME NEW visits, IsEvidence(visits)
  PROVE  EndOf(visits) \in Nat /\ \A r \in visits : r.at \in 1 .. EndOf(visits)
  <1> DEFINE P == {0} \cup {r.at : r \in visits}
             B == {n \in Nat : \A p \in P : p <= n}
             m == Min(B)
  <1>1. P \subseteq Nat /\ P # {}
    BY DEF IsEvidence
  <1>2. B # {}
    <2>1. PICK n \in Nat : \A r \in visits : r.at <= n
      BY DEF IsEvidence
    <2>2. n \in B
      BY <2>1
    <2> QED BY <2>2
  <1>3. m \in B /\ \A n \in B : m <= n
    <2>1. B \subseteq Nat
      OBVIOUS
    <2> HIDE DEF B
    <2> QED BY <1>2, <2>1, LeastNumber
  <1> HIDE DEF m
  <1>4. m \in P
    <2> SUFFICES ASSUME m \notin P PROVE FALSE
      OBVIOUS
    <2>1. m # 0 /\ m \in Nat
      BY <1>3
    <2>2. \A p \in P : p <= m - 1
      <3> SUFFICES ASSUME NEW p \in P PROVE p <= m - 1
        OBVIOUS
      <3>1. p \in Nat /\ p <= m /\ p # m
        BY <1>1, <1>3
      <3> QED BY <2>1, <3>1
    <2>3. m - 1 \in B
      BY <2>1, <2>2
    <2> QED BY <1>3, <2>1, <2>3
  <1>5. \E x \in P : \A y \in P : x >= y
    <2> HIDE DEF P
    <2> QED BY <1>1, <1>3, <1>4
  <1>6. EndOf(visits) \in P /\ \A p \in P : EndOf(visits) >= p
    BY <1>5 DEF EndOf, Max
  <1> QED BY <1>1, <1>6 DEF IsEvidence

\* The loop has a value for every number of places.
LEMMA LoopExists ==
  ASSUME NEW visits, NEW last \in Nat
  PROVE  \E f : IsLoop(f, visits, last)
  <1> DEFINE Bad == {m \in Nat : ~\E f : IsLoop(f, visits, m)}
             m == Min(Bad)
  <1>1. SUFFICES ASSUME Bad # {} PROVE FALSE
    OBVIOUS
  <1>2. m \in Bad /\ \A n \in Bad : m <= n
    <2>1. Bad \subseteq Nat
      OBVIOUS
    <2> HIDE DEF Bad
    <2> QED BY <1>1, <2>1, LeastNumber
  <1> HIDE DEF m
  <1>3. m \in Nat /\ ~\E f : IsLoop(f, visits, m)
    BY <1>2
  <1>4. CASE m = 0
    <2>1. IsLoop([n \in 0 .. 0 |-> Unseen], visits, 0)
      BY DEF IsLoop
    <2> QED BY <1>3, <1>4, <2>1
  <1>5. CASE m # 0
    <2>1. m - 1 \in Nat /\ m - 1 \notin Bad
      BY <1>2, <1>3, <1>5
    <2>2. PICK f : IsLoop(f, visits, m - 1)
      BY <2>1
    <2> DEFINE g == [n \in 0 .. m |-> IF n = m THEN Visited(visits, f[m - 1], m) ELSE f[n]]
    <2>3. \A n \in 0 .. m : g[n] = IF n = 0 THEN Unseen ELSE Visited(visits, g[n - 1], n)
      <3> SUFFICES ASSUME NEW n \in 0 .. m
                   PROVE  g[n] = IF n = 0 THEN Unseen ELSE Visited(visits, g[n - 1], n)
        OBVIOUS
      <3>1. CASE n = m
        <4>1. m - 1 \in 0 .. m /\ g[m - 1] = f[m - 1]
          BY <1>3, <2>1
        <4> QED BY <1>3, <1>5, <3>1, <4>1
      <3>2. CASE n # m
        <4>1. n \in 0 .. (m - 1) /\ g[n] = f[n]
          BY <1>3, <3>2
        <4>2. f[n] = IF n = 0 THEN Unseen ELSE Visited(visits, f[n - 1], n)
          BY <2>2, <4>1 DEF IsLoop
        <4>3. n # 0 => n - 1 \in 0 .. m /\ g[n - 1] = f[n - 1]
          BY <1>3, <3>2
        <4> HIDE DEF g
        <4> QED BY <4>1, <4>2, <4>3
      <3> QED BY <3>1, <3>2
    <2>4. g = [n \in 0 .. m |-> g[n]]
      OBVIOUS
    <2> HIDE DEF g
    <2>5. IsLoop(g, visits, m)
      BY <2>3, <2>4 DEF IsLoop
    <2> QED BY <1>3, <2>5
  <1> QED BY <1>4, <1>5

\* What the loop knows after the visits S: of each test seen, a newest visit
\* and whether another contradicts it.
Newest(h, S) == h \in S /\ \A q \in S : q.test = h.test => q.sequence <= h.sequence
Contradicted(h, S) ==
    \E q \in S : q.test = h.test /\ q.sequence = h.sequence /\ Payload(q) # Payload(h)

Knows(latest, S) ==
    /\ DOMAIN latest = Tests
    /\ \A t \in Tests :
          \/ latest[t] = << >> /\ \A q \in S : q.test # t
          \/ \E h \in S : /\ h.test = t /\ Newest(h, S)
                          /\ latest[t] = IF Contradicted(h, S) THEN <<h, TRUE>> ELSE <<h, FALSE>>

\* One more visit, and the loop knows it too.
LEMMA TrackKnows ==
  ASSUME NEW visits, IsEvidence(visits), NEW S, S \subseteq visits, NEW r \in visits,
         NEW latest, Knows(latest, S)
  PROVE  Knows(Track(latest, r), S \cup {r})
  <1> DEFINE t == r.test
             held == latest[t]
             next == Track(latest, r)
             T == S \cup {r}
  <1>1. t \in Tests /\ r.sequence \in Nat /\ \A q \in S : q.sequence \in Nat
    BY DEF IsEvidence
  <1>2. DOMAIN latest = Tests
    BY DEF Knows
  <1>3. DOMAIN next = Tests /\ \A u \in Tests \ {t} : next[u] = latest[u]
    BY <1>1, <1>2 DEF Track
  <1>4. ASSUME NEW u \in Tests \ {t}
        PROVE  \/ next[u] = << >> /\ \A q \in T : q.test # u
               \/ \E h \in T : /\ h.test = u /\ Newest(h, T)
                               /\ next[u] = IF Contradicted(h, T) THEN <<h, TRUE>> ELSE <<h, FALSE>>
    <2>1. CASE latest[u] = << >> /\ \A q \in S : q.test # u
      BY <1>3, <1>4, <2>1
    <2>2. CASE \E h \in S : /\ h.test = u /\ Newest(h, S)
                            /\ latest[u] = IF Contradicted(h, S) THEN <<h, TRUE>> ELSE <<h, FALSE>>
      <3>1. PICK h \in S : /\ h.test = u /\ Newest(h, S)
                           /\ latest[u] = IF Contradicted(h, S) THEN <<h, TRUE>> ELSE <<h, FALSE>>
        BY <2>2
      <3>2. Newest(h, T) /\ (Contradicted(h, T) <=> Contradicted(h, S))
        BY <1>4, <3>1 DEF Newest, Contradicted
      <3> HIDE DEF next, T
      <3> QED BY <1>3, <1>4, <3>1, <3>2 DEF T
    <2> QED BY <2>1, <2>2 DEF Knows
  <1>5. \/ next[t] = << >> /\ \A q \in T : q.test # t
        \/ \E h \in T : /\ h.test = t /\ Newest(h, T)
                        /\ next[t] = IF Contradicted(h, T) THEN <<h, TRUE>> ELSE <<h, FALSE>>
    <2>1. CASE held = << >> /\ \A q \in S : q.test # t
      <3>1. next[t] = <<r, FALSE>>
        BY <1>1, <1>2, <2>1 DEF Track
      <3>2. Newest(r, T) /\ ~Contradicted(r, T)
        BY <1>1, <2>1 DEF Newest, Contradicted
      <3> QED BY <3>1, <3>2
    <2>2. CASE \E h \in S : /\ h.test = t /\ Newest(h, S)
                            /\ held = IF Contradicted(h, S) THEN <<h, TRUE>> ELSE <<h, FALSE>>
      <3>1. PICK h \in S : /\ h.test = t /\ Newest(h, S)
                           /\ held = IF Contradicted(h, S) THEN <<h, TRUE>> ELSE <<h, FALSE>>
        BY <2>2
      <3>2. held # << >> /\ held[1] = h
        BY <3>1
      <3>3. h.sequence \in Nat
        BY <1>1
      <3>7. latest[r.test] # << >> /\ latest[r.test][1] = h
        BY <3>2
      <3> HIDE DEF held
      <3>4. CASE h.sequence < r.sequence
        <4>1. next[t] = <<r, FALSE>>
          <5>1. next = [latest EXCEPT ![r.test] = <<r, FALSE>>]
            <6>1. h.sequence # r.sequence
              BY <1>1, <3>3, <3>4
            <6> QED BY <3>7, <3>4, <6>1 DEF Track
          <5> HIDE DEF next
          <5> QED BY <1>1, <1>2, <5>1
        <4>2. Newest(r, T) /\ ~Contradicted(r, T)
          BY <1>1, <3>1, <3>3, <3>4 DEF Newest, Contradicted
        <4> QED BY <4>1, <4>2
      <3>5. CASE h.sequence = r.sequence /\ Payload(h) # Payload(r)
        <4>1. next[t] = <<h, TRUE>>
          <5>1. ~(h.sequence < r.sequence)
            BY <1>1, <3>3, <3>5
          <5>2. next = [latest EXCEPT ![r.test] = <<h, TRUE>>]
            BY <3>7, <3>5, <5>1 DEF Track
          <5> HIDE DEF next
          <5> QED BY <1>1, <1>2, <5>2
        <4>2. Newest(h, T) /\ Contradicted(h, T)
          BY <1>1, <3>1, <3>3, <3>5 DEF Newest, Contradicted
        <4> QED BY <3>1, <4>1, <4>2
      <3>6. CASE ~(h.sequence < r.sequence) /\ ~(h.sequence = r.sequence /\ Payload(h) # Payload(r))
        <4>1. next[t] = held
          BY <3>7, <3>6 DEF Track, held
        <4>2. Newest(h, T) /\ (Contradicted(h, T) <=> Contradicted(h, S))
          BY <1>1, <3>1, <3>3, <3>6 DEF Newest, Contradicted
        <4> HIDE DEF next
        <4> QED BY <3>1, <4>1, <4>2
      <3> QED BY <3>4, <3>5, <3>6
    <2> QED BY <1>1, <2>1, <2>2 DEF Knows
  <1> HIDE DEF next, T, t
  <1>6. Knows(next, T)
    BY <1>3, <1>4, <1>5 DEF Knows
  <1> QED BY <1>6 DEF next, T

\* At the end the loop knows all visits: the first place at which it did not would
\* come after one at which it did.
LEMMA LoopKnows ==
  ASSUME NEW visits, IsEvidence(visits)
  PROVE  Knows(LatestByTest(visits), visits)
  <1> DEFINE last == EndOf(visits)
             f == CHOOSE f : IsLoop(f, visits, last)
             Upto(n) == {r \in visits : r.at <= n}
             Bad == {n \in 0 .. last : ~Knows(f[n], Upto(n))}
             m == Min(Bad)
  <1>1. LatestByTest(visits) = f[last]
    BY DEF LatestByTest, IsLoop, EndOf, Unseen
  <1>2. last \in Nat /\ \A r \in visits : r.at \in 1 .. last
    BY LastPlace
  <1>3. IsLoop(f, visits, last)
    BY <1>2, LoopExists
  <1> HIDE DEF f, last
  <1>4. Bad = {}
    <2> SUFFICES ASSUME Bad # {} PROVE FALSE
      OBVIOUS
    <2>1. m \in Bad /\ \A n \in Bad : m <= n
      <3>1. Bad \subseteq Nat
        BY <1>2
      <3> HIDE DEF Bad
      <3> QED BY <3>1, LeastNumber
    <2> HIDE DEF m
    <2>2. m \in 0 .. last /\ ~Knows(f[m], Upto(m))
      BY <2>1
    <2>3. f[m] = IF m = 0 THEN Unseen ELSE Visited(visits, f[m - 1], m)
      BY <1>2, <1>3, <2>2 DEF IsLoop
    <2>4. CASE m = 0
      <3>1. Upto(0) = {}
        BY <1>2
      <3>2. Knows(Unseen, {})
        BY DEF Knows, Unseen
      <3> QED BY <2>2, <2>3, <2>4, <3>1, <3>2
    <2>5. CASE m # 0
      <3>1. m - 1 \in 0 .. last /\ m - 1 \notin Bad
        BY <1>2, <2>1, <2>2, <2>5
      <3>2. Knows(f[m - 1], Upto(m - 1))
        BY <3>1
      <3>3. CASE \E r \in visits : r.at = m
        <4> DEFINE r == CHOOSE r \in visits : r.at = m
        <4>1. r \in visits /\ r.at = m
          BY <3>3
        <4>2. f[m] = Track(f[m - 1], r)
          BY <2>3, <2>5, <3>3 DEF Visited
        <4> HIDE DEF r
        <4>3. Upto(m) = Upto(m - 1) \cup {r}
          <5>1. \A q \in visits : q.at = m => q = r
            BY <4>1 DEF IsEvidence
          <5> QED BY <1>2, <2>2, <4>1, <5>1
        <4>4. Upto(m - 1) \subseteq visits
          OBVIOUS
        <4> HIDE DEF Upto
        <4> QED BY <2>2, <3>2, <4>1, <4>2, <4>3, <4>4, TrackKnows
      <3>4. CASE ~\E r \in visits : r.at = m
        <4>1. f[m] = f[m - 1]
          BY <2>3, <2>5, <3>4 DEF Visited
        <4>2. Upto(m) = Upto(m - 1)
          BY <1>2, <2>2, <3>4
        <4> QED BY <2>2, <3>2, <4>1, <4>2
      <3> QED BY <3>3, <3>4
    <2> QED BY <2>4, <2>5
  <1>5. Upto(last) = visits
    BY <1>2
  <1>6. Knows(f[last], Upto(last))
    BY <1>2, <1>4
  <1> QED BY <1>1, <1>5, <1>6

\* A visit that proves the page: none of its test is newer or says otherwise.
PageProof(h, visits) ==
    h \in visits /\ Newest(h, visits) /\ ~Contradicted(h, visits) /\ h.settled /\ h.clean

\* The grade of a page does not depend on the order of the records.
LEMMA PageGrade ==
  ASSUME NEW ev, IsEvidence(ev)
  PROVE  LET V == Observations(ev)
             grade == GradePageObligation(ev)
         IN /\ grade.status = IF \E h \in V : PageProof(h, V) THEN "satisfied"
                              ELSE IF V # {} THEN "invalid" ELSE "missing"
            /\ (\E h \in V : PageProof(h, V)) =>
                  \E h \in V : PageProof(h, V) /\ grade = Outcome("satisfied", {h.id})
  <1> DEFINE V == Observations(ev)
             latest == LatestByTest(V)
             seen == {t \in Tests : latest[t] # << >>}
             clean == {t \in seen : ~latest[t][2] /\ latest[t][1].settled /\ latest[t][1].clean}
             grade == GradePageObligation(ev)
  <1>1. V \subseteq ev /\ IsEvidence(V)
    <2>1. V \subseteq ev
      BY DEF Observations
    <2> QED BY <2>1, PartOfEvidence
  <1>2. Knows(latest, V)
    BY <1>1, LoopKnows
  <1>3. grade = IF clean # {} THEN Outcome("satisfied", {latest[Min(clean)][1].id})
                ELSE IF seen # {} THEN Outcome("invalid", {latest[Min(seen)][1].id})
                ELSE Outcome("missing", {})
    BY DEF GradePageObligation
  <1> HIDE DEF latest, V, grade
  <1>4. \A r \in V : r.test \in Tests /\ r.sequence \in Nat
    BY <1>1 DEF IsEvidence
  <1>5. \A h : <<h, TRUE>> # << >> /\ <<h, FALSE>> # << >>
    OBVIOUS
  <1>6. seen # {} <=> V # {}
    <2>1. ASSUME NEW r \in V PROVE latest[r.test] # << >>
      <3>1. r.test \in Tests
        BY <1>4
      <3>2. PICK h \in V :
               latest[r.test] = IF Contradicted(h, V) THEN <<h, TRUE>> ELSE <<h, FALSE>>
        BY <1>2, <3>1 DEF Knows
      <3> QED BY <1>5, <3>2
    <2>2. \A t \in Tests : latest[t] # << >> => V # {}
      BY <1>2 DEF Knows
    <2> QED BY <1>4, <2>1, <2>2
  <1>7. \A h : <<h, TRUE>>[2] = TRUE /\ <<h, FALSE>>[2] = FALSE
    OBVIOUS
  <1>8. ASSUME NEW t \in clean
        PROVE  \E h \in V : PageProof(h, V) /\ latest[t][1] = h
    <2>1. t \in Tests /\ latest[t] # << >>
      OBVIOUS
    <2>2. PICK h \in V : /\ h.test = t /\ Newest(h, V)
                         /\ latest[t] = IF Contradicted(h, V) THEN <<h, TRUE>> ELSE <<h, FALSE>>
      BY <1>2, <2>1 DEF Knows
    <2>3. latest[t][1] = h
      BY <2>2
    <2>4. ~Contradicted(h, V)
      <3> SUFFICES ASSUME Contradicted(h, V) PROVE FALSE
        OBVIOUS
      <3>1. latest[t] = <<h, TRUE>>
        BY <2>2
      <3>2. latest[t][2] = TRUE
        BY <1>7, <3>1
      <3>3. ~latest[t][2]
        OBVIOUS
      <3> QED BY <3>2, <3>3
    <2> QED BY <2>2, <2>3, <2>4 DEF PageProof
  <1>9. ASSUME NEW h \in V, PageProof(h, V)
        PROVE  h.test \in clean
    <2>1. h.test \in Tests /\ Newest(h, V) /\ ~Contradicted(h, V) /\ h.settled /\ h.clean
      BY <1>4, <1>9 DEF PageProof
    <2>2. PICK g \in V : /\ g.test = h.test /\ Newest(g, V)
                         /\ latest[h.test] = IF Contradicted(g, V) THEN <<g, TRUE>> ELSE <<g, FALSE>>
      BY <1>2, <2>1 DEF Knows
    <2>3. g.sequence = h.sequence
      BY <1>4, <2>1, <2>2 DEF Newest
    <2>4. Payload(g) = Payload(h)
      BY <2>1, <2>2, <2>3 DEF Contradicted
    <2>5. ~Contradicted(g, V)
      BY <2>1, <2>2, <2>3, <2>4 DEF Contradicted
    <2>6. g.settled /\ g.clean
      BY <2>1, <2>4 DEF Payload
    <2>7. latest[h.test] = <<g, FALSE>>
      BY <2>2, <2>5
    <2>8. latest[h.test][2] = FALSE /\ latest[h.test][1] = g /\ latest[h.test] # << >>
      BY <1>5, <1>7, <2>7
    <2>9. ~latest[h.test][2]
      BY <2>8
    <2> QED BY <2>1, <2>6, <2>8, <2>9
  <1>10. clean # {} => Min(clean) \in clean
    <2>1. clean \subseteq Nat
      BY VerdictAssumption
    <2> HIDE DEF clean
    <2> QED BY <2>1, LeastNumber
  <1> HIDE DEF clean, seen
  <1>11. \A st, ids : Outcome(st, ids).status = st
    BY DEF Outcome
  <1>12. CASE clean # {}
    <2>1. PICK h \in V : PageProof(h, V) /\ latest[Min(clean)][1] = h
      BY <1>8, <1>10, <1>12
    <2>2. grade = Outcome("satisfied", {h.id})
      BY <1>3, <1>12, <2>1
    <2>3. grade.status = "satisfied"
      BY <2>2 DEF Outcome
    <2> QED BY <2>1, <2>2, <2>3 DEF grade, V
  <1>13. CASE clean = {}
    <2>1. ~\E h \in V : PageProof(h, V)
      BY <1>9, <1>13
    <2>2. grade.status = IF V # {} THEN "invalid" ELSE "missing"
      BY <1>3, <1>6, <1>13 DEF Outcome
    <2> QED BY <2>1, <2>2 DEF grade, V
  <1> QED BY <1>12, <1>13

\* A page verdict is proved by the visit it cites.
LEMMA PageCites ==
  ASSUME NEW ev, IsEvidence(ev), GradePageObligation(ev).status = "satisfied"
  PROVE  \E C \in SUBSET ev : /\ GradePageObligation(ev).ids = Ids(C)
                              /\ GradePageObligation(C).status = "satisfied"
  <1> DEFINE V == Observations(ev)
  <1>1. PICK h \in V : PageProof(h, V) /\ GradePageObligation(ev) = Outcome("satisfied", {h.id})
    BY PageGrade
  <1> DEFINE C == {h}
  <1>2. C \subseteq ev /\ Observations(C) = {h}
    BY DEF Observations
  <1>3. GradePageObligation(ev).ids = Ids(C)
    BY <1>1 DEF Outcome, Ids
  <1>4. IsEvidence(C)
    BY <1>2, PartOfEvidence
  <1>5. PageProof(h, {h})
    BY <1>1, <1>4 DEF PageProof, Newest, Contradicted, IsEvidence
  <1>6. GradePageObligation(C).status = "satisfied"
    BY <1>2, <1>4, <1>5, PageGrade
  <1> QED BY <1>2, <1>3, <1>6

\* A record that is not the witness's changes no page verdict.
LEMMA PageUnwitnessed ==
  ASSUME NEW ev, NEW r, IsEvidence(ev \cup {r}), ~Witnessed(r)
  PROVE  GradePageObligation(ev \cup {r}).status = GradePageObligation(ev).status
  <1>1. Observations(ev \cup {r}) = Observations(ev)
    BY DEF Observations
  <1>2. IsEvidence(ev)
    BY PartOfEvidence
  <1> QED BY <1>1, <1>2, PageGrade

----------------------------------------------------------------------------
(* The alembic lane.                                                       *)

\* The passing records of the engine's own execution.
AlembicPassing(ev) == {r \in OfKind(ev, "alembic.witness") : Witnessed(r) /\ r.clean}

\* The alembic lane is satisfied by a passing record of the engine's, and cites the
\* first.
LEMMA AlembicGrade ==
  ASSUME NEW ev
  PROVE  /\ GradeAlembicObligation(ev).status = "satisfied" <=> AlembicPassing(ev) # {}
         /\ AlembicPassing(ev) # {} =>
              GradeAlembicObligation(ev) = Outcome("satisfied", {First(AlembicPassing(ev)).id})
  <1>1. {r \in {q \in OfKind(ev, "alembic.witness") : Witnessed(q)} : r.clean} = AlembicPassing(ev)
    BY DEF AlembicPassing
  <1>2. CASE AlembicPassing(ev) # {}
    <2>1. GradeAlembicObligation(ev) = Outcome("satisfied", {First(AlembicPassing(ev)).id})
      BY <1>1, <1>2 DEF GradeAlembicObligation
    <2> QED BY <1>2, <2>1 DEF Outcome
  <1>3. CASE AlembicPassing(ev) = {}
    BY <1>1, <1>3 DEF GradeAlembicObligation, Outcome
  <1> QED BY <1>2, <1>3

\* The record the alembic lane cites satisfies it by itself.
LEMMA AlembicCites ==
  ASSUME NEW ev, IsEvidence(ev), GradeAlembicObligation(ev).status = "satisfied"
  PROVE  \E C \in SUBSET ev : /\ GradeAlembicObligation(ev).ids = Ids(C)
                              /\ GradeAlembicObligation(C).status = "satisfied"
  <1> DEFINE h == First(AlembicPassing(ev))
             C == {h}
  <1>1. AlembicPassing(ev) \subseteq ev
    BY DEF AlembicPassing, OfKind
  <1>2. h \in AlembicPassing(ev)
    BY <1>1, AlembicGrade, FirstExists, PartOfEvidence
  <1>3. GradeAlembicObligation(ev) = Outcome("satisfied", {h.id})
    BY AlembicGrade
  <1> HIDE DEF h
  <1>4. C \subseteq ev /\ GradeAlembicObligation(ev).ids = Ids(C)
    BY <1>1, <1>2, <1>3 DEF Outcome, Ids
  <1>5. AlembicPassing(C) # {}
    BY <1>2 DEF AlembicPassing, OfKind
  <1> QED BY <1>4, <1>5, AlembicGrade

----------------------------------------------------------------------------
(* The evaluation.                                                         *)

\* The lane of an obligation grades the records alone.
Lane(o, ev, declared) ==
    IF o.contract = "alembic" THEN GradeAlembicObligation(ev)
    ELSE IF o.contract = "page" THEN GradePageObligation(ev)
    ELSE Aggregate(ClaimOutcomes(o, ev, declared))

\* Whether a waiver can decide the obligation, and whether classification,
\* waivers and claims leave the verdict to the lane.
Waivable(o) ==
    \/ o.contract = "page"
    \/ o.contract # "alembic" /\ o.classification \notin {"none", "internal"}
LeftToLane(o, declared, ws, gone, t) ==
    \/ o.contract = "alembic"
    \/ /\ Waivable(o) /\ WaiverOutcome(ws, gone, t) = "silent"
       /\ o.contract = "page" \/ declared # {}

\* The records of a test.
Mine(ev, t) == {r \in ev : r.test = t}

\* What the verifier of a claim makes of the records of its test.
LEMMA ClaimGrade ==
  ASSUME NEW o, NEW ev, NEW declared
  PROVE  /\ DOMAIN ClaimOutcomes(o, ev, declared) = declared
         /\ \A t \in declared :
               /\ o.contract = "crud" =>
                    ClaimOutcomes(o, ev, declared)[t] = CrudClaimVerifier(o, Mine(ev, t))
               /\ o.contract = "persistence" =>
                    ClaimOutcomes(o, ev, declared)[t] = PersistenceClaimVerifier(o, Mine(ev, t))
               /\ o.contract \notin {"crud", "persistence"} =>
                    ClaimOutcomes(o, ev, declared)[t].status = "missing"
  BY DEF ClaimOutcomes, Mine, Outcome

\* The outcomes of the claims are in the order of the tests.
LEMMA ClaimsNumbered ==
  ASSUME NEW o, NEW ev, NEW declared, declared \subseteq Tests
  PROVE  DOMAIN ClaimOutcomes(o, ev, declared) \subseteq Nat
  BY VerdictAssumption DEF ClaimOutcomes

\* An obligation is satisfied exactly when it is left to its lane and the lane is
\* satisfied, with what the lane cites; and waived exactly when a waiver decides it.
LEMMA EvaluationGrade ==
  ASSUME NEW o, NEW ev, NEW declared, declared \subseteq Tests, NEW ws, NEW gone, NEW t
  PROVE  LET e == EvaluateObligation(o, ev, declared, ws, gone, t)
             lane == Lane(o, ev, declared)
         IN /\ e.status = "satisfied" <=>
                 LeftToLane(o, declared, ws, gone, t) /\ lane.status = "satisfied"
            /\ e.status = "satisfied" => e = lane
            /\ e.status = "waived" <=> Waivable(o) /\ WaiverOutcome(ws, gone, t) = "waived"
            /\ (o.contract = "page" /\ WaiverOutcome(ws, gone, t) = "silent") => e = lane
  <1> DEFINE e == EvaluateObligation(o, ev, declared, ws, gone, t)
             lane == Lane(o, ev, declared)
             waiver == WaiverOutcome(ws, gone, t)
  <1>1. \A st, ids : Outcome(st, ids).status = st
    BY DEF Outcome
  <1>2. waiver \in {"waived", "invalid", "stale", "silent"}
    BY DEF WaiverOutcome
  <1> HIDE DEF waiver
  <1>3. CASE o.contract = "alembic"
    <2>1. e = lane
      BY <1>3 DEF EvaluateObligation, Lane
    <2>2. lane.status # "waived"
      BY <1>3 DEF Lane, GradeAlembicObligation, Outcome
    <2> HIDE DEF e, lane
    <2> QED BY <1>3, <2>1, <2>2 DEF LeftToLane, Waivable, e, lane
  <1>4. CASE o.contract = "page"
    <2>1. e = IF waiver # "silent" THEN Outcome(waiver, {}) ELSE lane
      BY <1>4 DEF EvaluateObligation, Lane, waiver
    <2>2. lane.status # "waived"
      BY <1>4 DEF Lane, GradePageObligation, Outcome
    <2>3. (LeftToLane(o, declared, ws, gone, t) <=> waiver = "silent") /\ Waivable(o)
      BY <1>4 DEF LeftToLane, Waivable, waiver
    <2> HIDE DEF e, lane
    <2>5. CASE waiver = "silent"
      <3>1. e = lane
        BY <2>1, <2>5
      <3> QED BY <1>4, <2>2, <2>3, <2>5, <3>1 DEF e, lane, waiver
    <2>6. CASE waiver # "silent"
      <3>1. e.status = waiver
        BY <1>1, <2>1, <2>6
      <3> QED BY <1>2, <1>4, <2>3, <2>6, <3>1 DEF e, lane, waiver
    <2> QED BY <2>5, <2>6
  <1>5. CASE o.contract \notin {"alembic", "page"}
    <2>1. e = IF o.classification = "none" THEN Outcome("unclassified", {})
              ELSE IF o.classification = "internal" THEN Outcome("invalid", {})
              ELSE IF waiver # "silent" THEN Outcome(waiver, {})
              ELSE IF declared = {} THEN Outcome("missing", {})
              ELSE IF lane.status = "satisfied" THEN lane
              ELSE Outcome(lane.status, Ids(ev))
      BY <1>5 DEF EvaluateObligation, Lane, waiver
    <2>2. lane.status # "waived"
      <3>1. Aggregate(ClaimOutcomes(o, ev, declared)).status \in {"satisfied", "invalid", "missing"}
        <4>1. DOMAIN ClaimOutcomes(o, ev, declared) \subseteq Nat
          BY ClaimsNumbered
        <4> QED BY <4>1, SatisfiedAggregate
      <3> QED BY <1>5, <3>1 DEF Lane
    <2>3. LeftToLane(o, declared, ws, gone, t) <=>
             o.classification \notin {"none", "internal"} /\ waiver = "silent" /\ declared # {}
      BY <1>5 DEF LeftToLane, Waivable, waiver
    <2>8. Waivable(o) <=> o.classification \notin {"none", "internal"}
      BY <1>5 DEF Waivable
    <2> HIDE DEF e, lane
    <2>4. CASE o.classification \in {"none", "internal"}
      <3>1. e.status \in {"unclassified", "invalid"}
        BY <1>1, <2>1, <2>4
      <3> QED BY <1>5, <2>3, <2>8, <2>4, <3>1 DEF e, lane
    <2>5. CASE o.classification \notin {"none", "internal"} /\ waiver # "silent"
      <3>1. e.status = waiver
        BY <1>1, <2>1, <2>5
      <3> QED BY <1>2, <1>5, <2>3, <2>8, <2>5, <3>1 DEF e, lane, waiver
    <2>6. CASE o.classification \notin {"none", "internal"} /\ waiver = "silent" /\ declared = {}
      <3>1. e.status = "missing"
        BY <1>1, <2>1, <2>6
      <3> QED BY <1>5, <2>3, <2>8, <2>6, <3>1 DEF e, lane, waiver
    <2>7. CASE o.classification \notin {"none", "internal"} /\ waiver = "silent" /\ declared # {}
      <3>1. CASE lane.status = "satisfied"
        <4>1. e = lane
          BY <2>1, <2>7, <3>1
        <4> QED BY <1>5, <2>3, <2>8, <2>7, <3>1, <4>1 DEF e, lane, waiver
      <3>2. CASE lane.status # "satisfied"
        <4>1. e.status = lane.status
          BY <1>1, <2>1, <2>7, <3>2
        <4> QED BY <1>5, <2>2, <2>3, <2>8, <2>7, <3>2, <4>1 DEF e, lane, waiver
      <3> QED BY <3>1, <3>2
    <2> QED BY <2>4, <2>5, <2>6, <2>7
  <1> QED BY <1>3, <1>4, <1>5

\* The outcome of the claim lane is that of a satisfied claim, if there is one.
LEMMA ClaimLane ==
  ASSUME NEW o, NEW ev, NEW declared, declared \subseteq Tests,
         o.contract \notin {"alembic", "page"}
  PROVE  /\ (\E t \in declared : ClaimOutcomes(o, ev, declared)[t].status = "satisfied")
               => Lane(o, ev, declared).status = "satisfied"
         /\ Lane(o, ev, declared).status = "satisfied" =>
               /\ o.contract \in {"crud", "persistence"}
               /\ \E t \in declared :
                    /\ ClaimOutcomes(o, ev, declared)[t].status = "satisfied"
                    /\ Lane(o, ev, declared) = ClaimOutcomes(o, ev, declared)[t]
  <1> DEFINE outcomes == ClaimOutcomes(o, ev, declared)
  <1>1. DOMAIN outcomes = declared /\ DOMAIN outcomes \subseteq Nat
    BY ClaimsNumbered DEF ClaimOutcomes
  <1>2. Lane(o, ev, declared) = Aggregate(outcomes)
    BY DEF Lane
  <1>3. \A t \in declared : o.contract \notin {"crud", "persistence"} => outcomes[t].status = "missing"
    BY ClaimGrade
  <1> HIDE DEF outcomes
  <1>4. /\ (\E t \in declared : outcomes[t].status = "satisfied") => Aggregate(outcomes).status = "satisfied"
        /\ Aggregate(outcomes).status = "satisfied" =>
             \E t \in declared : outcomes[t].status = "satisfied" /\ Aggregate(outcomes) = outcomes[t]
    BY <1>1, SatisfiedAggregate
  <1>5. (\E t \in declared : outcomes[t].status = "satisfied") => o.contract \in {"crud", "persistence"}
    BY <1>3
  <1> QED BY <1>2, <1>4, <1>5 DEF outcomes

\* The records a lane cites satisfy it.
LEMMA LaneCites ==
  ASSUME NEW o, NEW ev, IsEvidence(ev), NEW declared, declared \subseteq Tests,
         Lane(o, ev, declared).status = "satisfied"
  PROVE  \E C \in SUBSET ev : /\ Lane(o, ev, declared).ids = Ids(C)
                              /\ Lane(o, C, declared).status = "satisfied"
  <1>1. CASE o.contract = "alembic"
    BY <1>1, AlembicCites DEF Lane
  <1>2. CASE o.contract = "page"
    BY <1>2, PageCites DEF Lane
  <1>3. CASE o.contract \notin {"alembic", "page"}
    <2>1. o.contract \in {"crud", "persistence"}
      BY <1>3, ClaimLane
    <2>2. PICK t \in declared :
             /\ ClaimOutcomes(o, ev, declared)[t].status = "satisfied"
             /\ Lane(o, ev, declared) = ClaimOutcomes(o, ev, declared)[t]
      BY <1>3, ClaimLane
    <2>3. Mine(ev, t) \subseteq ev /\ IsEvidence(Mine(ev, t))
      <3>1. Mine(ev, t) \subseteq ev
        BY DEF Mine
      <3> QED BY <3>1, PartOfEvidence
    <2>4. PICK C \in SUBSET Mine(ev, t) :
             /\ ClaimOutcomes(o, ev, declared)[t].ids = Ids(C)
             /\ o.contract = "crud" => CrudClaimVerifier(o, C).status = "satisfied"
             /\ o.contract = "persistence" => PersistenceClaimVerifier(o, C).status = "satisfied"
      <3>1. CASE o.contract = "crud"
        <4>1. ClaimOutcomes(o, ev, declared)[t] = CrudClaimVerifier(o, Mine(ev, t))
          BY <3>1, ClaimGrade
        <4>2. PICK a, x, v, p \in Mine(ev, t) : CrudProof(o, Mine(ev, t), a, x, v, p)
          BY <2>2, <2>3, <4>1, CrudCites
        <4>3. {a, x, v, p} \in SUBSET Mine(ev, t)
          OBVIOUS
        <4> QED BY <3>1, <4>1, <4>2, <4>3 DEF CrudProof
      <3>2. CASE o.contract = "persistence"
        <4>1. ClaimOutcomes(o, ev, declared)[t] = PersistenceClaimVerifier(o, Mine(ev, t))
          BY <3>2, ClaimGrade
        <4> QED BY <2>2, <2>3, <3>2, <4>1, PersistenceCites
      <3> QED BY <2>1, <3>1, <3>2
    <2>5. Mine(C, t) = C /\ C \subseteq ev
      BY <2>3 DEF Mine
    <2>6. ClaimOutcomes(o, C, declared)[t].status = "satisfied"
      BY <2>1, <2>4, <2>5, ClaimGrade
    <2>7. Lane(o, C, declared).status = "satisfied"
      BY <1>3, <2>6, ClaimLane
    <2> QED BY <2>2, <2>4, <2>5, <2>7
  <1> QED BY <1>1, <1>2, <1>3

\* A later record that is not the witness's satisfies no lane, unless it is the
\* action of a persistence claim.
LEMMA LaneUnwitnessed ==
  ASSUME NEW o, NEW ev, NEW r, IsEvidence(ev \cup {r}), \A q \in ev : q.at < r.at,
         NEW declared, declared \subseteq Tests,
         ~Witnessed(r), ~(o.contract = "persistence" /\ r.kind = "ui.action"),
         Lane(o, ev \cup {r}, declared).status = "satisfied"
  PROVE  Lane(o, ev, declared).status = "satisfied"
  <1> DEFINE more == ev \cup {r}
  <1>1. CASE o.contract = "alembic"
    <2>1. AlembicPassing(more) = AlembicPassing(ev)
      BY DEF AlembicPassing, OfKind
    <2> QED BY <1>1, <2>1, AlembicGrade DEF Lane
  <1>2. CASE o.contract = "page"
    BY <1>2, PageUnwitnessed DEF Lane
  <1>3. CASE o.contract \notin {"alembic", "page"}
    <2>1. o.contract \in {"crud", "persistence"}
      BY <1>3, ClaimLane
    <2>2. PICK t \in declared : ClaimOutcomes(o, more, declared)[t].status = "satisfied"
      BY <1>3, ClaimLane
    <2>3. Mine(more, t) = Mine(ev, t) \/ Mine(more, t) = Mine(ev, t) \cup {r}
      BY DEF Mine
    <2>4. Mine(ev, t) \subseteq ev /\ Mine(ev, t) \cup {r} \subseteq more
      BY DEF Mine
    <2>5. IsEvidence(Mine(ev, t) \cup {r}) /\ \A q \in Mine(ev, t) : q.at < r.at
      BY <2>4, PartOfEvidence
    <2>6. o.contract = "crud" => CrudClaimVerifier(o, Mine(ev, t)).status = "satisfied"
      <3> SUFFICES ASSUME o.contract = "crud"
                   PROVE  CrudClaimVerifier(o, Mine(ev, t)).status = "satisfied"
        OBVIOUS
      <3>1. CrudClaimVerifier(o, Mine(more, t)).status = "satisfied"
        BY <2>2, ClaimGrade
      <3> QED BY <2>3, <2>5, <3>1, CrudUnwitnessed
    <2>7. o.contract = "persistence" => PersistenceClaimVerifier(o, Mine(ev, t)).status = "satisfied"
      <3> SUFFICES ASSUME o.contract = "persistence"
                   PROVE  PersistenceClaimVerifier(o, Mine(ev, t)).status = "satisfied"
        OBVIOUS
      <3>1. PersistenceClaimVerifier(o, Mine(more, t)).status = "satisfied"
        BY <2>2, ClaimGrade
      <3> QED BY <2>3, <2>5, <3>1, PersistenceUnwitnessed
    <2>8. ClaimOutcomes(o, ev, declared)[t].status = "satisfied"
      BY <2>1, <2>6, <2>7, ClaimGrade
    <2> QED BY <1>3, <2>8, ClaimLane
  <1> QED BY <1>1, <1>2, <1>3

----------------------------------------------------------------------------
(* The specification.                                                      *)

\* Time and the loss of owners take waivers away and give none.
LEMMA WaiversOnlyFade ==
  ASSUME NEW ws \in SUBSET [owner : Owners, expires : Instants],
         NEW gone, NEW gone2, gone \subseteq gone2, NEW t \in Nat, NEW t2 \in Nat, t <= t2
  PROVE  /\ WaiverOutcome(ws, gone2, t2) = "waived" => WaiverOutcome(ws, gone, t) = "waived"
         /\ WaiverOutcome(ws, gone2, t2) = "silent" => WaiverOutcome(ws, gone, t) = "silent"
  <1>1. \A w \in ws : w.expires \in Nat
    BY VerdictAssumption
  <1>2. \A w \in ws : Live(w, gone2, t2) => Live(w, gone, t)
    BY <1>1 DEF Live
  <1> QED BY <1>2 DEF WaiverOutcome

\* The records of the ledger are of the inputs the program can have, and the
\* verdict is the one on the inputs as they are.
VerdictInv ==
    /\ obligation \in Obligations
    /\ ledger \in Seq(DOMAIN Issuable[obligation]) /\ IsInjective(ledger)
    /\ claims \subseteq Tests
    /\ waivers \subseteq [owner : Owners, expires : Instants]
    /\ now \in Nat
    /\ verdict = EvaluateObligation(obligation, Evidence, claims, waivers, stale, now)

\* A record of the ledger, as it was issued.
RecordAt(label, i) == [Issuable[obligation][label] EXCEPT !.at = i]

\* A record of the ledger has the label and the place it was issued with.
LEMMA RecordFields ==
  ASSUME obligation \in Obligations, NEW label \in DOMAIN Issuable[obligation], NEW i \in Nat
  PROVE  LET r == RecordAt(label, i)
         IN /\ r.id = label /\ r.at = i /\ label \in Nat
            /\ r.test \in Tests /\ {r.session, r.sequence} \subseteq Nat
  BY VerdictAssumption DEF RecordAt

\* The records of a ledger without repetition are evidence.
LEMMA LedgerIsEvidence ==
  ASSUME obligation \in Obligations,
         NEW labels \in Seq(DOMAIN Issuable[obligation]), IsInjective(labels)
  PROVE  IsEvidence(Records(labels))
  <1>1. Len(labels) \in Nat /\ DOMAIN labels = 1 .. Len(labels)
    OBVIOUS
  <1>2. \A r \in Records(labels) : \E i \in 1 .. Len(labels) : r = RecordAt(labels[i], i)
    BY <1>1 DEF Records, RecordAt
  <1>3. \A i \in 1 .. Len(labels) : i \in Nat \ {0} /\ labels[i] \in DOMAIN Issuable[obligation]
    BY <1>1
  <1>4. \A r \in Records(labels) : /\ {r.id, r.session, r.sequence} \subseteq Nat
                                   /\ r.at \in Nat \ {0} /\ r.test \in Tests
                                   /\ r.at <= Len(labels)
    <2> TAKE r \in Records(labels)
    <2>1. PICK i \in 1 .. Len(labels) : r = RecordAt(labels[i], i)
      BY <1>2
    <2> QED BY <1>1, <1>3, <2>1, RecordFields
  <1>5. \A q, r \in Records(labels) : (q.id = r.id \/ q.at = r.at) => q = r
    <2> TAKE q \in Records(labels), r \in Records(labels)
    <2>1. PICK i \in 1 .. Len(labels) : q = RecordAt(labels[i], i)
      BY <1>2
    <2>2. PICK j \in 1 .. Len(labels) : r = RecordAt(labels[j], j)
      BY <1>2
    <2>3. q.id = labels[i] /\ q.at = i /\ r.id = labels[j] /\ r.at = j
      BY <1>3, <2>1, <2>2, RecordFields
    <2>4. labels[i] = labels[j] => i = j
      BY <1>1 DEF IsInjective
    <2> QED BY <2>1, <2>2, <2>3, <2>4
  <1> QED BY <1>1, <1>4, <1>5 DEF IsEvidence

\* A new record is the last.
LEMMA IssuedLast ==
  ASSUME obligation \in Obligations,
         NEW labels \in Seq(DOMAIN Issuable[obligation]), IsInjective(labels),
         NEW label \in DOMAIN Issuable[obligation], label \notin ToSet(labels)
  PROVE  LET r == RecordAt(label, Len(labels) + 1)
         IN /\ Append(labels, label) \in Seq(DOMAIN Issuable[obligation])
            /\ IsInjective(Append(labels, label))
            /\ Records(Append(labels, label)) = Records(labels) \cup {r}
            /\ \A q \in Records(labels) : q.at < r.at
  <1> DEFINE n == Len(labels)
             more == Append(labels, label)
             r == RecordAt(label, n + 1)
  <1>1. n \in Nat /\ DOMAIN labels = 1 .. n
    OBVIOUS
  <1>2. more \in Seq(DOMAIN Issuable[obligation]) /\ DOMAIN more = 1 .. (n + 1)
    OBVIOUS
  <1>3. \A i \in 1 .. n : more[i] = labels[i]
    OBVIOUS
  <1>4. more[n + 1] = label
    OBVIOUS
  <1> HIDE DEF n, more
  <1>5. IsInjective(more)
    <2>1. \A i \in 1 .. n : labels[i] # label
      BY <1>1 DEF ToSet
    <2>2. \A i \in 1 .. (n + 1) : i \in 1 .. n \/ i = n + 1
      BY <1>1
    <2> QED BY <1>1, <1>2, <1>3, <1>4, <2>1, <2>2 DEF IsInjective
  <1>6. Records(more) = Records(labels) \cup {r}
    <2>1. Records(more) = {RecordAt(more[i], i) : i \in 1 .. (n + 1)}
      BY <1>2 DEF Records, RecordAt
    <2>2. Records(labels) = {RecordAt(labels[i], i) : i \in 1 .. n}
      BY <1>1 DEF Records, RecordAt
    <2>3. \A i \in 1 .. n : RecordAt(more[i], i) = RecordAt(labels[i], i)
      BY <1>3
    <2>4. RecordAt(more[n + 1], n + 1) = r
      BY <1>4 DEF r
    <2>5. 1 .. (n + 1) = (1 .. n) \cup {n + 1}
      BY <1>1
    <2> QED BY <2>1, <2>2, <2>3, <2>4, <2>5
  <1>7. \A q \in Records(labels) : q.at < r.at
    <2> TAKE q \in Records(labels)
    <2>1. PICK i \in 1 .. n : q = RecordAt(labels[i], i)
      BY <1>1 DEF Records, RecordAt
    <2>2. labels[i] \in DOMAIN Issuable[obligation]
      BY <1>1
    <2>3. q.at = i
      BY <1>1, <2>1, <2>2, RecordFields
    <2>4. r.at = n + 1
      BY <1>1, RecordFields DEF r
    <2> QED BY <1>1, <2>3, <2>4
  <1> QED BY <1>2, <1>5, <1>6, <1>7 DEF n, more

\* The empty ledger is without repetition.
LEMMA InvInit == Init => VerdictInv
  <1> SUFFICES ASSUME Init PROVE VerdictInv
    OBVIOUS
  <1>1. << >> \in Seq(DOMAIN Issuable[obligation]) /\ IsInjective(<< >>)
    BY DEF IsInjective
  <1> QED BY <1>1 DEF Init, VerdictInv, Evaluate

\* Every step leaves the inputs of the kind they were, the ledger without repetition
\* and the verdict up to date.
LEMMA InvNext ==
  ASSUME VerdictInv, [Next]_vars
  PROVE  VerdictInv'
  <1>1. ASSUME NEW r \in DOMAIN Issuable[obligation], Issue(r)
        PROVE  VerdictInv'
    <2>1. ledger' \in Seq(DOMAIN Issuable[obligation]) /\ IsInjective(ledger')
      BY <1>1, IssuedLast DEF VerdictInv, Issue
    <2>2. Records(ledger') = Evidence'
      BY <1>1 DEF Evidence, Issue, Records
    <2> QED BY <1>1, <2>1, <2>2 DEF VerdictInv, Issue, Evaluate
  <1> SUFFICES ASSUME obligation' = obligation, ledger' = ledger, [Next]_vars,
                      ~(\E r \in DOMAIN Issuable[obligation] : Issue(r))
               PROVE  VerdictInv'
    BY <1>1 DEF Next, vars, Declare, Waive, Revoke, OwnerLeaves, Tick
  <1>2. Evidence' = Evidence
    BY DEF Evidence, Records
  <1>3. ASSUME NEW t \in Tests, Declare(t)
        PROVE  VerdictInv'
    BY <1>2, <1>3 DEF VerdictInv, Declare, Evaluate
  <1>4. ASSUME NEW w \in [owner : Owners, expires : Instants], Waive(w)
        PROVE  VerdictInv'
    BY <1>2, <1>4 DEF VerdictInv, Waive, Evaluate
  <1>5. ASSUME NEW w \in [owner : Owners, expires : Instants], Revoke(w)
        PROVE  VerdictInv'
    BY <1>2, <1>5 DEF VerdictInv, Revoke, Evaluate
  <1>6. ASSUME NEW p \in Owners, OwnerLeaves(p)
        PROVE  VerdictInv'
    BY <1>2, <1>6 DEF VerdictInv, OwnerLeaves, Evaluate
  <1>7. ASSUME Tick
        PROVE  VerdictInv'
    BY <1>2, <1>7 DEF VerdictInv, Tick, Evaluate
  <1>8. ASSUME UNCHANGED vars
        PROVE  VerdictInv'
    BY <1>2, <1>8 DEF VerdictInv, vars
  <1> QED BY <1>3, <1>4, <1>5, <1>6, <1>7, <1>8 DEF Next

\* The ledger never repeats a record, and the verdict is always the one that
\* evaluateObligation gives on the inputs as they are.
THEOREM VerdictIsOfTheInputs == Spec => []VerdictInv
  BY InvInit, InvNext, PTL DEF Spec

\* A satisfied verdict is that of the lane.
LEMMA SatisfiedByLane ==
  ASSUME VerdictInv, verdict.status = "satisfied"
  PROVE  /\ IsEvidence(Evidence) /\ claims \subseteq Tests
         /\ LeftToLane(obligation, claims, waivers, stale, now)
         /\ verdict = Lane(obligation, Evidence, claims)
  <1>1. claims \subseteq Tests
    BY DEF VerdictInv
  <1>2. IsEvidence(Evidence)
    BY LedgerIsEvidence DEF VerdictInv, Evidence
  <1>3. verdict = EvaluateObligation(obligation, Evidence, claims, waivers, stale, now)
    BY DEF VerdictInv
  <1> QED BY <1>1, <1>2, <1>3, EvaluationGrade

\* evaluateObligation cites a proof: the records a satisfied verdict names satisfy
\* the obligation without the rest of the ledger, on every lane.
THEOREM CitedRecordsAlwaysProve == Spec => []CitedRecordsProve
  <1>1. ASSUME VerdictInv
        PROVE  CitedRecordsProve
    <2> SUFFICES ASSUME verdict.status = "satisfied"
                 PROVE  EvaluateObligation(obligation, {r \in Evidence : r.id \in verdict.ids},
                                           claims, waivers, stale, now).status = "satisfied"
      BY DEF CitedRecordsProve, Evaluate
    <2>1. /\ IsEvidence(Evidence) /\ claims \subseteq Tests
          /\ LeftToLane(obligation, claims, waivers, stale, now)
          /\ verdict = Lane(obligation, Evidence, claims)
      BY <1>1, SatisfiedByLane
    <2>2. PICK C \in SUBSET Evidence : /\ Lane(obligation, Evidence, claims).ids = Ids(C)
                                       /\ Lane(obligation, C, claims).status = "satisfied"
      BY <2>1, LaneCites
    <2>3. {r \in Evidence : r.id \in verdict.ids} = C
      BY <2>1, <2>2, Citing
    <2>4. EvaluateObligation(obligation, C, claims, waivers, stale, now).status = "satisfied"
      BY <2>1, <2>2, EvaluationGrade
    <2> QED BY <2>3, <2>4
  <1> QED BY <1>1, VerdictIsOfTheInputs, PTL

\* A satisfied crud obligation stands on a witnessed action, exchange, visible result
\* and read of one session, one test and one entity (gradeCrudSession).
THEOREM OneSessionAlwaysProves == Spec => []OneSessionProves
  <1>1. ASSUME VerdictInv
        PROVE  OneSessionProves
    <2> DEFINE cited == {r \in Evidence : r.id \in verdict.ids}
    <2> SUFFICES ASSUME obligation.contract = "crud", verdict.status = "satisfied"
                 PROVE  /\ \E t \in claims : \E a \in cited :
                             \A r \in cited : r.test = t /\ r.session = a.session /\ a.kind = "ui.action"
                        /\ {r.kind : r \in cited} \in
                             {{"ui.action", "http.request", "ui.visible-result", k} :
                                 k \in {"persistence.entity", "persistence.observed"}}
                        /\ \A r \in cited : Witnessed(r)
                        /\ \A q, r \in cited : (q.kind # "http.request" /\ r.kind # "http.request")
                                                 => q.entity = r.entity
      BY DEF OneSessionProves
    <2>1. /\ IsEvidence(Evidence) /\ claims \subseteq Tests
          /\ verdict = Lane(obligation, Evidence, claims)
      BY <1>1, SatisfiedByLane
    <2>2. PICK t \in claims : verdict = ClaimOutcomes(obligation, Evidence, claims)[t]
      BY <2>1, ClaimLane
    <2> DEFINE ev == Mine(Evidence, t)
    <2>3. verdict = CrudClaimVerifier(obligation, ev)
      BY <2>2, ClaimGrade
    <2>4. ev \subseteq Evidence /\ IsEvidence(ev) /\ \A r \in ev : r.test = t
      <3>1. ev \subseteq Evidence /\ \A r \in ev : r.test = t
        BY DEF Mine
      <3> QED BY <2>1, <3>1, PartOfEvidence
    <2> HIDE DEF ev
    <2>5. PICK a, x, v, p \in ev : CrudProof(obligation, ev, a, x, v, p)
      BY <2>3, <2>4, CrudCites
    <2> DEFINE C == {a, x, v, p}
    <2>6. /\ verdict.ids = Ids(C)
          /\ \A r \in C : Witnessed(r) /\ r.session = a.session
          /\ a.kind = "ui.action" /\ x.kind = "http.request" /\ v.kind = "ui.visible-result"
          /\ p.kind \in {"persistence.entity", "persistence.observed"}
          /\ v.entity = a.entity /\ p.entity = a.entity
      BY <2>3, <2>5 DEF CrudProof
    <2>7. C \subseteq ev /\ C \subseteq Evidence
      BY <2>4, <2>5
    <2>8. cited = C
      BY <2>1, <2>6, <2>7, Citing
    <2> HIDE DEF cited
    <2>9. \A r \in C : r.test = t
      BY <2>4, <2>7
    <2>10. {r.kind : r \in C} = {"ui.action", "http.request", "ui.visible-result", p.kind}
      BY <2>6
    <2> QED BY <2>6, <2>8, <2>9, <2>10
  <1> QED BY <1>1, VerdictIsOfTheInputs, PTL

\* gradePageObligation does not depend on the order of the ledger: whatever the order,
\* a page is proved by a test whose last visits agree and are clean.
THEOREM PageIsAlwaysByLatestVisit == Spec => []PageIsByLatestVisit
  <1>1. ASSUME VerdictInv
        PROVE  PageIsByLatestVisit
    <2> DEFINE seen == Observations(Evidence)
               NewestOf(t) == {r \in seen : r.test = t /\ \A q \in seen : q.test = t => q.sequence <= r.sequence}
               Proves(S) == /\ S # {}
                            /\ \A q, r \in S : Payload(q) = Payload(r)
                            /\ \A r \in S : r.settled /\ r.clean
    <2> SUFFICES ASSUME obligation.contract = "page", waivers = {}
                 PROVE  verdict.status = IF \E t \in Tests : Proves(NewestOf(t)) THEN "satisfied"
                                         ELSE IF seen # {} THEN "invalid" ELSE "missing"
      BY DEF PageIsByLatestVisit
    <2>1. IsEvidence(Evidence) /\ claims \subseteq Tests
      BY <1>1, LedgerIsEvidence DEF VerdictInv, Evidence
    <2>2. verdict = GradePageObligation(Evidence)
      <3>1. WaiverOutcome(waivers, stale, now) = "silent"
        BY DEF WaiverOutcome
      <3>2. verdict = EvaluateObligation(obligation, Evidence, claims, waivers, stale, now)
        BY <1>1 DEF VerdictInv
      <3> QED BY <2>1, <3>1, <3>2, EvaluationGrade DEF Lane
    <2>3. IsEvidence(seen)
      <3>1. seen \subseteq Evidence
        BY DEF Observations
      <3> QED BY <2>1, <3>1, PartOfEvidence
    <2>4. verdict.status = IF \E h \in seen : PageProof(h, seen) THEN "satisfied"
                           ELSE IF seen # {} THEN "invalid" ELSE "missing"
      BY <2>1, <2>2, PageGrade
    <2> HIDE DEF seen
    <2>5. (\E h \in seen : PageProof(h, seen)) <=> \E t \in Tests : Proves(NewestOf(t))
      <3>1. ASSUME NEW h \in seen, PageProof(h, seen)
            PROVE  \E t \in Tests : Proves(NewestOf(t))
        <4>1. h.test \in Tests /\ \A q \in seen : q.sequence \in Nat
          BY <2>3 DEF IsEvidence
        <4>2. h \in NewestOf(h.test)
          BY <3>1 DEF PageProof, Newest
        <4>3. \A q \in NewestOf(h.test) : q.sequence = h.sequence
          BY <4>1, <4>2
        <4>4. \A q \in NewestOf(h.test) : Payload(q) = Payload(h)
          BY <3>1, <4>3 DEF PageProof, Contradicted
        <4>5. \A q \in NewestOf(h.test) : q.settled /\ q.clean
          BY <3>1, <4>4 DEF PageProof, Payload
        <4> QED BY <4>1, <4>2, <4>4, <4>5
      <3>2. ASSUME NEW t \in Tests, Proves(NewestOf(t))
            PROVE  \E h \in seen : PageProof(h, seen)
        <4>1. PICK h \in NewestOf(t) : h.settled /\ h.clean
          BY <3>2
        <4>2. Newest(h, seen)
          BY <4>1 DEF Newest
        <4>3. ~Contradicted(h, seen)
          <5> SUFFICES ASSUME NEW q \in seen, q.test = h.test, q.sequence = h.sequence
                       PROVE  Payload(q) = Payload(h)
            BY DEF Contradicted
          <5>1. q \in NewestOf(t)
            BY <4>1
          <5> QED BY <3>2, <4>1, <5>1
        <4> QED BY <4>1, <4>2, <4>3 DEF PageProof
      <3> QED BY <3>1, <3>2
    <2> QED BY <2>4, <2>5
  <1> QED BY <1>1, VerdictIsOfTheInputs, PTL

\* No record that is not the witness's turns a blocking verdict into a clean one, except
\* an action of the suite in a persistence claim; nor does time or the loss of an owner.
THEOREM NothingElseEverUnblocks == Spec => NothingElseUnblocks
  <1> DEFINE Fine == (Clean(verdict') /\ ~Clean(verdict)) =>
                /\ now' = now /\ stale' = stale
                /\ \A r \in Evidence' \ Evidence :
                      Witnessed(r) \/ (obligation.contract = "persistence" /\ r.kind = "ui.action")
  <1>1. ASSUME VerdictInv, VerdictInv', [Next]_vars
        PROVE  Fine
    <2>1. ASSUME NEW label \in DOMAIN Issuable[obligation], Issue(label)
          PROVE  Fine
      <3> DEFINE r == RecordAt(label, Len(ledger) + 1)
      <3>1. /\ obligation \in Obligations /\ ledger \in Seq(DOMAIN Issuable[obligation])
            /\ IsInjective(ledger) /\ claims \subseteq Tests
            /\ verdict = EvaluateObligation(obligation, Evidence, claims, waivers, stale, now)
        BY <1>1 DEF VerdictInv
      <3>2. /\ label \notin ToSet(ledger) /\ ledger' = Append(ledger, label)
            /\ obligation' = obligation /\ now' = now /\ stale' = stale
            /\ verdict' = EvaluateObligation(obligation, Records(ledger'), claims, waivers, stale, now)
        BY <2>1 DEF Issue, Evaluate
      <3>3. /\ IsInjective(ledger') /\ ledger' \in Seq(DOMAIN Issuable[obligation])
            /\ Records(ledger') = Evidence \cup {r}
            /\ \A q \in Evidence : q.at < r.at
        BY <3>1, <3>2, IssuedLast DEF Evidence
      <3>4. IsEvidence(Evidence \cup {r})
        BY <3>1, <3>3, LedgerIsEvidence
      <3>5. Evidence' = Evidence \cup {r}
        BY <3>2, <3>3 DEF Evidence, Records
      <3> HIDE DEF r
      <3>6. SUFFICES ASSUME Clean(verdict'), ~Clean(verdict), ~Witnessed(r),
                            ~(obligation.contract = "persistence" /\ r.kind = "ui.action")
                     PROVE  FALSE
        BY <3>2, <3>5
      <3>7. verdict'.status # "waived"
        BY <3>1, <3>2, <3>6, EvaluationGrade DEF Clean
      <3>8. /\ LeftToLane(obligation, claims, waivers, stale, now)
            /\ Lane(obligation, Evidence \cup {r}, claims).status = "satisfied"
        <4>1. verdict' = EvaluateObligation(obligation, Evidence \cup {r}, claims, waivers, stale, now)
          BY <3>2, <3>3
        <4>2. EvaluateObligation(obligation, Evidence \cup {r}, claims, waivers, stale, now).status
                = "satisfied"
          BY <3>6, <3>7, <4>1 DEF Clean
        <4> QED BY <3>1, <4>2, EvaluationGrade
      <3>9. Lane(obligation, Evidence, claims).status = "satisfied"
        BY <3>1, <3>3, <3>4, <3>6, <3>8, LaneUnwitnessed
      <3> QED BY <3>1, <3>6, <3>8, <3>9, EvaluationGrade DEF Clean
    <2>2. ASSUME ledger' = ledger, obligation' = obligation, claims' = claims, waivers' = waivers,
                 stale \subseteq stale', now <= now'
          PROVE  Fine
      <3>1. Evidence' = Evidence
        BY <2>2 DEF Evidence, Records
      <3>2. /\ claims \subseteq Tests /\ now \in Nat /\ now' \in Nat
            /\ waivers \in SUBSET [owner : Owners, expires : Instants]
            /\ verdict = EvaluateObligation(obligation, Evidence, claims, waivers, stale, now)
            /\ verdict' = EvaluateObligation(obligation, Evidence, claims, waivers, stale', now')
        BY <1>1, <2>2, <3>1 DEF VerdictInv
      <3>3. /\ WaiverOutcome(waivers, stale', now') = "waived" => WaiverOutcome(waivers, stale, now) = "waived"
            /\ WaiverOutcome(waivers, stale', now') = "silent" => WaiverOutcome(waivers, stale, now) = "silent"
        BY <2>2, <3>2, WaiversOnlyFade
      <3>4. LeftToLane(obligation, claims, waivers, stale', now')
              => LeftToLane(obligation, claims, waivers, stale, now)
        BY <3>3 DEF LeftToLane
      <3>5. verdict'.status = "satisfied" => verdict.status = "satisfied"
        BY <3>2, <3>4, EvaluationGrade
      <3>6. verdict'.status = "waived" => verdict.status = "waived"
        BY <3>2, <3>3, EvaluationGrade
      <3> QED BY <3>5, <3>6 DEF Clean
    <2>3. ASSUME ledger' = ledger, obligation' = obligation, stale' = stale, now' = now
          PROVE  Fine
      <3>1. Evidence' = Evidence
        BY <2>3 DEF Evidence, Records
      <3> QED BY <2>3, <3>1
    <2>4. CASE Tick
      BY <1>1, <2>2, <2>4 DEF Tick, VerdictInv
    <2>5. ASSUME NEW p \in Owners, OwnerLeaves(p)
          PROVE  Fine
      BY <1>1, <2>2, <2>5 DEF OwnerLeaves, VerdictInv
    <2>6. ASSUME NEW t \in Tests, Declare(t)
          PROVE  Fine
      BY <2>3, <2>6 DEF Declare
    <2>7. ASSUME NEW w \in [owner : Owners, expires : Instants], Waive(w) \/ Revoke(w)
          PROVE  Fine
      BY <2>3, <2>7 DEF Waive, Revoke
    <2>8. CASE UNCHANGED vars
      BY <2>3, <2>8 DEF vars
    <2> HIDE DEF Fine
    <2> QED BY <1>1, <2>1, <2>4, <2>5, <2>6, <2>7, <2>8 DEF Next
  <1>2. VerdictInv /\ VerdictInv' /\ [Next]_vars => [Fine]_vars
    BY <1>1
  <1> QED BY <1>2, VerdictIsOfTheInputs, PTL DEF Spec, NothingElseUnblocks
=============================================================================

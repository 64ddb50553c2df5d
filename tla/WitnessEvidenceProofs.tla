------------------------ MODULE WitnessEvidenceProofs ------------------------
(***************************************************************************)
(* Proofs about WitnessEvidence, for any number of sessions, exchanges,    *)
(* intervals and closes: evidence is of the session it is recorded for,    *)
(* never older than the run context, and a transport record has seen what  *)
(* the persistence claims of its finalize used.                            *)
(***************************************************************************)
EXTENDS WitnessEvidence, FiniteSetTheorems, TLAPS

Completed(e) == phase[e] \in {"observed", "gone"}

\* Nothing is stamped ahead of the witness clock.
Clocked ==
    /\ \A e \in Exchanges : seqOf[e] <= seq /\ tickOf[e] <= tick
    /\ \A s \in Sessions : \A i \in 1..Len(intervals[s]) :
         intervals[s][i].start <= tick /\ intervals[s][i].end <= tick

\* Under a bound context an exchange that began before it is neither in
\* flight nor past the watermark.
OldIsBehind ==
    bound => \A e \in Exchanges :
               /\ phase[e] = "flying" => fresh[e]
               /\ phase[e] = "observed" /\ seqOf[e] > watermark => fresh[e]

\* Exchanges that evidence of s may rest on.
Creditable(s, exs) ==
    \A e \in exs : Completed(e) /\ owner[e] = s /\ (bound => fresh[e])

Credits ==
    /\ \A s \in Sessions : Creditable(s, finalize[s].match) /\ Creditable(s, finalize[s].snap)
    /\ \A r \in ledger : Creditable(r.s, r.exs)

\* The records of kind k of s.
RecordsOf(k, s) == {r \in ledger : r.kind = k /\ r.s = s}

\* A finalize that has a persistence claim to resolve: no such record yet,
\* what is still to be matched was in its snapshot if it was there when the
\* snapshot was taken, and a transport record is of that snapshot.
Walking(s) ==
    LET f == finalize[s]
    IN  /\ f.upto <= seq
        /\ \A p \in ledger : ~(p.kind = "persistence.observed" /\ p.s = s)
        /\ \A e \in Observed(s) : seqOf[e] <= f.upto => e \in f.snap
        /\ \A e \in f.match : seqOf[e] <= f.upto => e \in f.snap
        /\ \A r \in ledger : r.kind = "http.observed" /\ r.s = s =>
             r.exs = f.snap /\ r.n = f.upto

\* Where the finalize of a session stands, and what it has issued so far.
Finalizing ==
    \A s \in Sessions :
      /\ status[s] = "unborn" => ~finalize[s].begun
      /\ ~finalize[s].begun =>
           /\ finalize[s] = NotFinalizing
           /\ \A r \in ledger : ~(r.s = s /\ r.kind \in {"http.observed", "persistence.observed"})
      /\ "persistence" \in finalize[s].todo => finalize[s].begun /\ Walking(s)
      /\ "persistence" \notin finalize[s].todo => finalize[s].match = {}

RequestsWithin ==
    \A r \in ledger : \A e \in r.exs :
      r.kind = "http.request" => WithinInterval(r.s, tickOf[e])

OpenUndecided ==
    \A s \in Sessions : status[s] \in {"unborn", "open"} => outcome[s] = NULL

EvidenceInv ==
    /\ TypeOK /\ IsFiniteSet(ledger)
    /\ Clocked /\ IntervalsDisjoint /\ RequestsWithin
    /\ OldIsBehind /\ Credits
    /\ Finalizing /\ TransportSeesConsumed
    /\ OpenUndecided /\ ExchangesOfPassedOnly

----------------------------------------------------------------------------
(* What the steps have in common.                                          *)

FinalizeType ==
    [todo : SUBSET {"transport", "persistence"}, snap : SUBSET Exchanges,
     upto : Nat, match : SUBSET Exchanges, begun : BOOLEAN]

RecordType ==
    [kind : Kinds, s : Sessions, exs : SUBSET Exchanges, n : Nat, late : BOOLEAN]

\* The fields of a record as it is issued.
LEMMA RecordFields ==
    ASSUME TypeOK, NEW k \in Kinds, NEW s \in Sessions, NEW X \in SUBSET Exchanges, NEW n \in Nat
    PROVE  /\ Record(k, s, X, n) \in RecordType
           /\ Record(k, s, X, n).kind = k /\ Record(k, s, X, n).s = s
           /\ Record(k, s, X, n).exs = X /\ Record(k, s, X, n).n = n
  <1>1. (status[s] = "sealed") \in BOOLEAN
    OBVIOUS
  <1> QED
    BY <1>1 DEF Record, RecordType

\* A transport record of a finalize f of s.
LEMMA TransportFields ==
    ASSUME TypeOK, NEW s \in Sessions, NEW f \in FinalizeType
    PROVE  \A r \in TransportRecord(s, f) :
             r \in RecordType /\ r.kind = "http.observed" /\ r.s = s /\ r.exs = f.snap /\ r.n = f.upto
  <1>1. f.snap \in SUBSET Exchanges /\ f.upto \in Nat /\ "http.observed" \in Kinds
    BY DEF FinalizeType, Kinds
  <1> QED
    BY <1>1, RecordFields DEF TransportRecord

\* What the seal of s under outcome o adds.
LEMMA ExchangesFields ==
    ASSUME TypeOK, IsFiniteSet(ledger), NEW s \in Sessions, NEW o
    PROVE  \A r \in ExchangesRecord(s, o) :
             /\ r \in RecordType /\ r.kind = "http.exchanges" /\ r.s = s
             /\ r.exs = Observed(s) /\ o = "passed"
  <1>1. IsFiniteSet({r \in ledger : r.kind = "http.exchanges" /\ r.s = s})
    BY FS_Subset
  <1>2. ExchangesIssued(s) \in Nat
    BY <1>1, FS_CardinalityType DEF ExchangesIssued
  <1>3. Observed(s) \in SUBSET Exchanges /\ "http.exchanges" \in Kinds /\ ExchangesIssued(s) + 1 \in Nat
    BY <1>2 DEF Observed, Kinds
  <1> QED
    BY <1>3, RecordFields DEF ExchangesRecord

\* One handler issues finitely many records.
LEMMA FewRecords ==
    ASSUME NEW s, NEW f, NEW o
    PROVE  IsFiniteSet(TransportRecord(s, f)) /\ IsFiniteSet(ExchangesRecord(s, o))
  BY FS_Singleton, FS_EmptySet DEF TransportRecord, ExchangesRecord

\* The interval that is ended at t.
LEMMA EndAt ==
    ASSUME NEW x \in Interval, NEW t \in Nat
    PROVE  /\ [x EXCEPT !.end = t] \in Interval
           /\ [x EXCEPT !.end = t].start = x.start /\ [x EXCEPT !.end = t].end = t
  BY DEF Interval

\* openActionInterval: what becomes of the intervals of the session.
LEMMA Opened ==
    ASSUME TypeOK, NEW s \in Sessions, IntervalOpen(s)
    PROVE  \E n \in Nat :
             /\ tick' = tick + n + 1
             /\ intervals' \in [Sessions -> Seq(Interval)]
             /\ Len(intervals'[s]) = Len(intervals[s]) + 1
             /\ \A i \in 1..Len(intervals[s]) :
                  /\ intervals'[s][i].start = intervals[s][i].start
                  /\ intervals'[s][i].end = IF IsOpen(intervals[s][i]) THEN tick + 1
                                                                      ELSE intervals[s][i].end
                  /\ IsOpen(intervals[s][i]) => n >= 1
             /\ intervals'[s][Len(intervals[s]) + 1] = [start |-> tick + n + 1, end |-> 0]
             /\ \A t \in Sessions : t # s => intervals'[t] = intervals[t]
  <1> DEFINE open == {i \in 1..Len(intervals[s]) : IsOpen(intervals[s][i])}
             n == Cardinality(open)
             closed == [i \in 1..Len(intervals[s]) |->
                          IF IsOpen(intervals[s][i]) THEN [intervals[s][i] EXCEPT !.end = tick + 1]
                                                     ELSE intervals[s][i]]
             new == [start |-> tick + n + 1, end |-> 0]
  <1>1. IsFiniteSet(open)
    <2>1. IsFiniteSet(1..Len(intervals[s]))
      BY FS_Interval DEF TypeOK
    <2> QED
      BY <2>1, FS_Subset
  <1>2. n \in Nat
    BY <1>1, FS_CardinalityType
  <1>3. ASSUME NEW i \in open PROVE n >= 1
    <2>1. open # {}
      OBVIOUS
    <2>2. n # 0
      BY <1>1, <2>1, FS_EmptySet
    <2> QED
      BY <1>2, <2>2
  <1>4. /\ intervals \in [Sessions -> Seq(Interval)] /\ tick \in Nat
        /\ Len(intervals[s]) \in Nat
        /\ \A i \in 1..Len(intervals[s]) : intervals[s][i] \in Interval
    BY DEF TypeOK
  <1>5. /\ closed \in Seq(Interval) /\ Len(closed) = Len(intervals[s])
        /\ \A i \in 1..Len(intervals[s]) :
             /\ closed[i].start = intervals[s][i].start
             /\ closed[i].end = IF IsOpen(intervals[s][i]) THEN tick + 1 ELSE intervals[s][i].end
    <2>1. ASSUME NEW i \in 1..Len(intervals[s]) PROVE closed[i] \in Interval
      <3>1. intervals[s][i] \in Interval /\ tick + 1 \in Nat
        BY <1>4
      <3>2. [intervals[s][i] EXCEPT !.end = tick + 1] \in Interval
        BY <3>1, EndAt, Zenon
      <3> QED
        BY <3>1, <3>2
    <2>2. closed \in [1..Len(intervals[s]) -> Interval]
      BY <2>1
    <2>3. closed \in Seq(Interval) /\ Len(closed) = Len(intervals[s])
      BY <1>4, <2>2
    <2>4. ASSUME NEW i \in 1..Len(intervals[s])
          PROVE  /\ closed[i].start = intervals[s][i].start
                 /\ closed[i].end = IF IsOpen(intervals[s][i]) THEN tick + 1 ELSE intervals[s][i].end
      BY <1>4, EndAt
    <2> QED
      BY <2>3, <2>4
  <1>6. new \in Interval
    BY <1>2, <1>4 DEF Interval
  <1>7. tick' = tick + n + 1 /\ intervals' = [intervals EXCEPT ![s] = Append(closed, new)]
    BY DEF IntervalOpen
  <1>8. \A i \in 1..Len(intervals[s]) : IsOpen(intervals[s][i]) => n >= 1
    BY <1>3
  <1> HIDE DEF n, closed, new
  <1>9. /\ Append(closed, new) \in Seq(Interval)
        /\ Len(Append(closed, new)) = Len(intervals[s]) + 1
        /\ \A i \in 1..Len(intervals[s]) : Append(closed, new)[i] = closed[i]
        /\ Append(closed, new)[Len(intervals[s]) + 1] = new
    BY <1>4, <1>5, <1>6
  <1>10. /\ intervals' \in [Sessions -> Seq(Interval)]
         /\ intervals'[s] = Append(closed, new)
         /\ \A t \in Sessions : t # s => intervals'[t] = intervals[t]
    BY <1>4, <1>7, <1>9
  <1>11. new = [start |-> tick + n + 1, end |-> 0]
    BY DEF new
  <1> QED
    BY <1>2, <1>5, <1>7, <1>8, <1>9, <1>10, <1>11

\* closeActionInterval: only the end of the interval moves.
LEMMA Closed ==
    ASSUME TypeOK, NEW s \in Sessions, NEW i \in 1..Len(intervals[s]), IntervalClose(s, i)
    PROVE  /\ tick' = tick + 1
           /\ intervals' \in [Sessions -> Seq(Interval)]
           /\ Len(intervals'[s]) = Len(intervals[s])
           /\ \A j \in 1..Len(intervals[s]) :
                /\ intervals'[s][j].start = intervals[s][j].start
                /\ intervals'[s][j].end = IF j = i THEN tick + 1 ELSE intervals[s][j].end
           /\ \A t \in Sessions : t # s => intervals'[t] = intervals[t]
  <1>1. /\ intervals \in [Sessions -> Seq(Interval)] /\ tick \in Nat
        /\ intervals[s] \in Seq(Interval)
        /\ \A j \in 1..Len(intervals[s]) : intervals[s][j] \in Interval
    BY DEF TypeOK
  <1> DEFINE moved == [intervals[s] EXCEPT ![i].end = tick + 1]
  <1>2. tick' = tick + 1 /\ intervals' = [intervals EXCEPT ![s] = moved]
    BY DEF IntervalClose
  <1>3. [intervals[s][i] EXCEPT !.end = tick + 1] \in Interval
    <2>1. intervals[s][i] \in Interval /\ tick + 1 \in Nat
      BY <1>1
    <2> QED
      BY <2>1, EndAt, Zenon
  <1>4. moved \in Seq(Interval) /\ Len(moved) = Len(intervals[s])
    BY <1>1, <1>3
  <1>5. ASSUME NEW j \in 1..Len(intervals[s])
        PROVE  /\ moved[j].start = intervals[s][j].start
               /\ moved[j].end = IF j = i THEN tick + 1 ELSE intervals[s][j].end
    <2>1. moved[j] = IF j = i THEN [intervals[s][i] EXCEPT !.end = tick + 1] ELSE intervals[s][j]
      BY <1>1
    <2> QED
      BY <1>1, <2>1, EndAt
  <1> HIDE DEF moved
  <1>6. /\ intervals' \in [Sessions -> Seq(Interval)]
        /\ intervals'[s] = moved
        /\ \A t \in Sessions : t # s => intervals'[t] = intervals[t]
    BY <1>1, <1>2, <1>4
  <1> QED
    BY <1>2, <1>4, <1>5, <1>6

----------------------------------------------------------------------------
(* Types.                                                                  *)

EvidenceTyped == TypeOK /\ IsFiniteSet(ledger)

\* Records of the known form may be added to the ledger.
LEMMA Added ==
    ASSUME EvidenceTyped, NEW X, IsFiniteSet(X), \A r \in X : r \in RecordType,
           ledger' = ledger \cup X
    PROVE  ledger' \subseteq RecordType /\ IsFiniteSet(ledger')
  BY FS_Union DEF EvidenceTyped, TypeOK, RecordType

\* Typing, when an exchange is consumed by an observation.
LEMMA ObservationType ==
    ASSUME EvidenceTyped, NEW s \in Sessions, NEW e \in Exchanges, HttpObservation(s, e)
    PROVE  EvidenceTyped'
  <1>1. Record("http.request", s, {e}, 0) \in RecordType
    BY RecordFields DEF EvidenceTyped, Kinds
  <1>2. ledger' \subseteq RecordType /\ IsFiniteSet(ledger')
    <2> DEFINE X == {Record("http.request", s, {e}, 0)}
    <2>1. IsFiniteSet(X) /\ \A r \in X : r \in RecordType
      BY <1>1, FS_Singleton
    <2>2. ledger' = ledger \cup X
      BY DEF HttpObservation
    <2> HIDE DEF X
    <2> QED
      BY <2>1, <2>2, Added
  <1> QED
    BY <1>2 DEF EvidenceTyped, HttpObservation, TypeOK, RecordType, endVars

\* Typing, along a finalize.
LEMMA FinalizeStepType ==
    ASSUME EvidenceTyped, NEW s \in Sessions,
           \/ \E first \in BOOLEAN : ObserveFinalize(s, first)
           \/ \E M \in SUBSET Exchanges : FinalizeMatch(s, M)
           \/ FinalizeNote(s) \/ FinalizeIssue(s)
    PROVE  EvidenceTyped'
  <1>0. finalize \in [Sessions -> FinalizeType] /\ ledger \subseteq RecordType /\ seq \in Nat
    BY DEF EvidenceTyped, TypeOK, FinalizeType, RecordType
  <1>1. /\ NotFinalizing \in FinalizeType
        /\ [NotFinalizing EXCEPT !.begun = TRUE] \in FinalizeType
    BY DEF NotFinalizing, FinalizeType
  <1>2. ASSUME NEW f \in FinalizeType, finalize' = [finalize EXCEPT ![s] = f],
               ledger' \subseteq RecordType /\ IsFiniteSet(ledger'),
               phase' \in [Exchanges -> {"idle", "flying", "observed", "gone"}],
               UNCHANGED <<bound, watermark, seq, tick, status, endVars, intervals,
                           owner, seqOf, tickOf, fresh>>
        PROVE  EvidenceTyped'
    <2>1. finalize' \in [Sessions -> FinalizeType]
      BY <1>0, <1>2
    <2> QED
      BY <1>2, <2>1 DEF EvidenceTyped, TypeOK, RecordType, FinalizeType, endVars
  <1>3. ASSUME NEW first \in BOOLEAN, ObserveFinalize(s, first) PROVE EvidenceTyped'
    <2> DEFINE f == [todo |-> {"transport", "persistence"}, snap |-> Observed(s),
                     upto |-> seq, match |-> {}, begun |-> TRUE]
               g == [f EXCEPT !.todo = {"persistence"}]
    <2>1. f \in FinalizeType /\ g \in FinalizeType
      BY <1>0 DEF FinalizeType, Observed
    <2>2. CASE first
      <3>1. finalize' = [finalize EXCEPT ![s] = g] /\ ledger' = ledger \cup TransportRecord(s, f)
        BY <1>3, <2>2 DEF ObserveFinalize
      <3>2. ledger' \subseteq RecordType /\ IsFiniteSet(ledger')
        <4> HIDE DEF f
        <4> QED
          BY <2>1, <3>1, TransportFields, FewRecords, Added DEF EvidenceTyped
      <3> QED
        BY <1>2, <1>3, <2>1, <3>1, <3>2 DEF ObserveFinalize, exVars, EvidenceTyped, TypeOK
    <2>3. CASE ~first
      <3>1. finalize' = [finalize EXCEPT ![s] = f] /\ ledger' = ledger
        BY <1>3, <2>3 DEF ObserveFinalize
      <3> QED
        BY <1>0, <1>2, <1>3, <2>1, <3>1 DEF ObserveFinalize, exVars, EvidenceTyped, TypeOK
    <2> QED
      BY <2>2, <2>3
  <1>4. ASSUME NEW M \in SUBSET Exchanges, FinalizeMatch(s, M) PROVE EvidenceTyped'
    <2>1. [finalize[s] EXCEPT !.match = M] \in FinalizeType
      BY <1>0 DEF FinalizeType
    <2>2. finalize' = [finalize EXCEPT ![s] = [finalize[s] EXCEPT !.match = M]]
      BY <1>4 DEF FinalizeMatch
    <2> QED
      BY <1>0, <1>2, <1>4, <2>1, <2>2 DEF FinalizeMatch, exVars, EvidenceTyped, TypeOK
  <1>5. CASE FinalizeNote(s)
    <2>1. ledger' \subseteq RecordType /\ IsFiniteSet(ledger')
      BY <1>0, <1>5, TransportFields, FewRecords, Added DEF EvidenceTyped, FinalizeNote
    <2> QED
      BY <1>1, <1>2, <1>5, <2>1 DEF FinalizeNote, exVars, EvidenceTyped, TypeOK
  <1>6. CASE FinalizeIssue(s)
    <2>1. finalize[s] \in FinalizeType /\ finalize[s].match \in SUBSET Exchanges
      BY <1>0 DEF FinalizeType
    <2> DEFINE p == Record("persistence.observed", s, finalize[s].match, 0)
               X == {p} \cup TransportRecord(s, finalize[s])
    <2>2. p \in RecordType
      BY <2>1, RecordFields DEF EvidenceTyped, Kinds
    <2>3. IsFiniteSet(X) /\ \A r \in X : r \in RecordType
      BY <2>1, <2>2, TransportFields, FewRecords, FS_Singleton, FS_Union DEF EvidenceTyped
    <2>4. ledger' = ledger \cup X
      BY <1>6 DEF FinalizeIssue
    <2>5. ledger' \subseteq RecordType /\ IsFiniteSet(ledger')
      BY <2>3, <2>4, Added
    <2>6. phase' \in [Exchanges -> {"idle", "flying", "observed", "gone"}]
      BY <1>6 DEF FinalizeIssue, EvidenceTyped, TypeOK
    <2> QED
      BY <1>1, <1>2, <1>6, <2>5, <2>6 DEF FinalizeIssue
  <1> QED
    BY <1>3, <1>4, <1>5, <1>6

\* Typing, at a close.
LEMMA CloseType ==
    ASSUME EvidenceTyped, NEW s \in Sessions, NEW o \in {NULL, "passed", "failed"}, SessionClose(s, o)
    PROVE  EvidenceTyped'
  <1>1. CloseOutcome(s, o) \in {NULL, "passed", "failed"}
    BY DEF CloseOutcome, EvidenceTyped, TypeOK
  <1>2. ledger' \subseteq RecordType /\ IsFiniteSet(ledger')
    <2> DEFINE X == ExchangesRecord(s, CloseOutcome(s, o))
    <2>1. IsFiniteSet(X) /\ \A r \in X : r \in RecordType
      BY ExchangesFields, FewRecords DEF EvidenceTyped
    <2>2. ledger' = ledger \cup X
      BY DEF SessionClose
    <2> HIDE DEF X
    <2> QED
      BY <2>1, <2>2, Added
  <1>3. /\ outcome' \in [Sessions -> {NULL, "passed", "failed"}]
        /\ status' \in [Sessions -> Statuses] /\ sealedTick' \in [Sessions -> Nat] /\ tick' \in Nat
        /\ snapshots' \subseteq Sessions
    <2>1. /\ status \in [Sessions -> Statuses] /\ sealedTick \in [Sessions -> Nat] /\ tick \in Nat
          /\ outcome \in [Sessions -> {NULL, "passed", "failed"}] /\ snapshots \subseteq Sessions
      BY DEF EvidenceTyped, TypeOK
    <2>2. outcome' \in [Sessions -> {NULL, "passed", "failed"}]
      <3>1. outcome' = [outcome EXCEPT ![s] = CloseOutcome(s, o)]
        BY DEF SessionClose
      <3> QED
        BY <1>1, <2>1, <3>1
    <2>3. CASE status[s] = "open"
      BY <2>1, <2>2, <2>3 DEF SessionClose, Statuses
    <2>4. CASE status[s] # "open"
      BY <2>1, <2>2, <2>4 DEF SessionClose
    <2> QED
      BY <2>3, <2>4
  <1> QED
    BY <1>2, <1>3 DEF EvidenceTyped, SessionClose, TypeOK, RecordType, exVars

\* Every step keeps the types and the ledger finite.
LEMMA TypeStep == EvidenceTyped /\ [Next]_vars => EvidenceTyped'
  <1> SUFFICES ASSUME EvidenceTyped, [Next]_vars PROVE EvidenceTyped'
    OBVIOUS
  <1>1. CASE RunContext
    BY <1>1 DEF RunContext, EvidenceTyped, TypeOK, endVars, exVars
  <1>2. ASSUME NEW s \in Sessions, SessionOpen(s) PROVE EvidenceTyped'
    BY <1>2 DEF SessionOpen, EvidenceTyped, TypeOK, exVars, Statuses
  <1>3. ASSUME NEW s \in Sessions, SessionRelease(s) PROVE EvidenceTyped'
    BY <1>3 DEF SessionRelease, EvidenceTyped, TypeOK, exVars, Statuses
  <1>4. ASSUME NEW s \in Sessions, IntervalOpen(s) PROVE EvidenceTyped'
    <2>1. tick' \in Nat /\ intervals' \in [Sessions -> Seq(Interval)]
      <3>1. PICK n \in Nat : tick' = tick + n + 1 /\ intervals' \in [Sessions -> Seq(Interval)]
        BY <1>4, Opened DEF EvidenceTyped
      <3> QED
        BY <3>1 DEF EvidenceTyped, TypeOK
    <2> QED
      BY <1>4, <2>1 DEF IntervalOpen, EvidenceTyped, TypeOK, endVars, exVars
  <1>5. ASSUME NEW s \in Sessions, NEW i \in 1..Len(intervals[s]), IntervalClose(s, i)
        PROVE  EvidenceTyped'
    <2>1. tick' \in Nat /\ intervals' \in [Sessions -> Seq(Interval)]
      BY <1>5, Closed DEF EvidenceTyped, TypeOK
    <2> QED
      BY <1>5, <2>1 DEF IntervalClose, EvidenceTyped, TypeOK, endVars, exVars
  <1>6. ASSUME NEW e \in Exchanges, NEW o \in Sessions \cup {NULL}, ExchangeStart(e, o)
        PROVE  EvidenceTyped'
    BY <1>6 DEF ExchangeStart, EvidenceTyped, TypeOK, endVars
  <1>7. ASSUME NEW e \in Exchanges, ExchangeEnd(e) PROVE EvidenceTyped'
    BY <1>7 DEF ExchangeEnd, EvidenceTyped, TypeOK, endVars
  <1>8. ASSUME NEW e \in Exchanges, ExchangeError(e) PROVE EvidenceTyped'
    BY <1>8 DEF ExchangeError, EvidenceTyped, TypeOK, endVars
  <1>9. CASE UNCHANGED vars
    BY <1>9 DEF vars, EvidenceTyped, TypeOK, endVars, exVars
  <1> QED
    BY <1>1, <1>2, <1>3, <1>4, <1>5, <1>6, <1>7, <1>8, <1>9, ObservationType, FinalizeStepType,
       CloseType
    DEF Next

----------------------------------------------------------------------------
(* Exchanges, clocks and the binding.                                      *)

\* The clocks never go back.
LEMMA ClocksMove ==
    ASSUME EvidenceTyped, [Next]_vars
    PROVE  seq' \in Nat /\ seq' >= seq /\ tick' \in Nat /\ tick' >= tick
  <1>0. seq \in Nat /\ tick \in Nat
    BY DEF EvidenceTyped, TypeOK
  <1>1. ASSUME NEW s \in Sessions, IntervalOpen(s)
        PROVE  seq' \in Nat /\ seq' >= seq /\ tick' \in Nat /\ tick' >= tick
    <2>1. PICK n \in Nat : tick' = tick + n + 1
      BY <1>1, Opened DEF EvidenceTyped
    <2> QED
      BY <1>0, <1>1, <2>1 DEF IntervalOpen
  <1>2. ASSUME seq' \in {seq, seq + 1}, tick' \in {tick, tick + 1}
        PROVE  seq' \in Nat /\ seq' >= seq /\ tick' \in Nat /\ tick' >= tick
    BY <1>0, <1>2
  <1>3. CASE RunContext \/ UNCHANGED vars
    BY <1>2, <1>3 DEF RunContext, vars
  <1>4. ASSUME NEW s \in Sessions, NEW o,
               SessionOpen(s) \/ SessionRelease(s) \/ SessionClose(s, o)
        PROVE  seq' \in {seq, seq + 1} /\ tick' \in {tick, tick + 1}
    BY <1>4 DEF SessionOpen, SessionRelease, SessionClose
  <1>5. ASSUME NEW s \in Sessions, NEW e, NEW first, NEW M,
               \/ HttpObservation(s, e) \/ FinalizeMatch(s, M) \/ ObserveFinalize(s, first)
               \/ FinalizeNote(s) \/ FinalizeIssue(s)
        PROVE  seq' \in {seq, seq + 1} /\ tick' \in {tick, tick + 1}
    BY <1>5 DEF HttpObservation, FinalizeMatch, ObserveFinalize, FinalizeNote, FinalizeIssue
  <1>6. ASSUME NEW e, NEW o, ExchangeStart(e, o) \/ ExchangeEnd(e) \/ ExchangeError(e)
        PROVE  seq' \in {seq, seq + 1} /\ tick' \in {tick, tick + 1}
    BY <1>6 DEF ExchangeStart, ExchangeEnd, ExchangeError
  <1>7. ASSUME NEW s \in Sessions, NEW i, IntervalClose(s, i)
        PROVE  seq' \in {seq, seq + 1} /\ tick' \in {tick, tick + 1}
    BY <1>7 DEF IntervalClose
  <1> QED
    BY <1>1, <1>2, <1>3, <1>4, <1>5, <1>6, <1>7 DEF Next

\* A step leaves alone what is settled about a completed exchange, and
\* numbers one that completes.
ExchangeStep(e) ==
    /\ phase[e] \in {"observed", "gone"} =>
         /\ phase'[e] \in {"observed", "gone"}
         /\ phase'[e] = "observed" => phase[e] = "observed"
         /\ owner'[e] = owner[e] /\ fresh'[e] = fresh[e]
         /\ seqOf'[e] = seqOf[e] /\ tickOf'[e] = tickOf[e]
    /\ phase'[e] = "observed" /\ phase[e] # "observed" =>
         phase[e] = "flying" /\ fresh'[e] = fresh[e] /\ seqOf'[e] = seq + 1
    /\ phase'[e] = "flying" => fresh'[e] = bound \/ (phase[e] = "flying" /\ fresh'[e] = fresh[e])
    /\ \/ seqOf'[e] = seqOf[e] /\ tickOf'[e] = tickOf[e]
       \/ seqOf'[e] = seq' /\ tickOf'[e] = tick'

\* What a step can do to an exchange.
LEMMA ExchangeSteps == ASSUME EvidenceTyped, [Next]_vars, NEW e \in Exchanges PROVE ExchangeStep(e)
  <1>0. /\ seq \in Nat /\ tick \in Nat
        /\ phase \in [Exchanges -> {"idle", "flying", "observed", "gone"}]
        /\ owner \in [Exchanges -> Sessions \cup {NULL}]
        /\ seqOf \in [Exchanges -> Nat] /\ tickOf \in [Exchanges -> Nat]
        /\ fresh \in [Exchanges -> BOOLEAN]
    BY DEF EvidenceTyped, TypeOK
  <1>1. ASSUME UNCHANGED exVars PROVE ExchangeStep(e)
    BY <1>0, <1>1 DEF ExchangeStep, exVars
  <1>2. CASE RunContext
    BY <1>1, <1>2 DEF RunContext
  <1>3. ASSUME NEW s \in Sessions, SessionOpen(s) PROVE ExchangeStep(e)
    BY <1>1, <1>3 DEF SessionOpen
  <1>4. ASSUME NEW s \in Sessions, SessionRelease(s) PROVE ExchangeStep(e)
    BY <1>1, <1>4 DEF SessionRelease
  <1>5. ASSUME NEW s \in Sessions, NEW o \in {NULL, "passed", "failed"}, SessionClose(s, o)
        PROVE  ExchangeStep(e)
    BY <1>1, <1>5 DEF SessionClose
  <1>6. ASSUME NEW s \in Sessions, IntervalOpen(s) PROVE ExchangeStep(e)
    BY <1>1, <1>6 DEF IntervalOpen
  <1>7. ASSUME NEW s \in Sessions, NEW i \in 1..Len(intervals[s]), IntervalClose(s, i)
        PROVE  ExchangeStep(e)
    BY <1>1, <1>7 DEF IntervalClose
  <1>8. ASSUME NEW s \in Sessions, NEW x \in Exchanges, HttpObservation(s, x) PROVE ExchangeStep(e)
    <2>1. phase[x] = "observed"
      BY <1>8 DEF HttpObservation, Observed
    <2> QED
      BY <1>0, <1>8, <2>1 DEF HttpObservation, ExchangeStep
  <1>9. ASSUME NEW s \in Sessions, NEW M \in SUBSET Exchanges, FinalizeMatch(s, M)
        PROVE  ExchangeStep(e)
    BY <1>1, <1>9 DEF FinalizeMatch
  <1>10. ASSUME NEW s \in Sessions, NEW first \in BOOLEAN, ObserveFinalize(s, first)
         PROVE  ExchangeStep(e)
    BY <1>1, <1>10 DEF ObserveFinalize
  <1>11. ASSUME NEW s \in Sessions, FinalizeNote(s) PROVE ExchangeStep(e)
    BY <1>1, <1>11 DEF FinalizeNote
  <1>12. ASSUME NEW s \in Sessions, FinalizeIssue(s) PROVE ExchangeStep(e)
    <2>1. phase'[e] = IF e \in finalize[s].match THEN "gone" ELSE phase[e]
      BY <1>12 DEF FinalizeIssue
    <2>2. UNCHANGED <<owner, seqOf, tickOf, fresh>>
      BY <1>12 DEF FinalizeIssue
    <2> QED
      BY <1>0, <2>1, <2>2 DEF ExchangeStep
  <1>13. ASSUME NEW x \in Exchanges, NEW o \in Sessions \cup {NULL}, ExchangeStart(x, o)
         PROVE  ExchangeStep(e)
    BY <1>0, <1>13 DEF ExchangeStart, ExchangeStep
  <1>14. ASSUME NEW x \in Exchanges, ExchangeEnd(x) PROVE ExchangeStep(e)
    BY <1>0, <1>14 DEF ExchangeEnd, ExchangeStep
  <1>15. ASSUME NEW x \in Exchanges, ExchangeError(x) PROVE ExchangeStep(e)
    BY <1>0, <1>15 DEF ExchangeError, ExchangeStep
  <1>16. CASE UNCHANGED vars
    BY <1>0, <1>1, <1>16 DEF vars
  <1> QED
    BY <1>2, <1>3, <1>4, <1>5, <1>6, <1>7, <1>8, <1>9, <1>10, <1>11, <1>12, <1>13, <1>14, <1>15,
       <1>16
    DEF Next

\* Only RunContext binds, and nothing unbinds or moves the watermark.
LEMMA Binding ==
    ASSUME EvidenceTyped, [Next]_vars
    PROVE  /\ bound => bound' /\ watermark' = watermark
           /\ ~bound /\ bound' => RunContext
  <1>1. CASE RunContext
    BY <1>1 DEF RunContext
  <1>2. ASSUME UNCHANGED <<bound, watermark>>
        PROVE  /\ bound => bound' /\ watermark' = watermark
               /\ ~bound /\ bound' => RunContext
    BY <1>2
  <1>3. ASSUME NEW s \in Sessions, SessionOpen(s) \/ SessionRelease(s)
        PROVE  UNCHANGED <<bound, watermark>>
    BY <1>3 DEF SessionOpen, SessionRelease
  <1>4. ASSUME NEW s \in Sessions, NEW o, SessionClose(s, o) PROVE UNCHANGED <<bound, watermark>>
    BY <1>4 DEF SessionClose
  <1>5. ASSUME NEW s \in Sessions, NEW i, IntervalOpen(s) \/ IntervalClose(s, i)
        PROVE  UNCHANGED <<bound, watermark>>
    BY <1>5 DEF IntervalOpen, IntervalClose
  <1>6. ASSUME NEW s \in Sessions, NEW e, NEW first, NEW M,
               \/ HttpObservation(s, e) \/ FinalizeMatch(s, M) \/ ObserveFinalize(s, first)
               \/ FinalizeNote(s) \/ FinalizeIssue(s)
        PROVE  UNCHANGED <<bound, watermark>>
    BY <1>6 DEF HttpObservation, FinalizeMatch, ObserveFinalize, FinalizeNote, FinalizeIssue
  <1>7. ASSUME NEW e, NEW o, ExchangeStart(e, o) \/ ExchangeEnd(e) \/ ExchangeError(e)
        PROVE  UNCHANGED <<bound, watermark>>
    BY <1>7 DEF ExchangeStart, ExchangeEnd, ExchangeError
  <1>8. CASE UNCHANGED vars
    BY <1>2, <1>8 DEF vars
  <1> QED
    BY <1>1, <1>2, <1>3, <1>4, <1>5, <1>6, <1>7, <1>8 DEF Next

----------------------------------------------------------------------------
(* Intervals.                                                              *)

\* Which steps touch the intervals.
LEMMA IntervalCases ==
    ASSUME EvidenceTyped, [Next]_vars
    PROVE  \/ UNCHANGED intervals
           \/ \E s \in Sessions : IntervalOpen(s)
           \/ \E s \in Sessions : \E i \in 1..Len(intervals[s]) : IntervalClose(s, i)
  <1>1. CASE RunContext \/ UNCHANGED vars
    BY <1>1 DEF RunContext, vars
  <1>2. ASSUME NEW s \in Sessions, SessionOpen(s) \/ SessionRelease(s) PROVE UNCHANGED intervals
    BY <1>2 DEF SessionOpen, SessionRelease
  <1>3. ASSUME NEW s \in Sessions, NEW o, SessionClose(s, o) PROVE UNCHANGED intervals
    BY <1>3 DEF SessionClose
  <1>4. ASSUME NEW s \in Sessions, NEW e, NEW first, NEW M,
               \/ HttpObservation(s, e) \/ FinalizeMatch(s, M) \/ ObserveFinalize(s, first)
               \/ FinalizeNote(s) \/ FinalizeIssue(s)
        PROVE  UNCHANGED intervals
    BY <1>4 DEF HttpObservation, FinalizeMatch, ObserveFinalize, FinalizeNote, FinalizeIssue
  <1>5. ASSUME NEW e, NEW o, ExchangeStart(e, o) \/ ExchangeEnd(e) \/ ExchangeError(e)
        PROVE  UNCHANGED intervals
    BY <1>5 DEF ExchangeStart, ExchangeEnd, ExchangeError
  <1> QED
    BY <1>1, <1>2, <1>3, <1>4, <1>5 DEF Next

\* WithinInterval(s, t) of the next state, where t is a moment of this one.
WithinNext(s, t) ==
    \E i \in 1..Len(intervals'[s]) :
      /\ t >= intervals'[s][i].start
      /\ intervals'[s][i].end = 0 \/ t <= intervals'[s][i].end

\* Opening and closing an interval keeps the windows of a session apart, and
\* a request that completed within one stays within it.
LEMMA IntervalStep ==
    ASSUME EvidenceTyped, Clocked, IntervalsDisjoint, [Next]_vars, tick' \in Nat, tick' >= tick
    PROVE  /\ \A s \in Sessions : \A i \in 1..Len(intervals'[s]) :
                intervals'[s][i].start <= tick' /\ intervals'[s][i].end <= tick'
           /\ IntervalsDisjoint'
           /\ \A s \in Sessions : \A t \in Nat :
                t <= tick /\ WithinInterval(s, t) => WithinNext(s, t)
  <1>0. /\ tick \in Nat
        /\ \A s \in Sessions :
             /\ Len(intervals[s]) \in Nat
             /\ \A i \in 1..Len(intervals[s]) :
                  /\ intervals[s][i].start \in Nat /\ intervals[s][i].end \in Nat
                  /\ intervals[s][i].start <= tick /\ intervals[s][i].end <= tick
    <2>1. \A s \in Sessions : /\ intervals[s] \in Seq(Interval)
                              /\ \A i \in 1..Len(intervals[s]) : intervals[s][i] \in Interval
      BY DEF EvidenceTyped, TypeOK
    <2>2. \A x \in Interval : x.start \in Nat /\ x.end \in Nat
      BY DEF Interval
    <2> QED
      BY <2>1, <2>2 DEF EvidenceTyped, TypeOK, Clocked
  <1> DEFINE Apart(s) == \A i, j \in 1..Len(intervals'[s]) :
                           i < j => /\ intervals'[s][i].end # 0
                                    /\ intervals'[s][i].end < intervals'[s][j].start
             Bounded(s) == \A i \in 1..Len(intervals'[s]) :
                             intervals'[s][i].start <= tick' /\ intervals'[s][i].end <= tick'
             Kept(s) == \A t \in Nat : t <= tick /\ WithinInterval(s, t) => WithinNext(s, t)
  <1>1. SUFFICES ASSUME NEW s \in Sessions PROVE Bounded(s) /\ Apart(s) /\ Kept(s)
    BY DEF IntervalsDisjoint, IsOpen
  <1>2. ASSUME intervals'[s] = intervals[s] PROVE Bounded(s) /\ Apart(s) /\ Kept(s)
    <2>1. Bounded(s)
      BY <1>0, <1>2
    <2>2. Apart(s)
      BY <1>2 DEF IntervalsDisjoint, IsOpen
    <2>3. Kept(s)
      BY <1>2 DEF WithinInterval, WithinNext, IsOpen
    <2> QED
      BY <2>1, <2>2, <2>3
  <1>3. CASE IntervalOpen(s)
    <2> DEFINE L == Len(intervals[s])
    <2>1. PICK n \in Nat :
            /\ tick' = tick + n + 1
            /\ Len(intervals'[s]) = L + 1
            /\ \A i \in 1..L :
                 /\ intervals'[s][i].start = intervals[s][i].start
                 /\ intervals'[s][i].end = IF IsOpen(intervals[s][i]) THEN tick + 1
                                                                     ELSE intervals[s][i].end
                 /\ IsOpen(intervals[s][i]) => n >= 1
            /\ intervals'[s][L + 1] = [start |-> tick + n + 1, end |-> 0]
      BY <1>3, Opened DEF EvidenceTyped
    <2>2. L \in Nat /\ intervals'[s][L + 1].start = tick + n + 1 /\ intervals'[s][L + 1].end = 0
      BY <1>0, <2>1
    <2>3. ASSUME NEW i \in 1..L
          PROVE  /\ intervals'[s][i].start <= tick
                 /\ intervals'[s][i].end \in Nat /\ intervals'[s][i].end # 0
                 /\ intervals'[s][i].end <= tick + n
                 /\ \/ intervals'[s][i].end = intervals[s][i].end /\ intervals[s][i].end # 0
                    \/ intervals'[s][i].end = tick + 1
      <3>1. /\ intervals[s][i].start \in Nat /\ intervals[s][i].end \in Nat
            /\ intervals[s][i].start <= tick /\ intervals[s][i].end <= tick
        BY <1>0
      <3>2. intervals'[s][i].start = intervals[s][i].start
        BY <2>1
      <3>3. CASE IsOpen(intervals[s][i])
        <4>1. intervals'[s][i].end = tick + 1 /\ n >= 1
          BY <2>1, <3>3
        <4> QED
          BY <1>0, <3>1, <3>2, <4>1
      <3>4. CASE ~IsOpen(intervals[s][i])
        <4>1. intervals'[s][i].end = intervals[s][i].end /\ intervals[s][i].end # 0
          BY <2>1, <3>4 DEF IsOpen
        <4> QED
          BY <1>0, <3>1, <3>2, <4>1
      <3> QED
        BY <3>3, <3>4
    <2>4. \A i \in 1..(L + 1) : i \in 1..L \/ i = L + 1
      BY <2>2
    <2>5. Bounded(s)
      <3>1. ASSUME NEW i \in 1..(L + 1)
            PROVE  intervals'[s][i].start <= tick' /\ intervals'[s][i].end <= tick'
        <4>1. CASE i = L + 1
          BY <1>0, <2>1, <2>2, <4>1
        <4>2. CASE i \in 1..L
          <5>1. intervals[s][i].start \in Nat /\ intervals'[s][i].start = intervals[s][i].start
            BY <1>0, <2>1, <4>2
          <5>2. /\ intervals'[s][i].start <= tick
                /\ intervals'[s][i].end \in Nat /\ intervals'[s][i].end <= tick + n
            BY <2>3, <4>2
          <5> QED
            BY <1>0, <2>1, <5>1, <5>2
        <4> QED
          BY <2>4, <4>1, <4>2
      <3> QED
        BY <2>1, <3>1
    <2>6. Apart(s)
      <3>1. ASSUME NEW i \in 1..(L + 1), NEW j \in 1..(L + 1), i < j
            PROVE  intervals'[s][i].end # 0 /\ intervals'[s][i].end < intervals'[s][j].start
        <4>1. i \in 1..L
          BY <2>2, <3>1
        <4>2. CASE j = L + 1
          BY <1>0, <2>1, <2>2, <2>3, <4>1, <4>2
        <4>3. CASE j \in 1..L
          <5>1. ~IsOpen(intervals[s][i]) /\ intervals[s][i].end < intervals[s][j].start
            BY <3>1, <4>1, <4>3 DEF IntervalsDisjoint
          <5> QED
            BY <2>1, <2>3, <4>1, <4>3, <5>1
        <4> QED
          BY <2>4, <4>2, <4>3
      <3> QED
        BY <2>1, <3>1
    <2>7. Kept(s)
      <3>1. ASSUME NEW t \in Nat, t <= tick, WithinInterval(s, t)
            PROVE  \E i \in 1..(L + 1) : /\ t >= intervals'[s][i].start
                                         /\ intervals'[s][i].end = 0 \/ t <= intervals'[s][i].end
        <4>1. PICK i \in 1..L : /\ t >= intervals[s][i].start
                                /\ IsOpen(intervals[s][i]) \/ t <= intervals[s][i].end
          BY <3>1 DEF WithinInterval
        <4>2. i \in 1..(L + 1)
          BY <2>2
        <4>3. t >= intervals'[s][i].start
          BY <2>1, <4>1
        <4>4. t <= intervals'[s][i].end
          <5>1. CASE IsOpen(intervals[s][i])
            BY <1>0, <2>1, <3>1, <5>1
          <5>2. CASE ~IsOpen(intervals[s][i])
            BY <2>1, <4>1, <5>2
          <5> QED
            BY <5>1, <5>2
        <4> QED
          BY <4>2, <4>3, <4>4
      <3> QED
        BY <2>1, <3>1 DEF WithinNext
    <2> QED
      BY <2>5, <2>6, <2>7
  <1>4. ASSUME NEW k \in 1..Len(intervals[s]), IntervalClose(s, k)
        PROVE  Bounded(s) /\ Apart(s) /\ Kept(s)
    <2> DEFINE L == Len(intervals[s])
    <2>1. /\ tick' = tick + 1
          /\ Len(intervals'[s]) = L
          /\ \A j \in 1..L : /\ intervals'[s][j].start = intervals[s][j].start
                             /\ intervals'[s][j].end = IF j = k THEN tick + 1 ELSE intervals[s][j].end
      BY <1>4, Closed DEF EvidenceTyped
    <2>2. IsOpen(intervals[s][k])
      BY <1>4 DEF IntervalClose
    <2>3. Bounded(s)
      <3>1. ASSUME NEW i \in 1..L
            PROVE  intervals'[s][i].start <= tick' /\ intervals'[s][i].end <= tick'
        <4>1. CASE i = k
          BY <1>0, <2>1, <4>1
        <4>2. CASE i # k
          BY <1>0, <2>1, <4>2
        <4> QED
          BY <4>1, <4>2
      <3> QED
        BY <2>1, <3>1
    <2>4. Apart(s)
      <3>1. ASSUME NEW i \in 1..L, NEW j \in 1..L, i < j
            PROVE  intervals'[s][i].end # 0 /\ intervals'[s][i].end < intervals'[s][j].start
        <4>1. ~IsOpen(intervals[s][i]) /\ intervals[s][i].end < intervals[s][j].start
          BY <3>1 DEF IntervalsDisjoint
        <4>2. i # k
          BY <2>2, <4>1
        <4> QED
          BY <2>1, <4>1, <4>2 DEF IsOpen
      <3> QED
        BY <2>1, <3>1
    <2>5. Kept(s)
      <3>1. ASSUME NEW t \in Nat, t <= tick, WithinInterval(s, t)
            PROVE  \E i \in 1..L : /\ t >= intervals'[s][i].start
                                   /\ intervals'[s][i].end = 0 \/ t <= intervals'[s][i].end
        <4>1. PICK i \in 1..L : /\ t >= intervals[s][i].start
                                /\ IsOpen(intervals[s][i]) \/ t <= intervals[s][i].end
          BY <3>1 DEF WithinInterval
        <4>2. CASE i = k
          <5>1. intervals'[s][i].end = tick + 1 /\ intervals'[s][i].start = intervals[s][i].start
            BY <2>1, <4>2
          <5>2. t <= intervals'[s][i].end
            BY <1>0, <3>1, <5>1
          <5> QED
            BY <4>1, <5>1, <5>2
        <4>3. CASE i # k
          BY <2>1, <4>1, <4>3 DEF IsOpen
        <4> QED
          BY <4>2, <4>3
      <3> QED
        BY <2>1, <3>1 DEF WithinNext
    <2> QED
      BY <2>3, <2>4, <2>5
  <1>5. ASSUME NEW r \in Sessions, r # s,
               IntervalOpen(r) \/ \E i \in 1..Len(intervals[r]) : IntervalClose(r, i)
        PROVE  intervals'[s] = intervals[s]
    BY <1>5 DEF IntervalOpen, IntervalClose, EvidenceTyped, TypeOK
  <1> QED
    <2>1. CASE UNCHANGED intervals
      BY <1>2, <2>1
    <2>2. CASE \E r \in Sessions : IntervalOpen(r)
      BY <1>2, <1>3, <1>5, <2>2
    <2>3. CASE \E r \in Sessions : \E i \in 1..Len(intervals[r]) : IntervalClose(r, i)
      BY <1>2, <1>4, <1>5, <2>3
    <2> QED
      BY <2>1, <2>2, <2>3, IntervalCases

\* The clock runs ahead of everything that is stamped.
LEMMA ClockedStep == EvidenceTyped /\ Clocked /\ IntervalsDisjoint /\ [Next]_vars => Clocked'
  <1> SUFFICES ASSUME EvidenceTyped, Clocked, IntervalsDisjoint, [Next]_vars PROVE Clocked'
    OBVIOUS
  <1>1. ASSUME NEW e \in Exchanges PROVE seqOf'[e] <= seq' /\ tickOf'[e] <= tick'
    <2>1. /\ seqOf[e] \in Nat /\ tickOf[e] \in Nat /\ seq \in Nat /\ tick \in Nat
          /\ seqOf[e] <= seq /\ tickOf[e] <= tick
      BY DEF EvidenceTyped, TypeOK, Clocked
    <2>2. ExchangeStep(e)
      BY ExchangeSteps
    <2>3. seq' \in Nat /\ tick' \in Nat /\ seq' >= seq /\ tick' >= tick
      BY ClocksMove
    <2>4. CASE seqOf'[e] = seqOf[e] /\ tickOf'[e] = tickOf[e]
      BY <2>1, <2>3, <2>4
    <2>5. CASE seqOf'[e] = seq' /\ tickOf'[e] = tick'
      BY <2>3, <2>5
    <2> QED
      BY <2>2, <2>4, <2>5 DEF ExchangeStep
  <1>2. ASSUME NEW s \in Sessions, NEW i \in 1..Len(intervals'[s])
        PROVE  intervals'[s][i].start <= tick' /\ intervals'[s][i].end <= tick'
    BY IntervalStep, ClocksMove
  <1> QED
    BY <1>1, <1>2 DEF Clocked

----------------------------------------------------------------------------
(* Records and finalizes.                                                  *)

\* Where a record that a step adds comes from.
Source(r) ==
    \/ /\ r.kind = "http.request"
       /\ \E e \in Observed(r.s) : r.exs = {e} /\ WithinInterval(r.s, tickOf[e])
    \/ r.kind = "http.exchanges" /\ r.exs = Observed(r.s) /\ outcome'[r.s] = "passed"
    \/ r.kind = "persistence.observed" /\ r.exs = finalize[r.s].match /\ FinalizeIssue(r.s)
    \/ /\ r.kind = "http.observed" /\ r.exs = finalize[r.s].snap /\ r.n = finalize[r.s].upto
       /\ FinalizeNote(r.s) \/ FinalizeIssue(r.s)
    \/ /\ r.kind = "http.observed" /\ r.exs = Observed(r.s) /\ r.n = seq
       /\ ObserveFinalize(r.s, TRUE)

\* Where a record that a step adds comes from.
LEMMA NewRecords ==
    ASSUME EvidenceTyped, [Next]_vars
    PROVE  ledger \subseteq ledger' /\ \A r \in ledger' : r \in ledger \/ Source(r)
  <1>0. finalize \in [Sessions -> FinalizeType] /\ TypeOK /\ IsFiniteSet(ledger)
    BY DEF EvidenceTyped, TypeOK, FinalizeType
  <1>1. CASE RunContext \/ UNCHANGED vars
    BY <1>1 DEF RunContext, vars
  <1>2. ASSUME NEW s \in Sessions, SessionOpen(s) \/ SessionRelease(s) PROVE ledger' = ledger
    BY <1>2 DEF SessionOpen, SessionRelease
  <1>3. ASSUME NEW s \in Sessions, NEW o \in {NULL, "passed", "failed"}, SessionClose(s, o)
        PROVE  ledger \subseteq ledger' /\ \A r \in ledger' : r \in ledger \/ Source(r)
    <2>1. ledger' = ledger \cup ExchangesRecord(s, CloseOutcome(s, o))
      BY <1>3 DEF SessionClose
    <2>2. outcome'[s] = CloseOutcome(s, o)
      BY <1>0, <1>3 DEF SessionClose, TypeOK
    <2>3. ASSUME NEW r \in ExchangesRecord(s, CloseOutcome(s, o)) PROVE Source(r)
      <3>1. /\ r.kind = "http.exchanges" /\ r.s = s /\ r.exs = Observed(s)
            /\ CloseOutcome(s, o) = "passed"
        BY <1>0, ExchangesFields
      <3> QED
        BY <2>2, <3>1 DEF Source
    <2> QED
      BY <2>1, <2>3
  <1>4. ASSUME NEW s \in Sessions, NEW i, IntervalOpen(s) \/ IntervalClose(s, i)
        PROVE  ledger' = ledger
    BY <1>4 DEF IntervalOpen, IntervalClose
  <1>5. ASSUME NEW s \in Sessions, NEW e \in Exchanges, HttpObservation(s, e)
        PROVE  ledger \subseteq ledger' /\ \A r \in ledger' : r \in ledger \/ Source(r)
    <2> DEFINE q == Record("http.request", s, {e}, 0)
    <2>1. q.kind = "http.request" /\ q.s = s /\ q.exs = {e}
      BY <1>0, RecordFields DEF Kinds
    <2>2. ledger' = ledger \cup {q}
      BY <1>5 DEF HttpObservation
    <2>3. e \in Observed(s) /\ WithinInterval(s, tickOf[e])
      BY <1>5 DEF HttpObservation
    <2> HIDE DEF q
    <2>4. Source(q)
      BY <2>1, <2>3 DEF Source
    <2> QED
      BY <2>2, <2>4
  <1>6. ASSUME NEW s \in Sessions, NEW M, FinalizeMatch(s, M) PROVE ledger' = ledger
    BY <1>6 DEF FinalizeMatch
  <1>7. ASSUME NEW s \in Sessions, NEW first \in BOOLEAN, ObserveFinalize(s, first)
        PROVE  ledger \subseteq ledger' /\ \A r \in ledger' : r \in ledger \/ Source(r)
    <2> DEFINE f == [todo |-> {"transport", "persistence"}, snap |-> Observed(s),
                     upto |-> seq, match |-> {}, begun |-> TRUE]
    <2>1. f \in FinalizeType /\ f.snap = Observed(s) /\ f.upto = seq
      BY <1>0 DEF FinalizeType, Observed, TypeOK
    <2>2. CASE first
      <3>1. ledger' = ledger \cup TransportRecord(s, f)
        BY <1>7, <2>2 DEF ObserveFinalize
      <3>2. ObserveFinalize(s, TRUE)
        BY <1>7, <2>2
      <3> HIDE DEF f
      <3>3. ASSUME NEW r \in TransportRecord(s, f) PROVE Source(r)
        <4>1. r.kind = "http.observed" /\ r.s = s /\ r.exs = Observed(s) /\ r.n = seq
          BY <1>0, <2>1, TransportFields
        <4> QED
          BY <3>2, <4>1 DEF Source
      <3> QED
        BY <3>1, <3>3
    <2>3. CASE ~first
      BY <1>7, <2>3 DEF ObserveFinalize
    <2> QED
      BY <2>2, <2>3
  <1>8. ASSUME NEW s \in Sessions, FinalizeNote(s) \/ FinalizeIssue(s)
        PROVE  \A r \in TransportRecord(s, finalize[s]) : Source(r)
    <2>1. SUFFICES ASSUME NEW r \in TransportRecord(s, finalize[s]) PROVE Source(r)
      OBVIOUS
    <2>2. finalize[s] \in FinalizeType
      BY <1>0
    <2>3. /\ r.kind = "http.observed" /\ r.s = s
          /\ r.exs = finalize[s].snap /\ r.n = finalize[s].upto
      BY <1>0, <2>2, TransportFields
    <2> QED
      BY <1>8, <2>3 DEF Source
  <1>9. ASSUME NEW s \in Sessions, FinalizeNote(s)
        PROVE  ledger \subseteq ledger' /\ \A r \in ledger' : r \in ledger \/ Source(r)
    BY <1>8, <1>9 DEF FinalizeNote
  <1>10. ASSUME NEW s \in Sessions, FinalizeIssue(s)
         PROVE  ledger \subseteq ledger' /\ \A r \in ledger' : r \in ledger \/ Source(r)
    <2> DEFINE q == Record("persistence.observed", s, finalize[s].match, 0)
    <2>1. finalize[s].match \in SUBSET Exchanges
      BY <1>0 DEF FinalizeType
    <2>2. q.kind = "persistence.observed" /\ q.s = s /\ q.exs = finalize[s].match
      BY <1>0, <2>1, RecordFields DEF Kinds
    <2>3. ledger' = ledger \cup {q} \cup TransportRecord(s, finalize[s])
      BY <1>10 DEF FinalizeIssue
    <2> HIDE DEF q
    <2>4. Source(q)
      BY <1>10, <2>2 DEF Source
    <2> QED
      BY <1>8, <1>10, <2>3, <2>4
  <1>11. ASSUME NEW e, NEW o, ExchangeStart(e, o) \/ ExchangeEnd(e) \/ ExchangeError(e)
         PROVE  ledger' = ledger
    BY <1>11 DEF ExchangeStart, ExchangeEnd, ExchangeError
  <1> QED
    BY <1>1, <1>2, <1>3, <1>4, <1>5, <1>6, <1>7, <1>9, <1>10, <1>11 DEF Next

\* A step is one of the finalize of s, or leaves that finalize alone.
LEMMA FinalizeCases ==
    ASSUME EvidenceTyped, [Next]_vars, NEW s \in Sessions
    PROVE  \/ \E first \in BOOLEAN : ObserveFinalize(s, first)
           \/ \E M \in SUBSET Exchanges : FinalizeMatch(s, M)
           \/ FinalizeNote(s) \/ FinalizeIssue(s)
           \/ /\ finalize'[s] = finalize[s]
              /\ status'[s] = "unborn" => status[s] = "unborn"
              /\ \A r \in ledger' :
                   r.s = s /\ r.kind \in {"http.observed", "persistence.observed"} => r \in ledger
  <1>0. /\ finalize \in [Sessions -> FinalizeType] /\ status \in [Sessions -> Statuses]
        /\ TypeOK /\ IsFiniteSet(ledger)
    BY DEF EvidenceTyped, TypeOK, FinalizeType
  <1> DEFINE Away == /\ finalize'[s] = finalize[s]
                     /\ status'[s] = "unborn" => status[s] = "unborn"
  <1>1. SUFFICES ASSUME ~\E first \in BOOLEAN : ObserveFinalize(s, first),
                        ~\E M \in SUBSET Exchanges : FinalizeMatch(s, M),
                        ~FinalizeNote(s), ~FinalizeIssue(s)
                 PROVE  Away
    BY NewRecords DEF Source
  <1>2. CASE RunContext \/ UNCHANGED vars
    BY <1>2 DEF RunContext, vars
  <1>3. ASSUME NEW t \in Sessions, SessionOpen(t) \/ SessionRelease(t) PROVE Away
    BY <1>0, <1>3 DEF SessionOpen, SessionRelease
  <1>4. ASSUME NEW t \in Sessions, NEW o, SessionClose(t, o) PROVE Away
    BY <1>0, <1>4 DEF SessionClose
  <1>5. ASSUME NEW t \in Sessions, NEW i, NEW e,
               IntervalOpen(t) \/ IntervalClose(t, i) \/ HttpObservation(t, e)
        PROVE  Away
    BY <1>5 DEF IntervalOpen, IntervalClose, HttpObservation
  <1>6. ASSUME NEW t \in Sessions, NEW first \in BOOLEAN, ObserveFinalize(t, first) PROVE Away
    <2>1. t # s
      BY <1>1, <1>6
    <2> QED
      BY <1>0, <1>6, <2>1 DEF ObserveFinalize
  <1>7. ASSUME NEW t \in Sessions, NEW M \in SUBSET Exchanges, FinalizeMatch(t, M) PROVE Away
    <2>1. t # s
      BY <1>1, <1>7
    <2> QED
      BY <1>0, <1>7, <2>1 DEF FinalizeMatch
  <1>8. ASSUME NEW t \in Sessions, FinalizeNote(t) \/ FinalizeIssue(t) PROVE Away
    <2>1. t # s
      BY <1>1, <1>8
    <2> QED
      BY <1>0, <1>8, <2>1 DEF FinalizeNote, FinalizeIssue
  <1>9. ASSUME NEW e, NEW o, ExchangeStart(e, o) \/ ExchangeEnd(e) \/ ExchangeError(e) PROVE Away
    BY <1>9 DEF ExchangeStart, ExchangeEnd, ExchangeError
  <1> QED
    BY <1>2, <1>3, <1>4, <1>5, <1>6, <1>7, <1>8, <1>9 DEF Next

----------------------------------------------------------------------------
(* The invariant.                                                          *)

\* The types that EvidenceInv gives.
LEMMA Unpacked ==
    ASSUME EvidenceInv
    PROVE  /\ EvidenceTyped
           /\ finalize \in [Sessions -> FinalizeType] /\ ledger \subseteq RecordType
           /\ seq \in Nat /\ seqOf \in [Exchanges -> Nat] /\ watermark \in Nat
           /\ phase \in [Exchanges -> {"idle", "flying", "observed", "gone"}]
           /\ \A s \in Sessions : /\ Observed(s) \subseteq Exchanges
                                  /\ finalize[s].match \subseteq Exchanges
                                  /\ finalize[s].snap \subseteq Exchanges
                                  /\ finalize[s].upto \in Nat
           /\ \A r \in ledger : r.s \in Sessions /\ r.exs \subseteq Exchanges /\ r.n \in Nat
  <1>1. /\ EvidenceTyped
        /\ finalize \in [Sessions -> FinalizeType] /\ ledger \subseteq RecordType
        /\ seq \in Nat /\ seqOf \in [Exchanges -> Nat] /\ watermark \in Nat
        /\ phase \in [Exchanges -> {"idle", "flying", "observed", "gone"}]
    BY DEF EvidenceInv, EvidenceTyped, TypeOK, FinalizeType, RecordType
  <1>2. \A s \in Sessions : Observed(s) \subseteq Exchanges
    BY DEF Observed
  <1>3. \A s \in Sessions : /\ finalize[s].match \subseteq Exchanges
                            /\ finalize[s].snap \subseteq Exchanges
                            /\ finalize[s].upto \in Nat
    BY <1>1 DEF FinalizeType
  <1>4. \A r \in ledger : r.s \in Sessions /\ r.exs \subseteq Exchanges /\ r.n \in Nat
    BY <1>1 DEF RecordType
  <1> QED
    BY <1>1, <1>2, <1>3, <1>4

\* While the witness is unbound and unused, no finalize has anything.
LEMMA UnusedIsEmpty ==
    ASSUME EvidenceInv, RunContext
    PROVE  /\ ledger = {} /\ UNCHANGED <<finalize, ledger, status, exVars>>
           /\ \A s \in Sessions : finalize[s] = NotFinalizing
           /\ \A e \in Exchanges : phase[e] \notin {"flying", "observed"}
  BY DEF EvidenceInv, Finalizing, RunContext, Unused

\* What began before the context falls behind the watermark.
LEMMA OldStep == EvidenceInv /\ [Next]_vars => OldIsBehind'
  <1> SUFFICES ASSUME EvidenceInv, [Next]_vars, bound', NEW e \in Exchanges
               PROVE  /\ phase'[e] = "flying" => fresh'[e]
                      /\ phase'[e] = "observed" /\ seqOf'[e] > watermark' => fresh'[e]
    BY DEF OldIsBehind
  <1>0. EvidenceTyped /\ OldIsBehind /\ phase[e] \in {"idle", "flying", "observed", "gone"}
    BY Unpacked DEF EvidenceInv
  <1>1. CASE ~bound
    <2>1. RunContext
      BY <1>0, <1>1, Binding
    <2> QED
      BY <2>1, UnusedIsEmpty DEF exVars
  <1>2. CASE bound
    <2>1. watermark' = watermark /\ ExchangeStep(e)
      BY <1>0, <1>2, Binding, ExchangeSteps
    <2>2. ASSUME phase'[e] = "flying" PROVE fresh'[e]
      BY <1>0, <1>2, <2>1, <2>2 DEF ExchangeStep, OldIsBehind
    <2>3. ASSUME phase'[e] = "observed", seqOf'[e] > watermark' PROVE fresh'[e]
      <3>1. CASE phase[e] = "observed"
        BY <1>0, <1>2, <2>1, <2>3, <3>1 DEF ExchangeStep, OldIsBehind
      <3>2. CASE phase[e] # "observed"
        BY <1>0, <1>2, <2>1, <2>3, <3>2 DEF ExchangeStep, OldIsBehind
      <3> QED
        BY <3>1, <3>2
    <2> QED
      BY <2>2, <2>3
  <1> QED
    BY <1>1, <1>2

\* What a session may pick is completed, its own, and fresh.
LEMMA ObservedCreditable ==
    ASSUME EvidenceInv, NEW s \in Sessions
    PROVE  Creditable(s, Observed(s))
  BY DEF EvidenceInv, OldIsBehind, Creditable, Completed, Observed, Watermark

\* What evidence of s may rest on stays so, except at the binding.
LEMMA CreditKept ==
    ASSUME EvidenceInv, [Next]_vars, ~RunContext, NEW s, NEW X \in SUBSET Exchanges,
           Creditable(s, X)
    PROVE  \A e \in X : /\ phase'[e] \in {"observed", "gone"} /\ owner'[e] = s
                        /\ bound' => fresh'[e]
  <1> SUFFICES ASSUME NEW e \in X
               PROVE  /\ phase'[e] \in {"observed", "gone"} /\ owner'[e] = s
                      /\ bound' => fresh'[e]
    OBVIOUS
  <1>1. phase[e] \in {"observed", "gone"} /\ owner[e] = s /\ (bound => fresh[e])
    BY DEF Creditable, Completed
  <1>2. ExchangeStep(e)
    BY Unpacked, ExchangeSteps
  <1>3. bound' => bound
    BY Unpacked, Binding
  <1>4. owner'[e] = owner[e] /\ fresh'[e] = fresh[e] /\ phase'[e] \in {"observed", "gone"}
    BY <1>1, <1>2 DEF ExchangeStep
  <1> QED
    BY <1>1, <1>3, <1>4

\* The exchanges a new record rests on are creditable to its session.
LEMMA SourceCreditable ==
    ASSUME EvidenceInv, NEW r, r.s \in Sessions, Source(r)
    PROVE  Creditable(r.s, r.exs) /\ r.exs \subseteq Exchanges
  <1>1. Creditable(r.s, Observed(r.s)) /\ Observed(r.s) \subseteq Exchanges
    BY ObservedCreditable, Unpacked
  <1>2. /\ Creditable(r.s, finalize[r.s].match) /\ finalize[r.s].match \subseteq Exchanges
        /\ Creditable(r.s, finalize[r.s].snap) /\ finalize[r.s].snap \subseteq Exchanges
    BY Unpacked DEF EvidenceInv, Credits
  <1>3. \A e \in Observed(r.s) : Creditable(r.s, {e}) /\ {e} \subseteq Exchanges
    BY <1>1 DEF Creditable
  <1> QED
    BY <1>1, <1>2, <1>3 DEF Source

\* What is picked stays creditable.
LEMMA CreditsStep == EvidenceInv /\ [Next]_vars => Credits'
  <1> SUFFICES ASSUME EvidenceInv, [Next]_vars PROVE Credits'
    OBVIOUS
  <1> DEFINE Good(s, X) == \A e \in X : /\ phase'[e] \in {"observed", "gone"} /\ owner'[e] = s
                                        /\ bound' => fresh'[e]
  <1>0. EvidenceTyped /\ EvidenceTyped' /\ Credits
    BY Unpacked, TypeStep DEF EvidenceInv
  <1>1. CASE RunContext
    <2>1. \A s \in Sessions : finalize'[s].match = {} /\ finalize'[s].snap = {}
      BY <1>1, UnusedIsEmpty DEF NotFinalizing
    <2>2. ledger' = {}
      BY <1>1, UnusedIsEmpty
    <2> QED
      BY <2>1, <2>2 DEF Credits, Creditable
  <1>2. CASE ~RunContext
    <2>1. ASSUME NEW s \in Sessions, NEW X \in SUBSET Exchanges, Creditable(s, X)
          PROVE  Good(s, X)
      BY <1>2, <2>1, CreditKept
    <2>2. ASSUME NEW r \in ledger' PROVE Good(r.s, r.exs)
      <3>1. r.s \in Sessions
        BY <1>0 DEF EvidenceTyped, TypeOK
      <3>2. Creditable(r.s, r.exs) /\ r.exs \subseteq Exchanges
        <4>1. CASE r \in ledger
          BY <1>0, <4>1, Unpacked DEF Credits
        <4>2. CASE r \notin ledger
          BY <1>0, <3>1, <4>2, NewRecords, SourceCreditable
        <4> QED
          BY <4>1, <4>2
      <3> QED
        BY <2>1, <3>1, <3>2
    <2>3. ASSUME NEW s \in Sessions
          PROVE  Good(s, finalize'[s].match) /\ Good(s, finalize'[s].snap)
      <3>1. /\ Creditable(s, finalize[s].match) /\ finalize[s].match \subseteq Exchanges
            /\ Creditable(s, finalize[s].snap) /\ finalize[s].snap \subseteq Exchanges
            /\ Creditable(s, Observed(s)) /\ Observed(s) \subseteq Exchanges
            /\ finalize \in [Sessions -> FinalizeType]
        BY <1>0, Unpacked, ObservedCreditable DEF Credits
      <3>2. ASSUME NEW first \in BOOLEAN, ObserveFinalize(s, first)
            PROVE  finalize'[s].match = {} /\ finalize'[s].snap = Observed(s)
        <4>1. CASE first
          BY <3>1, <3>2, <4>1 DEF ObserveFinalize
        <4>2. CASE ~first
          BY <3>1, <3>2, <4>2 DEF ObserveFinalize
        <4> QED
          BY <4>1, <4>2
      <3>3. ASSUME NEW M \in SUBSET Exchanges, FinalizeMatch(s, M)
            PROVE  /\ finalize'[s].match = M /\ M \subseteq Observed(s)
                   /\ finalize'[s].snap = finalize[s].snap
        BY <3>1, <3>3 DEF FinalizeMatch, FinalizeType
      <3>4. ASSUME FinalizeNote(s) \/ FinalizeIssue(s)
            PROVE  finalize'[s].match = {} /\ finalize'[s].snap = {}
        BY <3>1, <3>4 DEF FinalizeNote, FinalizeIssue, NotFinalizing
      <3>5. CASE \E first \in BOOLEAN : ObserveFinalize(s, first)
        BY <2>1, <3>1, <3>2, <3>5
      <3>6. CASE \E M \in SUBSET Exchanges : FinalizeMatch(s, M)
        <4>1. PICK M \in SUBSET Exchanges : FinalizeMatch(s, M)
          BY <3>6
        <4>2. Creditable(s, M)
          BY <3>1, <3>3, <4>1 DEF Creditable
        <4> QED
          BY <2>1, <3>1, <3>3, <4>1, <4>2
      <3>7. CASE FinalizeNote(s) \/ FinalizeIssue(s)
        BY <3>4, <3>7
      <3>8. CASE finalize'[s] = finalize[s]
        BY <2>1, <3>1, <3>8
      <3> QED
        BY <1>0, <3>5, <3>6, <3>7, <3>8, FinalizeCases
    <2> QED
      BY <2>2, <2>3 DEF Credits, Creditable, Completed
  <1> QED
    BY <1>1, <1>2

\* A finalize that is left alone keeps what it knows.
LEMMA WalkingKept ==
    ASSUME EvidenceInv, [Next]_vars, ~RunContext, NEW s \in Sessions,
           finalize'[s] = finalize[s], Walking(s),
           \A r \in ledger' :
             r.s = s /\ r.kind \in {"http.observed", "persistence.observed"} => r \in ledger
    PROVE  Walking(s)'
  <1>0. /\ seq \in Nat /\ finalize[s].upto \in Nat /\ finalize[s].upto <= seq
        /\ seqOf \in [Exchanges -> Nat] /\ watermark \in Nat
        /\ seq' \in Nat /\ seq' >= seq
        /\ finalize[s].match \subseteq Exchanges
    BY Unpacked, ClocksMove DEF Walking
  <1>1. Watermark' = Watermark
    BY Unpacked, Binding DEF Watermark
  <1>2. ASSUME NEW e \in Exchanges, e \in Observed(s)', seqOf'[e] <= finalize[s].upto
        PROVE  e \in finalize[s].snap
    <2>0. ExchangeStep(e) /\ phase[e] \in {"idle", "flying", "observed", "gone"} /\ seqOf[e] \in Nat
      BY Unpacked, ExchangeSteps
    <2>1. phase'[e] = "observed" /\ owner'[e] = s /\ seqOf'[e] > Watermark
      BY <1>1, <1>2 DEF Observed
    <2>2. CASE phase[e] = "observed"
      <3>1. owner[e] = s /\ seqOf[e] = seqOf'[e]
        BY <2>0, <2>1, <2>2 DEF ExchangeStep
      <3>2. e \in Observed(s)
        BY <2>1, <2>2, <3>1 DEF Observed
      <3> QED
        BY <1>2, <3>1, <3>2 DEF Walking
    <2>3. CASE phase[e] # "observed"
      <3>1. seqOf'[e] = seq + 1
        BY <2>0, <2>1, <2>3 DEF ExchangeStep
      <3> QED
        BY <1>0, <1>2, <3>1
    <2> QED
      BY <2>2, <2>3
  <1>3. ASSUME NEW e \in finalize[s].match, seqOf'[e] <= finalize[s].upto PROVE e \in finalize[s].snap
    <2>1. e \in Exchanges /\ Completed(e)
      BY <1>0 DEF EvidenceInv, Credits, Creditable
    <2>2. seqOf'[e] = seqOf[e]
      BY <2>1, Unpacked, ExchangeSteps DEF ExchangeStep, Completed
    <2> QED
      BY <1>3, <2>2 DEF Walking
  <1>4. \A e \in Observed(s)' : e \in Exchanges
    BY DEF Observed
  <1>5. finalize[s].upto <= seq'
    BY <1>0
  <1> QED
    BY <1>2, <1>3, <1>4, <1>5 DEF Walking

\* The snapshot of a finalize covers what it may still match.
LEMMA FinalizingStep == EvidenceInv /\ [Next]_vars => Finalizing'
  <1> SUFFICES ASSUME EvidenceInv, [Next]_vars PROVE Finalizing'
    OBVIOUS
  <1> DEFINE Ours(r, s) == r.s = s /\ r.kind \in {"http.observed", "persistence.observed"}
             Stands(s) ==
               /\ status'[s] = "unborn" => ~finalize'[s].begun
               /\ ~finalize'[s].begun => finalize'[s] = NotFinalizing /\ \A r \in ledger' : ~Ours(r, s)
               /\ "persistence" \in finalize'[s].todo => finalize'[s].begun /\ Walking(s)'
               /\ "persistence" \notin finalize'[s].todo => finalize'[s].match = {}
  <1>1. SUFFICES ASSUME NEW s \in Sessions PROVE Stands(s)
    BY DEF Finalizing
  <1>2. /\ finalize \in [Sessions -> FinalizeType] /\ seq \in Nat
        /\ status[s] = "unborn" => ~finalize[s].begun
        /\ ~finalize[s].begun => finalize[s] = NotFinalizing /\ \A r \in ledger : ~Ours(r, s)
        /\ "persistence" \in finalize[s].todo => finalize[s].begun /\ Walking(s)
        /\ "persistence" \notin finalize[s].todo => finalize[s].match = {}
    BY Unpacked DEF EvidenceInv, Finalizing
  <1>3. CASE RunContext
    <2>1. finalize'[s] = NotFinalizing /\ ledger' = {}
      BY <1>3, UnusedIsEmpty
    <2> QED
      BY <2>1 DEF NotFinalizing
  <1>4. ASSUME NEW first \in BOOLEAN, ObserveFinalize(s, first) PROVE Stands(s)
    <2> DEFINE f == [todo |-> {"transport", "persistence"}, snap |-> Observed(s),
                     upto |-> seq, match |-> {}, begun |-> TRUE]
    <2>1. \A r \in ledger : ~Ours(r, s)
      BY <1>2, <1>4 DEF ObserveFinalize
    <2>2. /\ finalize'[s].begun /\ "persistence" \in finalize'[s].todo /\ finalize'[s].match = {}
          /\ finalize'[s].upto = seq /\ finalize'[s].snap = Observed(s)
      <3>1. CASE first
        BY <1>2, <1>4, <3>1 DEF ObserveFinalize
      <3>2. CASE ~first
        BY <1>2, <1>4, <3>2 DEF ObserveFinalize
      <3> QED
        BY <3>1, <3>2
    <2>3. status'[s] # "unborn"
      BY <1>4 DEF ObserveFinalize
    <2>4. seq' = seq /\ seqOf' = seqOf /\ Observed(s)' = Observed(s)
      BY <1>4 DEF ObserveFinalize, Observed, Watermark, exVars
    <2>5. \A r \in ledger' : Ours(r, s) =>
            r.kind = "http.observed" /\ r.exs = Observed(s) /\ r.n = seq
      <3>1. CASE first
        <4>1. f \in FinalizeType
          BY <1>2, Unpacked DEF FinalizeType
        <4>2. ledger' = ledger \cup TransportRecord(s, f) /\ f.snap = Observed(s) /\ f.upto = seq
          BY <1>4, <3>1 DEF ObserveFinalize
        <4> HIDE DEF f
        <4> QED
          BY <2>1, <4>1, <4>2, Unpacked, TransportFields DEF EvidenceTyped
      <3>2. CASE ~first
        BY <1>4, <2>1, <3>2 DEF ObserveFinalize
      <3> QED
        BY <3>1, <3>2
    <2>6. Walking(s)'
      BY <1>2, <2>2, <2>4, <2>5 DEF Walking
    <2> QED
      BY <2>2, <2>3, <2>6
  <1>5. ASSUME NEW M \in SUBSET Exchanges, FinalizeMatch(s, M) PROVE Stands(s)
    <2>1. /\ finalize'[s].match = M /\ M \subseteq Observed(s)
          /\ finalize'[s].todo = finalize[s].todo /\ finalize'[s].begun = finalize[s].begun
          /\ finalize'[s].snap = finalize[s].snap /\ finalize'[s].upto = finalize[s].upto
          /\ "persistence" \in finalize[s].todo
      BY <1>2, <1>5 DEF FinalizeMatch, FinalizeType
    <2>2. /\ seq' = seq /\ seqOf' = seqOf /\ status' = status /\ ledger' = ledger
          /\ Observed(s)' = Observed(s)
      BY <1>5 DEF FinalizeMatch, Observed, Watermark, exVars
    <2>3. Walking(s)'
      BY <1>2, <2>1, <2>2 DEF Walking
    <2> QED
      BY <1>2, <2>1, <2>2, <2>3
  <1>6. CASE FinalizeNote(s) \/ FinalizeIssue(s)
    <2>1. /\ finalize'[s].begun /\ finalize'[s].todo = {} /\ finalize'[s].match = {}
          /\ status' = status
      BY <1>2, <1>6 DEF FinalizeNote, FinalizeIssue, NotFinalizing
    <2>2. finalize[s].match # {} \/ "persistence" \in finalize[s].todo
      BY <1>6 DEF FinalizeNote, FinalizeIssue
    <2>3. status'[s] # "unborn"
      BY <1>2, <2>1, <2>2
    <2> QED
      BY <2>1, <2>3
  <1>7. ASSUME ~RunContext,
               finalize'[s] = finalize[s], status'[s] = "unborn" => status[s] = "unborn",
               \A r \in ledger' : Ours(r, s) => r \in ledger
        PROVE  Stands(s)
    <2>1. "persistence" \in finalize[s].todo => Walking(s)'
      BY <1>2, <1>7, WalkingKept
    <2> QED
      BY <1>2, <1>7, <2>1
  <1> QED
    <2>1. EvidenceTyped
      BY Unpacked
    <2> HIDE DEF Stands
    <2> QED
      BY <1>3, <1>4, <1>5, <1>6, <1>7, <2>1, FinalizeCases

\* What a persistence record consumes was in the snapshot of the transport
\* record.
LEMMA TransportStep == EvidenceInv /\ [Next]_vars => TransportSeesConsumed'
  <1> SUFFICES ASSUME EvidenceInv, [Next]_vars,
                      NEW r \in ledger', NEW p \in ledger',
                      r.kind = "http.observed", p.kind = "persistence.observed", r.s = p.s,
                      NEW e \in p.exs, seqOf'[e] <= r.n
               PROVE  e \in r.exs
    BY DEF TransportSeesConsumed
  <1>1. EvidenceTyped /\ EvidenceTyped' /\ Finalizing /\ Credits
    BY Unpacked, TypeStep DEF EvidenceInv
  <1>2. r.s \in Sessions /\ p.s \in Sessions
    BY <1>1 DEF EvidenceTyped, TypeOK
  <1>3. CASE p \in ledger
    <2>1. e \in Exchanges /\ Completed(e)
      BY <1>1, <1>3, Unpacked DEF Credits, Creditable
    <2>2. seqOf'[e] = seqOf[e]
      BY <1>1, <2>1, ExchangeSteps DEF ExchangeStep, Completed
    <2>3. CASE r \in ledger
      BY <1>3, <2>2, <2>3 DEF EvidenceInv, TransportSeesConsumed
    <2>4. CASE r \notin ledger
      <3>1. finalize[r.s].begun /\ "persistence" \notin finalize[r.s].todo
        BY <1>1, <1>2, <1>3 DEF Finalizing, Walking
      <3>2. finalize[r.s].match = {}
        BY <1>1, <1>2, <3>1 DEF Finalizing
      <3>3. ~FinalizeNote(r.s) /\ ~FinalizeIssue(r.s) /\ ~ObserveFinalize(r.s, TRUE)
        BY <3>1, <3>2 DEF FinalizeNote, FinalizeIssue, ObserveFinalize
      <3> QED
        BY <1>1, <2>4, <3>3, NewRecords DEF Source
    <2> QED
      BY <2>3, <2>4
  <1>4. CASE p \notin ledger
    <2>1. p.exs = finalize[p.s].match /\ FinalizeIssue(p.s)
      BY <1>1, <1>4, NewRecords DEF Source
    <2>2. finalize[p.s].match # {} /\ seqOf' = seqOf
      BY <2>1 DEF FinalizeIssue
    <2>3. finalize[p.s].begun /\ Walking(p.s)
      BY <1>1, <1>2, <2>2 DEF Finalizing
    <2>4. r.exs = finalize[p.s].snap /\ r.n = finalize[p.s].upto
      <3>1. CASE r \in ledger
        BY <2>3, <3>1 DEF Walking
      <3>2. CASE r \notin ledger
        <4>1. ~ObserveFinalize(r.s, TRUE)
          BY <2>3 DEF ObserveFinalize
        <4> QED
          BY <1>1, <3>2, <4>1, NewRecords DEF Source
      <3> QED
        BY <3>1, <3>2
    <2> QED
      BY <2>1, <2>2, <2>3, <2>4 DEF Walking
  <1> QED
    BY <1>3, <1>4

\* A request that is credited completed within an interval of its session.
LEMMA WithinStep == EvidenceInv /\ [Next]_vars => RequestsWithin'
  <1> SUFFICES ASSUME EvidenceInv, [Next]_vars,
                      NEW r \in ledger', NEW e \in r.exs, r.kind = "http.request"
               PROVE  WithinNext(r.s, tickOf'[e])
    BY DEF RequestsWithin, WithinInterval, WithinNext, IsOpen
  <1>1. /\ EvidenceTyped /\ EvidenceTyped' /\ Credits /\ Clocked /\ IntervalsDisjoint
        /\ RequestsWithin
    BY Unpacked, TypeStep DEF EvidenceInv
  <1>2. r.s \in Sessions
    BY <1>1 DEF EvidenceTyped, TypeOK
  <1>3. e \in Exchanges /\ Completed(e) /\ WithinInterval(r.s, tickOf[e])
    <2>1. CASE r \in ledger
      BY <1>1, <2>1, Unpacked DEF Credits, Creditable, RequestsWithin
    <2>2. CASE r \notin ledger
      <3>1. PICK x \in Observed(r.s) : r.exs = {x} /\ WithinInterval(r.s, tickOf[x])
        BY <1>1, <2>2, NewRecords DEF Source
      <3> QED
        BY <3>1 DEF Observed, Completed
    <2> QED
      BY <2>1, <2>2
  <1>4. tickOf'[e] = tickOf[e]
    BY <1>1, <1>3, ExchangeSteps DEF ExchangeStep, Completed
  <1>5. tickOf[e] \in Nat /\ tickOf[e] <= tick
    BY <1>1, <1>3 DEF EvidenceTyped, TypeOK, Clocked
  <1>6. \A t \in Nat : t <= tick /\ WithinInterval(r.s, t) => WithinNext(r.s, t)
    BY <1>1, <1>2, IntervalStep, ClocksMove
  <1> QED
    BY <1>3, <1>4, <1>5, <1>6

\* No outcome before the end of the session, and exchanges records after a
\* pass only.
LEMMA OutcomeStep == EvidenceInv /\ [Next]_vars => OpenUndecided' /\ ExchangesOfPassedOnly'
  <1> SUFFICES ASSUME EvidenceInv, [Next]_vars PROVE OpenUndecided' /\ ExchangesOfPassedOnly'
    OBVIOUS
  <1>1. /\ EvidenceTyped /\ EvidenceTyped' /\ OpenUndecided /\ ExchangesOfPassedOnly
        /\ status \in [Sessions -> Statuses] /\ outcome \in [Sessions -> {NULL, "passed", "failed"}]
    BY Unpacked, TypeStep DEF EvidenceInv, EvidenceTyped, TypeOK
  <1>2. ASSUME UNCHANGED outcome,
               \A s \in Sessions : status'[s] \in {"unborn", "open"} => status[s] \in {"unborn", "open"}
        PROVE  OpenUndecided' /\ \A s \in Sessions : outcome[s] = "passed" => outcome'[s] = "passed"
    BY <1>1, <1>2 DEF OpenUndecided
  <1>3. ASSUME NEW s \in Sessions, NEW o \in {NULL, "passed", "failed"}, SessionClose(s, o)
        PROVE  OpenUndecided' /\ \A t \in Sessions : outcome[t] = "passed" => outcome'[t] = "passed"
    <2>1. /\ status[s] \in {"open", "outcome-pending"}
          /\ outcome[s] = NULL \/ o = NULL \/ o = outcome[s]
          /\ outcome'[s] = CloseOutcome(s, o)
          /\ \A t \in Sessions : t # s => outcome'[t] = outcome[t] /\ status'[t] = status[t]
      BY <1>1, <1>3 DEF SessionClose
    <2>2. status'[s] \in {"sealed", "outcome-pending"}
      <3>1. CASE status[s] = "open"
        BY <1>1, <1>3, <3>1 DEF SessionClose
      <3>2. CASE status[s] # "open"
        BY <1>1, <1>3, <2>1, <3>2 DEF SessionClose
      <3> QED
        BY <3>1, <3>2
    <2>3. OpenUndecided'
      BY <1>1, <2>1, <2>2 DEF OpenUndecided
    <2>4. ASSUME outcome[s] = "passed" PROVE outcome'[s] = "passed"
      <3>1. outcome[s] # NULL /\ status[s] # "open"
        BY <1>1, <2>4, EvidenceAssumption DEF OpenUndecided
      <3> QED
        BY <2>1, <2>4, <3>1 DEF CloseOutcome
    <2> QED
      BY <2>1, <2>3, <2>4
  <1>4. OpenUndecided' /\ \A s \in Sessions : outcome[s] = "passed" => outcome'[s] = "passed"
    <2>1. CASE RunContext \/ UNCHANGED vars
      BY <1>2, <2>1 DEF RunContext, vars, endVars
    <2>2. ASSUME NEW s \in Sessions, SessionOpen(s) \/ SessionRelease(s)
          PROVE  /\ UNCHANGED outcome
                 /\ \A t \in Sessions :
                      status'[t] \in {"unborn", "open"} => status[t] \in {"unborn", "open"}
      BY <1>1, <2>2 DEF SessionOpen, SessionRelease
    <2>3. ASSUME NEW s \in Sessions, NEW i, NEW e, NEW first, NEW M,
                 \/ IntervalOpen(s) \/ IntervalClose(s, i) \/ HttpObservation(s, e)
                 \/ FinalizeMatch(s, M) \/ ObserveFinalize(s, first)
                 \/ FinalizeNote(s) \/ FinalizeIssue(s)
          PROVE  UNCHANGED <<outcome, status>>
      BY <2>3 DEF IntervalOpen, IntervalClose, HttpObservation, FinalizeMatch, ObserveFinalize,
                  FinalizeNote, FinalizeIssue, endVars
    <2>4. ASSUME NEW e, NEW o, ExchangeStart(e, o) \/ ExchangeEnd(e) \/ ExchangeError(e)
          PROVE  UNCHANGED <<outcome, status>>
      BY <2>4 DEF ExchangeStart, ExchangeEnd, ExchangeError, endVars
    <2> QED
      BY <1>2, <1>3, <2>1, <2>2, <2>3, <2>4 DEF Next
  <1>5. ExchangesOfPassedOnly'
    <2>1. SUFFICES ASSUME NEW r \in ledger', r.kind = "http.exchanges" PROVE outcome'[r.s] = "passed"
      BY DEF ExchangesOfPassedOnly
    <2>2. r.s \in Sessions
      BY <1>1 DEF EvidenceTyped, TypeOK
    <2>3. CASE r \in ledger
      BY <1>1, <1>4, <2>1, <2>2, <2>3 DEF ExchangesOfPassedOnly
    <2>4. CASE r \notin ledger
      BY <1>1, <2>1, <2>4, NewRecords DEF Source
    <2> QED
      BY <2>3, <2>4
  <1> QED
    BY <1>4, <1>5

\* The invariant holds initially.
LEMMA EvidenceInit == Init => EvidenceInv
  <1> SUFFICES ASSUME Init PROVE EvidenceInv
    OBVIOUS
  <1>1. TypeOK
    <2>1. NotFinalizing \in FinalizeType
      BY DEF NotFinalizing, FinalizeType
    <2>2. finalize \in [Sessions -> FinalizeType]
      BY <2>1 DEF Init
    <2>3. intervals \in [Sessions -> Seq(Interval)]
      <3>1. << >> \in Seq(Interval)
        OBVIOUS
      <3> QED
        BY <3>1 DEF Init
    <2> QED
      BY <2>2, <2>3 DEF Init, TypeOK, FinalizeType, Statuses
  <1>2. IsFiniteSet(ledger) /\ ledger = {}
    BY FS_EmptySet DEF Init
  <1>3. Clocked /\ IntervalsDisjoint
    BY DEF Init, Clocked, IntervalsDisjoint
  <1>4. OldIsBehind /\ OpenUndecided
    BY DEF Init, OldIsBehind, OpenUndecided
  <1>5. \A s \in Sessions : finalize[s] = NotFinalizing
    BY DEF Init
  <1>6. Credits /\ Finalizing
    BY <1>2, <1>5 DEF Credits, Creditable, Finalizing, NotFinalizing
  <1> QED
    BY <1>1, <1>2, <1>3, <1>4, <1>6
    DEF EvidenceInv, RequestsWithin, TransportSeesConsumed, ExchangesOfPassedOnly

\* Every step keeps the invariant.
LEMMA EvidenceStep == EvidenceInv /\ [Next]_vars => EvidenceInv'
  <1> SUFFICES ASSUME EvidenceInv, [Next]_vars PROVE EvidenceInv'
    OBVIOUS
  <1>1. EvidenceTyped /\ Clocked /\ IntervalsDisjoint
    BY Unpacked DEF EvidenceInv
  <1>2. EvidenceTyped' /\ Clocked' /\ IntervalsDisjoint'
    BY <1>1, TypeStep, ClockedStep, IntervalStep, ClocksMove
  <1> QED
    BY <1>2, WithinStep, OldStep, CreditsStep, FinalizingStep, TransportStep, OutcomeStep
    DEF EvidenceInv, EvidenceTyped

\* The invariant holds in every state.
LEMMA EvidenceAlways == Spec => []EvidenceInv
  BY EvidenceInit, EvidenceStep, PTL DEF Spec

----------------------------------------------------------------------------
\* The clocks, the exchange log, the finalizes and the ledger keep their types.
THEOREM EvidenceTypeCorrect == Spec => []TypeOK
  BY EvidenceAlways, PTL DEF EvidenceInv

\* POST /run-context binds only a witness that has seen nothing and has no
\* proxied request in flight, so nothing that began under an older invocation
\* is ever signed under the bound context.
THEOREM EvidenceOfItsContext == Spec => []ContextPrecedesEvidence
  <1>1. EvidenceInv => ContextPrecedesEvidence
    BY DEF EvidenceInv, Credits, Creditable, ContextPrecedesEvidence
  <1> QED
    BY <1>1, EvidenceAlways, PTL

\* Records rest on exchanges of their own session, its action windows never
\* overlap, and a browser-credited request completed inside one of them.
THEOREM EvidenceOfItsSession == Spec => []RequestsWithinOwnIntervals
  <1>1. EvidenceInv => RequestsWithinOwnIntervals
    BY DEF EvidenceInv, Credits, Creditable, RequestsWithin, RequestsWithinOwnIntervals
  <1> QED
    BY <1>1, EvidenceAlways, PTL

\* The transport record of POST /observe/finalize has seen every exchange that
\* a persistence claim of the same finalize used, in whichever order the
\* claims are walked and whatever completes during the adapter's read.
THEOREM TransportComplete == Spec => []TransportSeesConsumed
  BY EvidenceAlways, PTL DEF EvidenceInv

\* issueSessionExchangesRecord is reached with the outcome passed only, and no
\* later close changes that outcome.
THEOREM ExchangesOfPassed == Spec => []ExchangesOfPassedOnly
  BY EvidenceAlways, PTL DEF EvidenceInv
=============================================================================

----------------------- MODULE PersistenceReadsProofs -----------------------
(***************************************************************************)
(* Proofs about PersistenceReads: its types, that a pre-observation stands *)
(* in one record and an intent is resolved once, and that the reads of a   *)
(* record lie on both sides of the mutation, for every number of sessions, *)
(* entities, requests and mutations.                                       *)
(***************************************************************************)
EXTENDS PersistenceReads, FiniteSetTheorems, TLAPS

Subjects == Keys \cup {NULL}
ObservationType == [id : Nat, key : Subjects, at : Nat]
RequestType ==
    [kind : {"action", "pre", "persistence", "intent"}, who : Sessions \cup {NULL},
     key : Subjects, step : {"context", "reading", "read", "driving", "driven", "done"},
     of : Subjects, anchor : Nat, token : Nat, before : ObservationType,
     sequence : 0..2, paired : BOOLEAN, saw : Nat]
IntervalType == [who : Sessions, key : Keys, end : Nat, at : Nat, acted : BOOLEAN]
LineType == [key : Keys, sequence : {1, 2}, paired : BOOLEAN]
RecordType ==
    [id : Nat, key : Subjects, anchor : Nat, intent : 0..2, before : ObservationType, at : Nat]
TestType == [stage : {"begun", "announced", "mutated", "posted"}, count : Nat]

TypeOK ==
    /\ channel \in {"browser", "server"} /\ writes \in Nat
    /\ requests \in Seq(RequestType) /\ ledger \subseteq RecordType
    /\ open \subseteq Sessions /\ intervals \in Seq(IntervalType)
    /\ tokens \subseteq ObservationType /\ pres \subseteq ObservationType
    /\ sequences \in [Keys -> Nat] /\ tests \in [Keys -> TestType]
    /\ file \in Seq(LineType) /\ queue \in Seq(LineType)
    /\ offset \in Nat /\ call \in Nat /\ answered \in Nat
    /\ expired \in BOOLEAN /\ repeated \in BOOLEAN

----------------------------------------------------------------------------
(* The invariant.                                                          *)

\* The read of request i is over.
Over(i) == requests[i].step \in {"driving", "driven", "done"}

\* What a request of each kind carries.
Shapes ==
    \A i \in DOMAIN requests :
      LET r == requests[i]
      IN /\ r.kind = "intent" <=> r.sequence # 0
         /\ r.token # 0 \/ r.before # Nothing => r.kind = "persistence"
         /\ r.kind \in {"persistence", "intent", "action"} => r.key \in Keys
         /\ r.kind = "intent" => r.anchor = 0 /\ r.of = r.key

\* An observation that is still to be used comes from a read that is over, and
\* there is one of each read, on the server channel one of each entity.
Unused ==
    /\ \A o \in tokens :
         o.id \in DOMAIN requests /\ Over(o.id) /\ requests[o.id].kind # "intent"
    /\ \A o \in pres :
         o.id \in DOMAIN requests /\ Over(o.id) /\ requests[o.id].kind = "intent"
    /\ \A o, p \in tokens : o.id = p.id => o = p
    /\ \A o, p \in pres : o.id = p.id \/ o.key = p.key => o = p

\* A before that a request holds has left the tokens and is held once.
Held ==
    \A i \in DOMAIN requests : requests[i].before # Nothing =>
      LET o == requests[i].before
      IN /\ o.id \in DOMAIN requests /\ Over(o.id) /\ requests[o.id].kind # "intent"
         /\ \A p \in tokens : p.id # o.id
         /\ \A j \in DOMAIN requests :
              j # i /\ requests[j].before # Nothing => requests[j].before.id # o.id

\* A record is of one finished request; an intent's before has left pres.
Accounts ==
    \A r \in ledger :
      /\ r.id \in DOMAIN requests /\ requests[r.id].step = "done"
      /\ requests[r.id].kind \in {"persistence", "intent"}
      /\ r.key = requests[r.id].key /\ r.intent = requests[r.id].sequence
      /\ requests[r.id].kind = "persistence" => r.before = requests[r.id].before
      /\ requests[r.id].kind = "intent" /\ r.before # Nothing =>
           /\ r.before.id \in DOMAIN requests /\ Over(r.before.id)
           /\ requests[r.before.id].kind = "intent"
           /\ \A o \in pres : o.id # r.before.id
      /\ \A q \in ledger :
           /\ q.id = r.id => q = r
           /\ q # r /\ r.before # Nothing => q.before.id # r.before.id

\* The witness has accepted every sequence number of a claim once.
Accepted ==
    /\ \A i \in DOMAIN requests :
         requests[i].sequence # 0 => requests[i].sequence <= sequences[requests[i].key]
    /\ \A i, j \in DOMAIN requests :
         requests[i].sequence # 0 /\ requests[i].key = requests[j].key
           /\ requests[i].sequence = requests[j].sequence => i = j

UseInv == Shapes /\ Unused /\ Held /\ Accounts /\ Accepted

\* Nothing was seen in the future.
Past ==
    /\ \A o \in tokens \cup pres : o.at <= writes
    /\ \A i \in DOMAIN requests : requests[i].saw <= writes
    /\ \A a \in DOMAIN intervals : intervals[a].at <= writes

\* The before of a persistence read precedes its after.
BeforeAfter ==
    \A i \in DOMAIN requests : requests[i].before # Nothing =>
      /\ requests[i].before.at <= writes
      /\ requests[i].before.key \in {NULL, requests[i].key}
      /\ requests[i].step = "read" => requests[i].before.at <= requests[i].saw

\* The action a persistence read is anchored to has ended.
Anchored ==
    \A i \in DOMAIN requests : requests[i].kind = "persistence" /\ requests[i].anchor # 0 =>
      LET a == requests[i].anchor
      IN /\ a \in DOMAIN intervals
         /\ intervals[a].key = requests[i].key /\ intervals[a].end # 0
         /\ requests[i].step = "read" => intervals[a].at <= requests[i].saw

\* Until a call times out, the witness works on the drain's intents one by one:
\* the only one under way is the one the drain awaits.
Alone ==
    \A i \in DOMAIN requests : requests[i].kind = "intent" /\ requests[i].step # "done" => i = call

\* So a pending before was seen no later than the after that will use it.
OneByOne ==
    ~expired =>
      /\ Alone
      /\ \A i \in DOMAIN requests, o \in pres :
           requests[i].kind = "intent" /\ requests[i].step = "read" => o.at <= requests[i].saw

\* ReadsSurroundTheMutation, and the anchors of records exist.
Surrounded ==
    /\ ReadsSurroundTheMutation
    /\ \A r \in ledger : r.anchor # 0 => r.anchor \in DOMAIN intervals

OrderInv == Past /\ BeforeAfter /\ Anchored /\ OneByOne /\ Surrounded

ReadsInv == TypeOK /\ UseInv /\ OrderInv
----------------------------------------------------------------------------
(* Types.                                                                  *)

\* What an arriving request does to the requests.
LEMMA Appended ==
    ASSUME requests \in Seq(RequestType), NEW r \in RequestType, requests' = Append(requests, r)
    PROVE  /\ requests' \in Seq(RequestType) /\ Len(requests') = Len(requests) + 1
           /\ DOMAIN requests = 1..Len(requests) /\ DOMAIN requests' = 1..Len(requests) + 1
           /\ \A i \in DOMAIN requests : requests'[i] = requests[i]
           /\ requests'[Len(requests) + 1] = r
  OBVIOUS

\* What a handler's continuation does to them.
LEMMA Updated ==
    ASSUME requests \in Seq(RequestType), NEW i \in DOMAIN requests, NEW r \in RequestType,
           requests' = [requests EXCEPT ![i] = r]
    PROVE  /\ requests' \in Seq(RequestType) /\ Len(requests') = Len(requests)
           /\ DOMAIN requests' = DOMAIN requests /\ DOMAIN requests = 1..Len(requests)
           /\ \A j \in DOMAIN requests : j # i => requests'[j] = requests[j]
           /\ requests'[i] = r
  OBVIOUS

\* The end of an interval is positive.
LEMMA EndsType == TypeOK => Ends \in Nat
  <1> SUFFICES ASSUME TypeOK PROVE Ends \in Nat
    OBVIOUS
  <1> DEFINE ended == {i \in DOMAIN intervals : intervals[i].end # 0}
  <1>1. DOMAIN intervals = 1..Len(intervals) /\ Len(intervals) \in Nat
    BY DEF TypeOK
  <1>2. IsFiniteSet(1..Len(intervals))
    BY <1>1, FS_Interval
  <1>3. IsFiniteSet(ended)
    BY <1>1, <1>2, FS_Subset
  <1> QED
    BY <1>3, FS_CardinalityType DEF Ends

\* Replacing an element of a sequence by another of the set.
LEMMA Replaced ==
    ASSUME NEW S, NEW s \in Seq(S), NEW i \in DOMAIN s, NEW e \in S
    PROVE  [s EXCEPT ![i] = e] \in Seq(S)
  OBVIOUS

\* Replacing an element that is not there changes nothing.
LEMMA Untouched ==
    ASSUME NEW S, NEW s \in Seq(S), NEW i, i \notin DOMAIN s, NEW e
    PROVE  [s EXCEPT ![i] = e] \in Seq(S)
  <1>1. s = [n \in 1..Len(s) |-> s[n]]
    OBVIOUS
  <1>2. [s EXCEPT ![i] = e] = [n \in 1..Len(s) |-> s[n]]
    BY <1>1
  <1> QED
    BY <1>1, <1>2

\* An interval that is ended is an interval.
LEMMA EndedType ==
    ASSUME TypeOK, NEW a \in DOMAIN intervals
    PROVE  /\ intervals[a] \in IntervalType
           /\ [intervals[a] EXCEPT !.end = Ends + 1] \in IntervalType
           /\ Ends + 1 \in Nat /\ Ends + 1 # 0
  <1>1. Ends + 1 \in Nat /\ Ends + 1 # 0
    BY EndsType
  <1>2. intervals[a] \in IntervalType
    BY DEF TypeOK
  <1> QED
    BY <1>1, <1>2 DEF IntervalType

\* The requests after the continuation of handler i to a step of its own.
LEMMA Moved ==
    ASSUME TypeOK, NEW i \in DOMAIN requests, NEW step, Moves(i, step),
           step \in {"context", "reading", "read", "driving", "driven", "done"}
    PROVE  /\ [requests[i] EXCEPT !.step = step] \in RequestType
           /\ requests' = [requests EXCEPT ![i] = [requests[i] EXCEPT !.step = step]]
  <1>1. requests[i] \in RequestType
    BY DEF TypeOK
  <1>2. [requests[i] EXCEPT !.step = step] \in RequestType
    BY <1>1 DEF RequestType
  <1> QED
    BY <1>2 DEF Moves

\* What a read has seen is an observation.
LEMMA SeenType ==
    ASSUME TypeOK, NEW i \in DOMAIN requests
    PROVE  Seen(i) \in ObservationType
  <1>1. requests[i] \in RequestType /\ i \in Nat
    BY DEF TypeOK
  <1> QED
    BY <1>1 DEF Seen, Observation, ObservationType, RequestType

\* So is the missing before.
LEMMA NothingType == Nothing \in ObservationType
  BY DEF Nothing, Observation, ObservationType, Subjects

\* A record that is issued has the type of records.
LEMMA IssuedType ==
    ASSUME TypeOK, NEW i \in DOMAIN requests, NEW before \in ObservationType
    PROVE  Issued(i, before) \subseteq RecordType
  <1>1. requests[i] \in RequestType /\ i \in Nat
    BY DEF TypeOK
  <1>2. [id |-> i, key |-> requests[i].key, anchor |-> requests[i].anchor,
         intent |-> requests[i].sequence, before |-> before, at |-> requests[i].saw] \in RecordType
    BY <1>1 DEF RequestType, RecordType
  <1> QED
    BY <1>2 DEF Issued, TypeOK

\* The before that a read takes is one of those it may take.
LEMMA TakenOne ==
    ASSUME NEW r, Taken(r) # {}
    PROVE  (CHOOSE o \in Taken(r) : TRUE) \in Taken(r)
  OBVIOUS

\* The arrival of a request keeps the types.
LEMMA ArrivesType ==
    ASSUME TypeOK, NEW r \in RequestType, Arrives(r), intervals' \in Seq(IntervalType)
    PROVE  TypeOK'
  <1>1. requests' \in Seq(RequestType)
    BY Appended DEF Arrives, TypeOK
  <1> QED
    BY <1>1 DEF Arrives, TypeOK, serverVars, drainVars

\* A request as it arrives has the type of requests.
LEMMA RequestIsTyped ==
    ASSUME NEW kind \in {"action", "pre", "persistence", "intent"},
           NEW who \in Sessions \cup {NULL}, NEW key \in Subjects
    PROVE  Request(kind, who, key) \in RequestType
  BY NothingType DEF Request, RequestType

\* Every step keeps the types.
LEMMA TypeStep == TypeOK /\ [Next]_vars => TypeOK'
  <1> SUFFICES ASSUME TypeOK, [Next]_vars PROVE TypeOK'
    OBVIOUS
  <1>a. ASSUME NEW s \in Sessions, NEW k \in Keys, NEW of \in {k, NULL}, BrowserAction(s, k, of)
        PROVE  TypeOK'
    <2>1. intervals' \in Seq(IntervalType)
      <3>2. WithoutOpen(s) \in Seq(IntervalType)
        <4>1. DOMAIN intervals = 1..Len(intervals) /\ Len(intervals) \in Nat
          BY DEF TypeOK
        <4>2. \A i \in 1..Len(intervals) : WithoutOpen(s)[i] \in IntervalType
          BY <4>1, EndedType DEF WithoutOpen
        <4> QED
          BY <4>1, <4>2 DEF WithoutOpen
      <3>3. [who |-> s, key |-> k, end |-> 0, at |-> 0, acted |-> FALSE] \in IntervalType
        BY DEF IntervalType
      <3> QED
        BY <1>a, <3>2, <3>3 DEF BrowserAction
    <2>2. [Request("action", s, k) EXCEPT !.of = of, !.anchor = Len(intervals) + 1] \in RequestType
      <3>1. Request("action", s, k) \in RequestType
        BY RequestIsTyped DEF Subjects
      <3>2. Len(intervals) + 1 \in Nat /\ of \in Subjects
        BY DEF TypeOK, Subjects
      <3> QED
        BY <3>1, <3>2 DEF RequestType
    <2> QED
      BY <1>a, <2>1, <2>2, ArrivesType DEF BrowserAction
  <1>b. ASSUME NEW s \in Sessions, NEW of \in Keys \cup {NULL}, PreObservation(s, of)
        PROVE  TypeOK'
    <2>1. Request("pre", s, of) \in RequestType
      BY RequestIsTyped DEF Subjects
    <2> QED
      BY <1>b, <2>1, ArrivesType DEF PreObservation, TypeOK
  <1>c. ASSUME NEW s \in Sessions, NEW k \in Keys, NEW t \in {0} \cup Preceding,
               NEW a \in 0..Len(intervals), Persistence(s, k, t, a)
        PROVE  TypeOK'
    <2>1. Request("persistence", s, k) \in RequestType
      BY RequestIsTyped DEF Subjects
    <2>2. t \in Nat /\ a \in Nat
      BY DEF Preceding, TypeOK
    <2>3. [Request("persistence", s, k) EXCEPT !.token = t, !.anchor = a] \in RequestType
      BY <2>1, <2>2 DEF RequestType
    <2> QED
      BY <1>c, <2>3, ArrivesType DEF Persistence, TypeOK
  <1>d. ASSUME NEW s \in Sessions, Close(s) PROVE TypeOK'
    BY <1>d DEF Close, TypeOK, serverVars, drainVars
  <1>e. ASSUME NEW k \in Keys, WritePre(k) \/ Mutate(k) \/ WritePost(k) PROVE TypeOK'
    <2>0. tests[k] \in TestType /\ file \in Seq(LineType) /\ writes \in Nat
      BY DEF TypeOK
    <2>1. file' \in Seq(LineType)
      <3>2. Line(k, 2, tests[k].count # 0) \in LineType
        BY DEF Line, LineType
      <3> QED
        <4>1. CASE WritePre(k)
          BY <2>0, <4>1 DEF WritePre, Line, LineType
        <4>2. CASE Mutate(k)
          BY <2>0, <4>2 DEF Mutate
        <4>3. CASE WritePost(k)
          BY <2>0, <3>2, <4>3 DEF WritePost
        <4> QED
          BY <1>e, <4>1, <4>2, <4>3
    <2>2. writes' \in Nat
      <3>1. CASE WritePre(k)
        BY <2>0, <3>1 DEF WritePre
      <3>2. CASE Mutate(k)
        BY <2>0, <3>2 DEF Mutate
      <3>3. CASE WritePost(k)
        BY <2>0, <3>3 DEF WritePost
      <3> QED
        BY <1>e, <3>1, <3>2, <3>3
    <2>3. PICK from, to \in {"begun", "announced", "mutated", "posted"} : Test(k, from, to)
      BY <1>e DEF WritePre, Mutate, WritePost
    <2>4. tests' \in [Keys -> TestType]
      <3>1. Len(file') \in Nat /\ tests[k].count \in Nat
        BY <2>0, <2>1 DEF TestType
      <3>2. [stage |-> to, count |-> IF file' = file THEN tests[k].count ELSE Len(file')] \in TestType
        BY <3>1 DEF TestType
      <3> QED
        BY <2>3, <3>2 DEF Test, TypeOK
    <2> QED
      BY <2>1, <2>2, <2>3, <2>4 DEF Test, TypeOK, browserVars, serverVars, drainVars
  <1>f. ASSUME NEW n \in 1..Len(file), Poll(n) PROVE TypeOK'
    <2>1. SubSeq(file, offset + 1, Len(file)) \in Seq(LineType)
      BY DEF TypeOK
    <2>2. queue' \in Seq(LineType)
      BY <1>f, <2>1 DEF Poll, TypeOK
    <2>3. repeated' \in BOOLEAN /\ offset' \in Nat
      BY <1>f DEF Poll, TypeOK
    <2> QED
      BY <1>f, <2>2, <2>3 DEF Poll, TypeOK, browserVars, serverVars
  <1>g. CASE Forward
    <2> DEFINE line == Head(queue)
    <2>0. line \in LineType /\ Tail(queue) \in Seq(LineType)
      BY <1>g DEF Forward, TypeOK
    <2>1. line.key \in Keys /\ line.sequence \in 0..2 /\ line.paired \in BOOLEAN
      BY <2>0 DEF LineType
    <2>2. [Request("intent", NULL, line.key) EXCEPT !.sequence = line.sequence,
             !.paired = line.paired] \in RequestType
      <3>1. Request("intent", NULL, line.key) \in RequestType
        BY <2>1, RequestIsTyped DEF Subjects
      <3> QED
        BY <2>1, <3>1 DEF RequestType
    <2>3. requests' \in Seq(RequestType)
      <3>1. requests \in Seq(RequestType)
        BY DEF TypeOK
      <3>2. CASE line.sequence > sequences[line.key]
        BY <1>g, <2>2, <3>1, <3>2, Appended DEF Forward
      <3>3. CASE ~(line.sequence > sequences[line.key])
        BY <1>g, <3>1, <3>3 DEF Forward
      <3> QED
        BY <3>2, <3>3
    <2>4. sequences' \in [Keys -> Nat]
      BY <1>g, <2>1 DEF Forward, TypeOK
    <2>5. call' \in Nat /\ answered' \in Nat
      BY <1>g, <2>3 DEF Forward, TypeOK
    <2> QED
      BY <1>g, <2>0, <2>3, <2>4, <2>5 DEF Forward, TypeOK, browserVars
  <1>h. CASE Timeout
    BY <1>h DEF Timeout, TypeOK, browserVars, serverVars
  <1>i. ASSUME NEW i \in DOMAIN requests, Begin(i) PROVE TypeOK'
    <2>1. requests[i] \in RequestType
      BY DEF TypeOK
    <2> DEFINE before == IF requests[i].token = 0 THEN Nothing
                           ELSE CHOOSE o \in Taken(requests[i]) : TRUE
    <2>2. before \in ObservationType
      <3>1. CASE requests[i].token = 0
        BY <3>1, NothingType
      <3>2. CASE requests[i].token # 0
        BY <1>i, <3>2, TakenOne DEF Begin, Taken, TypeOK
      <3> QED
        BY <3>1, <3>2
    <2>3. [requests[i] EXCEPT !.step = "reading", !.before = before] \in RequestType
      BY <2>1, <2>2 DEF RequestType
    <2>4. requests' = [requests EXCEPT ![i] = [requests[i] EXCEPT !.step = "reading", !.before = before]]
      BY <1>i DEF Begin
    <2>5. requests' \in Seq(RequestType)
      BY <2>3, <2>4, Updated DEF TypeOK
    <2>6. tokens' \subseteq ObservationType
      BY <1>i DEF Begin, Consumed, TypeOK
    <2> QED
      BY <1>i, <2>5, <2>6 DEF Begin, TypeOK, serverVars, drainVars
  <1>j. ASSUME NEW i \in DOMAIN requests, Observe(i) PROVE TypeOK'
    <2>1. requests[i] \in RequestType /\ writes \in Nat
      BY DEF TypeOK
    <2>2. [requests[i] EXCEPT !.step = "read", !.saw = writes] \in RequestType
      BY <2>1 DEF RequestType
    <2>3. requests' = [requests EXCEPT ![i] = [requests[i] EXCEPT !.step = "read", !.saw = writes]]
      BY <1>j DEF Observe
    <2>4. requests' \in Seq(RequestType)
      BY <2>2, <2>3, Updated DEF TypeOK
    <2> QED
      BY <1>j, <2>4 DEF Observe, TypeOK, browserVars, serverVars, drainVars
  <1>k. ASSUME NEW i \in DOMAIN requests, NEW step, Moves(i, step),
               step \in {"context", "reading", "read", "driving", "driven", "done"}
        PROVE  requests' \in Seq(RequestType)
    BY <1>k, Moved, Updated DEF TypeOK
  <1>l. ASSUME NEW i \in DOMAIN requests, PreObserved(i) PROVE TypeOK'
    <2>1. requests' \in Seq(RequestType)
      BY <1>k, <1>l DEF PreObserved, Continues
    <2>2. tokens' \subseteq ObservationType
      BY <1>l, SeenType DEF PreObserved, TypeOK
    <2> QED
      BY <1>l, <2>1, <2>2 DEF PreObserved, Continues, TypeOK, serverVars, drainVars
  <1>m. ASSUME NEW i \in DOMAIN requests, Drive(i) PROVE TypeOK'
    <2>1. requests' \in Seq(RequestType)
      BY <1>k, <1>m DEF Drive, Continues
    <2> QED
      BY <1>m, <2>1 DEF Drive, Continues, TypeOK, browserVars, serverVars, drainVars
  <1>n. ASSUME NEW i \in DOMAIN requests, Driven(i) PROVE TypeOK'
    <2>1. requests' \in Seq(RequestType)
      BY <1>k, <1>n DEF Driven, Continues
    <2>2. intervals' \in Seq(IntervalType)
      <3>1. ASSUME NEW a \in DOMAIN intervals, a = requests[i].anchor
            PROVE  intervals' \in Seq(IntervalType)
        <4> DEFINE v == [intervals[a] EXCEPT !.end = Ends + 1, !.at = writes, !.acted = TRUE]
        <4>1. v \in IntervalType
          BY EndedType DEF IntervalType, TypeOK
        <4>2. intervals' = [intervals EXCEPT ![a] = v]
          BY <1>n, <3>1 DEF Driven
        <4>3. intervals \in Seq(IntervalType)
          BY DEF TypeOK
        <4> HIDE DEF v
        <4> QED
          BY <4>1, <4>2, <4>3, Replaced
      <3>2. ASSUME NEW a, a \notin DOMAIN intervals, a = requests[i].anchor
            PROVE  intervals' \in Seq(IntervalType)
        <4> DEFINE v == [intervals[a] EXCEPT !.end = Ends + 1, !.at = writes, !.acted = TRUE]
        <4>1. intervals' = [intervals EXCEPT ![a] = v]
          BY <1>n, <3>2 DEF Driven
        <4>2. intervals \in Seq(IntervalType)
          BY DEF TypeOK
        <4> HIDE DEF v
        <4> QED
          BY <3>2, <4>1, <4>2, Untouched
      <3> QED
        BY <3>1, <3>2
    <2> QED
      BY <1>n, <2>1, <2>2 DEF Driven, Continues, TypeOK, serverVars, drainVars
  <1>o. ASSUME NEW i \in DOMAIN requests, PersistenceRead(i) PROVE TypeOK'
    <2>1. requests' \in Seq(RequestType)
      BY <1>k, <1>o DEF PersistenceRead, Continues
    <2>2. requests[i].before \in ObservationType
      <3>1. requests[i] \in RequestType
        BY DEF TypeOK
      <3> QED
        BY <3>1 DEF RequestType
    <2>3. ledger' \subseteq RecordType
      BY <1>o, <2>2, IssuedType DEF PersistenceRead
    <2> QED
      BY <1>o, <2>1, <2>3 DEF PersistenceRead, Continues, TypeOK, browserVars, serverVars, drainVars
  <1>p. ASSUME NEW i \in DOMAIN requests, Answers(i)
        PROVE  requests' \in Seq(RequestType) /\ call' \in Nat /\ answered' \in Nat
    BY <1>k, <1>p DEF Answers, TypeOK
  <1>q. ASSUME NEW i \in DOMAIN requests, IntentBefore(i) PROVE TypeOK'
    <2>1. requests' \in Seq(RequestType) /\ call' \in Nat /\ answered' \in Nat
      BY <1>p, <1>q DEF IntentBefore
    <2>2. pres' \subseteq ObservationType
      BY <1>q, SeenType DEF IntentBefore, TypeOK
    <2> QED
      BY <1>q, <2>1, <2>2 DEF IntentBefore, Answers, TypeOK, browserVars
  <1>r. ASSUME NEW i \in DOMAIN requests, IntentAfter(i) PROVE TypeOK'
    <2>1. requests' \in Seq(RequestType) /\ call' \in Nat /\ answered' \in Nat
      BY <1>p, <1>r DEF IntentAfter
    <2>2. ledger' \subseteq RecordType
      <3>1. Issued(i, Nothing) \subseteq RecordType
        BY NothingType, IssuedType
      <3>2. \A o \in pres : Issued(i, o) \subseteq RecordType
        BY IssuedType DEF TypeOK
      <3> QED
        BY <1>r, <3>1, <3>2 DEF IntentAfter, Stored, TypeOK
    <2> QED
      BY <1>r, <2>1, <2>2 DEF IntentAfter, Answers, TypeOK, browserVars
  <1>s. ASSUME NEW i \in DOMAIN requests, Fail(i) PROVE TypeOK'
    <2>1. requests' \in Seq(RequestType) /\ call' \in Nat /\ answered' \in Nat
      BY <1>p, <1>s DEF Fail
    <2>2. intervals' \in Seq(IntervalType)
      <3>2. DOMAIN intervals = 1..Len(intervals) /\ Len(intervals) \in Nat
        BY DEF TypeOK
      <3>3. \A j \in 1..Len(intervals) : intervals'[j] \in IntervalType
        BY <1>s, <3>2, EndedType DEF Fail
      <3> QED
        BY <1>s, <3>2, <3>3 DEF Fail
    <2> QED
      BY <1>s, <2>1, <2>2 DEF Fail, Answers, TypeOK, serverVars
  <1>t. CASE UNCHANGED vars
    BY <1>t DEF TypeOK, vars, browserVars, serverVars, drainVars
  <1> QED
    BY <1>a, <1>b, <1>c, <1>d, <1>e, <1>f, <1>g, <1>h, <1>i, <1>j, <1>l, <1>m, <1>n, <1>o,
       <1>q, <1>r, <1>s, <1>t DEF Next

----------------------------------------------------------------------------
(* Every pre-observation and every intent is used once.                    *)

\* What every continuation keeps of the requests.
Kept ==
    /\ DOMAIN requests' = DOMAIN requests
    /\ \A j \in DOMAIN requests :
         /\ requests'[j].kind = requests[j].kind /\ requests'[j].key = requests[j].key
         /\ requests'[j].sequence = requests[j].sequence /\ requests'[j].token = requests[j].token
         /\ requests'[j].anchor = requests[j].anchor /\ requests'[j].of = requests[j].of
         /\ Over(j) => Over(j)'
         /\ requests[j].step = "done" => requests'[j].step = "done"

\* Every continuation but Begin keeps the before too.
BeforeKept == \A j \in DOMAIN requests : requests'[j].before = requests[j].before

\* A handler that moves on keeps the before it holds, and every other request.
LEMMA MovesKeeps ==
    ASSUME TypeOK, NEW i \in DOMAIN requests, NEW step \in {"driving", "driven", "done"},
           Moves(i, step), requests[i].step # "done"
    PROVE  /\ Kept /\ BeforeKept /\ requests'[i].step = step /\ Over(i)'
           /\ \A j \in DOMAIN requests : requests'[j].saw = requests[j].saw
           /\ \A j \in DOMAIN requests : j # i => requests'[j] = requests[j]
  <1> DEFINE r == [requests[i] EXCEPT !.step = step]
  <1>1. requests[i] \in RequestType /\ requests \in Seq(RequestType)
    BY DEF TypeOK
  <1>2. r \in RequestType /\ requests' = [requests EXCEPT ![i] = r]
    BY Moved
  <1>3. /\ r.kind = requests[i].kind /\ r.key = requests[i].key /\ r.sequence = requests[i].sequence
        /\ r.token = requests[i].token /\ r.anchor = requests[i].anchor /\ r.of = requests[i].of
        /\ r.before = requests[i].before /\ r.saw = requests[i].saw /\ r.step = step
    BY <1>1 DEF RequestType
  <1> HIDE DEF r
  <1>4. /\ DOMAIN requests' = DOMAIN requests /\ requests'[i] = r
        /\ \A j \in DOMAIN requests : j # i => requests'[j] = requests[j]
    BY <1>1, <1>2, Updated
  <1> QED
    BY <1>3, <1>4 DEF Kept, BeforeKept, Over

\* A step that keeps the requests keeps their shapes,
LEMMA ShapesKept == Kept /\ BeforeKept /\ Shapes => Shapes'
  BY DEF Kept, BeforeKept, Shapes, Nothing, Observation

\* the sequence numbers accepted for them,
LEMMA AcceptedKept == Kept /\ sequences' = sequences /\ Accepted => Accepted'
  BY DEF Kept, Accepted

\* the observations nobody has used,
LEMMA UnusedKept == Kept /\ tokens' \subseteq tokens /\ pres' \subseteq pres /\ Unused => Unused'
  BY DEF Kept, Unused

\* the befores they hold,
LEMMA HeldKept == Kept /\ BeforeKept /\ tokens' \subseteq tokens /\ Held => Held'
  BY DEF Kept, BeforeKept, Held, Nothing, Observation

\* and the accounts of the ledger,
LEMMA AccountsKept ==
    Kept /\ BeforeKept /\ ledger' = ledger /\ pres' \subseteq pres /\ Accounts => Accounts'
  <1> SUFFICES ASSUME Kept, BeforeKept, ledger' = ledger, pres' \subseteq pres, Accounts,
                      NEW r \in ledger
               PROVE  /\ r.id \in DOMAIN requests' /\ requests'[r.id].step = "done"
                      /\ requests'[r.id].kind \in {"persistence", "intent"}
                      /\ r.key = requests'[r.id].key /\ r.intent = requests'[r.id].sequence
                      /\ requests'[r.id].kind = "persistence" => r.before = requests'[r.id].before
                      /\ requests'[r.id].kind = "intent" /\ r.before # Nothing =>
                           /\ r.before.id \in DOMAIN requests' /\ Over(r.before.id)'
                           /\ requests'[r.before.id].kind = "intent"
                           /\ \A o \in pres' : o.id # r.before.id
                      /\ \A q \in ledger :
                           /\ q.id = r.id => q = r
                           /\ q # r /\ r.before # Nothing => q.before.id # r.before.id
    BY DEF Accounts, Nothing, Observation, Over
  <1>1. r.id \in DOMAIN requests /\ requests[r.id].step = "done"
    BY DEF Accounts
  <1>2. requests[r.id].kind = "intent" /\ r.before # Nothing =>
          /\ r.before.id \in DOMAIN requests /\ Over(r.before.id)
          /\ requests[r.before.id].kind = "intent"
          /\ \A o \in pres : o.id # r.before.id
    BY DEF Accounts
  <1>3. \A q \in ledger :
           /\ q.id = r.id => q = r
           /\ q # r /\ r.before # Nothing => q.before.id # r.before.id
    BY DEF Accounts
  <1> QED
    <2>1. /\ r.id \in DOMAIN requests' /\ requests'[r.id].step = "done"
          /\ requests'[r.id].kind = requests[r.id].kind /\ requests'[r.id].key = requests[r.id].key
          /\ requests'[r.id].sequence = requests[r.id].sequence
          /\ requests'[r.id].before = requests[r.id].before
      BY <1>1 DEF Kept, BeforeKept
    <2>2. /\ requests[r.id].kind \in {"persistence", "intent"}
          /\ r.key = requests[r.id].key /\ r.intent = requests[r.id].sequence
          /\ requests[r.id].kind = "persistence" => r.before = requests[r.id].before
      BY DEF Accounts
    <2>3. requests[r.id].kind = "intent" /\ r.before # Nothing =>
            /\ r.before.id \in DOMAIN requests' /\ Over(r.before.id)'
            /\ requests'[r.before.id].kind = "intent"
            /\ \A o \in pres' : o.id # r.before.id
      BY <1>2 DEF Kept, Over
    <2> QED
      BY <1>3, <2>1, <2>2, <2>3

\* so that UseInv is kept by every step that issues and accepts nothing.
LEMMA UseKept ==
    ASSUME UseInv, Kept, BeforeKept, ledger' = ledger, sequences' = sequences,
           tokens' \subseteq tokens, pres' \subseteq pres
    PROVE  UseInv'
  <1>1. Shapes'
    BY ShapesKept DEF UseInv
  <1>2. Accepted'
    BY AcceptedKept DEF UseInv
  <1>3. Unused'
    BY UnusedKept DEF UseInv
  <1>4. Held'
    BY HeldKept DEF UseInv
  <1>5. Accounts'
    BY AccountsKept DEF UseInv
  <1> QED
    BY <1>1, <1>2, <1>3, <1>4, <1>5 DEF UseInv

\* A request that arrives changes no account; an intent's sequence is new.
LEMMA UseArrival ==
    ASSUME TypeOK, UseInv, NEW r \in RequestType, requests' = Append(requests, r),
           r.before = Nothing, r.kind = "intent" <=> r.sequence # 0,
           r.token # 0 => r.kind = "persistence",
           r.kind \in {"persistence", "intent", "action"} => r.key \in Keys,
           r.kind = "intent" => r.anchor = 0 /\ r.of = r.key,
           ledger' = ledger, tokens' = tokens, pres' = pres,
           IF r.sequence = 0 THEN sequences' = sequences
             ELSE /\ r.key \in Keys /\ r.sequence > sequences[r.key]
                  /\ sequences' = [sequences EXCEPT ![r.key] = r.sequence]
    PROVE  UseInv'
  <1> DEFINE n == Len(requests) + 1
  <1>1. /\ DOMAIN requests' = DOMAIN requests \cup {n} /\ n \notin DOMAIN requests
        /\ \A i \in DOMAIN requests : requests'[i] = requests[i]
        /\ requests'[n] = r
    BY Appended DEF TypeOK
  <1> HIDE DEF n
  <1>2. Shapes'
    BY <1>1 DEF UseInv, Shapes, Nothing, Observation
  <1>3. Unused'
    BY <1>1 DEF UseInv, Unused, Over
  <1>4. Held'
    BY <1>1 DEF UseInv, Held, Over, Nothing, Observation
  <1>5. Accounts'
    <2> SUFFICES ASSUME NEW q \in ledger
                 PROVE  /\ q.id \in DOMAIN requests' /\ requests'[q.id] = requests[q.id]
                        /\ requests[q.id].kind = "intent" /\ q.before # Nothing =>
                             /\ q.before.id \in DOMAIN requests'
                             /\ requests'[q.before.id] = requests[q.before.id]
      BY DEF UseInv, Accounts, Over, Nothing, Observation
    <2>1. q.id \in DOMAIN requests
      BY DEF UseInv, Accounts
    <2>2. requests[q.id].kind = "intent" /\ q.before # Nothing => q.before.id \in DOMAIN requests
      BY DEF UseInv, Accounts
    <2> QED
      BY <1>1, <2>1, <2>2
  <1>6. Accepted'
    <2>1. \A i \in DOMAIN requests : requests[i].sequence # 0 =>
            /\ requests[i].key \in Keys /\ requests[i].sequence \in Nat
            /\ requests[i].sequence <= sequences[requests[i].key]
      <3>1. \A i \in DOMAIN requests : requests[i] \in RequestType
        BY DEF TypeOK
      <3> QED
        BY <3>1 DEF UseInv, Accepted, Shapes, RequestType
    <2>2. r.sequence \in Nat
      BY DEF RequestType
    <2>3. sequences \in [Keys -> Nat]
      BY DEF TypeOK
    <2>4. CASE r.sequence = 0
      BY <1>1, <2>4 DEF UseInv, Accepted
    <2>5. CASE r.sequence # 0
      <3>1. \A i \in DOMAIN requests' :
              requests'[i].sequence # 0 => requests'[i].sequence <= sequences'[requests'[i].key]
        BY <1>1, <2>1, <2>2, <2>3, <2>5
      <3>2. \A i, j \in DOMAIN requests' :
              requests'[i].sequence # 0 /\ requests'[i].key = requests'[j].key
                /\ requests'[i].sequence = requests'[j].sequence => i = j
        <4>1. \A i \in DOMAIN requests :
                requests[i].sequence # 0 /\ requests[i].key = r.key => requests[i].sequence # r.sequence
          BY <2>1, <2>2, <2>3, <2>5
        <4> QED
          BY <1>1, <2>5, <4>1 DEF UseInv, Accepted
      <3> QED
        BY <3>1, <3>2 DEF Accepted
    <2> QED
      BY <2>4, <2>5
  <1> QED
    BY <1>2, <1>3, <1>4, <1>5, <1>6 DEF UseInv

\* What Begin and Observe do to the requests.
LEMMA BeginKeeps ==
    ASSUME TypeOK, TypeOK', NEW i \in DOMAIN requests, Begin(i)
    PROVE  /\ Kept /\ requests[i].step = "context" /\ requests'[i].step = "reading"
           /\ \A j \in DOMAIN requests : j # i => requests'[j] = requests[j]
           /\ requests'[i].saw = requests[i].saw
           /\ \/ requests[i].token = 0 /\ requests'[i].before = Nothing /\ tokens' \subseteq tokens
              \/ /\ requests[i].token # 0 /\ requests'[i].before \in Taken(requests[i])
                 /\ tokens' = tokens \ Taken(requests[i])
  <1> DEFINE before == IF requests[i].token = 0 THEN Nothing
                         ELSE CHOOSE o \in Taken(requests[i]) : TRUE
             r == [requests[i] EXCEPT !.step = "reading", !.before = before]
  <1>1. requests[i] \in RequestType /\ requests \in Seq(RequestType)
    BY DEF TypeOK
  <1>2. requests' = [requests EXCEPT ![i] = r]
    BY DEF Begin
  <1>3. /\ r.kind = requests[i].kind /\ r.key = requests[i].key /\ r.sequence = requests[i].sequence
        /\ r.token = requests[i].token /\ r.anchor = requests[i].anchor /\ r.of = requests[i].of
        /\ r.saw = requests[i].saw /\ r.step = "reading" /\ r.before = before
    BY <1>1 DEF RequestType
  <1>4. requests[i].token # 0 => before \in Taken(requests[i])
    BY TakenOne DEF Begin
  <1>5. requests[i].token = 0 => before = Nothing
    OBVIOUS
  <1> HIDE DEF before, r
  <1>6. /\ DOMAIN requests' = DOMAIN requests /\ requests'[i] = r
        /\ \A j \in DOMAIN requests : j # i => requests'[j] = requests[j]
    BY <1>1, <1>2
  <1>7. requests[i].step = "context" /\ tokens' = tokens \ Taken(requests[i])
    BY DEF Begin, Consumed
  <1> QED
    BY <1>3, <1>4, <1>5, <1>6, <1>7 DEF Kept, Over

\* A read ends: its request has seen the present, the others are as before.
LEMMA ObserveKeeps ==
    ASSUME TypeOK, NEW i \in DOMAIN requests, Observe(i)
    PROVE  /\ Kept /\ BeforeKept /\ requests'[i].step = "read" /\ requests'[i].saw = writes
           /\ \A j \in DOMAIN requests : j # i => requests'[j] = requests[j]
  <1> DEFINE r == [requests[i] EXCEPT !.step = "read", !.saw = writes]
  <1>1. requests[i] \in RequestType /\ requests \in Seq(RequestType)
    BY DEF TypeOK
  <1>2. requests' = [requests EXCEPT ![i] = r] /\ requests[i].step = "reading"
    BY DEF Observe
  <1>3. /\ r.kind = requests[i].kind /\ r.key = requests[i].key /\ r.sequence = requests[i].sequence
        /\ r.token = requests[i].token /\ r.anchor = requests[i].anchor /\ r.of = requests[i].of
        /\ r.before = requests[i].before /\ r.saw = writes /\ r.step = "read"
    BY <1>1 DEF RequestType
  <1> HIDE DEF r
  <1>4. /\ DOMAIN requests' = DOMAIN requests /\ requests'[i] = r
        /\ \A j \in DOMAIN requests : j # i => requests'[j] = requests[j]
    BY <1>1, <1>2
  <1> QED
    BY <1>2, <1>3, <1>4 DEF Kept, BeforeKept, Over

\* UseInv, when the adapter's context of a request is there.
LEMMA UseBegin ==
    ASSUME TypeOK, TypeOK', UseInv, NEW i \in DOMAIN requests, Begin(i)
    PROVE  UseInv'
  <1>1. /\ Kept /\ requests[i].step = "context"
        /\ \A j \in DOMAIN requests : j # i => requests'[j] = requests[j]
        /\ tokens' \subseteq tokens /\ ledger' = ledger /\ pres' = pres /\ sequences' = sequences
    BY BeginKeeps DEF Begin, serverVars, Consumed
  <1>2. \/ requests'[i].before = Nothing
        \/ /\ requests[i].token # 0 /\ requests'[i].before \in tokens
           /\ requests'[i].before.id = requests[i].token
           /\ \A p \in tokens' : p.id # requests[i].token
    <2>1. CASE requests[i].token = 0
      BY <2>1, BeginKeeps
    <2>2. CASE requests[i].token # 0
      <3>1. /\ requests'[i].before \in Taken(requests[i])
            /\ tokens' = tokens \ Taken(requests[i])
        BY <2>2, BeginKeeps
      <3> DEFINE o == requests'[i].before
      <3>2. o \in tokens /\ o.id = requests[i].token
        BY <3>1 DEF Taken
      <3>3. \A p \in tokens : p.id = o.id => p = o
        BY <3>2 DEF UseInv, Unused
      <3> QED
        BY <2>2, <3>1, <3>2, <3>3
    <2> QED
      BY <2>1, <2>2
  <1>3. Shapes'
    <2>1. requests[i].token # 0 => requests[i].kind = "persistence"
      BY DEF UseInv, Shapes
    <2> QED
      BY <1>1, <1>2, <2>1 DEF UseInv, Shapes, Kept, Nothing, Observation
  <1>4. Accepted' /\ Unused'
    BY <1>1, AcceptedKept, UnusedKept DEF UseInv
  <1>5. Held'
    <2> SUFFICES ASSUME NEW j \in DOMAIN requests, requests'[j].before # Nothing
                 PROVE  LET o == requests'[j].before
                        IN /\ o.id \in DOMAIN requests /\ requests'[o.id].kind # "intent"
                           /\ requests'[o.id].step \in {"driving", "driven", "done"}
                           /\ \A p \in tokens' : p.id # o.id
                           /\ \A k \in DOMAIN requests :
                                k # j /\ requests'[k].before # Nothing => requests'[k].before.id # o.id
      BY <1>1 DEF Kept, Held, Nothing, Observation, Over
    <2>1. \A k \in DOMAIN requests : requests[k].before # Nothing =>
            /\ requests[k].before.id \in DOMAIN requests /\ Over(requests[k].before.id)
            /\ requests[requests[k].before.id].kind # "intent"
            /\ \A p \in tokens : p.id # requests[k].before.id
      BY DEF UseInv, Held
    <2>2. CASE j = i
      <3> DEFINE o == requests'[i].before
      <3>1. o \in tokens /\ o.id = requests[i].token /\ \A p \in tokens' : p.id # o.id
        BY <1>2, <2>2
      <3>2. o.id \in DOMAIN requests /\ Over(o.id) /\ requests[o.id].kind # "intent"
        BY <3>1 DEF UseInv, Unused
      <3>3. /\ requests'[o.id].step \in {"driving", "driven", "done"}
            /\ requests'[o.id].kind # "intent"
        BY <1>1, <3>2 DEF Kept, Over
      <3>4. \A k \in DOMAIN requests : k # i /\ requests'[k].before # Nothing => requests'[k].before.id # o.id
        BY <1>1, <2>1, <3>1
      <3> QED
        BY <2>2, <3>1, <3>2, <3>3, <3>4
    <2>3. CASE j # i
      <3> DEFINE o == requests[j].before
      <3>1. requests'[j].before = o /\ o # Nothing
        BY <1>1, <2>3
      <3>2. /\ requests'[o.id].step \in {"driving", "driven", "done"}
            /\ requests'[o.id].kind # "intent" /\ o.id \in DOMAIN requests
        BY <1>1, <2>1, <3>1 DEF Kept, Over
      <3>3. \A p \in tokens' : p.id # o.id
        BY <1>1, <2>1, <3>1
      <3>4. \A k \in DOMAIN requests : k # j /\ requests'[k].before # Nothing => requests'[k].before.id # o.id
        <4> SUFFICES ASSUME NEW k \in DOMAIN requests, k # j, requests'[k].before # Nothing
                     PROVE  requests'[k].before.id # o.id
          OBVIOUS
        <4>1. CASE k = i
          BY <1>2, <2>1, <3>1, <4>1
        <4>2. CASE k # i
          BY <1>1, <3>1, <4>2 DEF UseInv, Held
        <4> QED
          BY <4>1, <4>2
      <3> QED
        BY <3>1, <3>2, <3>3, <3>4
    <2> QED
      BY <2>2, <2>3
  <1>6. Accounts'
    <2> SUFFICES ASSUME NEW q \in ledger
                 PROVE  /\ q.id \in DOMAIN requests' /\ requests'[q.id] = requests[q.id]
                        /\ requests[q.id].kind = "intent" /\ q.before # Nothing =>
                             /\ q.before.id \in DOMAIN requests' /\ Over(q.before.id)'
                             /\ requests'[q.before.id].kind = "intent"
      BY <1>1 DEF UseInv, Accounts, Nothing, Observation
    <2>1. q.id \in DOMAIN requests /\ requests[q.id].step = "done"
      BY DEF UseInv, Accounts
    <2>2. requests[q.id].kind = "intent" /\ q.before # Nothing =>
            /\ q.before.id \in DOMAIN requests /\ Over(q.before.id)
            /\ requests[q.before.id].kind = "intent"
      BY DEF UseInv, Accounts
    <2> QED
      BY <1>1, <2>1, <2>2 DEF Kept, Over
  <1> QED
    BY <1>3, <1>4, <1>5, <1>6 DEF UseInv

\* UseInv, when a pre-observation is stored.
LEMMA UsePreObserved ==
    ASSUME TypeOK, UseInv, NEW i \in DOMAIN requests, PreObserved(i)
    PROVE  UseInv'
  <1>1. /\ Kept /\ BeforeKept /\ Over(i)' /\ ~Over(i)
        /\ ledger' = ledger /\ pres' = pres /\ sequences' = sequences
        /\ requests[i].kind # "intent" /\ tokens' = tokens \cup {Seen(i)}
    BY MovesKeeps DEF PreObserved, Continues, serverVars, Over
  <1>2. Seen(i).id = i
    BY DEF Seen, Observation
  <1>3. Shapes' /\ Accepted' /\ Accounts'
    BY <1>1, ShapesKept, AcceptedKept, AccountsKept DEF UseInv
  <1>4. \A o \in tokens : o.id # i
    BY <1>1 DEF UseInv, Unused
  <1>5. Unused'
    <2>1. \A o \in tokens' :
            /\ o.id \in DOMAIN requests' /\ requests'[o.id].kind # "intent"
            /\ requests'[o.id].step \in {"driving", "driven", "done"}
      BY <1>1, <1>2 DEF UseInv, Unused, Kept, Over
    <2>2. \A o, p \in tokens' : o.id = p.id => o = p
      BY <1>1, <1>2, <1>4 DEF UseInv, Unused
    <2>3. \A o \in pres' :
            /\ o.id \in DOMAIN requests' /\ requests'[o.id].kind = "intent"
            /\ requests'[o.id].step \in {"driving", "driven", "done"}
      BY <1>1 DEF UseInv, Unused, Kept, Over
    <2>4. \A o, p \in pres' : o.id = p.id \/ o.key = p.key => o = p
      BY <1>1 DEF UseInv, Unused
    <2> QED
      BY <2>1, <2>2, <2>3, <2>4 DEF Unused, Over
  <1>6. Held'
    <2>1. \A j \in DOMAIN requests : requests[j].before # Nothing => requests[j].before.id # i
      BY <1>1 DEF UseInv, Held
    <2> QED
      BY <1>1, <1>2, <2>1 DEF UseInv, Held, Kept, BeforeKept, Over, Nothing, Observation
  <1> QED
    BY <1>3, <1>5, <1>6 DEF UseInv

\* A record that a finishing request adds to the ledger keeps the accounts.
LEMMA AccountsIssued ==
    ASSUME TypeOK, UseInv, Kept, BeforeKept, NEW i \in DOMAIN requests,
           requests[i].step # "done", requests'[i].step = "done",
           requests[i].kind \in {"persistence", "intent"}, NEW before,
           pres' \subseteq pres, ledger' = Issued(i, before),
           requests[i].kind = "persistence" => before = requests[i].before,
           requests[i].kind = "intent" /\ before # Nothing =>
             before \in pres /\ \A o \in pres' : o.id # before.id
    PROVE  Accounts'
  <1> DEFINE n == [id |-> i, key |-> requests[i].key, anchor |-> requests[i].anchor,
                   intent |-> requests[i].sequence, before |-> before, at |-> requests[i].saw]
  <1>1. ledger' = ledger \cup {n}
    BY DEF Issued
  <1>2. n.id = i /\ n.key = requests[i].key /\ n.intent = requests[i].sequence /\ n.before = before
    OBVIOUS
  <1> HIDE DEF n
  <1>3. \A q \in ledger : q.id \in DOMAIN requests /\ q.id # i
    BY DEF UseInv, Accounts
  <1>4. \A r \in ledger' :
          /\ r.id \in DOMAIN requests' /\ requests'[r.id].step = "done"
          /\ requests'[r.id].kind \in {"persistence", "intent"}
          /\ r.key = requests'[r.id].key /\ r.intent = requests'[r.id].sequence
          /\ requests'[r.id].kind = "persistence" => r.before = requests'[r.id].before
    <2>1. \A r \in ledger :
            /\ r.id \in DOMAIN requests /\ requests[r.id].step = "done"
            /\ requests[r.id].kind \in {"persistence", "intent"}
            /\ r.key = requests[r.id].key /\ r.intent = requests[r.id].sequence
            /\ requests[r.id].kind = "persistence" => r.before = requests[r.id].before
      BY DEF UseInv, Accounts
    <2> QED
      BY <1>1, <1>2, <2>1 DEF Kept, BeforeKept
  <1>5. \A r \in ledger' : requests'[r.id].kind = "intent" /\ r.before # Nothing =>
          /\ r.before.id \in DOMAIN requests'
          /\ requests'[r.before.id].step \in {"driving", "driven", "done"}
          /\ requests'[r.before.id].kind = "intent"
          /\ \A o \in pres' : o.id # r.before.id
    <2>1. \A r \in ledger' : requests[r.id].kind = "intent" /\ r.before # Nothing =>
            /\ r.before.id \in DOMAIN requests /\ Over(r.before.id)
            /\ requests[r.before.id].kind = "intent"
            /\ \A o \in pres' : o.id # r.before.id
      <3> SUFFICES ASSUME NEW r \in ledger', requests[r.id].kind = "intent", r.before # Nothing
                   PROVE  /\ r.before.id \in DOMAIN requests /\ Over(r.before.id)
                          /\ requests[r.before.id].kind = "intent"
                          /\ \A o \in pres' : o.id # r.before.id
        OBVIOUS
      <3>1. CASE r \in ledger
        BY <3>1 DEF UseInv, Accounts
      <3>2. CASE r = n
        BY <1>2, <3>2 DEF UseInv, Unused
      <3> QED
        BY <1>1, <3>1, <3>2
    <2>2. \A r \in ledger' : r.id \in DOMAIN requests
      BY <1>1, <1>2, <1>3
    <2> QED
      BY <2>1, <2>2 DEF Kept, Over
  <1>6. \A r, q \in ledger' :
          /\ q.id = r.id => q = r
          /\ q # r /\ r.before # Nothing => q.before.id # r.before.id
    <2>0. \A q \in ledger : q.before \in ObservationType
      BY DEF TypeOK, RecordType
    <2>1. \A q \in ledger : before # Nothing => q.before.id # before.id
      <3> SUFFICES ASSUME NEW q \in ledger, before # Nothing, q.before.id = before.id PROVE FALSE
        OBVIOUS
      <3>1. /\ q.id \in DOMAIN requests /\ q.id # i
            /\ requests[q.id].kind \in {"persistence", "intent"}
        BY <1>3 DEF UseInv, Accounts
      <3>2. before.id \in DOMAIN requests
        BY DEF UseInv, Held, Unused
      <3>3. before.id # 0
        BY <3>2 DEF TypeOK
      <3>4. q.before # Nothing
        BY <3>3 DEF Nothing, Observation
      <3>5. CASE requests[i].kind = "persistence"
        <4>1. before = requests[i].before /\ requests[before.id].kind # "intent"
          BY <3>5 DEF UseInv, Held
        <4>2. CASE requests[q.id].kind = "persistence"
          <5>1. q.before = requests[q.id].before
            BY <4>2 DEF UseInv, Accounts
          <5> QED
            BY <3>1, <3>4, <4>1, <5>1 DEF UseInv, Held
        <4>3. CASE requests[q.id].kind = "intent"
          BY <3>4, <4>1, <4>3 DEF UseInv, Accounts
        <4> QED
          BY <3>1, <4>2, <4>3
      <3>6. CASE requests[i].kind = "intent"
        <4>1. before \in pres /\ requests[before.id].kind = "intent"
          BY <3>6 DEF UseInv, Unused
        <4>2. CASE requests[q.id].kind = "persistence"
          <5>1. q.before = requests[q.id].before
            BY <4>2 DEF UseInv, Accounts
          <5> QED
            BY <3>1, <3>4, <4>1, <5>1 DEF UseInv, Held
        <4>3. CASE requests[q.id].kind = "intent"
          BY <3>4, <4>1, <4>3 DEF UseInv, Accounts
        <4> QED
          BY <3>1, <4>2, <4>3
      <3> QED
        BY <3>5, <3>6
    <2>2. \A q \in ledger : q.before # Nothing => q.before.id # before.id
      <3> SUFFICES ASSUME NEW q \in ledger, q.before # Nothing, q.before.id = before.id PROVE FALSE
        OBVIOUS
      <3>1. before = Nothing
        BY <2>1
      <3>2. q.before.id \in DOMAIN requests
        BY DEF UseInv, Accounts, Held
      <3> QED
        BY <3>1, <3>2 DEF Nothing, Observation, TypeOK
    <2>3. \A r, q \in ledger :
            /\ q.id = r.id => q = r
            /\ q # r /\ r.before # Nothing => q.before.id # r.before.id
      BY DEF UseInv, Accounts
    <2> QED
      BY <1>1, <1>2, <1>3, <2>1, <2>2, <2>3
  <1> QED
    BY <1>4, <1>5, <1>6 DEF Accounts, Over, Nothing, Observation

\* What the end of an intent's probe does.
LEMMA AnswersKeeps ==
    ASSUME TypeOK, NEW i \in DOMAIN requests, Answers(i), requests[i].step # "done"
    PROVE  /\ Kept /\ BeforeKept /\ requests'[i].step = "done"
           /\ \A j \in DOMAIN requests : requests'[j].saw = requests[j].saw
           /\ \A j \in DOMAIN requests : j # i => requests'[j] = requests[j]
  BY MovesKeeps DEF Answers

\* UseInv, when the before of an intent is stored.
LEMMA UseIntentBefore ==
    ASSUME TypeOK, UseInv, NEW i \in DOMAIN requests, IntentBefore(i)
    PROVE  UseInv'
  <1>1. /\ Kept /\ BeforeKept /\ requests'[i].step = "done" /\ ~Over(i)
        /\ ledger' = ledger /\ tokens' = tokens /\ sequences' = sequences
        /\ requests[i].kind = "intent" /\ requests[i].of = requests[i].key
        /\ \A j \in DOMAIN requests : j # i => requests'[j] = requests[j]
    BY AnswersKeeps DEF IntentBefore, Is, browserVars, Over, UseInv, Shapes
  <1>2. Seen(i).id = i /\ Seen(i).key = requests[i].key
    BY <1>1 DEF Seen, Observation
  <1>3. Shapes' /\ Accepted' /\ Held'
    BY <1>1, ShapesKept, AcceptedKept, HeldKept DEF UseInv
  <1>4. CASE pres' = pres
    BY <1>1, <1>4, UseKept
  <1>5. CASE Stored(requests[i].key) = {} /\ pres' = pres \cup {Seen(i)}
    <2>1. Unused'
      <3>1. \A o \in tokens' :
              /\ o.id \in DOMAIN requests' /\ requests'[o.id].kind # "intent"
              /\ requests'[o.id].step \in {"driving", "driven", "done"}
        BY <1>1 DEF UseInv, Unused, Kept, Over
      <3>2. \A o \in pres :
              /\ o.id \in DOMAIN requests' /\ requests'[o.id].kind = "intent"
              /\ requests'[o.id].step \in {"driving", "driven", "done"}
        BY <1>1 DEF UseInv, Unused, Kept, Over
      <3>3. \A o \in pres : o.id # i /\ o.key # requests[i].key
        BY <1>1, <1>5 DEF UseInv, Unused, Stored
      <3>4. \A o, p \in pres' : o.id = p.id \/ o.key = p.key => o = p
        BY <1>2, <1>5, <3>3 DEF UseInv, Unused
      <3>5. \A o, p \in tokens' : o.id = p.id => o = p
        BY <1>1 DEF UseInv, Unused
      <3> QED
        BY <1>1, <1>2, <1>5, <3>1, <3>2, <3>4, <3>5 DEF Unused, Over, Kept
    <2>2. Accounts'
      <3> SUFFICES ASSUME NEW r \in ledger
                   PROVE  /\ r.id \in DOMAIN requests' /\ requests'[r.id] = requests[r.id]
                          /\ requests[r.id].kind = "intent" /\ r.before # Nothing =>
                               /\ r.before.id \in DOMAIN requests'
                               /\ requests'[r.before.id] = requests[r.before.id]
                               /\ r.before.id # i
        BY <1>1, <1>2, <1>5 DEF UseInv, Accounts, Over, Nothing, Observation
      <3>1. r.id \in DOMAIN requests /\ requests[r.id].step = "done"
        BY DEF UseInv, Accounts
      <3>2. requests[r.id].kind = "intent" /\ r.before # Nothing =>
              r.before.id \in DOMAIN requests /\ Over(r.before.id)
        BY DEF UseInv, Accounts
      <3> QED
        BY <1>1, <3>1, <3>2 DEF Kept, Over
    <2> QED
      BY <1>3, <2>1, <2>2 DEF UseInv
  <1> QED
    BY <1>4, <1>5 DEF IntentBefore

\* UseInv, when an intent takes its before and issues its record.
LEMMA UseIntentAfter ==
    ASSUME TypeOK, UseInv, NEW i \in DOMAIN requests, IntentAfter(i)
    PROVE  UseInv'
  <1> DEFINE k == requests[i].key
  <1>1. /\ Kept /\ BeforeKept /\ requests'[i].step = "done" /\ requests[i].step # "done"
        /\ tokens' = tokens /\ sequences' = sequences /\ requests[i].kind = "intent"
        /\ pres' = pres \ Stored(k)
    BY AnswersKeeps DEF IntentAfter, Is, browserVars
  <1>2. Shapes' /\ Accepted' /\ Unused' /\ Held'
    BY <1>1, ShapesKept, AcceptedKept, UnusedKept, HeldKept DEF UseInv
  <1>3. Accounts'
    <2>1. CASE ledger' = ledger
      BY <1>1, <2>1, AccountsKept DEF UseInv
    <2>2. CASE ledger' = Issued(i, Nothing)
      BY <1>1, <2>2, AccountsIssued
    <2>3. ASSUME NEW o \in Stored(k), ledger' = Issued(i, o) PROVE Accounts'
      <3>1. o \in pres /\ \A p \in pres' : p.id # o.id
        BY <1>1, <2>3 DEF Stored, UseInv, Unused
      <3> QED
        BY <1>1, <2>3, <3>1, AccountsIssued
    <2>4. \/ ledger' = ledger \/ ledger' = Issued(i, Nothing)
          \/ \E o \in Stored(k) : ledger' = Issued(i, o)
      <3>1. CASE ~requests[i].paired
        BY <3>1 DEF IntentAfter
      <3>2. CASE requests[i].paired
        <4>1. ledger' = ledger \cup UNION {Issued(i, o) : o \in Stored(k)}
          BY <3>2 DEF IntentAfter
        <4>2. \A o, p \in Stored(k) : o = p
          BY DEF Stored, UseInv, Unused
        <4>3. CASE Stored(k) = {}
          BY <4>1, <4>3
        <4>4. ASSUME NEW o \in Stored(k) PROVE ledger' = Issued(i, o)
          <5>1. Stored(k) = {o}
            BY <4>2, <4>4
          <5> QED
            BY <4>1, <5>1 DEF Issued
        <4> QED
          BY <4>3, <4>4
      <3> QED
        BY <3>1, <3>2
    <2> QED
      BY <2>1, <2>2, <2>3, <2>4
  <1> QED
    BY <1>2, <1>3 DEF UseInv

\* The arriving requests, as the lemmas need them.
LEMMA RequestShape ==
    ASSUME NEW kind \in {"action", "pre", "persistence", "intent"},
           NEW who \in Sessions \cup {NULL}, NEW key \in Subjects
    PROVE  LET r == Request(kind, who, key)
           IN /\ r.kind = kind /\ r.who = who /\ r.key = key /\ r.of = key /\ r.step = "context"
              /\ r.anchor = 0 /\ r.token = 0 /\ r.before = Nothing /\ r.sequence = 0 /\ r.saw = 0
  BY DEF Request

\* Every arrival is the append of one fresh request.
Fresh(r) ==
    /\ r \in RequestType /\ r.step = "context" /\ r.before = Nothing /\ r.saw = 0
    /\ requests' = Append(requests, r)
    /\ UNCHANGED <<writes, ledger, tokens, pres, expired>>

\* The request that an engine action adds.
LEMMA ActionArrives ==
    ASSUME TypeOK, NEW s \in Sessions, NEW k \in Keys, NEW of \in {k, NULL}, BrowserAction(s, k, of)
    PROVE  \E r : /\ Fresh(r) /\ r.kind = "action" /\ r.key = k /\ r.sequence = 0 /\ r.token = 0
                  /\ UNCHANGED <<sequences, call>>
  <1> DEFINE q == Request("action", s, k)
             r == [q EXCEPT !.of = of, !.anchor = Len(intervals) + 1]
  <1>1. /\ q \in RequestType /\ q.kind = "action" /\ q.key = k /\ q.step = "context"
        /\ q.token = 0 /\ q.before = Nothing /\ q.sequence = 0 /\ q.saw = 0
    BY RequestIsTyped, RequestShape DEF Subjects
  <1>2. requests' = Append(requests, r)
    BY DEF BrowserAction, Arrives
  <1> HIDE DEF q
  <1>3. Len(intervals) + 1 \in Nat /\ of \in Subjects
    BY DEF TypeOK, Subjects
  <1>4. /\ r \in RequestType /\ r.kind = "action" /\ r.key = k /\ r.step = "context"
        /\ r.token = 0 /\ r.before = Nothing /\ r.sequence = 0 /\ r.saw = 0
    BY <1>1, <1>3 DEF RequestType
  <1>5. UNCHANGED <<writes, ledger, tokens, pres, expired, sequences, call>>
    BY DEF BrowserAction, Arrives, serverVars, drainVars
  <1> HIDE DEF r
  <1> QED
    BY <1>2, <1>4, <1>5 DEF Fresh

\* The request that a pre-observation adds.
LEMMA PreArrives ==
    ASSUME TypeOK, NEW s \in Sessions, NEW of \in Keys \cup {NULL}, PreObservation(s, of)
    PROVE  \E r : /\ Fresh(r) /\ r.kind = "pre" /\ r.sequence = 0 /\ r.token = 0
                  /\ UNCHANGED <<sequences, call, intervals>>
  <1> DEFINE r == Request("pre", s, of)
  <1>1. /\ r \in RequestType /\ r.kind = "pre" /\ r.step = "context"
        /\ r.token = 0 /\ r.before = Nothing /\ r.sequence = 0 /\ r.saw = 0
    BY RequestIsTyped, RequestShape DEF Subjects
  <1>2. requests' = Append(requests, r)
    BY DEF PreObservation, Arrives
  <1>3. UNCHANGED <<writes, ledger, tokens, pres, expired, sequences, call, intervals>>
    BY DEF PreObservation, Arrives, serverVars, drainVars
  <1> HIDE DEF r
  <1> QED
    BY <1>1, <1>2, <1>3 DEF Fresh

\* The request that a persistence read adds, with the before it takes.
LEMMA PersistenceArrives ==
    ASSUME TypeOK, NEW s \in Sessions, NEW k \in Keys, NEW t \in {0} \cup Preceding,
           NEW a \in 0..Len(intervals), Persistence(s, k, t, a)
    PROVE  \E r : /\ Fresh(r) /\ r.kind = "persistence" /\ r.key = k /\ r.anchor = a
                  /\ r.sequence = 0 /\ UNCHANGED <<sequences, call, intervals>>
  <1> DEFINE q == Request("persistence", s, k)
             r == [q EXCEPT !.token = t, !.anchor = a]
  <1>1. /\ q \in RequestType /\ q.kind = "persistence" /\ q.key = k /\ q.step = "context"
        /\ q.before = Nothing /\ q.sequence = 0 /\ q.saw = 0
    BY RequestIsTyped, RequestShape DEF Subjects
  <1>2. requests' = Append(requests, r)
    BY DEF Persistence, Arrives
  <1> HIDE DEF q
  <1>3. t \in Nat /\ a \in Nat
    BY DEF Preceding, TypeOK
  <1>4. /\ r \in RequestType /\ r.kind = "persistence" /\ r.key = k /\ r.step = "context"
        /\ r.anchor = a /\ r.before = Nothing /\ r.sequence = 0 /\ r.saw = 0
    BY <1>1, <1>3 DEF RequestType
  <1>5. UNCHANGED <<writes, ledger, tokens, pres, expired, sequences, call, intervals>>
    BY DEF Persistence, Arrives, serverVars, drainVars
  <1> HIDE DEF r
  <1> QED
    BY <1>2, <1>4, <1>5 DEF Fresh

\* A forwarded intent is refused as a replay, or adds a request with the next
\* number of its claim.
LEMMA IntentArrives ==
    ASSUME TypeOK, Forward
    PROVE  \/ /\ UNCHANGED <<requests, sequences, call, writes, ledger, tokens, pres, expired>>
              /\ ~(Head(queue).sequence > sequences[Head(queue).key])
           \/ \E r : /\ Fresh(r) /\ r.kind = "intent" /\ r.key \in Keys /\ r.of = r.key
                     /\ r.key = Head(queue).key /\ r.sequence = Head(queue).sequence
                     /\ r.anchor = 0 /\ r.token = 0 /\ r.sequence # 0
                     /\ r.sequence > sequences[r.key]
                     /\ sequences' = [sequences EXCEPT ![r.key] = r.sequence]
                     /\ call = 0 /\ call' = Len(requests')
  <1> DEFINE line == Head(queue)
             q == Request("intent", NULL, line.key)
             r == [q EXCEPT !.sequence = line.sequence, !.paired = line.paired]
  <1>1. UNCHANGED <<writes, ledger, tokens, pres, expired>> /\ call = 0
    BY DEF Forward, browserVars
  <1>2. CASE ~(line.sequence > sequences[line.key])
    BY <1>1, <1>2 DEF Forward
  <1>3. CASE line.sequence > sequences[line.key]
    <2>1. line \in LineType
      BY DEF Forward, TypeOK
    <2>2. line.key \in Keys /\ line.sequence \in {1, 2} /\ line.paired \in BOOLEAN
      BY <2>1 DEF LineType
    <2>3. /\ requests' = Append(requests, r) /\ call' = Len(requests')
          /\ sequences' = [sequences EXCEPT ![line.key] = line.sequence]
      BY <1>3 DEF Forward
    <2> HIDE DEF line
    <2>4. /\ q \in RequestType /\ q.kind = "intent" /\ q.key = line.key /\ q.of = line.key
          /\ q.step = "context" /\ q.anchor = 0 /\ q.token = 0 /\ q.before = Nothing /\ q.saw = 0
      BY <2>2, RequestIsTyped, RequestShape DEF Subjects
    <2>5. line.sequence \in 0..2 /\ line.sequence # 0
      BY <2>2
    <2> DEFINE n == line.sequence
               p == line.paired
    <2> HIDE DEF q, n, p
    <2>6. /\ [q EXCEPT !.sequence = n, !.paired = p] \in RequestType
          /\ \A v : v = [q EXCEPT !.sequence = n, !.paired = p] =>
               /\ v.kind = q.kind /\ v.key = q.key /\ v.of = q.of /\ v.step = q.step
               /\ v.anchor = q.anchor /\ v.token = q.token /\ v.before = q.before
               /\ v.saw = q.saw /\ v.sequence = n
      BY <2>2, <2>4, <2>5 DEF RequestType, n, p
    <2>7. /\ r \in RequestType /\ r.kind = "intent" /\ r.key = line.key /\ r.of = line.key
          /\ r.step = "context" /\ r.anchor = 0 /\ r.token = 0 /\ r.before = Nothing /\ r.saw = 0
          /\ r.sequence = line.sequence
      BY <2>4, <2>6 DEF n, p
    <2> HIDE DEF r
    <2>8. Fresh(r)
      BY <1>1, <2>3, <2>7 DEF Fresh
    <2>9. r.sequence > sequences[r.key] /\ r.key \in Keys /\ r.sequence # 0
      BY <1>3, <2>2, <2>5, <2>7
    <2>10. sequences' = [sequences EXCEPT ![r.key] = r.sequence]
      BY <2>3, <2>7
    <2> QED
      BY <1>1, <2>3, <2>7, <2>8, <2>9, <2>10 DEF line
  <1> QED
    BY <1>2, <1>3

\* Every step keeps UseInv.
LEMMA UseStep == TypeOK /\ UseInv /\ [Next]_vars => UseInv'
  <1> SUFFICES ASSUME TypeOK, UseInv, [Next]_vars PROVE UseInv'
    OBVIOUS
  <1>0. TypeOK'
    BY TypeStep
  <1>1. ASSUME UNCHANGED <<requests, ledger, tokens, pres, sequences>> PROVE UseInv'
    BY <1>1 DEF UseInv, Shapes, Unused, Held, Accounts, Accepted, Over, Nothing, Observation
  <1>2. ASSUME NEW r, Fresh(r), r.kind \in {"action", "pre", "persistence"}, r.sequence = 0,
               r.kind # "pre" => r.key \in Keys, r.token # 0 => r.kind = "persistence",
               sequences' = sequences
        PROVE  UseInv'
    BY <1>2, UseArrival DEF Fresh
  <1>a. ASSUME NEW s \in Sessions, NEW k \in Keys, NEW of \in {k, NULL}, BrowserAction(s, k, of)
        PROVE  UseInv'
    BY <1>a, <1>2, ActionArrives
  <1>b. ASSUME NEW s \in Sessions, NEW of \in Keys \cup {NULL}, PreObservation(s, of)
        PROVE  UseInv'
    BY <1>b, <1>2, PreArrives
  <1>c. ASSUME NEW s \in Sessions, NEW k \in Keys, NEW t \in {0} \cup Preceding,
               NEW a \in 0..Len(intervals), Persistence(s, k, t, a)
        PROVE  UseInv'
    BY <1>c, <1>2, PersistenceArrives
  <1>d. ASSUME NEW s \in Sessions, Close(s) PROVE UseInv'
    BY <1>d, <1>1 DEF Close, serverVars
  <1>e. ASSUME NEW k \in Keys, WritePre(k) \/ Mutate(k) \/ WritePost(k) PROVE UseInv'
    BY <1>e, <1>1 DEF WritePre, Mutate, WritePost, Test, browserVars, serverVars
  <1>f. ASSUME NEW n \in 1..Len(file), Poll(n) PROVE UseInv'
    BY <1>f, <1>1 DEF Poll, browserVars, serverVars
  <1>g. CASE Forward
    <2>1. ASSUME NEW r, Fresh(r), r.kind = "intent", r.key \in Keys, r.of = r.key,
                 r.anchor = 0, r.token = 0, r.sequence # 0, r.sequence > sequences[r.key],
                 sequences' = [sequences EXCEPT ![r.key] = r.sequence]
          PROVE  UseInv'
      BY <2>1, UseArrival DEF Fresh
    <2> QED
      BY <1>g, <1>1, <2>1, IntentArrives
  <1>h. CASE Timeout
    BY <1>h, <1>1 DEF Timeout, browserVars, serverVars
  <1>i. ASSUME NEW i \in DOMAIN requests, Begin(i) PROVE UseInv'
    BY <1>0, <1>i, UseBegin
  <1>j. ASSUME NEW i \in DOMAIN requests, Observe(i) PROVE UseInv'
    BY <1>j, ObserveKeeps, UseKept DEF Observe, browserVars, serverVars
  <1>k. ASSUME NEW i \in DOMAIN requests, PreObserved(i) PROVE UseInv'
    BY <1>k, UsePreObserved
  <1>l. ASSUME NEW i \in DOMAIN requests, Drive(i) PROVE UseInv'
    BY <1>l, MovesKeeps, UseKept DEF Drive, Is, Continues, browserVars, serverVars
  <1>m. ASSUME NEW i \in DOMAIN requests, Driven(i) PROVE UseInv'
    BY <1>m, MovesKeeps, UseKept DEF Driven, Is, Continues, serverVars
  <1>n. ASSUME NEW i \in DOMAIN requests, PersistenceRead(i) PROVE UseInv'
    <2>1. /\ Kept /\ BeforeKept /\ requests'[i].step = "done"
          /\ requests[i].step # "done" /\ requests[i].kind = "persistence"
          /\ tokens' = tokens /\ pres' = pres /\ sequences' = sequences
          /\ ledger' = Issued(i, requests[i].before)
      BY <1>n, MovesKeeps DEF PersistenceRead, Is, Continues, browserVars, serverVars
    <2>2. Shapes' /\ Accepted' /\ Unused' /\ Held'
      BY <2>1, ShapesKept, AcceptedKept, UnusedKept, HeldKept DEF UseInv
    <2>3. Accounts'
      BY <2>1, AccountsIssued
    <2> QED
      BY <2>2, <2>3 DEF UseInv
  <1>o. ASSUME NEW i \in DOMAIN requests, IntentBefore(i) PROVE UseInv'
    BY <1>o, UseIntentBefore
  <1>p. ASSUME NEW i \in DOMAIN requests, IntentAfter(i) PROVE UseInv'
    BY <1>p, UseIntentAfter
  <1>q. ASSUME NEW i \in DOMAIN requests, Fail(i) PROVE UseInv'
    BY <1>q, AnswersKeeps, UseKept DEF Fail, serverVars
  <1>r. CASE UNCHANGED vars
    BY <1>r, <1>1 DEF vars, browserVars, serverVars
  <1> QED
    BY <1>a, <1>b, <1>c, <1>d, <1>e, <1>f, <1>g, <1>h, <1>i, <1>j, <1>k, <1>l, <1>m, <1>n,
       <1>o, <1>p, <1>q, <1>r DEF Next

----------------------------------------------------------------------------
(* Reads lie on both sides of the mutation.                                *)

\* What a step can do to request j.
SameClaim(j) ==
    /\ j \in DOMAIN requests
    /\ requests'[j].kind = requests[j].kind /\ requests'[j].key = requests[j].key
    /\ requests'[j].anchor = requests[j].anchor

Arrived(j) ==
    /\ j \notin DOMAIN requests
    /\ requests'[j].step = "context" /\ requests'[j].before = Nothing /\ requests'[j].saw = 0
    /\ LET a == requests'[j].anchor
       IN requests'[j].kind = "persistence" /\ a # 0 =>
            /\ a \in DOMAIN intervals
            /\ intervals[a].key = requests'[j].key /\ intervals[a].end # 0

Began(j) ==
    /\ SameClaim(j) /\ requests'[j].step = "reading" /\ requests'[j].saw = requests[j].saw
    /\ \/ requests'[j].before = Nothing
       \/ requests'[j].before \in tokens /\ requests'[j].before.key \in {NULL, requests[j].key}

Observed(j) ==
    /\ SameClaim(j) /\ requests'[j].before = requests[j].before
    /\ requests'[j].step = "read" /\ requests'[j].saw = writes

Left(j) ==
    /\ SameClaim(j) /\ requests'[j].before = requests[j].before
    /\ requests'[j].step # "read" /\ requests'[j].saw = requests[j].saw

Stayed(j) == j \in DOMAIN requests /\ requests'[j] = requests[j]

\* What a step can do to a request: nothing, add it, begin it, end its read,
\* move it on.
LEMMA RequestStep ==
    ASSUME TypeOK, TypeOK', UseInv, [Next]_vars, NEW j \in DOMAIN requests'
    PROVE  Stayed(j) \/ Arrived(j) \/ Began(j) \/ Observed(j) \/ Left(j)
  <1> DEFINE Goal == Stayed(j) \/ Arrived(j) \/ Began(j) \/ Observed(j) \/ Left(j)
  <1>1. CASE UNCHANGED requests
    BY <1>1 DEF Stayed
  <1>2. ASSUME NEW r, Fresh(r),
               r.kind = "persistence" /\ r.anchor # 0 =>
                 /\ r.anchor \in DOMAIN intervals
                 /\ intervals[r.anchor].key = r.key /\ intervals[r.anchor].end # 0
        PROVE  Goal
    <2>1. /\ DOMAIN requests' = DOMAIN requests \cup {Len(requests) + 1}
          /\ Len(requests) + 1 \notin DOMAIN requests
          /\ \A i \in DOMAIN requests : requests'[i] = requests[i]
          /\ requests'[Len(requests) + 1] = r
      BY <1>2, Appended DEF Fresh, TypeOK
    <2>2. CASE j \in DOMAIN requests
      BY <2>1, <2>2 DEF Stayed
    <2>3. CASE j = Len(requests) + 1
      BY <1>2, <2>1, <2>3 DEF Fresh, Arrived
    <2> QED
      BY <2>1, <2>2, <2>3
  <1>3. ASSUME NEW i \in DOMAIN requests, Kept, BeforeKept, requests'[i].step # "read",
               requests'[i].saw = requests[i].saw,
               \A k \in DOMAIN requests : k # i => requests'[k] = requests[k]
        PROVE  Goal
    BY <1>3 DEF Kept, BeforeKept, Stayed, Left, SameClaim
  <1>a. ASSUME NEW s \in Sessions, NEW k \in Keys, NEW of \in {k, NULL}, BrowserAction(s, k, of)
        PROVE  Goal
    BY <1>a, <1>2, ActionArrives
  <1>b. ASSUME NEW s \in Sessions, NEW of \in Keys \cup {NULL}, PreObservation(s, of)
        PROVE  Goal
    BY <1>b, <1>2, PreArrives
  <1>c. ASSUME NEW s \in Sessions, NEW k \in Keys, NEW t \in {0} \cup Preceding,
               NEW a \in 0..Len(intervals), Persistence(s, k, t, a)
        PROVE  Goal
    <2>1. a # 0 => a \in DOMAIN intervals /\ intervals[a].key = k /\ intervals[a].end # 0
      BY <1>c DEF Persistence, AnchorFits, TypeOK
    <2> QED
      BY <1>c, <1>2, <2>1, PersistenceArrives
  <1>d. CASE Forward
    BY <1>d, <1>1, <1>2, IntentArrives
  <1>e. ASSUME NEW i \in DOMAIN requests, Begin(i) PROVE Goal
    <2>1. /\ Kept /\ requests'[i].step = "reading" /\ requests'[i].saw = requests[i].saw
          /\ \A k \in DOMAIN requests : k # i => requests'[k] = requests[k]
          /\ requests'[i].before = Nothing \/ requests'[i].before \in Taken(requests[i])
      BY <1>e, BeginKeeps
    <2> QED
      BY <2>1 DEF Kept, Stayed, Began, SameClaim, Taken
  <1>f. ASSUME NEW i \in DOMAIN requests, Observe(i) PROVE Goal
    BY <1>f, ObserveKeeps DEF Kept, BeforeKept, Stayed, Observed, SameClaim
  <1>g. ASSUME NEW i \in DOMAIN requests,
               PreObserved(i) \/ Drive(i) \/ Driven(i) \/ PersistenceRead(i)
        PROVE  Goal
    <2>1. PICK step \in {"driving", "driven", "done"} : Moves(i, step) /\ requests[i].step # "done"
      BY <1>g DEF PreObserved, Drive, Driven, PersistenceRead, Is, Continues
    <2> QED
      BY <1>3, <2>1, MovesKeeps
  <1>h. ASSUME NEW i \in DOMAIN requests, IntentBefore(i) \/ IntentAfter(i) \/ Fail(i) PROVE Goal
    <2>1. Answers(i) /\ requests[i].step # "done"
      BY <1>h DEF IntentBefore, IntentAfter, Fail, Is
    <2> QED
      BY <1>3, <2>1, AnswersKeeps
  <1>i. ASSUME NEW s \in Sessions, Close(s) PROVE Goal
    BY <1>i, <1>1 DEF Close
  <1>j. ASSUME NEW k \in Keys, WritePre(k) \/ Mutate(k) \/ WritePost(k) PROVE Goal
    BY <1>j, <1>1 DEF WritePre, Mutate, WritePost, Test
  <1>k. ASSUME NEW n \in 1..Len(file), Poll(n) PROVE Goal
    BY <1>k, <1>1 DEF Poll
  <1>l. CASE Timeout
    BY <1>l, <1>1 DEF Timeout
  <1>m. CASE UNCHANGED vars
    BY <1>m, <1>1 DEF vars
  <1> QED
    BY <1>a, <1>b, <1>c, <1>d, <1>e, <1>f, <1>g, <1>h, <1>i, <1>j, <1>k, <1>l, <1>m DEF Next

\* An interval that has ended stays as it is; every interval keeps its entity.
IntervalKept(a) ==
    /\ a \in DOMAIN intervals' /\ intervals'[a].key = intervals[a].key
    /\ intervals[a].end # 0 => intervals'[a].end # 0 /\ intervals'[a].at = intervals[a].at

IntervalAt(a) ==
    \/ a \in DOMAIN intervals /\ intervals'[a].at = intervals[a].at
    \/ intervals'[a].at \in {0, writes}

\* What a step can do to an interval, and what a new one looks like.
LEMMA IntervalStep ==
    ASSUME TypeOK, [Next]_vars
    PROVE  /\ \A a \in DOMAIN intervals : IntervalKept(a)
           /\ \A a \in DOMAIN intervals' : IntervalAt(a)
  <1> DEFINE Goal == /\ \A a \in DOMAIN intervals : IntervalKept(a)
                     /\ \A a \in DOMAIN intervals' : IntervalAt(a)
  <1>1. CASE UNCHANGED intervals
    BY <1>1 DEF IntervalKept, IntervalAt
  <1>2. /\ DOMAIN intervals = 1..Len(intervals) /\ Len(intervals) \in Nat
        /\ \A a \in DOMAIN intervals : intervals[a] \in IntervalType
        /\ Ends + 1 # 0
    BY EndsType DEF TypeOK
  <1>3. \A a \in DOMAIN intervals : LET v == [intervals[a] EXCEPT !.end = Ends + 1]
                                    IN v.key = intervals[a].key /\ v.at = intervals[a].at /\ v.end = Ends + 1
    BY <1>2 DEF IntervalType
  <1>a. ASSUME NEW s \in Sessions, NEW k \in Keys, NEW of \in {k, NULL}, BrowserAction(s, k, of)
        PROVE  Goal
    <2> DEFINE w == WithoutOpen(s)
               v == [who |-> s, key |-> k, end |-> 0, at |-> 0, acted |-> FALSE]
    <2>1. \A a \in DOMAIN intervals :
            /\ w[a].key = intervals[a].key /\ w[a].at = intervals[a].at
            /\ intervals[a].end # 0 => w[a].end # 0
      BY <1>3 DEF WithoutOpen
    <2>2. w \in Seq(IntervalType) /\ DOMAIN w = DOMAIN intervals
      <3>1. \A a \in DOMAIN intervals : w[a] \in IntervalType
        BY EndedType DEF WithoutOpen
      <3>2. DOMAIN w = DOMAIN intervals /\ w = [a \in DOMAIN intervals |-> w[a]]
        BY DEF WithoutOpen
      <3> HIDE DEF w
      <3> QED
        BY <1>2, <3>1, <3>2
    <2>3. intervals' = Append(w, v) /\ v.at = 0
      BY <1>a DEF BrowserAction
    <2> HIDE DEF w, v
    <2>4. /\ DOMAIN intervals' = DOMAIN w \cup {Len(w) + 1}
          /\ \A a \in DOMAIN w : intervals'[a] = w[a]
          /\ intervals'[Len(w) + 1] = v
      BY <2>2, <2>3
    <2> QED
      BY <2>1, <2>2, <2>3, <2>4 DEF IntervalKept, IntervalAt
  <1>b. ASSUME NEW i \in DOMAIN requests, Driven(i) PROVE Goal
    <2> DEFINE a == requests[i].anchor
               v == [intervals[a] EXCEPT !.end = Ends + 1, !.at = writes, !.acted = TRUE]
    <2>1. intervals' = [intervals EXCEPT ![a] = v] /\ intervals[a].end = 0
      BY <1>b DEF Driven
    <2>2. a \in DOMAIN intervals => v.key = intervals[a].key /\ v.at = writes
      BY <1>2 DEF IntervalType
    <2> HIDE DEF v
    <2>3. /\ DOMAIN intervals' = DOMAIN intervals
          /\ \A b \in DOMAIN intervals : b # a => intervals'[b] = intervals[b]
          /\ a \in DOMAIN intervals => intervals'[a] = v
      BY <1>2, <2>1
    <2> QED
      BY <2>1, <2>2, <2>3 DEF IntervalKept, IntervalAt
  <1>c. ASSUME NEW i \in DOMAIN requests, Fail(i) PROVE Goal
    BY <1>c, <1>3 DEF Fail, IntervalKept, IntervalAt
  <1>d. CASE UNCHANGED vars
    BY <1>d, <1>1 DEF vars, browserVars
  <1>e. ASSUME NEW s \in Sessions, Close(s) PROVE Goal
    BY <1>e, <1>1 DEF Close
  <1>f. ASSUME NEW k \in Keys, WritePre(k) \/ Mutate(k) \/ WritePost(k) PROVE Goal
    BY <1>f, <1>1 DEF WritePre, Mutate, WritePost, Test, browserVars
  <1>g. ASSUME NEW i \in DOMAIN requests,
               \/ Begin(i) \/ Observe(i) \/ PreObserved(i) \/ Drive(i) \/ PersistenceRead(i)
               \/ IntentBefore(i) \/ IntentAfter(i)
        PROVE  Goal
    BY <1>g, <1>1
       DEF Begin, Observe, PreObserved, Drive, PersistenceRead, IntentBefore, IntentAfter, browserVars
  <1>h. CASE Forward \/ Timeout \/ \E n \in 1..Len(file) : Poll(n)
    BY <1>h, <1>1 DEF Forward, Timeout, Poll, browserVars
  <1>i. ASSUME NEW s \in Sessions, NEW of \in Keys \cup {NULL}, PreObservation(s, of) PROVE Goal
    BY <1>i, <1>1 DEF PreObservation
  <1>j. ASSUME NEW s \in Sessions, NEW k \in Keys, NEW t \in {0} \cup Preceding,
               NEW a \in 0..Len(intervals), Persistence(s, k, t, a)
        PROVE  Goal
    BY <1>j, <1>1 DEF Persistence
  <1> QED
    BY <1>a, <1>b, <1>c, <1>d, <1>e, <1>f, <1>g, <1>h, <1>i, <1>j DEF Next

\* The application only gains mutations, and a new observation is of a request's read.
LEMMA WritesStep == TypeOK /\ [Next]_vars => writes' \in {writes, writes + 1}
  <1> SUFFICES ASSUME [Next]_vars PROVE writes' \in {writes, writes + 1}
    OBVIOUS
  <1>1. CASE UNCHANGED vars
    BY <1>1 DEF vars
  <1>2. CASE Next
    BY <1>2 DEF Next, BrowserAction, PreObservation, Persistence, Arrives, Close, WritePre, Mutate,
          WritePost, Poll, Forward, Timeout, Begin, Observe, PreObserved, Drive, Driven,
          PersistenceRead, IntentBefore, IntentAfter, Fail
  <1> QED
    BY <1>1, <1>2

\* An observation that can be used is an old one or what some request has
\* seen.
LEMMA PoolStep ==
    ASSUME [Next]_vars, NEW o \in tokens' \cup pres'
    PROVE  o \in tokens \cup pres \/ \E i \in DOMAIN requests : o = Seen(i)
  <1>1. CASE UNCHANGED vars
    BY <1>1 DEF vars, browserVars, serverVars
  <1>2. CASE Next
    BY <1>2 DEF Next, BrowserAction, PreObservation, Persistence, Arrives, Close, WritePre, Mutate,
          WritePost, Test, Poll, Forward, Timeout, Begin, Consumed, Observe, PreObserved, Drive, Driven,
          PersistenceRead, IntentBefore, IntentAfter, Fail, Answers, Continues, browserVars, serverVars
  <1> QED
    BY <1>1, <1>2

\* Nothing is seen in the future.
LEMMA PastStep ==
    ASSUME TypeOK, TypeOK', UseInv, Past, [Next]_vars
    PROVE  Past'
  <1>1. writes \in Nat /\ writes' \in Nat /\ writes <= writes'
    BY WritesStep DEF TypeOK
  <1>2. \A i \in DOMAIN requests : requests[i].saw \in Nat /\ requests[i].saw <= writes
    <2>1. \A i \in DOMAIN requests : requests[i] \in RequestType
      BY DEF TypeOK
    <2> QED
      BY <2>1 DEF RequestType, Past
  <1>3. ASSUME NEW o \in tokens' \cup pres' PROVE o.at <= writes'
    <2>1. o.at \in Nat
      BY <1>3 DEF TypeOK, ObservationType
    <2>2. o.at <= writes
      <3>1. CASE o \in tokens \cup pres
        BY <3>1 DEF Past
      <3>2. ASSUME NEW i \in DOMAIN requests, o = Seen(i) PROVE o.at <= writes
        BY <1>2, <3>2 DEF Seen, Observation
      <3> QED
        BY <1>3, <3>1, <3>2, PoolStep
    <2> QED
      BY <1>1, <2>1, <2>2
  <1>4. ASSUME NEW i \in DOMAIN requests' PROVE requests'[i].saw <= writes'
    BY <1>1, <1>2, <1>4, RequestStep DEF Stayed, Arrived, Began, Observed, Left, SameClaim
  <1>5. ASSUME NEW a \in DOMAIN intervals' PROVE intervals'[a].at <= writes'
    <2>1. \A b \in DOMAIN intervals : intervals[b].at \in Nat /\ intervals[b].at <= writes
      <3>1. \A b \in DOMAIN intervals : intervals[b] \in IntervalType
        BY DEF TypeOK
      <3> QED
        BY <3>1 DEF IntervalType, Past
    <2>2. IntervalAt(a)
      BY <1>5, IntervalStep
    <2> QED
      BY <1>1, <2>1, <2>2 DEF IntervalAt
  <1> QED
    BY <1>3, <1>4, <1>5 DEF Past

\* A before enters its request before the request is answered.
LEMMA BeforeStep ==
    ASSUME TypeOK, TypeOK', UseInv, Past, BeforeAfter, [Next]_vars
    PROVE  BeforeAfter'
  <1> SUFFICES ASSUME NEW j \in DOMAIN requests', requests'[j].before # Nothing
               PROVE  /\ requests'[j].before.at <= writes'
                      /\ requests'[j].before.key \in {NULL, requests'[j].key}
                      /\ requests'[j].step = "read" => requests'[j].before.at <= requests'[j].saw
    BY DEF BeforeAfter, Nothing, Observation
  <1> DEFINE o == requests'[j].before
  <1>1. writes \in Nat /\ writes' \in Nat /\ writes <= writes'
    BY WritesStep DEF TypeOK
  <1>2. o.at \in Nat
    <2>1. requests'[j] \in RequestType
      BY DEF TypeOK
    <2> QED
      BY <2>1 DEF RequestType, ObservationType
  <1>3. ASSUME j \in DOMAIN requests, requests[j].before = o
        PROVE  /\ o.at <= writes /\ o.key \in {NULL, requests[j].key}
               /\ requests[j].step = "read" => o.at <= requests[j].saw
    BY <1>3 DEF BeforeAfter
  <1>4. CASE Stayed(j)
    BY <1>1, <1>2, <1>3, <1>4 DEF Stayed
  <1>5. CASE Arrived(j)
    BY <1>5 DEF Arrived
  <1>6. CASE Began(j)
    BY <1>1, <1>2, <1>6 DEF Began, SameClaim, Past
  <1>7. CASE Observed(j)
    BY <1>1, <1>2, <1>3, <1>7 DEF Observed, SameClaim
  <1>8. CASE Left(j)
    BY <1>1, <1>2, <1>3, <1>8 DEF Left, SameClaim
  <1> QED
    BY <1>4, <1>5, <1>6, <1>7, <1>8, RequestStep

\* An anchored read follows its action.
LEMMA AnchorStep ==
    ASSUME TypeOK, TypeOK', UseInv, Past, Anchored, [Next]_vars
    PROVE  Anchored'
  <1> SUFFICES ASSUME NEW j \in DOMAIN requests', requests'[j].kind = "persistence",
                      requests'[j].anchor # 0
               PROVE  LET a == requests'[j].anchor
                      IN /\ a \in DOMAIN intervals'
                         /\ intervals'[a].key = requests'[j].key /\ intervals'[a].end # 0
                         /\ requests'[j].step = "read" => intervals'[a].at <= requests'[j].saw
    BY DEF Anchored
  <1> DEFINE a == requests'[j].anchor
  <1>1. ASSUME SameClaim(j) \/ Stayed(j)
        PROVE  /\ a \in DOMAIN intervals
               /\ intervals[a].key = requests'[j].key /\ intervals[a].end # 0
               /\ requests[j].step = "read" => intervals[a].at <= requests[j].saw
    BY <1>1 DEF Anchored, SameClaim, Stayed
  <1>2. ASSUME a \in DOMAIN intervals, intervals[a].end # 0
        PROVE  /\ a \in DOMAIN intervals' /\ intervals'[a].key = intervals[a].key
               /\ intervals'[a].end # 0 /\ intervals'[a].at = intervals[a].at
    BY <1>2, IntervalStep DEF IntervalKept
  <1>3. CASE Stayed(j)
    BY <1>1, <1>2, <1>3 DEF Stayed
  <1>4. CASE Arrived(j)
    BY <1>2, <1>4 DEF Arrived
  <1>5. CASE Began(j) \/ Left(j)
    BY <1>1, <1>2, <1>5 DEF Began, Left
  <1>6. CASE Observed(j)
    BY <1>1, <1>2, <1>6 DEF Observed, Past
  <1> QED
    BY <1>3, <1>4, <1>5, <1>6, RequestStep

\* Until a call times out, the drain's call is the only intent under way.
LEMMA AloneStep ==
    ASSUME TypeOK, TypeOK', UseInv, Alone, [Next]_vars, ~expired'
    PROVE  Alone'
  <1>1. ASSUME Kept, call' = call PROVE Alone'
    BY <1>1 DEF Kept, Alone
  <1>2. CASE UNCHANGED <<requests, call>>
    BY <1>2 DEF Alone
  <1>3. ASSUME NEW r, Fresh(r), r.kind # "intent", call' = call PROVE Alone'
    <2>1. /\ DOMAIN requests' = DOMAIN requests \cup {Len(requests) + 1}
          /\ \A i \in DOMAIN requests : requests'[i] = requests[i]
          /\ requests'[Len(requests) + 1] = r
      BY <1>3, Appended DEF Fresh, TypeOK
    <2> QED
      BY <1>3, <2>1 DEF Alone
  <1>a. ASSUME NEW s \in Sessions, NEW k \in Keys, NEW of \in {k, NULL}, BrowserAction(s, k, of)
        PROVE  Alone'
    BY <1>a, <1>3, ActionArrives
  <1>b. ASSUME NEW s \in Sessions, NEW of \in Keys \cup {NULL}, PreObservation(s, of)
        PROVE  Alone'
    BY <1>b, <1>3, PreArrives
  <1>c. ASSUME NEW s \in Sessions, NEW k \in Keys, NEW t \in {0} \cup Preceding,
               NEW a \in 0..Len(intervals), Persistence(s, k, t, a)
        PROVE  Alone'
    BY <1>c, <1>3, PersistenceArrives
  <1>d. CASE Forward
    <2>1. ASSUME NEW r, Fresh(r), call = 0, call' = Len(requests') PROVE Alone'
      <3>1. /\ DOMAIN requests' = DOMAIN requests \cup {Len(requests) + 1}
            /\ \A i \in DOMAIN requests : requests'[i] = requests[i]
            /\ Len(requests') = Len(requests) + 1
        BY <2>1, Appended DEF Fresh, TypeOK
      <3>0. \A i \in DOMAIN requests : i # 0
        BY DEF TypeOK
      <3>2. \A i \in DOMAIN requests : ~(requests[i].kind = "intent" /\ requests[i].step # "done")
        BY <2>1, <3>0 DEF Alone
      <3> QED
        BY <2>1, <3>1, <3>2 DEF Alone
    <2> QED
      BY <1>d, <1>2, <2>1, IntentArrives
  <1>e. ASSUME NEW i \in DOMAIN requests, Begin(i) PROVE Alone'
    BY <1>e, <1>1, BeginKeeps DEF Begin, drainVars
  <1>f. ASSUME NEW i \in DOMAIN requests, Observe(i) PROVE Alone'
    BY <1>f, <1>1, ObserveKeeps DEF Observe, drainVars
  <1>g. ASSUME NEW i \in DOMAIN requests,
               PreObserved(i) \/ Drive(i) \/ Driven(i) \/ PersistenceRead(i)
        PROVE  Alone'
    <2>1. PICK step \in {"driving", "driven", "done"} :
            Moves(i, step) /\ requests[i].step # "done" /\ call' = call
      BY <1>g DEF PreObserved, Drive, Driven, PersistenceRead, Is, Continues, drainVars
    <2> QED
      BY <1>1, <2>1, MovesKeeps
  <1>h. ASSUME NEW i \in DOMAIN requests, IntentBefore(i) \/ IntentAfter(i) \/ Fail(i) PROVE Alone'
    <2>1. Answers(i) /\ requests[i].step # "done"
      BY <1>h DEF IntentBefore, IntentAfter, Fail, Is
    <2>2. /\ Kept /\ requests'[i].step = "done"
          /\ call' = IF call = i THEN 0 ELSE call
      BY <2>1, AnswersKeeps DEF Answers
    <2> QED
      BY <2>2 DEF Kept, Alone
  <1>i. ASSUME NEW s \in Sessions, Close(s) PROVE Alone'
    BY <1>i, <1>2 DEF Close, drainVars
  <1>j. ASSUME NEW k \in Keys, WritePre(k) \/ Mutate(k) \/ WritePost(k) PROVE Alone'
    BY <1>j, <1>2 DEF WritePre, Mutate, WritePost, Test, drainVars
  <1>k. ASSUME NEW n \in 1..Len(file), Poll(n) PROVE Alone'
    BY <1>k, <1>2 DEF Poll
  <1>l. CASE Timeout
    BY <1>l DEF Timeout
  <1>m. CASE UNCHANGED vars
    BY <1>m, <1>2 DEF vars, drainVars
  <1> QED
    BY <1>a, <1>b, <1>c, <1>d, <1>e, <1>f, <1>g, <1>h, <1>i, <1>j, <1>k, <1>l, <1>m DEF Next

\* A timed-out call stays timed out.
LEMMA ExpiredStep == TypeOK /\ [Next]_vars /\ ~expired' => ~expired
  <1> SUFFICES ASSUME TypeOK, [Next]_vars, ~expired' PROVE ~expired
    OBVIOUS
  <1>1. CASE UNCHANGED vars
    BY <1>1 DEF vars, drainVars
  <1>2. CASE Next
    BY <1>2 DEF Next, BrowserAction, PreObservation, Persistence, Arrives, Close, WritePre, Mutate,
          WritePost, Test, Poll, Forward, Timeout, Begin, Observe, PreObserved, Drive, Driven,
          PersistenceRead, IntentBefore, IntentAfter, Fail, Answers, Continues, drainVars
  <1> QED
    BY <1>1, <1>2

\* Which records a step can issue.
LEMMA LedgerStep ==
    ASSUME [Next]_vars
    PROVE  \/ ledger' = ledger
           \/ \E i \in DOMAIN requests : PersistenceRead(i) \/ IntentAfter(i)
  <1>1. CASE UNCHANGED vars
    BY <1>1 DEF vars
  <1>2. CASE Next
    BY <1>2 DEF Next, BrowserAction, PreObservation, Persistence, Arrives, Close, WritePre, Mutate,
          WritePost, Test, Poll, Forward, Timeout, Begin, Observe, PreObserved, Drive, Driven,
          IntentBefore, Fail, Answers
  <1> QED
    BY <1>1, <1>2

\* Which observations a step can make pending for an intent.
LEMMA PresStep ==
    ASSUME [Next]_vars
    PROVE  pres' \subseteq pres \/ \E i \in DOMAIN requests : IntentBefore(i)
  <1>1. CASE UNCHANGED vars
    BY <1>1 DEF vars, serverVars
  <1>2. CASE Next
    BY <1>2 DEF Next, BrowserAction, PreObservation, Persistence, Arrives, Close, WritePre, Mutate,
          WritePost, Test, Poll, Forward, Timeout, Begin, Observe, PreObserved, Drive, Driven,
          PersistenceRead, IntentAfter, Fail, Answers, Continues, serverVars
  <1> QED
    BY <1>1, <1>2

\* The two observations of an intent are of calls that follow each other.
LEMMA OneByOneStep ==
    ASSUME TypeOK, TypeOK', UseInv, Past, OneByOne, [Next]_vars
    PROVE  OneByOne'
  <1> SUFFICES ASSUME ~expired' PROVE OneByOne'
    BY DEF OneByOne
  <1>1. Alone /\ Alone'
    BY AloneStep, ExpiredStep DEF OneByOne
  <1>2. ASSUME NEW j \in DOMAIN requests', NEW o \in pres',
               requests'[j].kind = "intent", requests'[j].step = "read"
        PROVE  o.at <= requests'[j].saw
    <2>1. \/ Stayed(j)
          \/ Observed(j)
      BY <1>2, RequestStep DEF Arrived, Began, Left
    <2>2. CASE o \in pres
      <3>1. CASE Stayed(j)
        BY <1>2, <2>2, <3>1, ExpiredStep DEF OneByOne, Stayed
      <3>2. CASE Observed(j)
        BY <2>2, <3>2 DEF Observed, Past
      <3> QED
        BY <2>1, <3>1, <3>2
    <2>3. CASE o \notin pres
      <3>1. PICK i \in DOMAIN requests : IntentBefore(i)
        BY <1>2, <2>3, PresStep
      <3>2. /\ requests[i].kind = "intent" /\ requests[i].step = "read"
            /\ requests'[i].step = "done"
            /\ \A k \in DOMAIN requests : k # i => requests'[k] = requests[k]
            /\ DOMAIN requests' = DOMAIN requests
        BY <3>1, AnswersKeeps DEF IntentBefore, Is, Kept
      <3>3. j \in DOMAIN requests /\ j # i
        BY <1>2, <3>2
      <3>4. requests[j].kind = "intent" /\ requests[j].step = "read"
        BY <1>2, <3>2, <3>3
      <3> QED
        BY <1>1, <3>2, <3>3, <3>4 DEF Alone
    <2> QED
      BY <2>2, <2>3
  <1> QED
    BY <1>1, <1>2 DEF OneByOne

\* Every record that is issued has its before before its after.
LEMMA SurroundedStep ==
    ASSUME TypeOK, UseInv, OrderInv, [Next]_vars
    PROVE  Surrounded'
  <1> DEFINE Fine(r) ==
        /\ r.anchor # 0 => r.anchor \in DOMAIN intervals
        /\ ~expired =>
             /\ r.before # Nothing => r.before.at <= r.at /\ r.before.key \in {NULL, r.key}
             /\ r.anchor # 0 =>
                  /\ intervals[r.anchor].key = r.key /\ intervals[r.anchor].end # 0
                  /\ intervals[r.anchor].at <= r.at
  <1>1. \A r \in ledger : Fine(r)
    BY DEF OrderInv, Surrounded, ReadsSurroundTheMutation
  <1>2. ASSUME NEW i \in DOMAIN requests, NEW before, NEW r, Is(i, "persistence", "read"),
               r = [id |-> i, key |-> requests[i].key, anchor |-> requests[i].anchor,
                    intent |-> requests[i].sequence, before |-> before, at |-> requests[i].saw],
               before = requests[i].before
        PROVE  Fine(r)
    BY <1>2 DEF Is, OrderInv, BeforeAfter, Anchored
  <1>3. ASSUME NEW i \in DOMAIN requests, NEW before, NEW r, Is(i, "intent", "read"),
               r = [id |-> i, key |-> requests[i].key, anchor |-> requests[i].anchor,
                    intent |-> requests[i].sequence, before |-> before, at |-> requests[i].saw],
               before = Nothing \/ before \in Stored(requests[i].key)
        PROVE  Fine(r)
    <2>1. requests[i].anchor = 0
      BY <1>3 DEF Is, UseInv, Shapes
    <2> QED
      BY <1>3, <2>1 DEF Is, Stored, OrderInv, OneByOne
  <1>4. \A r \in ledger' : Fine(r)
    <2>1. CASE ledger' = ledger
      BY <1>1, <2>1
    <2>2. ASSUME NEW i \in DOMAIN requests, PersistenceRead(i) PROVE \A r \in ledger' : Fine(r)
      BY <1>1, <1>2, <2>2 DEF PersistenceRead, Issued
    <2>3. ASSUME NEW i \in DOMAIN requests, IntentAfter(i) PROVE \A r \in ledger' : Fine(r)
      <3> HIDE DEF Fine
      <3>1. \A r \in ledger' : r \in ledger \/ r \in Issued(i, Nothing)
                              \/ \E o \in Stored(requests[i].key) : r \in Issued(i, o)
        BY <2>3 DEF IntentAfter
      <3>2. \A o : o = Nothing \/ o \in Stored(requests[i].key) =>
              \A r \in Issued(i, o) : Fine(r)
        BY <1>1, <1>3, <2>3 DEF IntentAfter, Issued
      <3> QED
        BY <1>1, <3>1, <3>2
    <2> QED
      BY <2>1, <2>2, <2>3, LedgerStep
  <1>5. \A r \in ledger' : r.anchor # 0 => r.anchor \in DOMAIN intervals'
    BY <1>4, IntervalStep DEF IntervalKept
  <1>6. ReadsSurroundTheMutation'
    <2> SUFFICES ASSUME ~expired', NEW r \in ledger'
                 PROVE  /\ r.before # Nothing => r.before.at <= r.at /\ r.before.key \in {NULL, r.key}
                        /\ r.anchor # 0 =>
                             /\ intervals'[r.anchor].key = r.key /\ intervals'[r.anchor].end # 0
                             /\ intervals'[r.anchor].at <= r.at
      BY DEF ReadsSurroundTheMutation, Nothing, Observation
    <2>1. Fine(r) /\ ~expired
      BY <1>4, ExpiredStep
    <2> QED
      BY <2>1, IntervalStep DEF IntervalKept
  <1> QED
    BY <1>5, <1>6 DEF Surrounded

----------------------------------------------------------------------------
(* A test mutates the application after the probe it has announced.        *)

\* The lines of an entity carry rising sequence numbers; a test that has
\* announced its mutation waits for the line it wrote.
FileInv ==
    /\ \A m, n \in DOMAIN file : m < n /\ file[m].key = file[n].key => file[m].sequence < file[n].sequence
    /\ \A n \in DOMAIN file :
         /\ tests[file[n].key].stage # "begun"
         /\ tests[file[n].key].stage # "posted" => file[n].sequence = 1
    /\ \A k \in Keys : tests[k].stage = "announced" =>
         LET n == tests[k].count
         IN n \in DOMAIN file /\ file[n].key = k /\ file[n].sequence = 1

\* A handler of this intent is done.
Resolved(k, n) ==
    \E i \in DOMAIN requests :
       requests[i].key = k /\ requests[i].sequence = n /\ requests[i].step = "done"

\* The last line the drain has passed on, and the calls it awaits.
Passed == offset - Len(queue)
Awaited == IF call = 0 THEN 0 ELSE 1

\* The drain passes the lines on in order, the witness accepts every one of
\* them, and those that are answered are resolved.
DrainInv ==
    /\ offset <= Len(file) /\ Len(queue) <= offset /\ Passed = answered + Awaited
    /\ \A j \in DOMAIN queue : queue[j] = file[Passed + j]
    /\ \A n \in 1..answered : Resolved(file[n].key, file[n].sequence)
    /\ call # 0 =>
         /\ call \in DOMAIN requests /\ requests[call].key = file[answered + 1].key
         /\ requests[call].sequence = file[answered + 1].sequence
    /\ \A k \in Keys : sequences[k] = 0 \/
         \E n \in 1..Passed : file[n].key = k /\ file[n].sequence = sequences[k]

ProbeInv == FileInv /\ (~expired /\ ~repeated => DrainInv) /\ MutatesAfterProbe

\* What appending a line does to the file.
LEMMA LineAppended ==
    ASSUME file \in Seq(LineType), NEW line \in LineType, file' = Append(file, line)
    PROVE  /\ DOMAIN file' = 1..Len(file) + 1 /\ file'[Len(file) + 1] = line
           /\ Len(file') = Len(file) + 1 /\ file' # file
           /\ \A n \in DOMAIN file : file'[n] = file[n]
  OBVIOUS

\* The sequence numbers of a claim rise along the file.
LEMMA FileStep == TypeOK /\ FileInv /\ [Next]_vars => FileInv'
  <1> SUFFICES ASSUME TypeOK, FileInv, [Next]_vars PROVE FileInv'
    OBVIOUS
  <1>0. /\ file \in Seq(LineType) /\ DOMAIN file = 1..Len(file) /\ Len(file) \in Nat
        /\ \A n \in DOMAIN file : file[n].key \in Keys /\ file[n].sequence \in {1, 2}
        /\ DOMAIN tests = Keys
    <2>1. file \in Seq(LineType) /\ DOMAIN tests = Keys
      BY DEF TypeOK
    <2>2. \A n \in DOMAIN file : file[n] \in LineType
      BY <2>1
    <2> QED
      BY <2>1, <2>2 DEF LineType
  <1>1. CASE UNCHANGED <<file, tests>>
    BY <1>1 DEF FileInv
  <1>2. ASSUME NEW k \in Keys, WritePre(k) PROVE FileInv'
    <2> DEFINE line == Line(k, 1, TRUE)
    <2>1. line.key = k /\ line.sequence = 1 /\ line \in LineType
      BY DEF Line, LineType
    <2>2. file' = Append(file, line)
      BY <1>2 DEF WritePre
    <2> HIDE DEF line
    <2>3. /\ DOMAIN file' = 1..Len(file) + 1 /\ file'[Len(file) + 1] = line
          /\ Len(file') = Len(file) + 1 /\ file' # file
          /\ \A n \in DOMAIN file : file'[n] = file[n]
      BY <1>0, <2>1, <2>2, LineAppended
    <2>4. /\ tests[k].stage = "begun" /\ \A l \in Keys : l # k => tests'[l] = tests[l]
          /\ tests'[k].stage = "announced" /\ tests'[k].count = Len(file) + 1
      BY <1>0, <1>2, <2>3 DEF WritePre, Test
    <2>5. \A n \in DOMAIN file : file[n].key # k
      BY <2>4 DEF FileInv
    <2>6. \A m, n \in DOMAIN file' :
            m < n /\ file'[m].key = file'[n].key => file'[m].sequence < file'[n].sequence
      BY <1>0, <2>1, <2>3, <2>5 DEF FileInv
    <2>8. \A n \in DOMAIN file' :
            /\ tests'[file'[n].key].stage # "begun"
            /\ tests'[file'[n].key].stage # "posted" => file'[n].sequence = 1
      BY <1>0, <2>1, <2>3, <2>4, <2>5 DEF FileInv
    <2>9. \A l \in Keys : tests'[l].stage = "announced" =>
            LET n == tests'[l].count
            IN n \in DOMAIN file' /\ file'[n].key = l /\ file'[n].sequence = 1
      BY <1>0, <2>1, <2>3, <2>4 DEF FileInv
    <2> QED
      BY <2>6, <2>8, <2>9 DEF FileInv
  <1>3. ASSUME NEW k \in Keys, Mutate(k) PROVE FileInv'
    <2>1. /\ file' = file /\ tests[k].stage # "posted" /\ tests'[k].stage = "mutated"
          /\ \A l \in Keys : l # k => tests'[l] = tests[l]
      BY <1>0, <1>3 DEF Mutate, Test
    <2> QED
      BY <1>0, <2>1 DEF FileInv
  <1>4. ASSUME NEW k \in Keys, WritePost(k) PROVE FileInv'
    <2> DEFINE line == Line(k, 2, tests[k].count # 0)
    <2>0. (tests[k].count # 0) \in BOOLEAN
      OBVIOUS
    <2>1. line.key = k /\ line.sequence = 2 /\ line \in LineType
      BY <2>0 DEF Line, LineType
    <2>2. file' = Append(file, line)
      BY <1>4 DEF WritePost
    <2> HIDE DEF line
    <2>3. /\ DOMAIN file' = 1..Len(file) + 1 /\ file'[Len(file) + 1] = line
          /\ \A n \in DOMAIN file : file'[n] = file[n]
      BY <1>0, <2>1, <2>2, LineAppended
    <2>4. /\ tests[k].stage = "mutated" /\ tests'[k].stage = "posted"
          /\ \A l \in Keys : l # k => tests'[l] = tests[l]
      BY <1>0, <1>4 DEF WritePost, Test
    <2>5. \A n \in DOMAIN file : file[n].key = k => file[n].sequence = 1
      BY <2>4 DEF FileInv
    <2>6. \A m, n \in DOMAIN file' :
            m < n /\ file'[m].key = file'[n].key => file'[m].sequence < file'[n].sequence
      BY <1>0, <2>1, <2>3, <2>5 DEF FileInv
    <2>8. \A n \in DOMAIN file' :
            /\ tests'[file'[n].key].stage # "begun"
            /\ tests'[file'[n].key].stage # "posted" => file'[n].sequence = 1
      BY <1>0, <2>1, <2>3, <2>4, <2>5 DEF FileInv
    <2>9. \A l \in Keys : tests'[l].stage = "announced" =>
            LET n == tests'[l].count
            IN n \in DOMAIN file' /\ file'[n].key = l /\ file'[n].sequence = 1
      BY <1>0, <2>3, <2>4 DEF FileInv
    <2> QED
      BY <2>6, <2>8, <2>9 DEF FileInv
  <1>5. CASE UNCHANGED vars
    BY <1>1, <1>5 DEF vars
  <1>6. CASE Next
    <2>1. \/ UNCHANGED <<file, tests>> \/ \E k \in Keys : WritePre(k) \/ Mutate(k) \/ WritePost(k)
      BY <1>6 DEF Next, BrowserAction, PreObservation, Persistence, Arrives, Close, Poll, Forward,
            Timeout, Begin, Observe, PreObserved, Drive, Driven, PersistenceRead, IntentBefore,
            IntentAfter, Fail, Answers, Continues
    <2> QED
      BY <1>1, <1>2, <1>3, <1>4, <2>1
  <1> QED
    BY <1>5, <1>6

\* A request keeps its claim, and once done it stays so.
Lasting ==
    \A i \in DOMAIN requests :
      /\ i \in DOMAIN requests'
      /\ requests'[i].key = requests[i].key /\ requests'[i].sequence = requests[i].sequence
      /\ requests[i].step = "done" => requests'[i].step = "done"

\* An intent that has been handled stays handled.
LEMMA ResolvedLasts ==
    ASSUME Lasting, NEW k, NEW n, Resolved(k, n)
    PROVE  Resolved(k, n)'
  BY DEF Lasting, Resolved

\* A step that leaves the drain alone keeps DrainInv; so does a longer file.
LEMMA DrainKept ==
    ASSUME TypeOK, TypeOK', DrainInv, Lasting, UNCHANGED <<offset, queue, call, answered, sequences>>,
           \/ file' = file
           \/ \E line \in LineType : file' = Append(file, line)
    PROVE  DrainInv'
  <1>1. /\ Len(file') >= Len(file) /\ Len(file) \in Nat /\ Len(file') \in Nat
        /\ \A n \in 1..Len(file) : file'[n] = file[n]
    BY LineAppended DEF TypeOK
  <1>2. /\ offset \in Nat /\ offset <= Len(file) /\ Len(queue) <= offset
        /\ answered \in Nat /\ Len(queue) \in Nat /\ DOMAIN queue = 1..Len(queue)
        /\ Passed = answered + Awaited /\ Passed = offset - Len(queue)
        /\ Awaited \in {0, 1} /\ (call # 0 => Awaited = 1)
    BY DEF TypeOK, DrainInv, Passed, Awaited
  <1>3. Passed' = Passed /\ Awaited' = Awaited
    BY DEF Passed, Awaited
  <1>4. /\ offset' <= Len(file') /\ Len(queue') <= offset' /\ Passed' = answered' + Awaited'
    BY <1>1, <1>2, <1>3
  <1>5. \A j \in DOMAIN queue' : queue'[j] = file'[Passed' + j]
    <2>1. \A j \in DOMAIN queue : queue[j] = file[Passed + j] /\ Passed + j \in 1..Len(file)
      BY <1>2 DEF DrainInv
    <2> QED
      BY <1>1, <1>3, <2>1
  <1>6. \A n \in 1..answered' : Resolved(file[n].key, file[n].sequence)' /\ file'[n] = file[n]
    <2>1. \A n \in 1..answered : n \in 1..Len(file) /\ Resolved(file[n].key, file[n].sequence)
      BY <1>2 DEF DrainInv
    <2> QED
      BY <1>1, <2>1 DEF Resolved, Lasting
  <1>7. call' # 0 =>
         /\ call' \in DOMAIN requests' /\ requests'[call'].key = file'[answered' + 1].key
         /\ requests'[call'].sequence = file'[answered' + 1].sequence
    <2>1. call # 0 => answered + 1 \in 1..Len(file)
      BY <1>2
    <2> QED
      BY <1>1, <2>1 DEF DrainInv, Lasting
  <1>8. \A k \in Keys : sequences'[k] = 0 \/
         \E n \in 1..Passed' : file'[n].key = k /\ file'[n].sequence = sequences'[k]
    <2>1. \A n \in 1..Passed : n \in 1..Len(file)
      BY <1>2
    <2> QED
      BY <1>1, <1>3, <2>1 DEF DrainInv
  <1> QED
    BY <1>4, <1>5, <1>6, <1>7, <1>8 DEF DrainInv, Resolved

\* No step takes back a sequence number, a line or an answer.
LEMMA LastingStep ==
    ASSUME TypeOK, TypeOK', [Next]_vars
    PROVE  Lasting
  <1>1. CASE UNCHANGED requests
    BY <1>1 DEF Lasting
  <1>2. ASSUME Kept PROVE Lasting
    BY <1>2 DEF Kept, Lasting
  <1>3. ASSUME NEW r, Fresh(r) PROVE Lasting
    <2>1. /\ DOMAIN requests' = DOMAIN requests \cup {Len(requests) + 1}
          /\ \A i \in DOMAIN requests : requests'[i] = requests[i]
      BY <1>3, Appended DEF Fresh, TypeOK
    <2> QED
      BY <2>1 DEF Lasting
  <1>a. ASSUME NEW s \in Sessions, NEW k \in Keys, NEW of \in {k, NULL}, BrowserAction(s, k, of)
        PROVE  Lasting
    BY <1>a, <1>3, ActionArrives
  <1>b. ASSUME NEW s \in Sessions, NEW of \in Keys \cup {NULL}, PreObservation(s, of)
        PROVE  Lasting
    BY <1>b, <1>3, PreArrives
  <1>c. ASSUME NEW s \in Sessions, NEW k \in Keys, NEW t \in {0} \cup Preceding,
               NEW a \in 0..Len(intervals), Persistence(s, k, t, a)
        PROVE  Lasting
    BY <1>c, <1>3, PersistenceArrives
  <1>d. CASE Forward
    BY <1>d, <1>1, <1>3, IntentArrives
  <1>e. ASSUME NEW i \in DOMAIN requests, Begin(i) PROVE Lasting
    BY <1>e, <1>2, BeginKeeps
  <1>f. ASSUME NEW i \in DOMAIN requests, Observe(i) PROVE Lasting
    BY <1>f, <1>2, ObserveKeeps
  <1>g. ASSUME NEW i \in DOMAIN requests,
               PreObserved(i) \/ Drive(i) \/ Driven(i) \/ PersistenceRead(i)
        PROVE  Lasting
    <2>1. PICK step \in {"driving", "driven", "done"} : Moves(i, step) /\ requests[i].step # "done"
      BY <1>g DEF PreObserved, Drive, Driven, PersistenceRead, Is, Continues
    <2> QED
      BY <1>2, <2>1, MovesKeeps
  <1>h. ASSUME NEW i \in DOMAIN requests, IntentBefore(i) \/ IntentAfter(i) \/ Fail(i) PROVE Lasting
    <2>1. Answers(i) /\ requests[i].step # "done"
      BY <1>h DEF IntentBefore, IntentAfter, Fail, Is
    <2> QED
      BY <1>2, <2>1, AnswersKeeps
  <1>i. CASE UNCHANGED vars
    BY <1>i, <1>1 DEF vars
  <1>j. CASE Timeout \/ (\E n \in 1..Len(file) : Poll(n)) \/ (\E s \in Sessions : Close(s))
             \/ \E k \in Keys : WritePre(k) \/ Mutate(k) \/ WritePost(k)
    BY <1>j, <1>1 DEF Timeout, Poll, Close, WritePre, Mutate, WritePost, Test
  <1> QED
    BY <1>a, <1>b, <1>c, <1>d, <1>e, <1>f, <1>g, <1>h, <1>i, <1>j DEF Next

\* How many lines were read, passed on and answered.
LEMMA DrainNumbers ==
    ASSUME TypeOK, DrainInv
    PROVE  /\ offset \in Nat /\ Len(file) \in Nat /\ Len(queue) \in Nat /\ answered \in Nat
           /\ offset <= Len(file) /\ Len(queue) <= offset /\ DOMAIN queue = 1..Len(queue)
           /\ Passed = offset - Len(queue) /\ Passed = answered + Awaited /\ Awaited \in {0, 1}
           /\ call = 0 => Awaited = 0
           /\ call # 0 => Awaited = 1
           /\ \A n \in 1..Len(file) : file[n].key \in Keys /\ file[n].sequence \in {1, 2}
  <1>1. \A n \in 1..Len(file) : file[n] \in LineType
    BY DEF TypeOK
  <1>2. \A n \in 1..Len(file) : file[n].key \in Keys /\ file[n].sequence \in {1, 2}
    BY <1>1 DEF LineType
  <1>3. /\ offset \in Nat /\ Len(file) \in Nat /\ Len(queue) \in Nat /\ answered \in Nat
        /\ DOMAIN queue = 1..Len(queue)
    BY DEF TypeOK
  <1>4. offset <= Len(file) /\ Len(queue) <= offset /\ Passed = answered + Awaited
    BY DEF DrainInv
  <1>5. call = 0 => Awaited = 0
    BY DEF Awaited
  <1>6. call # 0 => Awaited = 1
    BY DEF Awaited
  <1> QED
    BY <1>2, <1>3, <1>4, <1>5, <1>6 DEF Passed

\* What is left of a sequence behind its n-th element, and what follows joining.
LEMMA Suffix ==
    ASSUME NEW S, NEW s \in Seq(S), NEW n \in Nat, n <= Len(s)
    PROVE  /\ SubSeq(s, n + 1, Len(s)) \in Seq(S) /\ Len(SubSeq(s, n + 1, Len(s))) = Len(s) - n
           /\ \A j \in 1..Len(s) - n : SubSeq(s, n + 1, Len(s))[j] = s[n + j]
  <1>1. \A j \in 1..Len(s) - n : SubSeq(s, n + 1, Len(s))[j] = s[n + 1 + j - 1] /\ n + 1 + j - 1 = n + j
    OBVIOUS
  <1> QED
    BY <1>1

\* What concatenation does to the elements.
LEMMA Joined ==
    ASSUME NEW S, NEW s \in Seq(S), NEW t \in Seq(S)
    PROVE  /\ Len(s \o t) = Len(s) + Len(t) /\ DOMAIN (s \o t) = 1..Len(s) + Len(t)
           /\ \A j \in 1..Len(s) : (s \o t)[j] = s[j]
           /\ \A j \in 1..Len(t) : (s \o t)[Len(s) + j] = t[j]
  OBVIOUS

\* DrainInv, when the reader hands over lines.
LEMMA DrainPoll ==
    ASSUME TypeOK, DrainInv, NEW n \in 1..Len(file), Poll(n), ~repeated'
    PROVE  DrainInv'
  <1> DEFINE more == SubSeq(file, offset + 1, Len(file))
  <1>1. /\ offset' = Len(file) /\ queue' = queue \o more
        /\ UNCHANGED <<requests, file, call, answered, sequences>>
    <2>1. repeated' = (repeated \/ n < Len(file)) /\ offset' = n
      BY DEF Poll
    <2>2. ~(n < Len(file))
      BY <2>1, Zenon
    <2>3. n = Len(file)
      BY <2>2, DrainNumbers
    <2> QED
      BY <2>1, <2>3 DEF Poll, serverVars
  <1>2. /\ more \in Seq(LineType) /\ Len(more) = Len(file) - offset
        /\ \A j \in 1..Len(file) - offset : more[j] = file[offset + j]
    <2>1. file \in Seq(LineType)
      BY DEF TypeOK
    <2> QED
      BY <2>1, DrainNumbers, Suffix
  <1>3. queue \in Seq(LineType)
    BY DEF TypeOK
  <1> HIDE DEF more
  <1>4. /\ Len(queue') = Len(queue) + Len(file) - offset /\ DOMAIN queue' = 1..Len(queue')
        /\ \A j \in 1..Len(queue) : queue'[j] = queue[j]
        /\ \A j \in 1..Len(file) - offset : queue'[Len(queue) + j] = more[j]
    <2>1. Len(queue') = Len(queue) + Len(more) /\ DOMAIN queue' = 1..Len(queue) + Len(more)
      BY <1>1, <1>2, <1>3, Joined
    <2>2. \A j \in 1..Len(queue) : queue'[j] = queue[j]
      BY <1>1, <1>2, <1>3, Joined
    <2>3. \A j \in 1..Len(more) : queue'[Len(queue) + j] = more[j]
      BY <1>1, <1>2, <1>3, Joined
    <2> QED
      BY <1>2, <2>1, <2>2, <2>3, DrainNumbers
  <1>5. Passed' = Passed /\ Awaited' = Awaited
    BY <1>1, <1>4, DrainNumbers DEF Passed, Awaited
  <1>6. \A j \in DOMAIN queue' : queue'[j] = file[Passed + j]
    <2> SUFFICES ASSUME NEW j \in 1..Len(queue') PROVE queue'[j] = file[Passed + j]
      BY <1>4
    <2>1. CASE j \in 1..Len(queue)
      BY <1>4, <2>1, DrainNumbers DEF DrainInv
    <2>2. CASE j \notin 1..Len(queue)
      <3>1. PICK h \in 1..Len(file) - offset : j = Len(queue) + h
        <4>1. j - Len(queue) \in 1..Len(file) - offset /\ j = Len(queue) + (j - Len(queue))
          BY <1>4, <2>2, DrainNumbers
        <4> QED
          BY <4>1
      <3>2. Passed + j = offset + h
        BY <3>1, DrainNumbers
      <3> QED
        BY <1>2, <1>4, <3>1, <3>2
    <2> QED
      BY <2>1, <2>2
  <1>7. /\ \A n0 \in 1..answered' : Resolved(file[n0].key, file[n0].sequence)'
        /\ call' # 0 =>
             /\ call' \in DOMAIN requests' /\ requests'[call'].key = file'[answered' + 1].key
             /\ requests'[call'].sequence = file'[answered' + 1].sequence
    BY <1>1 DEF DrainInv, Resolved
  <1>8. \A k \in Keys : sequences'[k] = 0 \/
         \E m \in 1..Passed' : file'[m].key = k /\ file'[m].sequence = sequences'[k]
    BY <1>1, <1>5 DEF DrainInv
  <1>9. offset' <= Len(file') /\ Len(queue') <= offset' /\ Passed' = answered' + Awaited'
    BY <1>1, <1>4, <1>5, DrainNumbers
  <1> QED
    BY <1>1, <1>5, <1>6, <1>7, <1>8, <1>9 DEF DrainInv, Resolved

\* DrainInv, when the drain makes its next call.
LEMMA DrainForward ==
    ASSUME TypeOK, TypeOK', FileInv, DrainInv, Lasting, Forward
    PROVE  DrainInv'
  <1> DEFINE line == Head(queue)
  <1>1. /\ queue # << >> /\ call = 0 /\ queue' = Tail(queue)
        /\ UNCHANGED <<offset, file>>
    BY DEF Forward
  <1>2. /\ line = queue[1] /\ Len(queue) # 0
        /\ Len(queue') = Len(queue) - 1 /\ DOMAIN queue' = 1..Len(queue')
        /\ \A j \in 1..Len(queue') : queue'[j] = queue[j + 1]
    BY <1>1 DEF TypeOK
  <1>3. Passed = answered /\ Passed' = Passed + 1 /\ Passed + 1 \in 1..Len(file)
    BY <1>1, <1>2, DrainNumbers DEF Passed
  <1>4. line = file[Passed + 1]
    <2>1. 1 \in DOMAIN queue
      BY <1>2, DrainNumbers
    <2> QED
      BY <1>2, <2>1 DEF DrainInv
  <1>5. line.key \in Keys /\ line.sequence \in {1, 2}
    BY <1>3, <1>4, DrainNumbers
  <1> HIDE DEF line
  <1>6. line.sequence > sequences[line.key]
    <2>1. CASE sequences[line.key] = 0
      BY <1>5, <2>1
    <2>2. CASE sequences[line.key] # 0
      <3>1. PICK n \in 1..Passed : file[n].key = line.key /\ file[n].sequence = sequences[line.key]
        BY <1>5, <2>2 DEF DrainInv
      <3>2. n < Passed + 1 /\ n \in DOMAIN file /\ Passed + 1 \in DOMAIN file
        BY <1>3, DrainNumbers DEF TypeOK
      <3>3. file[n].sequence < line.sequence
        BY <1>4, <3>1, <3>2 DEF FileInv
      <3>4. file[n].sequence \in Nat
        <4>1. n \in 1..Len(file)
          BY <1>3, DrainNumbers
        <4> QED
          BY <4>1, DrainNumbers
      <3> QED
        BY <1>5, <3>1, <3>3, <3>4
    <2> QED
      BY <2>1, <2>2
  <1>7. PICK r : /\ Fresh(r) /\ r.key = line.key /\ r.sequence = line.sequence
                 /\ sequences' = [sequences EXCEPT ![r.key] = r.sequence]
                 /\ call' = Len(requests')
    BY <1>6, IntentArrives DEF line
  <1>8. /\ answered' = answered
        /\ call' \in DOMAIN requests' /\ requests'[call'] = r /\ call' # 0
    <2>1. /\ Len(requests') = Len(requests) + 1 /\ requests'[Len(requests) + 1] = r
          /\ DOMAIN requests' = 1..Len(requests) + 1 /\ Len(requests) \in Nat
      BY <1>7, Appended DEF Fresh, TypeOK
    <2>2. answered' = answered
      BY <1>6 DEF Forward, line
    <2> QED
      BY <1>7, <2>1, <2>2
  <1>9. offset' <= Len(file') /\ Len(queue') <= offset' /\ Passed' = answered' + Awaited'
    BY <1>1, <1>2, <1>3, <1>8, DrainNumbers DEF Awaited
  <1>10. \A j \in DOMAIN queue' : queue'[j] = file'[Passed' + j]
    <2>1. \A j \in DOMAIN queue' : j + 1 \in DOMAIN queue /\ Passed' + j = Passed + (j + 1)
      BY <1>2, <1>3, DrainNumbers
    <2> QED
      BY <1>1, <1>2, <2>1 DEF DrainInv
  <1>11. \A n \in 1..answered' : Resolved(file[n].key, file[n].sequence)'
    BY <1>1, <1>8 DEF DrainInv, Resolved, Lasting
  <1>12. /\ requests'[call'].key = file'[answered' + 1].key
         /\ requests'[call'].sequence = file'[answered' + 1].sequence
    BY <1>1, <1>3, <1>4, <1>7, <1>8
  <1>13. \A k \in Keys : sequences'[k] = 0 \/
           \E n \in 1..Passed' : file'[n].key = k /\ file'[n].sequence = sequences'[k]
    <2> SUFFICES ASSUME NEW k \in Keys, sequences'[k] # 0
                 PROVE  \E n \in 1..Passed' : file[n].key = k /\ file[n].sequence = sequences'[k]
      BY <1>1
    <2>1. CASE k = line.key
      <3>1. sequences'[k] = line.sequence /\ Passed + 1 \in 1..Passed'
        BY <1>3, <1>7, <2>1 DEF TypeOK
      <3> QED
        BY <1>4, <2>1, <3>1
    <2>2. CASE k # line.key
      <3>1. sequences'[k] = sequences[k] /\ \A n \in 1..Passed : n \in 1..Passed'
        BY <1>3, <1>7, <2>2 DEF TypeOK
      <3> QED
        BY <3>1 DEF DrainInv
    <2> QED
      BY <2>1, <2>2
  <1> QED
    BY <1>8, <1>9, <1>10, <1>11, <1>12, <1>13 DEF DrainInv, Resolved

\* DrainInv, when the witness answers the drain's call.
LEMMA DrainAnswers ==
    ASSUME TypeOK, TypeOK', DrainInv, Lasting, NEW i \in DOMAIN requests, Answers(i),
           requests'[i].step = "done", sequences' = sequences
    PROVE  DrainInv'
  <1>0. UNCHANGED <<file, offset, queue>>
    BY DEF Answers
  <1>1. CASE call # i
    BY <1>0, <1>1, DrainKept DEF Answers
  <1>2. CASE call = i
    <2>1. call # 0 /\ call' = 0 /\ answered' = answered + 1
      BY <1>2 DEF Answers, TypeOK
    <2>2. Passed' = Passed /\ Awaited = 1 /\ Awaited' = 0
      BY <1>0, <2>1 DEF Passed, Awaited
    <2>3. requests[i].key = file[answered + 1].key /\ requests[i].sequence = file[answered + 1].sequence
      BY <1>2, <2>1 DEF DrainInv
    <2>4. \A n \in 1..answered' : Resolved(file[n].key, file[n].sequence)'
      <3>1. /\ i \in DOMAIN requests' /\ requests'[i].key = requests[i].key
            /\ requests'[i].sequence = requests[i].sequence
        BY DEF Lasting
      <3> SUFFICES ASSUME NEW n \in 1..answered'
                   PROVE  \E j \in DOMAIN requests' :
                             /\ requests'[j].key = file[n].key /\ requests'[j].sequence = file[n].sequence
                             /\ requests'[j].step = "done"
        BY <1>0 DEF Resolved
      <3>2. CASE n = answered + 1
        BY <2>3, <3>1, <3>2
      <3>3. CASE n \in 1..answered
        BY <3>3 DEF DrainInv, Resolved, Lasting
      <3> QED
        BY <2>1, <3>2, <3>3, DrainNumbers
    <2>5. \A k \in Keys : sequences'[k] = 0 \/
           \E n \in 1..Passed' : file'[n].key = k /\ file'[n].sequence = sequences'[k]
      BY <1>0, <2>2 DEF DrainInv
    <2>6. /\ offset' <= Len(file') /\ Len(queue') <= offset' /\ Passed' = answered' + Awaited'
          /\ \A j \in DOMAIN queue' : queue'[j] = file'[Passed' + j]
      BY <1>0, <2>1, <2>2, DrainNumbers DEF DrainInv
    <2> QED
      BY <2>1, <2>4, <2>5, <2>6 DEF DrainInv, Resolved
  <1> QED
    BY <1>1, <1>2

\* No call has timed out and no line was read twice: so it was before the step.
LEMMA RegularStep == TypeOK /\ [Next]_vars /\ ~expired' /\ ~repeated' => ~expired /\ ~repeated
  <1> SUFFICES ASSUME TypeOK, [Next]_vars, ~expired', ~repeated' PROVE ~expired /\ ~repeated
    OBVIOUS
  <1>1. ~expired
    BY ExpiredStep
  <1>2. repeated' = repeated \/ \E n \in 1..Len(file) : repeated' = (repeated \/ n < Len(file))
    <2>1. CASE UNCHANGED vars
      BY <2>1 DEF vars, drainVars
    <2>2. CASE Next
      BY <2>2 DEF Next, BrowserAction, PreObservation, Persistence, Arrives, Close, WritePre, Mutate,
            WritePost, Test, Poll, Forward, Timeout, Begin, Observe, PreObserved, Drive, Driven,
            PersistenceRead, IntentBefore, IntentAfter, Fail, Answers, Continues, drainVars
    <2> QED
      BY <2>1, <2>2
  <1>3. ~repeated
    BY <1>2, Zenon
  <1> QED
    BY <1>1, <1>3

\* Every step keeps DrainInv.
LEMMA DrainStep ==
    ASSUME TypeOK, TypeOK', FileInv, DrainInv, [Next]_vars, ~expired', ~repeated'
    PROVE  DrainInv'
  <1>0. Lasting
    BY LastingStep
  <1>1. ASSUME UNCHANGED <<file, offset, queue, call, answered, sequences>> PROVE DrainInv'
    BY <1>0, <1>1, DrainKept
  <1>a. ASSUME NEW s \in Sessions, NEW k \in Keys, NEW of \in {k, NULL}, BrowserAction(s, k, of)
        PROVE  DrainInv'
    BY <1>a, <1>1 DEF BrowserAction, Arrives, serverVars, drainVars
  <1>b. ASSUME NEW s \in Sessions, NEW of \in Keys \cup {NULL}, PreObservation(s, of)
        PROVE  DrainInv'
    BY <1>b, <1>1 DEF PreObservation, Arrives, serverVars, drainVars
  <1>c. ASSUME NEW s \in Sessions, NEW k \in Keys, NEW t \in {0} \cup Preceding,
               NEW a \in 0..Len(intervals), Persistence(s, k, t, a)
        PROVE  DrainInv'
    BY <1>c, <1>1 DEF Persistence, Arrives, serverVars, drainVars
  <1>d. ASSUME NEW s \in Sessions, Close(s) PROVE DrainInv'
    BY <1>d, <1>1 DEF Close, serverVars, drainVars
  <1>e. ASSUME NEW k \in Keys, WritePre(k) \/ Mutate(k) \/ WritePost(k) PROVE DrainInv'
    <2>0. UNCHANGED <<offset, queue, call, answered, sequences>>
      BY <1>e DEF WritePre, Mutate, WritePost, Test, serverVars, drainVars
    <2>1. Line(k, 1, TRUE) \in LineType
      BY DEF Line, LineType
    <2>2. Line(k, 2, tests[k].count # 0) \in LineType
      <3>1. (tests[k].count # 0) \in BOOLEAN
        OBVIOUS
      <3> QED
        BY <3>1 DEF Line, LineType
    <2>3. file' = file \/ \E line \in LineType : file' = Append(file, line)
      <3>1. CASE WritePre(k)
        BY <2>1, <3>1 DEF WritePre
      <3>2. CASE Mutate(k)
        BY <3>2 DEF Mutate
      <3>3. CASE WritePost(k)
        BY <2>2, <3>3 DEF WritePost
      <3> QED
        BY <1>e, <3>1, <3>2, <3>3
    <2> QED
      BY <1>0, <2>0, <2>3, DrainKept
  <1>f. ASSUME NEW n \in 1..Len(file), Poll(n) PROVE DrainInv'
    BY <1>f, DrainPoll
  <1>g. CASE Forward
    BY <1>0, <1>g, DrainForward
  <1>h. CASE Timeout
    BY <1>h DEF Timeout
  <1>i. ASSUME NEW i \in DOMAIN requests,
               Begin(i) \/ Observe(i) \/ PreObserved(i) \/ Drive(i) \/ Driven(i) \/ PersistenceRead(i)
        PROVE  DrainInv'
    BY <1>i, <1>1 DEF Begin, Observe, PreObserved, Drive, Driven, PersistenceRead, Continues,
                      serverVars, drainVars
  <1>j. ASSUME NEW i \in DOMAIN requests, IntentBefore(i) \/ IntentAfter(i) \/ Fail(i)
        PROVE  DrainInv'
    <2>1. Answers(i) /\ requests[i].step # "done" /\ sequences' = sequences
      BY <1>j DEF IntentBefore, IntentAfter, Fail, Is, serverVars
    <2> QED
      BY <1>0, <2>1, AnswersKeeps, DrainAnswers
  <1>k. CASE UNCHANGED vars
    BY <1>k, <1>1 DEF vars, serverVars, drainVars
  <1> QED
    BY <1>a, <1>b, <1>c, <1>d, <1>e, <1>f, <1>g, <1>h, <1>i, <1>j, <1>k DEF Next

\* Every step keeps what a test may rely on that awaited its intent.
LEMMA ProbeStep == TypeOK /\ ProbeInv /\ [Next]_vars => ProbeInv'
  <1> SUFFICES ASSUME TypeOK, ProbeInv, [Next]_vars PROVE ProbeInv'
    OBVIOUS
  <1>0. TypeOK' /\ Lasting
    BY TypeStep, LastingStep
  <1>1. FileInv /\ FileInv'
    BY FileStep DEF ProbeInv
  <1>2. ASSUME ~expired', ~repeated' PROVE DrainInv /\ DrainInv' /\ ~expired /\ ~repeated
    BY <1>0, <1>1, <1>2, RegularStep, DrainStep DEF ProbeInv
  <1>3. ASSUME ~expired', ~repeated', NEW k \in Patient, tests'[k].stage \in {"mutated", "posted"}
        PROVE  Resolved(k, 1)'
    <2>0. k \in Keys
      BY ReadsAssumption
    <2>1. CASE tests[k].stage \in {"mutated", "posted"}
      <3>1. Resolved(k, 1)
        BY <1>2, <1>3, <2>1 DEF ProbeInv, MutatesAfterProbe, Resolved
      <3> QED
        BY <1>0, <3>1, ResolvedLasts
    <2>2. CASE tests[k].stage \notin {"mutated", "posted"}
      <3>1. \E l \in Keys : WritePre(l) \/ Mutate(l) \/ WritePost(l)
        <4>1. tests' # tests
          BY <1>3, <2>2
        <4> QED
          BY <4>1 DEF Next, BrowserAction, PreObservation, Persistence, Arrives, Close, Poll, Forward,
            Timeout, Begin, Observe, PreObserved, Drive, Driven, PersistenceRead, IntentBefore,
            IntentAfter, Fail, Answers, Continues, vars
      <3>2. Mutate(k)
        <4>1. PICK l \in Keys : WritePre(l) \/ Mutate(l) \/ WritePost(l)
          BY <3>1
        <4>2. l = k
          BY <1>3, <2>0, <2>2, <4>1 DEF WritePre, Mutate, WritePost, Test, TypeOK
        <4>3. ~WritePre(k)
          <5>1. SUFFICES ASSUME WritePre(k) PROVE FALSE
            OBVIOUS
          <5>2. tests'[k].stage = "announced"
            BY <2>0, <5>1 DEF WritePre, Test, TypeOK
          <5> QED
            BY <1>3, <5>2
        <4>4. ~WritePost(k)
          BY <2>2 DEF WritePost, Test
        <4> QED
          BY <4>1, <4>2, <4>3, <4>4
      <3> DEFINE n == tests[k].count
      <3>3. tests[k].stage = "announced" /\ answered >= n
        BY <1>3, <3>2 DEF Mutate, Released
      <3>4. n \in DOMAIN file /\ file[n].key = k /\ file[n].sequence = 1
        BY <1>1, <2>0, <3>3 DEF FileInv
      <3>5. n \in 1..answered
        BY <3>3, <3>4 DEF TypeOK
      <3>6. Resolved(k, 1)
        BY <1>2, <1>3, <3>4, <3>5 DEF DrainInv
      <3> QED
        BY <1>0, <3>6, ResolvedLasts
    <2> QED
      BY <2>1, <2>2
  <1>4. MutatesAfterProbe'
    BY <1>3 DEF MutatesAfterProbe, Resolved
  <1> QED
    BY <1>1, <1>2, <1>4 DEF ProbeInv

----------------------------------------------------------------------------
(* The theorems.                                                           *)

\* The invariant holds initially.
LEMMA ReadsInit == Init => ReadsInv
  <1> SUFFICES ASSUME Init PROVE ReadsInv
    OBVIOUS
  <1>1. requests = << >> /\ intervals = << >> /\ ledger = {} /\ tokens = {} /\ pres = {}
    BY DEF Init
  <1>2. TypeOK
    <2>1. [stage |-> "begun", count |-> 0] \in TestType
      BY DEF TestType
    <2>2. tests \in [Keys -> TestType] /\ sequences \in [Keys -> Nat]
      BY <2>1 DEF Init
    <2>3. /\ requests \in Seq(RequestType) /\ intervals \in Seq(IntervalType)
          /\ file \in Seq(LineType) /\ queue \in Seq(LineType)
      BY DEF Init
    <2> QED
      BY <2>2, <2>3 DEF Init, TypeOK
  <1>3. UseInv
    BY <1>1 DEF UseInv, Shapes, Unused, Held, Accounts, Accepted
  <1>4. OrderInv
    BY <1>1 DEF OrderInv, Past, BeforeAfter, Anchored, OneByOne, Alone, Surrounded,
                ReadsSurroundTheMutation
  <1> QED
    BY <1>2, <1>3, <1>4 DEF ReadsInv

\* Every step keeps the invariant.
LEMMA ReadsStep == ReadsInv /\ [Next]_vars => ReadsInv'
  <1> SUFFICES ASSUME ReadsInv, [Next]_vars PROVE ReadsInv'
    OBVIOUS
  <1>1. TypeOK /\ TypeOK' /\ UseInv /\ UseInv'
    BY TypeStep, UseStep DEF ReadsInv
  <1>2. OrderInv'
    BY <1>1, PastStep, BeforeStep, AnchorStep, OneByOneStep, SurroundedStep DEF ReadsInv, OrderInv
  <1> QED
    BY <1>1, <1>2 DEF ReadsInv

\* Every record, pre-observation, interval and intent has its type, however
\* the handlers of server.ts interleave.
THEOREM ReadsTypeCorrect == Spec => []TypeOK
  <1>1. Init => TypeOK
    BY ReadsInit DEF ReadsInv
  <1> QED
    BY <1>1, TypeStep, PTL DEF Spec

\* The witness consumes a pre-observation when a persistence read begins and
\* accepts a sequence number of a claim once: no observation grades two
\* mutations and no intent has two records, whatever fails or is read twice.
THEOREM ReadsUsedOnce == Spec => []UsedOnce
  <1>1. ReadsInv => UsedOnce
    <2> SUFFICES ASSUME ReadsInv, NEW r \in ledger, NEW q \in ledger, r # q
                 PROVE  /\ r.before # Nothing => r.before # q.before
                        /\ r.intent # 0 => <<r.key, r.intent>> # <<q.key, q.intent>>
      BY DEF UsedOnce
    <2>1. r.before # Nothing => r.before # q.before
      <3>1. r.before # Nothing => q.before.id # r.before.id
        BY DEF ReadsInv, UseInv, Accounts
      <3> QED
        BY <3>1
    <2>2. r.id \in DOMAIN requests /\ q.id \in DOMAIN requests /\ r.id # q.id
      BY DEF ReadsInv, UseInv, Accounts
    <2>3. /\ r.key = requests[r.id].key /\ r.intent = requests[r.id].sequence
          /\ q.key = requests[q.id].key /\ q.intent = requests[q.id].sequence
      BY DEF ReadsInv, UseInv, Accounts
    <2>4. r.intent # 0 => ~(r.key = q.key /\ r.intent = q.intent)
      BY <2>2, <2>3 DEF ReadsInv, UseInv, Accepted
    <2> QED
      BY <2>1, <2>4
  <1> QED
    BY <1>1, ReadsInit, ReadsStep, PTL DEF Spec

\* As long as no call of the drain has timed out, every record's before was
\* read no later than its after, of the same entity, and the read for an action
\* follows that action's end.
THEOREM ReadsInOrder == Spec => []ReadsSurroundTheMutation
  <1>1. ReadsInv => ReadsSurroundTheMutation
    BY DEF ReadsInv, OrderInv, Surrounded
  <1> QED
    BY <1>1, ReadsInit, ReadsStep, PTL DEF Spec

\* Unless a call of the drain timed out or a line was read twice, a test that
\* awaits its intent mutates the application only after the witness has handled
\* that very intent: the drain's count of answers is the count of its lines.
THEOREM ReadsBeforeMutation == Spec => []MutatesAfterProbe
  <1>1. Init => TypeOK /\ ProbeInv
    <2> SUFFICES ASSUME Init PROVE ProbeInv
      BY ReadsInit DEF ReadsInv
    <2>1. /\ file = << >> /\ queue = << >> /\ offset = 0 /\ answered = 0 /\ call = 0
          /\ \A k \in Keys : tests[k].stage = "begun" /\ sequences[k] = 0
      BY DEF Init
    <2>2. FileInv
      BY <2>1 DEF FileInv
    <2>3. DrainInv
      <3>0. Len(file) = 0 /\ Len(queue) = 0 /\ DOMAIN queue = {}
        BY <2>1
      <3>1. Passed = 0 /\ Awaited = 0
        <4>1. offset = 0 /\ call = 0
          BY <2>1
        <4>2. Passed = 0
          BY <3>0, <4>1 DEF Passed
        <4>3. Awaited = 0
          BY <4>1 DEF Awaited
        <4> QED
          BY <4>2, <4>3
      <3>2. offset <= Len(file) /\ Len(queue) <= offset /\ Passed = answered + Awaited
        BY <2>1, <3>0, <3>1
      <3>3. \A n \in 1..answered : Resolved(file[n].key, file[n].sequence)
        BY <2>1
      <3>4. \A j \in DOMAIN queue : queue[j] = file[Passed + j]
        BY <3>0
      <3> QED
        BY <2>1, <3>2, <3>3, <3>4 DEF DrainInv
    <2>4. MutatesAfterProbe
      BY <2>1, ReadsAssumption DEF MutatesAfterProbe
    <2> QED
      BY <2>2, <2>3, <2>4 DEF ProbeInv
  <1>2. ProbeInv => MutatesAfterProbe
    BY DEF ProbeInv
  <1> QED
    BY <1>1, <1>2, TypeStep, ProbeStep, PTL DEF Spec
=============================================================================

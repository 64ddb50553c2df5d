------------------------ MODULE PageObservationProofs ------------------------
(***************************************************************************)
(* Proofs about PageObservation, for any number of sessions, observers and *)
(* visits: a page record that nothing can take back is of a session that   *)
(* passed, and what a seal has decided about a record is final.            *)
(***************************************************************************)
EXTENDS PageObservation, TLAPS

\* An observer that was registered has a session, one that has not has none
\* of the activity of an attached one.
Registered ==
    \A o \in Observers :
      /\ obs[o] # "idle" => sessionOf[o] \in Sessions
      /\ dirty[o] => obs[o] # "idle"
      /\ \A s \in Sessions : pageObservers[s] = o => obs[o] # "idle"

\* Nobody reports the outcome of a session before it is released.
OpenUndecided == \A s \in Sessions : status[s] = "open" => outcome[s] = NULL

PageInv == TypeOK /\ Registered /\ OpenUndecided /\ KeptMeansPassed

----------------------------------------------------------------------------
\* What sealPageObservationRecords leaves in the maps.
LEMMA SealedRecords ==
    ASSUME TypeOK, NEW s \in Sessions, NEW o \in Outcomes, SealPageObservationRecords(s, o)
    PROVE  /\ ledger' \subseteq ledger /\ tracked' \in [Sessions -> SUBSET Nat]
           /\ tracked'[s] = {} /\ \A t \in Sessions : t # s => tracked'[t] = tracked[t]
           /\ \A r \in ledger : r \in ledger' \/ (r[1] = s /\ r[2] \in tracked[s])
           /\ o # "passed" => \A r \in ledger' : ~(r[1] = s /\ r[2] \in tracked[s])
  <1>1. /\ tracked' \in [Sessions -> SUBSET Nat] /\ tracked'[s] = {}
        /\ \A t \in Sessions : t # s => tracked'[t] = tracked[t]
    <2>1. tracked' = [tracked EXCEPT ![s] = {}] /\ tracked \in [Sessions -> SUBSET Nat]
      BY DEF SealPageObservationRecords, TypeOK
    <2>2. {} \in SUBSET Nat
      OBVIOUS
    <2> QED
      BY <2>1, <2>2
  <1>2. \A r \in ledger : r \in {s} \X tracked[s] <=> r[1] = s /\ r[2] \in tracked[s]
    <2>1. \A r \in ledger : r \in Sessions \X Nat
      BY DEF TypeOK
    <2> QED
      BY <2>1
  <1>3. ledger' = IF o # "passed" THEN ledger \ ({s} \X tracked[s]) ELSE ledger
    BY DEF SealPageObservationRecords
  <1>4. ledger' \subseteq ledger
    BY <1>3
  <1>5. \A r \in ledger : r \in ledger' \/ (r[1] = s /\ r[2] \in tracked[s])
    BY <1>2, <1>3
  <1>6. ASSUME o # "passed", NEW r \in ledger' PROVE ~(r[1] = s /\ r[2] \in tracked[s])
    BY <1>2, <1>3, <1>6
  <1> QED
    BY <1>1, <1>4, <1>5, <1>6

\* Stopping an observer keeps the types and Registered.
LEMMA StoppedObserver ==
    ASSUME TypeOK, Registered, NEW s \in Sessions, StopPageObserver(s), dirty' = dirty
    PROVE  /\ obs' \in [Observers -> {"idle", "attaching", "live", "closing", "closed"}]
           /\ sessionOf' = sessionOf
           /\ pageObservers' \in [Sessions -> Observers \cup {NULL}]
           /\ Registered'
  <1>1. /\ obs' \in [Observers -> {"idle", "attaching", "live", "closing", "closed"}]
        /\ sessionOf' = sessionOf /\ pageObservers' \in [Sessions -> Observers \cup {NULL}]
        /\ \A t \in Sessions : pageObservers'[t] \in {NULL, pageObservers[t]}
        /\ \A o \in Observers : obs'[o] = "idle" <=> obs[o] = "idle" /\ o # pageObservers[s]
    BY DEF StopPageObserver, TypeOK
  <1>2. \A o \in Observers : o = pageObservers[s] => obs[o] # "idle"
    BY DEF Registered
  <1>3. Registered'
    BY <1>1, <1>2, PageAssumption DEF Registered
  <1> QED
    BY <1>1, <1>3

\* Every step keeps the types and Registered.
LEMMA TypeStep == TypeOK /\ Registered /\ [Next]_vars => TypeOK' /\ Registered'
  <1> SUFFICES ASSUME TypeOK, Registered, [Next]_vars PROVE TypeOK' /\ Registered'
    OBVIOUS
  <1> USE DEF handlerVars, obsVars, recVars, stopVars
  <1>1. ASSUME NEW o \in Observers, NEW s \in Sessions, RegisterPageObserver(o, s)
        PROVE  TypeOK' /\ Registered'
    BY <1>1 DEF RegisterPageObserver, TypeOK, Registered
  <1>2. ASSUME NEW o \in Observers, Attached(o) PROVE TypeOK' /\ Registered'
    <2>1. sessionOf[o] \in Sessions /\ obs[o] = "attaching"
      BY <1>2 DEF Attached, Registered
    <2> QED
      BY <1>2, <2>1 DEF Attached, TypeOK, Registered
  <1>3. ASSUME NEW o \in Observers, AttachFailed(o) \/ ObserverClosed(o) PROVE TypeOK' /\ Registered'
    BY <1>3 DEF AttachFailed, ObserverClosed, TypeOK, Registered
  <1>4. ASSUME NEW o \in Observers, PageActivity(o) \/ OnUnmatchedVisit(o) PROVE TypeOK' /\ Registered'
    BY <1>4 DEF PageActivity, OnUnmatchedVisit, TypeOK, Registered
  <1>5. ASSUME NEW o \in Observers, OnVisit(o) PROVE TypeOK' /\ Registered'
    <2>1. sessionOf[o] \in Sessions
      BY <1>5 DEF OnVisit, Registered
    <2>2. visits[sessionOf[o]] + 1 \in Nat
      BY <2>1 DEF TypeOK
    <2> QED
      BY <1>5, <2>1, <2>2 DEF OnVisit, TypeOK, Registered
  <1>6. ASSUME NEW s \in Sessions, NEW o \in Outcomes, CloseOpen(s, o) PROVE TypeOK' /\ Registered'
    <2>1. ledger' \subseteq ledger /\ tracked' \in [Sessions -> SUBSET Nat]
      BY <1>6, SealedRecords DEF CloseOpen
    <2> QED
      BY <1>6, <2>1 DEF CloseOpen, TypeOK, Registered
  <1>7. ASSUME NEW s \in Sessions, NEW o \in Outcomes, CloseReleased(s, o) PROVE TypeOK' /\ Registered'
    <2>1. outcome' \in [Sessions -> Outcomes]
      BY <1>7 DEF CloseReleased, TypeOK
    <2>2. ledger' \subseteq ledger /\ tracked' \in [Sessions -> SUBSET Nat]
      BY <1>7, <2>1, SealedRecords DEF CloseReleased
    <2>3. /\ obs' \in [Observers -> {"idle", "attaching", "live", "closing", "closed"}]
          /\ sessionOf' = sessionOf /\ pageObservers' \in [Sessions -> Observers \cup {NULL}]
          /\ Registered'
      BY <1>7, StoppedObserver DEF CloseReleased
    <2> QED
      BY <1>7, <2>1, <2>2, <2>3 DEF CloseReleased, TypeOK
  <1>8. ASSUME NEW s \in Sessions, Release(s) PROVE TypeOK' /\ Registered'
    BY <1>8 DEF Release, TypeOK, Registered
  <1>9. ASSUME NEW s \in Sessions, ProxyStopped(s) PROVE TypeOK' /\ Registered'
    <2>1. /\ obs' \in [Observers -> {"idle", "attaching", "live", "closing", "closed"}]
          /\ sessionOf' = sessionOf /\ pageObservers' \in [Sessions -> Observers \cup {NULL}]
          /\ Registered'
      BY <1>9, StoppedObserver DEF ProxyStopped
    <2> QED
      BY <1>9, <2>1 DEF ProxyStopped, TypeOK
  <1>10. ASSUME NEW s \in Sessions, StopObserver(s) PROVE TypeOK' /\ Registered'
    <2>1. /\ obs' \in [Observers -> {"idle", "attaching", "live", "closing", "closed"}]
          /\ sessionOf' = sessionOf /\ pageObservers' \in [Sessions -> Observers \cup {NULL}]
          /\ Registered'
      BY <1>10, StoppedObserver DEF StopObserver
    <2> QED
      BY <1>10, <2>1 DEF StopObserver, TypeOK
  <1>11. CASE LedgerAttestation \/ StopWitness \/ AppendRecordIds
    BY <1>11 DEF LedgerAttestation, StopWitness, AppendRecordIds, TypeOK, Registered
  <1>12. CASE StopSeal
    BY <1>12 DEF StopSeal, TypeOK, Registered
  <1>13. CASE UNCHANGED vars
    BY <1>13 DEF vars, TypeOK, Registered
  <1> QED
    BY <1>1, <1>2, <1>3, <1>4, <1>5, <1>6, <1>7, <1>8, <1>9, <1>10, <1>11, <1>12, <1>13 DEF Next

\* A seal keeps records of passed sessions only; other steps keep what is
\* kept.
LEMMA KeptStep == PageInv /\ [Next]_vars => OpenUndecided' /\ KeptMeansPassed'
  <1> SUFFICES ASSUME PageInv, [Next]_vars PROVE OpenUndecided' /\ KeptMeansPassed'
    OBVIOUS
  <1> DEFINE Goal == OpenUndecided' /\ KeptMeansPassed'
  <1>0. TypeOK /\ Registered /\ OpenUndecided /\ KeptMeansPassed
    BY DEF PageInv
  <1>a. \A r \in ledger : r = <<r[1], r[2]>> /\ r[1] \in Sessions /\ r[2] \in Nat
    BY <1>0 DEF TypeOK
  <1>1. ASSUME UNCHANGED <<status, outcome, tracked, ledger>> PROVE Goal
    BY <1>0, <1>1 DEF OpenUndecided, KeptMeansPassed
  <1>2. ASSUME NEW o \in Observers, OnVisit(o) PROVE Goal
    <2> DEFINE s == sessionOf[o]
               n == visits[s] + 1
    <2>1. s \in Sessions
      BY <1>0, <1>2 DEF OnVisit, Registered
    <2>2. /\ ledger' = ledger \cup {<<s, n>>} /\ UNCHANGED <<status, outcome>>
          /\ tracked'[s] = tracked[s] \cup {n}
          /\ \A t \in Sessions : t # s => tracked'[t] = tracked[t]
      BY <1>0, <1>2, <2>1 DEF OnVisit, handlerVars, TypeOK
    <2> HIDE DEF n
    <2> QED
      BY <1>0, <1>a, <2>1, <2>2 DEF OpenUndecided, KeptMeansPassed
  <1>3. ASSUME NEW s \in Sessions, NEW o \in Outcomes, SealPageObservationRecords(s, o),
               outcome' \in [Sessions -> Outcomes], outcome'[s] = o,
               outcome[s] = "passed" => o = "passed",
               \A t \in Sessions : t # s => outcome'[t] = outcome[t]
        PROVE  KeptMeansPassed'
    <2> SUFFICES ASSUME NEW r \in ledger', r[2] \notin tracked'[r[1]] PROVE outcome'[r[1]] = "passed"
      BY DEF KeptMeansPassed
    <2>1. r \in ledger /\ r[1] \in Sessions
      BY <1>0, <1>3, <1>a, SealedRecords
    <2>2. CASE r[1] # s
      BY <1>0, <1>3, <2>1, <2>2, SealedRecords DEF KeptMeansPassed
    <2>3. CASE r[1] = s /\ o # "passed"
      <3>1. r[2] \notin tracked[s]
        BY <1>0, <1>3, <2>3, SealedRecords
      <3> QED
        BY <1>0, <1>3, <2>1, <2>3, <3>1 DEF KeptMeansPassed
    <2>4. CASE r[1] = s /\ o = "passed"
      BY <1>3, <2>4
    <2> QED
      BY <2>2, <2>3, <2>4
  <1>4. ASSUME NEW s \in Sessions, NEW o \in Outcomes, CloseOpen(s, o) PROVE Goal
    <2>1. outcome' \in [Sessions -> Outcomes] /\ outcome'[s] = o /\ outcome[s] = NULL
          /\ \A t \in Sessions : t # s => outcome'[t] = outcome[t] /\ status'[t] = status[t]
      BY <1>0, <1>4 DEF CloseOpen, TypeOK, OpenUndecided
    <2>2. status'[s] = "sealed" /\ SealPageObservationRecords(s, o)
      BY <1>0, <1>4 DEF CloseOpen, TypeOK
    <2>3. outcome[s] # "passed"
      BY <2>1, PageAssumption
    <2>4. KeptMeansPassed'
      BY <1>3, <2>1, <2>2, <2>3
    <2> QED
      BY <1>0, <2>1, <2>2, <2>4 DEF OpenUndecided
  <1>5. ASSUME NEW s \in Sessions, NEW o \in Outcomes, CloseReleased(s, o) PROVE Goal
    <2>1. /\ outcome' \in [Sessions -> Outcomes]
          /\ outcome'[s] = IF o # NULL THEN o ELSE outcome[s]
          /\ \A t \in Sessions : t # s => outcome'[t] = outcome[t]
          /\ o # NULL /\ outcome[s] # NULL => outcome[s] = o
          /\ status' = status /\ status[s] = "outcome-pending"
          /\ SealPageObservationRecords(s, outcome'[s])
      BY <1>0, <1>5 DEF CloseReleased, TypeOK
    <2> QED
      BY <1>0, <1>3, <2>1, PageAssumption DEF OpenUndecided
  <1>6. ASSUME NEW s \in Sessions, Release(s) PROVE Goal
    BY <1>0, <1>6 DEF Release, recVars, OpenUndecided, KeptMeansPassed, TypeOK
  <1>7. CASE StopSeal
    <2>1. /\ ledger' = {r \in ledger : r[2] \notin tracked[r[1]]} /\ UNCHANGED <<status, outcome>>
      BY <1>7 DEF StopSeal, handlerVars
    <2> QED
      BY <1>0, <2>1 DEF OpenUndecided, KeptMeansPassed
  <1>8. CASE UNCHANGED vars
    BY <1>1, <1>8 DEF vars, handlerVars, recVars
  <1>9. ASSUME NEW o \in Observers,
               \/ \E s \in Sessions : RegisterPageObserver(o, s)
               \/ Attached(o) \/ AttachFailed(o) \/ PageActivity(o) \/ OnUnmatchedVisit(o)
               \/ ObserverClosed(o)
        PROVE  Goal
    BY <1>1, <1>9 DEF RegisterPageObserver, Attached, AttachFailed, PageActivity, OnUnmatchedVisit,
                      ObserverClosed, handlerVars, recVars
  <1>10. CASE \/ \E s \in Sessions : ProxyStopped(s) \/ StopObserver(s)
              \/ LedgerAttestation \/ StopWitness \/ AppendRecordIds
    BY <1>1, <1>10 DEF ProxyStopped, StopObserver, LedgerAttestation, StopWitness, AppendRecordIds,
                       handlerVars, recVars
  <1> QED
    BY <1>2, <1>4, <1>5, <1>6, <1>7, <1>8, <1>9, <1>10 DEF Next

\* The invariant holds initially.
LEMMA PageInit == Init => PageInv
  BY PageAssumption
  DEF Init, PageInv, TypeOK, Registered, OpenUndecided, KeptMeansPassed, Outcomes

\* Every step keeps the invariant.
LEMMA PageStep == PageInv /\ [Next]_vars => PageInv'
  BY TypeStep, KeptStep DEF PageInv

----------------------------------------------------------------------------
\* The maps of observers, outcomes and page records keep their types.
THEOREM PageTypeCorrect == Spec => []TypeOK
  BY PageInit, PageStep, PTL DEF Spec, PageInv

\* Whatever the order of a session's end, its observer's flush and the witness's
\* shutdown, a page record that is no longer tracked is of a session that passed.
THEOREM PageKeptMeansPassed == Spec => []KeptMeansPassed
  BY PageInit, PageStep, PTL DEF Spec, PageInv

\* A seal drops only tracked records and no later visit reuses a record's place:
\* what was decided about a record is never taken back.
THEOREM PageKeptForGood == Spec => KeptForGood
  <1> DEFINE Decided ==
        \A s \in Sessions : \A n \in 1..visits[s] :
          /\ <<s, n>> \in ledger /\ n \notin tracked[s] => <<s, n>> \in ledger'
          /\ <<s, n>> \notin ledger => <<s, n>> \notin ledger'
  <1>1. PageInv /\ [Next]_vars => [Decided]_vars
    <2> SUFFICES ASSUME PageInv, Next PROVE Decided
      OBVIOUS
    <2>0. TypeOK /\ Registered
      BY DEF PageInv
    <2>1. CASE ledger' = ledger
      BY <2>1
    <2>2. ASSUME NEW o \in Observers, OnVisit(o) PROVE Decided
      <3>1. sessionOf[o] \in Sessions
        BY <2>0, <2>2 DEF OnVisit, Registered
      <3>2. /\ visits[sessionOf[o]] \in Nat
            /\ ledger' = ledger \cup {<<sessionOf[o], visits[sessionOf[o]] + 1>>}
        BY <2>0, <2>2, <3>1 DEF OnVisit, TypeOK
      <3> QED
        BY <3>1, <3>2
    <2>3. ASSUME NEW s \in Sessions, NEW o \in Outcomes, CloseOpen(s, o) \/ CloseReleased(s, o)
          PROVE  Decided
      <3>1. PICK p \in Outcomes : SealPageObservationRecords(s, p)
        <4>1. CloseReleased(s, o) => outcome'[s] \in Outcomes
          BY <2>0 DEF CloseReleased, TypeOK
        <4> QED
          BY <2>3, <4>1 DEF CloseOpen, CloseReleased
      <3>2. /\ ledger' \subseteq ledger
            /\ \A r \in ledger : r \in ledger' \/ (r[1] = s /\ r[2] \in tracked[s])
        BY <2>0, <3>1, SealedRecords
      <3> QED
        BY <3>2
    <2>4. CASE StopSeal
      BY <2>4 DEF StopSeal
    <2> QED
      BY <2>1, <2>2, <2>3, <2>4
      DEF Next, RegisterPageObserver, Attached, AttachFailed, PageActivity, OnUnmatchedVisit,
          ObserverClosed, Release, ProxyStopped, StopObserver, LedgerAttestation, StopWitness,
          AppendRecordIds, recVars
  <1> QED
    BY <1>1, PageInit, PageStep, PTL DEF Spec, KeptForGood
=============================================================================

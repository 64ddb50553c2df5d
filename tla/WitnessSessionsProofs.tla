----------------------- MODULE WitnessSessionsProofs -----------------------
(***************************************************************************)
(* TLAPS proofs about WitnessSessions, for every set of sessions, workers  *)
(* and tests.  SessionInv is the inductive invariant; each property of the *)
(* runs is one of its conjuncts.                                           *)
(***************************************************************************)
EXTENDS WitnessSessions, SequenceTheorems, TLAPS

(* The initial witness, before any session is opened, satisfies the        *)
(* inductive invariant.                                                    *)
LEMMA InitInv == Init => SessionInv
  <1> SUFFICES ASSUME Init PROVE SessionInv
      OBVIOUS
  <1>1. TypeOK
    BY DEF Init, TypeOK
  <1>2. Lifecycle
    BY SessionsAssumption DEF Init, Lifecycle, TakesSnapshots
  <1>3. Gates
    BY DEF Init, Gates
  <1>4. SlotIsTheOpenSession /\ HandedOutOnlyWhenReady /\ EndedLeavesNothing
        /\ DeadOpenLeavesNothing /\ RecordsBindToSession
        /\ identities \subseteq handedOut
    BY DEF Init, SlotIsTheOpenSession, HandedOutOnlyWhenReady,
           EndedLeavesNothing, DeadOpenLeavesNothing, RecordsBindToSession
  <1> QED BY <1>1, <1>2, <1>3, <1>4 DEF SessionInv

(* Settling a gate moves well-formed requests of that session only.        *)
LEMMA SettleFacts ==
  ASSUME SessionInv, NEW s \in Sessions, SettleGate(s)
  PROVE  /\ microtasks' \in Seq(Request)
         /\ waiters' \in [Sessions -> Seq(Request)]
         /\ stage' = [stage EXCEPT ![s] = "done"]
         /\ Gates'
  <1>0. /\ microtasks \in Seq(Request) /\ waiters \in [Sessions -> Seq(Request)]
        /\ waiters[s] \in Seq(Request)
        /\ stage \in [Sessions -> {"idle", "proxy", "snapshot", "discard", "done"}]
    BY DEF SessionInv, TypeOK
  <1>1. microtasks' = microtasks \o waiters[s]
    BY DEF SettleGate
  <1>2. microtasks' \in Seq(Request)
    BY <1>0, <1>1, ConcatProperties
  <1>3. waiters' \in [Sessions -> Seq(Request)]
    BY <1>0 DEF SettleGate
  <1>4. stage' = [stage EXCEPT ![s] = "done"]
    BY DEF SettleGate
  <1>5. \A x \in Sessions : waiters'[x] # << >> => Pending(x)'
    BY <1>0, <1>4 DEF SessionInv, Gates, Pending, SettleGate
  <1>6. \A x \in Sessions : \A i \in 1..Len(waiters'[x]) : waiters'[x][i].s = x
    BY <1>0 DEF SessionInv, Gates, SettleGate
  <1>7. ASSUME NEW i \in 1..Len(microtasks')
        PROVE  stage'[microtasks'[i].s] = "done"
    <2>1. Len(microtasks') = Len(microtasks) + Len(waiters[s])
      BY <1>0, <1>1, ConcatProperties
    <2>2. CASE i \in 1..Len(microtasks)
      <3>1. microtasks'[i] = microtasks[i]
        BY <1>0, <1>1, <2>2, <2>1, ConcatProperties
      <3>2. stage[microtasks[i].s] = "done" /\ microtasks[i] \in Request
        BY <1>0, <2>2, ElementOfSeq DEF SessionInv, Gates
      <3> QED BY <3>1, <3>2, <1>0, <1>4 DEF Request
    <2>3. CASE i \notin 1..Len(microtasks)
      <3>1. /\ i - Len(microtasks) \in 1..Len(waiters[s])
            /\ microtasks'[i] = waiters[s][i - Len(microtasks)]
        <4>1. Len(microtasks) \in Nat /\ Len(waiters[s]) \in Nat
          BY <1>0, LenProperties
        <4>2. i > Len(microtasks)
          BY <2>3, <4>1
        <4> QED BY <1>0, <1>1, <2>1, <4>1, <4>2, ConcatProperties
      <3>2. microtasks'[i].s = s
        BY <3>1 DEF SessionInv, Gates
      <3> QED BY <3>2, <1>0, <1>4
    <2> QED BY <2>2, <2>3
  <1> QED BY <1>2, <1>3, <1>4, <1>5, <1>6, <1>7 DEF Gates


(* Every answer that touches no session keeps the invariant: refusals,     *)
(* answered re-opens, resolve.                                             *)
LEMMA ReadOnlySteps ==
  ASSUME SessionInv, NEW w \in Workers, NEW t \in Tests,
         OpenRefused(w, t) \/ OpenBusy(w, t) \/ Resolve(w, t)
  PROVE  SessionInv'
  <1>1. CASE OpenRefused(w, t) \/ OpenBusy(w, t)
    BY <1>1 DEF OpenRefused, OpenBusy, SendNoView, SessionInv, TypeOK, Lifecycle,
       Gates, SlotIsTheOpenSession, HandedOutOnlyWhenReady, EndedLeavesNothing,
       DeadOpenLeavesNothing, RecordsBindToSession, TakesSnapshots,
       ObservationOnly, Pending, sessVars, openVars, mapVars
  <1>2. CASE Resolve(w, t)
    <2>1. UNCHANGED <<sessVars, openVars, mapVars, waiters, microtasks, ledger>>
      BY <1>2 DEF Resolve
    <2>2. TypeOK'
      BY <1>2 DEF Resolve, Resolvable, SendView, SendNoView, SessionInv, TypeOK,
         sessVars, openVars, mapVars
    <2>3. HandedOutOnlyWhenReady' /\ DeadOpenLeavesNothing'
          /\ RecordsBindToSession' /\ identities' \subseteq handedOut'
      BY <1>2 DEF Resolve, Resolvable, SessionInv, TypeOK, Lifecycle,
         HandedOutOnlyWhenReady, DeadOpenLeavesNothing, RecordsBindToSession,
         TakesSnapshots, ObservationOnly, Pending, sessVars, openVars, mapVars
    <2>4. Lifecycle' /\ Gates' /\ SlotIsTheOpenSession' /\ EndedLeavesNothing'
      BY <2>1 DEF SessionInv, Lifecycle, Gates, SlotIsTheOpenSession,
         EndedLeavesNothing, TakesSnapshots, Pending, sessVars, openVars, mapVars
    <2> QED BY <2>2, <2>3, <2>4 DEF SessionInv
  <1> QED BY <1>1, <1>2

(* A request that parks on an unsettled gate changes the waiters only.     *)
LEMMA ParkStep ==
  ASSUME SessionInv, NEW op \in {"open", "close", "release"},
         NEW s \in Sessions, NEW o \in Outcomes \cup {NULL},
         Pending(s), Park(op, s, o),
         UNCHANGED <<sessVars, openVars, mapVars, microtasks, handedOut,
                     ledger, viewSent>>
  PROVE  SessionInv'
  <1> DEFINE r == [op |-> op, s |-> s, outcome |-> o]
  <1>0. /\ waiters \in [Sessions -> Seq(Request)]
        /\ waiters' = [waiters EXCEPT ![s] = Append(waiters[s], r)]
        /\ r \in Request
    BY DEF SessionInv, TypeOK, Park, Request
  <1>1. waiters' \in [Sessions -> Seq(Request)]
    BY <1>0, AppendProperties
  <1>2. TypeOK'
    BY <1>1 DEF SessionInv, TypeOK, sessVars, openVars, mapVars
  <1>3. ASSUME NEW x \in Sessions, NEW i \in 1..Len(waiters'[x])
        PROVE  waiters'[x][i].s = x
    <2>1. CASE x # s
      BY <2>1, <1>0 DEF SessionInv, Gates
    <2>2. CASE x = s
      <3>1. waiters'[s] = Append(waiters[s], r) /\ waiters[s] \in Seq(Request)
        BY <1>0
      <3>2. CASE i \in 1..Len(waiters[s])
        BY <3>1, <3>2, <2>2, AppendProperties DEF SessionInv, Gates
      <3>3. CASE i = Len(waiters[s]) + 1
        BY <3>1, <3>3, <2>2, AppendProperties
      <3> QED BY <3>1, <3>2, <3>3, <2>2, AppendProperties, LenProperties
    <2> QED BY <2>1, <2>2
  <1>4. Gates'
    BY <1>0, <1>3 DEF SessionInv, Gates, Pending, openVars
  <1>5. Lifecycle' /\ SlotIsTheOpenSession' /\ HandedOutOnlyWhenReady'
        /\ EndedLeavesNothing' /\ DeadOpenLeavesNothing'
        /\ RecordsBindToSession' /\ identities' \subseteq handedOut'
    BY DEF SessionInv, Lifecycle, SlotIsTheOpenSession, HandedOutOnlyWhenReady,
       EndedLeavesNothing, DeadOpenLeavesNothing, RecordsBindToSession,
       TakesSnapshots, ObservationOnly, sessVars, openVars, mapVars
  <1> QED BY <1>2, <1>4, <1>5 DEF SessionInv

(* A re-open of the same (worker, test) parks or is answered.              *)
LEMMA OpenAgainStep ==
  ASSUME SessionInv, NEW w \in Workers, NEW t \in Tests, OpenAgain(w, t)
  PROVE  SessionInv'
  <1> DEFINE s == workerSessions[w]
  <1>0. s \in Sessions
    BY DEF OpenAgain, SlotSame, SessionInv, TypeOK
  <1>1. CASE Pending(s)
    BY <1>0, <1>1, ParkStep DEF OpenAgain, sessVars, openVars, mapVars
  <1>2. CASE ~Pending(s)
    <2>1. viewSent' \in Sessions /\ UNCHANGED <<sessVars, openVars, mapVars,
            microtasks, handedOut, ledger, waiters>>
      BY <1>0, <1>2 DEF OpenAgain, SendView
    <2> QED
      BY <2>1 DEF SessionInv, TypeOK, Lifecycle, Gates, SlotIsTheOpenSession,
         HandedOutOnlyWhenReady, EndedLeavesNothing, DeadOpenLeavesNothing,
         RecordsBindToSession, TakesSnapshots, ObservationOnly, Pending,
         sessVars, openVars, mapVars
  <1> QED BY <1>1, <1>2

(* What an abandonment may remove: only a pending session, never one whose *)
(* credential was handed out or whose lifecycle ended.                     *)
LEMMA LeftFacts ==
  ASSUME SessionInv, NEW w \in Workers, NEW t \in Tests,
         SlotFree(w) \/ SlotAbandoned(w, t)
  PROVE  /\ Left(w, t) \subseteq Sessions
         /\ \A s \in Left(w, t) :
              /\ stage[s] \in {"proxy", "snapshot"} /\ s \notin handedOut
              /\ status[s] = "open" /\ workerSessions[w] = s
         /\ \A s \in sessions : status[s] = "open" /\ workerOf[s] = w =>
              s \in Left(w, t)
  BY SessionsAssumption
     DEF SlotFree, SlotAbandoned, Left, Pending, SessionInv, TypeOK, Lifecycle,
     SlotIsTheOpenSession, HandedOutOnlyWhenReady

(* Malformed claims: the pending session is abandoned, none is minted.     *)
LEMMA OpenBadClaimsStep ==
  ASSUME SessionInv, NEW w \in Workers, NEW t \in Tests, OpenBadClaims(w, t)
  PROVE  SessionInv'
  <1>0. /\ Left(w, t) \subseteq Sessions
        /\ \A s \in Left(w, t) :
              /\ stage[s] \in {"proxy", "snapshot"} /\ s \notin handedOut
              /\ status[s] = "open" /\ workerSessions[w] = s
        /\ \A s \in sessions : status[s] = "open" /\ workerOf[s] = w =>
              s \in Left(w, t)
    BY LeftFacts DEF OpenBadClaims
  <1>1. TypeOK'
    BY DEF OpenBadClaims, SendNoView, SessionInv, TypeOK, sessVars
  <1>2. Lifecycle'
    BY <1>0 DEF OpenBadClaims, SessionInv, TypeOK, Lifecycle, TakesSnapshots,
       sessVars
  <1>3. Gates'
    BY DEF OpenBadClaims, SessionInv, Gates, Pending
  <1>4. SlotIsTheOpenSession'
    BY <1>0 DEF OpenBadClaims, SessionInv, TypeOK, Lifecycle,
       SlotIsTheOpenSession, sessVars
  <1>5. HandedOutOnlyWhenReady' /\ EndedLeavesNothing' /\ DeadOpenLeavesNothing'
        /\ RecordsBindToSession' /\ identities' \subseteq handedOut'
    BY <1>0 DEF OpenBadClaims, SessionInv, TypeOK, Lifecycle, TakesSnapshots,
       HandedOutOnlyWhenReady, EndedLeavesNothing, DeadOpenLeavesNothing,
       RecordsBindToSession, ObservationOnly, sessVars
  <1> QED BY <1>1, <1>2, <1>3, <1>4, <1>5 DEF SessionInv

(* A new session: registered and bound before the first await.             *)
LEMMA OpenMintStep ==
  ASSUME SessionInv, NEW n \in Sessions, NEW w \in Workers, NEW t \in Tests,
         NEW c \in BOOLEAN, OpenMint(n, w, t, c)
  PROVE  SessionInv'
  <1>0. /\ Left(w, t) \subseteq Sessions
        /\ \A s \in Left(w, t) :
              /\ stage[s] \in {"proxy", "snapshot"} /\ s \notin handedOut
              /\ status[s] = "open" /\ workerSessions[w] = s
        /\ \A s \in sessions : status[s] = "open" /\ workerOf[s] = w =>
              s \in Left(w, t)
    BY LeftFacts DEF OpenMint
  <1>n. /\ status[n] = "unborn" /\ stage[n] = "idle" /\ n \notin sessions
        /\ n \notin handedOut /\ n \notin identities /\ n \notin Left(w, t)
        /\ snapshots[n] = "none" /\ ~channel[n] /\ outcome[n] = NULL
        /\ waiters[n] = << >>
    BY <1>0 DEF OpenMint, SessionInv, TypeOK, Lifecycle, HandedOutOnlyWhenReady,
       Gates, Pending
  <1>1. TypeOK'
    BY DEF OpenMint, SessionInv, TypeOK
  <1>2. Lifecycle'
    BY <1>0, <1>n DEF OpenMint, SessionInv, TypeOK, Lifecycle, TakesSnapshots
  <1>3. Gates'
    <2>1. \A x \in Sessions : waiters'[x] # << >> => Pending(x)'
      BY <1>n DEF OpenMint, SessionInv, TypeOK, Gates, Pending
    <2>2. \A x \in Sessions : \A i \in 1..Len(waiters'[x]) : waiters'[x][i].s = x
      BY DEF OpenMint, SessionInv, Gates
    <2>3. ASSUME NEW i \in 1..Len(microtasks')
          PROVE  stage'[microtasks'[i].s] = "done"
      <3>1. microtasks' = microtasks /\ microtasks[i] \in Request
        BY ElementOfSeq DEF OpenMint, SessionInv, TypeOK
      <3> QED BY <3>1, <1>n DEF OpenMint, SessionInv, TypeOK, Gates, Request
    <2> QED BY <2>1, <2>2, <2>3 DEF Gates
  <1>4. SlotIsTheOpenSession'
    BY <1>0, <1>n DEF OpenMint, SessionInv, TypeOK, Lifecycle,
       SlotIsTheOpenSession
  <1>5. HandedOutOnlyWhenReady' /\ EndedLeavesNothing' /\ DeadOpenLeavesNothing'
    BY <1>0, <1>n DEF OpenMint, SessionInv, TypeOK, Lifecycle, TakesSnapshots,
       HandedOutOnlyWhenReady, EndedLeavesNothing, DeadOpenLeavesNothing
  <1>6. RecordsBindToSession' /\ identities' \subseteq handedOut'
    BY <1>0, <1>n DEF OpenMint, SessionInv, TypeOK, RecordsBindToSession,
       ObservationOnly
  <1> QED BY <1>1, <1>2, <1>3, <1>4, <1>5, <1>6 DEF SessionInv

(* The open handler's awaits that leave the gate unsettled.                *)
LEMMA OpenAwaitSteps ==
  ASSUME SessionInv, NEW n \in Sessions, ProxyReady(n) \/ OpenDiscard(n)
  PROVE  SessionInv'
  <1>0. /\ stage[n] \in {"proxy", "snapshot"} /\ n \notin handedOut
        /\ stage'[n] \in {"snapshot", "discard"} /\ status[n] = "open"
        /\ \A x \in Sessions \ {n} : stage'[x] = stage[x]
        /\ UNCHANGED <<sessVars, mapVars, waiters, microtasks, handedOut,
                       ledger, viewSent>>
    BY DEF ProxyReady, OpenDiscard, SessionInv, TypeOK, Lifecycle,
       HandedOutOnlyWhenReady
  <1>1. TypeOK'
    <2>1. channel' \in [Sessions -> BOOLEAN]
      BY SessionsAssumption DEF ProxyReady, OpenDiscard, SessionInv, TypeOK
    <2>2. snapshots' \in [Sessions -> {"none", "taking", "stored"}]
      BY DEF ProxyReady, OpenDiscard, SessionInv, TypeOK
    <2>3. stage' \in [Sessions -> {"idle", "proxy", "snapshot", "discard", "done"}]
      <3>1. \/ stage' = [stage EXCEPT ![n] = "snapshot"]
            \/ stage' = [stage EXCEPT ![n] = "discard"]
        BY DEF ProxyReady, OpenDiscard
      <3> QED BY <3>1 DEF SessionInv, TypeOK
    <2> QED BY <1>0, <2>1, <2>2, <2>3 DEF SessionInv, TypeOK, sessVars, mapVars
  <1>2. Lifecycle'
    <2>1. CASE ProxyReady(n)
      BY <2>1, <1>0 DEF ProxyReady, SessionInv, TypeOK, Lifecycle,
         TakesSnapshots, sessVars, mapVars
    <2>2. CASE OpenDiscard(n)
      BY <2>2, <1>0 DEF OpenDiscard, SessionInv, TypeOK, Lifecycle,
         TakesSnapshots, sessVars, mapVars
    <2> QED BY <2>1, <2>2
  <1>3. Gates'
    <2>1. \A x \in Sessions : waiters'[x] # << >> => Pending(x)'
      BY <1>0 DEF SessionInv, Gates, Pending
    <2>2. \A x \in Sessions : \A i \in 1..Len(waiters'[x]) : waiters'[x][i].s = x
      BY <1>0 DEF SessionInv, Gates
    <2>3. ASSUME NEW i \in 1..Len(microtasks')
          PROVE  stage'[microtasks'[i].s] = "done"
      <3>1. microtasks' = microtasks /\ microtasks[i] \in Request
        BY <1>0, ElementOfSeq DEF SessionInv, TypeOK
      <3> QED BY <3>1, <1>0 DEF SessionInv, Gates, Request
    <2> QED BY <2>1, <2>2, <2>3 DEF Gates
  <1>4. SlotIsTheOpenSession' /\ RecordsBindToSession'
        /\ identities' \subseteq handedOut'
    BY <1>0 DEF SessionInv, SlotIsTheOpenSession, RecordsBindToSession,
       ObservationOnly, sessVars, mapVars
  <1>5. HandedOutOnlyWhenReady' /\ EndedLeavesNothing' /\ DeadOpenLeavesNothing'
    <2>1. \A x \in Sessions \ {n} : snapshots'[x] = snapshots[x]
                                    /\ channel'[x] = channel[x]
      BY DEF ProxyReady, OpenDiscard, SessionInv, TypeOK
    <2>2. outcome[n] = NULL
      BY <1>0 DEF SessionInv, Lifecycle, TypeOK
    <2>3. HandedOutOnlyWhenReady'
      BY <1>0, <2>1 DEF SessionInv, TypeOK, HandedOutOnlyWhenReady,
         TakesSnapshots, sessVars, mapVars
    <2>4. EndedLeavesNothing'
      BY <1>0, <2>1, <2>2 DEF SessionInv, EndedLeavesNothing, sessVars, mapVars
    <2>5. DeadOpenLeavesNothing'
      BY <1>0, <2>1 DEF SessionInv, DeadOpenLeavesNothing, mapVars
    <2> QED BY <2>3, <2>4, <2>5
  <1> QED BY <1>1, <1>2, <1>3, <1>4, <1>5 DEF SessionInv

(* The open handler's endings: ready, discarded, ports could not be bound. *)
LEMMA OpenEndSteps ==
  ASSUME SessionInv, NEW n \in Sessions,
         OpenReady(n) \/ OpenDiscarded(n) \/ ProxyFailed(n)
  PROVE  SessionInv'
  <1>0. /\ SettleGate(n) /\ Pending(n) /\ n \notin handedOut
        /\ status[n] = "open" /\ n \notin identities
        /\ viewSent' \in {n, NULL}
        /\ UNCHANGED <<sessVars, channel, identities, handedOut, ledger>>
    BY DEF OpenReady, OpenDiscarded, ProxyFailed, SessionInv, Lifecycle, TypeOK,
       Pending, HandedOutOnlyWhenReady, SendView, SendNoView, mapVars
  <1>1. /\ microtasks' \in Seq(Request) /\ waiters' \in [Sessions -> Seq(Request)]
        /\ stage' = [stage EXCEPT ![n] = "done"] /\ Gates'
    BY <1>0, SettleFacts
  <1>2. TypeOK'
    <2>1. stage' \in [Sessions -> {"idle", "proxy", "snapshot", "discard", "done"}]
      BY <1>1 DEF SessionInv, TypeOK
    <2>2. snapshots' \in [Sessions -> {"none", "taking", "stored"}]
      BY DEF OpenReady, OpenDiscarded, ProxyFailed, SessionInv, TypeOK
    <2>3. sessions' \subseteq Sessions
      BY DEF OpenReady, OpenDiscarded, ProxyFailed, SessionInv, TypeOK, mapVars
    <2>4. workerSessions' \in [Workers -> Sessions \cup {NULL}]
      BY DEF OpenReady, OpenDiscarded, ProxyFailed, Unbind, SessionInv, TypeOK,
         mapVars
    <2> QED BY <1>0, <1>1, <2>1, <2>2, <2>3, <2>4 DEF SessionInv, TypeOK, sessVars
  <1>3. CASE OpenReady(n) \/ OpenDiscarded(n)
    <2>1. Lifecycle'
      BY <1>0, <1>1, <1>3 DEF OpenReady, OpenDiscarded, SessionInv, TypeOK,
         Lifecycle, TakesSnapshots, sessVars, mapVars
    <2>2. SlotIsTheOpenSession' /\ RecordsBindToSession'
          /\ identities' \subseteq handedOut'
      BY <1>0, <1>3 DEF OpenReady, OpenDiscarded, SessionInv,
         SlotIsTheOpenSession, RecordsBindToSession, ObservationOnly,
         sessVars, mapVars
    <2>3. HandedOutOnlyWhenReady' /\ EndedLeavesNothing' /\ DeadOpenLeavesNothing'
      BY <1>0, <1>1, <1>3 DEF OpenReady, OpenDiscarded, SessionInv, TypeOK,
         Lifecycle, HandedOutOnlyWhenReady, EndedLeavesNothing,
         DeadOpenLeavesNothing, TakesSnapshots, sessVars, mapVars
    <2> QED BY <1>1, <1>2, <2>1, <2>2, <2>3 DEF SessionInv
  <1>4. CASE ProxyFailed(n)
    <2>1. Lifecycle'
      BY <1>0, <1>1, <1>4 DEF ProxyFailed, SessionInv, TypeOK, Lifecycle,
         TakesSnapshots, sessVars
    <2>2. SlotIsTheOpenSession'
      BY <1>0, <1>4 DEF ProxyFailed, Unbind, SessionInv, TypeOK, Lifecycle,
         SlotIsTheOpenSession, sessVars
    <2>3. RecordsBindToSession' /\ identities' \subseteq handedOut'
      BY <1>0 DEF SessionInv, RecordsBindToSession, ObservationOnly, sessVars
    <2>4. HandedOutOnlyWhenReady' /\ EndedLeavesNothing' /\ DeadOpenLeavesNothing'
      BY <1>0, <1>1, <1>4 DEF ProxyFailed, SessionInv, TypeOK, Lifecycle,
         HandedOutOnlyWhenReady, EndedLeavesNothing, DeadOpenLeavesNothing,
         TakesSnapshots, sessVars
    <2> QED BY <1>1, <1>2, <2>1, <2>2, <2>3, <2>4 DEF SessionInv
  <1> QED BY <1>3, <1>4

(* The invariant apart from the two queues, which the callers of the       *)
(* bodies below treat differently.                                         *)
BodyInv ==
    /\ status \in [Sessions -> {"unborn", "open", "outcome-pending", "sealed"}]
    /\ testOf \in [Sessions -> Tests \cup {NULL}]
    /\ workerOf \in [Sessions -> Workers \cup {NULL}]
    /\ claimed \in [Sessions -> BOOLEAN]
    /\ outcome \in [Sessions -> Outcomes \cup {NULL}]
    /\ stage \in [Sessions -> {"idle", "proxy", "snapshot", "discard", "done"}]
    /\ channel \in [Sessions -> BOOLEAN]
    /\ sessions \subseteq Sessions
    /\ workerSessions \in [Workers -> Sessions \cup {NULL}]
    /\ snapshots \in [Sessions -> {"none", "taking", "stored"}]
    /\ identities \subseteq Sessions /\ handedOut \subseteq Sessions
    /\ ledger \subseteq Sessions \X Tests
    /\ viewSent \in Sessions \cup {NULL}
    /\ Lifecycle /\ SlotIsTheOpenSession
    /\ HandedOutOnlyWhenReady /\ EndedLeavesNothing /\ DeadOpenLeavesNothing
    /\ RecordsBindToSession /\ identities \subseteq handedOut

(* The session invariant is its two halves.                                *)
LEMMA BodyInvSplit ==
  SessionInv => /\ BodyInv /\ Gates
                /\ waiters \in [Sessions -> Seq(Request)]
                /\ microtasks \in Seq(Request)
  BY DEF SessionInv, BodyInv, TypeOK

(* ... and they are put together again after a step.                       *)
LEMMA BodyInvJoin ==
  ASSUME BodyInv', Gates', waiters' \in [Sessions -> Seq(Request)],
         microtasks' \in Seq(Request)
  PROVE  SessionInv'
  BY DEF SessionInv, BodyInv, TypeOK

(* Sealing an open session, or recording a released session's outcome.     *)
LEMMA CloseBodyStep ==
  ASSUME BodyInv, NEW n \in Sessions, NEW o \in Outcomes \cup {NULL},
         n \in sessions, stage[n] = "done", CloseBody(n, o)
  PROVE  BodyInv'
  <1>u. UNCHANGED <<testOf, workerOf, claimed, stage, sessions, handedOut, ledger>>
    BY DEF CloseBody
  <1>w. workerOf[n] \in Workers
    BY DEF BodyInv, Lifecycle
  <1>1. CASE CloseReleased(n, o)
    <2>1. /\ outcome' \in [Sessions -> Outcomes \cup {NULL}]
          /\ \A x \in Sessions \ {n} : outcome'[x] = outcome[x]
          /\ \A x \in Sessions \ {n} : snapshots'[x] = snapshots[x]
          /\ snapshots' \in [Sessions -> {"none", "taking", "stored"}]
          /\ identities' \in {identities, identities \ {n}}
          /\ viewSent' = NULL /\ status[n] = "outcome-pending"
          /\ UNCHANGED <<status, channel, workerSessions>>
      BY <1>1 DEF CloseReleased, SendNoView, BodyInv
    <2>2. outcome'[n] # NULL => snapshots'[n] = "none" /\ n \notin identities'
      BY <1>1 DEF CloseReleased, BodyInv, EndedLeavesNothing
    <2>3. Lifecycle' /\ SlotIsTheOpenSession' /\ HandedOutOnlyWhenReady'
          /\ RecordsBindToSession'
      BY <1>u, <2>1, <2>2 DEF BodyInv, Lifecycle, TakesSnapshots,
         SlotIsTheOpenSession, HandedOutOnlyWhenReady, RecordsBindToSession,
         ObservationOnly
    <2>4. EndedLeavesNothing' /\ DeadOpenLeavesNothing'
      BY <1>u, <2>1, <2>2 DEF BodyInv, EndedLeavesNothing, DeadOpenLeavesNothing
    <2> QED BY <1>u, <2>1, <2>3, <2>4 DEF BodyInv
  <1>2. CASE CloseOpen(n, o)
    <2>1. /\ status' = [status EXCEPT ![n] = "sealed"]
          /\ outcome' = [outcome EXCEPT ![n] = o]
          /\ workerSessions' = [workerSessions EXCEPT ![workerOf[n]] = NULL]
          /\ snapshots' = [snapshots EXCEPT ![n] = "none"]
          /\ identities' = identities \ {n}
          /\ channel' = [channel EXCEPT ![n] = FALSE]
          /\ viewSent' = NULL /\ status[n] = "open"
          /\ workerSessions[workerOf[n]] = n
      BY <1>2 DEF CloseOpen, SendNoView, BodyInv, SlotIsTheOpenSession
    <2>2. SlotIsTheOpenSession'
      BY <1>u, <1>w, <2>1, SessionsAssumption
      DEF BodyInv, SlotIsTheOpenSession, Lifecycle
    <2>3. Lifecycle'
      BY <1>u, <2>1 DEF BodyInv, Lifecycle, TakesSnapshots
    <2>4. HandedOutOnlyWhenReady' /\ RecordsBindToSession'
      BY <1>u, <2>1 DEF BodyInv, HandedOutOnlyWhenReady, TakesSnapshots,
         RecordsBindToSession, ObservationOnly
    <2>5. EndedLeavesNothing' /\ DeadOpenLeavesNothing'
      BY <1>u, <2>1 DEF BodyInv, EndedLeavesNothing, DeadOpenLeavesNothing
    <2>6. /\ status' \in [Sessions -> {"unborn", "open", "outcome-pending", "sealed"}]
          /\ outcome' \in [Sessions -> Outcomes \cup {NULL}]
          /\ workerSessions' \in [Workers -> Sessions \cup {NULL}]
          /\ snapshots' \in [Sessions -> {"none", "taking", "stored"}]
          /\ channel' \in [Sessions -> BOOLEAN]
      BY <2>1 DEF BodyInv
    <2> QED BY <1>u, <2>1, <2>2, <2>3, <2>4, <2>5, <2>6 DEF BodyInv
  <1>3. CASE CloseSealed(n)
    BY <1>u, <1>3 DEF CloseSealed, SendNoView, BodyInv, Lifecycle,
       SlotIsTheOpenSession, HandedOutOnlyWhenReady, EndedLeavesNothing,
       DeadOpenLeavesNothing, RecordsBindToSession, TakesSnapshots,
       ObservationOnly
  <1> QED BY <1>1, <1>2, <1>3 DEF CloseBody

(* Releasing an open session frees its worker and kills its channel.       *)
LEMMA ReleaseBodyStep ==
  ASSUME BodyInv, NEW n \in Sessions, n \in sessions, stage[n] = "done",
         ReleaseBody(n)
  PROVE  BodyInv'
  <1>u. /\ UNCHANGED <<testOf, workerOf, claimed, outcome, stage, snapshots,
                       sessions, identities, handedOut, ledger>>
        /\ viewSent' = NULL
    BY DEF ReleaseBody, SendNoView
  <1>1. CASE status[n] = "open"
    <2>1. /\ status' = [status EXCEPT ![n] = "outcome-pending"]
          /\ workerSessions[workerOf[n]] = n /\ workerOf[n] \in Workers
          /\ workerSessions' = [workerSessions EXCEPT ![workerOf[n]] = NULL]
          /\ channel' = [channel EXCEPT ![n] = FALSE]
      BY <1>1 DEF ReleaseBody, Unbind, BodyInv, SlotIsTheOpenSession
    <2>2. SlotIsTheOpenSession'
      BY <1>u, <2>1, SessionsAssumption
      DEF BodyInv, SlotIsTheOpenSession, Lifecycle
    <2>3. Lifecycle'
      BY <1>u, <2>1 DEF BodyInv, Lifecycle, TakesSnapshots
    <2>4. HandedOutOnlyWhenReady' /\ RecordsBindToSession'
      BY <1>u, <2>1 DEF BodyInv, HandedOutOnlyWhenReady, TakesSnapshots,
         RecordsBindToSession, ObservationOnly
    <2>5. EndedLeavesNothing' /\ DeadOpenLeavesNothing'
      BY <1>u, <2>1 DEF BodyInv, EndedLeavesNothing, DeadOpenLeavesNothing
    <2>6. /\ status' \in [Sessions -> {"unborn", "open", "outcome-pending", "sealed"}]
          /\ workerSessions' \in [Workers -> Sessions \cup {NULL}]
          /\ channel' \in [Sessions -> BOOLEAN]
      BY <2>1 DEF BodyInv
    <2> QED BY <1>u, <2>1, <2>2, <2>3, <2>4, <2>5, <2>6 DEF BodyInv
  <1>2. CASE status[n] # "open"
    BY <1>u, <1>2 DEF ReleaseBody, BodyInv, Lifecycle,
       SlotIsTheOpenSession, HandedOutOnlyWhenReady, EndedLeavesNothing,
       DeadOpenLeavesNothing, RecordsBindToSession, TakesSnapshots,
       ObservationOnly
  <1> QED BY <1>1, <1>2

(* An answer that leaves every session alone.                              *)
LEMMA AnswerStep ==
  ASSUME BodyInv, viewSent' \in Sessions \cup {NULL},
         UNCHANGED <<sessVars, openVars, mapVars, handedOut, ledger>>
  PROVE  BodyInv'
  BY DEF BodyInv, Lifecycle, SlotIsTheOpenSession, HandedOutOnlyWhenReady,
     EndedLeavesNothing, DeadOpenLeavesNothing, RecordsBindToSession,
     TakesSnapshots, ObservationOnly, sessVars, openVars, mapVars

(* POST /sessions/close and /sessions/release as they arrive.              *)
LEMMA CloseReleaseSteps ==
  ASSUME SessionInv, NEW n \in Sessions, NEW o \in Outcomes \cup {NULL},
         Close(n, o) \/ Release(n)
  PROVE  SessionInv'
  <1>0. BodyInv /\ Gates /\ waiters \in [Sessions -> Seq(Request)]
        /\ microtasks \in Seq(Request)
    BY BodyInvSplit
  <1>1. CASE n \notin sessions
    <2>1. BodyInv' /\ UNCHANGED <<waiters, microtasks, stage>>
      BY <1>0, <1>1, AnswerStep DEF Close, Release, Refuse, SendNoView, openVars
    <2>2. Gates'
      BY <1>0, <2>1 DEF Gates, Pending
    <2> QED BY <1>0, <2>1, <2>2, BodyInvJoin
  <1>2. CASE n \in sessions /\ Pending(n)
    <2>1. \/ Park("close", n, o) \/ Park("release", n, NULL)
      BY <1>2 DEF Close, Release
    <2>2. UNCHANGED <<sessVars, openVars, mapVars, microtasks, handedOut,
                      ledger, viewSent>>
      BY <1>2 DEF Close, Release
    <2> QED BY <1>2, <2>1, <2>2, ParkStep
  <1>3. CASE n \in sessions /\ ~Pending(n)
    <2>1. stage[n] = "done"
      BY <1>0, <1>3 DEF BodyInv, Lifecycle, Pending
    <2>2. /\ CloseBody(n, o) \/ ReleaseBody(n)
          /\ UNCHANGED <<waiters, microtasks>>
      BY <1>3 DEF Close, Release
    <2>3. BodyInv' /\ stage' = stage
      BY <1>0, <1>3, <2>1, <2>2, CloseBodyStep, ReleaseBodyStep
      DEF CloseBody, ReleaseBody
    <2>4. Gates'
      BY <1>0, <2>2, <2>3 DEF Gates, Pending
    <2> QED BY <1>0, <2>2, <2>3, <2>4, BodyInvJoin
  <1> QED BY <1>1, <1>2, <1>3

(* A woken continuation finds its gate settled.                            *)
LEMMA WakeStep ==
  ASSUME SessionInv, Wake
  PROVE  SessionInv'
  <1> DEFINE m == Head(microtasks)
  <1>0. BodyInv /\ Gates /\ waiters \in [Sessions -> Seq(Request)]
        /\ microtasks \in Seq(Request) /\ microtasks # << >>
    BY BodyInvSplit DEF Wake
  <1>1. /\ Len(microtasks) \in Nat /\ Len(microtasks) >= 1
        /\ m = microtasks[1] /\ m \in Request
    BY <1>0, EmptySeq, HeadTailProperties, LenProperties
  <1>2. m.s \in Sessions /\ m.outcome \in Outcomes \cup {NULL}
        /\ stage[m.s] = "done"
    BY <1>0, <1>1 DEF Request, Gates
  <1>3. BodyInv' /\ stage' = stage
    <2>1. CASE m.op = "open" /\ WakeOpen(m.s)
      BY <1>0, <1>2, <2>1, AnswerStep DEF WakeOpen, SendView, SendNoView, openVars
    <2>2. CASE m.op # "open" /\ m.s \notin sessions /\ Refuse
      BY <1>0, <2>2, AnswerStep DEF Refuse, SendNoView, openVars
    <2>3. CASE m.op = "close" /\ m.s \in sessions /\ CloseBody(m.s, m.outcome)
      BY <1>0, <1>2, <2>3, CloseBodyStep DEF CloseBody
    <2>4. CASE m.op = "release" /\ m.s \in sessions /\ ReleaseBody(m.s)
      BY <1>0, <1>2, <2>4, ReleaseBodyStep DEF ReleaseBody
    <2> QED BY <2>1, <2>2, <2>3, <2>4 DEF Wake
  <1>4. microtasks' = Tail(microtasks) /\ waiters' = waiters
    BY DEF Wake
  <1>5. /\ microtasks' \in Seq(Request)
        /\ Len(microtasks') = Len(microtasks) - 1
        /\ \A i \in 1..Len(microtasks') : microtasks'[i] = microtasks[i + 1]
    BY <1>0, <1>4, HeadTailProperties
  <1>6. Gates'
    <2>1. ASSUME NEW i \in 1..Len(microtasks')
          PROVE  stage'[microtasks'[i].s] = "done"
      <3>1. i + 1 \in 1..Len(microtasks)
        BY <1>1, <1>5
      <3> QED BY <1>0, <1>3, <1>5, <3>1 DEF Gates
    <2> QED BY <1>0, <1>3, <1>4, <2>1 DEF Gates, Pending
  <1> QED BY <1>0, <1>3, <1>4, <1>5, <1>6, BodyInvJoin

(* Submissions and identities under a handed-out credential.               *)
LEMMA SubmissionSteps ==
  ASSUME SessionInv, NEW n \in Sessions, NEW t \in Tests,
         Records(n, t) \/ SessionIdentity(n)
  PROVE  SessionInv'
  <1>0. /\ n \in handedOut
        /\ UNCHANGED <<sessVars, openVars, sessions, workerSessions, waiters,
                       microtasks, handedOut>>
        /\ viewSent' = NULL
    BY DEF Records, SessionIdentity, SendNoView, mapVars
  <1>1. /\ identities' \subseteq handedOut'
        /\ \A x \in identities' : x \in identities \/ AcceptsSubmission(x)
        /\ identities' \subseteq Sessions
    BY <1>0 DEF Records, SessionIdentity, SessionInv, TypeOK, mapVars
  <1>2. /\ ledger' \subseteq Sessions \X Tests /\ RecordsBindToSession'
    <2>1. ledger' = ledger \/ (AcceptsSubmission(n)
                               /\ ledger' = ledger \cup {<<n, testOf[n]>>})
      BY DEF Records, SessionIdentity
    <2>2. AcceptsSubmission(n) => testOf[n] \in Tests /\ ~ObservationOnly(n)
      BY DEF AcceptsSubmission, SessionInv, Lifecycle, TypeOK
    <2> QED BY <1>0, <2>1, <2>2 DEF SessionInv, TypeOK, RecordsBindToSession,
       ObservationOnly, sessVars
  <1>3. TypeOK'
    BY <1>0, <1>1, <1>2 DEF SessionInv, TypeOK, sessVars, openVars
  <1>4. Lifecycle' /\ Gates' /\ SlotIsTheOpenSession' /\ HandedOutOnlyWhenReady'
    BY <1>0 DEF SessionInv, Lifecycle, Gates, SlotIsTheOpenSession,
       HandedOutOnlyWhenReady, TakesSnapshots, Pending, sessVars, openVars
  <1>5. EndedLeavesNothing' /\ DeadOpenLeavesNothing'
    BY <1>0, <1>1 DEF SessionInv, EndedLeavesNothing, DeadOpenLeavesNothing,
       Lifecycle, AcceptsSubmission, TypeOK, sessVars, openVars
  <1> QED BY <1>1, <1>2, <1>3, <1>4, <1>5 DEF SessionInv

(* Every step of the witness preserves the inductive invariant.            *)
LEMMA StepInv == SessionInv /\ [Next]_vars => SessionInv'
  <1> SUFFICES ASSUME SessionInv, [Next]_vars PROVE SessionInv'
      OBVIOUS
  <1>1. CASE Wake
    BY <1>1, WakeStep
  <1>2. CASE Requests
    <2>1. ASSUME NEW w \in Workers, NEW t \in Tests,
                 \/ OpenRefused(w, t) \/ OpenAgain(w, t) \/ OpenBusy(w, t)
                 \/ OpenBadClaims(w, t) \/ Resolve(w, t)
                 \/ \E s \in Sessions, c \in BOOLEAN : OpenMint(s, w, t, c)
          PROVE  SessionInv'
      BY <2>1, ReadOnlySteps, OpenAgainStep, OpenBadClaimsStep, OpenMintStep
    <2>2. ASSUME NEW s \in Sessions,
                 \/ \E o \in Outcomes \cup {NULL} : Close(s, o)
                 \/ Release(s)
          PROVE  SessionInv'
      BY <2>2, CloseReleaseSteps
    <2>3. ASSUME NEW s \in Sessions,
                 (\E t \in Tests : Records(s, t)) \/ SessionIdentity(s)
          PROVE  SessionInv'
      <3>1. CASE \E t \in Tests : Records(s, t)
        BY <3>1, SubmissionSteps
      <3>2. CASE SessionIdentity(s)
        <4>1. testOf[s] \in Tests
          BY <3>2 DEF SessionIdentity, SessionInv, Lifecycle,
             HandedOutOnlyWhenReady, TypeOK
        <4> QED BY <3>2, <4>1, SubmissionSteps
      <3> QED BY <2>3, <3>1, <3>2
    <2> QED BY <1>2, <2>1, <2>2, <2>3 DEF Requests
  <1>3. CASE \E s \in Sessions : OpenStep(s)
    BY <1>3, OpenAwaitSteps, OpenEndSteps DEF OpenStep
  <1>4. CASE UNCHANGED vars
    BY <1>4 DEF vars, sessVars, openVars, mapVars, SessionInv, TypeOK, Lifecycle,
       Gates, SlotIsTheOpenSession, HandedOutOnlyWhenReady, EndedLeavesNothing,
       DeadOpenLeavesNothing, RecordsBindToSession, TakesSnapshots,
       ObservationOnly, Pending
  <1> QED BY <1>1, <1>2, <1>3, <1>4 DEF Next

(* The inductive invariant holds in every reachable state.                 *)
THEOREM SessionsInductive == Spec => []SessionInv
  <1> QED BY InitInv, StepInv, PTL DEF Spec

(* Every variable of the witness's session state keeps its type.           *)
THEOREM SessionsTypeCorrect == Spec => []TypeOK
  <1>1. SessionInv => TypeOK
    BY DEF SessionInv
  <1> QED BY <1>1, SessionsInductive, PTL

(* A worker's slot always names the one registered open session of that    *)
(* worker, so handleSessionClose's unconditional workerSessions.delete     *)
(* never frees another test's slot.                                        *)
THEOREM OneOpenSessionPerWorker == Spec => []SlotIsTheOpenSession
  <1>1. SessionInv => SlotIsTheOpenSession
    BY DEF SessionInv
  <1> QED BY <1>1, SessionsInductive, PTL

(* /sessions/resolve never hands out a half-open session.                  *)
THEOREM NoHalfOpenCredential == Spec => []HandedOutOnlyWhenReady
  <1>1. SessionInv => HandedOutOnlyWhenReady
    BY DEF SessionInv
  <1> QED BY <1>1, SessionsInductive, PTL

(* A sealed session keeps no before-state, identity or channel.            *)
THEOREM SealLeavesNothing == Spec => []EndedLeavesNothing
  <1>1. SessionInv => EndedLeavesNothing
    BY DEF SessionInv
  <1> QED BY <1>1, SessionsInductive, PTL

(* A session that died unregistered leaks neither snapshots nor ports.     *)
THEOREM DeadOpenLeaksNothing == Spec => []DeadOpenLeavesNothing
  <1>1. SessionInv => DeadOpenLeavesNothing
    BY DEF SessionInv
  <1> QED BY <1>1, SessionsInductive, PTL

(* Records carry their session's registered test and no raw twin's.        *)
THEOREM RecordsAreBound == Spec => []RecordsBindToSession
  <1>1. SessionInv => RecordsBindToSession
    BY DEF SessionInv
  <1> QED BY <1>1, SessionsInductive, PTL

(* One step never un-seals, overwrites an outcome or re-registers.         *)
LEMMA StepIrrevocable == SessionInv /\ [Next]_vars => Irrevocable
  <1> SUFFICES ASSUME SessionInv, [Next]_vars, NEW x \in Sessions
               PROVE  /\ status[x] = "sealed" =>
                           status'[x] = "sealed" /\ outcome'[x] = outcome[x]
                      /\ status[x] = "outcome-pending" =>
                           status'[x] = "outcome-pending"
                      /\ outcome[x] # NULL => outcome'[x] = outcome[x]
                      /\ x \notin sessions /\ status[x] # "unborn" =>
                           x \notin sessions'
    BY DEF Irrevocable
  <1> USE DEF SessionInv, TypeOK
  <1>1. ASSUME NEW n \in Sessions, NEW o \in Outcomes \cup {NULL}, CloseBody(n, o)
        PROVE  /\ status[x] = "sealed" =>
                    status'[x] = "sealed" /\ outcome'[x] = outcome[x]
               /\ status[x] = "outcome-pending" => status'[x] = "outcome-pending"
               /\ outcome[x] # NULL => outcome'[x] = outcome[x]
               /\ sessions' = sessions
    BY <1>1 DEF CloseBody, CloseReleased, CloseOpen, CloseSealed, Lifecycle
  <1>2. ASSUME NEW n \in Sessions, ReleaseBody(n)
        PROVE  /\ status[x] = "sealed" => status'[x] = "sealed"
               /\ status[x] = "outcome-pending" => status'[x] = "outcome-pending"
               /\ outcome' = outcome /\ sessions' = sessions
    BY <1>2 DEF ReleaseBody
  <1>3. CASE Wake
    <2>0. Head(microtasks) \in Request
      BY <1>3, HeadTailProperties, EmptySeq, ElementOfSeq DEF Wake
    <2>1. CASE UNCHANGED <<status, outcome, sessions>>
      BY <2>1
    <2>2. CASE CloseBody(Head(microtasks).s, Head(microtasks).outcome)
      BY <2>0, <2>2, <1>1 DEF Request
    <2>3. CASE ReleaseBody(Head(microtasks).s)
      BY <2>0, <2>3, <1>2 DEF Request
    <2> QED BY <1>3, <2>1, <2>2, <2>3
            DEF Wake, WakeOpen, Refuse, sessVars, mapVars
  <1>4. CASE Requests
    <2> DEFINE Kept == /\ status[x] = "sealed" =>
                            status'[x] = "sealed" /\ outcome'[x] = outcome[x]
                       /\ status[x] = "outcome-pending" =>
                            status'[x] = "outcome-pending"
                       /\ outcome[x] # NULL => outcome'[x] = outcome[x]
                       /\ x \notin sessions /\ status[x] # "unborn" =>
                            x \notin sessions'
    <2>1. ASSUME NEW n \in Sessions, NEW o \in Outcomes \cup {NULL}, Close(n, o)
          PROVE  Kept
      <3>1. CloseBody(n, o) \/ UNCHANGED <<status, outcome, sessions>>
        BY <2>1 DEF Close, Refuse, sessVars, mapVars
      <3> QED BY <3>1, <1>1
    <2>2. ASSUME NEW n \in Sessions, Release(n)
          PROVE  Kept
      <3>1. ReleaseBody(n) \/ UNCHANGED <<status, outcome, sessions>>
        BY <2>2 DEF Release, Refuse, sessVars, mapVars
      <3> QED BY <3>1, <1>2
    <2>3. ASSUME NEW w \in Workers, NEW t \in Tests,
                 \/ OpenRefused(w, t) \/ OpenAgain(w, t) \/ OpenBusy(w, t)
                 \/ Resolve(w, t)
          PROVE  Kept
      BY <2>3 DEF OpenRefused, OpenAgain, OpenBusy, Resolve, sessVars, mapVars
    <2>4. ASSUME NEW w \in Workers, NEW t \in Tests, OpenBadClaims(w, t)
          PROVE  Kept
      BY <2>4 DEF OpenBadClaims, sessVars
    <2>5. ASSUME NEW w \in Workers, NEW t \in Tests, NEW n \in Sessions,
                 NEW c \in BOOLEAN, OpenMint(n, w, t, c)
          PROVE  Kept
      BY <2>5 DEF OpenMint
    <2>6. ASSUME NEW n \in Sessions,
                 SessionIdentity(n) \/ \E t \in Tests : Records(n, t)
          PROVE  Kept
      BY <2>6 DEF SessionIdentity, Records, sessVars, mapVars
    <2> HIDE DEF Kept
    <2>7. Kept
      BY <1>4, <2>1, <2>2, <2>3, <2>4, <2>5, <2>6 DEF Requests
    <2> QED BY <2>7 DEF Kept
  <1>5. CASE \E n \in Sessions : OpenStep(n)
    BY <1>5 DEF OpenStep, ProxyReady, ProxyFailed, OpenReady, OpenDiscard,
       OpenDiscarded, sessVars, mapVars
  <1>6. CASE UNCHANGED vars
    BY <1>6 DEF vars, sessVars, mapVars
  <1> QED BY <1>3, <1>4, <1>5, <1>6 DEF Next

(* Sealing is final, a recorded outcome is never overwritten, and a dead   *)
(* session id is never registered again.                                   *)
THEOREM SealingIsFinal == Spec => IrrevocableProp
  <1>1. SessionInv /\ [Next]_vars => [Irrevocable]_vars
    BY StepIrrevocable
  <1> QED BY <1>1, SessionsInductive, PTL DEF Spec, IrrevocableProp

(* One step answers with the view of a registered, ready session only.     *)
LEMMA StepReadyView == SessionInv /\ [Next]_vars => ReadyView
  <1> SUFFICES ASSUME SessionInv, [Next]_vars PROVE ReadyView
    OBVIOUS
  <1> DEFINE Mute == viewSent' = viewSent \/ viewSent' = NULL
  <1>0. TypeOK /\ Lifecycle /\ Gates
    BY DEF SessionInv
  <1>m. ASSUME Mute PROVE ReadyView
    BY <1>m DEF ReadyView
  <1>s. ASSUME NEW n \in Sessions, SendView(n), n \in sessions', stage'[n] = "done"
        PROVE  ReadyView
    BY <1>s DEF ReadyView, SendView
  <1>b. ASSUME NEW n \in Sessions, NEW o \in Outcomes \cup {NULL},
               CloseBody(n, o) \/ ReleaseBody(n)
        PROVE  Mute
    BY <1>b DEF CloseBody, CloseReleased, CloseOpen, CloseSealed, ReleaseBody,
       SendNoView
  <1>1. CASE Wake
    <2>0. Head(microtasks) \in Request /\ stage[Head(microtasks).s] = "done"
      <3>1. microtasks \in Seq(Request) /\ microtasks # << >>
        BY <1>0, <1>1 DEF Wake, TypeOK
      <3>2. Head(microtasks) = microtasks[1] /\ 1 \in 1..Len(microtasks)
        BY <3>1, EmptySeq, LenProperties
      <3> QED BY <1>0, <3>1, <3>2, ElementOfSeq DEF Gates
    <2> DEFINE m == Head(microtasks)
    <2>1. CASE m.op = "open" /\ WakeOpen(m.s)
      <3>1. /\ (SendView(m.s) /\ m.s \in sessions) \/ Mute
            /\ UNCHANGED <<sessions, stage>>
        BY <2>1 DEF WakeOpen, SendNoView, openVars, mapVars
      <3> HIDE DEF Mute
      <3> QED BY <1>m, <1>s, <2>0, <3>1 DEF Request
    <2>2. CASE Refuse
      BY <1>m, <2>2 DEF Refuse, SendNoView
    <2>3. CASE CloseBody(m.s, m.outcome) \/ ReleaseBody(m.s)
      BY <1>b, <1>m, <2>0, <2>3 DEF Request
    <2> QED BY <1>1, <2>1, <2>2, <2>3 DEF Wake
  <1>2. ASSUME NEW w \in Workers, NEW t \in Tests, OpenAgain(w, t) PROVE ReadyView
    <2>1. /\ \/ Mute
             \/ ~Pending(workerSessions[w]) /\ SendView(workerSessions[w])
          /\ workerSessions[w] \in sessions /\ workerSessions[w] \in Sessions
          /\ UNCHANGED <<sessions, stage>>
      BY <1>0, <1>2 DEF OpenAgain, SlotSame, SlotFree, TypeOK, openVars, mapVars
    <2>2. ~Pending(workerSessions[w]) => stage[workerSessions[w]] = "done"
      BY <1>0, <2>1 DEF TypeOK, Lifecycle, Pending
    <2> HIDE DEF Mute
    <2> QED BY <1>m, <1>s, <2>1, <2>2
  <1>3. ASSUME NEW w \in Workers, NEW t \in Tests, Resolve(w, t) PROVE ReadyView
    <2>1. /\ \/ Mute
             \/ Resolvable(w, t) /\ SendView(workerSessions[w])
          /\ UNCHANGED <<sessions, stage>>
      BY <1>3 DEF Resolve, SendNoView, openVars, mapVars
    <2>2. Resolvable(w, t) =>
            /\ workerSessions[w] \in Sessions /\ workerSessions[w] \in sessions
            /\ stage[workerSessions[w]] = "done"
      BY <1>0 DEF Resolvable, TypeOK, Lifecycle, Pending
    <2> HIDE DEF Mute
    <2> QED BY <1>m, <1>s, <2>1, <2>2
  <1>4. ASSUME NEW n \in Sessions, OpenReady(n) PROVE ReadyView
    <2>1. SendView(n) /\ n \in sessions' /\ stage' = [stage EXCEPT ![n] = "done"]
      BY <1>4 DEF OpenReady, SettleGate, mapVars
    <2>2. stage'[n] = "done"
      BY <1>0, <2>1 DEF TypeOK
    <2> QED BY <1>s, <2>1, <2>2
  <1>5. ASSUME NEW n \in Sessions, NEW o \in Outcomes \cup {NULL},
               Close(n, o) \/ Release(n)
        PROVE  ReadyView
    BY <1>5, <1>b, <1>m DEF Close, Release, Refuse, SendNoView
  <1>6. ASSUME NEW n \in Sessions,
               \/ ProxyReady(n) \/ ProxyFailed(n) \/ OpenDiscard(n)
               \/ OpenDiscarded(n) \/ SessionIdentity(n)
               \/ \E t \in Tests : Records(n, t)
        PROVE  ReadyView
    BY <1>6, <1>m DEF ProxyReady, ProxyFailed, OpenDiscard, OpenDiscarded,
       SessionIdentity, Records, SendNoView
  <1>7. ASSUME NEW w \in Workers, NEW t \in Tests,
               \/ OpenRefused(w, t) \/ OpenBusy(w, t) \/ OpenBadClaims(w, t)
               \/ \E n \in Sessions, c \in BOOLEAN : OpenMint(n, w, t, c)
        PROVE  ReadyView
    BY <1>7, <1>m DEF OpenRefused, OpenBusy, OpenBadClaims, OpenMint, SendNoView
  <1>8. CASE UNCHANGED vars
    BY <1>8, <1>m DEF vars
  <1>9. CASE Requests
    BY <1>9, <1>2, <1>3, <1>5, <1>6, <1>7 DEF Requests
  <1>10. CASE \E n \in Sessions : OpenStep(n)
    BY <1>10, <1>4, <1>6 DEF OpenStep
  <1> QED BY <1>1, <1>8, <1>9, <1>10 DEF Next

(* A view is only ever answered for a registered session whose snapshots   *)
(* are complete, whichever of open, waiting re-open and resolve answers.   *)
THEOREM ViewsAreReady == Spec => ViewIsOfReadySession
  <1>1. SessionInv /\ [Next]_vars => [ReadyView]_vars
    BY StepReadyView
  <1> QED BY <1>1, SessionsInductive, PTL DEF Spec, ViewIsOfReadySession

=============================================================================

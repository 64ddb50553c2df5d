---------------------------- MODULE ReceiptProofs ----------------------------
(* TLAPS proofs about the two modules of receipts, for every number of trees, *)
(* policy revisions, runs and brokers.                                        *)
(*   GateCommit: GateInv is the inductive invariant; a step of a run is       *)
(* reduced to what it does to that run (LocalInv) and to the receipts in      *)
(* circulation (InForce).                                                     *)
(*   Reseal: ResealInv says of every run, and of the job that runs, that what *)
(* it did not execute itself is proven by another run (Vouches); ChainInv, of *)
(* the directory, that its hops lead from its receipt to a full run (Links).  *)
EXTENDS GateCommit, Reseal, SequenceTheorems, WellFoundedInduction, TLAPS

\* The initial state satisfies the inductive invariant.
LEMMA InitInv == Init => GateInv
  <1> SUFFICES ASSUME Init PROVE GateInv
      OBVIOUS
  <1>1. NewRun \in RunStates /\ NewBroker \in BrokerStates /\ Foreign(0) \in LogEntries
    BY GateAssumption DEF NewRun, RunStates, Stages, Commits, NewBroker,
       BrokerStates, Foreign, LogEntries
  <1>2. log \in Seq(LogEntries) /\ Len(log) <= MaxCommits
    <2>1. <<Foreign(0)>> \in Seq(LogEntries) /\ Len(<<Foreign(0)>>) = 1
      BY <1>1
    <2>2. CASE log = <<>>
      BY <2>2, GateAssumption
    <2>3. CASE log = <<Foreign(0)>>
      BY <2>1, <2>3, GateAssumption
    <2> QED BY <2>2, <2>3 DEF Init
  <1>3. TypeOK
    BY <1>1, <1>2, GateAssumption DEF Init, TypeOK, Commits
  <1>4. \A r \in Runs : LocalInv(run[r], ws)
    BY DEF Init, LocalInv, NewRun, Inside, AfterDigest, AfterFreeze,
       AfterPolicy, AfterSuite, Steady
  <1>5. \A i \in 1 .. Len(log) : CommitInv(i)
    BY DEF Init, CommitInv, Foreign
  <1> QED
    BY <1>3, <1>4, <1>5 DEF Init, GateInv, NewRun, NewBroker, BrokerInv,
       RevokedStaysRevoked

\* The parts of the invariant that only depend on the receipts that runs have
\* sealed and on the broker survive a step that keeps both.
LEMMA HeldKept ==
  ASSUME GateInv, UNCHANGED <<broker, log>>,
         run' \in [Runs -> RunStates],
         \A x \in Runs : run[x].cert # NULL => run'[x].cert = run[x].cert
  PROVE  /\ \A rcpt \in Receipts \ {NULL} : InForce(rcpt) => InForce(rcpt)'
         /\ \A b \in Brokers : broker'[b].held # NULL => InForce(broker[b].held)'
         /\ \A b \in Brokers : BrokerInv(broker[b])'
         /\ \A i \in 1 .. Len(log') : CommitInv(i)'
         /\ \A x \in revoked : run'[x].cert # NULL
  <1>0. TypeOK
    BY DEF GateInv
  <1>1. ASSUME NEW rcpt \in Receipts \ {NULL}, InForce(rcpt) PROVE InForce(rcpt)'
    BY <1>0, <1>1 DEF InForce, OfOneTree, Receipts
  <1>2. ASSUME NEW b \in Brokers, broker'[b].held # NULL
        PROVE  InForce(broker[b].held)'
    BY <1>0, <1>1, <1>2 DEF GateInv, TypeOK, BrokerStates, InForce, OfOneTree
  <1>3. ASSUME NEW b \in Brokers PROVE BrokerInv(broker[b])'
    BY DEF GateInv, BrokerInv, Accepted
  <1>4. ASSUME NEW i \in 1 .. Len(log') PROVE CommitInv(i)'
    <2>1. log[i] \in LogEntries /\ CommitInv(i)
      BY <1>0, ElementOfSeq DEF GateInv, TypeOK
    <2>2. CASE log[i].by # NULL
      <3>1. log[i].by \in Receipts \ {NULL} /\ InForce(log[i].by)
        BY <2>1, <2>2 DEF LogEntries, CommitInv
      <3>2. InForce(log[i].by)'
        BY <3>1, <1>1 DEF InForce, OfOneTree
      <3> QED BY <2>1, <3>2 DEF CommitInv, Accepted
    <2>3. CASE log[i].by = NULL
      BY <2>3 DEF CommitInv
    <2> QED BY <2>2, <2>3
  <1>5. \A x \in revoked : run'[x].cert # NULL
    BY <1>0 DEF GateInv, TypeOK
  <1> QED
    BY <1>1, <1>2, <1>3, <1>4, <1>5

\* A step of one run that seals nothing, and keeps receipt.json or clears it,
\* keeps the invariant when it keeps that run's own part.
LEMMA QuietRun ==
  ASSUME GateInv, NEW r \in Runs, NEW q \in RunStates,
         Becomes(r, q), q.cert = run[r].cert, LocalInv(q, ws),
         UNCHANGED <<ws, base, pin, broker, log>>,
         exec' \in Runs \cup {NULL}, events' \in 0 .. MaxEvents,
         \/ UNCHANGED <<receipt, revoked>>
         \/ ClearGateReceipt
  PROVE  GateInv'
  <1>0. /\ TypeOK /\ run' \in [Runs -> RunStates] /\ run'[r] = q
        /\ \A x \in Runs \ {r} : run'[x] = run[x]
    BY DEF GateInv, TypeOK, Becomes
  <1>a. \A x \in Runs : run'[x].cert = run[x].cert
    BY <1>0
  <1>1. /\ \A rcpt \in Receipts \ {NULL} : InForce(rcpt) => InForce(rcpt)'
        /\ \A b \in Brokers : broker'[b].held # NULL => InForce(broker[b].held)'
        /\ \A b \in Brokers : BrokerInv(broker[b])'
        /\ \A i \in 1 .. Len(log') : CommitInv(i)'
        /\ \A x \in revoked : run'[x].cert # NULL
    BY <1>0, <1>a, HeldKept
  <1>2. Sealers \subseteq Runs /\ \A x \in Sealers : run'[x].cert # NULL
    BY <1>a DEF Sealers
  <1>3. TypeOK'
    BY <1>0, <1>2 DEF TypeOK, ClearGateReceipt
  <1>4. \A x \in Runs : LocalInv(run[x], ws)'
    BY <1>0 DEF GateInv
  <1>5. ASSUME NEW x \in Runs, run'[x].cert # NULL PROVE InForce(run[x].cert)'
    <2>1. run[x].cert \in Receipts \ {NULL} /\ InForce(run[x].cert)
      BY <1>0, <1>a, <1>5 DEF GateInv, TypeOK, RunStates
    <2> QED BY <1>a, <1>1, <2>1 DEF InForce, OfOneTree
  <1>6. ASSUME receipt' # NULL PROVE InForce(receipt)'
    <2>1. receipt \in Receipts \ {NULL} /\ InForce(receipt) /\ receipt' = receipt
      BY <1>0, <1>6 DEF GateInv, TypeOK, ClearGateReceipt
    <2> QED BY <1>1, <2>1 DEF InForce, OfOneTree
  <1>7. \A x \in revoked' : run'[x].cert # NULL
    BY <1>1, <1>2 DEF ClearGateReceipt
  <1>8. RevokedStaysRevoked'
    BY DEF GateInv, RevokedStaysRevoked, ClearGateReceipt
  <1> QED
    BY <1>1, <1>3, <1>4, <1>5, <1>6, <1>7, <1>8 DEF GateInv

\* A run that ends with a receipt, its own or the one it found, keeps the
\* invariant when that receipt is in force afterwards.
LEMMA CertifiedEnd ==
  ASSUME GateInv, NEW r \in Runs, NEW rcpt \in Receipts \ {NULL},
         run[r].cert = NULL, Ends(r, 0, rcpt), receipt' = rcpt,
         \/ rcpt.run = r /\ (~rcpt.returned => OfOneTree(rcpt)) /\ r \notin revoked
         \/ rcpt = receipt,
         UNCHANGED <<ws, base, pin, exec, broker, log, revoked, events>>
  PROVE  GateInv'
  <1> DEFINE q == [NewRun EXCEPT !.pc = "done", !.exit = 0, !.cert = rcpt,
                                 !.parent = run[r].parent]
  <1>0. TypeOK
    BY DEF GateInv
  <1>1. q \in RunStates /\ q.cert = rcpt /\ q.pc = "done"
    <2>1. run[r].parent \in Commits
      BY <1>0 DEF TypeOK, RunStates
    <2> QED BY <2>1, GateAssumption, ZenonT(40) DEF NewRun, RunStates, Stages, Commits
  <1>2. run' = [run EXCEPT ![r] = q]
    BY DEF Ends, Becomes
  <1>3. /\ run' \in [Runs -> RunStates] /\ run'[r] = q
        /\ \A x \in Runs \ {r} : run'[x] = run[x]
    BY <1>0, <1>1, <1>2 DEF TypeOK
  <1> HIDE DEF q
  <1>4. \A x \in Runs : run[x].cert # NULL => run'[x].cert = run[x].cert
    BY <1>3
  <1>5. /\ \A c \in Receipts \ {NULL} : InForce(c) => InForce(c)'
        /\ \A b \in Brokers : broker'[b].held # NULL => InForce(broker[b].held)'
        /\ \A b \in Brokers : BrokerInv(broker[b])'
        /\ \A i \in 1 .. Len(log') : CommitInv(i)'
        /\ \A x \in revoked : run'[x].cert # NULL
    BY <1>3, <1>4, HeldKept
  <1>6. InForce(rcpt)'
    <2>1. CASE rcpt.run = r /\ (~rcpt.returned => OfOneTree(rcpt))
      BY <1>1, <1>3, <2>1 DEF InForce, OfOneTree
    <2>2. CASE rcpt = receipt
      BY <1>5, <2>2 DEF GateInv
    <2> QED BY <2>1, <2>2
  <1>7. TypeOK'
    BY <1>0, <1>3 DEF TypeOK
  <1>8. \A x \in Runs : LocalInv(run[x], ws)'
    <2>1. LocalInv(q, ws)
      <3>1. q.ran = {}
        BY <1>0 DEF q, NewRun
      <3> QED BY <1>1, <3>1 DEF LocalInv, Inside, AfterDigest, AfterFreeze,
                 AfterPolicy, AfterSuite, Steady
    <2> QED BY <1>3, <2>1 DEF GateInv
  <1>9. ASSUME NEW x \in Runs, run'[x].cert # NULL PROVE InForce(run[x].cert)'
    <2>1. CASE x = r
      BY <1>1, <1>3, <1>6, <2>1 DEF InForce, OfOneTree
    <2>2. CASE x # r
      <3>1. run[x].cert \in Receipts \ {NULL} /\ InForce(run[x].cert)
            /\ run'[x].cert = run[x].cert
        BY <1>0, <1>3, <1>9, <2>2 DEF GateInv, TypeOK, RunStates
      <3> QED BY <1>5, <3>1 DEF InForce, OfOneTree
    <2> QED BY <2>1, <2>2
  <1>10. InForce(receipt)'
    BY <1>6 DEF InForce, OfOneTree
  <1>11. RevokedStaysRevoked'
    BY DEF GateInv, RevokedStaysRevoked
  <1> QED
    BY <1>5, <1>7, <1>8, <1>9, <1>10, <1>11 DEF GateInv

\* What Count leaves is within the bound.
LEMMA Counted ==
  ASSUME events \in 0 .. MaxEvents, NEW n \in Nat, Count(n)
  PROVE  events' \in 0 .. MaxEvents
  BY GateAssumption DEF Count

\* The steps of a run that read the workspace and move on keep the invariant.
LEMMA ReadingSteps ==
  ASSUME GateInv, NEW r \in Runs,
         \/ \E keyed \in BOOLEAN : Start(r, keyed)
         \/ Inventory(r) \/ Digest(r) \/ Freeze(r) \/ RunTest(r) \/ ResultTree(r)
         \/ \E complete \in BOOLEAN : SuiteEnds(r, complete)
         \/ \E blocked, softened \in BOOLEAN : PostSuite(r, blocked, softened)
  PROVE  GateInv'
  <1>0. /\ run[r] \in RunStates /\ ws \in Trees /\ PolicyOf[ws] \in Policies
        /\ pin \in Policies \cup {NULL} /\ base \in Commits
        /\ LocalInv(run[r], ws)
        /\ exec \in Runs \cup {NULL} /\ events \in 0 .. MaxEvents
    BY GateAssumption DEF GateInv, TypeOK
  <1>1. ASSUME NEW keyed \in BOOLEAN, Start(r, keyed) PROVE GateInv'
    <2> DEFINE q == [run[r] EXCEPT !.pc = "inventory", !.pin = pin, !.keyed = keyed,
                                   !.config = PolicyOf[ws]]
    <2>1. q \in RunStates
      BY <1>0, ZenonT(40) DEF RunStates, Stages
    <2>2. q.cert = run[r].cert
      BY <1>0 DEF RunStates
    <2>3. LocalInv(q, ws)
      BY <1>0, <1>1 DEF Start, RunStates, LocalInv, Steady, Inside,
         AfterDigest, AfterFreeze, AfterPolicy, AfterSuite
    <2>4. Becomes(r, q)
      BY <1>1 DEF Start
    <2> HIDE DEF q
    <2>5. events' \in 0 .. MaxEvents
      BY <1>0, <1>1, Counted, GateAssumption DEF Start
    <2> QED
      BY <1>0, <1>1, <2>1, <2>2, <2>3, <2>4, <2>5, QuietRun DEF Start, Quiet, Elsewhere
  <1>2. ASSUME Inventory(r) PROVE GateInv'
    <2> DEFINE q == [run[r] EXCEPT !.pc = "discovery", !.pre = ws]
    <2>1. q \in RunStates
      BY <1>0 DEF RunStates, Stages
    <2>2. q.cert = run[r].cert
      BY <1>0 DEF RunStates
    <2>3. LocalInv(q, ws)
      BY <1>0, <1>2 DEF Inventory, RunStates, LocalInv, Steady, Inside,
         AfterDigest, AfterFreeze, AfterPolicy, AfterSuite
    <2>4. Becomes(r, q)
      BY <1>2 DEF Inventory
    <2> HIDE DEF q
    <2>5. events' \in 0 .. MaxEvents
      BY <1>0, <1>2 DEF Inventory, Quiet, Elsewhere
    <2> QED
      BY <1>0, <1>2, <2>1, <2>2, <2>3, <2>4, <2>5, QuietRun DEF Inventory, Quiet, Elsewhere
  <1>3. ASSUME Digest(r) PROVE GateInv'
    <2> DEFINE q == [run[r] EXCEPT !.pc = "freeze", !.input = ws]
    <2>1. q \in RunStates
      BY <1>0 DEF RunStates, Stages
    <2>2. q.cert = run[r].cert
      BY <1>0 DEF RunStates
    <2>3. LocalInv(q, ws)
      BY <1>0, <1>3 DEF Digest, RunStates, LocalInv, Steady, Inside,
         AfterDigest, AfterFreeze, AfterPolicy, AfterSuite
    <2>4. Becomes(r, q)
      BY <1>3 DEF Digest
    <2> HIDE DEF q
    <2>5. events' \in 0 .. MaxEvents
      BY <1>0, <1>3 DEF Digest, Quiet, Elsewhere
    <2> QED
      BY <1>0, <1>3, <2>1, <2>2, <2>3, <2>4, <2>5, QuietRun DEF Digest, Quiet, Elsewhere
  <1>4. ASSUME Freeze(r) PROVE GateInv'
    <2> DEFINE q == [run[r] EXCEPT !.pc = "policy", !.tree = ws, !.parent = base]
    <2>1. q \in RunStates
      BY <1>0 DEF RunStates, Stages
    <2>2. q.cert = run[r].cert
      BY <1>0 DEF RunStates
    <2>3. LocalInv(q, ws)
      BY <1>0, <1>4 DEF Freeze, RunStates, LocalInv, Steady, Inside,
         AfterDigest, AfterFreeze, AfterPolicy, AfterSuite
    <2>4. Becomes(r, q)
      BY <1>4 DEF Freeze
    <2> HIDE DEF q
    <2>5. events' \in 0 .. MaxEvents
      BY <1>0, <1>4 DEF Freeze, Quiet, Elsewhere
    <2> QED
      BY <1>0, <1>4, <2>1, <2>2, <2>3, <2>4, <2>5, QuietRun DEF Freeze, Quiet, Elsewhere
  <1>5. ASSUME RunTest(r) PROVE GateInv'
    <2> DEFINE q == [run[r] EXCEPT !.ran = @ \cup {ws}]
    <2>1. q \in RunStates
      BY <1>0 DEF RunStates, Stages
    <2>2. q.cert = run[r].cert
      BY <1>0 DEF RunStates
    <2>3. LocalInv(q, ws)
      BY <1>0, <1>5 DEF RunTest, RunStates, LocalInv, Steady, Inside,
         AfterDigest, AfterFreeze, AfterPolicy, AfterSuite
    <2>4. Becomes(r, q)
      BY <1>5 DEF RunTest
    <2> HIDE DEF q
    <2>5. events' \in 0 .. MaxEvents
      BY <1>0, <1>5 DEF RunTest, Quiet, Elsewhere
    <2> QED
      BY <1>0, <1>5, <2>1, <2>2, <2>3, <2>4, <2>5, QuietRun DEF RunTest, Quiet, Elsewhere
  <1>6. ASSUME NEW complete \in BOOLEAN, SuiteEnds(r, complete) PROVE GateInv'
    <2> DEFINE q == [run[r] EXCEPT !.pc = "post", !.complete = complete]
    <2>1. q \in RunStates
      BY <1>0, ZenonT(40) DEF RunStates, Stages
    <2>2. q.cert = run[r].cert
      BY <1>0 DEF RunStates
    <2>3. LocalInv(q, ws)
      BY <1>0, <1>6 DEF SuiteEnds, RunStates, LocalInv, Steady, Inside,
         AfterDigest, AfterFreeze, AfterPolicy, AfterSuite
    <2>4. Becomes(r, q)
      BY <1>6 DEF SuiteEnds
    <2> HIDE DEF q
    <2>5. events' \in 0 .. MaxEvents
      BY <1>0, <1>6 DEF SuiteEnds, Quiet, Elsewhere
    <2> QED
      BY <1>0, <1>6, <2>1, <2>2, <2>3, <2>4, <2>5, QuietRun DEF SuiteEnds, Quiet, Elsewhere
  <1>7. ASSUME NEW blocked \in BOOLEAN, NEW softened \in BOOLEAN,
               PostSuite(r, blocked, softened) PROVE GateInv'
    <2>0. PICK changed \in BOOLEAN : changed = (ws # run[r].pre)
      OBVIOUS
    <2> DEFINE q == [run[r] EXCEPT !.pc = "result", !.changed = changed,
                                   !.blocked = blocked, !.softened = softened]
    <2>1. q \in RunStates
      <3> DEFINE u == [run[r] EXCEPT !.pc = "result", !.changed = changed]
                 v == [u EXCEPT !.blocked = blocked]
      <3>1. u \in RunStates
        BY <1>0, ZenonT(40) DEF RunStates, Stages
      <3> HIDE DEF u
      <3>2. v \in RunStates
        BY <3>1 DEF RunStates
      <3> HIDE DEF v
      <3>3. [v EXCEPT !.softened = softened] \in RunStates
        BY <3>2 DEF RunStates
      <3> QED BY <3>3 DEF u, v
    <2>2. q.cert = run[r].cert
      BY <1>0 DEF RunStates
    <2>3. LocalInv(q, ws)
      BY <1>0, <1>7, <2>0 DEF PostSuite, RunStates, LocalInv, Steady, Inside,
         AfterDigest, AfterFreeze, AfterPolicy, AfterSuite
    <2>4. Becomes(r, q)
      BY <1>7, <2>0 DEF PostSuite
    <2> HIDE DEF q
    <2>5. events' \in 0 .. MaxEvents
      BY <1>0, <1>7 DEF PostSuite, Quiet, Elsewhere
    <2> QED
      BY <1>0, <1>7, <2>1, <2>2, <2>3, <2>4, <2>5, QuietRun DEF PostSuite, Quiet, Elsewhere
  <1>8. ASSUME ResultTree(r) PROVE GateInv'
    <2> DEFINE q == [run[r] EXCEPT !.pc = "decide", !.result = ws]
    <2>1. q \in RunStates
      BY <1>0 DEF RunStates, Stages
    <2>2. q.cert = run[r].cert
      BY <1>0 DEF RunStates
    <2>3. LocalInv(q, ws)
      BY <1>0, <1>8 DEF ResultTree, RunStates, LocalInv, Steady, Inside,
         AfterDigest, AfterFreeze, AfterPolicy, AfterSuite
    <2>4. Becomes(r, q)
      BY <1>8 DEF ResultTree
    <2> HIDE DEF q
    <2>5. events' \in 0 .. MaxEvents
      BY <1>0, <1>8 DEF ResultTree, Quiet, Elsewhere
    <2> QED
      BY <1>0, <1>8, <2>1, <2>2, <2>3, <2>4, <2>5, QuietRun DEF ResultTree, Quiet, Elsewhere
  <1> QED BY <1>1, <1>2, <1>3, <1>4, <1>5, <1>6, <1>7, <1>8

\* A run that ends without a receipt keeps the invariant.
LEMMA PlainEnd ==
  ASSUME GateInv, NEW r \in Runs, NEW code \in {0, 1},
         run[r].cert = NULL, Ends(r, code, NULL),
         UNCHANGED <<ws, base, pin, exec, broker, log, events>>,
         \/ UNCHANGED <<receipt, revoked>>
         \/ ClearGateReceipt
  PROVE  GateInv'
  <1> DEFINE q == [NewRun EXCEPT !.pc = "done", !.exit = code, !.cert = NULL,
                                 !.parent = run[r].parent]
  <1>0. run[r].parent \in Commits /\ exec \in Runs \cup {NULL} /\ events \in 0 .. MaxEvents
    BY DEF GateInv, TypeOK, RunStates
  <1>1. q \in RunStates /\ q.cert = NULL /\ q.pc = "done" /\ q.ran = {}
    <2> QED BY <1>0, GateAssumption, ZenonT(40) DEF NewRun, RunStates, Stages, Commits
  <1>2. Becomes(r, q)
    BY DEF Ends
  <1> HIDE DEF q
  <1>3. LocalInv(q, ws)
    BY <1>1 DEF LocalInv, Inside, AfterDigest, AfterFreeze, AfterPolicy,
       AfterSuite, Steady
  <1> QED BY <1>0, <1>1, <1>2, <1>3, QuietRun

\* The steps of a run that end it, or may end it, keep the invariant.
LEMMA DecidingSteps ==
  ASSUME GateInv, NEW r \in Runs,
         \/ PostDiscovery(r) \/ Policy(r) \/ Reuse(r)
         \/ Refuse(r) \/ Drifted(r) \/ Unsigned(r) \/ Seal(r)
  PROVE  GateInv'
  <1>0. /\ run[r] \in RunStates /\ ws \in Trees /\ PolicyOf[ws] \in Policies
        /\ LocalInv(run[r], ws) /\ receipt \in Receipts \cup {NULL}
        /\ exec \in Runs \cup {NULL} /\ events \in 0 .. MaxEvents
    BY GateAssumption DEF GateInv, TypeOK
  <1>a. run[r].pc # "done" => run[r].cert = NULL
    BY <1>0 DEF LocalInv
  <1>1. ASSUME PostDiscovery(r) PROVE GateInv'
    <2> DEFINE q == [run[r] EXCEPT !.pc = "digest"]
    <2>1. q \in RunStates /\ q.cert = run[r].cert
      BY <1>0 DEF RunStates, Stages
    <2>2. LocalInv(q, ws)
      BY <1>0, <1>1 DEF PostDiscovery, RunStates, LocalInv, Steady, Inside,
         AfterDigest, AfterFreeze, AfterPolicy, AfterSuite
    <2>3. Becomes(r, q) \/ Ends(r, 1, NULL)
      BY <1>1 DEF PostDiscovery
    <2> HIDE DEF q
    <2>4. /\ UNCHANGED <<ws, base, pin, exec, broker, log, events, receipt, revoked>>
          /\ run[r].pc # "done"
      BY <1>1 DEF PostDiscovery, Quiet, Elsewhere
    <2>5. CASE Becomes(r, q)
      BY <1>0, <2>1, <2>2, <2>4, <2>5, QuietRun
    <2>6. CASE Ends(r, 1, NULL)
      BY <1>a, <2>4, <2>6, PlainEnd
    <2> QED BY <2>3, <2>5, <2>6
  <1>2. ASSUME Policy(r) PROVE GateInv'
    <2> DEFINE q == [run[r] EXCEPT !.pc = "reuse", !.policy = PolicyOf[ws],
                                   !.approved = run[r].pin]
    <2>1. q \in RunStates /\ q.cert = run[r].cert
      BY <1>0, ZenonT(40) DEF RunStates, Stages
    <2>2. LocalInv(q, ws)
      BY <1>0, <1>2 DEF Policy, RunStates, LocalInv, Steady, Inside,
         AfterDigest, AfterFreeze, AfterPolicy, AfterSuite
    <2>3. \/ Becomes(r, q) /\ UNCHANGED <<receipt, revoked>>
          \/ Ends(r, 1, NULL) /\ ClearGateReceipt
      BY <1>2 DEF Policy
    <2> HIDE DEF q
    <2>4. /\ UNCHANGED <<ws, base, pin, exec, broker, log, events>>
          /\ run[r].pc # "done"
      BY <1>2 DEF Policy, Elsewhere
    <2>5. CASE Becomes(r, q) /\ UNCHANGED <<receipt, revoked>>
      BY <1>0, <2>1, <2>2, <2>4, <2>5, QuietRun
    <2>6. CASE Ends(r, 1, NULL) /\ ClearGateReceipt
      BY <1>a, <2>4, <2>6, PlainEnd
    <2> QED BY <2>3, <2>5, <2>6
  <1>3. ASSUME Reuse(r) PROVE GateInv'
    <2> DEFINE q == [run[r] EXCEPT !.pc = "suite"]
    <2>1. q \in RunStates /\ q.cert = run[r].cert
      BY <1>0 DEF RunStates, Stages
    <2>2. LocalInv(q, ws)
      BY <1>0, <1>3 DEF Reuse, RunStates, LocalInv, Steady, Inside,
         AfterDigest, AfterFreeze, AfterPolicy, AfterSuite
    <2>3. \/ Becomes(r, q)
          \/ Ends(r, 1, NULL)
          \/ Ends(r, 0, receipt) /\ receipt # NULL
      BY <1>3 DEF Reuse, Reusable
    <2> HIDE DEF q
    <2>4. /\ UNCHANGED <<ws, base, pin, exec, broker, log, events, receipt, revoked>>
          /\ run[r].pc # "done"
      BY <1>3 DEF Reuse, Quiet, Elsewhere
    <2>5. CASE Becomes(r, q)
      BY <1>0, <2>1, <2>2, <2>4, <2>5, QuietRun
    <2>6. CASE Ends(r, 1, NULL)
      BY <1>a, <2>4, <2>6, PlainEnd
    <2>7. CASE Ends(r, 0, receipt) /\ receipt # NULL
      BY <1>0, <1>a, <2>4, <2>7, CertifiedEnd
    <2> QED BY <2>3, <2>5, <2>6, <2>7
  <1>4. ASSUME Refuse(r) \/ Drifted(r) \/ Unsigned(r) PROVE GateInv'
    <2>1. /\ UNCHANGED <<ws, base, pin, exec, broker, log, events>>
          /\ run[r].pc # "done"
          /\ UNCHANGED <<receipt, revoked>> \/ ClearGateReceipt
      BY <1>4 DEF Refuse, Drifted, Unsigned, Quiet, Elsewhere
    <2>2. \E code \in {0, 1} : Ends(r, code, NULL)
      BY <1>4 DEF Refuse, Drifted, Unsigned, GateCode
    <2> QED BY <1>a, <2>1, <2>2, PlainEnd
  <1>5. ASSUME Seal(r) PROVE GateInv'
    <2>1. /\ run[r].pc = "decide" /\ ~run[r].changed /\ run[r].result = run[r].tree
          /\ run[r].cert = NULL
      BY <1>5, <1>a DEF Seal, Unfit
    <2>2. /\ run[r].pre \in Trees /\ run[r].input \in Trees /\ run[r].result \in Trees
          /\ run[r].policy \in Policies /\ run[r].ran # {}
          /\ ~run[r].returned =>
               /\ run[r].input = run[r].pre /\ run[r].tree = run[r].pre
               /\ run[r].policy = PolicyOf[run[r].pre] /\ run[r].ran \subseteq {run[r].pre}
      BY <1>0, <2>1 DEF LocalInv, Steady, Inside, AfterDigest, AfterFreeze,
         AfterPolicy, AfterSuite
    <2>3. Issued(r) \in Receipts
      BY <1>0, <2>2 DEF Issued, Receipts, RunStates
    <2>4. Issued(r).run = r /\ (~Issued(r).returned => OfOneTree(Issued(r)))
      BY <2>1, <2>2 DEF Issued, OfOneTree
    <2>5. r \notin revoked
      BY <2>1 DEF GateInv
    <2>6. Issued(r) # NULL
      BY <2>3, NoReceiptIsNull
    <2> QED BY <1>5, <2>1, <2>3, <2>4, <2>5, <2>6, CertifiedEnd DEF Seal, Elsewhere
  <1> QED BY <1>1, <1>2, <1>3, <1>4, <1>5

\* The commits that are already on the ref stay justified when the receipts of
\* the runs stay and the ref moves forward by one justified commit.
LEMMA LogGrows ==
  ASSUME GateInv, UNCHANGED run, Len(log) < MaxCommits,
         NEW e \in LogEntries, log' = Append(log, e),
         e.by # NULL =>
           /\ Accepted(e.by, e.tree, e.policy, e.pin) /\ InForce(e.by)
           /\ e.by.parent # 0 => e.by.parent = Len(log)
  PROVE  /\ log' \in Seq(LogEntries) /\ Len(log') <= MaxCommits
         /\ \A i \in 1 .. Len(log') : CommitInv(i)'
  <1>0. log \in Seq(LogEntries) /\ Len(log) \in Nat
    BY LenProperties DEF GateInv, TypeOK
  <1>1. /\ log' \in Seq(LogEntries) /\ Len(log') = Len(log) + 1
        /\ log'[Len(log) + 1] = e
        /\ \A i \in 1 .. Len(log) : log'[i] = log[i]
    BY <1>0, AppendProperties
  <1>2. Len(log') <= MaxCommits
    BY <1>0, <1>1, GateAssumption
  <1>3. ASSUME NEW i \in 1 .. Len(log') PROVE CommitInv(i)'
    <2>1. CASE i \in 1 .. Len(log)
      BY <1>1, <2>1 DEF GateInv, CommitInv, InForce, OfOneTree, Accepted
    <2>2. CASE i = Len(log) + 1
      <3>1. log'[i] = e /\ i - 1 = Len(log)
        BY <1>0, <1>1, <2>2
      <3> QED BY <3>1 DEF CommitInv, InForce, OfOneTree, Accepted
    <2> QED BY <1>0, <1>1, <2>1, <2>2
  <1> QED BY <1>1, <1>2, <1>3

\* A broker that only changes its own variables keeps the invariant when what
\* it holds is in force and what it has compared agrees.
LEMMA OneBroker ==
  ASSUME GateInv, NEW b \in Brokers, NEW c \in BrokerStates,
         broker' = [broker EXCEPT ![b] = c],
         c.held # NULL => InForce(c.held), BrokerInv(c),
         UNCHANGED <<ws, base, pin, run, receipt, exec, revoked, events>>,
         log' \in Seq(LogEntries), Len(log') <= MaxCommits,
         \A i \in 1 .. Len(log') : CommitInv(i)'
  PROVE  GateInv'
  <1>1. /\ TypeOK /\ broker' \in [Brokers -> BrokerStates] /\ broker'[b] = c
        /\ \A x \in Brokers \ {b} : broker'[x] = broker[x]
    BY DEF GateInv, TypeOK
  <1>2. TypeOK'
    BY <1>1 DEF TypeOK
  <1>3. \A x \in Brokers : broker'[x].held # NULL => InForce(broker[x].held)'
    BY <1>1 DEF GateInv, InForce, OfOneTree
  <1>4. \A x \in Brokers : BrokerInv(broker[x])'
    BY <1>1 DEF GateInv
  <1>5. /\ \A r \in Runs : LocalInv(run[r], ws)'
        /\ \A r \in Runs : run'[r].cert # NULL => InForce(run[r].cert)'
        /\ receipt' # NULL => InForce(receipt)'
        /\ \A r \in revoked' : run'[r].cert # NULL
        /\ RevokedStaysRevoked'
    BY DEF GateInv, InForce, OfOneTree, RevokedStaysRevoked
  <1> QED BY <1>2, <1>3, <1>4, <1>5 DEF GateInv

\* The steps of a broker keep the invariant.
LEMMA BrokerSteps ==
  ASSUME GateInv, NEW b \in Brokers, BrokerCommit(b)
  PROVE  GateInv'
  <1>0. /\ broker[b] \in BrokerStates /\ BrokerInv(broker[b])
        /\ broker[b].held # NULL => InForce(broker[b].held)
        /\ ws \in Trees /\ PolicyOf[ws] \in Policies /\ pin \in Policies \cup {NULL}
        /\ receipt \in Receipts \cup {NULL}
        /\ log \in Seq(LogEntries) /\ Len(log) <= MaxCommits
    BY GateAssumption DEF GateInv, TypeOK
  <1>a. Len(log) \in Commits
    BY <1>0, LenProperties, GateAssumption DEF Commits
  <1>b. ASSUME UNCHANGED <<run, log>>
        PROVE  /\ log' \in Seq(LogEntries) /\ Len(log') <= MaxCommits
               /\ \A i \in 1 .. Len(log') : CommitInv(i)'
    BY <1>0, <1>b DEF GateInv, CommitInv, InForce, OfOneTree
  <1>c. NewBroker \in BrokerStates /\ NewBroker.held = NULL /\ BrokerInv(NewBroker)
    BY GateAssumption DEF NewBroker, BrokerStates, BrokerInv, Commits
  <1>d. ASSUME Reject(b), OnlyBroker PROVE GateInv'
    BY <1>b, <1>c, <1>d, OneBroker DEF Reject, OnlyBroker
  <1>1. ASSUME BrokerPolicy(b) PROVE GateInv'
    <2> DEFINE c == [broker[b] EXCEPT !.pc = "tree", !.pin = pin, !.policy = PolicyOf[ws]]
    <2>1. c \in BrokerStates /\ c.held = broker[b].held /\ BrokerInv(c)
      BY <1>0 DEF BrokerStates, BrokerInv
    <2>2. broker' = [broker EXCEPT ![b] = c] /\ OnlyBroker
      BY <1>1 DEF BrokerPolicy
    <2> HIDE DEF c
    <2> QED BY <1>0, <1>b, <2>1, <2>2, OneBroker DEF OnlyBroker
  <1>2. ASSUME BrokerTree(b) PROVE GateInv'
    <2> DEFINE c == [broker[b] EXCEPT !.pc = "verify", !.tree = ws]
    <2>1. c \in BrokerStates /\ c.held = broker[b].held /\ BrokerInv(c)
      BY <1>0, <1>2 DEF BrokerTree, BrokerStates, BrokerInv
    <2>2. broker' = [broker EXCEPT ![b] = c] /\ OnlyBroker
      BY <1>2 DEF BrokerTree
    <2> HIDE DEF c
    <2> QED BY <1>0, <1>b, <2>1, <2>2, OneBroker DEF OnlyBroker
  <1>3. ASSUME BrokerVerify(b) PROVE GateInv'
    <2> DEFINE c == [broker[b] EXCEPT !.pc = "parent", !.held = receipt]
    <2>1. CASE Reject(b)
      BY <1>3, <1>d, <2>1 DEF BrokerVerify
    <2>2. CASE ~Reject(b)
      <3>1. /\ ReceiptVerifies(b) /\ OnlyBroker /\ broker[b].pc = "verify"
            /\ ~PinBlocks(broker[b].pin, broker[b].policy, broker[b].policy \in Strict)
            /\ broker' = [broker EXCEPT ![b] = c]
        BY <1>3, <2>2 DEF BrokerVerify
      <3>2. /\ c \in BrokerStates /\ c.held = receipt /\ c.tree = broker[b].tree
            /\ c.policy = broker[b].policy /\ c.pin = broker[b].pin /\ c.pc = "parent"
        BY <1>0 DEF BrokerStates
      <3> HIDE DEF c
      <3>3. BrokerInv(c)
        BY <1>0, <3>1, <3>2 DEF BrokerInv, Accepted, ReceiptVerifies, PinBlocks
      <3>4. InForce(receipt)
        BY <3>1 DEF ReceiptVerifies, GateInv
      <3> QED BY <1>b, <3>1, <3>2, <3>3, <3>4, OneBroker DEF OnlyBroker
    <2> QED BY <2>1, <2>2
  <1>4. ASSUME BrokerParent(b) PROVE GateInv'
    <2> DEFINE c == [broker[b] EXCEPT !.pc = "update", !.parent = Len(log)]
    <2>1. CASE Reject(b)
      BY <1>4, <1>d, <2>1 DEF BrokerParent
    <2>2. CASE ~Reject(b)
      <3>1. /\ OnlyBroker /\ broker[b].pc = "parent"
            /\ broker[b].held.parent # 0 => broker[b].held.parent = Len(log)
            /\ broker' = [broker EXCEPT ![b] = c]
        BY <1>4, <2>2 DEF BrokerParent
      <3>2. /\ c \in BrokerStates /\ c.held = broker[b].held /\ c.tree = broker[b].tree
            /\ c.policy = broker[b].policy /\ c.pin = broker[b].pin
            /\ c.pc = "update" /\ c.parent = Len(log)
        BY <1>0, <1>a DEF BrokerStates
      <3> HIDE DEF c
      <3>3. BrokerInv(c)
        BY <1>0, <3>1, <3>2 DEF BrokerInv, Accepted
      <3> QED BY <1>0, <1>b, <3>1, <3>2, <3>3, OneBroker DEF OnlyBroker
    <2> QED BY <2>1, <2>2
  <1>5. ASSUME BrokerUpdate(b) PROVE GateInv'
    <2> DEFINE e == [tree |-> broker[b].tree, parent |-> broker[b].parent,
                     pin |-> broker[b].pin, policy |-> broker[b].policy,
                     by |-> broker[b].held]
    <2>1. CASE UNCHANGED log
      BY <1>5, <1>d, <2>1 DEF BrokerUpdate, OnlyBroker
    <2>2. CASE ~UNCHANGED log
      <3>1. /\ Len(log) < MaxCommits /\ log' = Append(log, e)
            /\ broker[b].pc = "update" /\ broker[b].parent = Len(log)
            /\ Reject(b)
            /\ UNCHANGED <<ws, base, pin, run, receipt, exec, revoked, events>>
        BY <1>5, <2>2 DEF BrokerUpdate, RefStillAt
      <3>2. e \in LogEntries
        BY <1>0 DEF BrokerStates, LogEntries
      <3>3. /\ Accepted(e.by, e.tree, e.policy, e.pin) /\ InForce(e.by)
            /\ e.by.parent # 0 => e.by.parent = Len(log)
        BY <1>0, <3>1 DEF BrokerInv
      <3> HIDE DEF e
      <3>4. /\ log' \in Seq(LogEntries) /\ Len(log') <= MaxCommits
            /\ \A i \in 1 .. Len(log') : CommitInv(i)'
        BY <3>1, <3>2, <3>3, LogGrows
      <3> QED BY <1>c, <3>1, <3>4, OneBroker DEF Reject
    <2> QED BY <2>1, <2>2
  <1> QED BY <1>1, <1>2, <1>3, <1>4, <1>5 DEF BrokerCommit

\* An edit of the workspace keeps the invariant: a run for which the bytes
\* left is not steady any more, and one for which they came back remembers it.
LEMMA EditStep ==
  ASSUME GateInv, NEW t \in Trees, Edit(t)
  PROVE  GateInv'
  <1>0. TypeOK /\ run \in [Runs -> RunStates] /\ events' \in 0 .. MaxEvents
    BY Counted DEF GateInv, TypeOK, Edit
  <1>1. ASSUME NEW r \in Runs
        PROVE  /\ run'[r] \in RunStates /\ run'[r].cert = run[r].cert
               /\ LocalInv(run'[r], t)
    <2>1. PICK back \in BOOLEAN :
            back = (run[r].returned \/ (run[r].pc \in Inside /\ run[r].pre = t))
      OBVIOUS
    <2>2. run[r] \in RunStates /\ LocalInv(run[r], ws)
      BY <1>0 DEF GateInv
    <2>3. run'[r] = [run[r] EXCEPT !.returned = back]
      BY <2>1, Zenon DEF Edit
    <2>4. run'[r] \in RunStates /\ run'[r].cert = run[r].cert
      BY <2>2, <2>3 DEF RunStates
    <2>5. /\ run'[r].pc = run[r].pc /\ run'[r].pre = run[r].pre
          /\ run'[r].input = run[r].input /\ run'[r].tree = run[r].tree
          /\ run'[r].policy = run[r].policy /\ run'[r].ran = run[r].ran
          /\ run'[r].result = run[r].result /\ run'[r].changed = run[r].changed
      BY <2>2, <2>3 DEF RunStates
    <2>6. /\ ~run'[r].returned =>
               ~run[r].returned /\ ~(run[r].pc \in Inside /\ run[r].pre = t)
      BY <2>1, <2>2, <2>3 DEF RunStates
    <2>7. Steady(run'[r], t) => Steady(run[r], ws)
      BY <2>5, <2>6 DEF Steady
    <2> QED BY <2>2, <2>4, <2>5, <2>7 DEF LocalInv
  <1>2. run' \in [Runs -> RunStates]
    BY <1>1 DEF Edit
  <1>3. /\ \A rcpt \in Receipts \ {NULL} : InForce(rcpt) => InForce(rcpt)'
        /\ \A b \in Brokers : broker'[b].held # NULL => InForce(broker[b].held)'
        /\ \A b \in Brokers : BrokerInv(broker[b])'
        /\ \A i \in 1 .. Len(log') : CommitInv(i)'
        /\ \A x \in revoked : run'[x].cert # NULL
    BY <1>1, <1>2, HeldKept DEF Edit
  <1>4. TypeOK'
    BY <1>0, <1>2 DEF TypeOK, Edit
  <1>5. \A r \in Runs : LocalInv(run[r], ws)'
    BY <1>1 DEF Edit
  <1>6. ASSUME NEW r \in Runs, run'[r].cert # NULL PROVE InForce(run[r].cert)'
    <2>1. run[r].cert \in Receipts \ {NULL} /\ InForce(run[r].cert)
      BY <1>0, <1>1, <1>6 DEF GateInv, RunStates
    <2> QED BY <1>1, <1>3, <2>1 DEF InForce, OfOneTree
  <1>7. ASSUME receipt' # NULL PROVE InForce(receipt)'
    <2>1. receipt \in Receipts \ {NULL} /\ InForce(receipt) /\ receipt' = receipt
      BY <1>0, <1>7 DEF GateInv, TypeOK, Edit
    <2> QED BY <1>3, <2>1 DEF InForce, OfOneTree
  <1>8. RevokedStaysRevoked' /\ \A r \in revoked' : run'[r].cert # NULL
    BY <1>3 DEF GateInv, RevokedStaysRevoked, Edit
  <1> QED BY <1>3, <1>4, <1>5, <1>6, <1>7, <1>8 DEF GateInv

\* The steps of everyone else, and a stuttering step, keep the invariant.
LEMMA OtherSteps ==
  ASSUME GateInv,
         \/ \E n \in Commits : MoveHead(n)
         \/ \E p \in Policies \cup {NULL} : SetPin(p)
         \/ Push
         \/ UNCHANGED vars
  PROVE  GateInv'
  <1>0. /\ TypeOK /\ log \in Seq(LogEntries) /\ Len(log) <= MaxCommits
        /\ Len(log) \in Nat
    BY LenProperties DEF GateInv, TypeOK
  <1>1. UNCHANGED <<ws, run, receipt, exec, broker, revoked>>
    BY DEF MoveHead, SetPin, Push, vars
  <1>2. events' \in 0 .. MaxEvents
    BY <1>0, Counted DEF TypeOK, MoveHead, SetPin, Push, vars
  <1>3. base' \in Commits /\ pin' \in Policies \cup {NULL}
    BY <1>0 DEF TypeOK, MoveHead, SetPin, Push, vars
  <1>4. /\ log' \in Seq(LogEntries) /\ Len(log') <= MaxCommits
        /\ \A i \in 1 .. Len(log') : CommitInv(i)'
    <2>1. CASE UNCHANGED log
      BY <1>0, <1>1, <2>1 DEF GateInv, CommitInv, InForce, OfOneTree
    <2>2. CASE ~UNCHANGED log
      <3>1. Len(log) < MaxCommits /\ log' = Append(log, Foreign(Len(log)))
        BY <2>2 DEF MoveHead, SetPin, Push, vars
      <3>2. Foreign(Len(log)) \in LogEntries /\ Foreign(Len(log)).by = NULL
        BY <1>0, GateAssumption DEF Foreign, LogEntries, Commits
      <3> QED BY <1>1, <3>1, <3>2, LogGrows
    <2> QED BY <2>1, <2>2
  <1>5. TypeOK'
    BY <1>0, <1>1, <1>2, <1>3, <1>4 DEF TypeOK
  <1> QED
    BY <1>1, <1>4, <1>5 DEF GateInv, InForce, OfOneTree, RevokedStaysRevoked

\* GateInv is inductive: whatever runs, brokers, editors, pushers and the owner
\* of the pin do, in whatever order.
LEMMA StepInv == GateInv /\ [Next]_vars => GateInv'
  <1> SUFFICES ASSUME GateInv, [Next]_vars PROVE GateInv'
      OBVIOUS
  <1>1. ASSUME NEW r \in Runs, TestGates(r) PROVE GateInv'
    BY <1>1, ReadingSteps, DecidingSteps DEF TestGates
  <1>2. ASSUME NEW b \in Brokers, BrokerCommit(b) PROVE GateInv'
    BY <1>2, BrokerSteps
  <1>3. ASSUME NEW t \in Trees, Edit(t) PROVE GateInv'
    BY <1>3, EditStep
  <1>4. ASSUME ~\E r \in Runs : TestGates(r), ~\E b \in Brokers : BrokerCommit(b),
               ~\E t \in Trees : Edit(t)
        PROVE  GateInv'
    BY <1>4, OtherSteps DEF Next
  <1> QED BY <1>1, <1>2, <1>3, <1>4

\* The inductive invariant holds in every behaviour.
LEMMA GateInvariant == Spec => []GateInv
  BY InitInv, StepInv, PTL DEF Spec

\* GateCommit is type correct: every receipt, local variable and commit has its
\* shape in every reachable state.
THEOREM GateTypeCorrect == Spec => []TypeOK
  <1>1. GateInv => TypeOK
    BY DEF GateInv
  <1> QED BY <1>1, GateInvariant, PTL

\* Every receipt that test-gates seals or reuses is of the one tree its suite
\* read, unless the inventoried bytes left and came back during the run.
THEOREM SealsTestedBytes == Spec => []SealedBytesWereTested
  <1>1. ASSUME GateInv PROVE SealedBytesWereTested
    BY <1>1 DEF GateInv, InForce, SealedBytesWereTested
  <1> QED BY <1>1, GateInvariant, PTL

\* What the broker commits was tested as it stands and was accepted under the
\* policy revision of the committed bytes.
THEOREM CommitsUnderPolicy == Spec => []CommittedUnderItsPolicy
  <1>1. ASSUME GateInv PROVE CommittedUnderItsPolicy
    BY <1>1 DEF GateInv, CommitInv, InForce, OfOneTree, Accepted,
       CommittedUnderItsPolicy
  <1> QED BY <1>1, GateInvariant, PTL

\* A receipt that binds a parent authorizes at most one commit of the broker,
\* directly on that parent.
THEOREM LandsOnce == Spec => []ReceiptLandsOnce
  <1>1. ASSUME GateInv PROVE ReceiptLandsOnce
    <2> SUFFICES ASSUME NEW i \in 1 .. Len(log), log[i].by # NULL,
                        log[i].by.parent # 0
                 PROVE  /\ log[i].by.parent = i - 1
                        /\ \A j \in 1 .. Len(log) :
                             log[j].by # NULL /\ log[j].by.run = log[i].by.run => j = i
      BY DEF ReceiptLandsOnce
    <2>1. log[i].by.parent = i - 1 /\ run[log[i].by.run].cert = log[i].by
      BY <1>1 DEF GateInv, CommitInv, InForce
    <2>2. ASSUME NEW j \in 1 .. Len(log), log[j].by # NULL,
                 log[j].by.run = log[i].by.run
          PROVE  j = i
      <3>1. run[log[j].by.run].cert = log[j].by
        BY <1>1, <2>2 DEF GateInv, CommitInv, InForce
      <3>2. log[j].by = log[i].by
        BY <2>1, <2>2, <3>1
      <3>3. log[j].by.parent = j - 1
        BY <1>1, <2>2, <3>2 DEF GateInv, CommitInv
      <3> QED BY <2>1, <3>2, <3>3
    <2> QED BY <2>1, <2>2
  <1> QED BY <1>1, GateInvariant, PTL

\* A receipt that a blocked run revoked never comes back to receipt.json.
THEOREM RevocationHolds == Spec => []RevokedStaysRevoked
  <1>1. GateInv => RevokedStaysRevoked
    BY DEF GateInv
  <1> QED BY <1>1, GateInvariant, PTL


----------------------------------------------------------------------------
(* Reseal: what a full or re-sealed receipt vouches for.                   *)

\* A directory and a job have their files and fields, whatever is in them.
IsDir(d) == d = [x \in {"receipt", "record", "execution", "evidence", "kept", "hops"} |-> d[x]]
IsJob(j) == j = [x \in {"phase", "scope", "files", "covered", "parent", "kind", "carried",
                        "evidence", "envelopes", "staged", "user"} |-> j[x]]

\* The receipt of a directory is of some run, its record of a full one.
Standing(d) ==
    /\ IsDir(d)
    /\ d.receipt = Absent \/ \E n \in DOMAIN runs : d.receipt = <<n>>
    /\ d.record = Absent \/ \E n \in DOMAIN runs : d.record = <<n>> /\ runs[n].scope = "full"

\* What a run did not execute itself is proven for its tree.
Vouches(scope, files, t) ==
    /\ scope = "full" => files = Files
    /\ scope = "reseal" => \A f \in Files \ files : Proven(f, t)

JobInv ==
    /\ IsJob(job) /\ job.phase \in {"running", "executed", "graded"}
    /\ Vouches(job.scope, job.files, tree)
    /\ job.phase # "running" => runs # << >> /\ runs[Me].scope = job.scope
    /\ Standing(job.user)

ResealInv ==
    /\ runs \in Seq(RangeOf(runs))
    /\ \A s \in DOMAIN runs : Vouches(runs[s].scope, runs[s].ran, runs[s].tree)
    /\ Standing(dir)
    /\ job = NoJob \/ JobInv

\* A passing run of f on the same bytes stays one when runs are added.
LEMMA SameForTransitive ==
  ASSUME NEW f, NEW t, NEW u, NEW v, SameFor(f, t, u), SameFor(f, u, v)
  PROVE  SameFor(f, t, v)
  BY DEF SameFor

\* A run that ends leaves the runs before it as they are.
LEMMA MoreRuns ==
  ASSUME runs \in Seq(RangeOf(runs)), NEW r, runs' = Append(runs, r)
  PROVE  /\ runs' \in Seq(RangeOf(runs'))
         /\ DOMAIN runs' = DOMAIN runs \cup {Len(runs) + 1} /\ Len(runs') = Len(runs) + 1
         /\ Len(runs) \in Nat /\ runs'[Len(runs')] = r /\ runs' # << >>
         /\ \A s \in DOMAIN runs : runs'[s] = runs[s]
         /\ \A f, t : Proven(f, t) => Proven(f, t)'
  <1>1. /\ runs' \in Seq(RangeOf(runs) \cup {r}) /\ Len(runs) \in Nat
        /\ DOMAIN runs = 1..Len(runs) /\ Len(runs') = Len(runs) + 1
        /\ DOMAIN runs' = 1..Len(runs')
        /\ \A s \in 1..Len(runs) : runs'[s] = runs[s]
        /\ runs'[Len(runs) + 1] = r
    BY AppendProperties, SeqMonotonic, LenProperties
  <1>2. runs' \in Seq(RangeOf(runs'))
    BY <1>1, SeqOfRange DEF RangeOf, Range
  <1>3. DOMAIN runs' = DOMAIN runs \cup {Len(runs) + 1} /\ runs' # << >>
    BY <1>1
  <1>4. ASSUME NEW f, NEW t, Proven(f, t) PROVE Proven(f, t)'
    BY <1>1, <1>3, <1>4 DEF Proven, SameFor
  <1> QED BY <1>1, <1>2, <1>3, <1>4

\* What the affected files of a tree leave out runs as it did.
LEMMA UnaffectedSame ==
  ASSUME NEW p, NEW c, Eligible(p, c), NEW f \in Files \ Affected(p, c)
  PROVE  SameFor(f, p, c)
  BY DEF Eligible, Affected, Changed, SameFor, Paths

\* The parent of a re-seal is a full or re-sealed run of the directory.
LEMMA ParentVouches ==
  ASSUME ResealInv, HasParent(dir)
  PROVE  /\ Parent(dir) \in DOMAIN runs
         /\ runs[Parent(dir)].scope \in {"full", "reseal"}
  BY DEF ResealInv, Standing, HasParent, Parent, ParentReceipt, ParentRecord, Exists, Absent

\* A re-seal that starts leaves only files out that are proven for the tree.
LEMMA ResealVouches ==
  ASSUME ResealInv, HasParent(dir), Decide(Parent(dir)),
         NEW f \in Files \ Affected(runs[Parent(dir)].tree, tree)
  PROVE  Proven(f, tree)
  <1> DEFINE p == Parent(dir)
  <1>1. p \in DOMAIN runs /\ runs[p].scope \in {"full", "reseal"}
    BY ParentVouches
  <1>2. Vouches(runs[p].scope, runs[p].ran, runs[p].tree)
    BY <1>1 DEF ResealInv
  <1>3. SameFor(f, runs[p].tree, tree)
    BY UnaffectedSame DEF Decide
  <1>4. CASE f \in runs[p].ran
    <2>1. f \in runs[p].passed
      BY <1>4 DEF Decide
    <2> QED BY <1>1, <1>3, <2>1 DEF Proven
  <1>5. CASE f \notin runs[p].ran
    <2>1. Proven(f, runs[p].tree)
      BY <1>1, <1>2, <1>5 DEF Vouches
    <2> QED BY <1>3, <2>1, SameForTransitive DEF Proven
  <1> QED BY <1>4, <1>5

\* A job that starts has the fields of one.
LEMMA JobShape ==
  ASSUME NEW scope, NEW files, NEW covered, NEW staged, NEW d
  PROVE  LET j == Job(scope, files, covered, staged, d)
         IN /\ IsJob(j) /\ j.phase = "running" /\ j.scope = scope /\ j.files = files
            /\ j.user = d
  BY DEF Job, IsJob

\* The directory that a run leaves behind is one of its runs.
LEMMA EndIssued ==
  ASSUME ResealInv, job # NoJob, NEW d, NEW unfinished, Standing(d), End(d, unfinished)
  PROVE  ResealInv'
  <1>1. UNCHANGED <<tree, runs>> /\ job' = NoJob
    BY DEF End
  <1>2. Standing(job.user)
    BY DEF ResealInv, JobInv
  <1>3. Standing(Merged(d, job.user))
    <2> DEFINE m == Merged(d, job.user)
    <2>1. /\ IsDir(m) /\ m.receipt \in {d.receipt, job.user.receipt}
          /\ m.record \in {d.record, job.user.record}
      BY DEF Merged, IsDir, Or
    <2> HIDE DEF m
    <2>2. m.receipt = Absent \/ \E n \in DOMAIN runs : m.receipt = <<n>>
      BY <1>2, <2>1 DEF Standing
    <2>3. m.record = Absent \/ \E n \in DOMAIN runs : m.record = <<n>> /\ runs[n].scope = "full"
      <3>1. CASE m.record = d.record
        BY <3>1 DEF Standing
      <3>2. CASE m.record = job.user.record
        BY <1>2, <3>2 DEF Standing
      <3> QED BY <2>1, <3>1, <3>2
    <2> QED BY <2>1, <2>2, <2>3 DEF m, Standing
  <1>4. dir' = d \/ dir' = Merged(d, job.user)
    BY DEF End
  <1>5. Standing(dir')
    BY <1>3, <1>4
  <1> QED BY <1>1, <1>5 DEF ResealInv, Standing, Vouches, Proven, SameFor

\* So is one that sealing has got k steps into.
LEMMA SealedIssued ==
  ASSUME ResealInv, job # NoJob, job.phase = "graded", NEW k
  PROVE  Standing(SealedDir(k))
  <1>1. runs # << >> /\ runs \in Seq(RangeOf(runs)) /\ Standing(dir)
    BY DEF ResealInv, JobInv
  <1>2. Len(runs) \in DOMAIN runs
    BY <1>1
  <1> DEFINE d == SealedDir(k)
  <1>3. IsDir(d) /\ d.receipt = <<Me>> /\ d.record \in {Absent, dir.record}
    BY <1>1 DEF SealedDir, Standing, IsDir
  <1> HIDE DEF d
  <1>4. Standing(d)
    BY <1>1, <1>2, <1>3 DEF Standing, Me
  <1> QED BY <1>4 DEF d

\* A directory with the receipt, record and runs of one that was issued.
LEMMA SameIssued ==
  ASSUME NEW d, NEW e, Standing(d), IsDir(e), e.receipt \in {d.receipt, Absent},
         e.record \in {d.record, Absent}
  PROVE  Standing(e)
  BY DEF Standing

\* Each step of a run keeps what the receipts vouch for.
LEMMA ResealStep == ResealInv /\ [ResealNext]_resealVars => ResealInv'
  <1> SUFFICES ASSUME ResealInv, [ResealNext]_resealVars PROVE ResealInv'
    OBVIOUS
  <1>0. /\ runs \in Seq(RangeOf(runs)) /\ Standing(dir) /\ IsDir(dir)
        /\ \A s \in DOMAIN runs : Vouches(runs[s].scope, runs[s].ran, runs[s].tree)
        /\ job # NoJob => JobInv
    BY DEF ResealInv, Standing
  <1>a. ASSUME UNCHANGED runs, NEW d, Standing(d) PROVE Standing(d)'
    BY <1>a DEF Standing
  <1>b. ASSUME UNCHANGED runs, NEW c, NEW files, NEW t, Vouches(c, files, t)
        PROVE  Vouches(c, files, t)'
    BY <1>b DEF Vouches, Proven, SameFor
  <1>1. ASSUME NEW p \in Paths, NEW c \in Contents, EditTree(p, c)
        PROVE  ResealInv'
    BY <1>0, <1>1, <1>a, <1>b DEF EditTree, Idle, ResealInv, Vouches, Proven, SameFor
  <1>2. ASSUME NEW scope, NEW files, NEW covered, NEW staged, Vouches(scope, files, tree),
               job' = Job(scope, files, covered, staged, dir), UNCHANGED <<tree, runs, dir>>
        PROVE  ResealInv'
    <2>1. /\ IsJob(job') /\ job'.phase = "running" /\ job'.scope = scope
          /\ job'.files = files /\ job'.user = dir
      BY <1>2, JobShape
    <2>2. JobInv'
      BY <1>0, <1>2, <1>a, <1>b, <2>1 DEF JobInv
    <2> QED BY <1>0, <1>2, <1>a, <1>b, <2>2 DEF ResealInv
  <1>3. ASSUME NEW staged \in BOOLEAN, StartFull(staged) PROVE ResealInv'
    BY <1>2, <1>3 DEF StartFull, Vouches
  <1>4. ASSUME NEW files \in Slices, StartChanged(files) PROVE ResealInv'
    BY <1>2, <1>4 DEF StartChanged, Vouches
  <1>5. CASE StartRefused
    BY <1>2, <1>5 DEF StartRefused, Vouches
  <1>6. ASSUME NEW staged \in BOOLEAN, NEW k, StartReseal(staged, k) PROVE ResealInv'
    <2> DEFINE p == Parent(dir)
               A == Affected(runs[p].tree, tree)
    <2>1. UNCHANGED <<tree, runs>> /\ HasParent(dir) /\ Decide(p) /\ job = NoJob
      BY <1>6 DEF StartReseal, ResealDecided, Idle
    <2>2. \E hops : dir' = [dir EXCEPT !.hops = hops]
      BY <1>6 DEF StartReseal
    <2>3. Standing(dir')
      <3>1. PICK hops : dir' = [dir EXCEPT !.hops = hops]
        BY <2>2
      <3>2. IsDir(dir') /\ dir'.receipt = dir.receipt /\ dir'.record = dir.record
        BY <1>0, <3>1 DEF IsDir
      <3> QED BY <1>0, <3>2, SameIssued
    <2>4. CASE job' = job
      BY <1>0, <1>a, <1>b, <2>1, <2>3, <2>4 DEF ResealInv
    <2>5. CASE job' # job
      <3> DEFINE carried == Carried(dir, p, A)
                 from == RangeOf(Contributors(dir, p))
                 ev == {r \in dir.kept[1].evidence : r.run \in from /\ r.file \in carried.files}
                 j == Job("reseal", A, Files, staged, dir)
      <3>1. job' = [j EXCEPT
                      !.parent = p, !.carried = carried.count,
                      !.kind = IF ParentReceipt(dir) THEN "receipt" ELSE "record",
                      !.evidence = ev, !.envelopes = Contributors(dir, p)]
        BY <1>6, <2>5 DEF StartReseal
      <3> HIDE DEF carried, ev
      <3>2. /\ IsJob(job') /\ job'.phase = "running" /\ job'.scope = "reseal"
            /\ job'.files = A /\ job'.user = dir
        <4>1. /\ IsJob(j) /\ j.phase = "running" /\ j.scope = "reseal"
              /\ j.files = A /\ j.user = dir
          BY JobShape
        <4> HIDE DEF j, A
        <4> QED BY <3>1, <4>1 DEF IsJob
      <3>3. Vouches("reseal", A, tree)
        BY <2>1, ResealVouches DEF Vouches
      <3>4. JobInv'
        BY <1>0, <1>a, <1>b, <2>1, <3>2, <3>3 DEF JobInv
      <3> QED BY <1>0, <1>a, <1>b, <2>1, <2>3, <3>4 DEF ResealInv
    <2> QED BY <2>4, <2>5
  <1>7. ASSUME NEW passed \in SUBSET Files, Execute(passed) PROVE ResealInv'
    <2>1. JobInv
      BY <1>0, <1>7 DEF Execute, NoJob
    <2>2. /\ tree' = tree /\ job' = [job EXCEPT !.phase = "executed"]
          /\ dir' = [dir EXCEPT !.evidence = Ledger(passed)]
      BY <1>7 DEF Execute
    <2>3. \E r : /\ runs' = Append(runs, r) /\ r.scope = job.scope /\ r.tree = tree
                 /\ r.ran = job.files
      BY <1>7 DEF Execute
    <2>4. PICK r : /\ runs' = Append(runs, r) /\ r.scope = job.scope /\ r.tree = tree
                   /\ r.ran = job.files
      BY <2>3
    <2>5. /\ runs' \in Seq(RangeOf(runs')) /\ Len(runs') = Len(runs) + 1
          /\ DOMAIN runs' = DOMAIN runs \cup {Len(runs) + 1}
          /\ runs'[Len(runs')] = r /\ runs' # << >>
          /\ \A s \in DOMAIN runs : runs'[s] = runs[s]
          /\ \A f, t : Proven(f, t) => Proven(f, t)'
      BY <1>0, <2>4, MoreRuns
    <2>6. ASSUME NEW d, Standing(d) PROVE Standing(d)'
      BY <2>5, <2>6 DEF Standing
    <2>7. ASSUME NEW c, NEW files, NEW t, Vouches(c, files, t) PROVE Vouches(c, files, t)'
      BY <2>5, <2>7 DEF Vouches
    <2>8. (\A s \in DOMAIN runs : Vouches(runs[s].scope, runs[s].ran, runs[s].tree))'
      <3>1. Vouches(r.scope, r.ran, r.tree)'
        <4>1. Vouches(r.scope, r.ran, r.tree)
          BY <2>1, <2>4 DEF JobInv
        <4> QED BY <2>7, <4>1
      <3> QED BY <1>0, <2>5, <2>7, <3>1
    <2>9. Standing(dir')
      <3>1. IsDir(dir') /\ dir'.receipt = dir.receipt /\ dir'.record = dir.record
        BY <1>0, <2>2 DEF IsDir
      <3> QED BY <1>0, <3>1, SameIssued
    <2>10. /\ IsJob(job') /\ job'.phase = "executed" /\ job'.scope = job.scope
           /\ job'.files = job.files /\ job'.user = job.user
      BY <2>1, <2>2 DEF JobInv, IsJob
    <2>11. JobInv'
      <3>1. Vouches(job.scope, job.files, tree)'
        BY <2>1, <2>2, <2>7, <2>10 DEF JobInv
      <3>2. Standing(job.user)'
        BY <2>1, <2>6, <2>10 DEF JobInv
      <3>3. runs'[Len(runs')].scope = job'.scope
        BY <2>4, <2>5, <2>10
      <3> QED BY <2>5, <2>10, <3>1, <3>2, <3>3 DEF JobInv, Me
    <2> QED BY <2>5, <2>6, <2>8, <2>9, <2>11 DEF ResealInv
  <1>8. CASE Record
    <2>1. JobInv /\ UNCHANGED <<tree, runs>>
      BY <1>0, <1>8 DEF Record, NoJob
    <2>2. IsDir(dir') /\ dir'.receipt = dir.receipt /\ dir'.record = dir.record
      BY <1>0, <1>8 DEF Record, IsDir
    <2>3. Standing(dir')
      BY <1>0, <2>2, SameIssued
    <2>4. /\ IsJob(job') /\ job'.phase = "graded" /\ job'.scope = job.scope
          /\ job'.files = job.files /\ job'.user = job.user
      BY <1>8, <2>1 DEF Record, JobInv, IsJob
    <2>5. runs # << >> /\ runs[Me].scope = job.scope
      BY <1>8, <2>1 DEF JobInv, Record
    <2>6. JobInv'
      BY <1>a, <1>b, <2>1, <2>4, <2>5 DEF JobInv, Me
    <2> QED BY <1>0, <1>a, <1>b, <2>1, <2>3, <2>6 DEF ResealInv
  <1>9. CASE SealRun
    <2>1. job # NoJob /\ job.phase = "graded"
      BY <1>9 DEF SealRun, NoJob
    <2> QED BY <1>9, <2>1, SealedIssued, EndIssued DEF SealRun
  <1>10. ASSUME NEW soft \in BOOLEAN, Fail(soft) PROVE ResealInv'
    <2>1. job # NoJob /\ JobInv /\ runs # << >> /\ runs[Me].scope = job.scope
      BY <1>0, <1>10 DEF Fail, NoJob, JobInv
    <2> DEFINE d == IF soft THEN dir
                    ELSE [dir EXCEPT !.receipt = Absent, !.hops = NoHops, !.kept = Absent]
               e == [d EXCEPT !.record = <<Me>>,
                              !.kept = <<[evidence |-> dir.evidence, envelope |-> Me]>>]
    <2>2. IsDir(d) /\ d.receipt \in {dir.receipt, Absent} /\ d.record = dir.record
      BY <1>0 DEF IsDir
    <2>3. Standing(d)
      BY <1>0, <2>2, SameIssued
    <2>4. IsDir(e) /\ e.receipt = d.receipt /\ e.record = <<Me>>
      BY <2>2 DEF IsDir
    <2>5. Me \in DOMAIN runs
      BY <1>0, <2>1 DEF Me
    <2>6. End(IF job.scope # "full" THEN d ELSE e, TRUE)
      BY <1>10 DEF Fail
    <2> HIDE DEF d, e
    <2>7. job.scope = "full" => Standing(e)
      BY <2>1, <2>3, <2>4, <2>5 DEF Standing
    <2> QED BY <2>1, <2>3, <2>6, <2>7, EndIssued
  <1>11. CASE Die
    BY <1>0, <1>11, <1>a, <1>b DEF Die, ResealInv
  <1>12. ASSUME NEW k \in 1..8, DieSealing(k) PROVE ResealInv'
    <2>1. /\ job # NoJob /\ job.phase = "graded" /\ UNCHANGED <<tree, runs>>
          /\ dir' = SealedDir(k) /\ job' = NoJob
      BY <1>12 DEF DieSealing, NoJob
    <2>2. Standing(dir')
      BY <2>1, SealedIssued
    <2> QED BY <1>0, <1>a, <1>b, <2>1, <2>2 DEF ResealInv
  <1>13. CASE UNCHANGED resealVars
    BY <1>0, <1>13, <1>a, <1>b DEF resealVars, ResealInv, JobInv, Me
  <1> QED
    BY <1>1, <1>3, <1>4, <1>5, <1>6, <1>7, <1>8, <1>9, <1>10, <1>11, <1>12, <1>13
    DEF ResealNext

\* Before the first run there is nothing to vouch for.
LEMMA ResealFirst == ResealInit => ResealInv
  <1> SUFFICES ASSUME ResealInit PROVE ResealInv
    OBVIOUS
  <1>1. runs \in Seq(RangeOf(runs)) /\ DOMAIN runs = {}
    BY DEF ResealInit, RangeOf
  <1>2. IsDir(dir) /\ dir.receipt = Absent /\ dir.record = Absent
    BY DEF ResealInit, EmptyDir, IsDir
  <1> QED BY <1>1, <1>2 DEF ResealInit, ResealInv, Standing

\* The run of the receipt is recorded, and proven for all it did not run itself.
LEMMA ReceiptVouches ==
  ASSUME ResealInv, Exists(dir.receipt), OfPassing(dir.receipt[1]),
         runs[dir.receipt[1]].scope \in {"full", "reseal"}, NEW f \in Files
  PROVE  Proven(f, runs[dir.receipt[1]].tree)
  <1> DEFINE n == dir.receipt[1]
  <1>1. n \in DOMAIN runs
    BY DEF ResealInv, Standing, Exists
  <1>2. Vouches(runs[n].scope, runs[n].ran, runs[n].tree)
    BY <1>1 DEF ResealInv
  <1>3. CASE f \in runs[n].ran
    BY <1>1, <1>3 DEF OfPassing, Proven, SameFor
  <1>4. CASE f \notin runs[n].ran
    BY <1>2, <1>4 DEF Vouches
  <1> QED BY <1>3, <1>4

\* A full or re-sealed receipt of a run whose tests passed stands on a passing
\* run of every test file with the bytes it seals.
THEOREM ReceiptsAreProven == ResealSpec => []SealedIsProven
  <1>1. ResealInv => SealedIsProven
    BY ReceiptVouches DEF SealedIsProven
  <1> QED BY <1>1, ResealFirst, ResealStep, PTL DEF ResealSpec

\* What the consumer accepts as a re-sealed receipt (resealChainBlocking) stands
\* on a passing run of every test file with the bytes of the tree it is asked
\* about: that the receipt is of passing tests is then not presumed but read off
\* the first hop, whatever a crash or a restored copy left in the directory.
AcceptedIsProven ==
    \A t : (Accepts(t) /\ runs[dir.receipt[1]].scope = "reseal") =>
              \A f \in Files : Proven(f, t)

\* The consumer's walk cannot be led to accept a tree that was not tested.
THEOREM AcceptedReceiptsAreProven == ResealSpec => []AcceptedIsProven
  <1>1. ASSUME ResealInv, NEW t, Accepts(t), runs[dir.receipt[1]].scope = "reseal",
               NEW f \in Files
        PROVE  Proven(f, t)
    <2> DEFINE r == dir.receipt[1]
               chain == ReadChain(dir.hops)
    <2>1. Exists(dir.receipt) /\ runs[r].tree = t /\ Recomputes(r)
      BY <1>1 DEF Accepts
    <2>2. Len(chain) \in 1..MaxHops /\ \A i \in 1..Len(chain) : HopRecomputes(r, chain, i)
      BY <2>1 DEF Recomputes
    <2>3. HopRecomputes(r, chain, 1)
      <3> HIDE DEF r, chain
      <3> QED BY <2>2, ResealAssumption
    <2>4. OfPassing(r)
      BY <2>3 DEF HopRecomputes, Child, OfPassing
    <2> QED BY <1>1, <2>1, <2>4, ReceiptVouches
  <1>2. ResealInv => AcceptedIsProven
    BY <1>1 DEF AcceptedIsProven
  <1> QED BY <1>2, ResealFirst, ResealStep, PTL DEF ResealSpec

----------------------------------------------------------------------------
(* Reseal: what the gate re-seals, its consumer recomputes.                *)

\* The files of a chain, and whether there is one.
IsHops(h) == h = [i \in Positions |-> [m \in DOMAIN NoHop |-> h[i][m]]]
HasHops(d) == \E i \in Positions, m \in DOMAIN NoHop : Exists(d.hops[i][m])

\* A re-sealed receipt is never without a chain, whole or not.
ChainKept(d) ==
    /\ IsHops(d.hops)
    /\ d.receipt # Absent /\ runs[d.receipt[1]].scope = "reseal" => HasHops(d)

\* Run c was rightly re-sealed from run d, as far as one hop can tell.
Descends(c, d) ==
    /\ runs[c].scope = "reseal" /\ runs[c].parent = d
    /\ Eligible(runs[d].tree, runs[c].tree)
    /\ runs[c].ran = Affected(runs[d].tree, runs[c].tree)
    /\ runs[d].ran \ runs[c].ran \subseteq runs[d].passed

\* h has every file of the hop from c to its parent d.
HopOf(h, d, c) ==
    /\ h.execution = <<d>> /\ h.catalog = <<CatalogOf(runs[c].tree)>>
    /\ Exists(h.evidence) /\ Exists(h.envelopes) /\ h.envelopes[1][1] = d
    /\ \/ runs[c].kind = "receipt" /\ h.receipt = <<d>> /\ h.record = Absent
       \/ /\ runs[c].kind = "record" /\ h.receipt = <<0>> /\ h.record = <<d>>
          /\ runs[d].scope = "full"
    /\ Descends(c, d)

\* The hops after the s-th lead from run docs[0] to the full run docs[n].
Links(docs, n, hops, s) ==
    /\ docs \in [0..n -> DOMAIN runs]
    /\ \A i \in 1..n : HopOf(hops[i + s], docs[i], docs[i - 1]) /\ docs[i] < docs[0]
    /\ runs[docs[n]].scope = "full"
    /\ \A i \in Positions : i > n + s => hops[i] = NoHop

----------------------------------------------------------------------------
(* The operators on the chain.                                             *)

\* Max is the number that no other of the set exceeds.
LEMMA LargestIs ==
  ASSUME NEW S, S \subseteq Nat, NEW n \in S, \A m \in S : m <= n
  PROVE  Max(S) = n
  <1> DEFINE M == Max(S)
  <1>1. \E x \in S : \A y \in S : x >= y
    OBVIOUS
  <1>2. M \in S /\ \A y \in S : M >= y
    BY <1>1 DEF Max
  <1> HIDE DEF M
  <1>3. M = n
    BY <1>2
  <1> QED BY <1>3 DEF M

\* A hop has six files, and none of them at first.
LEMMA HopMembers ==
  /\ DOMAIN NoHop = {"receipt", "record", "execution", "catalog", "evidence", "envelopes"}
  /\ \A m \in DOMAIN NoHop : NoHop[m] = Absent
  /\ \A m \in DOMAIN NoHop : \E j \in 1..6 : Members[j] = m
  <1>1. DOMAIN NoHop = {Members[i] : i \in 1..6} /\ \A m \in DOMAIN NoHop : NoHop[m] = Absent
    BY DEF NoHop
  <1>2. /\ Members[1] = "receipt" /\ Members[2] = "record" /\ Members[3] = "execution"
        /\ Members[4] = "catalog" /\ Members[5] = "evidence" /\ Members[6] = "envelopes"
    BY DEF Members
  <1>3. 1..6 = {1, 2, 3, 4, 5, 6}
    OBVIOUS
  <1> QED BY <1>1, <1>2, <1>3

\* The number of hops of a chain without gaps.
LEMMA HopsCounted ==
  ASSUME NEW hops, NEW n \in 0..MaxHops,
         \A i \in 1..n : Exists(hops[i].receipt) \/ Exists(hops[i].record),
         \A i \in Positions : i > n => hops[i] = NoHop
  PROVE  HopCount(hops) = n
  <1> DEFINE S == {m \in 0..MaxHops + 1 :
                     \A i \in 1..m : Exists(hops[i].receipt) \/ Exists(hops[i].record)}
  <1>1. MaxHops \in Nat /\ n \in S /\ S \subseteq Nat
    BY ResealAssumption
  <1>2. ASSUME NEW m \in S, m > n PROVE FALSE
    <2>1. n + 1 \in 1..m /\ n + 1 \in Positions
      BY <1>1, <1>2 DEF Positions
    <2>2. Exists(hops[n + 1].receipt) \/ Exists(hops[n + 1].record)
      BY <1>2, <2>1
    <2>3. hops[n + 1] = NoHop
      BY <2>1
    <2> QED BY <2>2, <2>3, HopMembers DEF Exists
  <1>3. \A m \in S : m <= n
    BY <1>1, <1>2
  <1>4. Max(S) = n
    <2> HIDE DEF S
    <2> QED BY <1>1, <1>3, LargestIs
  <1> QED BY <1>4 DEF HopCount

\* All renames of the shift done, a hop lies where the one before it lay.
LEMMA AllMoved ==
  ASSUME NEW hops, NEW k \in Nat, HopCount(hops) \in 0..MaxHops, k >= HopCount(hops) * 6
  PROVE  \A i \in Positions : \A m \in DOMAIN NoHop :
           Shifted(hops, k)[i][m] =
             IF i \in 2..HopCount(hops) + 1 /\ Exists(hops[i - 1][m]) THEN hops[i - 1][m]
             ELSE IF i \in 1..HopCount(hops) THEN Absent ELSE hops[i][m]
  <1> TAKE i \in Positions
  <1> TAKE m \in DOMAIN NoHop
  <1> DEFINE n == HopCount(hops)
             j == CHOOSE x \in 1..6 : Members[x] = m
             Moved(a) == a \in 1..n /\ (n - a) * 6 + j <= k
  <1>1. j \in 1..6
    BY HopMembers
  <1>2. n \in Nat /\ i \in Nat /\ i >= 1
    BY ResealAssumption DEF Positions
  <1>3. Shifted(hops, k)[i][m] =
          IF i > 1 /\ Moved(i - 1) /\ Exists(hops[i - 1][m]) THEN hops[i - 1][m]
          ELSE IF Moved(i) THEN Absent ELSE hops[i][m]
    BY DEF Shifted
  <1> HIDE DEF j, n
  <1>4. k >= n * 6
    BY DEF n
  <1>5. \A a \in Nat : a \in 1..n => (n - a) * 6 + j <= k
    BY <1>1, <1>2, <1>4
  <1>6. Moved(i) <=> i \in 1..n
    BY <1>2, <1>5
  <1>7. i > 1 /\ Moved(i - 1) <=> i \in 2..n + 1
    <2>1. i > 1 => i - 1 \in Nat /\ (i - 1 \in 1..n <=> i \in 2..n + 1)
      BY <1>2
    <2>2. i - 1 \in Nat => (Moved(i - 1) <=> i - 1 \in 1..n)
      BY <1>5
    <2>3. i \in 2..n + 1 => i > 1
      BY <1>2
    <2> QED BY <2>1, <2>2, <2>3
  <1> QED BY <1>3, <1>6, <1>7 DEF n

\* What the start of a re-seal makes of a chain without gaps.
LEMMA OpenedMoves ==
  ASSUME NEW hops, IsHops(hops), NEW n \in 0..MaxHops, NEW e, NEW v,
         \A i \in 1..n : Exists(hops[i].receipt) \/ Exists(hops[i].record),
         \A i \in Positions : i > n => hops[i] = NoHop
  PROVE  LET new == Opened(hops, e, v, OpenSteps(hops))
         IN /\ new[1].evidence = <<e>> /\ new[1].envelopes = <<v>>
            /\ \A i \in Positions : i > 1 => new[i] = hops[i - 1]
  <1> DEFINE k == OpenSteps(hops)
             s == Shifted(hops, k)
             new == Opened(hops, e, v, k)
  <1>1. HopCount(hops) = n /\ MaxHops \in Nat
    BY HopsCounted, ResealAssumption
  <1>2. k \in Nat /\ k = n * 6 + 2
    BY <1>1 DEF OpenSteps
  <1>3. new = [s EXCEPT ![1].evidence = <<e>>, ![1].envelopes = <<v>>]
    BY <1>1, <1>2 DEF Opened
  <1>4. s = [i \in Positions |-> [m \in DOMAIN NoHop |-> s[i][m]]]
    BY DEF Shifted
  <1>5. \A i \in Positions : \A m \in DOMAIN NoHop :
          s[i][m] = IF i \in 2..n + 1 /\ Exists(hops[i - 1][m]) THEN hops[i - 1][m]
                    ELSE IF i \in 1..n THEN Absent ELSE hops[i][m]
    BY <1>1, <1>2, AllMoved
  <1> HIDE DEF s, k
  <1>6. 1 \in Positions
    BY <1>1 DEF Positions
  <1>7. new[1].evidence = <<e>> /\ new[1].envelopes = <<v>>
    <2> DEFINE once == [s EXCEPT ![1].evidence = <<e>>]
    <2>1. DOMAIN s = Positions /\ DOMAIN s[1] = DOMAIN NoHop
      <3>1. DOMAIN s = Positions
        BY <1>4
      <3>2. s[1] = [m \in DOMAIN NoHop |-> s[1][m]]
        BY <1>4, <1>6
      <3> QED BY <3>1, <3>2
    <2>2. once = [s EXCEPT ![1] = [s[1] EXCEPT !.evidence = <<e>>]]
      OBVIOUS
    <2>3. new = [once EXCEPT ![1] = [once[1] EXCEPT !.envelopes = <<v>>]]
      BY <1>3
    <2>4. once[1] = [s[1] EXCEPT !.evidence = <<e>>] /\ DOMAIN once = Positions
      BY <1>6, <2>1, <2>2
    <2> HIDE DEF once, new
    <2>5. new[1] = [once[1] EXCEPT !.envelopes = <<v>>]
      BY <1>6, <2>3, <2>4
    <2>6. {"evidence", "envelopes"} \subseteq DOMAIN s[1]
      BY <2>1, HopMembers
    <2> QED BY <2>4, <2>5, <2>6
  <1>8. ASSUME NEW i \in Positions, i > 1 PROVE new[i] = hops[i - 1]
    <2>1. new[i] = s[i]
      BY <1>3, <1>4, <1>8
    <2>2. i - 1 \in Positions /\ i - 1 \in Nat
      BY <1>1, <1>8 DEF Positions
    <2>3. \A m \in DOMAIN NoHop : s[i][m] = hops[i - 1][m]
      <3>1. CASE i \in 2..n + 1
        <4>1. CASE i \in 1..n
          BY <1>5, <1>8, <3>1, <4>1 DEF Exists
        <4>2. CASE i = n + 1
          <5>1. hops[i] = NoHop
            BY <1>1, <4>2
          <5> QED BY <1>5, <1>8, <3>1, <5>1, HopMembers DEF Exists
        <4> QED BY <1>1, <3>1, <4>1, <4>2
      <3>2. CASE i > n + 1
        <4>1. i > n /\ i - 1 > n
          BY <1>1, <3>2 DEF Positions
        <4>2. hops[i] = NoHop /\ hops[i - 1] = NoHop
          BY <2>2, <4>1
        <4> QED BY <1>1, <1>5, <3>2, <4>1, <4>2
      <3> QED BY <1>1, <1>8, <3>1, <3>2 DEF Positions
    <2>4. s[i] = [m \in DOMAIN NoHop |-> hops[i - 1][m]]
      BY <1>4, <2>3
    <2>5. hops[i - 1] = [m \in DOMAIN NoHop |-> hops[i - 1][m]]
      BY <2>2 DEF IsHops
    <2> QED BY <2>1, <2>4, <2>5
  <1> QED BY <1>7, <1>8 DEF k

\* Every set of numbers that is not empty and has a bound has a largest one.
LEMMA LargestNumber ==
  ASSUME NEW b \in Nat, NEW S, S \subseteq 0..b, S # {}
  PROVE  Max(S) \in S
  <1> DEFINE T == {b - m : m \in S}
             Less == OpToRel(<, Nat)
  <1>1. IsWellFoundedOn(Less, Nat)
    BY NatLessThanWellFounded, Zenon
  <1> HIDE DEF Less
  <1>2. T \subseteq Nat /\ T # {}
    <2>1. \A m \in S : b - m \in Nat
      OBVIOUS
    <2> QED BY <2>1
  <1> HIDE DEF T
  <1>3. PICK t \in T : \A u \in T : ~(<<u, t>> \in Less)
    BY <1>1, <1>2, WFMin
  <1>4. \A u \in T : ~(u < t)
    BY <1>2, <1>3 DEF Less, OpToRel
  <1>5. PICK n \in S : t = b - n
    BY DEF T
  <1>6. \A m \in S : b - m \in T
    BY DEF T
  <1>7. \A m \in S : m <= n
    BY <1>2, <1>4, <1>5, <1>6
  <1>8. S \subseteq Nat
    OBVIOUS
  <1>9. Max(S) = n
    BY <1>7, <1>8, LargestIs
  <1> QED BY <1>9

\* Whatever the files, their number of hops is one.
LEMMA HopCountNat == ASSUME NEW hops PROVE HopCount(hops) \in 0..MaxHops + 1
  <1> DEFINE S == {n \in 0..MaxHops + 1 :
                     \A i \in 1..n : Exists(hops[i].receipt) \/ Exists(hops[i].record)}
  <1>1. MaxHops + 1 \in Nat /\ 0 \in S /\ S \subseteq 0..MaxHops + 1
    BY ResealAssumption
  <1> HIDE DEF S
  <1>2. Max(S) \in S
    BY <1>1, LargestNumber
  <1> QED BY <1>1, <1>2 DEF HopCount, S

\* However far the start of a re-seal gets, it loses no last file of a chain.
LEMMA OpenedKeeps ==
  ASSUME NEW hops, IsHops(hops), WithinBound(hops), NEW e, NEW v, NEW k \in Nat
  PROVE  LET new == Opened(hops, e, v, k)
         IN /\ IsHops(new)
            /\ (\E i \in Positions, m \in DOMAIN NoHop : Exists(hops[i][m])) =>
                 \E i \in Positions, m \in DOMAIN NoHop : Exists(new[i][m])
            /\ k = OpenSteps(hops) => Exists(new[1].evidence)
  <1> DEFINE n == HopCount(hops)
             s == Shifted(hops, k)
             new == Opened(hops, e, v, k)
             ev == IF k > n * 6 THEN <<e>> ELSE s[1].evidence
             en == IF k > n * 6 + 1 THEN <<v>> ELSE s[1].envelopes
  <1>1. n \in Nat /\ n < MaxHops /\ MaxHops \in Nat /\ 1 \in Positions
    BY HopCountNat, ResealAssumption DEF WithinBound, Positions
  <1>2. s = [i \in Positions |-> [m \in DOMAIN NoHop |-> s[i][m]]]
    BY DEF Shifted
  <1>3. new = [s EXCEPT ![1].evidence = ev, ![1].envelopes = en]
    BY DEF Opened
  <1>4. ASSUME NEW i \in Positions, NEW m \in DOMAIN NoHop, Exists(hops[i][m])
        PROVE  \E a \in Positions : Exists(s[a][m])
    <2> DEFINE j == CHOOSE x \in 1..6 : Members[x] = m
               Moved(a) == a \in 1..n /\ (n - a) * 6 + j <= k
    <2>1. \A a \in Positions : s[a][m] =
            IF a > 1 /\ Moved(a - 1) /\ Exists(hops[a - 1][m]) THEN hops[a - 1][m]
            ELSE IF Moved(a) THEN Absent ELSE hops[a][m]
      BY DEF Shifted
    <2> HIDE DEF s, j, n
    <2>2. CASE Moved(i)
      <3>1. i + 1 \in Positions /\ i + 1 > 1 /\ (i + 1) - 1 = i
        BY <1>1, <2>2 DEF Positions
      <3>2. s[i + 1][m] = hops[i][m]
        BY <1>4, <2>1, <2>2, <3>1
      <3> QED BY <1>4, <3>1, <3>2
    <2>3. CASE ~Moved(i)
      BY <1>4, <2>1, <2>3 DEF Exists
    <2> QED BY <2>2, <2>3
  <1> HIDE DEF n, s, new
  <1> HIDE DEF ev, en
  <1>a. /\ DOMAIN new = Positions
        /\ \A a \in Positions : a # 1 => new[a] = s[a]
        /\ new[1] = [s[1] EXCEPT !.evidence = ev, !.envelopes = en]
    BY <1>1, <1>2, <1>3
  <1>b. \A a \in Positions : s[a] = [m \in DOMAIN NoHop |-> s[a][m]]
    BY <1>2
  <1>c. /\ DOMAIN new[1] = DOMAIN NoHop /\ new[1].evidence = ev /\ new[1].envelopes = en
        /\ \A m \in DOMAIN NoHop \ {"evidence", "envelopes"} : new[1][m] = s[1][m]
    <2>1. DOMAIN s[1] = DOMAIN NoHop
      BY <1>1, <1>b
    <2> QED BY <1>a, <2>1, HopMembers
  <1>d. /\ Exists(s[1].evidence) => Exists(ev)
        /\ Exists(s[1].envelopes) => Exists(en)
        /\ k > n * 6 => Exists(ev)
    BY DEF ev, en, Exists, Absent
  <1>5. \A a \in Positions : \A m \in DOMAIN NoHop : Exists(s[a][m]) => Exists(new[a][m])
    BY <1>1, <1>a, <1>c, <1>d
  <1>6. IsHops(new)
    <2>1. new[1] = [m \in DOMAIN NoHop |-> new[1][m]]
      <3>1. new[1] = [m \in DOMAIN s[1] |-> new[1][m]]
        BY <1>a
      <3>2. DOMAIN s[1] = DOMAIN NoHop
        BY <1>1, <1>b
      <3> QED BY <3>1, <3>2
    <2>2. \A a \in Positions : new[a] = [m \in DOMAIN NoHop |-> new[a][m]]
      BY <1>a, <1>b, <2>1
    <2>3. new = [a \in Positions |-> new[a]]
      BY <1>3, <1>2
    <2> QED BY <2>2, <2>3 DEF IsHops
  <1>7. k = OpenSteps(hops) => Exists(new[1].evidence)
    BY <1>1, <1>c, <1>d DEF OpenSteps, n
  <1>8. (\E i \in Positions, m \in DOMAIN NoHop : Exists(hops[i][m])) =>
                 \E i \in Positions, m \in DOMAIN NoHop : Exists(new[i][m])
    BY <1>4, <1>5
  <1> QED BY <1>6, <1>7, <1>8 DEF new

\* The consumer and the gate read the hops of a chain that leads to a full run.
LEMMA LinksRead ==
  ASSUME ResealInv, NEW hops, NEW n \in 0..MaxHops, NEW docs, Links(docs, n, hops, 0)
  PROVE  LET chain == ReadChain(hops)
         IN /\ Len(chain) = n /\ DOMAIN chain = 1..n /\ (n = 0 => chain = << >>)
            /\ \A i \in 1..n : /\ chain[i] = hops[i] /\ Doc(chain[i]) = docs[i]
                               /\ Kind(chain[i]) = runs[docs[i - 1]].kind
  <1> DEFINE Read(m) == /\ \A i \in 1..m : Exists(hops[i].record) \/ hops[i].receipt \notin {Absent, <<0>>}
                        /\ \A i \in 1..m - 1 : Exists(hops[i].execution) /\ Exists(hops[i].catalog)
             S == {m \in 0..MaxHops + 1 : Read(m)}
             chain == ReadChain(hops)
  <1>1. MaxHops \in Nat /\ n \in Nat /\ DOMAIN runs \subseteq Nat \ {0}
    BY ResealAssumption DEF ResealInv
  <1>2. ASSUME NEW i \in 1..n
        PROVE  /\ docs[i] \in DOMAIN runs
               /\ Exists(hops[i].record) \/ hops[i].receipt \notin {Absent, <<0>>}
               /\ Exists(hops[i].execution) /\ Exists(hops[i].catalog)
               /\ Doc(hops[i]) = docs[i] /\ Kind(hops[i]) = runs[docs[i - 1]].kind
    <2>1. HopOf(hops[i], docs[i], docs[i - 1]) /\ docs[i] \in DOMAIN runs
      BY <1>1 DEF Links
    <2>2. docs[i] # 0
      BY <1>1, <2>1
    <2> DEFINE h == hops[i]
               d == docs[i]
               c == docs[i - 1]
    <2> HIDE DEF h, d, c
    <2>3. <<d>> # <<0>> /\ <<d>> # Absent /\ <<d>>[1] = d
      BY <2>2 DEF Absent, d
    <2>4. HopOf(h, d, c)
      BY <2>1 DEF h, d, c
    <2>5. CASE runs[c].kind = "receipt" /\ h.receipt = <<d>> /\ h.record = Absent
      <3>1. Doc(h) = d /\ Kind(h) = "receipt"
        BY <2>3, <2>5 DEF Doc, Kind, Exists
      <3> QED BY <2>1, <2>3, <2>4, <2>5, <3>1 DEF HopOf, Exists, Absent, h, d, c
    <2>6. CASE runs[c].kind = "record" /\ h.record = <<d>>
      <3>1. Doc(h) = d /\ Kind(h) = "record" /\ Exists(h.record)
        BY <2>3, <2>6 DEF Doc, Kind, Exists
      <3> QED BY <2>1, <2>4, <2>6, <3>1 DEF HopOf, Exists, Absent, h, d, c
    <2> QED BY <2>4, <2>5, <2>6 DEF HopOf
  <1>3. n \in S
    BY <1>1, <1>2
  <1>4. ASSUME NEW m \in S, m > n PROVE FALSE
    <2>1. n + 1 \in 1..m /\ n + 1 \in Positions /\ n + 1 > n + 0
      BY <1>1, <1>4 DEF Positions
    <2>2. hops[n + 1] = NoHop
      BY <2>1 DEF Links
    <2> QED BY <1>4, <2>1, <2>2, HopMembers DEF Exists
  <1>5. Max(S) = n
    <2>1. S \subseteq Nat /\ \A m \in S : m <= n
      BY <1>1, <1>4
    <2> HIDE DEF S
    <2> QED BY <1>3, <2>1, LargestIs
  <1>6. chain = SubSeq(hops, 1, n)
    BY <1>5 DEF ReadChain
  <1>7. /\ chain \in Seq({hops[i] : i \in 1..n}) /\ Len(chain) = n
        /\ \A i \in 1..n : chain[i] = hops[i]
        /\ n = 0 => chain = << >>
    <2>0. n = 0 => chain = << >>
      BY <1>1, <1>6, SubSeqEmpty
    <2>1. /\ SubSeq(hops, 1, n) \in Seq({hops[i] : i \in 1..n})
          /\ Len(SubSeq(hops, 1, n)) = IF 1 <= n THEN n - 1 + 1 ELSE 0
          /\ \A i \in 1..n - 1 + 1 : SubSeq(hops, 1, n)[i] = hops[1 + i - 1]
      BY <1>1, SubSeqProperties
    <2> QED BY <1>1, <1>6, <2>0, <2>1
  <1> HIDE DEF chain
  <1>8. DOMAIN chain = 1..n
    BY <1>7, LenProperties
  <1> QED BY <1>2, <1>7, <1>8 DEF chain

----------------------------------------------------------------------------
(* What a chain carries.                                                   *)

\* Every set of numbers that is not empty has a least one.
LEMMA LeastOf ==
  ASSUME NEW S, S \subseteq Nat, S # {}
  PROVE  \E n \in S : \A m \in S : n <= m
  <1> DEFINE Less == OpToRel(<, Nat)
  <1>1. IsWellFoundedOn(Less, Nat)
    BY NatLessThanWellFounded, Zenon
  <1> HIDE DEF Less
  <1>2. PICK n \in S : \A m \in S : ~(<<m, n>> \in Less)
    BY <1>1, WFMin
  <1>3. \A m \in S : ~(m < n)
    BY <1>2 DEF Less, OpToRel
  <1> QED BY <1>3

\* What is in one of n sets.
LEMMA InOneOf ==
  ASSUME NEW n, NEW sets
  PROVE  \A x : x \in UNION {sets[i] : i \in 1..n} <=> \E i \in 1..n : x \in sets[i]
  OBVIOUS

\* The outcomes of some files, taken from trees in which they have as many.
LEMMA PartedOutcomes ==
  ASSUME NEW n \in Nat, NEW trees, NEW part, NEW t, NEW S,
         \A f : f \in S <=> \E i \in 1..n : f \in part[i],
         \A i \in 1..n : \A f \in part[i] : trees[i][f].tests = t[f].tests
  PROVE  \A o : (\E i \in 1..n : o \in Outcomes(trees[i], part[i])) <=> o \in Outcomes(t, S)
  <1>1. \A u, P : \A o : o \in Outcomes(u, P) <=> \E f \in P : o \in {f} \X (1..u[f].tests)
    BY DEF Outcomes
  <1>2. \A i \in 1..n : \A o :
          o \in Outcomes(trees[i], part[i]) <=> \E f \in part[i] : o \in {f} \X (1..t[f].tests)
    BY <1>1
  <1> QED BY <1>1, <1>2

\* Runs re-run and affect test files only, and a full run runs them all.
LEMMA RunsOfFiles ==
  ASSUME ResealInv
  PROVE  /\ \A p, c : Affected(p, c) \subseteq Files
         /\ \A r \in DOMAIN runs : runs[r].scope = "full" => runs[r].ran = Files
  <1>1. \A p, c : Affected(p, c) \subseteq Files
    BY ResealAssumption DEF Affected
  <1>2. \A r \in DOMAIN runs : runs[r].scope = "full" => runs[r].ran = Files
    BY DEF ResealInv, Vouches
  <1> QED BY <1>1, <1>2

\* The runs of a chain, and the ones behind its first.
Docs(docs, n) == {docs[i] : i \in 0..n}
Behind(docs, n) == {docs[i] : i \in 1..n}

\* Together the hops of a chain ran every file.
LEMMA LinksRan ==
  ASSUME ResealInv, NEW hops, NEW n \in Nat, NEW docs, NEW s, Links(docs, n, hops, s)
  PROVE  /\ n > 0 => \A f : f \in Files <=> \E i \in 1..n : f \in runs[docs[i]].ran
         /\ \A i \in 0..n : runs[docs[i]].ran \subseteq Files
  <1>1. runs[docs[n]].ran = Files
    BY RunsOfFiles DEF Links
  <1>2. ASSUME NEW i \in 0..n PROVE runs[docs[i]].ran \subseteq Files
    <2>1. CASE i = n
      BY <1>1, <2>1
    <2>2. CASE i # n
      <3>1. i + 1 \in 1..n /\ (i + 1) - 1 = i
        BY <2>2
      <3>2. Descends(docs[i], docs[i + 1])
        BY <3>1 DEF Links, HopOf
      <3> QED BY <3>2, RunsOfFiles DEF Descends
    <2> QED BY <2>1, <2>2
  <1>3. ASSUME n > 0 PROVE \A f : f \in Files <=> \E i \in 1..n : f \in runs[docs[i]].ran
    <2>1. n \in 1..n /\ \A i \in 1..n : runs[docs[i]].ran \subseteq Files
      BY <1>2, <1>3
    <2> QED BY <1>1, <2>1
  <1> QED BY <1>2, <1>3

\* No file but the ones of A has had another number of tests in the runs S,
\* and then the number is that of the outcomes the tree t has for the others.
SameNumbers(S, t, A) == \A d \in S, f \in Files \ A : runs[d].tree[f].tests = t[f].tests
CountOf(number, S, t, A) ==
    SameNumbers(S, t, A) => number = Cardinality(Outcomes(t, Files \ A))

\* The gate carries the evidence and the outcomes of all files it does not run.
LEMMA GateCarries ==
  ASSUME ResealInv, NEW n \in 0..MaxHops, NEW docs, Links(docs, n, dir.hops, 0),
         docs[0] = Parent(dir), NEW A
  PROVE  LET c == Carried(dir, Parent(dir), A)
         IN c.files = Files \ A /\ CountOf(c.count, Docs(docs, n), tree, A)
  <1> DEFINE chain == ReadChain(dir.hops)
             p == Parent(dir)
             c == Carried(dir, p, A)
  <1>1. /\ Len(chain) = n /\ DOMAIN chain = 1..n /\ n \in Nat
        /\ \A i \in 1..n : chain[i] = dir.hops[i]
        /\ n = 0 => chain = << >>
    BY LinksRead, ResealAssumption
  <1>2. \A i \in 1..n : Exists(chain[i].execution) /\ chain[i].execution[1] = docs[i]
    <2>1. \A i \in 1..n : dir.hops[i].execution = <<docs[i]>>
      BY DEF Links, HopOf
    <2> QED BY <1>1, <2>1 DEF Exists, Absent
  <1> HIDE DEF chain
  <1>3. CASE n = 0
    <2>1. chain = << >>
      BY <1>1, <1>3
    <2>2. c = [files |-> runs[p].ran \ A, count |-> Cardinality(Outcomes(tree, runs[p].ran \ A))]
      BY <2>1 DEF Carried, chain
    <2>3. runs[p].ran = Files
      BY <1>3, RunsOfFiles DEF Links
    <2> QED BY <2>2, <2>3 DEF CountOf
  <1>4. CASE n > 0
    <2> DEFINE ran == [i \in 1..n |-> runs[docs[i]].ran]
               trees == [i \in 1..n |-> runs[docs[i]].tree]
               part == [i \in 1..n |-> CarriedByHop(chain, A, i)]
               outcomes == [i \in 1..n |-> Outcomes(trees[i], part[i])]
    <2>1. chain # << >>
      BY <1>1, <1>4
    <2>2. \A i \in 1..n : \A f : f \in part[i] <=>
            f \in ran[i] /\ f \notin A /\ \A j \in 1..i - 1 : f \notin ran[j]
      <3> TAKE i \in 1..n
      <3>1. \A j \in 1..n : runs[chain[j].execution[1]].ran = ran[j]
        BY <1>2
      <3>2. \A j \in 1..i - 1 : runs[chain[j].execution[1]].ran = ran[j]
        BY <1>1, <3>1
      <3>3. part[i] = CarriedByHop(chain, A, i) /\ runs[chain[i].execution[1]].ran = ran[i]
        BY <3>1
      <3> HIDE DEF part, ran
      <3> QED BY <3>2, <3>3 DEF CarriedByHop
    <2>3. \A f : f \in Files \ A <=> \E i \in 1..n : f \in part[i]
      <3>1. \A f : (\E i \in 1..n : f \in part[i]) <=> (\E i \in 1..n : f \in ran[i]) /\ f \notin A
        <4> SUFFICES ASSUME NEW f
                     PROVE  (\E i \in 1..n : f \in part[i]) <=> (\E i \in 1..n : f \in ran[i]) /\ f \notin A
          OBVIOUS
        <4> HIDE DEF part, ran
        <4> DEFINE S == {i \in 1..n : f \in ran[i]}
        <4>1. ASSUME NEW k \in 1..n, f \in ran[k], f \notin A
              PROVE  \E i \in 1..n : f \in part[i]
          <5>1. S \subseteq Nat /\ S # {}
            BY <1>1, <4>1
          <5>2. PICK i \in S : \A m \in S : i <= m
            BY <5>1, LeastOf
          <5>3. i \in 1..n /\ \A j \in 1..i - 1 : f \notin ran[j]
            BY <1>1, <5>2
          <5> QED BY <2>2, <4>1, <5>2, <5>3
        <4> QED BY <2>2, <4>1
      <3>2. \A f : f \in Files <=> \E i \in 1..n : f \in runs[docs[i]].ran
        BY <1>1, <1>4, LinksRan
      <3>3. \A i \in 1..n : ran[i] = runs[docs[i]].ran
        OBVIOUS
      <3> HIDE DEF part, ran
      <3> QED BY <3>1, <3>2, <3>3
    <2>4. c = [files |-> UNION {part[i] : i \in 1..n},
               count |-> Cardinality(UNION {outcomes[i] : i \in 1..n})]
      <3>1. {part[i] : i \in 1..n} = {CarriedByHop(chain, A, i) : i \in 1..n}
        OBVIOUS
      <3>2. {outcomes[i] : i \in 1..n} =
              {Outcomes(runs[chain[i].execution[1]].tree, CarriedByHop(chain, A, i)) : i \in 1..n}
        <4>1. \A i \in 1..n : outcomes[i] =
                Outcomes(runs[chain[i].execution[1]].tree, CarriedByHop(chain, A, i))
          BY <1>2
        <4> HIDE DEF outcomes
        <4> QED BY <4>1
      <3>3. c = ChainCarried(chain, A)
        BY <2>1 DEF Carried, chain
      <3>4. ChainCarried(chain, A) =
              [files |-> UNION {CarriedByHop(chain, A, i) : i \in 1..n},
               count |-> Cardinality(UNION
                 {Outcomes(runs[chain[i].execution[1]].tree, CarriedByHop(chain, A, i)) :
                    i \in 1..n})]
        BY <1>1, <1>2 DEF ChainCarried
      <3> HIDE DEF part, outcomes, c
      <3> QED BY <3>1, <3>2, <3>3, <3>4
    <2>5. ASSUME SameNumbers(Docs(docs, n), tree, A)
          PROVE  UNION {outcomes[i] : i \in 1..n} = Outcomes(tree, Files \ A)
      <3>1. \A i \in 1..n : \A f \in part[i] : trees[i][f].tests = tree[f].tests
        <4>1. \A i \in 1..n : docs[i] \in Docs(docs, n) /\ trees[i] = runs[docs[i]].tree
          BY <1>1 DEF Docs
        <4> HIDE DEF part, trees
        <4> QED BY <2>3, <2>5, <4>1 DEF SameNumbers
      <3>2. \A i \in 1..n : outcomes[i] = Outcomes(trees[i], part[i])
        OBVIOUS
      <3>3. n \in Nat
        BY <1>1
      <3> HIDE DEF part, trees, outcomes
      <3>4. \A o : (\E i \in 1..n : o \in Outcomes(trees[i], part[i]))
                     <=> o \in Outcomes(tree, Files \ A)
        BY <2>3, <3>1, <3>3, PartedOutcomes
      <3>5. \A o : o \in UNION {outcomes[i] : i \in 1..n} <=> o \in Outcomes(tree, Files \ A)
        BY <3>2, <3>4, InOneOf
      <3> QED BY <3>5
    <2>a. UNION {part[i] : i \in 1..n} = Files \ A
      <3> HIDE DEF part
      <3>1. \A f : f \in UNION {part[i] : i \in 1..n} <=> f \in Files \ A
        BY <2>3, InOneOf
      <3> QED BY <3>1
    <2> HIDE DEF part, outcomes, c
    <2>6. c.files = Files \ A /\ c.count = Cardinality(UNION {outcomes[i] : i \in 1..n})
      BY <2>a, <2>4
    <2>7. CountOf(c.count, Docs(docs, n), tree, A)
      BY <2>5, <2>6 DEF CountOf
    <2> QED BY <2>6, <2>7 DEF c
  <1> QED BY <1>1, <1>3, <1>4

----------------------------------------------------------------------------
(* The chain of the directory.                                             *)

\* Evidence of the runs S for files that are not in A.
Carries(ev, S, A) == \A e \in ev : e.run \in S /\ e.file \in Files \ A

\* The receipt of run docs[0] has the evidence that hop 1 retains and its own,
\* and the number of outcomes that it carries.
Sealed(docs, n, hops) ==
    LET r == runs[docs[0]]
        ev == hops[1].evidence[1]
    IN /\ Carries(ev, Behind(docs, n), r.ran)
       /\ ev \subseteq r.evidence /\ \A e \in r.evidence \ ev : e.run = docs[0]
       /\ CountOf(r.carried, Behind(docs, n), r.tree, r.ran)

\* The hops of a directory are the ones of its receipt.
ChainOf(d, n, docs) ==
    /\ d.receipt = <<docs[0]>> /\ ~ParentRecord(d)
    /\ Links(docs, n, d.hops, 0) /\ Sealed(docs, n, d.hops)

Chained(d) ==
    d.hops = NoHops \/ \E n \in 1..MaxHops : \E docs \in [0..n -> DOMAIN runs] : ChainOf(d, n, docs)

\* The receipt of the last run has its execution result and its evidence.
Finished(d) ==
    d.receipt = <<Len(runs)>> =>
      /\ d.execution = d.receipt
      /\ runs[Len(runs)].scope = "reseal" => d.evidence = runs[Len(runs)].evidence

----------------------------------------------------------------------------
(* The consumer's walk.                                                    *)

\* The consumer finds carried what the gate carried.
LEMMA WalkCarries ==
  ASSUME ResealInv, NEW n \in 1..MaxHops, NEW docs, Links(docs, n, dir.hops, 0)
  PROVE  LET chain == ReadChain(dir.hops)
             r == docs[0]
             t == runs[r].tree
             A == runs[r].ran
         IN /\ \A i \in 1..n : Child(r, chain, i) = docs[i - 1]
            /\ \A i \in 1..n : WalkAffected(r, chain, i) = runs[docs[i - 1]].ran
            /\ \A i \in 1..n : \A f \in WalkCarried(r, chain, i) :
                  f \in runs[docs[i]].ran /\ f \notin runs[docs[i - 1]].ran
            /\ UNION {WalkCarried(r, chain, i) : i \in 1..n} = Files \ A
            /\ SameNumbers(Behind(docs, n), t, A) =>
                 UNION {Outcomes(runs[docs[i]].tree, WalkCarried(r, chain, i)) : i \in 1..n}
                   = Outcomes(t, Files \ A)
  <1> DEFINE chain == ReadChain(dir.hops)
             r == docs[0]
             t == runs[r].tree
             A == runs[r].ran
             ran == [i \in 0..n |-> runs[docs[i]].ran]
             trees == [i \in 1..n |-> runs[docs[i]].tree]
             part == [i \in 1..n |-> WalkCarried(r, chain, i)]
             outcomes == [i \in 1..n |-> Outcomes(trees[i], part[i])]
  <1>0. n \in Nat /\ n > 0 /\ MaxHops \in Nat /\ n \in 0..MaxHops
    BY ResealAssumption
  <1>1. \A i \in 1..n : chain[i] = dir.hops[i] /\ Doc(chain[i]) = docs[i]
    BY <1>0, LinksRead
  <1> HIDE DEF chain
  <1>2. \A i \in 1..n : Child(r, chain, i) = docs[i - 1]
    <2> TAKE i \in 1..n
    <2>1. i # 1 => i - 1 \in 1..n
      BY <1>0
    <2>2. i = 1 => i - 1 = 0
      OBVIOUS
    <2> QED BY <1>1, <2>1, <2>2 DEF Child
  <1>3. \A i \in 1..n : WalkAffected(r, chain, i) = runs[docs[i - 1]].ran
    <2> TAKE i \in 1..n
    <2>1. Descends(docs[i - 1], docs[i])
      BY DEF Links, HopOf
    <2> QED BY <1>1, <1>2, <2>1 DEF WalkAffected, Descends
  <1>4. \A i \in 1..n : \A f : f \in part[i] <=>
          f \in ran[i] /\ \A j \in 0..i - 1 : f \notin ran[j]
    <2> TAKE i \in 1..n
    <2>1. runs[Doc(chain[i])].ran = ran[i] /\ part[i] = WalkCarried(r, chain, i)
      BY <1>1
    <2>2. \A j \in 1..i : runs[Child(r, chain, j)].ran = ran[j - 1]
      <3> TAKE j \in 1..i
      <3>1. j \in 1..n /\ j - 1 \in 0..n
        BY <1>0
      <3> QED BY <1>2, <3>1
    <2>3. WalkAffected(r, chain, i) = ran[i - 1]
      <3>1. i - 1 \in 0..n
        BY <1>0
      <3> QED BY <1>3, <3>1
    <2> HIDE DEF part, ran, r
    <2>4. \A f : f \in part[i] <=>
            f \in ran[i] /\ f \notin ran[i - 1] /\ \A j \in 1..i : f \notin ran[j - 1]
      BY <2>1, <2>2, <2>3 DEF WalkCarried
    <2>5. \A j \in 0..i - 1 : j + 1 \in 1..i /\ (j + 1) - 1 = j
      BY <1>0
    <2>6. \A j \in 1..i : j - 1 \in 0..i - 1
      BY <1>0
    <2>7. i - 1 \in 0..i - 1
      BY <1>0
    <2> QED BY <2>4, <2>5, <2>6, <2>7
  <1>5. \A f : f \in Files \ A <=> \E i \in 1..n : f \in part[i]
    <2> SUFFICES ASSUME NEW f
                 PROVE  f \in Files \ A <=> \E i \in 1..n : f \in part[i]
      OBVIOUS
    <2>1. f \in Files <=> \E i \in 1..n : f \in ran[i]
      <3>1. f \in Files <=> \E i \in 1..n : f \in runs[docs[i]].ran
        BY <1>0, LinksRan
      <3>2. \A i \in 1..n : ran[i] = runs[docs[i]].ran
        BY <1>0
      <3> HIDE DEF ran
      <3> QED BY <3>1, <3>2
    <2>2. A = ran[0]
      BY <1>0
    <2> HIDE DEF part, ran, A
    <2> DEFINE S == {i \in 0..n : f \in ran[i]}
    <2>3. ASSUME NEW k \in 1..n, f \in ran[k], f \notin ran[0]
          PROVE  \E i \in 1..n : f \in part[i]
      <3>1. S \subseteq Nat /\ S # {}
        BY <1>0, <2>3
      <3>2. PICK i \in S : \A m \in S : i <= m
        BY <3>1, LeastOf
      <3>3. i \in 1..n /\ \A j \in 0..i - 1 : f \notin ran[j]
        BY <1>0, <2>3, <3>2
      <3> QED BY <1>4, <2>3, <3>2, <3>3
    <2>4. \A i \in 1..n : f \in part[i] => f \in ran[i] /\ f \notin ran[0]
      BY <1>0, <1>4
    <2> QED BY <2>1, <2>2, <2>3, <2>4
  <1>6. UNION {WalkCarried(r, chain, i) : i \in 1..n} = Files \ A
    <2>1. {WalkCarried(r, chain, i) : i \in 1..n} = {part[i] : i \in 1..n}
      OBVIOUS
    <2> HIDE DEF part, A
    <2>2. \A f : f \in UNION {part[i] : i \in 1..n} <=> f \in Files \ A
      BY <1>5, InOneOf
    <2> QED BY <2>1, <2>2
  <1>7. ASSUME SameNumbers(Behind(docs, n), t, A)
        PROVE  UNION {Outcomes(runs[docs[i]].tree, WalkCarried(r, chain, i)) : i \in 1..n}
                 = Outcomes(t, Files \ A)
    <2>1. \A i \in 1..n : \A f \in part[i] : trees[i][f].tests = t[f].tests
      <3>1. \A i \in 1..n : docs[i] \in Behind(docs, n) /\ trees[i] = runs[docs[i]].tree
        BY DEF Behind
      <3> HIDE DEF part, trees, t, A
      <3> QED BY <1>5, <1>7, <3>1 DEF SameNumbers
    <2>2. \A i \in 1..n : outcomes[i] = Outcomes(trees[i], part[i])
      OBVIOUS
    <2>3. {Outcomes(runs[docs[i]].tree, WalkCarried(r, chain, i)) : i \in 1..n}
            = {outcomes[i] : i \in 1..n}
      OBVIOUS
    <2> HIDE DEF part, trees, outcomes, t, A
    <2>4. \A o : (\E i \in 1..n : o \in Outcomes(trees[i], part[i]))
                   <=> o \in Outcomes(t, Files \ A)
      BY <1>0, <1>5, <2>1, PartedOutcomes
    <2>5. \A o : o \in UNION {outcomes[i] : i \in 1..n} <=> o \in Outcomes(t, Files \ A)
      BY <2>2, <2>4, InOneOf
    <2>6. UNION {outcomes[i] : i \in 1..n} = Outcomes(t, Files \ A)
      BY <2>5
    <2> QED BY <2>3, <2>6
  <1>8. \A i \in 1..n : \A f \in WalkCarried(r, chain, i) :
          f \in runs[docs[i]].ran /\ f \notin runs[docs[i - 1]].ran
    <2> TAKE i \in 1..n
    <2>1. i - 1 \in 0..i - 1 /\ i - 1 \in 0..n /\ i \in 0..n
      BY <1>0
    <2>2. WalkCarried(r, chain, i) = part[i] /\ ran[i] = runs[docs[i]].ran
          /\ ran[i - 1] = runs[docs[i - 1]].ran
      BY <2>1
    <2> HIDE DEF part, ran
    <2> QED BY <1>4, <2>1, <2>2
  <1> HIDE DEF t, A, r
  <1> QED BY <1>2, <1>3, <1>6, <1>7, <1>8 DEF t, A, r, chain

\* What the gate re-sealed, its consumer recomputes.
LEMMA WalkRecomputes ==
  ASSUME ResealInv, NEW n \in 1..MaxHops, NEW docs, ChainOf(dir, n, docs),
         dir.evidence = runs[docs[0]].evidence,
         \A d \in Docs(docs, n) : runs[d].scope = "reseal" => OfPassing(d),
         SameNumbers(Behind(docs, n), runs[docs[0]].tree, runs[docs[0]].ran)
  PROVE  Recomputes(docs[0])
  <1> DEFINE chain == ReadChain(dir.hops)
             r == docs[0]
             hops == dir.hops
  <1>0. n \in Nat /\ n > 0 /\ MaxHops \in Nat /\ n \in 0..MaxHops /\ Links(docs, n, hops, 0)
    BY ResealAssumption DEF ChainOf
  <1>1. /\ Len(chain) = n /\ DOMAIN chain = 1..n
        /\ \A i \in 1..n : /\ chain[i] = hops[i] /\ Doc(chain[i]) = docs[i]
                           /\ Kind(chain[i]) = runs[docs[i - 1]].kind
    BY <1>0, LinksRead
  <1>2. /\ \A i \in 1..n : Child(r, chain, i) = docs[i - 1]
        /\ \A i \in 1..n : WalkAffected(r, chain, i) = runs[docs[i - 1]].ran
        /\ \A i \in 1..n : \A f \in WalkCarried(r, chain, i) :
              f \in runs[docs[i]].ran /\ f \notin runs[docs[i - 1]].ran
        /\ UNION {WalkCarried(r, chain, i) : i \in 1..n} = Files \ runs[r].ran
        /\ UNION {Outcomes(runs[docs[i]].tree, WalkCarried(r, chain, i)) : i \in 1..n}
             = Outcomes(runs[r].tree, Files \ runs[r].ran)
    BY <1>0, WalkCarries
  <1> HIDE DEF chain
  <1>3. \A i \in 1..n : HopOf(hops[i], docs[i], docs[i - 1]) /\ docs[i] < r
    BY <1>0 DEF Links
  <1>4. \A i \in 1..n : Enveloped(chain[i])
    BY <1>1, <1>3 DEF Enveloped, HopOf
  <1>5. ASSUME NEW i \in 1..n PROVE HopRecomputes(r, chain, i)
    <2> DEFINE h == hops[i]
               d == docs[i]
               c == docs[i - 1]
    <2>1. chain[i] = h /\ Doc(h) = d /\ Kind(h) = runs[c].kind /\ Child(r, chain, i) = c
      BY <1>1, <1>2
    <2>2. HopOf(h, d, c) /\ Descends(c, d) /\ WalkAffected(r, chain, i) = runs[c].ran
      BY <1>2, <1>3 DEF HopOf
    <2>3. \A j \in i..Len(chain) : Enveloped(chain[j])
      BY <1>0, <1>1, <1>4
    <2>4. WalkCarried(r, chain, i) \subseteq runs[d].passed
      BY <1>2, <2>2 DEF Descends
    <2>5. runs[c].passed = runs[c].ran
      <3>1. c \in Docs(docs, n)
        <4>1. i - 1 \in 0..n
          BY <1>0
        <4> QED BY <4>1 DEF Docs
      <3> QED BY <2>2, <3>1 DEF Descends, OfPassing
    <2>6. Kind(h) = "record" => i = n
      <3>1. SUFFICES ASSUME runs[c].kind = "record", i # n PROVE FALSE
        BY <2>1
      <3>2. runs[d].scope = "full"
        BY <2>2, <3>1 DEF HopOf
      <3>3. i + 1 \in 1..n /\ (i + 1) - 1 = i
        BY <1>0, <3>1
      <3>4. Descends(d, docs[i + 1])
        BY <1>3, <3>3 DEF HopOf
      <3> QED BY <3>2, <3>4 DEF Descends
    <2>7. Exists(h.execution) /\ Exists(h.catalog) /\ h.execution[1] = d
          /\ h.catalog[1] = CatalogOf(runs[c].tree) /\ Exists(h.evidence)
      BY <2>2 DEF HopOf, Exists, Absent
    <2>8. runs[c].parent = d /\ Eligible(runs[d].tree, runs[c].tree)
      BY <2>2 DEF Descends
    <2> HIDE DEF h, d, c, r
    <2> QED BY <1>1, <2>1, <2>2, <2>3, <2>4, <2>5, <2>6, <2>7, <2>8 DEF HopRecomputes
  <1>6. runs[r].carried = Cardinality(UNION {Outcomes(runs[Doc(chain[i])].tree,
                                                       WalkCarried(r, chain, i)) :
                                              i \in DOMAIN chain})
    <2>1. {Outcomes(runs[Doc(chain[i])].tree, WalkCarried(r, chain, i)) : i \in DOMAIN chain}
            = {Outcomes(runs[docs[i]].tree, WalkCarried(r, chain, i)) : i \in 1..n}
      BY <1>1
    <2>2. runs[r].carried = Cardinality(Outcomes(runs[r].tree, Files \ runs[r].ran))
      BY DEF ChainOf, Sealed, CountOf
    <2> QED BY <1>2, <2>1, <2>2
  <1>7. EvidenceRecomputes(r, chain)
    <2> DEFINE from == {Doc(chain[i]) : i \in DOMAIN chain}
               files == UNION {WalkCarried(r, chain, i) : i \in DOMAIN chain}
               ev == chain[1].evidence[1]
               kept == {e \in ev : e.run \in from /\ e.file \in files}
    <2>1. from = Behind(docs, n)
      BY <1>1 DEF Behind
    <2>2. files = Files \ runs[r].ran
      BY <1>1, <1>2
    <2>3. ev = hops[1].evidence[1]
      BY <1>0, <1>1
    <2>4. /\ Carries(ev, Behind(docs, n), runs[r].ran)
          /\ ev \subseteq runs[r].evidence /\ \A e \in runs[r].evidence \ ev : e.run = r
      BY <2>3 DEF ChainOf, Sealed
    <2> HIDE DEF from, files, ev
    <2>5. kept = ev
      BY <2>1, <2>2, <2>4 DEF Carries
    <2>6. r \notin from
      <3>1. ASSUME NEW i \in 1..n, docs[i] = r PROVE FALSE
        <4>1. docs[i] < r /\ r \in DOMAIN runs /\ DOMAIN runs \subseteq Nat
          BY <1>0, <1>3 DEF Links, ResealInv
        <4> HIDE DEF r
        <4> QED BY <3>1, <4>1
      <3> QED BY <2>1, <3>1 DEF Behind
    <2>7. dir.evidence = runs[r].evidence
      OBVIOUS
    <2> HIDE DEF kept, r
    <2>8. runs[r].evidence = kept \cup {e \in dir.evidence : e.run \notin from}
      BY <2>1, <2>4, <2>5, <2>6, <2>7 DEF Carries
    <2> QED BY <2>7, <2>8 DEF EvidenceRecomputes, from, files, ev, kept
  <1> HIDE DEF r
  <1> QED BY <1>0, <1>1, <1>5, <1>6, <1>7 DEF Recomputes, chain, r

----------------------------------------------------------------------------
(* The invariant.                                                          *)

\* The re-seal under way has opened a hop before the chain of its parent.
OpenedBy(n, docs) ==
    /\ docs[0] = job.parent /\ Links(docs, n, dir.hops, 1)
    /\ job.phase # "running" => \A i \in 0..n : docs[i] # Me
    /\ Carries(job.evidence, Docs(docs, n), job.files)
    /\ CountOf(job.carried, Docs(docs, n), tree, job.files)

Resealing ==
    /\ job.parent \in DOMAIN runs /\ job.envelopes[1] = job.parent
    /\ Exists(dir.hops[1].evidence)
    /\ Eligible(runs[job.parent].tree, tree)
    /\ job.files = Affected(runs[job.parent].tree, tree)
    /\ runs[job.parent].ran \ job.files \subseteq runs[job.parent].passed
    /\ \/ job.kind = "receipt"
       \/ job.kind = "record" /\ runs[job.parent].scope = "full"
    /\ ~residue => \E n \in 0..MaxHops - 1 : \E docs \in [0..n -> DOMAIN runs] : OpenedBy(n, docs)

\* The suite has run: no directory has a receipt or a record of the run yet.
Executed ==
    LET r == runs[Me]
    IN /\ r.tree = tree /\ r.ran = job.files /\ r.parent = job.parent
       /\ r.kind = job.kind /\ r.carried = job.carried
       /\ job.evidence \subseteq r.evidence /\ \A e \in r.evidence \ job.evidence : e.run = Me
       /\ dir.receipt # <<Me>> /\ dir.record # <<Me>>
       /\ job.user.receipt # <<Me>> /\ job.user.record # <<Me>>
       /\ job.phase = "executed" => dir.evidence \cup job.evidence = r.evidence
       /\ job.phase = "graded" => dir.execution = <<Me>> /\ dir.evidence = r.evidence

ChainInv ==
    /\ ChainKept(dir) /\ (residue => dir.hops # NoHops)
    /\ job # NoJob => ChainKept(job.user)
    /\ job # NoJob /\ job.phase # "running" => Executed
    /\ job # NoJob /\ job.scope = "reseal" => Resealing
    /\ ~residue /\ (job = NoJob \/ job.scope # "reseal") => Chained(dir)
    /\ ~residue /\ job = NoJob => Finished(dir)

----------------------------------------------------------------------------
(* Runs that are added change nothing of the chain.                        *)

RunsKept ==
    /\ DOMAIN runs \subseteq DOMAIN runs'
    /\ \A s \in DOMAIN runs : runs'[s] = runs[s]

\* The hops lead where they led.
LEMMA LinksStay ==
  ASSUME RunsKept, NEW docs, NEW n \in Nat, NEW hops, NEW s, Links(docs, n, hops, s)
  PROVE  Links(docs, n, hops, s)'
  <1>1. docs \in [0..n -> DOMAIN runs] /\ \A i \in 0..n : runs'[docs[i]] = runs[docs[i]]
    BY DEF Links, RunsKept
  <1>2. docs \in [0..n -> DOMAIN runs']
    BY <1>1 DEF RunsKept
  <1>3. n \in 0..n /\ \A i \in 1..n : i \in 0..n /\ i - 1 \in 0..n
    OBVIOUS
  <1>4. ASSUME NEW i \in 1..n
        PROVE  HopOf(hops[i + s], docs[i], docs[i - 1])' /\ docs[i] < docs[0]
    <2>1. HopOf(hops[i + s], docs[i], docs[i - 1]) /\ docs[i] < docs[0]
      BY DEF Links
    <2>2. runs'[docs[i]] = runs[docs[i]] /\ runs'[docs[i - 1]] = runs[docs[i - 1]]
      BY <1>1, <1>3
    <2> QED BY <2>1, <2>2 DEF HopOf, Descends
  <1>5. runs'[docs[n]].scope = "full"
    BY <1>1, <1>3 DEF Links
  <1> QED BY <1>2, <1>4, <1>5 DEF Links

\* The number that is carried stays right.
LEMMA CountStays ==
  ASSUME RunsKept, NEW number, NEW S \in SUBSET DOMAIN runs, NEW t, NEW A,
         CountOf(number, S, t, A)
  PROVE  CountOf(number, S, t, A)'
  BY DEF RunsKept, CountOf, SameNumbers

\* A directory that has the chain of its receipt keeps it.
LEMMA ChainedStays ==
  ASSUME RunsKept, NEW d, Chained(d) PROVE Chained(d)'
  <1> SUFFICES ASSUME NEW n \in 1..MaxHops, NEW docs \in [0..n -> DOMAIN runs],
                      ChainOf(d, n, docs)
               PROVE  ChainOf(d, n, docs)' /\ docs \in [0..n -> DOMAIN runs']
    BY DEF Chained
  <1>0. n \in Nat /\ 0 \in 0..n
    BY ResealAssumption
  <1>1. docs \in [0..n -> DOMAIN runs'] /\ runs'[docs[0]] = runs[docs[0]]
    BY <1>0 DEF RunsKept
  <1>2. Links(docs, n, d.hops, 0)'
    BY <1>0, LinksStay DEF ChainOf
  <1>3. Behind(docs, n) \in SUBSET DOMAIN runs
    <2>1. \A i \in 1..n : docs[i] \in DOMAIN runs
      BY <1>0
    <2> QED BY <2>1 DEF Behind
  <1>4. Sealed(docs, n, d.hops)'
    <2> DEFINE r == runs[docs[0]]
    <2>1. Sealed(docs, n, d.hops)
      BY DEF ChainOf
    <2>2. CountOf(r.carried, Behind(docs, n), r.tree, r.ran)
      BY <2>1 DEF Sealed
    <2>3. r' = r
      BY <1>1
    <2> HIDE DEF r
    <2>4. CountOf(r.carried, Behind(docs, n), r.tree, r.ran)'
      BY <1>3, <2>2, <2>3, CountStays
    <2> QED BY <2>1, <2>3, <2>4 DEF Sealed, r, Carries
  <1> QED BY <1>1, <1>2, <1>4 DEF ChainOf, ParentRecord

\* A chain without a file is none.
LEMMA NoFiles ==
  ASSUME NEW d, IsHops(d.hops)
  PROVE  d.hops = NoHops <=> ~HasHops(d)
  <1>1. ASSUME d.hops = NoHops PROVE ~HasHops(d)
    BY <1>1, HopMembers DEF HasHops, NoHops, Exists
  <1>2. ASSUME ~HasHops(d) PROVE d.hops = NoHops
    <2>1. \A i \in Positions : \A m \in DOMAIN NoHop : d.hops[i][m] = NoHop[m]
      BY <1>2, HopMembers DEF HasHops, Exists
    <2>2. NoHop = [m \in DOMAIN NoHop |-> NoHop[m]]
      BY DEF NoHop
    <2>3. \A i \in Positions : [m \in DOMAIN NoHop |-> d.hops[i][m]] = NoHop
      BY <2>1, <2>2
    <2> QED BY <2>3 DEF IsHops, NoHops
  <1> QED BY <1>1, <1>2

----------------------------------------------------------------------------
(* A re-seal starts.                                                       *)

\* The parent of a re-seal has a chain that leads to a full run.
LEMMA ParentChain ==
  ASSUME ResealInv, ChainInv, job = NoJob, ~residue, HasParent(dir)
  PROVE  \E n \in 0..MaxHops : \E docs \in [0..n -> DOMAIN runs] :
           docs[0] = Parent(dir) /\ Links(docs, n, dir.hops, 0)
  <1> DEFINE p == Parent(dir)
  <1>0. MaxHops \in Nat /\ Standing(dir) /\ ChainKept(dir) /\ Chained(dir)
    BY ResealAssumption DEF ResealInv, ChainInv
  <1>1. CASE dir.hops = NoHops
    <2> DEFINE docs == [i \in 0..0 |-> p]
    <2>1. p \in DOMAIN runs /\ runs[p].scope \in {"full", "reseal"}
      BY ParentVouches
    <2>2. runs[p].scope = "full"
      <3>1. CASE ParentReceipt(dir)
        <4>1. p = dir.receipt[1] /\ dir.receipt # Absent
          BY <3>1 DEF Parent, ParentReceipt, Exists
        <4>2. ~HasHops(dir)
          BY <1>0, <1>1, NoFiles DEF ChainKept
        <4> QED BY <1>0, <2>1, <4>1, <4>2 DEF ChainKept
      <3>2. CASE ~ParentReceipt(dir)
        <4>1. p = dir.record[1] /\ dir.record # Absent
          BY <3>2 DEF Parent, ParentRecord, HasParent, Exists
        <4>2. PICK m \in DOMAIN runs : dir.record = <<m>> /\ runs[m].scope = "full"
          BY <1>0, <4>1 DEF Standing
        <4>3. p = m
          BY <4>1, <4>2
        <4> QED BY <4>2, <4>3, Zenon
      <3> QED BY <3>1, <3>2
    <2>3. docs \in [0..0 -> DOMAIN runs] /\ docs[0] = p
      BY <2>1
    <2>4. \A i \in Positions : dir.hops[i] = NoHop
      BY <1>1 DEF NoHops
    <2> HIDE DEF docs, p
    <2>5. Links(docs, 0, dir.hops, 0)
      BY <2>2, <2>3, <2>4 DEF Links
    <2>6. \E x \in [0..0 -> DOMAIN runs] : x[0] = p /\ Links(x, 0, dir.hops, 0)
      BY <2>3, <2>5, Zenon
    <2>7. 0 \in 0..MaxHops
      BY <1>0
    <2> QED BY <2>6, <2>7, Zenon DEF p
  <1>2. ASSUME NEW n \in 1..MaxHops, NEW docs \in [0..n -> DOMAIN runs], ChainOf(dir, n, docs)
        PROVE  docs[0] = p /\ Links(docs, n, dir.hops, 0)
    BY <1>2 DEF ChainOf, HasParent, Parent, ParentReceipt
  <1> QED BY <1>0, <1>1, <1>2 DEF Chained

\* What the re-seal then retains is of the parent and the runs behind it.
LEMMA ContributorsAre ==
  ASSUME ResealInv, NEW n \in 0..MaxHops, NEW docs, Links(docs, n, dir.hops, 0)
  PROVE  /\ RangeOf(Contributors(dir, docs[0])) = Docs(docs, n)
         /\ Contributors(dir, docs[0])[1] = docs[0]
  <1> DEFINE chain == ReadChain(dir.hops)
             behind == [i \in DOMAIN chain |-> Doc(chain[i])]
             p == docs[0]
             c == Contributors(dir, p)
  <1>1. n \in Nat /\ DOMAIN chain = 1..n /\ \A i \in 1..n : Doc(chain[i]) = docs[i]
    BY ResealAssumption, LinksRead
  <1>2. docs \in [0..n -> DOMAIN runs]
    BY DEF Links
  <1>3. behind = [i \in 1..n |-> docs[i]]
    BY <1>1
  <1>4. c = <<p>> \o behind
    BY DEF Contributors
  <1> HIDE DEF chain, behind, c
  <1>5. <<p>> \in Seq(DOMAIN runs) /\ behind \in Seq(DOMAIN runs) /\ Len(<<p>>) = 1 /\ Len(behind) = n
    BY <1>1, <1>2, <1>3
  <1>6. /\ Len(c) = n + 1 /\ c \in Seq(DOMAIN runs)
        /\ \A i \in 1..n + 1 : c[i] = IF i <= 1 THEN <<p>>[i] ELSE behind[i - 1]
    <2>1. Len(c) = 1 + n /\ c \in Seq(DOMAIN runs)
      BY <1>4, <1>5, ConcatProperties
    <2>2. \A i \in 1..1 + n : c[i] = IF i <= 1 THEN <<p>>[i] ELSE behind[i - 1]
      BY <1>4, <1>5, ConcatProperties
    <2> QED BY <1>1, <2>1, <2>2
  <1>7. \A i \in 1..n + 1 : i - 1 \in 0..n /\ c[i] = docs[i - 1]
    <2> TAKE i \in 1..n + 1
    <2>1. CASE i = 1
      BY <1>1, <1>6, <2>1
    <2>2. CASE i # 1
      <3>1. i - 1 \in 1..n /\ ~(i <= 1)
        BY <1>1, <2>2
      <3>2. c[i] = behind[i - 1] /\ behind[i - 1] = docs[i - 1]
        BY <1>3, <1>6, <3>1
      <3> QED BY <1>1, <3>1, <3>2
    <2> QED BY <2>1, <2>2
  <1>8. DOMAIN c = 1..n + 1
    BY <1>1, <1>6
  <1>9. \A i \in 0..n : i + 1 \in 1..n + 1 /\ (i + 1) - 1 = i
    BY <1>1
  <1>10. RangeOf(c) = Docs(docs, n)
    <2>1. \A x : x \in RangeOf(c) <=> \E i \in 1..n + 1 : x = c[i]
      BY <1>8 DEF RangeOf
    <2>2. \A x : x \in Docs(docs, n) <=> \E i \in 0..n : x = docs[i]
      BY DEF Docs
    <2>3. \A x : x \in RangeOf(c) <=> x \in Docs(docs, n)
      BY <1>7, <1>9, <2>1, <2>2
    <2> QED BY <2>3
  <1>11. c[1] = docs[0]
    BY <1>1, <1>7
  <1> QED BY <1>10, <1>11 DEF c

\* The hops of a chain, counted; opened, each lies one further.
LEMMA LinksOpen ==
  ASSUME NEW hops, IsHops(hops), NEW n \in 0..MaxHops, NEW docs, Links(docs, n, hops, 0)
  PROVE  /\ HopCount(hops) = n
         /\ \A e, v : Links(docs, n, Opened(hops, e, v, OpenSteps(hops)), 1)
  <1>0. MaxHops \in Nat /\ n \in Nat
    BY ResealAssumption
  <1>1. \A i \in 1..n : HopOf(hops[i], docs[i], docs[i - 1]) /\ docs[i] < docs[0]
    BY <1>0 DEF Links
  <1>2. \A i \in 1..n : Exists(hops[i].receipt) \/ Exists(hops[i].record)
    <2>1. \A h, d, c : HopOf(h, d, c) => h.receipt = <<d>> \/ h.record = <<d>>
      BY DEF HopOf
    <2>2. \A d : Exists(<<d>>)
      BY DEF Exists, Absent
    <2> QED BY <1>1, <2>1, <2>2
  <1>3. \A i \in Positions : i > n => hops[i] = NoHop
    BY <1>0 DEF Links
  <1>4. HopCount(hops) = n
    BY <1>2, <1>3, HopsCounted
  <1>5. ASSUME NEW e, NEW v PROVE Links(docs, n, Opened(hops, e, v, OpenSteps(hops)), 1)
    <2> DEFINE new == Opened(hops, e, v, OpenSteps(hops))
    <2>1. \A i \in Positions : i > 1 => new[i] = hops[i - 1]
      BY <1>2, <1>3, OpenedMoves
    <2> HIDE DEF new
    <2>2. \A i \in 1..n : i + 1 \in Positions /\ i + 1 > 1 /\ (i + 1) - 1 = i
      BY <1>0 DEF Positions
    <2>3. \A i \in 1..n : new[i + 1] = hops[i]
      BY <2>1, <2>2
    <2>4. \A i \in Positions : i > n + 1 => new[i] = NoHop
      <3> TAKE i \in Positions
      <3>1. i > n + 1 => i > 1 /\ i - 1 \in Positions /\ i - 1 > n
        BY <1>0 DEF Positions
      <3> QED BY <1>3, <2>1, <3>1
    <2>5. \A i \in 1..n : HopOf(new[i + 1], docs[i], docs[i - 1]) /\ docs[i] < docs[0]
      BY <1>1, <2>3
    <2>6. Links(docs, n, new, 1)
      BY <2>4, <2>5 DEF Links
    <2> QED BY <2>6 DEF new
  <1> QED BY <1>4, <1>5

\* The start of a re-seal, from its first file operation to the last.
LEMMA ResealStarts ==
  ASSUME ResealInv, ChainInv, NEW staged \in BOOLEAN, NEW k \in Nat, StartReseal(staged, k)
  PROVE  ChainInv'
  <1> DEFINE p == Parent(dir)
             A == Affected(runs[p].tree, tree)
             carried == Carried(dir, p, A)
             names == Contributors(dir, p)
             ev == {r \in dir.kept[1].evidence : r.run \in RangeOf(names) /\ r.file \in carried.files}
             hops == Opened(dir.hops, ev, names, k)
  <1>0. /\ job = NoJob /\ UNCHANGED <<tree, runs>> /\ HasParent(dir) /\ Decide(p)
        /\ WithinBound(dir.hops) /\ MaxHops \in Nat /\ 1 \in Positions
        /\ IsDir(dir) /\ Standing(dir) /\ ChainKept(dir) /\ RunsKept
    BY ResealAssumption, SMTT(30)
    DEF StartReseal, ResealDecided, Idle, ResealInv, Standing, ChainInv, RunsKept, Positions
  <1>1. dir' = [dir EXCEPT !.hops = hops]
    BY DEF StartReseal
  <1>2. IsDir(dir') /\ dir'.receipt = dir.receipt /\ dir'.execution = dir.execution
        /\ dir'.evidence = dir.evidence /\ dir'.record = dir.record /\ dir'.hops = hops
    BY <1>0, <1>1 DEF IsDir
  <1>3. /\ IsHops(hops)
        /\ (\E i \in Positions, m \in DOMAIN NoHop : Exists(dir.hops[i][m])) =>
             \E i \in Positions, m \in DOMAIN NoHop : Exists(hops[i][m])
        /\ k = OpenSteps(dir.hops) => Exists(hops[1].evidence)
    <2>1. IsHops(dir.hops)
      BY <1>0 DEF ChainKept
    <2> HIDE DEF ev, names
    <2> QED BY <1>0, <2>1, OpenedKeeps
  <1> HIDE DEF hops
  <1>4. HasHops(dir) => HasHops(dir')
    BY <1>2, <1>3 DEF HasHops
  <1>5. ChainKept(dir')
    BY <1>0, <1>2, <1>3, <1>4 DEF ChainKept
  <1>a. \A d : ChainKept(d) => ChainKept(d)'
    BY <1>0 DEF ChainKept, HasHops
  <1>6. CASE k # OpenSteps(dir.hops)
    <2>1. job' = NoJob /\ residue' = (hops # NoHops)
      BY <1>0, <1>6 DEF StartReseal, hops, ev, names, carried
    <2>2. ASSUME ~residue' PROVE Chained(dir)' /\ Finished(dir)'
      <3>1. hops = NoHops
        BY <2>1, <2>2
      <3>2. ~HasHops(dir')
        BY <1>2, <1>3, <3>1, NoFiles
      <3>3. dir.hops = NoHops
        BY <1>0, <1>4, <3>2, NoFiles DEF ChainKept
      <3>4. Finished(dir)
        BY <1>0, <3>3 DEF ChainInv
      <3> QED BY <1>0, <1>2, <3>1, <3>4 DEF Chained, Finished
    <2>3. ChainKept(dir)'
      BY <1>5, <1>0 DEF ChainKept, HasHops
    <2> QED BY <1>2, <2>1, <2>2, <2>3 DEF ChainInv
  <1>7. CASE k = OpenSteps(dir.hops)
    <2> DEFINE j == Job("reseal", A, Files, staged, dir)
    <2>1. /\ job' = [j EXCEPT
                       !.parent = p, !.carried = carried.count,
                       !.kind = IF ParentReceipt(dir) THEN "receipt" ELSE "record",
                       !.evidence = ev, !.envelopes = names]
          /\ residue' = residue
      BY <1>7 DEF StartReseal
    <2>2. /\ job'.phase = "running" /\ job'.scope = "reseal" /\ job'.files = A
          /\ job'.parent = p /\ job'.carried = carried.count
          /\ job'.kind = IF ParentReceipt(dir) THEN "receipt" ELSE "record"
          /\ job'.evidence = ev /\ job'.envelopes = names /\ job'.user = dir
      <3> HIDE DEF A, carried, ev, names, p
      <3> QED BY <2>1 DEF Job
    <2>3. Exists(hops[1].evidence)
      BY <1>3, <1>7
    <2>4. residue' => hops # NoHops
      <3>1. hops = NoHops => ~Exists(hops[1].evidence)
        BY <1>0, HopMembers DEF NoHops, Exists
      <3> QED BY <2>3, <3>1
    <2>5. p \in DOMAIN runs /\ runs[p].scope \in {"full", "reseal"} /\ names[1] = p
      <3>1. names[1] = p
        BY DEF Contributors
      <3> QED BY <1>0, <3>1, ParentVouches
    <2>6. ~ParentReceipt(dir) => runs[p].scope = "full"
      <3> SUFFICES ASSUME ~ParentReceipt(dir) PROVE runs[p].scope = "full"
        OBVIOUS
      <3>1. p = dir.record[1] /\ dir.record # Absent
        BY <1>0 DEF Parent, ParentRecord, HasParent, Exists
      <3>2. PICK m \in DOMAIN runs : dir.record = <<m>> /\ runs[m].scope = "full"
        BY <1>0, <3>1 DEF Standing
      <3>3. p = m
        BY <3>1, <3>2
      <3> QED BY <3>2, <3>3, Zenon
    <2>7. Eligible(runs[p].tree, tree) /\ runs[p].ran \ A \subseteq runs[p].passed
      BY <1>0 DEF Decide
    <2>8. ASSUME ~residue
          PROVE  (\E n \in 0..MaxHops - 1 : \E docs \in [0..n -> DOMAIN runs] : OpenedBy(n, docs))'
      <3>a. PICK n \in 0..MaxHops : \E docs \in [0..n -> DOMAIN runs] :
                    docs[0] = p /\ Links(docs, n, dir.hops, 0)
        BY <1>0, <2>8, ParentChain
      <3>1. PICK docs \in [0..n -> DOMAIN runs] : docs[0] = p /\ Links(docs, n, dir.hops, 0)
        BY <3>a
      <3>2. HopCount(dir.hops) = n /\ Links(docs, n, hops, 1)
        <4>1. IsHops(dir.hops)
          BY <1>0 DEF ChainKept
        <4>2. HopCount(dir.hops) = n /\ \A e, v : Links(docs, n, Opened(dir.hops, e, v, OpenSteps(dir.hops)), 1)
          BY <3>1, <4>1, LinksOpen
        <4> QED BY <1>7, <4>2 DEF hops
      <3>3. n \in 0..MaxHops - 1 /\ n \in Nat
        BY <1>0, <3>2 DEF WithinBound
      <3>4. Links(docs, n, dir.hops, 1)'
        BY <1>0, <1>2, <3>2, <3>3, LinksStay
      <3>5. RangeOf(names) = Docs(docs, n)
        BY <3>1, ContributorsAre
      <3>6. carried.files = Files \ A /\ CountOf(carried.count, Docs(docs, n), tree, A)
        BY <3>1, GateCarries
      <3> HIDE DEF carried, names, A
      <3>7. Carries(ev, Docs(docs, n), A)
        BY <3>5, <3>6 DEF Carries
      <3>8. Docs(docs, n) \in SUBSET DOMAIN runs
        BY <3>1 DEF Docs
      <3>9. CountOf(job.carried, Docs(docs, n), tree, job.files)'
        <4>1. CountOf(carried.count, Docs(docs, n), tree, A)
          BY <3>6
        <4>2. \A number, files : CountOf(number, Docs(docs, n), tree, files)
                                   => CountOf(number, Docs(docs, n), tree, files)'
          BY <1>0 DEF CountOf, SameNumbers, Docs
        <4> QED BY <1>0, <2>2, <4>1, <4>2
      <3>10. OpenedBy(n, docs)'
        <4>2. Carries(job.evidence, Docs(docs, n), job.files)'
          BY <2>2, <3>7 DEF Carries, Docs
        <4> QED BY <2>2, <3>1, <3>4, <3>9, <4>2 DEF OpenedBy
      <3> QED BY <1>0, <3>1, <3>3, <3>10
    <2>9. Resealing'
      <3>1. job'.parent \in DOMAIN runs' /\ job'.envelopes[1] = job'.parent
            /\ Exists(dir'.hops[1].evidence)
        BY <1>0, <1>2, <2>2, <2>3, <2>5
      <3>2. /\ Eligible(runs'[job'.parent].tree, tree') /\ job'.files = Affected(runs'[job'.parent].tree, tree')
            /\ runs'[job'.parent].ran \ job'.files \subseteq runs'[job'.parent].passed
        <4>1. runs' = runs /\ tree' = tree
          BY <1>0
        <4> QED BY <2>2, <2>7, <4>1
      <3>3. job'.kind = "receipt" \/ (job'.kind = "record" /\ runs'[job'.parent].scope = "full")
        BY <1>0, <2>2, <2>6
      <3>4. residue' = residue
        BY <2>1
      <3> QED BY <2>8, <2>2, <3>1, <3>2, <3>3, <3>4 DEF Resealing
    <2>10. ChainKept(dir)' /\ ChainKept(job.user)'
      BY <1>0, <1>2, <1>5, <1>a, <2>2 DEF ChainKept, HasHops
    <2>11. job' # NoJob /\ (residue' => dir'.hops # NoHops)
      BY <1>2, <2>2, <2>4 DEF NoJob
    <2> QED BY <2>2, <2>9, <2>10, <2>11 DEF ChainInv
  <1> QED BY <1>6, <1>7

----------------------------------------------------------------------------
(* The other steps.                                                        *)

\* Directories with the same chain.
LEMMA SameChain ==
  ASSUME NEW d, NEW e, Chained(d), e.hops = d.hops, e.receipt = d.receipt,
         ParentRecord(e) => ParentRecord(d)
  PROVE  Chained(e)
  BY DEF Chained, ChainOf

\* As they are, runs are kept.
LEMMA SameRuns == ASSUME UNCHANGED runs PROVE RunsKept /\ \A d : ChainKept(d) => ChainKept(d)'
  BY DEF RunsKept, ChainKept, HasHops

\* A run starts that is no re-seal.
LEMMA OthersStart ==
  ASSUME ResealInv, ChainInv, job = NoJob, UNCHANGED <<tree, runs, dir, residue>>,
         NEW scope, scope # "reseal", NEW files, NEW covered, NEW staged,
         job' = Job(scope, files, covered, staged, dir)
  PROVE  ChainInv'
  <1>1. job'.phase = "running" /\ job'.scope = scope /\ job'.user = dir
    BY JobShape
  <1>2. job' # NoJob
    BY <1>1 DEF NoJob
  <1>3. ChainKept(dir)' /\ ChainKept(job.user)'
    BY <1>1, SameRuns DEF ChainInv
  <1>4. ~residue => Chained(dir)'
    BY SameRuns, ChainedStays DEF ChainInv
  <1> QED BY <1>1, <1>2, <1>3, <1>4 DEF ChainInv

\* Nothing of the directory changes while no run is under way.
LEMMA IdleSteps ==
  ASSUME ResealInv, ChainInv, job = NoJob, UNCHANGED <<runs, dir, job, residue>>
  PROVE  ChainInv'
  <1>1. ~residue => Chained(dir)'
    BY SameRuns, ChainedStays DEF ChainInv
  <1> QED BY <1>1, SameRuns DEF ChainInv, Finished

\* The suite has run.
LEMMA Executes ==
  ASSUME ResealInv, ChainInv, NEW passed \in SUBSET Files, Execute(passed)
  PROVE  ChainInv'
  <1> DEFINE r == [scope |-> job.scope, tree |-> tree, ran |-> job.files,
                   passed |-> passed, covered |-> job.covered,
                   parent |-> job.parent, kind |-> job.kind, carried |-> job.carried,
                   evidence |-> job.evidence \cup Ledger(passed)]
  <1>1. /\ runs' = Append(runs, r) /\ tree' = tree /\ residue' = residue
        /\ dir' = [dir EXCEPT !.evidence = Ledger(passed)]
        /\ job' = [job EXCEPT !.phase = "executed"] /\ job.phase = "running"
    BY DEF Execute
  <1>2. job # NoJob /\ JobInv /\ IsJob(job) /\ IsDir(dir) /\ Standing(dir) /\ Standing(job.user)
    BY <1>1 DEF NoJob, ResealInv, JobInv, Standing
  <1>3. /\ DOMAIN runs' = DOMAIN runs \cup {Len(runs) + 1} /\ Len(runs') = Len(runs) + 1
        /\ Len(runs) \in Nat /\ runs'[Len(runs')] = r
        /\ \A s \in DOMAIN runs : runs'[s] = runs[s]
    BY <1>1, MoreRuns DEF ResealInv
  <1>4. RunsKept /\ DOMAIN runs = 1..Len(runs) /\ Len(runs') \notin DOMAIN runs
    BY <1>3 DEF RunsKept, ResealInv
  <1>5. /\ dir'.hops = dir.hops /\ dir'.receipt = dir.receipt /\ dir'.record = dir.record
        /\ dir'.execution = dir.execution /\ dir'.evidence = Ledger(passed)
    BY <1>1, <1>2 DEF IsDir
  <1>6. /\ job'.phase = "executed" /\ job'.scope = job.scope /\ job'.user = job.user
        /\ job'.files = job.files /\ job'.parent = job.parent /\ job'.kind = job.kind
        /\ job'.carried = job.carried /\ job'.evidence = job.evidence
        /\ job'.envelopes = job.envelopes
    BY <1>1, <1>2 DEF IsJob
  <1>7. job' # NoJob
    BY <1>6 DEF NoJob
  <1>8. \A d : ChainKept(d) /\ Standing(d) => ChainKept(d)'
    BY <1>4 DEF ChainKept, Standing, HasHops, RunsKept
  <1>9. ChainKept(dir)' /\ ChainKept(job.user)'
    <2>1. ChainKept(dir) /\ ChainKept(job.user)
      BY <1>2 DEF ChainInv
    <2>2. ChainKept(job.user)'
      BY <1>2, <1>6, <1>8, <2>1
    <2>3. ChainKept(dir')
      BY <1>5, <2>1 DEF ChainKept, HasHops
    <2>4. Standing(dir')
      <3>1. IsDir(dir')
        BY <1>1, <1>2 DEF IsDir
      <3> QED BY <1>2, <1>5, <3>1, SameIssued
    <2> QED BY <1>8, <2>2, <2>3, <2>4
  <1>10. \A d : Standing(d) => d.receipt # <<Len(runs')>> /\ d.record # <<Len(runs')>>
    <2> DEFINE me == Len(runs')
    <2>1. \A m \in DOMAIN runs : m # me
      BY <1>4
    <2> HIDE DEF me
    <2>2. \A m \in DOMAIN runs : <<m>> # <<me>>
      BY <2>1
    <2>3. Absent # <<me>>
      BY DEF Absent
    <2> QED BY <2>2, <2>3 DEF Standing, me
  <1>11. Executed'
    <2>1. /\ r.tree = tree /\ r.ran = job.files /\ r.parent = job.parent /\ r.kind = job.kind
          /\ r.carried = job.carried /\ r.evidence = job.evidence \cup Ledger(passed)
      OBVIOUS
    <2>2. \A e \in Ledger(passed) : e.run = Len(runs')
      BY <1>3 DEF Ledger
    <2> HIDE DEF r
    <2> QED BY <1>1, <1>2, <1>3, <1>5, <1>6, <1>10, <2>1, <2>2 DEF Executed, Me
  <1>12. ASSUME job.scope = "reseal" PROVE Resealing'
    <2>1. Resealing
      BY <1>2, <1>12 DEF ChainInv
    <2>2. ASSUME ~residue
          PROVE  (\E n \in 0..MaxHops - 1 : \E docs \in [0..n -> DOMAIN runs] : OpenedBy(n, docs))'
      <3>a. PICK n \in 0..MaxHops - 1 : \E docs \in [0..n -> DOMAIN runs] : OpenedBy(n, docs)
        BY <2>1, <2>2 DEF Resealing
      <3>1. PICK docs \in [0..n -> DOMAIN runs] : OpenedBy(n, docs)
        BY <3>a
      <3>2. n \in Nat
        BY ResealAssumption
      <3>3. Links(docs, n, dir.hops, 1)'
        BY <1>4, <1>5, <3>1, <3>2, LinksStay DEF OpenedBy
      <3>4. \A i \in 0..n : docs[i] # Me'
        BY <1>4 DEF Me
      <3>5. Docs(docs, n) \in SUBSET DOMAIN runs
        BY DEF Docs
      <3>6. CountOf(job.carried, Docs(docs, n), tree, job.files)'
        <4>1. CountOf(job.carried, Docs(docs, n), tree, job.files)
          BY <3>1 DEF OpenedBy
        <4>2. \A number, t, A : CountOf(number, Docs(docs, n), t, A)
                                 => CountOf(number, Docs(docs, n), t, A)'
          BY <1>4, <3>5, CountStays DEF Docs
        <4> QED BY <1>1, <1>6, <4>1, <4>2
      <3>7. docs \in [0..n -> DOMAIN runs']
        BY <1>4 DEF RunsKept
      <3>8. Carries(job.evidence, Docs(docs, n), job.files)'
        BY <1>6, <3>1 DEF OpenedBy, Carries, Docs
      <3>9. OpenedBy(n, docs)'
        BY <1>6, <3>1, <3>3, <3>4, <3>6, <3>8 DEF OpenedBy
      <3> QED BY <3>7, <3>9
    <2>3. runs'[job.parent] = runs[job.parent] /\ job.parent \in DOMAIN runs'
      BY <1>4, <2>1 DEF Resealing, RunsKept
    <2> QED BY <1>1, <1>5, <1>6, <2>1, <2>2, <2>3 DEF Resealing
  <1>13. ASSUME ~residue, job.scope # "reseal" PROVE Chained(dir)'
    <2>1. Chained(dir)
      BY <1>13 DEF ChainInv
    <2>2. \A d : Chained(d) => Chained(d)'
      BY <1>4, ChainedStays
    <2>3. Chained(dir')
      BY <1>5, <2>1, SameChain DEF ParentRecord
    <2> QED BY <1>4, <2>3, ChainedStays
  <1> QED BY <1>1, <1>2, <1>5, <1>6, <1>7, <1>9, <1>11, <1>12, <1>13 DEF ChainInv

\* The execution result is in place, and the evidence whole.
LEMMA Records ==
  ASSUME ResealInv, ChainInv, Record PROVE ChainInv'
  <1>1. /\ UNCHANGED <<tree, runs, residue>> /\ job.phase = "executed"
        /\ dir' = [dir EXCEPT !.execution = <<Me>>, !.evidence = @ \cup job.evidence]
        /\ job' = [job EXCEPT !.phase = "graded"]
    BY DEF Record
  <1>2. job # NoJob /\ JobInv /\ IsJob(job) /\ IsDir(dir) /\ Executed
    BY <1>1 DEF NoJob, ResealInv, JobInv, Standing, ChainInv
  <1>3. /\ dir'.hops = dir.hops /\ dir'.receipt = dir.receipt /\ dir'.record = dir.record
        /\ dir'.execution = <<Me>> /\ dir'.evidence = dir.evidence \cup job.evidence
    BY <1>1, <1>2 DEF IsDir
  <1>4. /\ job'.phase = "graded" /\ job'.scope = job.scope /\ job'.user = job.user
        /\ job'.files = job.files /\ job'.parent = job.parent /\ job'.kind = job.kind
        /\ job'.carried = job.carried /\ job'.evidence = job.evidence
        /\ job'.envelopes = job.envelopes
    BY <1>1, <1>2 DEF IsJob
  <1>5. job' # NoJob
    BY <1>4 DEF NoJob
  <1>6. RunsKept /\ \A d : ChainKept(d) => ChainKept(d)'
    BY <1>1, SameRuns
  <1>7. ChainKept(dir)' /\ ChainKept(job.user)'
    BY <1>2, <1>3, <1>4, <1>6 DEF ChainInv, ChainKept, HasHops
  <1>8. Executed'
    BY <1>1, <1>2, <1>3, <1>4 DEF Executed, Me
  <1>9. ASSUME job.scope = "reseal" PROVE Resealing'
    <2>1. Resealing
      BY <1>2, <1>9 DEF ChainInv
    <2>2. ASSUME NEW n \in Nat, NEW docs, OpenedBy(n, docs) PROVE OpenedBy(n, docs)'
      <3>1. Links(docs, n, dir.hops, 1)'
        BY <1>3, <1>6, <2>2, LinksStay DEF OpenedBy
      <3>2. CountOf(job.carried, Docs(docs, n), tree, job.files)'
        BY <1>1, <1>4, <2>2 DEF OpenedBy, CountOf, SameNumbers, Docs
      <3> QED BY <1>1, <1>4, <2>2, <3>1, <3>2 DEF OpenedBy, Carries, Docs, Me
    <2>3. 0..MaxHops - 1 \subseteq Nat
      BY ResealAssumption
    <2> QED BY <1>1, <1>3, <1>4, <2>1, <2>2, <2>3 DEF Resealing
  <1>10. ASSUME ~residue, job.scope # "reseal" PROVE Chained(dir)'
    <2>1. Chained(dir)
      BY <1>10 DEF ChainInv
    <2>2. ~ParentRecord(dir')
      BY <1>2, <1>3 DEF ParentRecord, Executed
    <2>3. Chained(dir')
      BY <1>3, <2>1, <2>2, SameChain
    <2> QED BY <1>6, <2>3, ChainedStays
  <1> QED BY <1>1, <1>2, <1>3, <1>4, <1>5, <1>7, <1>8, <1>9, <1>10 DEF ChainInv

----------------------------------------------------------------------------
(* The end of a run.                                                       *)

\* The receipt of directory d, if it is of this run, has all that goes with it.
OwnFiles(d) ==
    d.receipt = <<Me>> => d.execution = <<Me>> /\ d.evidence = runs[Me].evidence

\* The directory that a staged run leaves is d where d has a file.
LEMMA MergedFiles ==
  ASSUME NEW d, NEW u
  PROVE  LET m == Merged(d, u)
         IN /\ m.receipt = Or(d.receipt, u.receipt) /\ m.record = Or(d.record, u.record)
            /\ m.execution = Or(d.execution, u.execution) /\ m.evidence = d.evidence
            /\ IsHops(m.hops) /\ (HasHops(d) \/ HasHops(u) => HasHops(m))
  <1> DEFINE m == Merged(d, u)
  <1>1. /\ m.receipt = Or(d.receipt, u.receipt) /\ m.record = Or(d.record, u.record)
        /\ m.execution = Or(d.execution, u.execution) /\ m.evidence = d.evidence
        /\ m.hops = [i \in Positions |-> [x \in DOMAIN NoHop |-> Or(d.hops[i][x], u.hops[i][x])]]
    BY DEF Merged
  <1> HIDE DEF m
  <1>2. IsHops(m.hops)
    BY <1>1 DEF IsHops
  <1>3. \A i \in Positions : \A x \in DOMAIN NoHop :
          Exists(d.hops[i][x]) \/ Exists(u.hops[i][x]) => Exists(m.hops[i][x])
    BY <1>1 DEF Or
  <1> QED BY <1>1, <1>2, <1>3 DEF HasHops, m

\* A run ends with the files of directory d, alone or over those of the checkout.
LEMMA RunEnds ==
  ASSUME ResealInv, ChainInv, job # NoJob, job.phase # "running",
         NEW d, ChainKept(d), OwnFiles(d), NEW unfinished \in BOOLEAN, End(d, unfinished),
         ~unfinished /\ ~residue /\ d.hops # NoHops =>
           /\ d.receipt = <<Me>> /\ d.record = Absent
           /\ \E n \in 1..MaxHops : \E docs \in [0..n -> DOMAIN runs] :
                docs[0] = Me /\ Links(docs, n, d.hops, 0) /\ Sealed(docs, n, d.hops)
  PROVE  ChainInv'
  <1> DEFINE u == job.user
             final == IF job.staged THEN Merged(d, u) ELSE d
             m == Merged(d, u)
  <1>1. /\ dir' = final /\ job' = NoJob /\ UNCHANGED runs
        /\ residue' = ((residue \/ unfinished \/ final.hops # d.hops) /\ final.hops # NoHops)
    BY DEF End
  <1>2. /\ m.receipt = Or(d.receipt, u.receipt) /\ m.record = Or(d.record, u.record)
        /\ m.execution = Or(d.execution, u.execution) /\ m.evidence = d.evidence
        /\ IsHops(m.hops) /\ (HasHops(d) \/ HasHops(u) => HasHops(m))
    BY MergedFiles
  <1>3. Executed /\ ChainKept(u)
    BY DEF ChainInv
  <1>4. final = d \/ final = m
    OBVIOUS
  <1> HIDE DEF final, m
  <1>5. u.receipt # <<Me>> /\ u.record # <<Me>> /\ <<Me>> # Absent
    BY <1>3 DEF Executed, Absent
  <1>6. ChainKept(final)
    <2>1. ChainKept(m)
      BY <1>2, <1>3 DEF ChainKept, Or, Exists
    <2> QED BY <1>4, <2>1
  <1>7. final.receipt = <<Me>> => d.receipt = <<Me>>
    BY <1>2, <1>4, <1>5 DEF Or
  <1>8. OwnFiles(final)
    BY <1>2, <1>4, <1>5, <1>7 DEF OwnFiles, Or, Exists
  <1>9. ASSUME ~residue' PROVE Chained(final)
    <2>1. CASE final.hops = NoHops
      BY <2>1 DEF Chained
    <2>2. CASE final.hops # NoHops
      <3>1. ~residue /\ ~unfinished /\ final.hops = d.hops
        BY <1>1, <1>9, <2>2
      <3>2. d.receipt = <<Me>> /\ d.record = Absent
        BY <2>2, <3>1
      <3>3. PICK n \in 1..MaxHops : \E docs \in [0..n -> DOMAIN runs] :
               docs[0] = Me /\ Links(docs, n, d.hops, 0) /\ Sealed(docs, n, d.hops)
        BY <2>2, <3>1
      <3>4. PICK docs \in [0..n -> DOMAIN runs] :
               docs[0] = Me /\ Links(docs, n, d.hops, 0) /\ Sealed(docs, n, d.hops)
        BY <3>3
      <3>5. final.receipt = <<docs[0]>>
        BY <1>2, <1>4, <1>5, <3>2, <3>4 DEF Or, Exists
      <3>6. ~ParentRecord(final)
        <4>1. final.execution = <<Me>>
          BY <1>8, <3>4, <3>5 DEF OwnFiles
        <4>2. final.record \in {Absent, u.record}
          BY <1>2, <1>4, <3>2 DEF Or
        <4> QED BY <1>5, <4>1, <4>2 DEF ParentRecord, Exists
      <3>7. ChainOf(final, n, docs)
        BY <3>1, <3>4, <3>5, <3>6 DEF ChainOf
      <3> QED BY <3>7 DEF Chained
    <2> QED BY <2>1, <2>2
  <1>10. ~residue' => Chained(dir)'
    BY <1>1, <1>9, SameRuns, ChainedStays
  <1>11. Finished(dir)'
    BY <1>1, <1>8 DEF Finished, OwnFiles, Me
  <1>12. ChainKept(dir)'
    BY <1>1, <1>6, SameRuns
  <1> QED BY <1>1, <1>10, <1>11, <1>12 DEF ChainInv

\* The directory after k steps of sealing.
LEMMA SealedFiles ==
  ASSUME ResealInv, ChainInv, job.phase = "graded", NEW k \in Nat \ {0}
  PROVE  LET d == SealedDir(k)
         IN /\ ChainKept(d) /\ OwnFiles(d) /\ d.receipt = <<Me>>
            /\ k > 1 => d.record = Absent
            /\ job.scope = "reseal" =>
                 /\ Exists(d.hops[1].evidence) /\ d.hops # NoHops
                 /\ \A i \in Positions : i > 1 => d.hops[i] = dir.hops[i]
                 /\ k > 8 => d.hops[1] = WrittenHop(dir.hops[1], k - 3)
            /\ job.scope # "reseal" /\ k > 3 => d.hops = NoHops
  <1> DEFINE d == SealedDir(k)
             h == WrittenHop(dir.hops[1], IF k > 3 THEN k - 3 ELSE 0)
  <1>1. job # NoJob /\ JobInv /\ IsDir(dir) /\ Executed /\ ChainKept(dir)
        /\ runs[Me].scope = job.scope /\ 1 \in Positions
    BY ResealAssumption DEF NoJob, ResealInv, JobInv, Standing, ChainInv, Positions
  <1>2. /\ d.receipt = <<Me>> /\ d.execution = dir.execution /\ d.evidence = dir.evidence
        /\ k > 1 => d.record = Absent
        /\ d.hops = IF job.scope = "reseal" THEN [dir.hops EXCEPT ![1] = h]
                    ELSE IF k > 3 THEN NoHops ELSE dir.hops
    <2>1. d = [dir EXCEPT !.receipt = <<Me>>,
                !.record = IF k > 1 THEN Absent ELSE @,
                !.kept = IF k > 2 THEN <<[evidence |-> dir.evidence, envelope |-> Me]>> ELSE @,
                !.hops = IF job.scope = "reseal" THEN [dir.hops EXCEPT ![1] = h]
                         ELSE IF k > 3 THEN NoHops ELSE @]
      BY DEF SealedDir
    <2> HIDE DEF d, h
    <2> QED BY <1>1, <2>1 DEF IsDir
  <1>3. OwnFiles(d)
    BY <1>1, <1>2 DEF OwnFiles, Executed
  <1>4. ASSUME job.scope = "reseal"
        PROVE  /\ Exists(d.hops[1].evidence) /\ IsHops(d.hops)
               /\ \A i \in Positions : i > 1 => d.hops[i] = dir.hops[i]
               /\ d.hops[1] = h
    <2>1. DOMAIN dir.hops = Positions /\ \A i \in Positions : dir.hops[i] = [m \in DOMAIN NoHop |-> dir.hops[i][m]]
      BY <1>1 DEF ChainKept, IsHops
    <2>2. Exists(dir.hops[1].evidence)
      BY <1>1, <1>4 DEF ChainInv, Resealing
    <2> DEFINE j == IF k > 3 THEN k - 3 ELSE 0
    <2>3. \E a, b, c, e, f, g :
            h = [dir.hops[1] EXCEPT !.receipt = a, !.execution = b, !.catalog = c,
                                    !.evidence = e, !.envelopes = f, !.record = g]
            /\ e \in {<<job.evidence>>, dir.hops[1].evidence}
      <3> DEFINE old == dir.hops[1]
                 doc == IF job.kind = "receipt" THEN job.parent ELSE 0
                 a == IF j > 0 THEN <<doc>> ELSE old.receipt
                 b == IF j > 1 THEN <<job.parent>> ELSE old.execution
                 c == IF j > 2 THEN <<CatalogOf(tree)>> ELSE old.catalog
                 e == IF j > 3 THEN <<job.evidence>> ELSE old.evidence
                 f == IF j > 4 THEN <<job.envelopes>> ELSE old.envelopes
                 g == IF j > 5 THEN (IF doc = 0 THEN <<job.parent>> ELSE Absent) ELSE old.record
      <3>1. h = [old EXCEPT !.receipt = a, !.execution = b, !.catalog = c,
                            !.evidence = e, !.envelopes = f, !.record = g]
        BY DEF WrittenHop
      <3>2. e \in {<<job.evidence>>, old.evidence}
        OBVIOUS
      <3> HIDE DEF a, b, c, e, f, g, h
      <3> QED BY <3>1, <3>2
    <2>4. DOMAIN dir.hops[1] = DOMAIN NoHop
      BY <1>1, <2>1
    <2> HIDE DEF h
    <2>5. Exists(h.evidence) /\ DOMAIN h = DOMAIN NoHop
      BY <2>2, <2>3, <2>4, HopMembers, SMTT(30) DEF Exists, Absent
    <2>6. h = [m \in DOMAIN h |-> h[m]]
      BY <2>3
    <2> HIDE DEF h, d
    <2>7. h = [m \in DOMAIN NoHop |-> h[m]]
      BY <2>5, <2>6
    <2>8. d.hops = [dir.hops EXCEPT ![1] = h]
      BY <1>2, <1>4
    <2>9. IsHops(d.hops)
      BY <1>1, <2>1, <2>7, <2>8, SMTT(30) DEF IsHops
    <2> QED BY <1>1, <2>1, <2>5, <2>8, <2>9
  <1>5. \A hops : hops = NoHops => ~Exists(hops[1].evidence)
    BY <1>1, HopMembers DEF NoHops, Exists
  <1> HIDE DEF d
  <1>6. ChainKept(d)
    <2>1. CASE job.scope = "reseal"
      BY <1>1, <1>4, <2>1, HopMembers DEF ChainKept, HasHops
    <2>2. CASE job.scope # "reseal"
      <3>1. IsHops(NoHops)
        BY HopMembers DEF IsHops, NoHops, NoHop
      <3>2. d.receipt[1] = Me
        BY <1>2
      <3> QED BY <1>1, <1>2, <2>2, <3>1, <3>2 DEF ChainKept
    <2> QED BY <2>1, <2>2
  <1>7. k > 8 => (IF k > 3 THEN k - 3 ELSE 0) = k - 3
    OBVIOUS
  <1> QED BY <1>2, <1>3, <1>4, <1>5, <1>6, <1>7 DEF d

\* The hop that a whole re-seal writes.
LEMMA WrittenFiles ==
  ASSUME NEW old, DOMAIN old = DOMAIN NoHop, job.parent # 0
  PROVE  LET h == WrittenHop(old, 6)
         IN /\ h.execution = <<job.parent>> /\ h.catalog = <<CatalogOf(tree)>>
            /\ h.evidence = <<job.evidence>> /\ h.envelopes = <<job.envelopes>>
            /\ IF job.kind = "receipt" THEN h.receipt = <<job.parent>> /\ h.record = Absent
               ELSE h.receipt = <<0>> /\ h.record = <<job.parent>>
  <1> DEFINE doc == IF job.kind = "receipt" THEN job.parent ELSE 0
  <1>1. WrittenHop(old, 6) =
          [old EXCEPT !.receipt = <<doc>>, !.execution = <<job.parent>>,
                      !.catalog = <<CatalogOf(tree)>>, !.evidence = <<job.evidence>>,
                      !.envelopes = <<job.envelopes>>,
                      !.record = IF doc = 0 THEN <<job.parent>> ELSE Absent]
    BY DEF WrittenHop
  <1> QED BY <1>1, HopMembers

\* A re-seal that ends leaves a chain that is one hop longer.
LEMMA ChainGrows ==
  ASSUME ResealInv, ChainInv, job.phase = "graded", job.scope = "reseal", ~residue
  PROVE  \E n \in 1..MaxHops : \E docs \in [0..n -> DOMAIN runs] :
           /\ docs[0] = Me /\ Links(docs, n, SealedDir(9).hops, 0)
           /\ Sealed(docs, n, SealedDir(9).hops)
  <1> DEFINE hops == SealedDir(9).hops
             p == job.parent
  <1>0. /\ job # NoJob /\ JobInv /\ Executed /\ Resealing /\ ChainKept(dir)
        /\ MaxHops \in Nat /\ 1 \in Positions /\ Me \in DOMAIN runs /\ DOMAIN runs \subseteq Nat \ {0}
    <2>1. job # NoJob
      BY DEF NoJob
    <2>2. runs # << >> /\ runs \in Seq(RangeOf(runs))
      BY <2>1 DEF ResealInv, JobInv
    <2>3. Me \in DOMAIN runs /\ DOMAIN runs \subseteq Nat \ {0}
      BY <2>2 DEF Me
    <2> QED BY <2>1, <2>3, ResealAssumption DEF ResealInv, ChainInv, Positions
  <1>1. /\ runs[Me].scope = "reseal" /\ runs[Me].tree = tree /\ runs[Me].ran = job.files
        /\ runs[Me].parent = p /\ runs[Me].kind = job.kind /\ runs[Me].carried = job.carried
    BY <1>0 DEF JobInv, Executed
  <1>2. p \in DOMAIN runs /\ p # 0
    BY <1>0 DEF Resealing
  <1>3. /\ \A i \in Positions : i > 1 => hops[i] = dir.hops[i]
        /\ hops[1] = WrittenHop(dir.hops[1], 6)
    <2>1. 9 \in Nat \ {0} /\ 9 > 8 /\ 9 - 3 = 6
      OBVIOUS
    <2>2. /\ \A i \in Positions : i > 1 => SealedDir(9).hops[i] = dir.hops[i]
          /\ 9 > 8 => SealedDir(9).hops[1] = WrittenHop(dir.hops[1], 9 - 3)
      BY <2>1, SealedFiles
    <2> QED BY <2>1, <2>2
  <1> HIDE DEF hops
  <1>4. DOMAIN dir.hops[1] = DOMAIN NoHop
    BY <1>0 DEF ChainKept, IsHops
  <1>5. /\ hops[1].execution = <<p>> /\ hops[1].catalog = <<CatalogOf(tree)>>
        /\ hops[1].evidence = <<job.evidence>> /\ hops[1].envelopes = <<job.envelopes>>
        /\ IF job.kind = "receipt" THEN hops[1].receipt = <<p>> /\ hops[1].record = Absent
           ELSE hops[1].receipt = <<0>> /\ hops[1].record = <<p>>
    BY <1>2, <1>3, <1>4, WrittenFiles
  <1>6. Descends(Me, p)
    BY <1>0, <1>1 DEF Descends, Resealing
  <1>7. HopOf(hops[1], p, Me)
    <2>1. Exists(hops[1].evidence) /\ Exists(hops[1].envelopes) /\ hops[1].envelopes[1][1] = p
      BY <1>0, <1>5 DEF Exists, Absent, Resealing
    <2>2. \/ job.kind = "receipt"
          \/ job.kind = "record" /\ runs[p].scope = "full"
      BY <1>0 DEF Resealing
    <2>3. CatalogOf(runs[Me].tree) = CatalogOf(tree)
      BY <1>1
    <2> QED BY <1>1, <1>5, <1>6, <2>1, <2>2, <2>3 DEF HopOf
  <1>8. PICK n \in 0..MaxHops - 1 : \E docs \in [0..n -> DOMAIN runs] : OpenedBy(n, docs)
    BY <1>0 DEF Resealing
  <1>9. PICK docs \in [0..n -> DOMAIN runs] : OpenedBy(n, docs)
    BY <1>8
  <1> DEFINE new == [i \in 0..n + 1 |-> IF i = 0 THEN Me ELSE docs[i - 1]]
  <1>10. n \in Nat /\ n + 1 \in 1..MaxHops
    BY <1>0
  <1>11. /\ new \in [0..n + 1 -> DOMAIN runs] /\ new[0] = Me
         /\ \A i \in 1..n + 1 : i - 1 \in 0..n /\ new[i] = docs[i - 1]
    <2>1. \A i \in 1..n + 1 : i - 1 \in 0..n /\ i \in 0..n + 1 /\ i # 0
      BY <1>10
    <2>2. \A i \in 0..n + 1 : i # 0 => i \in 1..n + 1
      BY <1>10
    <2>3. 0 \in 0..n + 1
      BY <1>10
    <2> QED BY <1>0, <2>1, <2>2, <2>3
  <1> HIDE DEF new
  <1>12. /\ docs[0] = p /\ Links(docs, n, dir.hops, 1) /\ \A i \in 0..n : docs[i] # Me
         /\ Carries(job.evidence, Docs(docs, n), job.files)
         /\ CountOf(job.carried, Docs(docs, n), tree, job.files)
    BY <1>9 DEF OpenedBy
  <1>13. \A i \in 1..n + 1 : new[i] < new[0]
    <2>1. \A s \in DOMAIN runs : s # Me => s < Me
      <3>1. DOMAIN runs = 1..Len(runs) /\ Len(runs) \in Nat
        BY DEF ResealInv
      <3> QED BY <3>1 DEF Me
    <2> QED BY <1>11, <1>12, <2>1
  <1>14. ASSUME NEW i \in 1..n + 1 PROVE HopOf(hops[i + 0], new[i], new[i - 1])
    <2>1. CASE i = 1
      <3>1. new[i] = p /\ new[i - 1] = Me /\ i + 0 = 1
        BY <1>11, <1>12, <2>1
      <3> QED BY <1>7, <3>1
    <2>2. CASE i # 1
      <3>1. /\ i - 1 \in 1..n /\ i - 1 \in 1..n + 1 /\ i \in Positions /\ i > 1
            /\ (i - 1) + 1 = i /\ i + 0 = i
        BY <1>0, <1>10, <2>2 DEF Positions
      <3>2. new[i] = docs[i - 1] /\ new[i - 1] = docs[(i - 1) - 1]
        BY <1>11, <3>1
      <3>3. HopOf(dir.hops[i], docs[i - 1], docs[(i - 1) - 1])
        BY <1>12, <3>1 DEF Links
      <3> QED BY <1>3, <3>1, <3>2, <3>3
    <2> QED BY <2>1, <2>2
  <1>15. runs[new[n + 1]].scope = "full"
    <2>1. n + 1 \in 1..n + 1 /\ (n + 1) - 1 = n
      BY <1>10
    <2> QED BY <1>11, <1>12, <2>1 DEF Links
  <1>16. \A i \in Positions : i > (n + 1) + 0 => hops[i] = NoHop
    <2>1. \A i \in Positions : i > (n + 1) + 0 => i > n + 1 /\ i > 1
      BY <1>10 DEF Positions
    <2> QED BY <1>3, <1>12, <2>1 DEF Links
  <1>17. Links(new, n + 1, hops, 0)
    BY <1>11, <1>13, <1>14, <1>15, <1>16 DEF Links
  <1>18. Behind(new, n + 1) = Docs(docs, n)
    <2>1. \A x : x \in Behind(new, n + 1) <=> \E i \in 1..n + 1 : x = new[i]
      BY DEF Behind
    <2>2. \A x : x \in Docs(docs, n) <=> \E i \in 0..n : x = docs[i]
      BY DEF Docs
    <2>3. \A i \in 0..n : i + 1 \in 1..n + 1 /\ new[i + 1] = docs[i]
      <3>1. \A i \in 0..n : i + 1 \in 1..n + 1 /\ (i + 1) - 1 = i
        BY <1>10
      <3> QED BY <1>11, <3>1
    <2>4. \A x : x \in Behind(new, n + 1) <=> x \in Docs(docs, n)
      BY <1>11, <2>1, <2>2, <2>3
    <2> QED BY <2>4
  <1>19. Sealed(new, n + 1, hops)
    <2>1. hops[1].evidence[1] = job.evidence
      BY <1>5
    <2>2. /\ job.evidence \subseteq runs[Me].evidence
          /\ \A e \in runs[Me].evidence \ job.evidence : e.run = Me
      BY <1>0 DEF Executed
    <2> QED BY <1>1, <1>11, <1>12, <1>18, <2>1, <2>2 DEF Sealed
  <1> QED BY <1>10, <1>11, <1>17, <1>19 DEF hops

\* A run seals, a re-seal with the hop it opened.
LEMMA Seals == ASSUME ResealInv, ChainInv, SealRun PROVE ChainInv'
  <1> DEFINE d == SealedDir(SealSteps)
  <1>0. job.phase = "graded" /\ End(d, FALSE)
    BY Zenon DEF SealRun
  <1>1. job # NoJob /\ job.phase = "graded"
    BY <1>0 DEF NoJob
  <1>2. SealSteps = (IF job.scope = "reseal" THEN 9 ELSE 4) /\ SealSteps \in Nat \ {0}
    BY DEF SealSteps
  <1>3. /\ ChainKept(d) /\ OwnFiles(d) /\ d.receipt = <<Me>> /\ d.record = Absent
        /\ job.scope # "reseal" => d.hops = NoHops
    BY <1>1, <1>2, SealedFiles
  <1>4. ASSUME ~residue, d.hops # NoHops
        PROVE  \E n \in 1..MaxHops : \E docs \in [0..n -> DOMAIN runs] :
                 docs[0] = Me /\ Links(docs, n, d.hops, 0) /\ Sealed(docs, n, d.hops)
    <2>1. job.scope = "reseal" /\ d = SealedDir(9)
      BY <1>2, <1>3, <1>4
    <2> HIDE DEF d
    <2> QED BY <1>1, <1>4, <2>1, ChainGrows
  <1> HIDE DEF d
  <1> QED BY <1>0, <1>1, <1>3, <1>4, RunEnds

\* A run that found a problem leaves no receipt of its own.
LEMMA Fails == ASSUME ResealInv, ChainInv, NEW soft \in BOOLEAN, Fail(soft) PROVE ChainInv'
  <1> DEFINE d == IF soft THEN dir
                  ELSE [dir EXCEPT !.receipt = Absent, !.hops = NoHops, !.kept = Absent]
             e == [d EXCEPT !.record = <<Me>>,
                            !.kept = <<[evidence |-> dir.evidence, envelope |-> Me]>>]
             f == IF job.scope # "full" THEN d ELSE e
  <1>0. job.phase = "graded" /\ End(f, TRUE)
    BY Zenon DEF Fail
  <1>1. job # NoJob /\ job.phase = "graded"
    BY <1>0 DEF NoJob
  <1>2. IsDir(dir) /\ ChainKept(dir) /\ Executed
    BY <1>1 DEF ResealInv, Standing, ChainInv
  <1>3. d = dir \/ (d.receipt = Absent /\ d.hops = NoHops)
    BY <1>2 DEF IsDir
  <1>4. IsDir(d)
    BY <1>2 DEF IsDir
  <1> HIDE DEF d
  <1>5. /\ f.receipt = d.receipt /\ f.hops = d.hops
        /\ f.execution = d.execution /\ f.evidence = d.evidence
    BY <1>4 DEF IsDir
  <1> HIDE DEF f, e
  <1>6. ChainKept(f)
    <2>1. IsHops(NoHops)
      BY HopMembers DEF IsHops, NoHops, NoHop
    <2> QED BY <1>2, <1>3, <1>5, <2>1 DEF ChainKept, HasHops
  <1>7. OwnFiles(f)
    <2>1. <<Me>> # Absent /\ dir.receipt # <<Me>>
      BY <1>2 DEF Executed, Absent
    <2> QED BY <1>3, <1>5, <2>1 DEF OwnFiles
  <1> QED BY <1>0, <1>1, <1>6, <1>7, RunEnds

\* A run dies before it seals, or while it does.
LEMMA Dies == ASSUME ResealInv, ChainInv, Die PROVE ChainInv'
  <1>1. /\ job # NoJob /\ (job.phase # "running" \/ job.scope = "reseal")
        /\ job' = NoJob /\ UNCHANGED <<tree, runs, dir>>
        /\ residue' = ((residue \/ job.scope = "reseal") /\ dir.hops # NoHops)
    BY DEF Die
  <1>2. job.scope = "reseal" => dir.hops # NoHops
    <2>1. NoHops[1].evidence = Absent
      BY HopMembers, ResealAssumption DEF NoHops, Positions
    <2> QED BY <1>1, <2>1 DEF ChainInv, Resealing, Exists
  <1>3. ASSUME ~residue' PROVE ~residue /\ job.scope # "reseal" /\ job.phase # "running"
    BY <1>1, <1>2, <1>3 DEF ChainInv
  <1>4. ~residue' => Chained(dir)'
    BY <1>1, <1>3, SameRuns, ChainedStays DEF ChainInv
  <1>5. ~residue' => Finished(dir)'
    BY <1>1, <1>3 DEF ChainInv, Executed, Finished, Me
  <1>6. ChainKept(dir)' /\ (residue' => dir'.hops # NoHops)
    BY <1>1, SameRuns DEF ChainInv
  <1> QED BY <1>1, <1>4, <1>5, <1>6 DEF ChainInv

\* The receipt of a run that dies sealing has what goes with it.
LEMMA DiesSealing == ASSUME ResealInv, ChainInv, NEW k \in 1..8, DieSealing(k) PROVE ChainInv'
  <1> DEFINE d == SealedDir(k)
  <1>1. /\ job.phase = "graded" /\ job' = NoJob /\ UNCHANGED <<tree, runs>>
        /\ dir' = d /\ residue' = (d.hops # NoHops)
    BY DEF DieSealing
  <1>2. ChainKept(d) /\ OwnFiles(d)
    BY <1>1, SealedFiles
  <1> HIDE DEF d
  <1>3. ChainKept(dir)'
    BY <1>1, <1>2, SameRuns
  <1>4. Finished(dir)'
    BY <1>1, <1>2 DEF Finished, OwnFiles, Me
  <1>5. ~residue' => Chained(dir)'
    BY <1>1 DEF Chained
  <1> QED BY <1>1, <1>3, <1>4, <1>5 DEF ChainInv

\* Each step keeps the chain.
LEMMA ChainStep == ResealInv /\ ChainInv /\ [ResealNext]_resealVars => ChainInv'
  <1> SUFFICES ASSUME ResealInv, ChainInv, [ResealNext]_resealVars PROVE ChainInv'
    OBVIOUS
  <1>1. ASSUME NEW p \in Paths, NEW c \in Contents, EditTree(p, c) PROVE ChainInv'
    BY <1>1, IdleSteps DEF EditTree, Idle
  <1>2. ASSUME NEW staged \in BOOLEAN, StartFull(staged) PROVE ChainInv'
    BY <1>2, OthersStart DEF StartFull, Idle
  <1>3. ASSUME NEW files \in Slices, StartChanged(files) PROVE ChainInv'
    BY <1>3, OthersStart DEF StartChanged, Idle
  <1>4. CASE StartRefused
    BY <1>4, OthersStart DEF StartRefused, ResealDecided, Idle
  <1>5. ASSUME NEW staged \in BOOLEAN, NEW k \in 0..6 * MaxHops + 2, StartReseal(staged, k)
        PROVE  ChainInv'
    BY <1>5, ResealStarts, ResealAssumption
  <1>6. ASSUME NEW passed \in SUBSET Files, Execute(passed) PROVE ChainInv'
    BY <1>6, Executes
  <1>7. CASE Record
    BY <1>7, Records
  <1>8. CASE SealRun
    BY <1>8, Seals
  <1>9. ASSUME NEW soft \in BOOLEAN, Fail(soft) PROVE ChainInv'
    BY <1>9, Fails
  <1>10. CASE Die
    BY <1>10, Dies
  <1>11. ASSUME NEW k \in 1..8, DieSealing(k) PROVE ChainInv'
    BY <1>11, DiesSealing
  <1>12. CASE UNCHANGED resealVars
    <2>1. UNCHANGED <<tree, runs, dir, job, residue>>
      BY <1>12 DEF resealVars
    <2>2. ~residue /\ (job = NoJob \/ job.scope # "reseal") => Chained(dir)'
      BY <2>1, SameRuns, ChainedStays DEF ChainInv
    <2>3. Executed => Executed'
      BY <2>1 DEF Executed, Me
    <2>4. ASSUME NEW n, NEW docs, OpenedBy(n, docs) PROVE OpenedBy(n, docs)'
      BY <2>1, <2>4
      DEF OpenedBy, Links, HopOf, Descends, CountOf, SameNumbers, Carries, Docs, Me
    <2>5. Resealing => Resealing'
      BY <2>1, <2>4 DEF Resealing
    <2>6. ChainKept(dir)' /\ (job' # NoJob => ChainKept(job.user)')
      BY <2>1, SameRuns DEF ChainInv
    <2>7. Finished(dir) => Finished(dir)'
      BY <2>1 DEF Finished
    <2> QED BY <2>1, <2>2, <2>3, <2>5, <2>6, <2>7 DEF ChainInv
  <1> QED
    BY <1>1, <1>2, <1>3, <1>4, <1>5, <1>6, <1>7, <1>8, <1>9, <1>10, <1>11, <1>12 DEF ResealNext

\* Before the first run there is no chain.
LEMMA ChainFirst == ResealInit => ChainInv
  <1> SUFFICES ASSUME ResealInit PROVE ChainInv
    OBVIOUS
  <1>1. dir.receipt = Absent /\ dir.hops = NoHops /\ job = NoJob /\ residue = FALSE
    BY DEF ResealInit, EmptyDir
  <1>2. IsHops(NoHops)
    BY HopMembers DEF IsHops, NoHops, NoHop
  <1> QED BY <1>1, <1>2 DEF ChainInv, ChainKept, Chained, Finished, Absent

\* What a run re-seals its own consumer recomputes.
\* The chain of a sealed receipt is one that its consumer walks to the end.
LEMMA FinishedRecomputes == ASSUME ResealInv, ChainInv PROVE SealedRecomputes
  <1> DEFINE chain == ReadChain(dir.hops)
             Parents == {Doc(chain[i]) : i \in DOMAIN chain}
             r == Len(runs)
             last == runs[Len(runs)]
  <1> SUFFICES ASSUME job = NoJob, ~residue, Exists(dir.receipt), dir.receipt[1] = r,
                      \A s \in Parents \cup {r} : runs[s].scope = "reseal" => OfPassing(s),
                      \A s \in Parents, f \in Files \ last.ran :
                         runs[s].tree[f].tests = last.tree[f].tests
               PROVE  Accepts(last.tree)
    BY DEF SealedRecomputes
  <1>1. dir.receipt = <<r>> /\ r \in DOMAIN runs
    <2>1. PICK m \in DOMAIN runs : dir.receipt = <<m>>
      BY DEF ResealInv, Standing, Exists
    <2> QED BY <2>1
  <1>2. /\ ChainKept(dir) /\ Chained(dir) /\ dir.execution = dir.receipt
        /\ runs[r].scope = "reseal" => dir.evidence = runs[r].evidence
    BY <1>1 DEF ChainInv, Finished
  <1>3. ASSUME runs[r].scope = "reseal" PROVE Recomputes(r)
    <2>1. dir.hops # NoHops
      BY <1>1, <1>2, <1>3, NoFiles DEF ChainKept, Absent
    <2>2. PICK n \in 1..MaxHops : \E docs \in [0..n -> DOMAIN runs] : ChainOf(dir, n, docs)
      BY <1>2, <2>1 DEF Chained
    <2>3. PICK docs \in [0..n -> DOMAIN runs] : ChainOf(dir, n, docs)
      BY <2>2
    <2>4. docs[0] = r
      BY <1>1, <2>3 DEF ChainOf
    <2>5. DOMAIN chain = 1..n /\ \A i \in 1..n : Doc(chain[i]) = docs[i]
      <3>1. n \in 0..MaxHops
        BY ResealAssumption
      <3> QED BY <2>3, <3>1, LinksRead DEF ChainOf
    <2>6. Parents = Behind(docs, n)
      BY <2>5 DEF Behind
    <2> HIDE DEF Parents, r
    <2>7. \A d \in Docs(docs, n) : runs[d].scope = "reseal" => OfPassing(d)
      <3>1. \A i \in 0..n : i = 0 \/ i \in 1..n
        BY ResealAssumption
      <3>2. \A d \in Docs(docs, n) : d \in Parents \cup {r}
        BY <2>4, <2>6, <3>1 DEF Docs, Behind
      <3> QED BY <3>2
    <2>8. SameNumbers(Behind(docs, n), runs[docs[0]].tree, runs[docs[0]].ran)
      BY <2>4, <2>6 DEF SameNumbers, r
    <2> QED BY <1>2, <1>3, <2>3, <2>4, <2>7, <2>8, WalkRecomputes
  <1> QED BY <1>1, <1>2, <1>3 DEF Accepts

\* What a run re-seals its own consumer recomputes, whatever runs, deaths and
\* staged gates lie before it (resealChainBlocking of what test-gates sealed).
THEOREM SealedIsRecomputed == ResealSpec => []SealedRecomputes
  <1>1. ResealInv /\ ChainInv => SealedRecomputes
    BY FinishedRecomputes
  <1>2. ResealInit => ResealInv /\ ChainInv
    BY ResealFirst, ChainFirst
  <1>3. ResealInv /\ ChainInv /\ [ResealNext]_resealVars => (ResealInv /\ ChainInv)'
    BY ResealStep, ChainStep
  <1> QED BY <1>1, <1>2, <1>3, PTL DEF ResealSpec
============================================================================

-------------------------- MODULE SupervisionProofs --------------------------
(***************************************************************************)
(* Proofs about the supervision of a runner: the spool files (Spool), for  *)
(* any number of lines and any way they grow, and the drain (SpoolDrain),  *)
(* for any number of workers, tests and disturbances.  The drain's offset  *)
(* passes no line that was not handed over, lines are first handed over in *)
(* file order, and untorn events once.  A test has one session and the     *)
(* outcome the runner reported, it is finalized before it is sealed, and   *)
(* without lost calls the next test finds its slot and stop() leaves       *)
(* nothing open; the drain implements Supervision; a run whose lines are   *)
(* all written raises no conflict.                                         *)
(***************************************************************************)
EXTENDS Spool, SpoolDrain, TLAPS

----------------------------------------------------------------------------
(* The spool files.                                                        *)

\* A poll under way measured the file it is going to read, or less of it.
Measured == \A f \in Files : size[f] <= raw[f]

\* Until a poll meets a torn line, the events offset is a line boundary and
\* exactly the lines before it have been handed over.
EventsInStep ==
    "events" \notin torn =>
      /\ Trailing(readOffset["events"]) = 0
      /\ \A k \in LineNumbers : delivered["events"][k] > 0 => LineStart(k) < readOffset["events"]

SpoolInv == SpoolTypeOK /\ Measured /\ NothingSkipped /\ EventsInStep /\ EventsOnce

----------------------------------------------------------------------------
\* The end of the last complete line, as LineCells is three.
LEMMA TrailingBounds ==
    ASSUME NEW n \in Nat
    PROVE  /\ Trailing(n) \in 0..2 /\ n - Trailing(n) \in Nat /\ n - Trailing(n) <= n
           /\ Trailing(n - Trailing(n)) = 0
  BY DEF Trailing, LineCells

\* The lines follow each other on line boundaries.
LEMMA LineStarts ==
    ASSUME NEW k \in LineNumbers
    PROVE  /\ LineStart(k) \in Nat /\ Trailing(LineStart(k)) = 0
           /\ \A j \in 1..(k - 1) : j \in LineNumbers /\ LineStart(j) + LineCells <= LineStart(k)
  BY SpoolAssumption DEF LineNumbers, LineStart, LineCells, Trailing

\* A line that starts before the last newline is complete before it.
LEMMA LineCompletes ==
    ASSUME NEW k \in LineNumbers, NEW n \in Nat, LineStart(k) < n - Trailing(n)
    PROVE  LineStart(k) + LineCells <= n
  BY SpoolAssumption DEF LineNumbers, LineStart, LineCells, Trailing

\* A line whose text is complete in a file that ends with a newline ends there.
LEMMA TextCompletes ==
    ASSUME NEW k \in LineNumbers, NEW n \in Nat, Trailing(n) = 0, n >= LineStart(k) + LineCells - 1
    PROVE  LineStart(k) < n
  BY SpoolAssumption DEF LineNumbers, LineStart, LineCells, Trailing

\* The offset a poll resumes from never passes the last newline it read.
LEMMA NextOffsets ==
    ASSUME SpoolTypeOK, Measured, NEW f \in Files, size[f] # -1
    PROVE  /\ NextOffset(f) \in Nat /\ NextOffset(f) >= readOffset[f]
           /\ NextOffset(f) > readOffset[f] => NextOffset(f) <= raw[f] - Trailing(raw[f])
           /\ f = "events" => NextOffset(f) = readOffset[f] \/ NextOffset(f) = raw[f] - Trailing(raw[f])
  <1>1. raw[f] \in Nat /\ readOffset[f] \in Nat /\ size[f] \in Nat /\ size[f] <= raw[f]
    BY DEF SpoolTypeOK, Measured
  <1>2. Trailing(raw[f]) \in 0..2 /\ raw[f] - Trailing(raw[f]) \in Nat
    BY <1>1, TrailingBounds
  <1> QED
    BY <1>1, <1>2 DEF NextOffset, EventsNextOffset, IntentsNextOffset

\* What a read does to the deliveries of its file.
LEMMA Deliveries ==
    ASSUME SpoolTypeOK, NEW f \in Files, Read(f), NEW k \in LineNumbers
    PROVE  /\ delivered'[f][k] \in 0..2 /\ delivered[f][k] \in 0..2
           /\ delivered'[f][k] >= delivered[f][k]
           /\ Parsed(f, k) => delivered'[f][k] > 0
           /\ Parsed(f, k) /\ delivered[f][k] = 0 => delivered'[f][k] = 1
           /\ ~Parsed(f, k) => delivered'[f][k] = delivered[f][k]
  <1>1. delivered \in [Files -> [LineNumbers -> 0..2]]
    BY DEF SpoolTypeOK
  <1>2. delivered[f][k] \in 0..2
    BY <1>1
  <1>3. delivered'[f][k] = IF Parsed(f, k) /\ delivered[f][k] < 2 THEN delivered[f][k] + 1
                                                               ELSE delivered[f][k]
    BY <1>1 DEF Read
  <1> QED
    BY <1>2, <1>3

\* Every step keeps the types and Measured.
LEMMA TypeStep == SpoolInv /\ [SpoolNext]_spoolVars => SpoolTypeOK' /\ Measured'
  <1> SUFFICES ASSUME SpoolInv, [SpoolNext]_spoolVars PROVE SpoolTypeOK' /\ Measured'
    OBVIOUS
  <1>0. SpoolTypeOK /\ Measured
    BY DEF SpoolInv
  <1>1. ASSUME NEW f \in Files, NEW c \in Chunks, AppendCells(f, c) PROVE SpoolTypeOK' /\ Measured'
    BY <1>0, <1>1, SpoolAssumption DEF AppendCells, SpoolTypeOK, Measured
  <1>2. ASSUME NEW f \in Files, Stat(f) PROVE SpoolTypeOK' /\ Measured'
    BY <1>0, <1>2 DEF Stat, SpoolTypeOK, Measured
  <1>3. ASSUME NEW f \in Files, Read(f) PROVE SpoolTypeOK' /\ Measured'
    <2>1. delivered' \in [Files -> [LineNumbers -> 0..2]]
      <3>1. [k \in LineNumbers |-> IF Parsed(f, k) /\ delivered[f][k] < 2 THEN delivered[f][k] + 1
                             ELSE delivered[f][k]] \in [LineNumbers -> 0..2]
        BY <1>0 DEF SpoolTypeOK
      <3> QED
        BY <1>0, <1>3, <3>1 DEF Read, SpoolTypeOK
    <2>2. readOffset' \in [Files -> Nat]
      BY <1>0, <1>3, NextOffsets DEF Read, SpoolTypeOK
    <2>3. raw \in [Files -> Nat] /\ size \in [Files -> Nat \cup {-1}] /\ torn' \subseteq Files
      BY <1>0, <1>3 DEF Read, SpoolTypeOK
    <2> QED
      BY <1>0, <1>3, <2>1, <2>2, <2>3 DEF Read, SpoolTypeOK, Measured
  <1>4. CASE UNCHANGED spoolVars
    BY <1>0, <1>4 DEF spoolVars, SpoolTypeOK, Measured
  <1> QED
    BY <1>1, <1>2, <1>3, <1>4 DEF SpoolNext

\* No read leaves a line behind the offset, or hands one over before its
\* predecessors.
LEMMA SkippedStep == SpoolInv /\ [SpoolNext]_spoolVars => NothingSkipped'
  <1> SUFFICES ASSUME SpoolInv, [SpoolNext]_spoolVars PROVE NothingSkipped'
    OBVIOUS
  <1>0. SpoolTypeOK /\ Measured /\ NothingSkipped
    BY DEF SpoolInv
  <1>1. ASSUME UNCHANGED <<readOffset, delivered>> PROVE NothingSkipped'
    BY <1>0, <1>1 DEF NothingSkipped
  <1>2. ASSUME NEW f \in Files, Read(f) PROVE NothingSkipped'
    <2>0. /\ raw[f] \in Nat /\ readOffset[f] \in Nat
          /\ readOffset'[f] = NextOffset(f)
          /\ \A g \in Files : g # f => readOffset'[g] = readOffset[g] /\ delivered'[g] = delivered[g]
      BY <1>0, <1>2 DEF Read, SpoolTypeOK
    <2>1. ASSUME NEW k \in LineNumbers, LineStart(k) + LineCells - 1 <= raw[f] PROVE delivered'[f][k] > 0
      <3>1. CASE LineStart(k) < readOffset[f]
        <4>1. delivered[f][k] > 0
          BY <1>0, <3>1 DEF NothingSkipped
        <4> QED
          BY <1>0, <1>2, <4>1, Deliveries
      <3>2. CASE ~(LineStart(k) < readOffset[f])
        <4>1. Parsed(f, k)
          BY <2>0, <2>1, <3>2, LineStarts DEF Parsed, LineCells
        <4> QED
          BY <1>0, <1>2, <4>1, Deliveries
      <3> QED
        BY <3>1, <3>2
    <2>2. ASSUME NEW k \in LineNumbers, LineStart(k) < readOffset'[f] PROVE delivered'[f][k] > 0
      <3>1. CASE LineStart(k) < readOffset[f]
        <4>1. delivered[f][k] > 0
          BY <1>0, <3>1 DEF NothingSkipped
        <4> QED
          BY <1>0, <1>2, <4>1, Deliveries
      <3>2. CASE ~(LineStart(k) < readOffset[f])
        <4>1. /\ LineStart(k) \in Nat /\ NextOffset(f) > readOffset[f]
              /\ NextOffset(f) <= raw[f] - Trailing(raw[f]) /\ Trailing(raw[f]) \in 0..2
              /\ NextOffset(f) \in Nat
          BY <1>0, <1>2, <2>0, <2>2, <3>2, LineStarts, NextOffsets, TrailingBounds DEF Read
        <4>2. LineStart(k) + LineCells <= raw[f]
          BY <2>0, <2>2, <4>1, LineCompletes
        <4> QED
          BY <2>0, <2>1, <4>1, <4>2 DEF LineCells
      <3> QED
        BY <3>1, <3>2
    <2>3. ASSUME NEW k \in LineNumbers, delivered'[f][k] > 0, NEW j \in 1..(k - 1) PROVE delivered'[f][j] > 0
      <3>0. /\ j \in LineNumbers /\ LineStart(j) + LineCells <= LineStart(k)
            /\ LineStart(j) \in Nat /\ LineStart(k) \in Nat
        BY LineStarts
      <3>1. CASE delivered[f][k] > 0
        <4>1. delivered[f][j] > 0
          BY <1>0, <3>1 DEF NothingSkipped
        <4> QED
          BY <1>0, <1>2, <3>0, <4>1, Deliveries
      <3>2. CASE ~(delivered[f][k] > 0)
        <4>1. Parsed(f, k)
          BY <1>0, <1>2, <2>3, <3>2, Deliveries
        <4>2. LineStart(j) + LineCells - 1 <= raw[f]
          BY <2>0, <3>0, <4>1 DEF Parsed, LineCells
        <4> QED
          BY <2>1, <3>0, <4>2
      <3> QED
        BY <3>1, <3>2
    <2>4. ASSUME NEW g \in Files, g # f, NEW k \in LineNumbers
          PROVE  /\ LineStart(k) < readOffset'[g] => delivered'[g][k] > 0
                 /\ delivered'[g][k] > 0 => \A j \in 1..(k - 1) : delivered'[g][j] > 0
      BY <1>0, <2>0, <2>4 DEF NothingSkipped
    <2> QED
      BY <2>2, <2>3, <2>4 DEF NothingSkipped, LineStart
  <1> QED
    BY <1>1, <1>2 DEF SpoolNext, AppendCells, Stat, spoolVars

\* A read of a file that ends with a newline leaves the events offset on a
\* line boundary.
LEMMA EventsStep == SpoolInv /\ [SpoolNext]_spoolVars => EventsInStep' /\ EventsOnce'
  <1> SUFFICES ASSUME SpoolInv, [SpoolNext]_spoolVars PROVE EventsInStep' /\ EventsOnce'
    OBVIOUS
  <1>0. SpoolTypeOK /\ Measured /\ EventsInStep /\ EventsOnce
    BY DEF SpoolInv
  <1>1. ASSUME UNCHANGED <<readOffset, delivered, torn>> PROVE EventsInStep' /\ EventsOnce'
    BY <1>0, <1>1 DEF EventsInStep, EventsOnce, Trailing
  <1>2. CASE Read("intents")
    <2>1. /\ readOffset'["events"] = readOffset["events"] /\ delivered'["events"] = delivered["events"]
          /\ torn \subseteq torn'
      BY <1>0, <1>2 DEF Read, SpoolTypeOK, Files
    <2> QED
      BY <1>0, <2>1 DEF EventsInStep, EventsOnce, Trailing
  <1>3. CASE Read("events")
    <2> DEFINE f == "events"
    <2> SUFFICES ASSUME f \notin torn'
                 PROVE  /\ Trailing(readOffset'[f]) = 0
                        /\ \A k \in LineNumbers : delivered'[f][k] > 0 => LineStart(k) < readOffset'[f]
                        /\ \A k \in LineNumbers : delivered'[f][k] <= 1
      BY DEF EventsInStep, EventsOnce, Trailing, LineStart
    <2>0. /\ f \in Files /\ f \notin torn /\ Trailing(raw[f]) = 0 /\ size[f] # -1
          /\ raw[f] \in Nat /\ readOffset[f] \in Nat /\ readOffset'[f] = NextOffset(f)
      BY <1>0, <1>3 DEF Read, SpoolTypeOK, Files
    <2>1. /\ readOffset'[f] >= readOffset[f] /\ readOffset'[f] \in Nat
          /\ readOffset'[f] = readOffset[f] \/ readOffset'[f] = raw[f]
      BY <1>0, <2>0, NextOffsets
    <2>2. raw[f] <= readOffset'[f]
      BY <1>0, <2>0 DEF NextOffset, EventsNextOffset
    <2>3. Trailing(readOffset'[f]) = 0
      BY <1>0, <2>0, <2>1 DEF EventsInStep
    <2>4. ASSUME NEW k \in LineNumbers
          PROVE  /\ delivered'[f][k] > 0 => LineStart(k) < readOffset'[f]
                 /\ delivered'[f][k] <= 1
      <3>0. LineStart(k) \in Nat
        BY LineStarts
      <3>1. CASE Parsed(f, k)
        <4>1. LineStart(k) < raw[f]
          BY <2>0, <3>1, TextCompletes DEF Parsed
        <4>2. delivered[f][k] = 0
          BY <1>0, <1>3, <2>0, <3>0, <3>1, Deliveries DEF EventsInStep, Parsed
        <4> QED
          BY <1>0, <1>3, <2>0, <2>1, <2>2, <3>0, <3>1, <4>1, <4>2, Deliveries
      <3>2. CASE ~Parsed(f, k)
        <4>1. delivered'[f][k] = delivered[f][k]
          BY <1>0, <1>3, <2>0, <3>2, Deliveries
        <4> QED
          BY <1>0, <2>0, <2>1, <3>0, <4>1 DEF EventsInStep, EventsOnce
      <3> QED
        BY <3>1, <3>2
    <2> QED
      BY <2>3, <2>4
  <1> QED
    BY <1>1, <1>2, <1>3 DEF SpoolNext, AppendCells, Stat, Files, spoolVars

\* The invariant holds initially.
LEMMA SpoolInvInit == SpoolInit => SpoolInv
  BY SpoolAssumption
  DEF SpoolInit, SpoolInv, SpoolTypeOK, Measured, NothingSkipped, EventsInStep, EventsOnce, Trailing,
      LineStart, LineCells, Files, LineNumbers

\* Every step keeps the invariant.
LEMMA SpoolStep == SpoolInv /\ [SpoolNext]_spoolVars => SpoolInv'
  BY TypeStep, SkippedStep, EventsStep DEF SpoolInv

----------------------------------------------------------------------------
\* The spool files, the offsets and the deliveries keep their types.
THEOREM SpoolTypeCorrect == SpoolSpec => []SpoolTypeOK
  BY SpoolInvInit, SpoolStep, PTL DEF SpoolSpec, SpoolInv

\* readSpoolEvents and readPersistenceIntents never resume behind a line they
\* have not returned, and first return the lines in file order, although the
\* file grows between their stat and their read and a line may be torn.
THEOREM SpoolNothingSkipped == SpoolSpec => []NothingSkipped
  BY SpoolInvInit, SpoolStep, PTL DEF SpoolSpec, SpoolInv

\* readSpoolEvents resumes from what it read: unless it meets a torn line, no
\* lifecycle event is handled twice.
THEOREM SpoolEventsOnce == SpoolSpec => []EventsOnce
  BY SpoolInvInit, SpoolStep, PTL DEF SpoolSpec, SpoolInv

----------------------------------------------------------------------------
(* The drain.                                                              *)


\* Test t is one of worker w in run u.
Home(u, w, t) == \E i \in 1..Len(u.tests[w]) : u.tests[w][i] = t

\* The events a runner that reported res can have spooled.
Honest(u, res) ==
    {e \in Event : /\ Home(u, e.w, e.t)
                   /\ e.outcome # NULL => res[e.t] = e.outcome}

\* The outcomes that may wait for their seal, where aw is awaitingOutcome.
Sealable(u, res, aw) ==
    {c \in Workers \X Tests \X {"passed", "failed"} :
       Home(u, c[1], c[2]) /\ res[c[2]] = c[3] /\ aw[c[2]] # Absent}

\* What the runner has spooled stays true on its way through the drain.
LinesOf(u, res, aw) ==
    /\ file \in Seq(Honest(u, res))
    /\ settling \in Seq(Honest(u, res))
    /\ pc # "idle" => cur \in Honest(u, res)
    /\ \A w \in Workers : pendingByWorker[w] \in Seq({e \in Honest(u, res) : e.w = w})
    /\ chains \in Seq(Sealable(u, res, aw))
    /\ chainPc # "idle" => chains # << >>

Lines == LinesOf(setup, result, awaitingOutcome)

\* The drain has read a prefix of the file; a queue is there for every worker.
Position ==
    /\ offset \in 0..Len(file)
    /\ pendingByWorker = [w \in Workers |-> pendingByWorker[w]]

DrainType ==
    /\ pc \in {"idle", "open", "reopen", "release", "finalize", "seal", "next"}
    /\ cur \in Event \cup {NULL}
    /\ openByWorker \in [Workers -> Tests \cup {NULL}]
    /\ endedTests \subseteq Workers \X Tests
    /\ begunTests \subseteq Tests /\ conflicts \subseteq Tests
    /\ awaitingOutcome \in [Tests -> {Absent, NULL, "passed", "failed"}]
    /\ chainPc \in {"idle", "finalize", "seal"}
    /\ stop \in {"no", "draining", "done"}
    /\ {replays, faults} \subseteq Nat

WitnessType ==
    /\ wslot \in [Workers -> Tests \cup {NULL}]
    /\ wstatus \in [Tests -> {"none", "open", "outcome-pending", "sealed"}]
    /\ woutcome \in [Tests -> {NULL, "passed", "failed"}]
    /\ minted \in [Tests -> Nat]
    /\ late \subseteq Tests /\ refused \subseteq Tests

RunType ==
    /\ setup \in Setups
    /\ wpos \in [Workers -> Nat] /\ rpos \in [Workers -> Nat]
    /\ result \in [Tests -> {NULL, "passed", "failed"}]
    /\ alive \in BOOLEAN /\ {lost, rebegins} \subseteq Nat

\* The reporter has not passed a test that has no outcome.
Reported ==
    \A w \in Workers : \A i \in 1..Len(TestsOf[w]) :
      2 * i > rpos[w] => result[TestsOf[w][i]] = NULL

\* An open session of a test holds the slot of its worker, and a test without
\* a session has not had one.
Slots ==
    /\ \A w \in Workers : wslot[w] # NULL => Home(setup, w, wslot[w]) /\ wstatus[wslot[w]] = "open"
    /\ \A t \in Tests : wstatus[t] = "open" => \E w \in Workers : wslot[w] = t
    /\ \A t \in Tests : minted[t] = IF wstatus[t] = "none" THEN 0 ELSE 1

\* No begin of the test will be taken any more.
Over(w, t) == <<w, t>> \in endedTests \/ awaitingOutcome[t] # Absent \/ (stop # "no" /\ Settled)

OverWhenClosed ==
    \A w \in Workers, t \in Tests :
      Home(setup, w, t) /\ wstatus[t] \in {"outcome-pending", "sealed"} => Over(w, t)

\* A test whose release was answered has been released.
Released == \A t \in Tests : awaitingOutcome[t] # Absent => wstatus[t] = "outcome-pending"

\* What the drain holds open has not ended, and is open.
Held ==
    \A w \in Workers :
      LET t == openByWorker[w]
      IN  t # NULL => /\ wslot[w] = t /\ awaitingOutcome[t] = Absent
                      /\ <<w, t>> \notin endedTests

\* Where the current handler stands.
Handling ==
    /\ pc \in {"open", "reopen"} =>
         /\ openByWorker[cur.w] = NULL /\ awaitingOutcome[cur.t] = Absent
         /\ <<cur.w, cur.t>> \notin endedTests
    /\ pc \in {"release", "finalize", "seal"} =>
         /\ openByWorker[cur.w] = NULL /\ wslot[cur.w] = cur.t
         /\ <<cur.w, cur.t>> \in endedTests
    /\ pc = "reopen" => faults > 0

\* As long as no call is lost the slots of the witness are those of the drain.
InStep ==
    faults = 0 =>
      \A w \in Workers :
        wslot[w] # NULL => \/ openByWorker[w] = wslot[w]
                           \/ pc \in {"release", "finalize", "seal"} /\ cur.w = w

Stopped == stop = "done" => Settled /\ \A w \in Workers : openByWorker[w] = NULL

Basics ==
    RunType /\ DrainType /\ WitnessType /\ Position /\ Reported /\ Lines

\* The drain and the witness agree on who is open.
Agree == Slots /\ OverWhenClosed /\ Released /\ Held /\ Handling /\ InStep

Promises == OutcomeIsTheRunners /\ FinalizeBeforeSeal /\ NextTestFindsItsSlot

DrainInv == Basics /\ Agree /\ Promises /\ Stopped

----------------------------------------------------------------------------
(* Sequences of events.                                                    *)

\* A sequence over a set is one over every larger set.
LEMMA SeqGrows ==
    ASSUME NEW S, NEW T, \A x \in S : x \in T, NEW q \in Seq(S)
    PROVE  q \in Seq(T)
  <1>1. q \in [1..Len(q) -> S] /\ Len(q) \in Nat
    OBVIOUS
  <1>2. q \in [1..Len(q) -> T]
    BY <1>1
  <1> QED
    BY <1>1, <1>2

\* What the operations on sequences return.
LEMMA SeqParts ==
    ASSUME NEW S, NEW q \in Seq(S)
    PROVE  /\ Len(q) \in Nat /\ \A i \in 1..Len(q) : q[i] \in S
           /\ \A x \in S : Append(q, x) \in Seq(S)
           /\ q # << >> => Head(q) \in S /\ Tail(q) \in Seq(S)
           /\ \A m \in 1..(Len(q) + 1) : \A n \in m - 1..Len(q) : SubSeq(q, m, n) \in Seq(S)
  <1>1. Len(q) \in Nat /\ \A i \in 1..Len(q) : q[i] \in S
    OBVIOUS
  <1>2. \A x \in S : Append(q, x) \in Seq(S)
    OBVIOUS
  <1>3. q # << >> => Head(q) \in S /\ Tail(q) \in Seq(S)
    OBVIOUS
  <1>4. \A m \in 1..(Len(q) + 1) : \A n \in m - 1..Len(q) : SubSeq(q, m, n) \in Seq(S)
    OBVIOUS
  <1> QED
    BY <1>1, <1>2, <1>3, <1>4

\* What DrainAssumption says of tests, outcomes and setups.
LEMMA Constants ==
    /\ NULL \notin Tests /\ NULL \notin {"passed", "failed", "absent"} /\ MaxDisturbances \in Nat
    /\ \A u \in Setups : \A w \in Workers :
         /\ u.tests[w] \in Seq(Tests) /\ Len(u.tests[w]) \in Nat
         /\ \A i \in 1..Len(u.tests[w]) : u.tests[w][i] \in Tests
  BY DrainAssumption

\* A test has one place in a run.
LEMMA OnePlace ==
    ASSUME NEW u \in Setups, NEW w \in Workers, NEW v \in Workers,
           NEW i \in 1..Len(u.tests[w]), NEW j \in 1..Len(u.tests[v]),
           u.tests[w][i] = u.tests[v][j]
    PROVE  w = v /\ i = j
  BY DrainAssumption

\* A test belongs to one worker.
LEMMA OneHome ==
    ASSUME NEW u \in Setups, NEW w \in Workers, NEW v \in Workers, NEW t, Home(u, w, t), Home(u, v, t)
    PROVE  w = v /\ t \in Tests
  BY OnePlace, Constants DEF Home

\* The step of a worker's lifecycle that the runner takes next.
LEMMA Places ==
    ASSUME NEW p \in Nat, NEW n \in Nat, p + 1 <= 2 * n
    PROVE  /\ (p + 2) \div 2 \in 1..n
           /\ (p + 1) % 2 \in {0, 1}
           /\ (p + 1) % 2 = 0 => 2 * ((p + 2) \div 2) = p + 1
  OBVIOUS

----------------------------------------------------------------------------
(* The runner.                                                             *)

\* The drain changes nothing of the runner.
LEMMA DrainKeepsRun == ASSUME Drain \/ UNCHANGED vars PROVE UNCHANGED runnerVars
  <1>1. CASE UNCHANGED vars
    BY <1>1 DEF vars
  <1>2. CASE Poll \/ HandleEvent \/ OpenNextPending
    BY <1>2 DEF Poll, HandleEvent, OpenNextPending
  <1>3. CASE AwaitOpen \/ AwaitRelease \/ AwaitFinalize \/ AwaitSeal
    BY <1>3 DEF AwaitOpen, AwaitRelease, AwaitFinalize, AwaitSeal
  <1>4. CASE ChainStart \/ ChainFinalize \/ ChainSeal
    BY <1>4 DEF ChainStart, ChainFinalize, ChainSeal
  <1>5. CASE Stop \/ StopDone \/ \E w \in Workers : ForceClose(w)
    BY <1>5 DEF Stop, StopDone, ForceClose
  <1> QED
    BY <1>1, <1>2, <1>3, <1>4, <1>5 DEF Drain

\* What the reporter has reported stays.
ResultsStay == setup' = setup /\ \A t \in Tests : result[t] # NULL => result'[t] = result[t]

\* The reporter gives a test its first outcome when it ends it.
LEMMA ReporterSets ==
    ASSUME RunType, Reported, NEW w \in Workers, NEW o \in {"passed", "failed"}, ReporterStep(w, o)
    PROVE  /\ RunType' /\ Reported' /\ ResultsStay
           /\ LET p == rpos[w] + 1
              IN  /\ TestAt(w, p) \in Tests /\ Home(setup, w, TestAt(w, p))
                  /\ p % 2 # 1 => result'[TestAt(w, p)] = o
  <1> DEFINE r == rpos[w]
             i == (r + 2) \div 2
             t == TestsOf[w][i]
  <1>1. /\ setup \in Setups /\ r \in Nat /\ Len(TestsOf[w]) \in Nat
        /\ rpos \in [Workers -> Nat] /\ result \in [Tests -> {NULL, "passed", "failed"}]
        /\ r + 1 <= 2 * Len(TestsOf[w])
    BY Constants DEF RunType, ReporterStep, TestsOf
  <1>2. /\ i \in 1..Len(TestsOf[w]) /\ (r + 1) % 2 \in {0, 1}
        /\ (r + 1) % 2 = 0 => 2 * i = r + 1
    BY <1>1, Places
  <1>3. TestAt(w, r + 1) = t /\ t \in Tests /\ Home(setup, w, t)
    <2>1. (r + 1) + 1 = r + 2
      BY <1>1
    <2>2. TestAt(w, r + 1) = t
      BY <2>1 DEF TestAt
    <2>3. t \in Tests
      BY <1>1, <1>2, Constants DEF TestsOf
    <2>4. Home(setup, w, t)
      BY <1>2 DEF Home, TestsOf
    <2> QED
      BY <2>2, <2>3, <2>4
  <1>4. /\ setup' = setup /\ wpos' = wpos /\ alive' = alive /\ rebegins' = rebegins
        /\ rpos' = [rpos EXCEPT ![w] = r + 1]
        /\ result' = IF (r + 1) % 2 = 0 THEN [result EXCEPT ![t] = o] ELSE result
        /\ lost' \in {lost, lost + 1}
    BY <1>3 DEF ReporterStep, Append1
  <1> HIDE DEF i, t
  <1>5. RunType'
    <2>1. rpos' \in [Workers -> Nat] /\ result' \in [Tests -> {NULL, "passed", "failed"}]
      BY <1>1, <1>3, <1>4
    <2> QED
      BY <1>4, <2>1 DEF RunType
  <1>6. result[t] = NULL \/ (r + 1) % 2 # 0
    <2>1. ASSUME (r + 1) % 2 = 0 PROVE result[t] = NULL
      <3>1. 2 * i > rpos[w]
        BY <1>1, <1>2, <2>1
      <3> QED
        BY <1>2, <3>1 DEF Reported, t
    <2> QED
      BY <2>1
  <1>7. ResultsStay
    BY <1>1, <1>4, <1>6 DEF ResultsStay
  <1>8. ASSUME NEW v \in Workers, NEW j \in 1..Len(TestsOf[v]), 2 * j > rpos'[v]
        PROVE  result'[TestsOf[v][j]] = NULL
    <2>1. 2 * j > rpos[v] /\ j \in Nat
      BY <1>1, <1>4, <1>8, Constants DEF TestsOf
    <2>2. result[TestsOf[v][j]] = NULL
      BY <2>1 DEF Reported
    <2>3. CASE (r + 1) % 2 = 0
      <3>1. TestsOf[v][j] # t
        <4>1. SUFFICES ASSUME TestsOf[v][j] = t PROVE FALSE
          OBVIOUS
        <4>2. v = w /\ j = i
          BY <1>1, <1>2, <4>1, OnePlace DEF TestsOf, t
        <4> QED
          BY <1>1, <1>2, <1>4, <1>8, <2>3, <4>2
      <3> QED
        BY <1>1, <1>4, <2>2, <3>1, <2>3
    <2>4. CASE (r + 1) % 2 # 0
      BY <1>4, <2>2, <2>4
    <2> QED
      BY <2>3, <2>4
  <1>9. Reported'
    <2>1. TestsOf' = TestsOf
      BY <1>4 DEF TestsOf
    <2> QED
      BY <1>8, <2>1 DEF Reported
  <1>10. (r + 1) % 2 # 1 => result'[TestAt(w, r + 1)] = o
    BY <1>1, <1>2, <1>3, <1>4
  <1> QED
    BY <1>3, <1>5, <1>7, <1>9, <1>10

\* No step takes back what the reporter has reported.
LEMMA RunStep ==
    ASSUME RunType, Reported, [Next]_vars
    PROVE  RunType' /\ Reported' /\ ResultsStay
  <1>1. ASSUME UNCHANGED runnerVars PROVE RunType' /\ Reported' /\ ResultsStay
    BY <1>1 DEF runnerVars, RunType, Reported, TestsOf, ResultsStay
  <1>2. ASSUME NEW w \in Workers, WorkerStep(w) PROVE RunType' /\ Reported' /\ ResultsStay
    <2>1. /\ UNCHANGED <<setup, rpos, result, alive, rebegins>>
          /\ wpos' = [wpos EXCEPT ![w] = wpos[w] + 1] /\ lost' \in {lost, lost + 1}
      BY <1>2 DEF WorkerStep, Append1
    <2>2. wpos' \in [Workers -> Nat]
      BY <2>1 DEF RunType
    <2> QED
      BY <2>1, <2>2 DEF RunType, Reported, TestsOf, ResultsStay
  <1>3. ASSUME NEW w \in Workers, NEW t, Rebegin(w, t) PROVE RunType' /\ Reported' /\ ResultsStay
    BY <1>3 DEF Rebegin, RunType, Reported, TestsOf, ResultsStay
  <1>4. CASE RunnerExit
    BY <1>4 DEF RunnerExit, RunType, Reported, TestsOf, ResultsStay
  <1> QED
    BY <1>1, <1>2, <1>3, <1>4, DrainKeepsRun, ReporterSets DEF Next, Runner

----------------------------------------------------------------------------
(* Types, and what is on its way.                                          *)

\* What is known of an event the runner can have spooled.
LEMMA EventFields ==
    ASSUME NEW u, NEW res, NEW e \in Honest(u, res)
    PROVE  /\ e \in Event /\ e.kind \in {"testBegin", "testEnd"} /\ e.w \in Workers /\ e.t \in Tests
           /\ e.outcome \in {NULL, "passed", "failed"} /\ Home(u, e.w, e.t)
           /\ e.outcome # NULL => res[e.t] = e.outcome
  BY DEF Honest, Event

\* Basics contains TypeOK.
LEMMA BasicsTyped == Basics => TypeOK
  <1> SUFFICES ASSUME Basics PROVE TypeOK
    OBVIOUS
  <1>1. \A e \in Honest(setup, result) : e \in Event
    BY DEF Honest
  <1>2. file \in Seq(Event) /\ settling \in Seq(Event)
    BY <1>1, SeqGrows DEF Basics, Lines, LinesOf
  <1>3. pendingByWorker \in [Workers -> Seq(Event)]
    <2>1. \A w \in Workers : pendingByWorker[w] \in Seq(Event)
      <3> TAKE w \in Workers
      <3>1. pendingByWorker[w] \in Seq({e \in Honest(setup, result) : e.w = w})
        BY DEF Basics, Lines, LinesOf
      <3> QED
        BY <1>1, <3>1, SeqGrows
    <2> QED
      BY <2>1 DEF Basics, Position
  <1>4. chains \in Seq(Workers \X Tests \X {"passed", "failed"})
    <2>1. \A c \in Sealable(setup, result, awaitingOutcome) : c \in Workers \X Tests \X {"passed", "failed"}
      BY DEF Sealable
    <2> QED
      BY <2>1, SeqGrows DEF Basics, Lines, LinesOf
  <1> QED
    BY <1>2, <1>3, <1>4 DEF Basics, RunType, DrainType, WitnessType, Position, TypeOK

\* What is known of an outcome stays known.
AwaitingKept == \A t \in Tests : awaitingOutcome[t] # Absent => awaitingOutcome'[t] # Absent

\* What could be spooled can still be spooled,
LEMMA HonestStays ==
    ASSUME ResultsStay, NEW e \in Honest(setup, result)
    PROVE  e \in Honest(setup', result')
  BY DEF ResultsStay, Honest, Event

\* so what is on its way stays true.
LEMMA LinesStay ==
    ASSUME Basics, ResultsStay, AwaitingKept
    PROVE  LinesOf(setup', result', awaitingOutcome')
  <1> DEFINE H == Honest(setup, result)
             K == Honest(setup', result')
  <1>1. \A e \in H : e \in K
    BY HonestStays
  <1>2. file \in Seq(K) /\ settling \in Seq(K) /\ (pc # "idle" => cur \in K)
    <2>1. file \in Seq(H) /\ settling \in Seq(H) /\ (pc # "idle" => cur \in H)
      BY DEF Basics, Lines, LinesOf
    <2> HIDE DEF H, K
    <2> QED
      BY <1>1, <2>1, SeqGrows
  <1>3. \A w \in Workers : pendingByWorker[w] \in Seq({e \in K : e.w = w})
    <2> TAKE w \in Workers
    <2>1. pendingByWorker[w] \in Seq({e \in H : e.w = w})
      BY DEF Basics, Lines, LinesOf
    <2>2. \A x \in {e \in H : e.w = w} : x \in {e \in K : e.w = w}
      BY <1>1
    <2> HIDE DEF H, K
    <2> QED
      BY <2>1, <2>2, SeqGrows
  <1>4. chains \in Seq(Sealable(setup', result', awaitingOutcome'))
    <2>1. \A c \in Sealable(setup, result, awaitingOutcome) : c \in Sealable(setup', result', awaitingOutcome')
      <3> TAKE c \in Sealable(setup, result, awaitingOutcome)
      <3>1. /\ c \in Workers \X Tests \X {"passed", "failed"}
            /\ Home(setup, c[1], c[2]) /\ result[c[2]] = c[3] /\ awaitingOutcome[c[2]] # Absent
        BY DEF Sealable
      <3>2. c[2] \in Tests /\ c[3] # NULL
        BY <3>1, Constants
      <3>3. result'[c[2]] = c[3] /\ awaitingOutcome'[c[2]] # Absent /\ setup' = setup
        BY <3>1, <3>2 DEF ResultsStay, AwaitingKept
      <3> QED
        BY <3>1, <3>3 DEF Sealable
    <2> QED
      BY <2>1, SeqGrows DEF Basics, Lines, LinesOf
  <1> QED
    BY <1>2, <1>3, <1>4 DEF Basics, Lines, LinesOf

----------------------------------------------------------------------------
(* The runner writes what is true of its run.                              *)

\* The runner appends at most one event, which is true of its run.
LEMMA RunnerSpools ==
    ASSUME Basics, Runner
    PROVE  /\ file' = file \/ \E e \in Honest(setup', result') : file' = Append(file, e)
           /\ UNCHANGED <<pollVars, settling, pc, cur, mapVars, chainVars, stop, witVars, faults>>
  <1>1. RunType /\ Reported /\ setup \in Setups
    BY DEF Basics, RunType
  <1>2. CASE RunnerExit
    BY <1>2 DEF RunnerExit
  <1>3. ASSUME NEW w \in Workers, WorkerStep(w)
        PROVE  file' = file \/ \E e \in Honest(setup', result') : file' = Append(file, e)
    <2> DEFINE p == wpos[w] + 1
               i == (wpos[w] + 2) \div 2
               e == IF p % 2 = 1 THEN Begin(w, TestAt(w, p)) ELSE End(w, TestAt(w, p), NULL)
    <2>1. /\ wpos[w] \in Nat /\ Len(TestsOf[w]) \in Nat /\ wpos[w] + 1 <= 2 * Len(TestsOf[w])
      BY <1>1, <1>3, Constants DEF RunType, WorkerStep, TestsOf
    <2>2. i \in 1..Len(TestsOf[w])
      BY <2>1, Places
    <2>3. p + 1 = wpos[w] + 2
      BY <2>1
    <2>4. TestAt(w, p) = TestsOf[w][i]
      BY <2>3 DEF TestAt
    <2>5. TestAt(w, p) \in Tests /\ Home(setup, w, TestAt(w, p))
      BY <1>1, <2>2, <2>4, Constants DEF TestsOf, Home
    <2>6. e \in Honest(setup, result)
      BY <2>5 DEF Honest, Event, Begin, End
    <2>7. setup' = setup /\ result' = result
      BY <1>3 DEF WorkerStep
    <2>8. file' = Append(file, e) \/ file' = file
      BY <1>3 DEF WorkerStep, Append1
    <2> QED
      BY <2>6, <2>7, <2>8
  <1>4. ASSUME NEW w \in Workers, NEW o \in {"passed", "failed"}, ReporterStep(w, o)
        PROVE  file' = file \/ \E e \in Honest(setup', result') : file' = Append(file, e)
    <2> DEFINE p == rpos[w] + 1
               t == TestAt(w, p)
               e == IF p % 2 = 1 THEN Begin(w, t) ELSE End(w, t, o)
    <2>1. /\ t \in Tests /\ Home(setup, w, t) /\ setup' = setup
          /\ p % 2 # 1 => result'[t] = o
      BY <1>1, <1>4, ReporterSets DEF ResultsStay
    <2>2. e \in Honest(setup', result')
      BY <2>1 DEF Honest, Event, Begin, End
    <2>3. file' = Append(file, e) \/ file' = file
      BY <1>4 DEF ReporterStep, Append1
    <2> QED
      BY <2>2, <2>3
  <1>5. ASSUME NEW w \in Workers, NEW i \in 1..Len(TestsOf[w]), Rebegin(w, TestsOf[w][i])
        PROVE  \E e \in Honest(setup', result') : file' = Append(file, e)
    <2>1. TestsOf[w][i] \in Tests /\ Home(setup, w, TestsOf[w][i])
      BY <1>1, Constants DEF TestsOf, Home
    <2>2. Begin(w, TestsOf[w][i]) \in Honest(setup, result)
      BY <2>1 DEF Honest, Event, Begin
    <2> QED
      BY <1>5, <2>2 DEF Rebegin
  <1>6. UNCHANGED <<pollVars, settling, pc, cur, mapVars, chainVars, stop, witVars, faults>>
    <2>1. CASE RunnerExit
      BY <2>1 DEF RunnerExit
    <2>2. ASSUME NEW w \in Workers, WorkerStep(w)
          PROVE  UNCHANGED <<pollVars, settling, pc, cur, mapVars, chainVars, stop, witVars, faults>>
      BY <2>2 DEF WorkerStep
    <2>3. ASSUME NEW w \in Workers, NEW o, ReporterStep(w, o)
          PROVE  UNCHANGED <<pollVars, settling, pc, cur, mapVars, chainVars, stop, witVars, faults>>
      BY <2>3 DEF ReporterStep
    <2>4. ASSUME NEW w \in Workers, NEW t, Rebegin(w, t)
          PROVE  UNCHANGED <<pollVars, settling, pc, cur, mapVars, chainVars, stop, witVars, faults>>
      BY <2>4 DEF Rebegin
    <2> QED
      BY <2>1, <2>2, <2>3, <2>4 DEF Runner
  <1> QED
    BY <1>2, <1>3, <1>4, <1>5, <1>6 DEF Runner

\* Typing and lines, along the runner.
LEMMA RunnerKeepsBasics == ASSUME Basics, Runner PROVE Basics' /\ ResultsStay
  <1>1. RunType' /\ Reported' /\ ResultsStay
    BY RunStep DEF Basics, Next
  <1>2. UNCHANGED <<pollVars, settling, pc, cur, mapVars, chainVars, stop, witVars, faults>>
    BY RunnerSpools
  <1>3. DrainType' /\ WitnessType'
    BY <1>2 DEF Basics, DrainType, WitnessType, pollVars, mapVars, chainVars, witVars
  <1>4. LinesOf(setup', result', awaitingOutcome') /\ file \in Seq(Honest(setup', result'))
    <2>1. AwaitingKept
      BY <1>2 DEF AwaitingKept, mapVars
    <2> QED
      BY <1>1, <2>1, LinesStay DEF LinesOf
  <1>5. file' \in Seq(Honest(setup', result')) /\ Len(file) \in Nat /\ Len(file') \in Nat /\ Len(file) <= Len(file')
    BY <1>4, RunnerSpools, SeqParts
  <1>6. Position'
    BY <1>2, <1>5 DEF Basics, Position, pollVars, mapVars
  <1>7. Lines'
    BY <1>2, <1>4, <1>5 DEF Lines, LinesOf, mapVars, chainVars
  <1> QED
    BY <1>1, <1>3, <1>6, <1>7 DEF Basics

----------------------------------------------------------------------------
(* The calls on the witness.                                               *)

\* Typing, for an open,
LEMMA OpenTyped ==
    ASSUME WitnessType, NEW w \in Workers, NEW t \in Tests, WitnessOpen(w, t)
    PROVE  WitnessType'
  <1>1. CASE WitnessOpens(w, t) /\ wslot[w] = NULL
    <2>1. /\ wslot' = [wslot EXCEPT ![w] = t] /\ wstatus' = [wstatus EXCEPT ![t] = "open"]
          /\ woutcome' = [woutcome EXCEPT ![t] = NULL] /\ minted' = [minted EXCEPT ![t] = minted[t] + 1]
          /\ late' = late /\ refused' = refused
      BY <1>1 DEF WitnessOpen
    <2> QED
      BY <2>1 DEF WitnessType
  <1>2. CASE ~(WitnessOpens(w, t) /\ wslot[w] = NULL)
    <2>1. UNCHANGED <<wslot, wstatus, woutcome, minted, late>> /\ refused' \in {refused, refused \cup {t}}
      BY <1>2 DEF WitnessOpen
    <2> QED
      BY <2>1 DEF WitnessType
  <1> QED
    BY <1>1, <1>2

\* a release,
LEMMA ReleaseTyped ==
    ASSUME WitnessType, NEW w \in Workers, NEW t \in Tests, WitnessRelease(w, t)
    PROVE  WitnessType'
  <1>1. CASE wstatus[t] = "open"
    BY <1>1 DEF WitnessRelease, WitnessType
  <1>2. CASE wstatus[t] # "open"
    BY <1>2 DEF WitnessRelease, WitnessType, witVars
  <1> QED
    BY <1>1, <1>2

\* a close,
LEMMA CloseTyped ==
    ASSUME WitnessType, NEW w \in Workers, NEW t \in Tests, NEW o \in {NULL, "passed", "failed"},
           WitnessClose(w, t, o)
    PROVE  WitnessType'
  <1>1. CASE wstatus[t] = "open"
    BY <1>1 DEF WitnessClose, WitnessType
  <1>2. CASE wstatus[t] = "outcome-pending"
    <2>1. /\ woutcome' = [woutcome EXCEPT ![t] = o] \/ woutcome' = woutcome
          /\ UNCHANGED <<wslot, wstatus, minted, late, refused>>
      BY <1>2 DEF WitnessClose
    <2> QED
      BY <2>1 DEF WitnessType
  <1>3. CASE wstatus[t] \in {"none", "sealed"}
    BY <1>3 DEF WitnessClose, WitnessType, witVars
  <1> QED
    BY <1>1, <1>2, <1>3 DEF WitnessType

\* a finalize,
LEMMA FinalizeTyped ==
    ASSUME WitnessType, NEW t \in Tests, WitnessFinalize(t)
    PROVE  WitnessType'
  <1>1. late' \in {late, late \cup {t}} /\ UNCHANGED <<wslot, wstatus, woutcome, minted, refused>>
    BY DEF WitnessFinalize
  <1> QED
    BY <1>1 DEF WitnessType

\* and a call that was lost on its way.
LEMMA NoCallTyped == ASSUME WitnessType, UNCHANGED witVars PROVE WitnessType'
  BY DEF WitnessType, witVars

----------------------------------------------------------------------------
(* The drain: types and lines.                                             *)

\* The drain keeps the run, and what is on its way.
LEMMA DrainKeepsLines ==
    ASSUME Basics, UNCHANGED runnerVars, AwaitingKept
    PROVE  /\ RunType' /\ Reported' /\ ResultsStay
           /\ setup' = setup /\ result' = result /\ file' = file
           /\ LinesOf(setup, result, awaitingOutcome')
  <1>1. setup' = setup /\ result' = result /\ file' = file
    BY DEF runnerVars
  <1>2. RunType' /\ Reported' /\ ResultsStay
    BY DEF Basics, RunType, Reported, TestsOf, ResultsStay, runnerVars
  <1>3. LinesOf(setup', result', awaitingOutcome')
    BY <1>2, LinesStay
  <1> QED
    BY <1>1, <1>2, <1>3

\* A handler under way has an event of the runner.
LEMMA CurrentEvent ==
    ASSUME Basics, pc # "idle"
    PROVE  cur \in Honest(setup, result) /\ cur.w \in Workers /\ cur.t \in Tests
  BY EventFields DEF Basics, Lines, LinesOf

\* A chain under way has an outcome that was reported.
LEMMA FirstInChain ==
    ASSUME Basics, chainPc # "idle"
    PROVE  /\ chains # << >> /\ Head(chains)[1] \in Workers /\ Head(chains)[2] \in Tests
           /\ Head(chains)[3] \in {"passed", "failed"}
           /\ Head(chains) \in Sealable(setup, result, awaitingOutcome)
           /\ Tail(chains) \in Seq(Sealable(setup, result, awaitingOutcome))
  <1>1. chains \in Seq(Sealable(setup, result, awaitingOutcome)) /\ chains # << >>
    BY DEF Basics, Lines, LinesOf
  <1>2. /\ Head(chains) \in Sealable(setup, result, awaitingOutcome)
        /\ Tail(chains) \in Seq(Sealable(setup, result, awaitingOutcome))
    BY <1>1, SeqParts
  <1> QED
    BY <1>1, <1>2 DEF Sealable

\* drainOnce hands over what the file has past the offset.
LEMMA DrainOnceBasics ==
    ASSUME Basics, NEW again \in BOOLEAN, DrainOnce(again), UNCHANGED runnerVars
    PROVE  /\ settling' \in Seq(Honest(setup, result)) /\ offset' \in 0..Len(file)
           /\ replays' \in Nat
  <1>1. /\ file \in Seq(Honest(setup, result)) /\ settling \in Seq(Honest(setup, result))
        /\ offset \in 0..Len(file) /\ replays \in Nat
    BY DEF Basics, Lines, LinesOf, Position, DrainType
  <1>2. Len(file) \in Nat /\ offset \in Nat /\ Len(file) > offset
    BY <1>1, SeqParts DEF DrainOnce
  <1>3. SubSeq(file, offset + 1, Len(file)) \in Seq(Honest(setup, result))
    <2>1. offset + 1 \in 1..(Len(file) + 1) /\ Len(file) \in (offset + 1) - 1..Len(file)
      BY <1>1, <1>2
    <2> QED
      BY <1>1, <2>1, SeqParts
  <1>4. settling' \in Seq(Honest(setup, result))
    BY <1>1, <1>3 DEF DrainOnce
  <1>5. offset' \in 0..Len(file) /\ replays' \in Nat
    BY <1>1, <1>2 DEF DrainOnce
  <1> QED
    BY <1>4, <1>5

\* Typing and lines, for a poll and for stop(),
LEMMA PollBasics == ASSUME Basics, Poll \/ Stop PROVE Basics'
  <1>1. /\ UNCHANGED runnerVars /\ UNCHANGED <<pc, cur, mapVars, chainVars, witVars, faults>>
        /\ stop' \in {stop, "draining"}
    BY DEF Poll, Stop
  <1>2. /\ settling' \in Seq(Honest(setup, result)) /\ offset' \in 0..Len(file) /\ replays' \in Nat
    <2>1. CASE \E again \in BOOLEAN : DrainOnce(again)
      BY <1>1, <2>1, DrainOnceBasics
    <2>2. CASE UNCHANGED <<settling, pollVars>>
      BY <2>2 DEF pollVars, Basics, Lines, LinesOf, Position, DrainType
    <2> QED
      BY <2>1, <2>2 DEF Poll, Stop
  <1>3. AwaitingKept
    BY <1>1 DEF AwaitingKept, mapVars
  <1>4. /\ RunType' /\ Reported' /\ setup' = setup /\ result' = result /\ file' = file
        /\ LinesOf(setup, result, awaitingOutcome')
    BY <1>1, <1>3, DrainKeepsLines
  <1>5. DrainType' /\ WitnessType' /\ Position'
    BY <1>1, <1>2, <1>4 DEF Basics, DrainType, WitnessType, Position, mapVars, chainVars, witVars
  <1>6. Lines'
    BY <1>1, <1>2, <1>4 DEF Lines, LinesOf, mapVars, chainVars
  <1> QED
    BY <1>4, <1>5, <1>6 DEF Basics

\* A step that moves no event, but may take the first outcome off its chain.
LEMMA QueuesStay ==
    ASSUME Basics, UNCHANGED runnerVars, UNCHANGED <<offset, settling, cur, pendingByWorker>>,
           AwaitingKept, WitnessType', DrainType', pc' # "idle" => pc # "idle",
           \/ chains' = chains /\ (chainPc' # "idle" => chainPc # "idle" \/ chains # << >>)
           \/ chainPc # "idle" /\ chains' = Tail(chains) /\ chainPc' = "idle"
    PROVE  Basics'
  <1>1. /\ RunType' /\ Reported' /\ setup' = setup /\ result' = result /\ file' = file
        /\ LinesOf(setup, result, awaitingOutcome')
    BY DrainKeepsLines
  <1>2. Position'
    BY <1>1 DEF Basics, Position
  <1>3. chains' \in Seq(Sealable(setup, result, awaitingOutcome')) /\ (chainPc' # "idle" => chains' # << >>)
    <2>1. chains \in Seq(Sealable(setup, result, awaitingOutcome')) /\ (chainPc # "idle" => chains # << >>)
      BY <1>1 DEF LinesOf
    <2>2. chains # << >> => Tail(chains) \in Seq(Sealable(setup, result, awaitingOutcome'))
      BY <2>1, SeqParts
    <2> QED
      BY <2>1, <2>2
  <1>4. Lines'
    BY <1>1, <1>3 DEF Lines, LinesOf
  <1> QED
    BY <1>1, <1>2, <1>4 DEF Basics

\* for the answer to an open,
LEMMA AwaitOpenBasics == ASSUME Basics, AwaitOpen PROVE Basics'
  <1>1. cur.w \in Workers /\ cur.t \in Tests /\ pc # "idle"
    BY CurrentEvent DEF AwaitOpen
  <1>2. WitnessType'
    BY <1>1, OpenTyped, NoCallTyped DEF Basics, AwaitOpen, Faulty
  <1>3. /\ UNCHANGED runnerVars
        /\ UNCHANGED <<pollVars, settling, cur, pendingByWorker, endedTests, begunTests,
                       awaitingOutcome, conflicts, chainVars, stop>>
        /\ openByWorker' \in {openByWorker, [openByWorker EXCEPT ![cur.w] = cur.t]}
        /\ pc' \in {"idle", "reopen"} /\ faults' \in {faults, faults + 1}
    BY DEF AwaitOpen, Faulty
  <1>4. DrainType'
    BY <1>1, <1>3 DEF Basics, DrainType, pollVars, chainVars
  <1> QED
    BY <1>1, <1>2, <1>3, <1>4, QueuesStay DEF AwaitingKept, pollVars, chainVars

\* to a release,
LEMMA AwaitReleaseBasics == ASSUME Basics, AwaitRelease PROVE Basics'
  <1>1. cur.w \in Workers /\ cur.t \in Tests /\ pc # "idle"
    BY CurrentEvent DEF AwaitRelease
  <1>2. WitnessType'
    BY <1>1, ReleaseTyped, NoCallTyped DEF Basics, AwaitRelease, Faulty
  <1>3. /\ UNCHANGED runnerVars
        /\ UNCHANGED <<pollVars, settling, cur, openByWorker, pendingByWorker, endedTests,
                       begunTests, chainVars, stop>>
        /\ awaitingOutcome' \in {awaitingOutcome, [awaitingOutcome EXCEPT ![cur.t] = NULL]}
        /\ conflicts' \in {conflicts, conflicts \cup {cur.t}}
        /\ pc' = "next" /\ faults' \in {faults, faults + 1}
    BY DEF AwaitRelease, Faulty
  <1>4. DrainType'
    BY <1>1, <1>3 DEF Basics, DrainType, pollVars, chainVars
  <1>5. AwaitingKept
    BY <1>3, Constants DEF Basics, DrainType, AwaitingKept, Absent
  <1> QED
    BY <1>1, <1>2, <1>3, <1>4, <1>5, QueuesStay DEF pollVars, chainVars

\* to a finalize and a seal,
LEMMA AwaitSealBasics == ASSUME Basics, AwaitFinalize \/ AwaitSeal PROVE Basics'
  <1>1. cur.w \in Workers /\ cur.t \in Tests /\ pc # "idle" /\ cur.outcome \in {NULL, "passed", "failed"}
    BY CurrentEvent, EventFields DEF AwaitFinalize, AwaitSeal
  <1>2. WitnessType'
    BY <1>1, CloseTyped, FinalizeTyped, NoCallTyped DEF Basics, AwaitFinalize, AwaitSeal, Faulty
  <1>3. /\ UNCHANGED runnerVars
        /\ UNCHANGED <<pollVars, settling, cur, mapVars, chainVars, stop>>
        /\ pc' \in {"seal", "next"} /\ faults' \in {faults, faults + 1}
    BY DEF AwaitFinalize, AwaitSeal, Faulty
  <1>4. DrainType'
    BY <1>3 DEF Basics, DrainType, pollVars, mapVars, chainVars
  <1> QED
    BY <1>1, <1>2, <1>3, <1>4, QueuesStay DEF AwaitingKept, pollVars, mapVars, chainVars

\* for the chain of outcomes,
LEMMA ChainBasics == ASSUME Basics, ChainStart \/ ChainFinalize \/ ChainSeal PROVE Basics'
  <1>1. /\ UNCHANGED runnerVars
        /\ UNCHANGED <<pollVars, settling, pc, cur, mapVars, stop>>
        /\ faults' \in {faults, faults + 1} /\ chainPc' \in {"idle", "finalize", "seal"}
        /\ \/ chains' = chains /\ (chainPc # "idle" \/ chains # << >>)
           \/ chainPc # "idle" /\ chains' = Tail(chains) /\ chainPc' = "idle"
    BY DEF ChainStart, ChainFinalize, ChainSeal, Faulty
  <1>2. WitnessType'
    <2>1. CASE ChainStart
      BY <2>1, NoCallTyped DEF Basics, ChainStart
    <2>2. CASE ChainFinalize
      BY <2>2, FirstInChain, FinalizeTyped, NoCallTyped DEF Basics, ChainFinalize, Faulty
    <2>3. CASE ChainSeal
      BY <2>3, FirstInChain, CloseTyped, NoCallTyped DEF Basics, ChainSeal, Faulty
    <2> QED
      BY <2>1, <2>2, <2>3
  <1>3. DrainType'
    BY <1>1 DEF Basics, DrainType, pollVars, mapVars
  <1> QED
    BY <1>1, <1>2, <1>3, QueuesStay DEF AwaitingKept, pollVars, mapVars

\* for a force close,
LEMMA ForceCloseBasics == ASSUME Basics, NEW w \in Workers, ForceClose(w) PROVE Basics'
  <1>1. openByWorker[w] \in Tests /\ openByWorker' = [openByWorker EXCEPT ![w] = NULL]
    BY DEF Basics, DrainType, ForceClose
  <1>2. WitnessType'
    BY <1>1, CloseTyped, NoCallTyped DEF Basics, ForceClose, Faulty
  <1>3. /\ UNCHANGED runnerVars
        /\ UNCHANGED <<pollVars, settling, pc, cur, pendingByWorker, endedTests, begunTests,
                       awaitingOutcome, conflicts, chainVars, stop>>
        /\ faults' \in {faults, faults + 1}
    BY DEF ForceClose, Faulty
  <1>4. DrainType'
    BY <1>1, <1>3 DEF Basics, DrainType, pollVars, chainVars
  <1> QED
    BY <1>2, <1>3, <1>4, QueuesStay DEF AwaitingKept, pollVars, chainVars

\* and for the end of stop().
LEMMA StopDoneBasics == ASSUME Basics, StopDone PROVE Basics'
  <1>1. UNCHANGED runnerVars /\ UNCHANGED <<pollVars, settling, pc, cur, mapVars, chainVars, witVars, faults>>
        /\ stop' = "done"
    BY DEF StopDone
  <1>2. WitnessType' /\ DrainType'
    BY <1>1, NoCallTyped DEF Basics, DrainType, pollVars, mapVars, chainVars
  <1> QED
    BY <1>1, <1>2, QueuesStay DEF AwaitingKept, pollVars, mapVars, chainVars

\* The queues of begins, one per worker.
Queues(q, H) == q = [w \in Workers |-> q[w]] /\ \A w \in Workers : q[w] \in Seq({e \in H : e.w = w})

\* A begin joins the queue of its worker.
LEMMA QueueAppend ==
    ASSUME NEW H, NEW q, Queues(q, H), NEW e \in H, e.w \in Workers
    PROVE  Queues([q EXCEPT ![e.w] = Append(q[e.w], e)], H)
  <1> DEFINE r == [q EXCEPT ![e.w] = Append(q[e.w], e)]
  <1>1. q = [w \in Workers |-> q[w]] /\ \A w \in Workers : q[w] \in Seq({x \in H : x.w = w})
    BY DEF Queues
  <1>2. r = [w \in Workers |-> r[w]]
    BY <1>1, Zenon
  <1>3. Append(q[e.w], e) \in Seq({x \in H : x.w = e.w})
    BY <1>1, SeqParts
  <1>4. \A w \in Workers : r[w] = IF w = e.w THEN Append(q[e.w], e) ELSE q[w]
    BY <1>1, Zenon
  <1> HIDE DEF r
  <1>5. \A w \in Workers : r[w] \in Seq({x \in H : x.w = w})
    BY <1>1, <1>3, <1>4
  <1> QED
    BY <1>2, <1>5 DEF Queues, r

\* The queue of one worker is replaced.
LEMMA QueueSets ==
    ASSUME NEW H, NEW q, Queues(q, H), NEW v \in Workers, NEW x \in Seq({e \in H : e.w = v})
    PROVE  Queues([q EXCEPT ![v] = x], H)
  <1> DEFINE r == [q EXCEPT ![v] = x]
  <1>1. q = [w \in Workers |-> q[w]] /\ \A w \in Workers : q[w] \in Seq({e \in H : e.w = w})
    BY DEF Queues
  <1>2. r = [w \in Workers |-> r[w]]
    BY <1>1, Zenon
  <1>3. \A w \in Workers : r[w] = IF w = v THEN x ELSE q[w]
    BY <1>1, Zenon
  <1> HIDE DEF r
  <1>4. \A w \in Workers : r[w] \in Seq({e \in H : e.w = w})
    BY <1>1, <1>3
  <1> QED
    BY <1>2, <1>4 DEF Queues, r

\* What openSessionFor leaves, and when it goes on to open.
LEMMA OpenSessionForSets ==
    ASSUME Basics, NEW e \in Honest(setup, result), NEW pending, Queues(pending, Honest(setup, result)),
           OpenSessionFor(e, pending)
    PROVE  /\ Queues(pendingByWorker', Honest(setup, result))
           /\ begunTests' \subseteq Tests /\ conflicts' \subseteq Tests /\ pc' \in {"idle", "open"}
           /\ UNCHANGED <<openByWorker, endedTests, awaitingOutcome>>
           /\ pc' = "open" => /\ awaitingOutcome[e.t] = Absent /\ openByWorker[e.w] = NULL
                              /\ <<e.w, e.t>> \notin endedTests
  <1>1. e.w \in Workers /\ e.t \in Tests
    BY EventFields
  <1>2. /\ pendingByWorker' \in {pending, [pending EXCEPT ![e.w] = Append(pending[e.w], e)]}
        /\ UNCHANGED <<openByWorker, endedTests, awaitingOutcome>>
        /\ begunTests' = begunTests \cup {e.t} /\ conflicts' \in {conflicts, conflicts \cup {e.t}}
        /\ pc' \in {"idle", "open"}
        /\ pc' = "open" => /\ awaitingOutcome[e.t] = Absent /\ openByWorker[e.w] = NULL
                           /\ <<e.w, e.t>> \notin endedTests
    BY DEF OpenSessionFor
  <1>3. Queues(pendingByWorker', Honest(setup, result))
    BY <1>1, <1>2, QueueAppend
  <1>4. begunTests' \subseteq Tests /\ conflicts' \subseteq Tests
    BY <1>1, <1>2 DEF Basics, DrainType
  <1> QED
    BY <1>2, <1>3, <1>4

\* What a handler of the drain keeps when it has moved its events.
LEMMA HandlerBasics ==
    ASSUME Basics, UNCHANGED runnerVars, UNCHANGED <<offset, replays, stop, faults>>, UNCHANGED witVars,
           AwaitingKept, DrainType',
           settling' \in Seq(Honest(setup, result)), cur' \in Honest(setup, result),
           Queues(pendingByWorker', Honest(setup, result)),
           chainPc' = chainPc, chains' \in Seq(Sealable(setup, result, awaitingOutcome')),
           chains # << >> => chains' # << >>
    PROVE  Basics'
  <1>1. /\ RunType' /\ Reported' /\ setup' = setup /\ result' = result /\ file' = file
        /\ LinesOf(setup, result, awaitingOutcome')
    BY DrainKeepsLines
  <1>2. Position'
    BY <1>1 DEF Basics, Position, Queues
  <1>3. WitnessType'
    BY NoCallTyped DEF Basics
  <1>4. Lines'
    BY <1>1 DEF Lines, LinesOf, Queues
  <1> QED
    BY <1>1, <1>2, <1>3, <1>4 DEF Basics

\* The queues are queues of begins.
LEMMA QueuesHold == Basics => Queues(pendingByWorker, Honest(setup, result))
  BY DEF Basics, Position, Lines, LinesOf, Queues

\* The queue from the first begin that can be opened on.
LEMMA FirstOpenableHolds ==
    ASSUME Basics, NEW w \in Workers, NEW i \in FirstOpenable(w)
    PROVE  LET q == pendingByWorker[w]
           IN  /\ q[i] \in Honest(setup, result) /\ q[i].w = w /\ <<w, q[i].t>> \notin endedTests
               /\ Queues([pendingByWorker EXCEPT ![w] = SubSeq(q, i + 1, Len(q))], Honest(setup, result))
  <1> DEFINE q == pendingByWorker[w]
  <1>1. Queues(pendingByWorker, Honest(setup, result)) /\ q \in Seq({e \in Honest(setup, result) : e.w = w})
    BY QueuesHold DEF Queues
  <1>2. i \in 1..Len(q) /\ <<w, q[i].t>> \notin endedTests
    BY DEF FirstOpenable
  <1>3. q[i] \in {e \in Honest(setup, result) : e.w = w} /\ Len(q) \in Nat
    BY <1>1, <1>2, SeqParts
  <1>4. SubSeq(q, i + 1, Len(q)) \in Seq({e \in Honest(setup, result) : e.w = w})
    <2>1. i + 1 \in 1..(Len(q) + 1) /\ Len(q) \in (i + 1) - 1..Len(q)
      BY <1>2, <1>3
    <2> HIDE DEF q
    <2> QED
      BY <1>1, <2>1, SeqParts
  <1>5. Queues([pendingByWorker EXCEPT ![w] = SubSeq(q, i + 1, Len(q))], Honest(setup, result))
    BY <1>1, <1>4, QueueSets
  <1> QED
    BY <1>2, <1>3, <1>5

\* HandleEvent takes the first event, and leaves runner and witness alone.
LEMMA FirstEvent ==
    ASSUME Basics, HandleEvent
    PROVE  /\ cur' = Head(settling) /\ cur' \in Honest(setup, result) /\ cur' \in Event
           /\ cur'.w \in Workers /\ cur'.t \in Tests
           /\ settling' \in Seq(Honest(setup, result)) /\ pc = "idle"
           /\ UNCHANGED runnerVars /\ UNCHANGED pollVars /\ UNCHANGED <<stop, faults>> /\ UNCHANGED witVars
           /\ \/ TakeBegin(cur') \/ TakeEndOfSlot(cur') \/ TakeEndOfReleased(cur') \/ TakeLoneEnd(cur')
  <1>1. /\ cur' = Head(settling) /\ settling' = Tail(settling) /\ settling # << >> /\ pc = "idle"
        /\ UNCHANGED runnerVars /\ UNCHANGED pollVars /\ UNCHANGED <<stop, faults>> /\ UNCHANGED witVars
        /\ \/ TakeBegin(cur') \/ TakeEndOfSlot(cur') \/ TakeEndOfReleased(cur') \/ TakeLoneEnd(cur')
    BY DEF HandleEvent
  <1>2. settling \in Seq(Honest(setup, result))
    BY DEF Basics, Lines, LinesOf
  <1>3. cur' \in Honest(setup, result) /\ settling' \in Seq(Honest(setup, result))
    BY <1>1, <1>2, SeqParts
  <1> QED
    BY <1>1, <1>3, EventFields

\* Typing and lines, for the handler of an event,
LEMMA HandleEventBasics == ASSUME Basics, HandleEvent PROVE Basics'
  <1> DEFINE e == cur'
  <1>1. /\ e \in Honest(setup, result) /\ e \in Event /\ e.w \in Workers /\ e.t \in Tests
        /\ settling' \in Seq(Honest(setup, result))
        /\ UNCHANGED runnerVars /\ UNCHANGED <<offset, replays, stop, faults>> /\ UNCHANGED witVars
    BY FirstEvent DEF pollVars
  <1>2. ASSUME DrainType', AwaitingKept, Queues(pendingByWorker', Honest(setup, result)), chainPc' = chainPc,
               \/ chains' = chains
               \/ \E c \in Sealable(setup, result, awaitingOutcome') : chains' = Append(chains, c)
        PROVE  Basics'
    <2>1. chains \in Seq(Sealable(setup, result, awaitingOutcome'))
      BY <1>1, <1>2, DrainKeepsLines DEF LinesOf
    <2>2. chains' \in Seq(Sealable(setup, result, awaitingOutcome')) /\ (chains # << >> => chains' # << >>)
      BY <1>2, <2>1
    <2> QED
      BY <1>1, <1>2, <2>2, HandlerBasics
  <1>3. CASE TakeBegin(e)
    <2>1. OpenSessionFor(e, pendingByWorker) /\ UNCHANGED chainVars
      BY <1>3 DEF TakeBegin
    <2>2. /\ Queues(pendingByWorker', Honest(setup, result))
          /\ begunTests' \subseteq Tests /\ conflicts' \subseteq Tests /\ pc' \in {"idle", "open"}
          /\ UNCHANGED <<openByWorker, endedTests, awaitingOutcome>>
      BY <1>1, <2>1, QueuesHold, OpenSessionForSets
    <2>3. DrainType' /\ AwaitingKept
      BY <1>1, <2>1, <2>2 DEF Basics, DrainType, AwaitingKept, chainVars
    <2> QED
      BY <1>2, <2>1, <2>2, <2>3 DEF chainVars
  <1>4. CASE TakeEndOfSlot(e)
    <2>1. /\ openByWorker' = [openByWorker EXCEPT ![e.w] = NULL]
          /\ endedTests' = endedTests \cup {<<e.w, e.t>>}
          /\ pc' \in {"release", "finalize", "seal"}
          /\ UNCHANGED <<pendingByWorker, begunTests, awaitingOutcome, conflicts, chainVars>>
      BY <1>4 DEF TakeEndOfSlot
    <2>2. DrainType' /\ AwaitingKept
      BY <1>1, <2>1 DEF Basics, DrainType, AwaitingKept, chainVars
    <2>3. Queues(pendingByWorker', Honest(setup, result))
      BY <2>1, QueuesHold
    <2> QED
      BY <1>2, <2>1, <2>2, <2>3 DEF chainVars
  <1>5. CASE TakeEndOfReleased(e)
    <2>1. /\ pc' = "idle" /\ chainPc' = chainPc /\ conflicts' \in {conflicts, conflicts \cup {e.t}}
          /\ UNCHANGED <<openByWorker, pendingByWorker, endedTests, begunTests>>
          /\ \/ awaitingOutcome' = awaitingOutcome /\ chains' = chains
             \/ /\ e.outcome # NULL
                /\ awaitingOutcome' = [awaitingOutcome EXCEPT ![e.t] = e.outcome]
                /\ chains' = Append(chains, <<e.w, e.t, e.outcome>>)
      BY <1>5 DEF TakeEndOfReleased
    <2>2. e.outcome \in {NULL, "passed", "failed"} /\ Home(setup, e.w, e.t)
          /\ (e.outcome # NULL => result[e.t] = e.outcome)
      BY <1>1, EventFields
    <2>3. DrainType' /\ AwaitingKept
      BY <1>1, <2>1, <2>2, Constants DEF Basics, DrainType, AwaitingKept, Absent
    <2>4. \/ chains' = chains
          \/ \E c \in Sealable(setup, result, awaitingOutcome') : chains' = Append(chains, c)
      <3>1. ASSUME e.outcome # NULL, awaitingOutcome' = [awaitingOutcome EXCEPT ![e.t] = e.outcome]
            PROVE  <<e.w, e.t, e.outcome>> \in Sealable(setup, result, awaitingOutcome')
        <4>1. awaitingOutcome'[e.t] = e.outcome /\ e.outcome \in {"passed", "failed"}
          BY <1>1, <2>2, <3>1 DEF Basics, DrainType
        <4>2. result[e.t] = e.outcome /\ awaitingOutcome'[e.t] # Absent /\ Home(setup, e.w, e.t)
          BY <2>2, <3>1, <4>1 DEF Absent
        <4> DEFINE c == <<e.w, e.t, e.outcome>>
        <4>3. c \in Workers \X Tests \X {"passed", "failed"} /\ c[1] = e.w /\ c[2] = e.t /\ c[3] = e.outcome
          BY <1>1, <4>1
        <4> HIDE DEF c
        <4> QED
          BY <4>2, <4>3 DEF Sealable, c
      <3> QED
        BY <2>1, <3>1
    <2>5. Queues(pendingByWorker', Honest(setup, result))
      BY <2>1, QueuesHold
    <2> QED
      BY <1>2, <2>1, <2>3, <2>4, <2>5
  <1>6. CASE TakeLoneEnd(e)
    <2>1. /\ pc' = "idle" /\ conflicts' \in {conflicts, conflicts \cup {e.t}}
          /\ UNCHANGED <<openByWorker, pendingByWorker, endedTests, begunTests, awaitingOutcome, chainVars>>
      BY <1>6 DEF TakeLoneEnd
    <2>2. DrainType' /\ AwaitingKept
      BY <1>1, <2>1 DEF Basics, DrainType, AwaitingKept, chainVars
    <2>3. Queues(pendingByWorker', Honest(setup, result))
      BY <2>1, QueuesHold
    <2> QED
      BY <1>2, <2>1, <2>2, <2>3 DEF chainVars
  <1> QED
    BY <1>3, <1>4, <1>5, <1>6, FirstEvent

\* for the next begin of a worker,
LEMMA OpenNextPendingBasics == ASSUME Basics, OpenNextPending PROVE Basics'
  <1> DEFINE w == cur.w
             q == pendingByWorker[w]
  <1>1. /\ UNCHANGED runnerVars /\ UNCHANGED witVars
        /\ UNCHANGED <<offset, replays, settling, chains, chainPc, stop, faults>>
        /\ cur \in Honest(setup, result) /\ w \in Workers
        /\ settling \in Seq(Honest(setup, result))
    BY CurrentEvent DEF OpenNextPending, pollVars, chainVars, Basics, Lines, LinesOf
  <1>2. ASSUME DrainType', AwaitingKept, Queues(pendingByWorker', Honest(setup, result)),
               cur' \in Honest(setup, result)
        PROVE  Basics'
    <2>1. chains' \in Seq(Sealable(setup, result, awaitingOutcome'))
      BY <1>1, <1>2, DrainKeepsLines DEF LinesOf
    <2> QED
      BY <1>1, <1>2, <2>1, HandlerBasics
  <1>3. CASE /\ pendingByWorker' = [pendingByWorker EXCEPT ![w] = << >>] /\ pc' = "idle"
             /\ UNCHANGED <<cur, openByWorker, endedTests, begunTests, awaitingOutcome, conflicts>>
    <2>1. DrainType' /\ AwaitingKept
      BY <1>1, <1>3 DEF Basics, DrainType, AwaitingKept
    <2>2. << >> \in Seq({e \in Honest(setup, result) : e.w = w})
      OBVIOUS
    <2>3. Queues(pendingByWorker', Honest(setup, result))
      BY <1>1, <1>3, <2>2, QueuesHold, QueueSets
    <2> QED
      BY <1>1, <1>2, <1>3, <2>1, <2>3
  <1>4. ASSUME NEW i \in FirstOpenable(w), cur' = q[i],
               OpenSessionFor(q[i], [pendingByWorker EXCEPT ![w] = SubSeq(q, i + 1, Len(q))])
        PROVE  Basics'
    <2>1. /\ q[i] \in Honest(setup, result)
          /\ Queues([pendingByWorker EXCEPT ![w] = SubSeq(q, i + 1, Len(q))], Honest(setup, result))
      BY <1>1, FirstOpenableHolds
    <2>2. /\ Queues(pendingByWorker', Honest(setup, result))
          /\ begunTests' \subseteq Tests /\ conflicts' \subseteq Tests /\ pc' \in {"idle", "open"}
          /\ UNCHANGED <<openByWorker, endedTests, awaitingOutcome>>
      BY <1>4, <2>1, OpenSessionForSets
    <2>3. cur' \in Event
      BY <1>4, <2>1, EventFields
    <2>4. DrainType' /\ AwaitingKept
      BY <1>1, <2>2, <2>3 DEF Basics, DrainType, AwaitingKept
    <2> QED
      BY <1>2, <1>4, <2>1, <2>2, <2>4
  <1> QED
    BY <1>3, <1>4 DEF OpenNextPending

\* and for every step.
LEMMA BasicsStep == ASSUME Basics, [Next]_vars PROVE Basics' /\ ResultsStay
  <1>1. CASE Runner
    BY <1>1, RunnerKeepsBasics
  <1>2. CASE UNCHANGED vars
    <2>1. UNCHANGED runnerVars /\ UNCHANGED <<pollVars, settling, pc, cur, mapVars, chainVars, stop, faults>> /\ UNCHANGED witVars
      BY <1>2 DEF vars
    <2>2. DrainType' /\ WitnessType'
      BY <2>1, NoCallTyped DEF Basics, DrainType, pollVars, mapVars, chainVars
    <2>3. AwaitingKept
      BY <2>1 DEF AwaitingKept, mapVars
    <2>4. Basics'
      BY <2>1, <2>2, <2>3, QueuesStay DEF pollVars, mapVars, chainVars
    <2>5. ResultsStay
      BY <2>1 DEF ResultsStay, runnerVars
    <2> QED
      BY <2>4, <2>5
  <1>3. CASE Drain
    <2>1. Basics'
      BY <1>3, PollBasics, HandleEventBasics, AwaitOpenBasics, AwaitReleaseBasics, AwaitSealBasics,
         OpenNextPendingBasics, ChainBasics, ForceCloseBasics, StopDoneBasics DEF Drain
    <2>2. UNCHANGED runnerVars
      BY <1>3, DrainKeepsRun
    <2> QED
      BY <2>1, <2>2 DEF ResultsStay, runnerVars
  <1> QED
    BY <1>1, <1>2, <1>3 DEF Next

----------------------------------------------------------------------------
(* What no step takes back.                                                *)

Closed(s) == s \in {"outcome-pending", "sealed"}

OverStays ==
    /\ AwaitingKept /\ endedTests \subseteq endedTests'
    /\ stop # "no" /\ Settled => stop' # "no" /\ Settled'

\* No step reopens a lifecycle that is over.
LEMMA OverStaysStep == ASSUME Basics, [Next]_vars PROVE OverStays
  <1> USE DEF Settled
  <1>1. CASE Runner
    BY <1>1, RunnerSpools DEF OverStays, AwaitingKept, mapVars, chainVars
  <1>2. CASE UNCHANGED vars
    BY <1>2 DEF vars, OverStays, AwaitingKept, mapVars, chainVars
  <1>3. CASE Poll
    BY <1>3 DEF Poll, OverStays, AwaitingKept, mapVars, chainVars
  <1>4. CASE HandleEvent
    <2> DEFINE e == cur'
    <2>1. /\ settling # << >> /\ e \in Honest(setup, result) /\ e.outcome \in {NULL, "passed", "failed"} /\ e.t \in Tests
      BY <1>4, FirstEvent, EventFields DEF HandleEvent
    <2>2. /\ endedTests \subseteq endedTests'
          /\ awaitingOutcome' \in {awaitingOutcome, [awaitingOutcome EXCEPT ![e.t] = e.outcome]}
      <3>1. CASE TakeBegin(e)
        BY <3>1 DEF TakeBegin, OpenSessionFor
      <3>2. CASE TakeEndOfSlot(e)
        BY <3>2 DEF TakeEndOfSlot
      <3>3. CASE TakeEndOfReleased(e)
        BY <3>3 DEF TakeEndOfReleased
      <3>4. CASE TakeLoneEnd(e)
        BY <3>4 DEF TakeLoneEnd
      <3> QED
        BY <1>4, <3>1, <3>2, <3>3, <3>4, FirstEvent
    <2>3. e.outcome # Absent
      BY <2>1, Constants DEF Absent
    <2>4. AwaitingKept
      BY <2>1, <2>2, <2>3 DEF Basics, DrainType, AwaitingKept
    <2> QED
      BY <2>1, <2>2, <2>4 DEF OverStays
  <1>5. CASE AwaitOpen
    BY <1>5 DEF AwaitOpen, OverStays, AwaitingKept, chainVars
  <1>6. CASE AwaitRelease
    <2>1. /\ pc = "release" /\ endedTests' = endedTests
          /\ awaitingOutcome' \in {awaitingOutcome, [awaitingOutcome EXCEPT ![cur.t] = NULL]}
      BY <1>6 DEF AwaitRelease
    <2> QED
      BY <2>1, Constants DEF OverStays, AwaitingKept, Basics, DrainType, Absent
  <1>7. CASE AwaitFinalize \/ AwaitSeal
    BY <1>7 DEF AwaitFinalize, AwaitSeal, OverStays, AwaitingKept, mapVars
  <1>8. CASE OpenNextPending
    <2>1. pc = "next" /\ endedTests' = endedTests /\ awaitingOutcome' = awaitingOutcome
      BY <1>8 DEF OpenNextPending, OpenSessionFor
    <2> QED
      BY <2>1 DEF OverStays, AwaitingKept
  <1>9. CASE ChainStart \/ ChainFinalize \/ ChainSeal
    BY <1>9 DEF ChainStart, ChainFinalize, ChainSeal, OverStays, AwaitingKept, mapVars
  <1>10. CASE Stop \/ StopDone
    BY <1>10 DEF Stop, StopDone, OverStays, AwaitingKept, mapVars, chainVars
  <1>11. ASSUME NEW w \in Workers, ForceClose(w) PROVE OverStays
    BY <1>11 DEF ForceClose, OverStays, AwaitingKept, chainVars
  <1> QED
    BY <1>1, <1>2, <1>3, <1>4, <1>5, <1>6, <1>7, <1>8, <1>9, <1>10, <1>11 DEF Next, Drain

\* A lifecycle that is over stays over.
LEMMA OverKept ==
    ASSUME OverStays, NEW w, NEW t \in Tests, Over(w, t)
    PROVE  Over(w, t)'
  BY DEF OverStays, AwaitingKept, Over

\* It suffices that a session is closed by a step only if its lifecycle is
\* over.
LEMMA OverWhenClosedStep ==
    ASSUME Basics, OverWhenClosed, OverStays, setup' = setup,
           \A w \in Workers, t \in Tests :
             Home(setup, w, t) /\ Closed(wstatus'[t]) => Closed(wstatus[t]) \/ Over(w, t)'
    PROVE  OverWhenClosed'
  <1> SUFFICES ASSUME NEW w \in Workers, NEW t \in Tests, Home(setup', w, t),
                      wstatus'[t] \in {"outcome-pending", "sealed"}
               PROVE  Over(w, t)'
    BY DEF OverWhenClosed
  <1>1. CASE Closed(wstatus[t])
    <2>1. Over(w, t)
      BY <1>1 DEF OverWhenClosed, Closed
    <2> QED
      BY <2>1, OverKept
  <1>2. CASE ~Closed(wstatus[t])
    BY <1>2 DEF Closed
  <1> QED
    BY <1>1, <1>2

\* Nothing happens after stop() has returned.
LEMMA StoppedStep == ASSUME Basics, Stopped, [Next]_vars PROVE Stopped'
  <1> USE DEF Settled
  <1>1. CASE Runner \/ UNCHANGED vars
    <2>1. UNCHANGED <<settling, pc, cur, mapVars, chainVars, stop>>
      BY <1>1, RunnerSpools DEF vars
    <2> QED
      BY <2>1 DEF Stopped, mapVars, chainVars
  <1>2. CASE StopDone
    BY <1>2 DEF StopDone, Stopped, mapVars, chainVars
  <1>3. CASE Drain /\ ~StopDone
    <2>1. stop' # "done"
      <3>1. CASE Poll
        BY <3>1 DEF Poll
      <3>2. CASE HandleEvent \/ OpenNextPending
        BY <3>2 DEF HandleEvent, OpenNextPending, Stopped
      <3>3. CASE AwaitOpen \/ AwaitRelease \/ AwaitFinalize \/ AwaitSeal
        BY <3>3 DEF AwaitOpen, AwaitRelease, AwaitFinalize, AwaitSeal, Stopped
      <3>4. CASE ChainStart \/ ChainFinalize \/ ChainSeal
        BY <3>4 DEF ChainStart, ChainFinalize, ChainSeal, Stopped
      <3>5. CASE Stop \/ \E w \in Workers : ForceClose(w)
        BY <3>5 DEF Stop, ForceClose
      <3> QED
        BY <1>3, <3>1, <3>2, <3>3, <3>4, <3>5 DEF Drain
    <2> QED
      BY <2>1 DEF Stopped
  <1> QED
    BY <1>1, <1>2, <1>3 DEF Next

----------------------------------------------------------------------------
(* The slots of the witness.                                               *)

Mint(w, t) ==
    /\ wslot[w] = NULL /\ wstatus[t] = "none"
    /\ wslot' = [wslot EXCEPT ![w] = t]
    /\ wstatus' = [wstatus EXCEPT ![t] = "open"]
    /\ minted' = [minted EXCEPT ![t] = minted[t] + 1]

Free(w, t, s) ==
    /\ wstatus[t] = "open" /\ Closed(s)
    /\ wslot' = [wslot EXCEPT ![w] = NULL]
    /\ wstatus' = [wstatus EXCEPT ![t] = s]
    /\ minted' = minted

\* A test with an open session holds the slot of its worker, and no other.
LEMMA SlotHolds ==
    ASSUME Basics, Slots, NEW w \in Workers, NEW t \in Tests, Home(setup, w, t)
    PROVE  /\ wstatus[t] = "open" <=> wslot[w] = t
           /\ \A v \in Workers : wslot[v] = t => v = w
  <1>1. \A v \in Workers : wslot[v] = t => v = w
    <2> SUFFICES ASSUME NEW v \in Workers, wslot[v] = t PROVE v = w
      OBVIOUS
    <2>1. Home(setup, v, t)
      BY Constants DEF Slots
    <2> QED
      BY <2>1, OneHome DEF Basics, RunType
  <1>2. wslot[w] = t => wstatus[t] = "open"
    BY Constants DEF Slots
  <1>3. wstatus[t] = "open" => wslot[w] = t
    BY <1>1 DEF Slots
  <1> QED
    BY <1>1, <1>2, <1>3

\* A session is minted into a free slot for a test that has had none.
LEMMA MintSlots ==
    ASSUME Basics, Slots, setup' = setup, NEW w \in Workers, NEW t \in Tests, Home(setup, w, t), Mint(w, t)
    PROVE  Slots'
  <1>1. /\ \A v \in Workers : wslot'[v] = IF v = w THEN t ELSE wslot[v]
        /\ \A x \in Tests : wstatus'[x] = IF x = t THEN "open" ELSE wstatus[x]
        /\ \A x \in Tests : minted'[x] = IF x = t THEN minted[t] + 1 ELSE minted[x]
    BY DEF Mint, Basics, WitnessType
  <1>2. \A v \in Workers : wslot[v] # NULL => wslot[v] \in Tests
    BY DEF Basics, WitnessType
  <1>3. \A v \in Workers : wslot'[v] # NULL => Home(setup, v, wslot'[v]) /\ wstatus'[wslot'[v]] = "open"
    BY <1>1, <1>2 DEF Slots
  <1>4. \A x \in Tests : wstatus'[x] = "open" => \E v \in Workers : wslot'[v] = x
    <2> TAKE x \in Tests
    <2> HAVE wstatus'[x] = "open"
    <2>1. CASE x = t
      BY <1>1, <2>1
    <2>2. CASE x # t
      <3>1. PICK v \in Workers : wslot[v] = x
        BY <1>1, <2>2 DEF Slots
      <3>2. v # w
        BY <3>1, Constants DEF Mint
      <3> QED
        BY <1>1, <3>1, <3>2
    <2> QED
      BY <2>1, <2>2
  <1>5. minted[t] = 0 /\ \A x \in Tests : minted[x] = IF wstatus[x] = "none" THEN 0 ELSE 1
    BY DEF Slots, Mint
  <1>6. \A x \in Tests : minted'[x] = IF wstatus'[x] = "none" THEN 0 ELSE 1
    BY <1>1, <1>5
  <1> QED
    BY <1>3, <1>4, <1>6 DEF Slots

\* The end of a session frees the slot of its worker and no other.
LEMMA FreeSlots ==
    ASSUME Basics, Slots, setup' = setup, NEW w \in Workers, NEW t \in Tests, Home(setup, w, t), NEW s, Free(w, t, s)
    PROVE  /\ Slots' /\ wslot[w] = t
           /\ \A v \in Workers : wslot'[v] = IF v = w THEN NULL ELSE wslot[v]
           /\ \A x \in Tests : wstatus'[x] = IF x = t THEN s ELSE wstatus[x]
  <1>1. /\ \A v \in Workers : wslot'[v] = IF v = w THEN NULL ELSE wslot[v]
        /\ \A x \in Tests : wstatus'[x] = IF x = t THEN s ELSE wstatus[x]
        /\ minted' = minted /\ wstatus[t] = "open" /\ s \in {"outcome-pending", "sealed"}
    BY DEF Free, Basics, WitnessType, Closed
  <1>2. wslot[w] = t /\ \A v \in Workers : wslot[v] = t => v = w
    BY <1>1, SlotHolds
  <1>3. \A v \in Workers : wslot[v] # NULL => wslot[v] \in Tests
    BY DEF Basics, WitnessType
  <1>4. \A v \in Workers : wslot'[v] # NULL => Home(setup, v, wslot'[v]) /\ wstatus'[wslot'[v]] = "open"
    BY <1>1, <1>2, <1>3 DEF Slots
  <1>5. \A x \in Tests : wstatus'[x] = "open" => \E v \in Workers : wslot'[v] = x
    <2> TAKE x \in Tests
    <2> HAVE wstatus'[x] = "open"
    <2>1. x # t
      BY <1>1
    <2>2. PICK v \in Workers : wslot[v] = x
      BY <1>1, <2>1 DEF Slots
    <2> QED
      BY <1>1, <1>2, <2>1, <2>2
  <1>6. \A x \in Tests : minted'[x] = IF wstatus'[x] = "none" THEN 0 ELSE 1
    BY <1>1 DEF Slots
  <1> QED
    BY <1>1, <1>2, <1>4, <1>5, <1>6 DEF Slots

----------------------------------------------------------------------------
(* Steps without a call.                                                   *)

\* The slots and the promises, where the witness is not called.
LEMMA WitnessStays ==
    ASSUME DrainInv, ResultsStay, OverStays, UNCHANGED witVars, faults' = faults
    PROVE  Slots' /\ OverWhenClosed' /\ Promises'
  <1>1. /\ wslot' = wslot /\ wstatus' = wstatus /\ woutcome' = woutcome /\ minted' = minted
        /\ late' = late /\ refused' = refused /\ setup' = setup
    BY DEF witVars, ResultsStay
  <1>2. Slots'
    BY <1>1 DEF DrainInv, Agree, Slots
  <1>3. OverWhenClosed'
    BY <1>1, OverWhenClosedStep DEF DrainInv, Agree
  <1>4. OutcomeIsTheRunners'
    BY <1>1 DEF DrainInv, Promises, OutcomeIsTheRunners, ResultsStay
  <1> QED
    BY <1>1, <1>2, <1>3, <1>4 DEF DrainInv, Promises, FinalizeBeforeSeal, NextTestFindsItsSlot

\* A step that handles no event and calls nobody.
LEMMA QuietStep ==
    ASSUME DrainInv, ResultsStay, OverStays, UNCHANGED witVars,
           UNCHANGED <<pc, cur, openByWorker, endedTests, awaitingOutcome, faults>>
    PROVE  Agree' /\ Promises'
  <1>1. Slots' /\ OverWhenClosed' /\ Promises'
    BY WitnessStays
  <1>2. wslot' = wslot /\ wstatus' = wstatus
    BY DEF witVars
  <1> QED
    BY <1>1, <1>2 DEF DrainInv, Agree, Released, Held, Handling, InStep

\* The handler of an event up to its call.
LEMMA HandleEventStep ==
    ASSUME DrainInv, ResultsStay, OverStays, HandleEvent
    PROVE  Agree' /\ Promises'
  <1> DEFINE e == cur'
  <1>1. /\ e \in Honest(setup, result) /\ e.w \in Workers /\ e.t \in Tests
        /\ pc = "idle" /\ UNCHANGED witVars /\ faults' = faults
        /\ wslot' = wslot /\ wstatus' = wstatus
    BY FirstEvent DEF witVars, DrainInv
  <1>2. Slots' /\ OverWhenClosed' /\ Promises'
    BY <1>1, WitnessStays
  <1>3. /\ \A w \in Workers : openByWorker[w] # NULL =>
             /\ wslot[w] = openByWorker[w] /\ awaitingOutcome[openByWorker[w]] = Absent
             /\ <<w, openByWorker[w]>> \notin endedTests
        /\ \A w \in Workers : openByWorker[w] \in Tests \cup {NULL}
        /\ \A t \in Tests : awaitingOutcome[t] # Absent => wstatus[t] = "outcome-pending"
        /\ faults = 0 => \A w \in Workers : wslot[w] # NULL => openByWorker[w] = wslot[w]
    BY <1>1 DEF DrainInv, Agree, Held, Released, InStep, Basics, DrainType
  <1>4. CASE TakeBegin(e)
    <2>1. /\ UNCHANGED <<openByWorker, endedTests, awaitingOutcome>> /\ pc' \in {"idle", "open"}
          /\ pc' = "open" => /\ awaitingOutcome[e.t] = Absent /\ openByWorker[e.w] = NULL
                             /\ <<e.w, e.t>> \notin endedTests
      BY <1>1, <1>4, QueuesHold, OpenSessionForSets DEF TakeBegin, DrainInv
    <2>2. Released' /\ Held' /\ InStep'
      BY <1>1, <1>3, <2>1 DEF Released, Held, InStep
    <2>3. Handling'
      BY <2>1 DEF Handling
    <2> QED
      BY <1>2, <2>2, <2>3 DEF Agree
  <1>5. CASE TakeEndOfSlot(e)
    <2>1. /\ openByWorker' = [openByWorker EXCEPT ![e.w] = NULL] /\ openByWorker[e.w] = e.t
          /\ endedTests' = endedTests \cup {<<e.w, e.t>>} /\ awaitingOutcome' = awaitingOutcome
          /\ pc' \in {"release", "finalize", "seal"}
      BY <1>5 DEF TakeEndOfSlot
    <2>2. \A w \in Workers : openByWorker'[w] = IF w = e.w THEN NULL ELSE openByWorker[w]
      BY <2>1 DEF DrainInv, Basics, DrainType
    <2>3. wslot[e.w] = e.t
      BY <1>1, <1>3, <2>1, Constants
    <2>4. Released'
      BY <1>1, <1>3, <2>1 DEF Released
    <2>5. Held'
      <3> SUFFICES ASSUME NEW w \in Workers, openByWorker'[w] # NULL
                   PROVE  /\ wslot'[w] = openByWorker'[w] /\ awaitingOutcome'[openByWorker'[w]] = Absent
                          /\ <<w, openByWorker'[w]>> \notin endedTests'
        BY DEF Held
      <3>1. w # e.w /\ openByWorker'[w] = openByWorker[w]
        BY <2>2
      <3> QED
        BY <1>1, <1>3, <2>1, <3>1
    <2>6. Handling'
      BY <1>1, <2>1, <2>2, <2>3 DEF Handling
    <2>7. InStep'
      <3> SUFFICES ASSUME faults = 0, NEW w \in Workers, wslot[w] # NULL
                   PROVE  openByWorker'[w] = wslot[w] \/ (pc' \in {"release", "finalize", "seal"} /\ e.w = w)
        BY <1>1 DEF InStep
      <3> QED
        BY <1>3, <2>1, <2>2
    <2> QED
      BY <1>2, <2>4, <2>5, <2>6, <2>7 DEF Agree
  <1>6. CASE TakeEndOfReleased(e) \/ TakeLoneEnd(e)
    <2>1. /\ pc' = "idle" /\ UNCHANGED <<openByWorker, endedTests>>
          /\ \/ awaitingOutcome' = awaitingOutcome
             \/ /\ awaitingOutcome[e.t] # Absent
                /\ awaitingOutcome' = [awaitingOutcome EXCEPT ![e.t] = e.outcome]
      BY <1>6 DEF TakeEndOfReleased, TakeLoneEnd
    <2>2. \A t \in Tests : awaitingOutcome'[t] = awaitingOutcome[t] \/ (t = e.t /\ awaitingOutcome[t] # Absent)
      BY <2>1 DEF DrainInv, Basics, DrainType
    <2>3. Released'
      BY <1>1, <1>3, <2>2 DEF Released
    <2>4. Held'
      <3> SUFFICES ASSUME NEW w \in Workers, openByWorker[w] # NULL
                   PROVE  /\ wslot[w] = openByWorker[w] /\ awaitingOutcome'[openByWorker[w]] = Absent
                          /\ <<w, openByWorker[w]>> \notin endedTests
        BY <1>1, <2>1 DEF Held
      <3> QED
        BY <1>3, <2>2
    <2>5. Handling' /\ InStep'
      BY <1>1, <1>3, <2>1 DEF Handling, InStep
    <2> QED
      BY <1>2, <2>3, <2>4, <2>5 DEF Agree
  <1> QED
    BY <1>4, <1>5, <1>6, FirstEvent DEF DrainInv

\* The next begin of a worker up to its call.
LEMMA OpenNextPendingStep ==
    ASSUME DrainInv, ResultsStay, OverStays, OpenNextPending
    PROVE  Agree' /\ Promises'
  <1> DEFINE w == cur.w
             q == pendingByWorker[w]
  <1>1. /\ pc = "next" /\ w \in Workers /\ UNCHANGED witVars /\ faults' = faults
        /\ wslot' = wslot /\ wstatus' = wstatus
    BY CurrentEvent DEF OpenNextPending, DrainInv, witVars
  <1>2. Slots' /\ OverWhenClosed' /\ Promises'
    BY <1>1, WitnessStays
  <1>3. /\ UNCHANGED <<openByWorker, endedTests, awaitingOutcome>> /\ pc' \in {"idle", "open"}
        /\ pc' = "open" => /\ awaitingOutcome[cur'.t] = Absent /\ openByWorker[cur'.w] = NULL
                           /\ <<cur'.w, cur'.t>> \notin endedTests
    <2>2. ASSUME NEW i \in FirstOpenable(w), cur' = q[i],
                 OpenSessionFor(q[i], [pendingByWorker EXCEPT ![w] = SubSeq(q, i + 1, Len(q))])
          PROVE  /\ UNCHANGED <<openByWorker, endedTests, awaitingOutcome>> /\ pc' \in {"idle", "open"}
                 /\ pc' = "open" => /\ awaitingOutcome[cur'.t] = Absent /\ openByWorker[cur'.w] = NULL
                                    /\ <<cur'.w, cur'.t>> \notin endedTests
      <3>1. /\ q[i] \in Honest(setup, result)
            /\ Queues([pendingByWorker EXCEPT ![w] = SubSeq(q, i + 1, Len(q))], Honest(setup, result))
        BY <1>1, FirstOpenableHolds DEF DrainInv
      <3> QED
        BY <2>2, <3>1, OpenSessionForSets DEF DrainInv
    <2>3. \/ pc' = "idle" /\ UNCHANGED <<openByWorker, endedTests, awaitingOutcome>>
          \/ \E i \in FirstOpenable(w) :
               /\ cur' = q[i]
               /\ OpenSessionFor(q[i], [pendingByWorker EXCEPT ![w] = SubSeq(q, i + 1, Len(q))])
      BY DEF OpenNextPending
    <2>4. CASE pc' = "idle" /\ UNCHANGED <<openByWorker, endedTests, awaitingOutcome>>
      BY <2>4
    <2>5. CASE \E i \in FirstOpenable(w) :
               /\ cur' = q[i]
               /\ OpenSessionFor(q[i], [pendingByWorker EXCEPT ![w] = SubSeq(q, i + 1, Len(q))])
      BY <2>2, <2>5
    <2> QED
      BY <2>3, <2>4, <2>5
  <1>4. Released' /\ Held' /\ Handling' /\ InStep'
    BY <1>1, <1>3 DEF DrainInv, Agree, Released, Held, Handling, InStep
  <1> QED
    BY <1>2, <1>4 DEF Agree

----------------------------------------------------------------------------
(* Calls.                                                                  *)

\* A call that frees no slot, or is lost.
LEMMA StandStep ==
    ASSUME DrainInv, ResultsStay, OverStays, UNCHANGED <<wslot, wstatus, minted, late, refused>>,
           \A t \in Tests : woutcome'[t] # NULL => woutcome'[t] = result'[t],
           faults' \in {faults, faults + 1}, UNCHANGED <<cur, endedTests, awaitingOutcome>>,
           \A w \in Workers : openByWorker'[w] = NULL \/ openByWorker'[w] = openByWorker[w],
           faults' = 0 => openByWorker' = openByWorker,
           \/ pc' \in {"idle", "next"} /\ faults' # 0
           \/ pc' = pc
           \/ pc = "finalize" /\ pc' = "seal"
    PROVE  Agree' /\ Promises'
  <1>1. faults \in Nat /\ (faults' = 0 => faults = 0) /\ (faults > 0 => faults' > 0) /\ setup' = setup
    BY DEF DrainInv, Basics, DrainType, ResultsStay
  <1>2. Slots'
    BY <1>1 DEF DrainInv, Agree, Slots
  <1>3. OverWhenClosed'
    BY <1>1, OverWhenClosedStep DEF DrainInv, Agree
  <1>4. Released' /\ Held'
    BY DEF DrainInv, Agree, Released, Held
  <1>5. Handling'
    <2>1. \A w \in Workers : openByWorker[w] = NULL => openByWorker'[w] = NULL
      OBVIOUS
    <2>2. pc # "idle" => cur.w \in Workers
      BY CurrentEvent DEF DrainInv
    <2> QED
      BY <1>1, <2>1, <2>2 DEF DrainInv, Agree, Handling
  <1>6. InStep'
    BY <1>1 DEF DrainInv, Agree, InStep
  <1>7. Promises'
    BY <1>1 DEF DrainInv, Promises, OutcomeIsTheRunners, FinalizeBeforeSeal, NextTestFindsItsSlot
  <1> QED
    BY <1>2, <1>3, <1>4, <1>5, <1>6, <1>7 DEF Agree

\* A release or a seal of the open session of a test.
LEMMA FreeStep ==
    ASSUME DrainInv, ResultsStay, OverStays, NEW w \in Workers, NEW t \in Tests, Home(setup, w, t),
           NEW s, Free(w, t, s), Over(w, t)', UNCHANGED <<late, refused>>,
           \A x \in Tests : woutcome'[x] # NULL => woutcome'[x] = result'[x],
           faults' \in {faults, faults + 1}, UNCHANGED <<cur, endedTests>>,
           \/ awaitingOutcome' = awaitingOutcome
           \/ s = "outcome-pending" /\ awaitingOutcome' = [awaitingOutcome EXCEPT ![t] = NULL],
           openByWorker'[w] = NULL,
           \A v \in Workers : v # w => openByWorker'[v] = openByWorker[v],
           pc' \in {"idle", "next"}, pc \in {"release", "finalize", "seal"} => cur.w = w
    PROVE  Agree' /\ Promises'
  <1>1. faults \in Nat /\ (faults' = 0 => faults = 0) /\ setup' = setup
    BY DEF DrainInv, Basics, DrainType, ResultsStay
  <1>2. /\ Slots' /\ wslot[w] = t
        /\ \A v \in Workers : wslot'[v] = IF v = w THEN NULL ELSE wslot[v]
        /\ \A x \in Tests : wstatus'[x] = IF x = t THEN s ELSE wstatus[x]
    BY <1>1, FreeSlots DEF DrainInv, Agree
  <1>3. wstatus[t] = "open"
    BY DEF Free
  <1>4. OverWhenClosed'
    <2>1. ASSUME NEW v \in Workers, NEW x \in Tests, Home(setup, v, x), Closed(wstatus'[x])
          PROVE  Closed(wstatus[x]) \/ Over(v, x)'
      <3>1. CASE x = t
        <4>1. v = w
          BY <2>1, <3>1, OneHome DEF DrainInv, Basics, RunType
        <4> QED
          BY <3>1, <4>1
      <3>2. CASE x # t
        BY <1>2, <2>1, <3>2
      <3> QED
        BY <3>1, <3>2
    <2> QED
      BY <1>1, <2>1, OverWhenClosedStep DEF DrainInv, Agree
  <1>5. \A x \in Tests : x # t => awaitingOutcome'[x] = awaitingOutcome[x]
    BY DEF DrainInv, Basics, DrainType
  <1>6. Released'
    <2> SUFFICES ASSUME NEW x \in Tests, awaitingOutcome'[x] # Absent
                 PROVE  wstatus'[x] = "outcome-pending"
      BY DEF Released
    <2>1. CASE x = t
      <3>1. awaitingOutcome[t] = Absent
        BY <1>3 DEF DrainInv, Agree, Released
      <3> QED
        BY <1>2, <2>1, <3>1
    <2>2. CASE x # t
      BY <1>2, <1>5, <2>2 DEF DrainInv, Agree, Released
    <2> QED
      BY <2>1, <2>2
  <1>7. Held'
    <2> SUFFICES ASSUME NEW v \in Workers, openByWorker'[v] # NULL
                 PROVE  /\ wslot'[v] = openByWorker'[v] /\ awaitingOutcome'[openByWorker'[v]] = Absent
                        /\ <<v, openByWorker'[v]>> \notin endedTests
      BY DEF Held
    <2>1. v # w /\ openByWorker'[v] = openByWorker[v] /\ openByWorker[v] \in Tests
      BY DEF DrainInv, Basics, DrainType
    <2>2. /\ wslot[v] = openByWorker[v] /\ awaitingOutcome[openByWorker[v]] = Absent
          /\ <<v, openByWorker[v]>> \notin endedTests
      BY <2>1 DEF DrainInv, Agree, Held
    <2>3. openByWorker[v] # t
      BY <2>1, <2>2, SlotHolds DEF DrainInv, Agree
    <2> QED
      BY <1>2, <1>5, <2>1, <2>2, <2>3
  <1>8. Handling'
    BY DEF Handling
  <1>9. InStep'
    <2> SUFFICES ASSUME faults' = 0, NEW v \in Workers, wslot'[v] # NULL
                 PROVE  openByWorker'[v] = wslot'[v]
      BY DEF InStep
    <2>1. v # w /\ wslot'[v] = wslot[v] /\ openByWorker'[v] = openByWorker[v]
      BY <1>2
    <2> QED
      BY <1>1, <2>1 DEF DrainInv, Agree, InStep
  <1>10. Promises'
    BY <1>1 DEF DrainInv, Promises, OutcomeIsTheRunners, FinalizeBeforeSeal, NextTestFindsItsSlot
  <1> QED
    BY <1>2, <1>4, <1>6, <1>7, <1>8, <1>9, <1>10 DEF Agree

\* The test of a handler that ends its session.
LEMMA EndingTest ==
    ASSUME DrainInv, pc \in {"release", "finalize", "seal"}
    PROVE  /\ cur \in Honest(setup, result) /\ cur.w \in Workers /\ cur.t \in Tests /\ Home(setup, cur.w, cur.t)
           /\ wslot[cur.w] = cur.t /\ wstatus[cur.t] = "open" /\ openByWorker[cur.w] = NULL
           /\ <<cur.w, cur.t>> \in endedTests
  <1>1. cur \in Honest(setup, result) /\ cur.w \in Workers /\ cur.t \in Tests /\ Home(setup, cur.w, cur.t)
    BY CurrentEvent, EventFields DEF DrainInv
  <1>2. wslot[cur.w] = cur.t /\ openByWorker[cur.w] = NULL /\ <<cur.w, cur.t>> \in endedTests
    BY DEF DrainInv, Agree, Handling
  <1> QED
    BY <1>1, <1>2, SlotHolds DEF DrainInv, Agree

\* The answer to a release, or its loss.
LEMMA AwaitReleaseStep ==
    ASSUME DrainInv, ResultsStay, OverStays, AwaitRelease
    PROVE  Agree' /\ Promises'
  <1> DEFINE w == cur.w
             t == cur.t
  <1>1. /\ w \in Workers /\ t \in Tests /\ Home(setup, w, t) /\ wstatus[t] = "open"
        /\ openByWorker[w] = NULL /\ <<w, t>> \in endedTests
    BY EndingTest DEF AwaitRelease
  <1>2. /\ pc = "release" /\ pc' = "next" /\ faults' \in {faults, faults + 1}
        /\ UNCHANGED <<cur, openByWorker, endedTests, result>>
        /\ awaitingOutcome' \in {awaitingOutcome, [awaitingOutcome EXCEPT ![t] = NULL]}
    BY DEF AwaitRelease, Faulty, runnerVars
  <1>3. CASE WitnessRelease(w, t)
    <2>1. /\ Free(w, t, "outcome-pending") /\ UNCHANGED <<woutcome, late, refused>>
      BY <1>1, <1>3 DEF WitnessRelease, Free, Closed
    <2>2. Over(w, t)'
      BY <1>1, <1>2 DEF Over
    <2>3. \A x \in Tests : woutcome'[x] # NULL => woutcome'[x] = result'[x]
      BY <1>2, <2>1 DEF DrainInv, Promises, OutcomeIsTheRunners
    <2> QED
      BY <1>1, <1>2, <2>1, <2>2, <2>3, FreeStep
  <1>4. CASE UNCHANGED witVars /\ faults' = faults + 1 /\ awaitingOutcome' = awaitingOutcome
    <2>1. faults' # 0
      BY <1>4 DEF DrainInv, Basics, DrainType
    <2>2. \A x \in Tests : woutcome'[x] # NULL => woutcome'[x] = result'[x]
      BY <1>2, <1>4 DEF DrainInv, Promises, OutcomeIsTheRunners, witVars
    <2> QED
      BY <1>2, <1>4, <2>1, <2>2, StandStep DEF witVars
  <1> QED
    BY <1>3, <1>4 DEF AwaitRelease, Faulty

\* The answer to a finalize, or its loss: the session is open.
LEMMA AwaitFinalizeStep ==
    ASSUME DrainInv, ResultsStay, OverStays, AwaitFinalize
    PROVE  Agree' /\ Promises'
  <1>1. /\ pc = "finalize" /\ pc' = "seal" /\ faults' \in {faults, faults + 1}
        /\ UNCHANGED <<cur, openByWorker, endedTests, awaitingOutcome, result>>
    BY DEF AwaitFinalize, Faulty, runnerVars, mapVars
  <1>2. wstatus[cur.t] # "sealed"
    BY <1>1, EndingTest
  <1>3. UNCHANGED <<wslot, wstatus, woutcome, minted, late, refused>>
    BY <1>2 DEF AwaitFinalize, Faulty, WitnessFinalize, witVars
  <1>4. \A x \in Tests : woutcome'[x] # NULL => woutcome'[x] = result'[x]
    BY <1>1, <1>3 DEF DrainInv, Promises, OutcomeIsTheRunners
  <1> QED
    BY <1>1, <1>3, <1>4, StandStep

\* The answer to a seal, or its loss: the outcome is the reported one.
LEMMA AwaitSealStep ==
    ASSUME DrainInv, ResultsStay, OverStays, AwaitSeal
    PROVE  Agree' /\ Promises'
  <1> DEFINE w == cur.w
             t == cur.t
             o == cur.outcome
  <1>1. /\ w \in Workers /\ t \in Tests /\ Home(setup, w, t) /\ wstatus[t] = "open"
        /\ openByWorker[w] = NULL /\ <<w, t>> \in endedTests /\ (o # NULL => result[t] = o)
    BY EndingTest, EventFields DEF AwaitSeal
  <1>2. /\ pc = "seal" /\ pc' = "next" /\ faults' \in {faults, faults + 1}
        /\ UNCHANGED <<cur, openByWorker, endedTests, awaitingOutcome, result>>
    BY DEF AwaitSeal, Faulty, runnerVars, mapVars
  <1>3. CASE WitnessClose(w, t, o)
    <2>1. /\ Free(w, t, "sealed") /\ UNCHANGED <<late, refused>>
          /\ woutcome' = [woutcome EXCEPT ![t] = o]
      BY <1>1, <1>3 DEF WitnessClose, Free, Closed
    <2>2. Over(w, t)'
      BY <1>1, <1>2 DEF Over
    <2>3. \A x \in Tests : woutcome'[x] # NULL => woutcome'[x] = result'[x]
      BY <1>1, <1>2, <2>1 DEF DrainInv, Promises, OutcomeIsTheRunners, Basics, WitnessType
    <2> QED
      BY <1>1, <1>2, <2>1, <2>2, <2>3, FreeStep
  <1>4. CASE UNCHANGED witVars /\ faults' = faults + 1
    <2>1. faults' # 0
      BY <1>4 DEF DrainInv, Basics, DrainType
    <2>2. \A x \in Tests : woutcome'[x] # NULL => woutcome'[x] = result'[x]
      BY <1>2, <1>4 DEF DrainInv, Promises, OutcomeIsTheRunners, witVars
    <2> QED
      BY <1>2, <1>4, <2>1, <2>2, StandStep DEF witVars
  <1> QED
    BY <1>3, <1>4 DEF AwaitSeal, Faulty

\* A force close, which states no outcome.
LEMMA ForceCloseStep ==
    ASSUME DrainInv, ResultsStay, OverStays, NEW w \in Workers, ForceClose(w)
    PROVE  Agree' /\ Promises'
  <1>0. PICK t \in Tests : openByWorker[w] = t
    BY DEF ForceClose, DrainInv, Basics, DrainType
  <1>1. wslot[w] = t /\ Home(setup, w, t) /\ wstatus[t] = "open"
    <2>1. wslot[w] = t
      BY <1>0, Constants DEF DrainInv, Agree, Held
    <2> QED
      BY <2>1, Constants DEF DrainInv, Agree, Slots
  <1>2. /\ stop = "draining" /\ Settled /\ pc = "idle" /\ pc' = pc /\ faults' \in {faults, faults + 1}
        /\ UNCHANGED <<cur, endedTests, awaitingOutcome, result>>
        /\ openByWorker' = [openByWorker EXCEPT ![w] = NULL]
    BY DEF ForceClose, Faulty, runnerVars, Settled
  <1>3. \A v \in Workers : openByWorker'[v] = IF v = w THEN NULL ELSE openByWorker[v]
    BY <1>2 DEF DrainInv, Basics, DrainType
  <1>4. CASE WitnessClose(w, t, NULL)
    <2>1. /\ Free(w, t, "sealed") /\ UNCHANGED <<late, refused>>
          /\ woutcome' = [woutcome EXCEPT ![t] = NULL]
      BY <1>1, <1>4 DEF WitnessClose, Free, Closed
    <2>2. Over(w, t)'
      BY <1>2 DEF Over, OverStays
    <2>3. \A x \in Tests : woutcome'[x] # NULL => woutcome'[x] = result'[x]
      BY <1>2, <2>1 DEF DrainInv, Promises, OutcomeIsTheRunners, Basics, WitnessType
    <2>4. /\ openByWorker'[w] = NULL /\ pc' \in {"idle", "next"}
          /\ pc \in {"release", "finalize", "seal"} => cur.w = w
          /\ \A v \in Workers : v # w => openByWorker'[v] = openByWorker[v]
      BY <1>2, <1>3
    <2>5. /\ faults' \in {faults, faults + 1} /\ UNCHANGED <<cur, endedTests>>
          /\ awaitingOutcome' = awaitingOutcome
      BY <1>2
    <2> QED
      BY <2>1, <2>2, <2>3, <2>4, <2>5, <1>1, FreeStep
  <1>5. CASE UNCHANGED witVars /\ faults' = faults + 1
    <2>1. faults' # 0
      BY <1>5 DEF DrainInv, Basics, DrainType
    <2>2. \A x \in Tests : woutcome'[x] # NULL => woutcome'[x] = result'[x]
      BY <1>2, <1>5 DEF DrainInv, Promises, OutcomeIsTheRunners, witVars
    <2> QED
      BY <1>2, <1>3, <1>5, <2>1, <2>2, StandStep DEF witVars
  <1> QED
    BY <1>0, <1>4, <1>5 DEF ForceClose, Faulty

\* The chain finalizes and closes released sessions only, with the outcome
\* reported.
LEMMA ChainStep ==
    ASSUME DrainInv, ResultsStay, OverStays, ChainFinalize \/ ChainSeal
    PROVE  Agree' /\ Promises'
  <1> DEFINE c == Head(chains)
             t == c[2]
  <1>1. /\ t \in Tests /\ c[3] \in {"passed", "failed"} /\ result[t] = c[3] /\ wstatus[t] = "outcome-pending"
    <2>1. c \in Sealable(setup, result, awaitingOutcome) /\ t \in Tests /\ c[3] \in {"passed", "failed"}
      BY FirstInChain DEF ChainFinalize, ChainSeal, DrainInv
    <2>2. result[t] = c[3] /\ awaitingOutcome[t] # Absent
      BY <2>1 DEF Sealable
    <2> QED
      BY <2>1, <2>2 DEF DrainInv, Agree, Released
  <1>2. /\ UNCHANGED <<pc, cur, openByWorker, endedTests, awaitingOutcome, result>>
        /\ faults' \in {faults, faults + 1}
    BY DEF ChainFinalize, ChainSeal, Faulty, runnerVars, mapVars
  <1>3. /\ UNCHANGED <<wslot, wstatus, minted, late, refused>>
        /\ woutcome' \in {woutcome, [woutcome EXCEPT ![t] = c[3]]}
    <2>1. CASE ChainFinalize
      BY <1>1, <2>1 DEF ChainFinalize, Faulty, WitnessFinalize, witVars
    <2>2. CASE ChainSeal
      <3>1. WitnessClose(c[1], t, c[3]) \/ UNCHANGED witVars
        BY <2>2 DEF ChainSeal, Faulty
      <3> QED
        BY <1>1, <3>1 DEF WitnessClose, witVars
    <2> QED
      BY <2>1, <2>2
  <1>4. \A x \in Tests : woutcome'[x] # NULL => woutcome'[x] = result'[x]
    BY <1>1, <1>2, <1>3 DEF DrainInv, Promises, OutcomeIsTheRunners, Basics, WitnessType
  <1> QED
    BY <1>2, <1>3, <1>4, StandStep

\* The test of a handler that opens: its lifecycle is not over, so it has no
\* session unless an open whose answer was lost has made it.
LEMMA OpeningTest ==
    ASSUME DrainInv, pc \in {"open", "reopen"}
    PROVE  /\ cur.w \in Workers /\ cur.t \in Tests /\ Home(setup, cur.w, cur.t)
           /\ openByWorker[cur.w] = NULL /\ awaitingOutcome[cur.t] = Absent /\ <<cur.w, cur.t>> \notin endedTests
           /\ wslot[cur.w] = NULL => wstatus[cur.t] = "none"
           /\ faults = 0 => pc = "open" /\ wslot[cur.w] = NULL
  <1>1. cur.w \in Workers /\ cur.t \in Tests /\ Home(setup, cur.w, cur.t)
    BY CurrentEvent, EventFields DEF DrainInv
  <1>2. openByWorker[cur.w] = NULL /\ awaitingOutcome[cur.t] = Absent /\ <<cur.w, cur.t>> \notin endedTests
    BY DEF DrainInv, Agree, Handling
  <1>3. ~Over(cur.w, cur.t)
    BY <1>2 DEF Over, Settled
  <1>4. wstatus[cur.t] \in {"none", "open"}
    BY <1>1, <1>3 DEF DrainInv, Agree, OverWhenClosed, Basics, WitnessType
  <1>5. wslot[cur.w] = NULL => wstatus[cur.t] = "none"
    <2>1. wstatus[cur.t] = "open" <=> wslot[cur.w] = cur.t
      BY <1>1, SlotHolds DEF DrainInv, Agree
    <2> QED
      BY <1>1, <1>4, <2>1, Constants
  <1>6. faults = 0 => pc = "open" /\ wslot[cur.w] = NULL
    <2>1. faults = 0 => pc = "open"
      BY DEF DrainInv, Agree, Handling
    <2> QED
      BY <1>1, <1>2, <2>1 DEF DrainInv, Agree, InStep
  <1> QED
    BY <1>1, <1>2, <1>5, <1>6

\* The answer to an open, or its loss and the second attempt.
LEMMA AwaitOpenStep ==
    ASSUME DrainInv, ResultsStay, OverStays, AwaitOpen
    PROVE  Agree' /\ Promises'
  <1> DEFINE w == cur.w
             t == cur.t
             Minting == /\ Mint(w, t) /\ woutcome' = [woutcome EXCEPT ![t] = NULL]
                        /\ UNCHANGED <<late, refused>>
             Standing == UNCHANGED <<wslot, wstatus, woutcome, minted, late>>
             Answered == IF WitnessOpens(w, t)
                         THEN /\ wslot'[w] = t /\ openByWorker' = [openByWorker EXCEPT ![w] = t]
                         ELSE openByWorker' = openByWorker /\ wslot' = wslot
  <1>1. /\ w \in Workers /\ t \in Tests /\ Home(setup, w, t) /\ openByWorker[w] = NULL
        /\ awaitingOutcome[t] = Absent /\ <<w, t>> \notin endedTests
        /\ wslot[w] = NULL => wstatus[t] = "none"
        /\ faults = 0 => pc = "open" /\ wslot[w] = NULL
    BY OpeningTest DEF AwaitOpen
  <1>2. /\ pc \in {"open", "reopen"} /\ UNCHANGED <<cur, endedTests, awaitingOutcome, result>> /\ setup' = setup
        /\ pc' \in {"idle", "reopen"} /\ faults' \in {faults, faults + 1} /\ faults \in Nat
        /\ pc' = "reopen" => faults' = faults + 1
    BY DEF AwaitOpen, Faulty, runnerVars, DrainInv, Basics, DrainType
  <1>3. Minting \/ Standing
    <2>1. WitnessOpen(w, t) \/ UNCHANGED witVars
      BY DEF AwaitOpen, Faulty
    <2>2. CASE WitnessOpen(w, t) /\ WitnessOpens(w, t) /\ wslot[w] = NULL
      BY <1>1, <2>2 DEF WitnessOpen, Mint
    <2>3. CASE WitnessOpen(w, t) /\ ~(WitnessOpens(w, t) /\ wslot[w] = NULL)
      BY <2>3 DEF WitnessOpen
    <2>4. CASE UNCHANGED witVars
      BY <2>4 DEF witVars
    <2> QED
      BY <2>1, <2>2, <2>3, <2>4
  <1>4. (faults' = faults /\ Answered) \/ (faults' = faults + 1 /\ openByWorker' = openByWorker)
    <2>1. CASE faults' = faults + 1 /\ openByWorker' = openByWorker
      BY <2>1
    <2>2. CASE /\ WitnessOpen(w, t) /\ faults' = faults
               /\ openByWorker' = IF WitnessOpens(w, t) THEN [openByWorker EXCEPT ![w] = t] ELSE openByWorker
      <3>1. CASE WitnessOpens(w, t) /\ wslot[w] = NULL
        <4>1. wslot' = [wslot EXCEPT ![w] = t]
          BY <2>2, <3>1 DEF WitnessOpen
        <4> QED
          BY <1>1, <2>2, <3>1, <4>1 DEF DrainInv, Basics, WitnessType
      <3>2. CASE WitnessOpens(w, t) /\ wslot[w] # NULL
        BY <2>2, <3>2 DEF WitnessOpen, WitnessOpens
      <3>3. CASE ~WitnessOpens(w, t)
        BY <2>2, <3>3 DEF WitnessOpen
      <3> QED
        BY <3>1, <3>2, <3>3
    <2> QED
      BY <2>1, <2>2 DEF AwaitOpen, Faulty
  <1>5. Slots'
    BY <1>1, <1>2, <1>3, MintSlots DEF DrainInv, Agree, Slots
  <1>6. /\ \A x \in Tests : x # t => wstatus'[x] = wstatus[x]
        /\ \A v \in Workers : v # w => wslot'[v] = wslot[v]
        /\ wstatus'[t] \in {wstatus[t], "open"}
    BY <1>3 DEF Mint, DrainInv, Basics, WitnessType
  <1>7. OverWhenClosed'
    <2>1. \A x \in Tests : Closed(wstatus'[x]) => Closed(wstatus[x])
      BY <1>6 DEF Closed
    <2> QED
      BY <1>2, <2>1, OverWhenClosedStep DEF DrainInv, Agree
  <1>8. Released'
    BY <1>1, <1>2, <1>6 DEF DrainInv, Agree, Released
  <1>9. \A v \in Workers : v # w => openByWorker'[v] = openByWorker[v]
    BY <1>4 DEF DrainInv, Basics, DrainType
  <1>10. openByWorker'[w] # NULL => openByWorker'[w] = t /\ wslot'[w] = t
    BY <1>1, <1>4 DEF DrainInv, Basics, DrainType
  <1>11. Held'
    <2> SUFFICES ASSUME NEW v \in Workers, openByWorker'[v] # NULL
                 PROVE  /\ wslot'[v] = openByWorker'[v] /\ awaitingOutcome[openByWorker'[v]] = Absent
                        /\ <<v, openByWorker'[v]>> \notin endedTests
      BY <1>2 DEF Held
    <2>1. CASE v = w
      BY <1>1, <1>10, <2>1
    <2>2. CASE v # w
      BY <1>6, <1>9, <2>2 DEF DrainInv, Agree, Held
    <2> QED
      BY <2>1, <2>2
  <1>12. Handling'
    <2>1. pc' = "reopen" => openByWorker'[w] = NULL /\ faults' > 0
      BY <1>1, <1>2, <1>4
    <2> QED
      BY <1>1, <1>2, <2>1 DEF Handling
  <1>13. InStep'
    <2> SUFFICES ASSUME faults' = 0, NEW v \in Workers, wslot'[v] # NULL
                 PROVE  openByWorker'[v] = wslot'[v]
      BY DEF InStep
    <2>1. faults = 0 /\ wslot[w] = NULL /\ Answered
      BY <1>1, <1>2, <1>4
    <2>2. CASE v = w
      BY <1>1, <2>1, <2>2 DEF DrainInv, Basics, DrainType
    <2>3. CASE v # w
      BY <1>2, <1>6, <1>9, <2>1, <2>3 DEF DrainInv, Agree, InStep
    <2> QED
      BY <2>2, <2>3
  <1>14. NextTestFindsItsSlot'
    <2>1. ASSUME faults' = 0 PROVE refused' = refused /\ faults = 0
      <3>1. faults = 0 /\ wslot[w] = NULL /\ faults' # faults + 1
        BY <1>1, <1>2, <2>1
      <3>2. WitnessOpen(w, t)
        BY <3>1 DEF AwaitOpen, Faulty
      <3> QED
        BY <3>1, <3>2 DEF WitnessOpen, WitnessOpens
    <2> QED
      BY <2>1 DEF DrainInv, Promises, NextTestFindsItsSlot
  <1>15. OutcomeIsTheRunners' /\ FinalizeBeforeSeal'
    BY <1>2, <1>3 DEF DrainInv, Promises, OutcomeIsTheRunners, FinalizeBeforeSeal, Basics, WitnessType
  <1> QED
    BY <1>5, <1>7, <1>8, <1>11, <1>12, <1>13, <1>14, <1>15 DEF Agree, Promises

----------------------------------------------------------------------------
\* The invariant holds initially.
LEMMA DrainInit == Init => DrainInv
  <1> SUFFICES ASSUME Init PROVE DrainInv
    OBVIOUS
  <1>1. RunType /\ DrainType /\ WitnessType
    BY DEF Init, RunType, DrainType, WitnessType, Absent
  <1>2. << >> \in Seq(Honest(setup, result)) /\ Len(<< >>) = 0
        /\ << >> \in Seq(Sealable(setup, result, awaitingOutcome))
    OBVIOUS
  <1>3. \A w \in Workers : << >> \in Seq({e \in Honest(setup, result) : e.w = w})
    OBVIOUS
  <1>4. Position
    BY <1>2 DEF Init, Position
  <1>5. Lines
    BY <1>2, <1>3 DEF Init, Lines, LinesOf
  <1>6. Reported
    <2> SUFFICES ASSUME NEW w \in Workers, NEW i \in 1..Len(TestsOf[w]) PROVE result[TestsOf[w][i]] = NULL
      BY DEF Reported
    <2>1. TestsOf[w][i] \in Tests
      BY Constants DEF Init, TestsOf
    <2> QED
      BY <2>1 DEF Init
  <1>7. Agree
    <2>1. \A w \in Workers : openByWorker[w] = NULL /\ wslot[w] = NULL
      BY DEF Init
    <2>2. \A t \in Tests : awaitingOutcome[t] = Absent /\ wstatus[t] = "none" /\ minted[t] = 0
      BY DEF Init
    <2>3. pc = "idle"
      BY DEF Init
    <2> QED
      BY <2>1, <2>2, <2>3 DEF Agree, Slots, OverWhenClosed, Released, Held, Handling, InStep
  <1>8. Promises /\ Stopped
    BY DEF Init, Promises, OutcomeIsTheRunners, FinalizeBeforeSeal, NextTestFindsItsSlot, Stopped
  <1> QED
    BY <1>1, <1>4, <1>5, <1>6, <1>7, <1>8 DEF DrainInv, Basics

\* Every step keeps the invariant.
LEMMA DrainStep == DrainInv /\ [Next]_vars => DrainInv'
  <1> SUFFICES ASSUME DrainInv, [Next]_vars PROVE DrainInv'
    OBVIOUS
  <1>1. Basics' /\ ResultsStay /\ OverStays /\ Stopped'
    BY BasicsStep, OverStaysStep, StoppedStep DEF DrainInv
  <1>2. CASE Runner
    <2>1. UNCHANGED witVars /\ UNCHANGED <<pc, cur, openByWorker, endedTests, awaitingOutcome, faults>>
      BY <1>2, RunnerSpools DEF DrainInv, mapVars
    <2> QED
      BY <1>1, <2>1, QuietStep DEF DrainInv
  <1>3. CASE Poll \/ Stop \/ StopDone \/ ChainStart \/ UNCHANGED vars
    <2>1. UNCHANGED witVars /\ UNCHANGED <<pc, cur, openByWorker, endedTests, awaitingOutcome, faults>>
      BY <1>3 DEF Poll, Stop, StopDone, ChainStart, vars, mapVars
    <2> QED
      BY <1>1, <2>1, QuietStep DEF DrainInv
  <1>4. CASE \/ HandleEvent \/ AwaitOpen \/ AwaitRelease \/ AwaitFinalize \/ AwaitSeal
             \/ OpenNextPending \/ ChainFinalize \/ ChainSeal \/ \E w \in Workers : ForceClose(w)
    <2>1. Agree' /\ Promises'
      BY <1>1, <1>4, HandleEventStep, AwaitOpenStep, AwaitReleaseStep, AwaitFinalizeStep, AwaitSealStep,
         OpenNextPendingStep, ChainStep, ForceCloseStep
    <2> QED
      BY <1>1, <2>1 DEF DrainInv
  <1> QED
    BY <1>2, <1>3, <1>4 DEF Next, Drain

\* The maps, queues and answers of the drain keep their types.
THEOREM DrainTypeCorrect == Spec => []TypeOK
  <1>1. DrainInv => TypeOK
    BY BasicsTyped DEF DrainInv
  <1> QED
    BY <1>1, DrainInit, DrainStep, PTL DEF Spec

\* openSessionFor: however lines are lost, repeated or late and calls are
\* lost, the witness mints one session for a test.
THEOREM DrainOpensOnce == Spec => []OneSessionPerTest
  <1>1. DrainInv => OneSessionPerTest
    BY DEF DrainInv, Agree, Slots, OneSessionPerTest
  <1> QED
    BY <1>1, DrainInit, DrainStep, PTL DEF Spec

\* The outcome the witness holds of a test is the one its runner reported.
THEOREM DrainTellsTheOutcome == Spec => []OutcomeIsTheRunners
  <1>1. DrainInv => OutcomeIsTheRunners
    BY DEF DrainInv, Promises
  <1> QED
    BY <1>1, DrainInit, DrainStep, PTL DEF Spec

\* No finalize of the drain reaches a session that is sealed.
THEOREM DrainFinalizesFirst == Spec => []FinalizeBeforeSeal
  <1>1. DrainInv => FinalizeBeforeSeal
    BY DEF DrainInv, Promises
  <1> QED
    BY <1>1, DrainInit, DrainStep, PTL DEF Spec

\* While no call is lost, no expected test meets the slot of the one before.
THEOREM DrainFindsTheSlot == Spec => []NextTestFindsItsSlot
  <1>1. DrainInv => NextTestFindsItsSlot
    BY DEF DrainInv, Promises
  <1> QED
    BY <1>1, DrainInit, DrainStep, PTL DEF Spec

\* When stop() has returned and no call was lost, no session is open.
THEOREM DrainStopsClean == Spec => []StopLeavesNothingOpen
  <1>1. DrainInv => StopLeavesNothingOpen
    <2> SUFFICES ASSUME DrainInv, stop = "done", faults = 0, NEW t \in Tests, wstatus[t] = "open" PROVE FALSE
      BY DEF StopLeavesNothingOpen
    <2>1. PICK w \in Workers : wslot[w] = t
      BY DEF DrainInv, Agree, Slots
    <2>2. pc = "idle" /\ openByWorker[w] = NULL
      BY DEF DrainInv, Stopped, Settled
    <2> QED
      BY <2>1, <2>2, Constants DEF DrainInv, Agree, InStep
  <1> QED
    BY <1>1, DrainInit, DrainStep, PTL DEF Spec

----------------------------------------------------------------------------
(* The drain implements Supervision.                                       *)

\* What a seal will state is known, stop() begins after the runner's exit, and
\* a session has no outcome before it ends.
Stating ==
    /\ pc \in {"finalize", "seal"} => cur.outcome # NULL
    /\ stop # "no" => ~alive
    /\ \A t \in Tests : wstatus[t] \in {"none", "open"} => woutcome[t] = NULL

\* A step that Supervision does not see.
Unseen == UNCHANGED <<alive, result, wstatus, wslot, woutcome>> /\ (stop' = "done" <=> stop = "done")

LEMMA UnseenStutters == ASSUME Unseen PROVE UNCHANGED Contract!vars
  BY DEF Unseen, Contract!vars

\* Calls end before stop() returns.
LEMMA NotOver ==
    ASSUME DrainInv, pc # "idle" \/ chainPc # "idle" \/ stop = "draining" PROVE stop # "done"
  BY DEF DrainInv, Stopped, Settled

\* The runner: it reports an outcome, exits, or writes a line.
LEMMA RunnerImplements ==
    ASSUME DrainInv, Stating, Runner
    PROVE  Stating' /\ [Contract!Next]_(Contract!vars)
  <1>1. UNCHANGED <<pc, cur, stop, wstatus, wslot, woutcome>>
    BY RunnerSpools DEF DrainInv, witVars
  <1>2. alive = TRUE /\ alive' \in {alive, FALSE}
    <2>1. CASE RunnerExit
      BY <2>1 DEF RunnerExit, DrainInv, Basics, RunType
    <2>2. ASSUME NEW w \in Workers, WorkerStep(w) PROVE alive = TRUE /\ alive' = alive
      BY <2>2 DEF WorkerStep, DrainInv, Basics, RunType
    <2>3. ASSUME NEW w \in Workers, NEW o, ReporterStep(w, o) PROVE alive = TRUE /\ alive' = alive
      BY <2>3 DEF ReporterStep, DrainInv, Basics, RunType
    <2>4. ASSUME NEW w \in Workers, NEW t, Rebegin(w, t) PROVE alive = TRUE /\ alive' = alive
      BY <2>4 DEF Rebegin, DrainInv, Basics, RunType
    <2> QED BY <2>1, <2>2, <2>3, <2>4 DEF Runner
  <1>3. Stating'
    BY <1>1, <1>2 DEF Stating
  <1>4. CASE RunnerExit
    <2>1. Contract!Exit
      BY <1>1, <1>2, <1>4 DEF RunnerExit, Contract!Exit
    <2> QED BY <1>3, <2>1 DEF Contract!Next
  <1>5. ASSUME NEW w \in Workers, WorkerStep(w) \/ \E t \in Tests : Rebegin(w, t) PROVE Unseen
    BY <1>1, <1>5 DEF WorkerStep, Rebegin, Unseen
  <1>6. ASSUME NEW w \in Workers, NEW o \in {"passed", "failed"}, ReporterStep(w, o)
        PROVE  [Contract!Next]_(Contract!vars)
    <2> DEFINE p == rpos[w] + 1
               t == TestAt(w, p)
    <2>1. t \in Tests /\ ResultsStay
      BY <1>6, ReporterSets DEF DrainInv, Basics
    <2>2. alive' = alive /\ result' \in {result, [result EXCEPT ![t] = o]}
      BY <1>6 DEF ReporterStep
    <2>3. result \in [Tests -> {NULL, "passed", "failed"}]
      BY DEF DrainInv, Basics, RunType
    <2> HIDE DEF p, t
    <2>4. CASE result' = result
      <3>1. Unseen
        BY <1>1, <2>2, <2>4 DEF Unseen
      <3> QED BY <3>1, UnseenStutters
    <2>5. CASE result' # result
      <3>1. result' = [result EXCEPT ![t] = o]
        BY <2>2, <2>5
      <3>2. result[t] = NULL
        <4>1. result[t] # NULL => result[t] = o
          BY <2>1, <2>3, <3>1 DEF ResultsStay
        <4> QED BY <2>1, <2>3, <2>5, <3>1, <4>1
      <3>3. Contract!Report(t, o)
        BY <1>1, <1>2, <2>2, <3>1, <3>2 DEF Contract!Report
      <3> QED BY <2>1, <3>3 DEF Contract!Next
    <2> QED BY <2>4, <2>5
  <1>7. \A w \in Workers : \A i \in 1..Len(TestsOf[w]) : TestsOf[w][i] \in Tests
    BY Constants DEF DrainInv, Basics, RunType, TestsOf
  <1> QED BY <1>3, <1>4, <1>5, <1>6, <1>7, UnseenStutters DEF Runner

\* The drain between its calls.
LEMMA QuietImplements ==
    ASSUME DrainInv, Stating,
           \/ Poll \/ HandleEvent \/ OpenNextPending \/ ChainStart \/ Stop \/ StopDone \/ UNCHANGED vars
    PROVE  Stating' /\ [Contract!Next]_(Contract!vars)
  <1>1. UNCHANGED <<alive, result, wstatus, wslot, woutcome>>
    BY DEF Poll, HandleEvent, OpenNextPending, ChainStart, Stop, StopDone, vars, runnerVars, witVars
  <1>2. CASE Poll \/ ChainStart \/ UNCHANGED vars
    <2>1. UNCHANGED <<pc, cur, stop>>
      BY <1>2 DEF Poll, ChainStart, vars
    <2> QED BY <1>1, <2>1, UnseenStutters DEF Stating, Unseen
  <1>3. CASE HandleEvent
    <2>1. stop' = stop /\ (pc' \in {"finalize", "seal"} => cur'.outcome # NULL)
      <3>1. cur' = Head(settling) /\ stop' = stop
        BY <1>3 DEF HandleEvent
      <3>2. CASE TakeEndOfSlot(Head(settling))
        BY <3>1, <3>2, Constants DEF TakeEndOfSlot
      <3>3. CASE TakeBegin(Head(settling))
        BY <3>1, <3>3 DEF TakeBegin, OpenSessionFor
      <3>4. CASE TakeEndOfReleased(Head(settling)) \/ TakeLoneEnd(Head(settling))
        BY <3>1, <3>4 DEF TakeEndOfReleased, TakeLoneEnd
      <3> QED BY <1>3, <3>1, <3>2, <3>3, <3>4 DEF HandleEvent
    <2> QED BY <1>1, <2>1, UnseenStutters DEF Stating, Unseen
  <1>4. CASE OpenNextPending
    <2>1. stop' = stop /\ pc' \notin {"finalize", "seal"}
      BY <1>4 DEF OpenNextPending, OpenSessionFor
    <2> QED BY <1>1, <2>1, UnseenStutters DEF Stating, Unseen
  <1>5. CASE Stop
    <2>1. UNCHANGED <<pc, cur>> /\ stop = "no" /\ stop' = "draining" /\ ~alive
      BY <1>5 DEF Stop
    <2> QED BY <1>1, <2>1, UnseenStutters DEF Stating, Unseen
  <1>6. CASE StopDone
    <2>1. UNCHANGED <<pc, cur>> /\ stop = "draining" /\ stop' = "done"
      BY <1>6 DEF StopDone
    <2>2. Stating' /\ Contract!Finish
      BY <1>1, <2>1 DEF Stating, Contract!Finish
    <2> QED BY <2>2 DEF Contract!Next
  <1> QED BY <1>2, <1>3, <1>4, <1>5, <1>6

\* The session of t ends at the witness as Supervision says.
LEMMA CloseImplements ==
    ASSUME DrainInv, Stating, NEW w \in Workers, NEW t \in Tests, NEW s \in {"outcome-pending", "sealed"},
           NEW o \in {NULL, result[t]}, wslot[w] = t, wstatus[t] = "open",
           wstatus' = [wstatus EXCEPT ![t] = s], wslot' = [wslot EXCEPT ![w] = NULL],
           woutcome' = [woutcome EXCEPT ![t] = o],
           UNCHANGED <<alive, result, stop>>, stop # "done",
           pc' \notin {"finalize", "seal"}
    PROVE  Stating' /\ Contract!Close(w, t, s, o)
  <1>1. \A x \in Tests : /\ wstatus'[x] = IF x = t THEN s ELSE wstatus[x]
                         /\ woutcome'[x] = IF x = t THEN o ELSE woutcome[x]
    BY DEF DrainInv, Basics, WitnessType
  <1>2. Stating'
    BY <1>1 DEF Stating
  <1>3. Contract!Close(w, t, s, o)
    BY DEF Contract!Close
  <1> QED BY <1>2, <1>3

\* An open makes the session of a test that has had none, or nothing.
LEMMA AwaitOpenImplements ==
    ASSUME DrainInv, Stating, AwaitOpen
    PROVE  Stating' /\ [Contract!Next]_(Contract!vars)
  <1> DEFINE w == cur.w
             t == cur.t
  <1>1. /\ w \in Workers /\ t \in Tests /\ (wslot[w] = NULL => wstatus[t] = "none")
        /\ stop # "done" /\ pc \in {"open", "reopen"}
    BY OpeningTest, NotOver DEF AwaitOpen
  <1>2. UNCHANGED <<alive, result, cur, stop>> /\ pc' \in {"idle", "reopen"}
    BY DEF AwaitOpen, runnerVars
  <1>3. WitnessOpen(w, t) \/ UNCHANGED witVars
    BY DEF AwaitOpen, Faulty
  <1> HIDE DEF w, t
  <1>4. CASE UNCHANGED <<wslot, wstatus, woutcome>>
    <2>1. Unseen /\ Stating'
      BY <1>2, <1>4 DEF Unseen, Stating
    <2> QED BY <2>1, UnseenStutters
  <1>5. CASE WitnessOpen(w, t) /\ WitnessOpens(w, t) /\ wslot[w] = NULL
    <2>1. /\ wslot' = [wslot EXCEPT ![w] = t] /\ wstatus' = [wstatus EXCEPT ![t] = "open"]
          /\ woutcome' = [woutcome EXCEPT ![t] = NULL]
      BY <1>5 DEF WitnessOpen
    <2>2. woutcome \in [Tests -> {NULL, "passed", "failed"}] /\ wstatus[t] = "none" /\ woutcome[t] = NULL
      BY <1>1, <1>5 DEF DrainInv, Basics, WitnessType, Stating
    <2>3. woutcome' = woutcome
      BY <1>1, <2>1, <2>2
    <2>4. \A x \in Tests : wstatus'[x] = IF x = t THEN "open" ELSE wstatus[x]
      BY <2>1 DEF DrainInv, Basics, WitnessType
    <2>5. Stating'
      BY <1>2, <2>2, <2>3, <2>4 DEF Stating
    <2>6. Contract!Open(w, t)
      BY <1>1, <1>2, <1>5, <2>1, <2>2, <2>3 DEF Contract!Open, WitnessOpens
    <2> QED BY <1>1, <2>5, <2>6 DEF Contract!Next
  <1>6. CASE WitnessOpen(w, t) /\ ~(WitnessOpens(w, t) /\ wslot[w] = NULL)
    <2>1. UNCHANGED <<wslot, wstatus, woutcome>>
      BY <1>6 DEF WitnessOpen
    <2> QED BY <1>4, <2>1
  <1>7. CASE UNCHANGED witVars
    BY <1>4, <1>7 DEF witVars
  <1> QED BY <1>3, <1>5, <1>6, <1>7

\* A release ends the session of the test that ended, without an outcome.
LEMMA AwaitReleaseImplements ==
    ASSUME DrainInv, Stating, AwaitRelease
    PROVE  Stating' /\ [Contract!Next]_(Contract!vars)
  <1> DEFINE w == cur.w
             t == cur.t
  <1>1. /\ w \in Workers /\ t \in Tests /\ wslot[w] = t /\ wstatus[t] = "open" /\ stop # "done"
    BY EndingTest, NotOver DEF AwaitRelease
  <1>2. UNCHANGED <<alive, result, cur, stop>> /\ pc' = "next"
    BY DEF AwaitRelease, runnerVars
  <1>3. WitnessRelease(w, t) \/ UNCHANGED witVars
    BY DEF AwaitRelease, Faulty
  <1> HIDE DEF w, t
  <1>4. CASE WitnessRelease(w, t)
    <2>1. /\ wstatus' = [wstatus EXCEPT ![t] = "outcome-pending"] /\ wslot' = [wslot EXCEPT ![w] = NULL]
          /\ woutcome' = woutcome
      BY <1>1, <1>4 DEF WitnessRelease
    <2>2. woutcome' = [woutcome EXCEPT ![t] = NULL]
      <3>1. woutcome[t] = NULL /\ woutcome \in [Tests -> {NULL, "passed", "failed"}]
        BY <1>1 DEF Stating, DrainInv, Basics, WitnessType
      <3> QED BY <2>1, <3>1
    <2>3. Stating' /\ Contract!Close(w, t, "outcome-pending", NULL)
      BY <1>1, <1>2, <2>1, <2>2, CloseImplements
    <2> QED BY <1>1, <2>3 DEF Contract!Next, Contract!Release
  <1>5. CASE UNCHANGED witVars
    <2>1. Unseen /\ Stating'
      BY <1>2, <1>5 DEF Unseen, Stating, witVars
    <2> QED BY <2>1, UnseenStutters
  <1> QED BY <1>3, <1>4, <1>5

\* A seal states what the runner reported.
LEMMA AwaitSealImplements ==
    ASSUME DrainInv, Stating, AwaitSeal
    PROVE  Stating' /\ [Contract!Next]_(Contract!vars)
  <1> DEFINE w == cur.w
             t == cur.t
             o == cur.outcome
  <1>1. /\ w \in Workers /\ t \in Tests /\ wslot[w] = t /\ wstatus[t] = "open" /\ stop # "done"
        /\ o # NULL /\ o = result[t]
    BY EndingTest, EventFields, NotOver DEF AwaitSeal, Stating
  <1>2. UNCHANGED <<alive, result, cur, stop>> /\ pc' = "next"
    BY DEF AwaitSeal, runnerVars
  <1>3. WitnessClose(w, t, o) \/ UNCHANGED witVars
    BY DEF AwaitSeal, Faulty
  <1> HIDE DEF w, t, o
  <1>4. CASE WitnessClose(w, t, o)
    <2>1. /\ wstatus' = [wstatus EXCEPT ![t] = "sealed"] /\ wslot' = [wslot EXCEPT ![w] = NULL]
          /\ woutcome' = [woutcome EXCEPT ![t] = o]
      BY <1>1, <1>4 DEF WitnessClose
    <2>2. Stating' /\ Contract!Close(w, t, "sealed", o)
      BY <1>1, <1>2, <2>1, CloseImplements
    <2>3. Contract!Seal(w, t)
      BY <1>1, <2>2 DEF Contract!Seal
    <2> QED BY <1>1, <2>2, <2>3 DEF Contract!Next
  <1>5. CASE UNCHANGED witVars
    <2>1. Unseen /\ Stating'
      BY <1>2, <1>5 DEF Unseen, Stating, witVars
    <2> QED BY <2>1, UnseenStutters
  <1> QED BY <1>3, <1>4, <1>5

\* A force close gives up what the exited runner left open.
LEMMA ForceCloseImplements ==
    ASSUME DrainInv, Stating, NEW w \in Workers, ForceClose(w)
    PROVE  Stating' /\ [Contract!Next]_(Contract!vars)
  <1>0. PICK t \in Tests : openByWorker[w] = t
    BY DEF ForceClose, DrainInv, Basics, DrainType
  <1>1. wslot[w] = t /\ wstatus[t] = "open" /\ stop = "draining" /\ pc = "idle" /\ ~alive
    <2>1. wslot[w] = t
      BY <1>0, Constants DEF DrainInv, Agree, Held
    <2> QED BY <2>1, Constants DEF DrainInv, Agree, Slots, ForceClose, Settled, Stating
  <1>2. UNCHANGED <<alive, result, cur, stop, pc>>
    BY DEF ForceClose, runnerVars
  <1>3. WitnessClose(w, t, NULL) \/ UNCHANGED witVars
    BY <1>0 DEF ForceClose, Faulty
  <1>4. CASE WitnessClose(w, t, NULL)
    <2>1. /\ wstatus' = [wstatus EXCEPT ![t] = "sealed"] /\ wslot' = [wslot EXCEPT ![w] = NULL]
          /\ woutcome' = [woutcome EXCEPT ![t] = NULL]
      BY <1>1, <1>4 DEF WitnessClose
    <2>2. Stating' /\ Contract!Close(w, t, "sealed", NULL)
      BY <1>1, <1>2, <2>1, CloseImplements
    <2> QED BY <1>1, <2>2 DEF Contract!Next, Contract!GiveUp
  <1>5. CASE UNCHANGED witVars
    <2>1. Unseen /\ Stating'
      BY <1>2, <1>5 DEF Unseen, Stating, witVars
    <2> QED BY <2>1, UnseenStutters
  <1> QED BY <1>3, <1>4, <1>5

\* A finalize is not seen; the chain settles a released session once.
LEMMA ChainImplements ==
    ASSUME DrainInv, Stating, AwaitFinalize \/ ChainFinalize \/ ChainSeal
    PROVE  Stating' /\ [Contract!Next]_(Contract!vars)
  <1>1. UNCHANGED <<alive, result, cur, stop>>
    BY DEF AwaitFinalize, ChainFinalize, ChainSeal, runnerVars
  <1>2. CASE AwaitFinalize \/ ChainFinalize
    <2>1. UNCHANGED <<wslot, wstatus, woutcome>>
      BY <1>2 DEF AwaitFinalize, ChainFinalize, Faulty, WitnessFinalize, witVars
    <2>2. pc' = pc \/ (pc = "finalize" /\ pc' = "seal")
      BY <1>2 DEF AwaitFinalize, ChainFinalize
    <2>3. Unseen /\ Stating'
      BY <1>1, <2>1, <2>2 DEF Unseen, Stating
    <2> QED BY <2>3, UnseenStutters
  <1>3. CASE ChainSeal
    <2> DEFINE c == Head(chains)
               t == c[2]
    <2>1. /\ t \in Tests /\ c[3] \in {"passed", "failed"} /\ result[t] = c[3]
          /\ wstatus[t] = "outcome-pending" /\ stop # "done"
      <3>1. c \in Sealable(setup, result, awaitingOutcome) /\ t \in Tests /\ c[3] \in {"passed", "failed"}
        BY <1>3, FirstInChain DEF ChainSeal, DrainInv
      <3>2. result[t] = c[3] /\ awaitingOutcome[t] # Absent
        BY <3>1 DEF Sealable
      <3>3. stop # "done"
        BY <1>3, NotOver DEF ChainSeal
      <3> QED BY <3>1, <3>2, <3>3 DEF DrainInv, Agree, Released
    <2>2. pc' = pc
      BY <1>3 DEF ChainSeal
    <2>3. WitnessClose(c[1], t, c[3]) \/ UNCHANGED witVars
      BY <1>3 DEF ChainSeal, Faulty
    <2> HIDE DEF t
    <2>4. CASE UNCHANGED <<wslot, wstatus, woutcome>>
      <3>1. Unseen /\ Stating'
        BY <1>1, <2>2, <2>4 DEF Unseen, Stating
      <3> QED BY <3>1, UnseenStutters
    <2>5. CASE /\ UNCHANGED <<wslot, wstatus>> /\ woutcome[t] = NULL
               /\ woutcome' = [woutcome EXCEPT ![t] = c[3]]
      <3>1. \A x \in Tests : x # t => woutcome'[x] = woutcome[x]
        BY <2>5 DEF DrainInv, Basics, WitnessType
      <3>2. Stating'
        BY <1>1, <2>1, <2>2, <2>5, <3>1 DEF Stating
      <3>3. Contract!Settle(t)
        BY <1>1, <2>1, <2>5, Constants DEF Contract!Settle
      <3> QED BY <2>1, <3>2, <3>3 DEF Contract!Next
    <2>6. WitnessClose(c[1], t, c[3]) =>
            \/ UNCHANGED <<wslot, wstatus, woutcome>>
            \/ /\ UNCHANGED <<wslot, wstatus>> /\ woutcome[t] = NULL
               /\ woutcome' = [woutcome EXCEPT ![t] = c[3]]
      BY <2>1 DEF WitnessClose, witVars
    <2> QED BY <2>3, <2>4, <2>5, <2>6 DEF witVars
  <1> QED BY <1>2, <1>3

\* Every step of drain and runner is a step of Supervision, or none.
LEMMA StepImplements == DrainInv /\ Stating /\ [Next]_vars => Stating' /\ [Contract!Next]_(Contract!vars)
  <1> SUFFICES ASSUME DrainInv, Stating, [Next]_vars PROVE Stating' /\ [Contract!Next]_(Contract!vars)
    OBVIOUS
  <1>1. CASE Runner
    BY <1>1, RunnerImplements
  <1>2. CASE Drain
    BY <1>2, QuietImplements, AwaitOpenImplements, AwaitReleaseImplements, AwaitSealImplements,
       ForceCloseImplements, ChainImplements DEF Drain
  <1>3. CASE UNCHANGED vars
    BY <1>3, QuietImplements
  <1> QED BY <1>1, <1>2, <1>3 DEF Next

\* The drain, with its runner and over lossy calls, implements Supervision: one
\* session per test, alone on its worker and never taken up again, with the
\* outcome the runner reported, given up only after the runner's exit.
THEOREM DrainImplements == Spec => ImplementsSupervision
  <1>1. Init => Stating /\ Contract!Init
    <2> SUFFICES ASSUME Init PROVE Stating /\ Contract!Init
      OBVIOUS
    <2>1. Stating
      BY DEF Init, Stating
    <2>2. Contract!Init
      BY DEF Init, Contract!Init
    <2> QED BY <2>1, <2>2
  <1> QED BY <1>1, DrainInit, DrainStep, StepImplements, PTL DEF Spec, ImplementsSupervision, Contract!Spec

----------------------------------------------------------------------------
(* Genuine runs.  What the two writers append is in order enough: an end   *)
(* follows its begin, the reporter's end the worker's, a test the ends of  *)
(* the tests before it.  The queue hands the lines over in the file's order*)
(* with at most one repeated, so that an event comes when all before it    *)
(* has been noted.  Then a begin that would open a session finds its test  *)
(* not ended and, if the test is expected, its slot free; and an end finds *)
(* that its test has begun.                                                *)

\* Nothing of the run was lost or written twice, on either side of the drain.
Undisturbed == Genuine /\ faults = 0

\* A begin of t, and an end that releases or closes it: the worker's where
\* the worker spools its ends as well, otherwise the reporter's.
Opens(e, t) == e.kind = "testBegin" /\ e.t = t
Ends(e, t) == e.kind = "testEnd" /\ e.t = t /\ (TwoWriters => e.outcome = NULL)

\* The writer that leads has written what it did.
Lead(w) == IF TwoWriters THEN wpos[w] ELSE rpos[w]
Written ==
    \A w \in Workers : \A k \in 1..Len(TestsOf[w]) :
      /\ Lead(w) >= 2 * k - 1 => \E n \in 1..Len(file) : Opens(file[n], TestsOf[w][k])
      /\ Lead(w) >= 2 * k <=> \E n \in 1..Len(file) : Ends(file[n], TestsOf[w][k])

\* What precedes a line of the file: its test's begin, the worker's end, the
\* ends of the tests before; a sole writer begins no test it has ended.
Ordered ==
    \A n \in 1..Len(file) :
      LET e == file[n]
      IN  /\ e.kind = "testEnd" => \E m \in 1..(n - 1) : Opens(file[m], e.t)
          /\ e.kind = "testEnd" /\ ~Ends(e, e.t) => \E m \in 1..(n - 1) : Ends(file[m], e.t)
          /\ \A w \in Workers : \A j, k \in 1..Len(TestsOf[w]) :
               e.t = TestsOf[w][k] /\ j < k => \E m \in 1..(n - 1) : Ends(file[m], TestsOf[w][j])
          /\ e.kind = "testBegin" /\ ~TwoWriters => \A m \in 1..(n - 1) : ~Ends(file[m], e.t)

\* The drain has taken note of a line.
Noted(e) ==
    /\ e.kind = "testBegin" => e.t \in begunTests
    /\ Ends(e, e.t) /\ e.t \in Expected => <<e.w, e.t>> \in endedTests

\* src[i] is the line of the i-th event in the queue, and src[Len + 1] the
\* first line not read: lines come in order, one perhaps repeated.
Reads(src) ==
    /\ src \in [1..(Len(settling) + 1) -> Nat \ {0}] /\ src[Len(settling) + 1] = offset + 1
    /\ \A i \in 1..Len(settling) : /\ src[i] <= Len(file) /\ settling[i] = file[src[i]]
                                   /\ src[i + 1] \in {src[i], src[i] + 1}
    /\ \A m \in 1..Len(file) : m < src[1] => Noted(file[m])
    /\ \A w \in Workers, t \in Tests : <<w, t>> \in endedTests =>
         \E m \in 1..Len(file) : m <= src[1] /\ Ends(file[m], t)

InOrder == \E src \in [1..(Len(settling) + 1) -> Nat \ {0}] : Reads(src)

\* What is open has begun, and is expected.
OpensKnown ==
    /\ \A w \in Workers : openByWorker[w] # NULL => openByWorker[w] \in Expected \cap begunTests
    /\ pc \in {"open", "reopen"} => cur.t \in begunTests

\* No begin of an expected test waits behind another,
NoneWaits ==
    \A w \in Workers : \A i \in 1..Len(pendingByWorker[w]) :
      pendingByWorker[w][i].t \in begunTests \ Expected

\* so one that has begun is being opened, open or ended, until stop() is over,
Followed ==
    ~(stop # "no" /\ Settled) =>
      \A w \in Workers, t \in Tests :
        t \in begunTests \cap Expected /\ Home(setup, w, t) =>
          \/ pc \in {"open", "reopen"} /\ cur.t = t
          \/ openByWorker[w] = t \/ <<w, t>> \in endedTests

\* and one that has begun follows the ends of all before it.
InTurn ==
    \A w \in Workers : \A j, k \in 1..Len(TestsOf[w]) :
      j < k /\ TestsOf[w][k] \in begunTests /\ TestsOf[w][j] \in Expected =>
        <<w, TestsOf[w][j]>> \in endedTests

\* The outcome of an ended test is awaited where the worker ends tests too.
Awaited ==
    /\ \A t \in Tests : awaitingOutcome[t] \in {Absent, NULL, result[t]}
    /\ \A w \in Workers, t \in Tests : Home(setup, w, t) =>
         /\ awaitingOutcome[t] # Absent => <<w, t>> \in endedTests
         /\ TwoWriters /\ <<w, t>> \in endedTests =>
              awaitingOutcome[t] # Absent \/ (pc = "release" /\ cur.t = t)

Lifecycles == OpensKnown /\ NoneWaits /\ Followed /\ InTurn /\ Awaited /\ conflicts = {}

GenuineInv == Undisturbed => Written /\ Ordered /\ InOrder /\ Lifecycles

----------------------------------------------------------------------------
(* Counters of disturbances only grow.                                     *)

\* A run that is undisturbed now was undisturbed before, and no call of the
\* step was lost.
LEMMA UndisturbedBefore ==
    ASSUME Basics, [Next]_vars, Undisturbed'
    PROVE  Undisturbed /\ faults' = faults /\ rebegins' = rebegins /\ lost' = lost
  <1>1. {lost, rebegins, faults} \subseteq Nat
    BY DEF Basics, RunType, DrainType
  <1>2. lost' \in {lost, lost + 1} /\ rebegins' \in {rebegins, rebegins + 1} /\ faults' \in {faults, faults + 1}
    <2>1. CASE UNCHANGED vars
      BY <2>1 DEF vars, runnerVars
    <2>2. CASE Runner
      <3>1. faults' = faults
        BY <2>2, RunnerSpools
      <3>2. CASE RunnerExit
        BY <3>1, <3>2 DEF RunnerExit
      <3>3. ASSUME NEW w \in Workers, WorkerStep(w)
            PROVE  lost' \in {lost, lost + 1} /\ rebegins' = rebegins
        BY <3>3 DEF WorkerStep, Append1
      <3>4. ASSUME NEW w \in Workers, NEW o, ReporterStep(w, o)
            PROVE  lost' \in {lost, lost + 1} /\ rebegins' = rebegins
        BY <3>4 DEF ReporterStep, Append1
      <3>5. ASSUME NEW w \in Workers, NEW t, Rebegin(w, t)
            PROVE  lost' = lost /\ rebegins' = rebegins + 1
        BY <3>5 DEF Rebegin
      <3> QED
        BY <2>2, <3>1, <3>2, <3>3, <3>4, <3>5 DEF Runner
    <2>3. CASE Drain
      <3>1. lost' = lost /\ rebegins' = rebegins
        BY <2>3, DrainKeepsRun DEF runnerVars
      <3>2. faults' \in {faults, faults + 1}
        <4>1. CASE Poll \/ HandleEvent \/ OpenNextPending \/ ChainStart \/ Stop \/ StopDone
          BY <4>1 DEF Poll, HandleEvent, OpenNextPending, ChainStart, Stop, StopDone
        <4>2. CASE AwaitOpen \/ AwaitRelease \/ AwaitFinalize \/ AwaitSeal
          BY <4>2 DEF AwaitOpen, AwaitRelease, AwaitFinalize, AwaitSeal, Faulty
        <4>3. CASE ChainFinalize \/ ChainSeal \/ \E w \in Workers : ForceClose(w)
          BY <4>3 DEF ChainFinalize, ChainSeal, ForceClose, Faulty
        <4> QED
          BY <2>3, <4>1, <4>2, <4>3 DEF Drain
      <3> QED
        BY <3>1, <3>2
    <2> QED
      BY <2>1, <2>2, <2>3 DEF Next
  <1> QED
    BY <1>1, <1>2 DEF Undisturbed, Genuine

----------------------------------------------------------------------------
(* The order of the file.                                                  *)

\* What one more line leaves of the others.
LEMMA OneMoreLine ==
    ASSUME NEW S, NEW q \in Seq(S), NEW e \in S
    PROVE  LET r == Append(q, e)
           IN  /\ Len(q) \in Nat /\ Len(r) = Len(q) + 1 /\ r[Len(q) + 1] = e
               /\ \A n \in 1..Len(q) : r[n] = q[n]
  OBVIOUS

\* The step of its writer that e, a line of the k-th test of w, is: of the one
\* that leads, or of the reporter that trails the worker.
Due(w, k, e, a, b) ==
    \/ e.kind = "testBegin" /\ a = 2 * k - 2 /\ b = 2 * k - 1
    \/ e.kind = "testEnd" /\ Ends(e, e.t) /\ a = 2 * k - 1 /\ b = 2 * k
    \/ e.kind = "testBegin" /\ TwoWriters /\ a >= 2 * k - 2 /\ b = a
    \/ e.kind = "testEnd" /\ ~Ends(e, e.t) /\ a >= 2 * k /\ b = a

\* A line that is due keeps the order of the file.
LEMMA DueOrdered ==
    ASSUME Basics, Written, Ordered, setup' = setup,
           NEW w \in Workers, NEW k \in 1..Len(TestsOf[w]), NEW e \in Event, NEW b \in Nat,
           e.t = TestsOf[w][k], Lead(w) \in Nat, Due(w, k, e, Lead(w), b), file' = Append(file, e)
    PROVE  Ordered'
  <1> DEFINE L == Len(file)
  <1>0. /\ setup \in Setups /\ TwoWriters' = TwoWriters /\ TestsOf' = TestsOf
        /\ \A v \in Workers : Len(TestsOf[v]) \in Nat
    BY Constants DEF Basics, RunType, TwoWriters, TestsOf
  <1>1. file \in Seq(Event)
    BY BasicsTyped DEF TypeOK
  <1>2. /\ L \in Nat /\ Len(file') = L + 1 /\ file'[L + 1] = e
        /\ \A n \in 1..L : file'[n] = file[n]
    BY <1>1, OneMoreLine
  <1>3. \A x, t : Ends(x, t)' <=> Ends(x, t)
    BY <1>0 DEF Ends
  <1>4. /\ e.kind = "testEnd" => \E m \in 1..L : Opens(file[m], e.t)
        /\ e.kind = "testEnd" /\ ~Ends(e, e.t) => \E m \in 1..L : Ends(file[m], e.t)
        /\ \A j \in 1..Len(TestsOf[w]) : j < k => \E m \in 1..L : Ends(file[m], TestsOf[w][j])
        /\ e.kind = "testBegin" /\ ~TwoWriters => \A m \in 1..L : ~Ends(file[m], e.t)
    <2>1. k \in Nat /\ k >= 1
      BY <1>0
    <2>2. e.kind = "testEnd" => \E m \in 1..L : Opens(file[m], e.t)
      BY <2>1 DEF Due, Written
    <2>3. e.kind = "testEnd" /\ ~Ends(e, e.t) => \E m \in 1..L : Ends(file[m], e.t)
      BY <2>1 DEF Due, Written
    <2>4. ASSUME NEW j \in 1..Len(TestsOf[w]), j < k PROVE \E m \in 1..L : Ends(file[m], TestsOf[w][j])
      <3>1. j \in Nat /\ Lead(w) >= 2 * j
        BY <1>0, <2>1, <2>4 DEF Due
      <3> QED
        BY <3>1 DEF Written
    <2>5. e.kind = "testBegin" /\ ~TwoWriters => \A m \in 1..L : ~Ends(file[m], e.t)
      <3>1. e.kind = "testBegin" /\ ~TwoWriters => ~(Lead(w) >= 2 * k)
        BY <2>1 DEF Due
      <3> QED
        BY <3>1 DEF Written
    <2> QED
      BY <2>2, <2>3, <2>4, <2>5
  <1>5. SUFFICES ASSUME NEW n \in 1..(L + 1)
                 PROVE  LET x == file'[n]
                        IN  /\ x.kind = "testEnd" => \E m \in 1..(n - 1) : Opens(file'[m], x.t)
                            /\ x.kind = "testEnd" /\ ~Ends(x, x.t) => \E m \in 1..(n - 1) : Ends(file'[m], x.t)
                            /\ \A v \in Workers : \A i, j \in 1..Len(TestsOf[v]) :
                                 x.t = TestsOf[v][j] /\ i < j => \E m \in 1..(n - 1) : Ends(file'[m], TestsOf[v][i])
                            /\ x.kind = "testBegin" /\ ~TwoWriters => \A m \in 1..(n - 1) : ~Ends(file'[m], x.t)
    BY <1>0, <1>2, <1>3, ZenonT(40) DEF Ordered, Opens
  <1>6. \A m \in 1..(n - 1) : m \in 1..L /\ file'[m] = file[m]
    BY <1>2
  <1>7. CASE n \in 1..L
    <2>1. file'[n] = file[n]
      BY <1>2, <1>7
    <2> QED
      BY <1>6, <1>7, <2>1 DEF Ordered
  <1>8. CASE n = L + 1
    <2>1. file'[n] = e /\ 1..(n - 1) = 1..L
      BY <1>2, <1>8
    <2>2. ASSUME NEW v \in Workers, NEW i \in 1..Len(TestsOf[v]), NEW j \in 1..Len(TestsOf[v]),
                 e.t = TestsOf[v][j], i < j
          PROVE  \E m \in 1..L : Ends(file[m], TestsOf[v][i])
      <3>1. TestsOf[v][j] = TestsOf[w][k]
        BY <2>2
      <3>2. v = w /\ j = k
        BY <1>0, <3>1, OnePlace DEF TestsOf
      <3> QED
        BY <1>4, <2>2, <3>2
    <2> QED
      BY <1>4, <1>6, <2>1, <2>2
  <1>9. n \in 1..L \/ n = L + 1
    BY <1>2
  <1> QED
    BY <1>7, <1>8, <1>9

\* A line that is due keeps what the leading writer has written.
LEMMA DueWritten ==
    ASSUME Basics, Written, setup' = setup,
           NEW w \in Workers, NEW k \in 1..Len(TestsOf[w]), NEW e \in Event,
           e.t = TestsOf[w][k], \A v \in Workers : Lead(v) \in Nat /\ (v # w => Lead(v)' = Lead(v)),
           Lead(w)' \in Nat, Due(w, k, e, Lead(w), Lead(w)'), file' = Append(file, e)
    PROVE  Written'
  <1> DEFINE L == Len(file)
  <1>0. /\ setup \in Setups /\ TwoWriters' = TwoWriters /\ TestsOf' = TestsOf
        /\ \A v \in Workers : Len(TestsOf[v]) \in Nat
    BY Constants DEF Basics, RunType, TwoWriters, TestsOf
  <1>1. file \in Seq(Event)
    BY BasicsTyped DEF TypeOK
  <1>2. /\ L \in Nat /\ Len(file') = L + 1 /\ file'[L + 1] = e
        /\ \A n \in 1..L : file'[n] = file[n]
    BY <1>1, OneMoreLine
  <1>3. \A x, t : Ends(x, t)' <=> Ends(x, t)
    BY <1>0 DEF Ends
  <1> DEFINE a(v) == Lead(v)
             b(v) == Lead(v)'
             Begun(f, l, t) == \E n \in 1..l : Opens(f[n], t)
             Ended(f, l, t) == \E n \in 1..l : Ends(f[n], t)
  <1>4. \A t : /\ Begun(file', L + 1, t) <=> Begun(file, L, t) \/ Opens(e, t)
               /\ Ended(file', L + 1, t) <=> Ended(file, L, t) \/ Ends(e, t)
    <2>1. \A n : n \in 1..(L + 1) <=> n \in 1..L \/ n = L + 1
      BY <1>2
    <2> QED
      BY <1>2, <2>1
  <1>5. ASSUME NEW v \in Workers, NEW i \in 1..Len(TestsOf[v])
        PROVE  /\ b(v) >= 2 * i - 1 => Begun(file', L + 1, TestsOf[v][i])
               /\ b(v) >= 2 * i <=> Ended(file', L + 1, TestsOf[v][i])
    <2>1. /\ a(v) >= 2 * i - 1 => Begun(file, L, TestsOf[v][i])
          /\ a(v) >= 2 * i <=> Ended(file, L, TestsOf[v][i])
      BY DEF Written
    <2>2. i \in Nat /\ i >= 1 /\ k \in Nat /\ k >= 1 /\ a(v) \in Nat
      BY <1>0
    <2>3. CASE TestsOf[v][i] # TestsOf[w][k]
      <3>1. b(v) = a(v) \/ (v = w /\ i # k)
        BY <2>3
      <3>2. ~Opens(e, TestsOf[v][i]) /\ ~Ends(e, TestsOf[v][i])
        BY <2>3 DEF Opens, Ends
      <3>3. /\ b(v) >= 2 * i - 1 => a(v) >= 2 * i - 1
            /\ b(v) >= 2 * i <=> a(v) >= 2 * i
        <4> HIDE DEF a, b
        <4>1. v = w => Due(w, k, e, a(v), b(v))
          BY DEF a, b
        <4> QED
          BY <2>2, <3>1, <4>1 DEF Due
      <3> QED
        BY <1>4, <2>1, <3>2, <3>3
    <2>4. CASE TestsOf[v][i] = TestsOf[w][k]
      <3>1. v = w /\ i = k
        BY <1>0, <2>4, OnePlace DEF TestsOf
      <3>2. Due(w, k, e, a(w), b(w)) /\ a(w) \in Nat
        OBVIOUS
      <3>3. CASE e.kind = "testBegin"
        <4>1. Opens(e, TestsOf[w][k]) /\ ~Ends(e, TestsOf[w][k])
          BY <3>3 DEF Opens, Ends
        <4>2. b(w) >= 2 * k <=> a(w) >= 2 * k
          BY <2>2, <3>2, <3>3 DEF Due
        <4> QED
          BY <1>4, <2>1, <3>1, <4>1, <4>2
      <3>4. CASE e.kind = "testEnd" /\ Ends(e, e.t)
        <4>1. a(w) >= 2 * k - 1 /\ b(w) >= 2 * k
          BY <2>2, <3>2, <3>4 DEF Due
        <4> QED
          BY <1>4, <2>1, <2>2, <3>1, <3>4, <4>1
      <3>5. CASE e.kind = "testEnd" /\ ~Ends(e, e.t)
        <4>1. a(w) >= 2 * k /\ b(w) = a(w)
          BY <3>2, <3>5 DEF Due
        <4> QED
          BY <1>4, <2>1, <2>2, <3>1, <4>1
      <3> QED
        BY <3>2, <3>3, <3>4, <3>5 DEF Due
    <2> QED
      BY <2>3, <2>4
  <1> QED
    BY <1>0, <1>2, <1>3, <1>5 DEF Written, Opens

\* The place of a writer's next step in its worker's run.
LEMMA NextPlace ==
    ASSUME Basics, NEW w \in Workers, NEW p \in Nat, p + 1 <= 2 * Len(TestsOf[w])
    PROVE  \E k \in 1..Len(TestsOf[w]) :
             /\ TestAt(w, p + 1) = TestsOf[w][k] /\ TestsOf[w][k] \in Tests
             /\ (p + 1) % 2 = 1 => p = 2 * k - 2
             /\ (p + 1) % 2 # 1 => p = 2 * k - 1
  <1> DEFINE k == (p + 2) \div 2
  <1>1. setup \in Setups /\ Len(TestsOf[w]) \in Nat
    BY Constants DEF Basics, RunType, TestsOf
  <1>2. k \in 1..Len(TestsOf[w]) /\ (p + 1) + 1 = p + 2
    BY <1>1, Places
  <1>3. /\ (p + 1) % 2 = 1 => p = 2 * k - 2
        /\ (p + 1) % 2 # 1 => p = 2 * k - 1
    OBVIOUS
  <1>4. TestAt(w, p + 1) = TestsOf[w][k] /\ TestsOf[w][k] \in Tests
    BY <1>1, <1>2, Constants DEF TestAt, TestsOf
  <1> QED
    BY <1>2, <1>3, <1>4

\* The runner writes each line when it is due.
LEMMA RunnerWrites ==
    ASSUME Basics, Written, Ordered, Runner, lost' = lost, rebegins' = rebegins
    PROVE  Written' /\ Ordered'
  <1>0. /\ wpos \in [Workers -> Nat] /\ rpos \in [Workers -> Nat] /\ {lost, rebegins} \subseteq Nat
        /\ \A v \in Workers : Lead(v) \in Nat
    BY DEF Basics, RunType, Lead
  <1>1. CASE RunnerExit
    BY <1>1 DEF RunnerExit, Written, Ordered, Lead, Ends, Opens, TwoWriters, TestsOf
  <1>2. ASSUME NEW w \in Workers, WorkerStep(w) PROVE Written' /\ Ordered'
    <2> DEFINE p == wpos[w]
    <2>1. /\ TwoWriters /\ p + 1 <= 2 * Len(TestsOf[w]) /\ p \in Nat
          /\ wpos' = [wpos EXCEPT ![w] = p + 1] /\ setup' = setup /\ rpos' = rpos
          /\ file' = Append(file, IF (p + 1) % 2 = 1 THEN Begin(w, TestAt(w, p + 1))
                                                      ELSE End(w, TestAt(w, p + 1), NULL))
      BY <1>0, <1>2 DEF WorkerStep, Append1
    <2>2. PICK k \in 1..Len(TestsOf[w]) :
             /\ TestAt(w, p + 1) = TestsOf[w][k] /\ TestsOf[w][k] \in Tests
             /\ (p + 1) % 2 = 1 => p = 2 * k - 2
             /\ (p + 1) % 2 # 1 => p = 2 * k - 1
      BY <2>1, NextPlace
    <2> DEFINE e == IF (p + 1) % 2 = 1 THEN Begin(w, TestsOf[w][k]) ELSE End(w, TestsOf[w][k], NULL)
    <2>3. /\ Lead(w) = p /\ Lead(w)' = p + 1
          /\ \A v \in Workers : v # w => Lead(v)' = Lead(v)
      BY <1>0, <2>1 DEF Lead, TwoWriters
    <2>4. e \in Event /\ e.t = TestsOf[w][k] /\ file' = Append(file, e)
      BY <2>1, <2>2 DEF Event, Begin, End
    <2>5. Due(w, k, e, p, p + 1)
      <3>1. k \in Nat
        BY Constants DEF Basics, RunType, TestsOf
      <3>2. CASE (p + 1) % 2 = 1
        <4>1. e.kind = "testBegin" /\ p = 2 * k - 2 /\ p + 1 = 2 * k - 1
          BY <2>1, <2>2, <3>1, <3>2 DEF Begin
        <4> HIDE DEF e
        <4> QED
          BY <4>1 DEF Due
      <3>3. CASE (p + 1) % 2 # 1
        <4>1. e.kind = "testEnd" /\ Ends(e, e.t) /\ p = 2 * k - 1 /\ p + 1 = 2 * k
          BY <2>1, <2>2, <3>1, <3>3 DEF End, Ends
        <4> HIDE DEF e
        <4> QED
          BY <4>1 DEF Due
      <3> QED
        BY <3>2, <3>3
    <2> HIDE DEF e, p
    <2>6. Due(w, k, e, Lead(w), Lead(w)') /\ Lead(w)' \in Nat
      BY <2>1, <2>3, <2>5
    <2>7. Ordered'
      BY <1>0, <2>1, <2>4, <2>6, DueOrdered
    <2>8. Written'
      BY <1>0, <2>1, <2>3, <2>4, <2>6, DueWritten
    <2> QED
      BY <2>7, <2>8
  <1>3. ASSUME NEW w \in Workers, NEW o \in {"passed", "failed"}, ReporterStep(w, o) PROVE Written' /\ Ordered'
    <2> DEFINE p == rpos[w]
    <2>1. /\ p + 1 <= 2 * Len(TestsOf[w]) /\ p \in Nat
          /\ rpos' = [rpos EXCEPT ![w] = p + 1] /\ setup' = setup /\ wpos' = wpos
          /\ TwoWriters => wpos[w] >= (IF (p + 1) % 2 = 1 THEN (p + 1) - 1 ELSE p + 1)
          /\ file' = Append(file, IF (p + 1) % 2 = 1 THEN Begin(w, TestAt(w, p + 1))
                                                      ELSE End(w, TestAt(w, p + 1), o))
      BY <1>0, <1>3 DEF ReporterStep, Append1
    <2>2. PICK k \in 1..Len(TestsOf[w]) :
             /\ TestAt(w, p + 1) = TestsOf[w][k] /\ TestsOf[w][k] \in Tests
             /\ (p + 1) % 2 = 1 => p = 2 * k - 2
             /\ (p + 1) % 2 # 1 => p = 2 * k - 1
      BY <2>1, NextPlace
    <2> DEFINE e == IF (p + 1) % 2 = 1 THEN Begin(w, TestsOf[w][k]) ELSE End(w, TestsOf[w][k], o)
    <2>3. /\ TwoWriters => Lead(w) = wpos[w] /\ Lead(w)' = Lead(w)
          /\ ~TwoWriters => Lead(w) = p /\ Lead(w)' = p + 1
          /\ \A v \in Workers : v # w => Lead(v)' = Lead(v)
      BY <1>0, <2>1 DEF Lead, TwoWriters
    <2>4. e \in Event /\ e.t = TestsOf[w][k] /\ file' = Append(file, e)
      BY <2>1, <2>2 DEF Event, Begin, End
    <2>5. Due(w, k, e, Lead(w), Lead(w)')
      <3>1. k \in Nat /\ wpos[w] \in Nat /\ o # NULL
        BY <1>0, Constants DEF Basics, RunType, TestsOf
      <3>2. CASE (p + 1) % 2 = 1
        <4>1. e.kind = "testBegin" /\ p = 2 * k - 2 /\ p + 1 = 2 * k - 1
          BY <2>1, <2>2, <3>1, <3>2 DEF Begin
        <4>2. TwoWriters => wpos[w] >= 2 * k - 2
          BY <2>1, <3>1, <3>2, <4>1
        <4> HIDE DEF e, p
        <4> QED
          BY <2>3, <4>1, <4>2 DEF Due
      <3>3. CASE (p + 1) % 2 # 1
        <4>1. /\ e.kind = "testEnd" /\ (Ends(e, e.t) <=> ~TwoWriters)
              /\ p = 2 * k - 1 /\ p + 1 = 2 * k
          BY <2>1, <2>2, <3>1, <3>3 DEF End, Ends
        <4>2. TwoWriters => wpos[w] >= 2 * k
          BY <2>1, <3>1, <3>3, <4>1
        <4> HIDE DEF e, p
        <4> QED
          BY <2>3, <4>1, <4>2 DEF Due
      <3> QED
        BY <3>2, <3>3
    <2>6. Lead(w)' \in Nat
      BY <1>0, <2>1, <2>3
    <2> HIDE DEF e, p
    <2>7. Ordered'
      BY <1>0, <2>1, <2>4, <2>5, <2>6, DueOrdered
    <2>8. Written'
      BY <1>0, <2>1, <2>3, <2>4, <2>5, <2>6, DueWritten
    <2> QED
      BY <2>7, <2>8
  <1>4. ASSUME NEW w \in Workers, NEW t, Rebegin(w, t) PROVE FALSE
    BY <1>0, <1>4 DEF Rebegin
  <1> QED
    BY <1>1, <1>2, <1>3, <1>4 DEF Runner

\* The drain writes nothing.
LEMMA DrainWrites ==
    ASSUME Written, Ordered, UNCHANGED runnerVars
    PROVE  Written' /\ Ordered'
  BY DEF runnerVars, Written, Ordered, Lead, Ends, Opens, TwoWriters, TestsOf

----------------------------------------------------------------------------
(* The order of the queue.                                                 *)

\* A line noted stays noted.
LEMMA NotedStays ==
    ASSUME NEW e, Noted(e), setup' = setup, begunTests \subseteq begunTests', endedTests \subseteq endedTests'
    PROVE  Noted(e)'
  BY DEF Noted, Ends, TwoWriters

\* What precedes the first event of the queue in the file has been noted, and
\* an ended test has ended no later.
LEMMA FirstLine ==
    ASSUME Basics, InOrder, settling # << >>
    PROVE  \E n \in 1..Len(file) :
             /\ file[n] = Head(settling)
             /\ \A m \in 1..(n - 1) : m \in 1..Len(file) /\ Noted(file[m])
             /\ \A w \in Workers, t \in Tests : <<w, t>> \in endedTests =>
                  \E m \in 1..n : m \in 1..Len(file) /\ Ends(file[m], t)
  <1>1. PICK src \in [1..(Len(settling) + 1) -> Nat \ {0}] : Reads(src)
    BY DEF InOrder
  <1>2. settling \in Seq(Event) /\ Len(settling) \in Nat /\ Len(settling) >= 1 /\ Head(settling) = settling[1]
        /\ Len(file) \in Nat
    <2>1. settling \in Seq(Event) /\ file \in Seq(Event)
      BY BasicsTyped DEF TypeOK
    <2> QED
      BY <2>1
  <1>3. src[1] \in 1..Len(file) /\ settling[1] = file[src[1]]
    BY <1>1, <1>2 DEF Reads
  <1>4. \A m \in 1..(src[1] - 1) : m \in 1..Len(file) /\ Noted(file[m])
    BY <1>1, <1>2, <1>3 DEF Reads
  <1>5. ASSUME NEW w \in Workers, NEW t \in Tests, <<w, t>> \in endedTests
        PROVE  \E m \in 1..src[1] : m \in 1..Len(file) /\ Ends(file[m], t)
    <2>1. PICK m \in 1..Len(file) : m <= src[1] /\ Ends(file[m], t)
      BY <1>1, <1>5 DEF Reads
    <2>2. m \in 1..src[1]
      BY <1>2, <1>3, <2>1
    <2> QED
      BY <2>1, <2>2
  <1> QED
    BY <1>2, <1>3, <1>4, <1>5

\* What stands where in two sequences joined.
LEMMA Joined ==
    ASSUME NEW S, NEW p \in Seq(S), NEW q \in Seq(S)
    PROVE  /\ Len(p) \in Nat /\ Len(q) \in Nat /\ Len(p \o q) = Len(p) + Len(q)
           /\ \A i \in 1..(Len(p) + Len(q)) : (p \o q)[i] = IF i <= Len(p) THEN p[i] ELSE q[i - Len(p)]
  OBVIOUS

\* A line more in the file,
LEMMA AppendInOrder ==
    ASSUME Basics, InOrder, setup' = setup, NEW e \in Event, file' = Append(file, e),
           UNCHANGED <<settling, offset, begunTests, endedTests>>
    PROVE  InOrder'
  <1>1. PICK src \in [1..(Len(settling) + 1) -> Nat \ {0}] : Reads(src)
    BY DEF InOrder
  <1>2. /\ file \in Seq(Event) /\ Len(file) \in Nat /\ Len(settling) \in Nat /\ offset \in 0..Len(file)
        /\ Len(file') = Len(file) + 1 /\ \A n \in 1..Len(file) : file'[n] = file[n]
    <2>1. settling \in Seq(Event) /\ file \in Seq(Event) /\ offset \in 0..Len(file)
      BY BasicsTyped DEF TypeOK
    <2> QED
      BY <2>1, OneMoreLine
  <1>3. src[1] \in Nat /\ src[1] <= Len(file) + 1
    <2>1. CASE Len(settling) = 0
      BY <1>1, <1>2, <2>1 DEF Reads
    <2>2. CASE Len(settling) # 0
      BY <1>1, <1>2, <2>2 DEF Reads
    <2> QED
      BY <2>1, <2>2
  <1>4. \A x, t : (Ends(x, t)' <=> Ends(x, t)) /\ (Noted(x)' <=> Noted(x))
    BY DEF Noted, Ends, TwoWriters
  <1>5. \A i \in 1..Len(settling) : /\ src[i] <= Len(file') /\ settling[i] = file'[src[i]]
                                    /\ src[i + 1] \in {src[i], src[i] + 1}
    <2> TAKE i \in 1..Len(settling)
    <2>1. /\ src[i] <= Len(file) /\ settling[i] = file[src[i]] /\ src[i + 1] \in {src[i], src[i] + 1}
          /\ src[i] \in Nat \ {0}
      BY <1>1, <1>2 DEF Reads
    <2>2. src[i] \in 1..Len(file)
      BY <1>2, <2>1
    <2> QED
      BY <1>2, <2>1, <2>2
  <1>6. \A m \in 1..Len(file') : m < src[1] => Noted(file'[m])
    <2> SUFFICES ASSUME NEW m \in 1..Len(file'), m < src[1] PROVE Noted(file'[m])
      OBVIOUS
    <2>1. m \in 1..Len(file)
      BY <1>2, <1>3
    <2> QED
      BY <1>1, <1>2, <2>1 DEF Reads
  <1>7. \A w \in Workers, t \in Tests : <<w, t>> \in endedTests =>
          \E m \in 1..Len(file') : m <= src[1] /\ Ends(file'[m], t)
    <2> SUFFICES ASSUME NEW w \in Workers, NEW t \in Tests, <<w, t>> \in endedTests
                 PROVE  \E m \in 1..Len(file') : m <= src[1] /\ Ends(file'[m], t)
      OBVIOUS
    <2>1. PICK m \in 1..Len(file) : m <= src[1] /\ Ends(file[m], t)
      BY <1>1 DEF Reads
    <2>2. m \in 1..Len(file') /\ file'[m] = file[m]
      BY <1>2
    <2> QED
      BY <2>1, <2>2
  <1>8. Reads(src)'
    BY <1>1, <1>4, <1>5, <1>6, <1>7 DEF Reads
  <1> QED
    BY <1>1, <1>8 DEF InOrder

\* a step that reads nothing,
LEMMA StillInOrder ==
    ASSUME InOrder, UNCHANGED <<setup, file, settling, offset, begunTests, endedTests>>
    PROVE  InOrder'
  BY DEF InOrder, Reads, Noted, Ends, TwoWriters

\* a poll,
LEMMA PollInOrder ==
    ASSUME Basics, InOrder, UNCHANGED <<setup, file, begunTests, endedTests>>, NEW again \in BOOLEAN, DrainOnce(again)
    PROVE  InOrder'
  <1> DEFINE L == Len(settling)
             N == Len(file)
             M == Len(settling')
  <1>1. PICK src \in [1..(L + 1) -> Nat \ {0}] : Reads(src)
    BY DEF InOrder
  <1>2. /\ N \in Nat /\ L \in Nat /\ offset \in Nat /\ offset < N
        /\ M = L + (N - offset) /\ M \in Nat /\ M > L
        /\ \A i \in 1..L : settling'[i] = settling[i]
        /\ \A i \in (L + 1)..M : settling'[i] = file[offset + (i - L)]
        /\ offset' \in {N, N - 1}
    <2>1. settling \in Seq(Event) /\ file \in Seq(Event) /\ offset \in 0..N /\ offset < N /\ L \in Nat /\ N \in Nat
      BY BasicsTyped DEF TypeOK, DrainOnce
    <2> DEFINE tl == SubSeq(file, offset + 1, N)
    <2>2. tl \in Seq(Event) /\ Len(tl) = N - offset /\ \A i \in 1..Len(tl) : tl[i] = file[offset + i]
      BY <2>1
    <2>3. settling' = settling \o tl /\ offset' \in {N, N - 1}
      BY DEF DrainOnce
    <2> HIDE DEF tl
    <2>4. M = L + Len(tl) /\ \A i \in 1..(L + Len(tl)) : settling'[i] = IF i <= L THEN settling[i] ELSE tl[i - L]
      <3>1. /\ Len(settling \o tl) = Len(settling) + Len(tl)
            /\ \A i \in 1..(Len(settling) + Len(tl)) :
                 (settling \o tl)[i] = IF i <= Len(settling) THEN settling[i] ELSE tl[i - Len(settling)]
        BY <2>1, <2>2, Joined
      <3> QED
        BY <2>3, <3>1
    <2> HIDE DEF L, M, N
    <2>5. \A i \in (L + 1)..M : settling'[i] = file[offset + (i - L)]
      <3> TAKE i \in (L + 1)..M
      <3>1. i \in 1..M /\ ~(i <= L) /\ i - L \in 1..Len(tl)
        BY <2>1, <2>2, <2>4
      <3> QED
        BY <2>2, <2>4, <3>1
    <2>6. \A i \in 1..L : settling'[i] = settling[i]
      <3> TAKE i \in 1..L
      <3>1. i \in 1..(L + Len(tl)) /\ i <= L
        BY <2>1, <2>2
      <3> QED
        BY <2>4, <3>1
    <2>7. offset \in Nat /\ M = L + (N - offset) /\ M \in Nat /\ M > L
      <3>1. M = L + (N - offset)
        BY <2>2, <2>4
      <3>2. offset \in Nat /\ N - offset \in Nat /\ N - offset > 0
        BY <2>1
      <3> QED
        BY <2>1, <3>1, <3>2
    <2> QED
      BY <2>1, <2>3, <2>5, <2>6, <2>7
  <1>3. src[L + 1] = offset + 1 /\ \A i \in 1..(L + 1) : src[i] \in Nat \ {0}
    BY <1>1, <1>2 DEF Reads
  <1> HIDE DEF L, M, N
  <1>4. PICK r : r = [i \in 1..(M + 1) |-> IF i <= L + 1 THEN src[i]
                                           ELSE IF i <= M THEN offset + (i - L) ELSE offset' + 1]
    OBVIOUS
  <1>5. /\ \A i \in 1..(M + 1) : r[i] = IF i <= L + 1 THEN src[i]
                                        ELSE IF i <= M THEN offset + (i - L) ELSE offset' + 1
        /\ r \in [1..(M + 1) -> Nat \ {0}]
    <2>1. \A i \in 1..(M + 1) :
            (IF i <= L + 1 THEN src[i] ELSE IF i <= M THEN offset + (i - L) ELSE offset' + 1) \in Nat \ {0}
      <3> TAKE i \in 1..(M + 1)
      <3>1. CASE i <= L + 1
        <4>1. i \in 1..(L + 1)
          BY <1>2, <3>1
        <4> QED
          BY <1>3, <3>1, <4>1
      <3>2. CASE ~(i <= L + 1)
        <4>1. offset' + 1 \in Nat \ {0}
          <5>1. N \in Nat /\ N >= 1 /\ (offset' = N \/ offset' = N - 1)
            BY <1>2
          <5> QED
            BY <5>1
        <4>2. offset + (i - L) \in Nat \ {0}
          <5>1. i \in Nat /\ i - L \in Nat \ {0}
            BY <1>2, <3>2
          <5> QED
            BY <1>2, <5>1
        <4> QED
          BY <3>2, <4>1, <4>2
      <3> QED
        BY <3>1, <3>2
    <2> QED
      BY <1>4, <2>1
  <1>6. r[1] = src[1] /\ r[M + 1] = offset' + 1
    BY <1>2, <1>5
  <1>7. \A i \in 1..M : r[i] <= N /\ settling'[i] = file[r[i]] /\ r[i + 1] \in {r[i], r[i] + 1}
    <2> TAKE i \in 1..M
    <2>1. CASE i <= L
      <3>1. i \in 1..L /\ r[i] = src[i] /\ r[i + 1] = src[i + 1]
        BY <1>2, <1>5, <2>1
      <3> QED
        BY <1>1, <1>2, <3>1 DEF Reads, L, N
    <2>2. CASE i > L
      <3>1. r[i] = offset + (i - L)
        BY <1>2, <1>3, <1>5, <2>2
      <3>2. r[i] <= N /\ settling'[i] = file[r[i]]
        BY <1>2, <2>2, <3>1
      <3>3. r[i + 1] \in {r[i], r[i] + 1}
        <4>1. CASE i < M
          <5>1. i + 1 \in 1..(M + 1) /\ ~(i + 1 <= L + 1) /\ i + 1 <= M
            BY <1>2, <2>2, <4>1
          <5>2. r[i + 1] = offset + ((i + 1) - L)
            BY <1>5, <5>1
          <5> QED
            BY <1>2, <3>1, <5>2
        <4>2. CASE i = M
          BY <1>2, <1>6, <2>2, <3>1, <4>2
        <4> QED
          BY <1>2, <4>1, <4>2
      <3> QED
        BY <3>2, <3>3
    <2> QED
      BY <1>2, <2>1, <2>2
  <1>8. \A x, t : (Ends(x, t)' <=> Ends(x, t)) /\ (Noted(x)' <=> Noted(x))
    BY DEF Noted, Ends, TwoWriters
  <1>9. Reads(r)'
    <2>1. \A m \in 1..Len(file') : m < r[1] => Noted(file[m])'
      BY <1>1, <1>6, <1>8 DEF Reads
    <2>2. \A w \in Workers, t \in Tests : <<w, t>> \in endedTests' =>
            \E m \in 1..Len(file') : m <= r[1] /\ Ends(file[m], t)'
      BY <1>1, <1>6, <1>8 DEF Reads
    <2>3. r \in [1..(Len(settling') + 1) -> Nat \ {0}] /\ r[Len(settling') + 1] = offset' + 1
      BY <1>5, <1>6 DEF M
    <2>4. \A i \in 1..Len(settling') : /\ r[i] <= Len(file') /\ settling'[i] = file'[r[i]]
                                       /\ r[i + 1] \in {r[i], r[i] + 1}
      BY <1>7 DEF M, N
    <2> QED
      BY <2>1, <2>2, <2>3, <2>4 DEF Reads
  <1>10. r \in [1..(Len(settling') + 1) -> Nat \ {0}]
    BY <1>5 DEF M
  <1> QED
    BY <1>9, <1>10 DEF InOrder

\* and the handler of an event that notes it.
LEMMA TakeInOrder ==
    ASSUME Basics, InOrder, settling # << >>, NEW e, e = Head(settling), settling' = Tail(settling),
           UNCHANGED <<setup, file, offset>>, begunTests \subseteq begunTests', endedTests \subseteq endedTests',
           Noted(e)',
           \A w \in Workers, t \in Tests : <<w, t>> \in endedTests' => <<w, t>> \in endedTests \/ Ends(e, t)
    PROVE  InOrder'
  <1> DEFINE L == Len(settling)
  <1>1. PICK src \in [1..(L + 1) -> Nat \ {0}] : Reads(src)
    BY DEF InOrder
  <1>2. /\ L \in Nat /\ L >= 1 /\ Head(settling) = settling[1] /\ Len(settling') = L - 1 /\ Len(file) \in Nat
        /\ \A i \in 1..(L - 1) : settling'[i] = settling[i + 1]
    <2>1. settling \in Seq(Event) /\ file \in Seq(Event)
      BY BasicsTyped DEF TypeOK
    <2> QED
      BY <2>1
  <1>0. PICK r : r = [i \in 1..L |-> src[i + 1]]
    OBVIOUS
  <1>3. \A i \in 1..L : r[i] = src[i + 1] /\ src[i] \in Nat \ {0} /\ src[i + 1] \in Nat \ {0}
    BY <1>0, <1>1, <1>2
  <1>4. r \in [1..((L - 1) + 1) -> Nat \ {0}] /\ (L - 1) + 1 = L
    BY <1>0, <1>2, <1>3
  <1>5. /\ src[1] \in 1..Len(file) /\ settling[1] = file[src[1]] /\ r[1] \in {src[1], src[1] + 1}
        /\ r[L] = offset + 1
    BY <1>1, <1>2, <1>3 DEF Reads
  <1>6. \A i \in 1..(L - 1) : r[i] <= Len(file) /\ settling'[i] = file[r[i]] /\ r[i + 1] \in {r[i], r[i] + 1}
    <2> TAKE i \in 1..(L - 1)
    <2>1. i + 1 \in 1..L /\ r[i] = src[i + 1] /\ r[i + 1] = src[(i + 1) + 1]
      BY <1>2, <1>3
    <2> QED
      BY <1>1, <1>2, <2>1 DEF Reads
  <1>7. \A x, t : (Ends(x, t)' <=> Ends(x, t)) /\ (Noted(x) => Noted(x)')
    BY DEF Noted, Ends, TwoWriters
  <1>8. \A m \in 1..Len(file) : m < r[1] => \A x : x = file[m] => Noted(x)'
    <2> SUFFICES ASSUME NEW m \in 1..Len(file), m < r[1] PROVE \A x : x = file[m] => Noted(x)'
      OBVIOUS
    <2>1. CASE m < src[1]
      BY <1>1, <1>7, <2>1 DEF Reads
    <2>2. CASE m = src[1]
      BY <1>2, <1>5, <2>2
    <2> QED
      BY <1>2, <1>5, <2>1, <2>2
  <1>9. \A w \in Workers, t \in Tests : <<w, t>> \in endedTests' =>
          \E m \in 1..Len(file) : m <= r[1] /\ Ends(file[m], t)
    <2> SUFFICES ASSUME NEW w \in Workers, NEW t \in Tests, <<w, t>> \in endedTests'
                 PROVE  \E m \in 1..Len(file) : m <= r[1] /\ Ends(file[m], t)
      OBVIOUS
    <2>1. CASE <<w, t>> \in endedTests
      <3>1. PICK m \in 1..Len(file) : m <= src[1] /\ Ends(file[m], t)
        BY <1>1, <2>1 DEF Reads
      <3>2. m <= r[1]
        BY <1>2, <1>5, <3>1
      <3> QED
        BY <3>1, <3>2
    <2>2. CASE Ends(e, t)
      <3>1. src[1] <= r[1] /\ Ends(file[src[1]], t)
        BY <1>2, <1>5, <2>2
      <3> QED
        BY <1>5, <3>1
    <2> QED
      BY <2>1, <2>2
  <1>10. Reads(r)'
    <2>1. r \in [1..(Len(settling') + 1) -> Nat \ {0}] /\ r[Len(settling') + 1] = offset' + 1
      BY <1>2, <1>4, <1>5
    <2>2. \A m \in 1..Len(file') : m < r[1] => Noted(file[m])'
      BY <1>8
    <2>3. \A w \in Workers, t \in Tests : <<w, t>> \in endedTests' =>
            \E m \in 1..Len(file') : m <= r[1] /\ Ends(file[m], t)'
      BY <1>7, <1>9
    <2> QED
      BY <1>2, <1>6, <2>1, <2>2, <2>3 DEF Reads
  <1>11. r \in [1..(Len(settling') + 1) -> Nat \ {0}]
    BY <1>2, <1>4
  <1> QED
    BY <1>10, <1>11 DEF InOrder

----------------------------------------------------------------------------
(* The lifecycles of an undisturbed run.                                   *)

\* What the drain may rely on when it takes an event.
Timely(e) ==
    /\ e.kind = "testEnd" => e.t \in begunTests
    /\ e.kind = "testEnd" /\ ~Ends(e, e.t) /\ e.t \in Expected => <<e.w, e.t>> \in endedTests
    /\ \A j, k \in 1..Len(TestsOf[e.w]) :
         e.t = TestsOf[e.w][k] /\ j < k /\ TestsOf[e.w][j] \in Expected => <<e.w, TestsOf[e.w][j]>> \in endedTests
    /\ e.kind = "testBegin" /\ ~TwoWriters => <<e.w, e.t>> \notin endedTests

\* A line of the file that names a test of worker w is one of w.
LEMMA LineOfWorker ==
    ASSUME Basics, NEW m \in 1..Len(file), NEW w \in Workers, Home(setup, w, file[m].t)
    PROVE  file[m].w = w
  <1>1. file[m] \in Honest(setup, result)
    BY SeqParts DEF Basics, Lines, LinesOf
  <1> QED
    BY <1>1, EventFields, OneHome DEF Basics, RunType

\* The order of the file and of the queue makes every event timely.
LEMMA FirstIsTimely ==
    ASSUME Basics, Ordered, InOrder, settling # << >>, NEW e, e = Head(settling)
    PROVE  Timely(e)
  <1>1. PICK n \in 1..Len(file) :
             /\ file[n] = e
             /\ \A m \in 1..(n - 1) : m \in 1..Len(file) /\ Noted(file[m])
             /\ \A w \in Workers, t \in Tests : <<w, t>> \in endedTests =>
                  \E m \in 1..n : m \in 1..Len(file) /\ Ends(file[m], t)
    BY FirstLine
  <1>2. e \in Honest(setup, result) /\ e.w \in Workers /\ e.t \in Tests /\ Home(setup, e.w, e.t)
    <2>1. e \in Honest(setup, result)
      BY <1>1, SeqParts DEF Basics, Lines, LinesOf
    <2> QED
      BY <2>1, EventFields
  <1>3. n \in Nat /\ setup \in Setups
    BY SeqParts DEF Basics, Lines, LinesOf, RunType
  <1>4. e.kind = "testEnd" => e.t \in begunTests
    BY <1>1 DEF Ordered, Opens, Noted
  <1>5. ASSUME NEW m \in 1..(n - 1), NEW t, Ends(file[m], t), t \in Expected, Home(setup, e.w, t)
        PROVE  <<e.w, t>> \in endedTests
    <2>1. file[m].t = t /\ file[m].w = e.w
      BY <1>1, <1>2, <1>5, LineOfWorker DEF Ends
    <2> QED
      BY <1>1, <1>5, <2>1 DEF Noted
  <1>6. e.kind = "testEnd" /\ ~Ends(e, e.t) /\ e.t \in Expected => <<e.w, e.t>> \in endedTests
    BY <1>1, <1>2, <1>5 DEF Ordered
  <1>7. ASSUME NEW j \in 1..Len(TestsOf[e.w]), NEW k \in 1..Len(TestsOf[e.w]),
               e.t = TestsOf[e.w][k], j < k, TestsOf[e.w][j] \in Expected
        PROVE  <<e.w, TestsOf[e.w][j]>> \in endedTests
    <2>1. \E m \in 1..(n - 1) : Ends(file[m], TestsOf[e.w][j])
      BY <1>1, <1>2, <1>7 DEF Ordered
    <2>2. Home(setup, e.w, TestsOf[e.w][j])
      BY DEF Home, TestsOf
    <2> QED
      BY <1>5, <1>7, <2>1, <2>2
  <1>8. ASSUME e.kind = "testBegin", ~TwoWriters, <<e.w, e.t>> \in endedTests PROVE FALSE
    <2>1. PICK m \in 1..n : m \in 1..Len(file) /\ Ends(file[m], e.t)
      BY <1>1, <1>2, <1>8
    <2>2. m # n
      BY <1>1, <1>8, <2>1 DEF Ends
    <2>3. m \in 1..(n - 1)
      BY <1>3, <2>1, <2>2
    <2> QED
      BY <1>1, <1>8, <2>1, <2>3 DEF Ordered
  <1> QED
    BY <1>4, <1>6, <1>7, <1>8 DEF Timely

\* While an event is taken, what has begun and is expected is open or ended,
\* and what is open has begun and is expected.
LEMMA WhenTaking ==
    ASSUME DrainInv, Lifecycles, settling # << >>, pc = "idle"
    PROVE  /\ \A w \in Workers, t \in Tests :
                t \in begunTests \cap Expected /\ Home(setup, w, t) =>
                  openByWorker[w] = t \/ <<w, t>> \in endedTests
           /\ \A w \in Workers : openByWorker[w] # NULL =>
                /\ openByWorker[w] \in Expected \cap begunTests /\ openByWorker[w] \in Tests
                /\ Home(setup, w, openByWorker[w])
                /\ <<w, openByWorker[w]>> \notin endedTests
           /\ \A w \in Workers, t \in Tests : Home(setup, w, t) =>
                /\ awaitingOutcome[t] # Absent => <<w, t>> \in endedTests
                /\ TwoWriters /\ <<w, t>> \in endedTests => awaitingOutcome[t] # Absent
  <1>1. ~(stop # "no" /\ Settled)
    BY DEF Settled
  <1>2. \A w \in Workers, t \in Tests :
          t \in begunTests \cap Expected /\ Home(setup, w, t) =>
            openByWorker[w] = t \/ <<w, t>> \in endedTests
    BY <1>1 DEF Lifecycles, Followed
  <1>3. ASSUME NEW w \in Workers, openByWorker[w] # NULL
        PROVE  /\ openByWorker[w] \in Expected \cap begunTests /\ openByWorker[w] \in Tests
               /\ Home(setup, w, openByWorker[w])
               /\ <<w, openByWorker[w]>> \notin endedTests
    <2>1. openByWorker[w] \in Expected \cap begunTests /\ openByWorker[w] \in Tests
      BY <1>3 DEF Lifecycles, OpensKnown, DrainInv, Basics, DrainType
    <2>2. wslot[w] = openByWorker[w] /\ <<w, openByWorker[w]>> \notin endedTests
      BY <1>3 DEF DrainInv, Agree, Held
    <2>3. Home(setup, w, openByWorker[w])
      BY <1>3, <2>2 DEF DrainInv, Agree, Slots
    <2> QED
      BY <2>1, <2>2, <2>3
  <1>4. \A w \in Workers, t \in Tests : Home(setup, w, t) =>
          /\ awaitingOutcome[t] # Absent => <<w, t>> \in endedTests
          /\ TwoWriters /\ <<w, t>> \in endedTests => awaitingOutcome[t] # Absent
    BY DEF Lifecycles, Awaited
  <1> QED
    BY <1>2, <1>3, <1>4

\* A begin whose outcome is not awaited is the first of its test,
LEMMA FirstBegin ==
    ASSUME DrainInv, Lifecycles, settling # << >>, pc = "idle", NEW e \in Honest(setup, result), Timely(e),
           e.kind = "testBegin", awaitingOutcome[e.t] = Absent
    PROVE  <<e.w, e.t>> \notin endedTests
  <1>1. e.w \in Workers /\ e.t \in Tests /\ Home(setup, e.w, e.t)
    BY EventFields
  <1>2. TwoWriters => <<e.w, e.t>> \notin endedTests
    BY <1>1, WhenTaking
  <1> QED
    BY <1>2 DEF Timely

\* and finds its slot free if it is expected.
LEMMA BeginFindsSlot ==
    ASSUME DrainInv, Lifecycles, settling # << >>, pc = "idle", NEW e \in Honest(setup, result), Timely(e),
           e.kind = "testBegin", awaitingOutcome[e.t] = Absent, e.t \in Expected
    PROVE  openByWorker[e.w] \in {NULL, e.t}
  <1> DEFINE w == e.w
             t == e.t
             u == openByWorker[w]
  <1>1. w \in Workers /\ t \in Tests /\ Home(setup, w, t) /\ setup \in Setups
    BY EventFields DEF DrainInv, Basics, RunType
  <1>2. SUFFICES ASSUME u # NULL, u # t PROVE FALSE
    OBVIOUS
  <1>3. u \in Expected /\ u \in begunTests /\ Home(setup, w, u) /\ <<w, u>> \notin endedTests
    BY <1>1, <1>2, WhenTaking
  <1>4. <<w, t>> \notin endedTests
    BY FirstBegin
  <1>5. PICK k \in 1..Len(TestsOf[w]) : TestsOf[w][k] = t
    BY <1>1 DEF Home, TestsOf
  <1>6. PICK j \in 1..Len(TestsOf[w]) : TestsOf[w][j] = u
    BY <1>3 DEF Home, TestsOf
  <1>7. j \in Nat /\ k \in Nat /\ j # k
    BY <1>1, <1>2, <1>5, <1>6, Constants DEF TestsOf
  <1>8. CASE j < k
    BY <1>3, <1>5, <1>6, <1>8 DEF Timely
  <1>9. CASE k < j
    BY <1>1, <1>3, <1>4, <1>5, <1>6, <1>9 DEF Lifecycles, InTurn
  <1> QED
    BY <1>7, <1>8, <1>9

\* What the handler of an event owes to the order of the queue.
Settles(e) ==
    /\ begunTests \subseteq begunTests' /\ endedTests \subseteq endedTests'
    /\ Noted(e)'
    /\ \A w \in Workers, t \in Tests : <<w, t>> \in endedTests' => <<w, t>> \in endedTests \/ Ends(e, t)

\* A begin is followed from here on,
LEMMA TakeBeginFollows ==
    ASSUME DrainInv, Lifecycles, settling # << >>, pc = "idle", NEW e \in Honest(setup, result), Timely(e),
           TakeBegin(e), cur' = e, setup' = setup, result' = result
    PROVE  Lifecycles' /\ Settles(e)
  <1> DEFINE w == e.w
             t == e.t
  <1>1. w \in Workers /\ t \in Tests /\ Home(setup, w, t) /\ setup \in Setups /\ e \in Event
    BY EventFields DEF DrainInv, Basics, RunType
  <1>2. /\ e.kind = "testBegin" /\ OpenSessionFor(e, pendingByWorker)
        /\ begunTests' = begunTests \cup {t} /\ UNCHANGED <<openByWorker, endedTests, awaitingOutcome>>
    BY DEF TakeBegin, OpenSessionFor
  <1>3. /\ awaitingOutcome[t] = Absent => <<w, t>> \notin endedTests
        /\ awaitingOutcome[t] = Absent /\ t \in Expected => openByWorker[w] \in {NULL, t}
    BY <1>2, FirstBegin, BeginFindsSlot
  <1>4. /\ conflicts' = conflicts /\ pc' \in {"idle", "open"}
        /\ \/ awaitingOutcome[t] # Absent \/ openByWorker[w] = t
           \/ t \notin Expected
           \/ pc' = "open"
        /\ \/ pendingByWorker' = pendingByWorker
           \/ t \notin Expected /\ pendingByWorker' = [pendingByWorker EXCEPT ![w] = Append(pendingByWorker[w], e)]
    BY <1>2, <1>3 DEF OpenSessionFor
  <1>5. TestsOf' = TestsOf /\ TwoWriters' = TwoWriters
    BY DEF TestsOf, TwoWriters
  <1>6. OpensKnown'
    BY <1>2, <1>4 DEF Lifecycles, OpensKnown
  <1>7. NoneWaits'
    <2>1. CASE pendingByWorker' = pendingByWorker
      BY <1>2, <2>1 DEF Lifecycles, NoneWaits
    <2>2. CASE t \notin Expected /\ pendingByWorker' = [pendingByWorker EXCEPT ![w] = Append(pendingByWorker[w], e)]
      <3>1. pendingByWorker \in [Workers -> Seq(Event)]
        BY BasicsTyped DEF DrainInv, TypeOK
      <3> DEFINE q == pendingByWorker[w]
                 r == Append(q, e)
      <3>2. q \in Seq(Event)
        BY <1>1, <3>1
      <3>3. Len(q) \in Nat /\ Len(r) = Len(q) + 1 /\ r[Len(q) + 1] = e /\ \A i \in 1..Len(q) : r[i] = q[i]
        BY <1>1, <3>2, OneMoreLine
      <3>4. \A i \in 1..Len(r) : r[i].t \in begunTests' \ Expected
        <4> HIDE DEF q, r
        <4>1. \A i \in 1..Len(q) : q[i].t \in begunTests \ Expected
          BY <1>1 DEF Lifecycles, NoneWaits, q
        <4> TAKE i \in 1..Len(r)
        <4>2. i \in 1..Len(q) \/ i = Len(q) + 1
          BY <3>3
        <4> QED
          BY <1>2, <2>2, <3>3, <4>1, <4>2
      <3>5. \A v \in Workers : pendingByWorker'[v] = IF v = w THEN r ELSE pendingByWorker[v]
        BY <2>2, <3>1
      <3> HIDE DEF q, r
      <3> QED
        BY <1>2, <3>4, <3>5 DEF Lifecycles, NoneWaits
    <2> QED
      BY <1>4, <2>1, <2>2
  <1>8. Followed'
    <2> SUFFICES ASSUME NEW v \in Workers, NEW x \in Tests, x \in begunTests' \cap Expected, Home(setup, v, x)
                 PROVE  \/ pc' \in {"open", "reopen"} /\ e.t = x
                        \/ openByWorker[v] = x \/ <<v, x>> \in endedTests
      BY <1>2 DEF Followed
    <2>1. CASE x \in begunTests
      BY <2>1, WhenTaking
    <2>2. CASE x = t
      <3>1. v = w
        BY <1>1, <2>2, OneHome
      <3>2. awaitingOutcome[t] # Absent => <<w, t>> \in endedTests
        BY <1>1, WhenTaking
      <3> QED
        BY <1>4, <2>2, <3>1, <3>2
    <2> QED
      BY <1>2, <2>1, <2>2
  <1>9. InTurn'
    <2> SUFFICES ASSUME NEW v \in Workers, NEW j \in 1..Len(TestsOf[v]), NEW k \in 1..Len(TestsOf[v]),
                        j < k, TestsOf[v][k] \in begunTests', TestsOf[v][j] \in Expected
                 PROVE  <<v, TestsOf[v][j]>> \in endedTests
      BY <1>2, <1>5 DEF InTurn
    <2>1. CASE TestsOf[v][k] \in begunTests
      BY <2>1 DEF Lifecycles, InTurn
    <2>2. CASE TestsOf[v][k] = t
      <3>1. v = w
        BY <1>1, <2>2, OneHome DEF Home, TestsOf
      <3> QED
        BY <2>2, <3>1 DEF Timely
    <2> QED
      BY <1>2, <2>1, <2>2
  <1>10. Awaited'
    BY <1>2, <1>5, WhenTaking DEF Lifecycles, Awaited
  <1>11. Settles(e)
    BY <1>2 DEF Settles, Noted, Ends
  <1> QED
    BY <1>4, <1>6, <1>7, <1>8, <1>9, <1>10, <1>11 DEF Lifecycles

\* an end of the open test ends it for good,
LEMMA TakeEndOfSlotFollows ==
    ASSUME DrainInv, Lifecycles, settling # << >>, pc = "idle", NEW e \in Honest(setup, result), Timely(e),
           TakeEndOfSlot(e), cur' = e, setup' = setup, result' = result
    PROVE  Lifecycles' /\ Settles(e)
  <1> DEFINE w == e.w
             t == e.t
  <1>1. w \in Workers /\ t \in Tests /\ Home(setup, w, t) /\ setup \in Setups /\ t # NULL
    BY EventFields, Constants DEF DrainInv, Basics, RunType
  <1>2. /\ e.kind = "testEnd" /\ openByWorker[w] = t
        /\ openByWorker' = [openByWorker EXCEPT ![w] = NULL] /\ endedTests' = endedTests \cup {<<w, t>>}
        /\ pc' \in {"release", "finalize", "seal"} /\ (e.outcome = NULL => pc' = "release")
        /\ UNCHANGED <<pendingByWorker, begunTests, awaitingOutcome, conflicts>>
    <2>1. NULL # "passed"
      BY Constants
    <2> QED
      BY <2>1 DEF TakeEndOfSlot
  <1>3. t \in Expected \cap begunTests /\ <<w, t>> \notin endedTests
    BY <1>1, <1>2, WhenTaking
  <1>4. Ends(e, t)
    BY <1>2, <1>3 DEF Timely
  <1>5. TestsOf' = TestsOf /\ TwoWriters' = TwoWriters
    BY DEF TestsOf, TwoWriters
  <1>6. \A v \in Workers : openByWorker'[v] = IF v = w THEN NULL ELSE openByWorker[v]
    BY <1>2 DEF DrainInv, Basics, DrainType
  <1>7. OpensKnown' /\ NoneWaits' /\ InTurn'
    BY <1>2, <1>5, <1>6 DEF Lifecycles, OpensKnown, NoneWaits, InTurn
  <1>8. Followed'
    <2> SUFFICES ASSUME NEW v \in Workers, NEW x \in Tests, x \in begunTests \cap Expected, Home(setup, v, x)
                 PROVE  openByWorker'[v] = x \/ <<v, x>> \in endedTests'
      BY <1>2 DEF Followed
    <2>1. openByWorker[v] = x \/ <<v, x>> \in endedTests
      BY WhenTaking
    <2> QED
      BY <1>2, <1>6, <2>1
  <1>9. Awaited'
    <2> SUFFICES ASSUME NEW v \in Workers, NEW x \in Tests, Home(setup, v, x)
                 PROVE  /\ awaitingOutcome[x] # Absent => <<v, x>> \in endedTests'
                        /\ TwoWriters /\ <<v, x>> \in endedTests' =>
                             awaitingOutcome[x] # Absent \/ (pc' = "release" /\ t = x)
      BY <1>2, <1>5 DEF Lifecycles, Awaited
    <2>1. TwoWriters => pc' = "release"
      BY <1>2, <1>4 DEF Ends
    <2> QED
      BY <1>2, <2>1, WhenTaking
  <1>10. Settles(e)
    <2>1. Noted(e)'
      BY <1>2 DEF Noted
    <2> QED
      BY <1>2, <1>4, <2>1 DEF Settles
  <1> QED
    BY <1>2, <1>7, <1>8, <1>9, <1>10 DEF Lifecycles

\* and any other end adds its outcome at most.
LEMMA TakeOtherEndFollows ==
    ASSUME DrainInv, Lifecycles, settling # << >>, pc = "idle", NEW e \in Honest(setup, result), Timely(e),
           TakeEndOfReleased(e) \/ TakeLoneEnd(e), cur' = e, setup' = setup, result' = result
    PROVE  Lifecycles' /\ Settles(e)
  <1> DEFINE w == e.w
             t == e.t
  <1>1. /\ w \in Workers /\ t \in Tests /\ Home(setup, w, t)
        /\ e.outcome \in {NULL, "passed", "failed"} /\ (e.outcome # NULL => result[t] = e.outcome)
    BY EventFields
  <1>2. awaitingOutcome[t] \in {Absent, NULL, result[t]} /\ awaitingOutcome \in [Tests -> {Absent, NULL, "passed", "failed"}]
    BY <1>1 DEF Lifecycles, Awaited, DrainInv, Basics, DrainType
  <1>3. /\ e.kind = "testEnd" /\ openByWorker[w] # t /\ pc' = "idle"
        /\ UNCHANGED <<openByWorker, pendingByWorker, endedTests, begunTests>>
    BY DEF TakeEndOfReleased, TakeLoneEnd
  <1>4. /\ conflicts' = conflicts
        /\ \/ awaitingOutcome' = awaitingOutcome
           \/ /\ awaitingOutcome[t] # Absent /\ e.outcome # NULL
              /\ awaitingOutcome' = [awaitingOutcome EXCEPT ![t] = e.outcome]
    <2>1. CASE TakeEndOfReleased(e)
      BY <1>1, <1>2, <2>1 DEF TakeEndOfReleased
    <2>2. CASE TakeLoneEnd(e)
      BY <1>3, <2>2 DEF TakeLoneEnd, Timely
    <2> QED
      BY <2>1, <2>2
  <1>5. TestsOf' = TestsOf /\ TwoWriters' = TwoWriters
    BY DEF TestsOf, TwoWriters
  <1>6. OpensKnown' /\ NoneWaits' /\ InTurn'
    BY <1>3, <1>5 DEF Lifecycles, OpensKnown, NoneWaits, InTurn
  <1>7. Followed'
    BY <1>3, WhenTaking DEF Followed
  <1>8. \A x \in Tests : /\ awaitingOutcome'[x] \in {Absent, NULL, result[x]}
                         /\ awaitingOutcome'[x] = Absent <=> awaitingOutcome[x] = Absent
    <2>1. e.outcome # NULL => e.outcome # Absent
      BY <1>1, Constants DEF Absent
    <2>2. \A x \in Tests : awaitingOutcome[x] \in {Absent, NULL, result[x]}
      BY DEF Lifecycles, Awaited
    <2> QED
      BY <1>1, <1>2, <1>4, <2>1, <2>2
  <1>9. Awaited'
    BY <1>3, <1>5, <1>8, WhenTaking DEF Awaited
  <1>10. Settles(e)
    <2>1. Ends(e, t) /\ t \in Expected => <<w, t>> \in endedTests
      BY <1>1, <1>3, WhenTaking DEF Timely
    <2>2. Noted(e)'
      BY <1>3, <2>1 DEF Noted, Ends, TwoWriters
    <2> QED
      BY <1>3, <2>2 DEF Settles
  <1> QED
    BY <1>4, <1>6, <1>7, <1>9, <1>10 DEF Lifecycles

\* The handler of an event keeps queue and lifecycles.
LEMMA HandleEventFollows ==
    ASSUME DrainInv, Ordered, InOrder, Lifecycles, HandleEvent
    PROVE  InOrder' /\ Lifecycles'
  <1>1. PICK e : e = Head(settling)
    OBVIOUS
  <1>2. /\ cur' = e /\ e \in Honest(setup, result) /\ pc = "idle" /\ settling # << >> /\ settling' = Tail(settling)
        /\ UNCHANGED runnerVars /\ UNCHANGED pollVars
        /\ TakeBegin(e) \/ TakeEndOfSlot(e) \/ TakeEndOfReleased(e) \/ TakeLoneEnd(e)
    <2>1. settling # << >> /\ settling' = Tail(settling)
      BY DEF HandleEvent
    <2> QED
      BY <1>1, <2>1, FirstEvent DEF DrainInv
  <1>3. Timely(e)
    BY <1>1, <1>2, FirstIsTimely DEF DrainInv
  <1>4. setup' = setup /\ result' = result /\ file' = file /\ offset' = offset
    BY <1>2 DEF runnerVars, pollVars
  <1>5. Lifecycles' /\ Settles(e)
    BY <1>2, <1>3, <1>4, TakeBeginFollows, TakeEndOfSlotFollows, TakeOtherEndFollows
  <1>6. InOrder'
    BY <1>1, <1>2, <1>4, <1>5, TakeInOrder DEF Settles, DrainInv
  <1> QED
    BY <1>5, <1>6

\* A step that leaves the maps alone.
LEMMA LifecyclesStay ==
    ASSUME Lifecycles, ResultsStay, OverStays, UNCHANGED mapVars,
           \/ UNCHANGED <<pc, cur>>
           \/ pc \notin {"open", "reopen", "release"} /\ pc' \notin {"open", "reopen", "release"}
    PROVE  Lifecycles'
  <1>1. /\ UNCHANGED <<openByWorker, pendingByWorker, endedTests, begunTests, awaitingOutcome, conflicts>>
        /\ setup' = setup /\ TestsOf' = TestsOf /\ TwoWriters' = TwoWriters
    BY DEF mapVars, ResultsStay, TestsOf, TwoWriters
  <1>2. OpensKnown' /\ NoneWaits' /\ InTurn'
    BY <1>1 DEF Lifecycles, OpensKnown, NoneWaits, InTurn
  <1>3. Followed'
    BY <1>1 DEF Lifecycles, Followed, OverStays
  <1>4. Awaited'
    <2>1. \A t \in Tests : awaitingOutcome[t] \in {Absent, NULL, result'[t]}
      BY DEF Lifecycles, Awaited, ResultsStay
    <2> QED
      BY <1>1, <2>1 DEF Lifecycles, Awaited
  <1> QED
    BY <1>1, <1>2, <1>3, <1>4 DEF Lifecycles

\* The answer to an open.
LEMMA AwaitOpenFollows ==
    ASSUME DrainInv, Lifecycles, AwaitOpen, faults = 0, faults' = faults, setup' = setup, result' = result
    PROVE  Lifecycles'
  <1> DEFINE w == cur.w
             t == cur.t
  <1>1. /\ pc \in {"open", "reopen"} /\ UNCHANGED <<cur, pendingByWorker, endedTests, begunTests, awaitingOutcome, conflicts>>
        /\ faults \in Nat
    BY DEF AwaitOpen, DrainInv, Basics, DrainType
  <1>2. /\ w \in Workers /\ t \in Tests /\ Home(setup, w, t) /\ openByWorker[w] = NULL
        /\ wslot[w] = NULL
    BY <1>1, OpeningTest
  <1>3. WitnessOpens(w, t) <=> t \in Expected
    BY <1>2 DEF WitnessOpens
  <1>4. /\ pc' = "idle"
        /\ openByWorker' = IF t \in Expected THEN [openByWorker EXCEPT ![w] = t] ELSE openByWorker
    BY <1>1, <1>3 DEF AwaitOpen, Faulty
  <1>5. \A v \in Workers : openByWorker'[v] = IF v = w /\ t \in Expected THEN t ELSE openByWorker[v]
    BY <1>4 DEF DrainInv, Basics, DrainType
  <1>6. TestsOf' = TestsOf /\ TwoWriters' = TwoWriters
    BY DEF TestsOf, TwoWriters
  <1>7. OpensKnown'
    BY <1>1, <1>4, <1>5 DEF Lifecycles, OpensKnown
  <1>8. NoneWaits' /\ InTurn'
    BY <1>1, <1>6 DEF Lifecycles, NoneWaits, InTurn
  <1>9. Followed'
    <2> SUFFICES ASSUME NEW v \in Workers, NEW x \in Tests, x \in begunTests \cap Expected, Home(setup, v, x)
                 PROVE  openByWorker'[v] = x \/ <<v, x>> \in endedTests
      BY <1>1 DEF Followed
    <2>1. t = x \/ openByWorker[v] = x \/ <<v, x>> \in endedTests
      BY <1>1 DEF Lifecycles, Followed, Settled
    <2>2. t = x => v = w
      BY <1>2, OneHome DEF DrainInv, Basics, RunType
    <2>3. x # NULL
      BY Constants
    <2> QED
      BY <1>2, <1>5, <2>1, <2>2, <2>3
  <1>10. Awaited'
    BY <1>1, <1>6 DEF Lifecycles, Awaited
  <1> QED
    BY <1>1, <1>7, <1>8, <1>9, <1>10 DEF Lifecycles

\* The answer to a release.
LEMMA AwaitReleaseFollows ==
    ASSUME DrainInv, Lifecycles, AwaitRelease, faults' = faults, setup' = setup, result' = result
    PROVE  Lifecycles'
  <1> DEFINE t == cur.t
  <1>1. /\ pc = "release" /\ pc' = "next" /\ faults \in Nat
        /\ UNCHANGED <<cur, openByWorker, pendingByWorker, endedTests, begunTests>>
    BY DEF AwaitRelease, DrainInv, Basics, DrainType
  <1>2. awaitingOutcome' = [awaitingOutcome EXCEPT ![t] = NULL] /\ conflicts' = conflicts
    BY <1>1 DEF AwaitRelease, Faulty
  <1>3. cur.w \in Workers /\ t \in Tests /\ Home(setup, cur.w, t) /\ <<cur.w, t>> \in endedTests
    BY <1>1, EndingTest
  <1>4. \A x \in Tests : awaitingOutcome'[x] = IF x = t THEN NULL ELSE awaitingOutcome[x]
    BY <1>2 DEF DrainInv, Basics, DrainType
  <1>5. TestsOf' = TestsOf /\ TwoWriters' = TwoWriters
    BY DEF TestsOf, TwoWriters
  <1>6. OpensKnown' /\ NoneWaits' /\ InTurn'
    BY <1>1, <1>5 DEF Lifecycles, OpensKnown, NoneWaits, InTurn
  <1>7. Followed'
    BY <1>1 DEF Lifecycles, Followed, Settled
  <1>8. Awaited'
    <2> SUFFICES ASSUME NEW v \in Workers, NEW x \in Tests, Home(setup, v, x)
                 PROVE  /\ awaitingOutcome'[x] # Absent => <<v, x>> \in endedTests
                        /\ TwoWriters /\ <<v, x>> \in endedTests => awaitingOutcome'[x] # Absent
      BY <1>1, <1>4, <1>5 DEF Lifecycles, Awaited
    <2>1. x = t => v = cur.w
      BY <1>3, OneHome DEF DrainInv, Basics, RunType
    <2>2. NULL # Absent
      BY Constants DEF Absent
    <2> QED
      BY <1>1, <1>3, <1>4, <2>1, <2>2 DEF Lifecycles, Awaited
  <1> QED
    BY <1>2, <1>6, <1>7, <1>8 DEF Lifecycles

\* The next begin of a worker is of a test that is not expected.
LEMMA OpenNextPendingFollows ==
    ASSUME DrainInv, Lifecycles, OpenNextPending, setup' = setup, result' = result
    PROVE  Lifecycles' /\ begunTests' = begunTests /\ endedTests' = endedTests
  <1> DEFINE w == cur.w
             q == pendingByWorker[w]
             S == {e \in Event : e.t \in begunTests \ Expected}
  <1>1. pc = "next" /\ w \in Workers
    BY CurrentEvent DEF OpenNextPending, DrainInv
  <1>2. pendingByWorker \in [Workers -> Seq(S)]
    <2>1. pendingByWorker \in [Workers -> Seq(Event)]
      BY BasicsTyped DEF DrainInv, TypeOK
    <2>2. ASSUME NEW v \in Workers PROVE pendingByWorker[v] \in Seq(S)
      <3> DEFINE p == pendingByWorker[v]
      <3>1. p \in Seq(Event) /\ \A i \in 1..Len(p) : p[i] \in S
        BY <2>1, SeqParts DEF Lifecycles, NoneWaits
      <3> HIDE DEF p, S
      <3>2. p \in [1..Len(p) -> S] /\ Len(p) \in Nat
        BY <3>1
      <3>3. p \in Seq(S)
        BY <3>2
      <3> QED
        BY <3>3 DEF p
    <2> QED
      BY <2>1, <2>2
  <1>3. q \in Seq(S) /\ Len(q) \in Nat
    BY <1>1, <1>2
  <1>4. /\ UNCHANGED <<openByWorker, endedTests, awaitingOutcome, begunTests, conflicts>>
        /\ pc' \in {"idle", "open"} /\ pendingByWorker' \in [Workers -> Seq(S)]
        /\ pc' = "open" => cur'.t \in begunTests
    <2>1. CASE /\ pendingByWorker' = [pendingByWorker EXCEPT ![w] = << >>] /\ pc' = "idle"
               /\ UNCHANGED <<cur, openByWorker, endedTests, begunTests, awaitingOutcome, conflicts>>
      <3>1. << >> \in Seq(S)
        OBVIOUS
      <3> QED
        BY <1>2, <2>1, <3>1
    <2>2. ASSUME NEW i \in FirstOpenable(w), cur' = q[i],
                 OpenSessionFor(q[i], [pendingByWorker EXCEPT ![w] = SubSeq(q, i + 1, Len(q))])
          PROVE  /\ UNCHANGED <<openByWorker, endedTests, awaitingOutcome, begunTests, conflicts>>
                 /\ pc' \in {"idle", "open"} /\ pendingByWorker' \in [Workers -> Seq(S)]
                 /\ pc' = "open" => cur'.t \in begunTests
      <3> DEFINE e == q[i]
                 r == [pendingByWorker EXCEPT ![w] = SubSeq(q, i + 1, Len(q))]
      <3>1. i \in 1..Len(q) /\ e.w = w /\ <<w, e.t>> \notin endedTests
        BY <1>1, FirstOpenableHolds DEF FirstOpenable, DrainInv
      <3>2. e \in S
        BY <1>3, <3>1, SeqParts
      <3>3. SubSeq(q, i + 1, Len(q)) \in Seq(S)
        <4>1. i + 1 \in 1..(Len(q) + 1) /\ Len(q) \in (i + 1) - 1..Len(q)
          BY <1>3, <3>1
        <4> HIDE DEF q, S
        <4> QED
          BY <1>3, <4>1, SeqParts
      <3>4. r \in [Workers -> Seq(S)]
        BY <1>2, <3>3
      <3>5. e.t \in begunTests
        BY <3>2
      <3> HIDE DEF r, e, S
      <3>6. OpenSessionFor(e, r) /\ cur' = e
        BY <2>2 DEF e, r
      <3>7. /\ begunTests' = begunTests \cup {e.t} /\ UNCHANGED <<openByWorker, endedTests, awaitingOutcome>>
            /\ pc' \in {"idle", "open"} /\ conflicts' = conflicts
            /\ pendingByWorker' \in {r, [r EXCEPT ![w] = Append(r[w], e)]}
        BY <3>1, <3>6 DEF OpenSessionFor
      <3>8. [r EXCEPT ![w] = Append(r[w], e)] \in [Workers -> Seq(S)]
        BY <1>1, <3>2, <3>4
      <3> QED
        BY <3>4, <3>5, <3>6, <3>7, <3>8
    <2>3. \/ /\ pendingByWorker' = [pendingByWorker EXCEPT ![w] = << >>] /\ pc' = "idle"
             /\ UNCHANGED <<cur, openByWorker, endedTests, begunTests, awaitingOutcome, conflicts>>
          \/ \E i \in FirstOpenable(w) :
               /\ cur' = q[i]
               /\ OpenSessionFor(q[i], [pendingByWorker EXCEPT ![w] = SubSeq(q, i + 1, Len(q))])
      BY DEF OpenNextPending
    <2>4. CASE \E i \in FirstOpenable(w) :
               /\ cur' = q[i]
               /\ OpenSessionFor(q[i], [pendingByWorker EXCEPT ![w] = SubSeq(q, i + 1, Len(q))])
      BY <2>2, <2>4
    <2> QED
      BY <2>1, <2>3, <2>4
  <1>5. TestsOf' = TestsOf /\ TwoWriters' = TwoWriters
    BY DEF TestsOf, TwoWriters
  <1>6. OpensKnown' /\ InTurn'
    BY <1>4, <1>5 DEF Lifecycles, OpensKnown, InTurn
  <1>7. NoneWaits'
    <2>1. ASSUME NEW v \in Workers, NEW i \in 1..Len(pendingByWorker'[v])
          PROVE  pendingByWorker'[v][i].t \in begunTests \ Expected
      <3>1. pendingByWorker'[v] \in Seq(S)
        BY <1>4
      <3>2. pendingByWorker'[v][i] \in S
        BY <3>1, SeqParts
      <3> QED
        BY <3>2
    <2> QED
      BY <1>4, <2>1 DEF NoneWaits
  <1>8. Followed'
    BY <1>1, <1>4 DEF Lifecycles, Followed, Settled
  <1>9. Awaited'
    BY <1>1, <1>4, <1>5 DEF Lifecycles, Awaited
  <1> QED
    BY <1>4, <1>6, <1>7, <1>8, <1>9 DEF Lifecycles

\* A force close follows the last event.
LEMMA ForceCloseFollows ==
    ASSUME DrainInv, Lifecycles, ResultsStay, OverStays, NEW w \in Workers, ForceClose(w), result' = result
    PROVE  Lifecycles'
  <1>1. /\ stop # "no" /\ Settled /\ pc' = "idle" /\ pc = "idle"
        /\ openByWorker' = [openByWorker EXCEPT ![w] = NULL]
        /\ UNCHANGED <<cur, pendingByWorker, endedTests, begunTests, awaitingOutcome, conflicts>>
    BY DEF ForceClose, Settled
  <1>2. \A v \in Workers : openByWorker'[v] = IF v = w THEN NULL ELSE openByWorker[v]
    BY <1>1 DEF DrainInv, Basics, DrainType
  <1>3. setup' = setup /\ TestsOf' = TestsOf /\ TwoWriters' = TwoWriters
    BY DEF ResultsStay, TestsOf, TwoWriters
  <1>4. Followed'
    BY <1>1 DEF Followed, OverStays
  <1>5. OpensKnown' /\ NoneWaits' /\ InTurn' /\ Awaited'
    BY <1>1, <1>2, <1>3 DEF Lifecycles, OpensKnown, NoneWaits, InTurn, Awaited
  <1> QED
    BY <1>1, <1>4, <1>5 DEF Lifecycles

----------------------------------------------------------------------------
(* Genuine runs.                                                           *)

\* At first nothing is written and nothing has begun.
LEMMA GenuineInit == Init => GenuineInv
  <1> SUFFICES ASSUME Init PROVE GenuineInv
    OBVIOUS
  <1>0. /\ Len(file) = 0 /\ Len(settling) = 0 /\ offset = 0 /\ setup \in Setups
        /\ endedTests = {} /\ begunTests = {} /\ conflicts = {} /\ pc = "idle"
        /\ \A w \in Workers : /\ Len(pendingByWorker[w]) = 0 /\ openByWorker[w] = NULL /\ Lead(w) = 0
                              /\ Len(TestsOf[w]) \in Nat
        /\ \A t \in Tests : awaitingOutcome[t] = Absent
    BY Constants DEF Init, Lead, TestsOf
  <1>1. Written
    BY <1>0 DEF Written
  <1>2. Ordered
    BY <1>0 DEF Ordered
  <1>3. InOrder
    <2>1. PICK src : src = [i \in 1..1 |-> 1]
      OBVIOUS
    <2>2. src \in [1..1 -> Nat \ {0}] /\ src[1] = 1
      BY <2>1
    <2>3. Reads(src)
      BY <1>0, <2>2 DEF Reads
    <2> QED
      BY <1>0, <2>2, <2>3 DEF InOrder
  <1>4. Lifecycles
    BY <1>0 DEF Lifecycles, OpensKnown, NoneWaits, Followed, InTurn, Awaited
  <1> QED
    BY <1>1, <1>2, <1>3, <1>4 DEF GenuineInv

\* Every step of an undisturbed run keeps its order and its lifecycles.
LEMMA GenuineStep == DrainInv /\ GenuineInv /\ [Next]_vars => GenuineInv'
  <1> SUFFICES ASSUME DrainInv, GenuineInv, [Next]_vars, Undisturbed'
               PROVE  Written' /\ Ordered' /\ InOrder' /\ Lifecycles'
    BY DEF GenuineInv
  <1>1. Basics /\ ResultsStay /\ OverStays
    BY BasicsStep, OverStaysStep DEF DrainInv
  <1>2. Undisturbed /\ faults' = faults /\ faults = 0 /\ rebegins' = rebegins /\ lost' = lost
    BY <1>1, UndisturbedBefore DEF Undisturbed
  <1>3. Written /\ Ordered /\ InOrder /\ Lifecycles
    BY <1>2 DEF GenuineInv
  <1>4. setup' = setup
    BY <1>1 DEF ResultsStay
  <1>5. CASE Runner
    <2>1. Written' /\ Ordered'
      BY <1>1, <1>2, <1>3, <1>5, RunnerWrites
    <2>2. UNCHANGED <<pollVars, settling, pc, cur, mapVars, chainVars, stop, witVars, faults>>
      BY <1>1, <1>5, RunnerSpools
    <2>3. InOrder'
      <3>1. CASE file' = file
        BY <1>3, <1>4, <2>2, <3>1, StillInOrder DEF pollVars, mapVars
      <3>2. CASE \E e \in Honest(setup', result') : file' = Append(file, e)
        <4>1. PICK e \in Event : file' = Append(file, e)
          BY <3>2 DEF Honest
        <4> QED
          BY <1>1, <1>3, <1>4, <2>2, <4>1, AppendInOrder DEF pollVars, mapVars
      <3> QED
        BY <1>1, <1>5, <3>1, <3>2, RunnerSpools
    <2>4. Lifecycles'
      BY <1>1, <1>3, <2>2, LifecyclesStay
    <2> QED
      BY <2>1, <2>3, <2>4
  <1>6. CASE UNCHANGED vars \/ Drain
    <2>1. UNCHANGED runnerVars
      BY <1>6, DrainKeepsRun
    <2>2. Written' /\ Ordered' /\ file' = file /\ result' = result
      BY <1>3, <2>1, DrainWrites DEF runnerVars
    <2>3. CASE Poll \/ Stop
      <3>1. UNCHANGED <<pc, cur, mapVars>>
        BY <2>3 DEF Poll, Stop
      <3>2. Lifecycles'
        BY <1>1, <1>3, <3>1, LifecyclesStay
      <3>3. InOrder'
        <4>1. CASE \E again \in BOOLEAN : DrainOnce(again)
          BY <1>1, <1>3, <1>4, <2>2, <3>1, <4>1, PollInOrder DEF mapVars
        <4>2. CASE UNCHANGED <<settling, pollVars>>
          BY <1>3, <1>4, <2>2, <3>1, <4>2, StillInOrder DEF mapVars, pollVars
        <4> QED
          BY <2>3, <4>1, <4>2 DEF Poll, Stop
      <3> QED
        BY <2>2, <3>2, <3>3
    <2>4. CASE HandleEvent
      BY <1>3, <2>2, <2>4, HandleEventFollows
    <2>5. CASE AwaitOpen \/ AwaitRelease \/ OpenNextPending \/ \E w \in Workers : ForceClose(w)
      <3>1. /\ Lifecycles' /\ begunTests' = begunTests /\ endedTests' = endedTests
            /\ settling' = settling /\ offset' = offset
        <4>1. CASE AwaitOpen
          <5>1. Lifecycles'
            BY <1>2, <1>3, <1>4, <2>2, <4>1, AwaitOpenFollows
          <5> QED
            BY <4>1, <5>1 DEF AwaitOpen, pollVars
        <4>2. CASE AwaitRelease
          <5>1. Lifecycles'
            BY <1>2, <1>3, <1>4, <2>2, <4>2, AwaitReleaseFollows
          <5> QED
            BY <4>2, <5>1 DEF AwaitRelease, pollVars
        <4>3. CASE OpenNextPending
          <5>1. Lifecycles' /\ begunTests' = begunTests /\ endedTests' = endedTests
            BY <1>3, <1>4, <2>2, <4>3, OpenNextPendingFollows
          <5> QED
            BY <4>3, <5>1 DEF OpenNextPending, pollVars
        <4>4. ASSUME NEW w \in Workers, ForceClose(w)
              PROVE  /\ Lifecycles' /\ begunTests' = begunTests /\ endedTests' = endedTests
                     /\ settling' = settling /\ offset' = offset
          <5>1. Lifecycles'
            BY <1>1, <1>3, <2>2, <4>4, ForceCloseFollows
          <5> QED
            BY <4>4, <5>1 DEF ForceClose, pollVars
        <4> QED
          BY <2>5, <4>1, <4>2, <4>3, <4>4
      <3>2. InOrder'
        BY <1>3, <1>4, <2>2, <3>1, StillInOrder
      <3> QED
        BY <2>2, <3>1, <3>2
    <2>6. CASE \/ UNCHANGED vars \/ AwaitFinalize \/ AwaitSeal
               \/ ChainStart \/ ChainFinalize \/ ChainSeal \/ StopDone
      <3>1. /\ UNCHANGED mapVars /\ settling' = settling /\ offset' = offset
            /\ \/ UNCHANGED <<pc, cur>>
               \/ pc \notin {"open", "reopen", "release"} /\ pc' \notin {"open", "reopen", "release"}
        <4>1. CASE UNCHANGED vars
          BY <4>1 DEF vars, pollVars
        <4>2. CASE AwaitFinalize \/ AwaitSeal
          BY <4>2 DEF AwaitFinalize, AwaitSeal, pollVars
        <4>3. CASE ChainStart \/ ChainFinalize \/ ChainSeal \/ StopDone
          BY <4>3 DEF ChainStart, ChainFinalize, ChainSeal, StopDone, pollVars
        <4> QED
          BY <2>6, <4>1, <4>2, <4>3
      <3>2. Lifecycles'
        BY <1>1, <1>3, <3>1, LifecyclesStay
      <3>3. InOrder'
        BY <1>3, <1>4, <2>2, <3>1, StillInOrder DEF mapVars
      <3> QED
        BY <2>2, <3>2, <3>3
    <2> QED
      BY <1>6, <2>3, <2>4, <2>5, <2>6 DEF Drain
  <1> QED
    BY <1>5, <1>6 DEF Next

\* A genuine run raises no conflict: whatever order the worker and the
\* reporter append in, wherever a poll cuts the file and whichever line it
\* reads twice, no begin and no end of the run contradicts another.
THEOREM GenuineRunsAreAccepted == Spec => []GenuineRunsDoNotConflict
  <1>1. GenuineInv => GenuineRunsDoNotConflict
    BY DEF GenuineInv, Lifecycles, GenuineRunsDoNotConflict, Undisturbed
  <1> QED
    BY <1>1, DrainInit, DrainStep, GenuineInit, GenuineStep, PTL DEF Spec
=============================================================================

# gateforge: TLA+ models and proofs

gateforge decides whether a change may land. It supervises a real test run,
observes what the run did to the application through a *witness* that the test
code cannot forge, grades the evidence, seals a signed *receipt* for exactly the
tested bytes, and lets a *broker* move a git ref only under that receipt. Its
promises are about order and identity: evidence belongs to the session that was
open when it was made, a test has one outcome, a receipt stands for the bytes the
suite read, a commit is made only of such bytes. All of them must hold although
the witness serves interleaved requests, the runner is another process that may
die, calls get lost, and nobody locks the workspace.

This directory holds TLA+ modules for those parts, TLC configurations that check
them on small instances, and TLAPS proofs of the central results. Paths below are
relative to the root of the repository; `server.ts` without a path is
`packages/witness/src/witness/server.ts`, and `drain.ts`, `spool.ts` are in
`packages/pack-playwright/src/supervisor/`.

## 1. Inventory

### Components, state, operations

| Component | Source | State | Operations |
|---|---|---|---|
| Witness: test-session lifecycle | `server.ts` | `sessions`, `workerSessions`, `observeSnapshots`, `sessionIdentities`, per session status, outcome, claims, readiness gate, proxy listener | open, re-open, abandon, resolve, submit, identity, release, close |
| Witness: exchanges and evidence records | `server.ts` | `observed` exchanges, `observedSeq`, the watermark of the run context, `tick`, action intervals, the ledger | bind run context, proxy an exchange, open/close an interval, consume an exchange, finalize, issue records |
| Witness: page observation | `server.ts`, `page-observer*.ts` | `pageObservers`, `pageObservationRecords`, ledger | attach, visit, flush, close, seal, attest, shut down |
| Witness: persistence and pre-observation reads | `server.ts`, `spool.ts`, `drain.ts` | `preObservations`, `serverPreObservations`, `serverIntentSequences`, intervals, ledger; the intents file, its offset, `answeredIntents` | engine action, pre-observation, persistence read; append, poll, forward, resolve an intent, wait for it |
| Witness: behaviour executor, queue observer | `pack-playwright/src/witness/behavior*.ts` | none kept over a request | replay and fault a request |
| Witness: engine browser, adapters, shapes, chaos twins, options | `pack-playwright/src/witness/` | browser handles | I/O and parsing |
| Supervision spool | `spool.ts` | two append-only files, one read offset each | append, incremental read |
| Spool drain | `drain.ts`, `client.ts` | `openByWorker`, `pendingByWorker`, `endedTests`, `begunTests`, `awaitingOutcome`, conflicts, outcome chains | poll, begin, end, seal, stop, force close, forward intents, freeze audit |
| Runner reporters, Vitest hooks | `pack-playwright/src/reporter/`, `vitest/` | none | append begin and end lines |
| Fixture, Cypress plugin, loaders | `pack-playwright/src/fixture/`, `cypress/` | none | call the witness routes from inside a test |
| Runner discovery and adapters | `pack-playwright/src/discovery/` | none | parse configuration, spawn the runner |
| Attestation proxy | `pack-playwright/src/attestation/` | none | relay HTTP |
| Plugin protocol | `plugin-protocol/src/` | `#state`, `#pending` read, `#lineQueue`, `#killed`, `#exitInfo` | handshake, discover, shutdown, dispose, watchdog, kill, close |
| Broker and gate receipts | `cli/src/broker.ts`, `receipts.ts`, `trusted-policy.ts`, `core/src/receipt/` | `receipt.json`, the policy pin, the authoritative ref | seal, load, reuse, clear, verify, commit |
| Execution, staged candidates, native freeze | `cli/src/commands/test-gates.ts`, `execution.ts`, `staged-candidate.ts`, `native-freeze.ts` | `execution-result.json`, digests, candidate trees | inventory, freeze, run, compare, decide |
| Reseal and reseal chain | `cli/src/reseal*.ts`, `commands/test-gates.ts` | retained parents, seven files per hop | classify a change, shift, retain, carry, seal, recompute |
| State files and run cache | `cli/src/state.ts`, `run-cache.ts` | one file per document: receipt, run record, execution result, records, claims, retained copy, chain | load, store, copy back, clear |
| Verdict, policy, waivers, baselines, quarantine | `core/src/` | none; reads ledger, claims, waivers, owners, the clock | grade an obligation, expire, load |
| Classifier, mapping, graph, configuration, schemas, report | `core/src/` | none | pure transformation |
| Supervision record | `core/src/supervision/` | none | fold a run into a summary |
| CLI commands and pipeline | `cli/src/` | none | arguments, printing, glue |
| HTTP contract | `http-contract/src/` | none | normalise and join route tables |
| Detection packs | `pack-*/src/` | none | detect facts in source code |

### How they interact

    runner + reporter --append--> spool files --poll--> drain --HTTP--> witness
        |                                                                 ^  |
        +---- the test's own requests, through the session's proxy -------+  |
        +---- fixture: intervals, observations, resolve -------------------->|
                                                                             |
    test-gates <---- execution result, ledger, attestation ------------------+
        |  reads the workspace seven times, then seals
        v
    receipt.json ----> broker commit ----> compare-and-swap of the ref

* The **drain** is the only caller of the supervisor routes (open, release,
  finalize, close). It serialises lifecycle events in one promise chain and seals
  outcomes in a second one.
* The **witness** is one Node process: a handler runs to its next `await`
  undisturbed, and everything it read before the `await` may be stale after it.
* The **spool** couples two processes by a file; reads see any prefix of a write.
* **test-gates**, the **broker**, editors, checkouts, pushes and the owner of the
  policy pin share a workspace, a state directory and a ref without a lock.
* A **re-seal** reuses the documents the last runs left in the state directory; each
  is authentic by itself, and only their combination can be wrong. The next run and
  the consumer of the receipt recompute that combination.
* The **evaluator** is the one place where ledger, claims and waivers meet; what it
  calls satisfied is what the gate seals.
* The CLI and the detectors drive a **plugin** subprocess through one session per
  use, which always ends in `dispose`.

### What is hard, and what must hold

| Component | Hard behaviour | What makes it correct |
|---|---|---|
| Sessions | opens that await twice while re-opens, closes and releases of the same session are parked on its gate; abandonment of an open by the next test of the worker; proxies that fail to start | a slot names the one open session of its worker; no credential for a half-open session; an ended or dead session leaves nothing behind; seals and outcomes are final; every parked request is answered |
| Evidence | exchanges in flight across a bind, a release or a close; a finalize that awaits an adapter | evidence is never older than its run context; exchanges count only within an interval of their session; a transport claim sees consumed exchanges; nothing is issued after the seal |
| Persistence reads | handlers that await the adapter's context and then its read while others act; intents announced through a file, repeated lines, calls that time out | a mutation is graded by reads from both sides of it, each used once; a test that waits for its probe mutates after it |
| Page observation | attach completing after the end; flushes that still emit | only passed sessions keep page records, and for good |
| Spool | torn lines, growth between `stat` and `read` | no line skipped, none handed over twice, all in the end |
| Drain | lost, repeated and late lines; lost calls and answers; two writers; the runner dying | one session per test, the runner's outcome, finalize before seal, nothing open after stop, stop returns |
| Gate and broker | seven unlocked reads of a workspace that changes; two runs sharing `receipt.json`; concurrent pushes | sealed and committed bytes are the tested ones under their own policy; a receipt lands once; a revoked one stays revoked |
| Plugin protocol | watchdog against a late answer; several frames in one chunk; an exit before it is awaited | each call ends once, an answer is for the request just asked, a failed session answers nothing more, a plugin that keeps the protocol is never failed, every use ends |
| Reseal, state files | deaths between two of nine file operations; runs that soften a failure; staged copies put back | a receipt stands on passing runs of the bytes it seals; its consumer recomputes what the run sealed |
| Verdict, waivers | records of many sessions in any order of issue; expiry; owners that leave | a satisfied verdict is proved by the records it cites, of one session; only the witness or a live waiver unblocks |

The hazards, each at the line where it bites and with the properties aimed at it,
are listed in `PROJECT.json`.

## 2. Modules and how they correspond to the code

| Module | Models | Proofs | TLC instance |
|---|---|---|---|
| `WitnessSessions` | session lifecycle of the witness | `WitnessSessionsProofs` | `MCWitnessSessions` |
| `WitnessEvidence` | exchanges, intervals, finalize, records | `WitnessEvidenceProofs` | `MCWitnessEvidence` |
| `PageObservation` | page observers and their records | `PageObservationProofs` | `MCPageObservation` |
| `PersistenceReads` | reads before and after a mutation, browser and server channel | `PersistenceReadsProofs` | itself |
| `Spool` | both spool files and readers | `SupervisionProofs` | itself |
| `Supervision` | what the supervision of a run promises the witness (abstract) | | through `SpoolDrain` |
| `SpoolDrain` | runner, drain and the witness it calls | `SupervisionProofs` | `MCSpoolDrain` |
| `GateCommit` | test-gates runs, receipt, broker, workspace | `ReceiptProofs` | `MCGateCommit` |
| `PluginCalls` | what a plugin session promises its client (abstract) | | through `PluginSession` |
| `PluginSession` | host, pipe, plugin process, client | `PluginSessionProofs` | itself |
| `Reseal` | state directory, re-sealing runs, retained chain, consumer | `ReceiptProofs` | `MCReseal` |
| `Verdict` | the evaluator and its changing inputs | `VerdictProofs` | `MCVerdict` |

Each definition's source lines are in the `map` of `PROJECT.json`. Definitions
whose comment begins with "Mutant:" are deliberate misreadings of the definition
after them; they are used only to show that a property can fail.

### WitnessSessions

One action is one stretch of a handler between two awaits. `stage` says where the
open handler of a session stands (awaiting its proxy ports, its snapshots, the
shutdown of a listener that is to be discarded, or done), `Pending` is
`snapshotReady # null`. A close, release or re-open of a pending session is parked
in `waiters`; settling the gate moves the waiters to `microtasks`, and while that
queue is not empty no new request is served, which is what the event loop does.
`OpenMint` abandons a pending session of another test in the same slot, as the
handler does. `viewSent`, `handedOut` and `ledger` record what was answered and
issued.

### WitnessEvidence

`tick` and `seq` are the witness clock and the completion counter. An exchange is
idle, in flight, observed or consumed; it belongs to the session whose port it
came in on, or to the shared proxy. Which exchange matches a claim is data and
therefore a free choice. A finalize is split at its awaited adapter read:
`FinalizeMatch` picks the exchanges, `FinalizeIssue` issues the record. `late` in a
record notes that the session was sealed when it was issued. The open handler's
own awaits are in `WitnessSessions`.

### PageObservation

Attach, `OnVisit`, flush and close of an observer are separate steps because
each of them awaits. A close or release of a session first awaits its proxy
(`ProxyStopped` ends that await) and then stops the observer, while the seal
has already decided about the records (`SealPageObservationRecords`).
`StopWitness`, `StopObserver` and `StopSeal` are the shutdown.

### PersistenceReads

A request is a record in `requests`; `step` is the await it stands at: the adapter's
context (loopback and fingerprint), the read, the drive of the engine's browser.
`Begin`, `Observe` and the handlers' own continuations end those awaits in any order,
and `Fail` ends any of them with an error. What a read sees is abstracted to `writes`,
the number of mutations the application had seen, so that "before" and "after" can be
compared; a record keeps its before (with the id of the read that made it) and the
moment of its after. `BrowserAction` opens the interval and takes the pre-observation,
`Driven` ends the interval and issues the `ui.action` record. On the server channel a
test writes its intents and mutates in between, at once or (`Patient`) after
`whenIntentsForwarded`; `Poll` is the reader that goes on from the size it took before
the read, `Forward` the drain's call up to the replay gate of the witness. A claim and
its entity are one key. Initially `channel` is one of the two, as an obligation is
registered for one.

### Spool

A file is a number of cells, three to a line: a prefix that is not JSON, the rest
of the JSON text, the newline. `Stat` and `Read` are separate steps of a poll.
`EventsNextOffset` and `IntentsNextOffset` are the two offset computations, which
differ. `torn` remembers files of which a poll read the middle of a line.

### Supervision and SpoolDrain

The runner writes a lifecycle per test, from the reporter alone or from worker and
reporter (`Setups`). The drain's handlers end at each client call. The witness is
reduced to the answers that `WitnessSessions` gives to one supervisor.
`MaxDisturbances` bounds lost appends, lines handed over twice, begins after an
outcome and calls whose request or answer is lost. `Stop` is called when the
runner has exited, drains the rest and force-closes what is left.

`Supervision` is what the witness may rely on, without lines, queues, handlers or lost
calls: a test is reported, opened, released, sealed, settled or given up, each as one
step. The refinement reads the witness's slots, status and outcomes, what the runner
reported, whether it has exited, and whether `stop` has returned; everything else the
drain does is a stutter.

### GateCommit

A tree stands for the bytes of the whole candidate. A full `test-gates` run is one
step for each time it reads the workspace: configuration, inventory, discovery,
input digest, frozen tree, policy digest, suite, changed inputs, result tree. It
then decides: refuse (and revoke the receipt only if strict grading blocked it),
drift, unsigned, seal. `Reuse` is `tryReuseReceipt`. The broker reads policy,
tree, receipt and ref in four steps and ends in the compare-and-swap. Everyone else
may edit the workspace, move HEAD, change the pin and push at any time. Commits are
named by their position on the ref; 0 is "none".

### PluginCalls and PluginSession

`PluginCalls` is the contract: a session is in a call, free, failed, ended cleanly or
let go of; an answer raises `answered` to `asked`; nothing leaves "failed" but the end.
`PluginSession` is `host.ts` (handshake, `discover`, `shutdown`, `dispose`, the read
with its watchdog, the line queue, the line cap, kill and close) on one end of a pipe
and a plugin on the other: an honest one is `servePlugin`, a stray one writes any
frame at any time. `call` is the place of the client between its awaits. A read that
settles is continued in the action of the event that settled it, since promise
continuations run before the next event. A frame is its type, the request it names and
whether it verifies. The refinement maps `call` to `phase` and the absence of
`exitInfo` to `alive`.

### Reseal

`dir` is the state directory: receipt, run record, execution result, evidence, the
retained copy and the hops of the chain. A document is the number of the run that
issued it (it is signed and bound by digest); a file that may be missing is a sequence
of length 0 or 1. One run is `StartFull`, `StartChanged`, `StartReseal` or
`StartRefused`, then `Execute`, `Record`, and `Seal` or `Fail`. A file operation is
atomic, and `StartReseal` and `DieSealing` take the number of operations done before
the run dies. `End` copies the directory of a staged run back over the one of the
checkout, deleting nothing. `Recomputes` is the consumer's walk over the chain. `runs`
is the history that the properties compare the receipt with; `residue` notes that a
run ended on a chain which it neither finished nor cleared.

### Verdict

The inputs change (a record is issued, a test declares the obligation, a waiver is
written or revoked, an owner leaves, time passes), and `verdict` is the evaluation of
the inputs in every state, by the operators for the four lanes: crud on one session,
persistence on its server, observe and browser channels, pages, alembic. Checks are
listed in the order of the code, and the first that fails gives the status. A record's
label says nothing about its place in the ledger, which is its `at`: the ledger is a
set of records, and `First` is what the code's `find` returns, `Smallest` the record
whose label sorts first.

## 3. Runs

### Passing

| Run | Shows |
|---|---|
| `WitnessSessions` | 2 sessions, 2 workers, 3 tests (one unexpected, one raw twin), one parked request per gate. `SlotIsTheOpenSession`, `HandedOutOnlyWhenReady`, `EndedLeavesNothing`, `DeadOpenLeavesNothing`; `IrrevocableProp` (seals, outcomes and unregistrations are final), `ViewIsOfReadySession` (a 200 answer shows a session that is registered and ready at that moment); under fairness `NoRequestHangs`. |
| `WitnessEvidence` | 1 session, 2 exchanges, 2 intervals, 2 closes. `ContextPrecedesEvidence`, `RequestsWithinOwnIntervals` (and the intervals of a session are disjoint), `TransportSeesConsumed`, `ExchangesOfPassedOnly`. |
| `PageObservation` | 2 sessions, 2 observers, 2 visits. `KeptMeansPassed`, `KeptForGood`. |
| `PersistenceReads` | 1 session, 2 entities, 3 overlapping requests and 2 mutations on the browser channel; on the server channel 2 tests with or without a before, one of which waits for its probe, one repeated poll, one timed-out call. `ReadsSurroundTheMutation`, `UsedOnce`, `MutatesAfterProbe`. |
| `Spool` | 2 lines per file, every chunking. `NothingSkipped`, `EventsOnce` (an event is repeated only after a torn read), `EveryLineDelivered`. |
| `SpoolDrain` | Three setups (2 tests on one worker with two writers; behind one reporter, 2 tests on one worker, the second unexpected, and one test each on 2 workers), any 2 disturbances, runner death at any time. `GenuineRunsDoNotConflict`, `NextTestFindsItsSlot`, `OutcomeIsTheRunners`, `FinalizeBeforeSeal`, `StopLeavesNothingOpen`, `ImplementsSupervision` (the refinement). |
| `SpoolDrainLive` | The first setup, and the other two in one (2 workers behind one reporter, the first with the unexpected test behind its own), with one disturbance, under fairness: `RunIsSealed`. |
| `GateCommit` | 2 runs, 1 broker, 3 trees under 2 policy revisions (one strict, one soft), up to 3 commits. `SealedBytesWereTested`, `CommittedUnderItsPolicy`, `ReceiptLandsOnce`, `RevokedStaysRevoked`. |
| `PluginSession` | Honest and stray plugins, 2 discovers, 4 stray frames. `ImplementsCalls` (the refinement), `KilledAnswersNothing`, `HonestPluginsPass` (a plugin that keeps the protocol, answers in time and whose handler does not throw is never failed); under fairness `EveryUseEnds`. |
| `Reseal` | 2 test files, one importing the other, and an application file; 4 runs, 2 edits that add a test to the file, 1 death. `SealedIsProven` (the receipt of passing runs stands on a passing run of every test file with the bytes it seals), `SealedRecomputes` (the consumer accepts what a re-seal left). |
| `Verdict` | 14 obligations, each with up to 12 records that make and spoil its proof, 2 tests, a waiver, an owner, 6 changes. `CitedRecordsProve`, `OneSessionProves`, `PageIsByLatestVisit` (the page lane agrees with an order-free definition), `NothingElseUnblocks`. |

The `TypeOK` of `WitnessSessions`, `WitnessEvidence`, `PageObservation`,
`PersistenceReads`, `SpoolDrain`, `GateCommit` and `PluginSession` and the `SpoolTypeOK`
of `Spool` are proved, so no run repeats them; `VerdictInv` and `ResealInv` give the
shape of the inputs of `Verdict` and of the directory of `Reseal`. Deadlock is not checked because all of these systems may stop:
sessions are used up, the runner exits, processes end, inputs settle.

### Violations: where the code and its documentation disagree

| Run | The code | What the repository says |
|---|---|---|
| `ResealRefused` | When the evidence of the parent does not authenticate, `reSealPlan` becomes null (`test-gates.ts:3171`), but the branch at 3201 tests `reSeal.plan`. The run executes the affected files only, carries nothing, and its receipt still covers every obligation. The counterexample: a full run dies between its receipt and the retained copy, a test file is edited, the next run re-seals. | `test-gates.ts:3022-3023`: "A refused re-seal prints ONE plain reason line and the run continues through the unchanged path below". |

### Known divergences without a run of their own

The first seven are violated by a property that is stated in the module and in no run;
putting it in the place of the INVARIANTS (or the PROPERTY) of the passing
configuration shows the counterexample.

* `finalizeObserveClaim` issues its record after the awaited adapter read without
  looking at the session again; a close during the read has sealed it
  (`server.ts:6426`, against 6000: "observe finalizes before seal, never after").
  `NoRecordAfterSeal` in `WitnessEvidence`.
* The close seals page records before the observer's last flush; until shutdown,
  records of a failed session are in the ledger and an attestation names them
  (`server.ts:4399`, against 1503: "Only a test session sealed as passing can retain
  its page observations."). `AttestedMeansPassed` in `PageObservation`, an action
  property, so without SYMMETRY.
* `readPersistenceIntents` advances by the size taken before the read and forwards an
  intent twice (`spool.ts:449`; 276-278 explain why the events reader must not do
  that). `IntentsOnce` in `Spool`.
* The browser channel's persistence set leaves out the server channel only, so an
  observe-channel record satisfies a browser claim, or turns a missing one invalid
  (`evaluate.ts:1432`, against 1173-1176: "server- and observe-channel records are
  excluded from its persistence set"). `ObserveStaysOut` in `Verdict`, with
  `Obligations <- PersistenceOnly`, `Issuable <- PersistenceIssuable`, `Owners = {}`,
  `Instants = {}`, `MaxTime = 0`, `MaxChanges = 4`.
* The check for an earlier persistence record of an anchor comes before the awaits
  and the record after them, so two overlapping reads both get one
  (`server.ts:5049`, against 5059: "was already observed"). `AnchorReadOnce` in
  `PersistenceReads`.
* In mode warn or changed a complete, blocked run gets exit code 0, passes the refusing
  branch and is sealed (`test-gates.ts:6390`, against `core/src/receipt/index.ts:483`:
  "receipts are issued only after complete success (fail closed)").
  `SealedMeansClean` in `GateCommit`.
* Reuse does not compare the parent: a rerun on a new base answers 0 with the receipt
  of the old one (`test-gates.ts:3537`, against `cli/src/broker.ts:387`: "stale base —
  rerun the gate against the current base"). `PassBindsItsBase` in `GateCommit`, with
  one tree, one policy, `Strict = {}`, `Soft = {}`, `MaxCommits = 2`, `RunCost = 1`,
  `MaxEvents = 3`.
* The number of carried tests is taken from the retained chain alone, so a file that the
  immediate parent re-ran is counted as the runs behind it had it
  (`retainedChainCarriedTests`, `reseal-chain.ts:385-406`, against the consumer's walk
  at 759-779). The two agree as long as no file that is carried has had another number of
  tests in a run of the chain, which is the last premise of `SealedRecomputes`. Without
  that premise the run `Reseal`, whose edits add a test (`AddedTest`), shows the gate
  issue a receipt that its own consumer rejects.
* A death between `writeGateReceipt` and `writeResealChainHop` leaves the receipt of
  the new run on the chain of the old one. If the shifted hops are complete, the
  consumer walks what is there; if not, it rejects. `residue` excepts both.
* A hop whose first file is missing hides the hops behind it (`readResealChain`), which
  stay in the directory and come back when the chain is extended.
* The copy back of a staged gate brings chain hops back that the staged run had
  cleared (`cli/src/commands/pre-commit.ts:372`); the consumer then rejects (fails
  closed), and so it does when a softened failure lies inside a chain.
* A deleted test file counts as a change outside the test files and the re-seal is
  refused (fails closed).
* The reason and the cited ids of the page grader depend on the order of two
  contradicting records of one visit (`evaluate.ts:2264-2278`); the status does not,
  which is `PageIsByLatestVisit`.
* `plugin.ts` calls the payload verification outside the `try` that answers with a
  fatal frame (104-220); an invalid payload ends the plugin without one. The line cap
  is applied to what is buffered, whatever newlines it contains (`host.ts:290-306`).
  A queued result that names the next request is accepted as its answer
  (`host.ts:357`, modelled by `TakeQueued`). No listener handles the `error` event of
  a plugin process.
* Like the duplicate check, the checks that the session is open and that no later
  action hit the entity are not repeated after the awaits: a persistence record may be
  issued under a session that is sealed by then (`server.ts:5200`, against 4727: "late
  submissions after session close are rejected"), and after a later action on the
  entity (against 5046).
* A pre-observation is not bound to a session; a read under another session may
  consume it (`server.ts:5077-5095`, against 5249-5251: "the persistence read later
  consumes them under the same session").
* The pre-observation of an engine action is taken before the `try`, so its failure
  leaves the interval open until the session's next action (`server.ts:2312`, against
  2394-2396: "a failed action never leaves a dangling interval").
* A call of the drain that times out counts as answered although the witness goes on
  probing (`drain.ts:636`: "The witness has now answered this intent either way"); a
  test that waits may then mutate before its probe, and a probe may be overtaken. The
  second delivery of a repeated line (`spool.ts:449`) counts too and releases a waiter
  one intent early. `expired` and `repeated` except these.
* A re-open parked behind a close of the same session answers 200 with the view of
  a session that is sealed by then (`server.ts:4096`, against 4094-4095).
  `ViewIsOfReadySession` is the part that does hold.
* A matched exchange may be consumed by `/witness/http-observation` during the
  finalize's adapter read, so two records rest on one exchange (`server.ts:6429`,
  against "consumed single-use" at 5980). Same cause as the first entry.
* Proxied requests accepted before a release complete under the ended session
  (`server.ts:4646`, against 4644-4645).
* A re-delivered close issues a second exchanges record (`server.ts:4382`, against
  1513).
* An observer whose attach completes after the end of its session stays attached
  until shutdown (`page-observer-registration.ts:146`, against `server.ts:1496`).
* A trailing line that happens to be complete JSON without its newline is
  delivered, and again with it (`spool.ts:250`, against 218). `EventsOnce` excepts
  torn reads for that reason, and the drain's properties hold with repeated lines.
* A begin after a recorded outcome is ignored (`drain.ts:339`, against 337-338).
* A failed release frees the drain's slot (`drain.ts:523`, against 472-473).
* A queued begin that the witness refuses leaves the begins behind it queued until
  the next event of their worker (`drain.ts:413`, against 227-229).
* The staged gate copies its state directory back without deleting, so a receipt
  revoked in the staged copy survives in the checkout
  (`cli/src/commands/pre-commit.ts:372`, against `cli/src/state.ts:695-697`).

### Bounds, and why they are enough

* *Sessions*: everything the handlers compare is either one session with itself or
  the two sessions that meet in a slot. Two sessions, two workers and a parked
  request give every such meeting. The proofs cover all other sizes.
* *Evidence*: intervals, consumption and finalize of a session read only exchanges
  that its own port took in; two exchanges and two intervals are what an order or an
  overlap needs. Two sessions exceed what TLC finishes (more than 30 million
  states), so the separation of sessions is left to the proofs:
  `EvidenceOfItsSession` and the invariant `Credits` hold for any number of them.
* *Page observation*: two observers for one session or one each for two.
* *Persistence reads*: three requests are an action and two reads, or two actions and
  a read, or a pre-observation and two reads; each guard compares at most two of them
  and the entity. Sessions meet only through the pre-observations (see above).
* *Spool*: the third poll of a file is in the situation of the second.
* *Drain*: two tests in a row on a worker are the shortest run in which a line of the
  first can meet the second; two disturbances let one fault meet the recovery from
  another. A reporter has a queue behind one worker's slot or two workers at once: the
  drain keeps its slots and queues per worker, and the workers meet in the order of the
  spool and of the chain. Both at once, with two disturbances, is more than TLC finishes
  in a few minutes; `SpoolDrainLive` has both with one. The proofs have no bound.
* *Gate*: `RunCost` counts a start as two events, so `MaxEvents = 5` allows two runs
  and one outside event, or one run and three: an edit away and back, an edit
  between two reads, a push between read and swap. Three trees under two revisions
  separate "other bytes" from "other policy". The proofs have no such bound.

* *Plugin*: two discovers let an answer of the first meet the second; four stray
  frames reach every read with one frame queued before it. The proofs have no bound.
* *Reseal*: two files of which one imports the other are the least in which the
  affected set is more than the change and less than all. Four runs give a parent, two
  consecutive re-seals (the bound `MaxHops = 2` is met) and one more; the death shares
  the budget of the runs. More runs exceed what TLC finishes.
* *Verdict*: each lane has one record of every kind it reads, one more per way to spoil
  the proof (another session, entity, value, test, tier, channel, order), and six
  changes: the longest proof takes four records and a declaration.

Symmetry is used for exchanges, observers and sessions, runs and trees of one
revision: no definition distinguishes them. No run with a liveness property uses
symmetry.

`SpoolDrain` has a view, `Relevant`, which halves its states. Two states with one view
take the same steps to states with one view, and its invariants and the refinement say
the same of both: the view leaves out only what no later guard and none of these
properties reads (lines past the offset, the event of a handler that is done, the
runner's progress once it is dead, `begunTests` once a conflict is excused, `minted`).
`RunIsSealed` reads the whole spool, so `SpoolDrainLive` has no view; without the view
`SpoolDrain` passes as well. A property that is added to its configuration needs
the VIEW line taken out.

### Fairness

* `WitnessSessions!Fairness`: microtasks run (the event loop never starves them), and
  an open's own awaits settle because listening ends with a success or an error and
  snapshot reads carry the adapter timeout. No request is assumed to arrive.
* `Spool!FairSpoolSpec`: the drain polls on a timer, and a runner finishes the append it
  began.
* `SpoolDrain!FairSpec`: weak fairness of the drain as one process (its timer, its
  promise chains and the timeouts of its client) and of the runner's exit: the
  supervised run kills a runner in which no test finishes for the stall bound
  (`discovery/supervised-run.ts:568-586`), and the expected set is finite. No single
  event or call is assumed to succeed.
* `PluginSession!FairSpec`: weak fairness of the host's events (a chunk that arrived is
  delivered, a killed process dies and its streams end), of its timers, and of the
  client, which reaches its `finally`. Nothing is assumed of the plugin.

## 4. Proofs

TLAPS proves these for every value of the constants that satisfies the named
assumptions.

| Theorem | States |
|---|---|
| `SessionsTypeCorrect` | `TypeOK` of `WitnessSessions` |
| `OneOpenSessionPerWorker` | `SlotIsTheOpenSession` |
| `NoHalfOpenCredential` | `HandedOutOnlyWhenReady` |
| `SealLeavesNothing` | `EndedLeavesNothing` |
| `DeadOpenLeaksNothing` | `DeadOpenLeavesNothing` |
| `RecordsAreBound` | `RecordsBindToSession` |
| `SealingIsFinal` | `IrrevocableProp` |
| `ViewsAreReady` | `ViewIsOfReadySession` |
| `GateTypeCorrect` | `TypeOK` of `GateCommit` |
| `SealsTestedBytes` | `SealedBytesWereTested` |
| `CommitsUnderPolicy` | `CommittedUnderItsPolicy` |
| `LandsOnce` | `ReceiptLandsOnce` |
| `RevocationHolds` | `RevokedStaysRevoked` |
| `ReceiptsAreProven` | `SealedIsProven` of `Reseal` |
| `SealedIsRecomputed` | `SealedRecomputes` of `Reseal` |
| `AcceptedReceiptsAreProven` | `AcceptedIsProven`: what the consumer accepts as re-sealed was tested, file by file |
| `SessionTypeCorrect` | `TypeOK` of `PluginSession` |
| `SessionImplementsCalls` | `ImplementsCalls`: `PluginSession` implements `PluginCalls` |
| `KilledIsSilent` | `KilledAnswersNothing` |
| `HonestPluginsNeverFail` | `HonestPluginsPass` |
| `ReadsTypeCorrect` | `TypeOK` of `PersistenceReads` |
| `ReadsUsedOnce` | `UsedOnce` |
| `ReadsInOrder` | `ReadsSurroundTheMutation` |
| `ReadsBeforeMutation` | `MutatesAfterProbe` |
| `SpoolTypeCorrect` | `SpoolTypeOK` of `Spool` |
| `SpoolNothingSkipped` | `NothingSkipped` |
| `SpoolEventsOnce` | `EventsOnce` |
| `PageTypeCorrect` | `TypeOK` of `PageObservation` |
| `PageKeptMeansPassed` | `KeptMeansPassed` |
| `PageKeptForGood` | `KeptForGood` |
| `EvidenceTypeCorrect` | `TypeOK` of `WitnessEvidence` |
| `EvidenceOfItsContext` | `ContextPrecedesEvidence` |
| `EvidenceOfItsSession` | `RequestsWithinOwnIntervals` |
| `TransportComplete` | `TransportSeesConsumed` |
| `ExchangesOfPassed` | `ExchangesOfPassedOnly` |
| `DrainTypeCorrect` | `TypeOK` of `SpoolDrain` |
| `DrainImplements` | `ImplementsSupervision`: `SpoolDrain` implements `Supervision` |
| `DrainOpensOnce` | `OneSessionPerTest`: the witness counts one session for a test (no run repeats it, `ImplementsSupervision` says more) |
| `DrainTellsTheOutcome` | `OutcomeIsTheRunners` |
| `DrainFinalizesFirst` | `FinalizeBeforeSeal` |
| `DrainFindsTheSlot` | `NextTestFindsItsSlot` |
| `DrainStopsClean` | `StopLeavesNothingOpen` |
| `GenuineRunsAreAccepted` | `GenuineRunsDoNotConflict` |
| `VerdictIsOfTheInputs` | `VerdictInv`: the verdict is the evaluation of the inputs as they are |
| `CitedRecordsAlwaysProve` | `CitedRecordsProve` |
| `OneSessionAlwaysProves` | `OneSessionProves` |
| `PageIsAlwaysByLatestVisit` | `PageIsByLatestVisit` |
| `NothingElseEverUnblocks` | `NothingElseUnblocks` |

**Assumptions.** `SessionsAssumption`: the expected, raw-twin and observed tests are
subsets, `NULL` is none of the values it stands beside. `GateAssumption`: every tree
has one policy revision, `NULL` is none of the values. `NoReceiptIsNull`: the absent
receipt is no receipt. `PluginAssumption`: the bounds are natural numbers.
`ReadsAssumption`: the patient tests are tests, `NULL` is neither an entity nor a
session. `SpoolAssumption`: there is a line, and an append writes at least one cell.
`DrainAssumption`: in a run a test has one place, and `NULL` is neither a test nor an
outcome. `PageAssumption`, `EvidenceAssumption`: the bounds are natural numbers, `NULL` is none
of the values it stands beside. `ResealAssumption`: the tests that prove are among the
files, importing maps test files to test files and is reflexive and transitive, the
application is no test file, and a chain may have a hop. `VerdictAssumption`: a record that may be issued has its label,
its place, a test, a session and a sequence number. Nothing else is assumed; in
particular the number of sessions, runs, brokers, trees, events, requests, intents,
obligations and records is free.

**The argument for the sessions.** None of the session properties is inductive. The
close handler deletes a worker's slot without looking at the session it names
(`server.ts:4401`), so `SlotIsTheOpenSession` survives only if a session that is open
and registered always owns the slot of its worker; a waiter that wakes relies on the
gate of its session being settled. `SessionInv` therefore adds to the safety
properties `Lifecycle` (which combinations of status, stage, registration, channel
and snapshots exist) and `Gates` (a parked request waits for a session whose gate is
unsettled, a woken one for a settled one). The proof has one lemma per group of
handlers and one step per conjunct that an action disturbs. The action properties
follow from the invariant and the step.

**The argument for the gate.** A run may read seven different workspaces. `Steady`
captures why that is harmless: as long as the workspace holds the inventoried bytes,
or held them when the inputs were compared after the suite, and they never left and
came back in between, all reads so far were of the inventoried tree (`LocalInv`).
`returned` is the history variable for that exception: a workspace that is changed
and restored between two reads is invisible to every comparison the code makes, and
the theorem says that this is the only way a receipt can stand for bytes that were
not tested. `InForce` ties every copy of a receipt (state directory, a run's
result, a broker, a commit) to the run that sealed it; `BrokerInv` says what a broker
has compared when it holds one, `CommitInv` what that leaves on the ref. `LandsOnce`
needs all three: two commits by one run's receipt bind the same parent, and a commit
sits at the position after its parent. `RevocationHolds` needs that a revoked run
has already ended and cannot seal again.

**The argument for the plugin session.** That a step of the session is a step of the
contract needs to know where the two counters stand: `CallsInv` says that outside a
`discover` every request has been answered, inside one the last has not, that a
session ends cleanly or is let go of only after the process was seen to exit, and that
a read is pending only while the client is in one. `ReceiveStep` and
`ReceiveImplements` state once what the continuation of a read does; the events that
settle reads cite them. `KilledIsSilent` uses that a killed session is closed and that
a closed session reads nothing.

**The argument for the reads.** A record is written at the end of a handler that began
several awaits earlier, so neither property follows from the step that writes it.
`UseInv` follows a pre-observation along its life: while it is unused it is of a read
that is over and there is one of each read (`Unused`); a request that has taken it is
the only one to hold it (`Held`); a record is of one finished request and what an
intent consumed is gone (`Accounts`); the witness has accepted a sequence number of a
claim once, because it compares and stores it before its first await (`Accepted`).
`OrderInv` needs no fact about the order in which handlers run, only that nothing was
seen in the future (`Past`), that a before entered its request before the request was
answered (`BeforeAfter`), that an interval that has ended is never touched again
(`Anchored`, `IntervalStep`), and, on the server channel, that the drain's call is the
only intent under way (`Alone`): this is what a timed-out call breaks, and why the
property excepts it. `ProbeInv` is the hand-shake of a test that awaits its intent:
the drain counts answers, not intents, so it must be shown that the lines passed on
are a prefix of the file, that every line passed on is one call or one answer
(`DrainInv`), and that the witness never refuses one of them, which holds because the
sequence numbers of a claim rise along the file (`FileInv`).

**The argument for the spool.** A poll reads at least what it measured (`Measured`),
so neither offset passes the last newline it read (`NextOffsets`): a line that starts
before the new offset was complete and has been parsed. Once its text was complete
without its newline it may be handed over twice; `EventsInStep` says that until a
poll meets such a line the events offset is a line boundary and exactly the lines
before it were handed over.

**The argument for the pages.** A record is kept for good by a seal under outcome
"passed", and the outcome may be reported between the release, its awaited proxy and
the seal. `OpenUndecided` (no outcome before the release) and `Registered` (an idle
observer belongs to no session and has seen nothing) are what each step preserves;
`SealedRecords` says what one seal does to all records of its session.

**The argument for the evidence.** The run context is bound only while nothing is in
flight and nothing observed is held, so an exchange that completes past the watermark
began under the context. `OldIsBehind` says so for what is in flight and what is
observed, and `Credits` carries it to everything a finalize, a seal or a record has
picked: completed, of its own session, and fresh. `Clocked` (nothing carries a
time ahead of the clock) makes intervals that open later disjoint from those that are
there (`IntervalsDisjoint`) and keeps a request out of intervals that opened after it
completed. `Finalizing` and `Walking` follow a finalize across its awaited adapter
read: until its persistence claim is resolved, its snapshot contains every exchange of
the session with a number up to its watermark `upto`, which is what makes the
transport record, issued before, cover what the persistence record consumes after.

**The argument for the drain.** Lines are lost, repeated and late, calls are lost before
or after they took effect, and two handlers (events and the outcome chain) call the
witness in between each other; so nothing follows from a single handler. `Lines` says
that whatever is on its way (in the file, the queues, the chain, the current handler) was
true when the runner wrote it and is true for good, since the reporter gives a test one
outcome (`Reported`). `Slots` says what the witness holds, `Held` and `Handling` what the
drain believes of it. The centre is `OverWhenClosed`: a session that has ended belongs to
a lifecycle that the drain takes for over (ended, released, or stopped), and by
`OverStays` none is ever taken up again; an open that reaches the witness, also the
second attempt after a lost answer, therefore finds a test that has had no session or
still has its first. `Released` makes the outcome chain harmless: it only meets sessions
that were released and are not sealed. `InStep` (until a call is lost, witness and drain
agree on every slot) and `Stopped` give the two properties about slots. That each step is
one of `Supervision` then needs only `Stating`: a seal under way has an outcome to state,
`stop` begins after the runner's exit, and a session has no outcome before it ends.

**The argument for genuine runs.** A conflict is raised by one line, but whether that line
conflicts depends on which lines came before it, from two writers and through a queue.
`Written` and `Ordered` say of the file of an undisturbed run that it has what its
leading writer wrote, an opening before each end, and the ends of a worker's tests
before the opening of its next. `InOrder` says that the drain takes the lines in file
order, some perhaps twice in a row: `src` maps its queue into the file, and the
drain has taken note of every line before (`Noted`). `Lifecycles` is what the drain then
knows: no expected test waits for another (`NoneWaits`), one that has begun is being
opened, open or ended (`Followed`), it began after the ends of all before it (`InTurn`),
and an outcome is awaited only of a test that its worker ended (`Awaited`). So every line
finds its test where a genuine run would have it, and a repeated one finds its own effect.

**The argument for an honest plugin.** `Exchange` says that one frame at most is on its
way between the host and the plugin, in the one direction or the other, and that it is
the one the host waits for; only the `ready` of the handshake may still lie before a
request. It has a conjunct for each call, and a step moves from one to the next. What can
end such a session early is a watchdog, a frame out of turn, or a plugin that
declines the call, and the property names all three.

**The argument for the re-seal.** Nothing is assumed of the directory but that its receipt
is of a run, and its record of a full one (`Standing`): files of two generations, hidden
hops and copied-back chains are all allowed. The induction is over the history: what a
run did not execute itself was proven for its tree by other runs when it started
(`Vouches`), because the affected set is closed under imports and a re-seal is refused
unless everything outside it passed in the parent; the tree does not move between the
start of a run and its end, and a run in the history stays. `AcceptedIsProven` needs no premise
about softened failures, as the walk itself checks at the first hop that the child's tests
passed. A full receipt is accepted without that check (`SealedMeansClean`, section 3).

**The argument for the retained chain.** `SealedIsRecomputed` is the converse: what a
re-seal left is accepted. Here the directory matters, so `ChainInv` says of its hops what
`ResealInv` leaves open. While no run has ended on a chain it neither finished nor
cleared (`residue`), the hops lead from the receipt through its parents to a full run,
each hop holding the documents of one parent and the catalog of its child (`Links`), with
the evidence and the number of carried tests of the run (`Sealed`); together they are
`Chained`. A job that is under way has opened a first hop whose parent is the one it
decided for, before a chain that is as the parent left it (`Resealing`, `OpenedBy`), and
has recorded what it ran (`Executed`). A re-sealed receipt is never without a chain
(`ChainKept`), and the receipt of the last run has its execution result and its evidence
(`Finished`). Two facts carry the rest. The gate carries, hop by hop, what no run nearer to it has re-run, and the consumer
what is neither affected nor re-run: two ways of dividing the same files, and both unions
are all files that the run did not execute (`GateCarries`, `WalkCarries`). Hence the
tests they count are the same set of outcomes (`PartedOutcomes`), and no sum has to be
taken. And the runs of a chain are older than the run that re-seals (`docs[i] < docs[0]`),
which separates its own evidence from what it carries. The first hop that brings
a file in, and the last one that is read, are least and greatest numbers (`WFMin`).

**The argument for the verdict.** The evaluator makes its checks in order and picks records
by `find`, by label or in a loop. Each grade is first shown to equal a formula over the set
of records (`SessionGrade`, `BrowserGrade`, `PageGrade`, and so on). The records a satisfied grade cites are
then shown to satisfy the formula alone, which is not obvious wherever the code counts
competitors, since fewer records may change which one is first (`FirstOfFewer`). The page
loop is a recursive function; what it knows at each step (`TrackKnows`, `LoopKnows`) is
proved by a least counterexample (`WFMin` on the natural numbers), since the induction
rules themselves are not available here. `NothingElseEverUnblocks` compares two states:
a record that the witness did not issue leaves every formula as it was (`CrudUnwitnessed`,
`PersistenceUnwitnessed`, `PageUnwitnessed`) and waivers only fade (`WaiversOnlyFade`).

**Only model-checked.** Liveness (`NoRequestHangs`, `EveryLineDelivered`,
`RunIsSealed`, `EveryUseEnds`) and anything about `ENABLED` is outside what the prover
handles. Every safety invariant and every action property of the passing runs has a
theorem, and so have both refinements.

## 5. Not modelled

* Detection packs, HTTP contract, classifier, mapping, graph, report, configuration:
  pure transformation of data, without order or concurrency.
* Engine browser, adapters, attestation proxy, discovery, fixture, Cypress plugin,
  loaders, CLI glue: I/O and parsing around the parts that are modelled.
* In `WitnessSessions`: registration of the expected set and of page origins.
* In `WitnessEvidence`: behaviour evidence, chaos twins.
* In `PersistenceReads`: engine actions that take no pre-observation, intervals and
  `ui.action` records claimed by the suite, visible-result reads, what an adapter
  returns, the checks of an intent's fields, the bound of `whenIntentsForwarded`.
* In `SpoolDrain`: the freeze audit.
* In `GateCommit`: changed scope and carried-forward results, re-seal (which `Reseal`
  has, without the workspace that moves under a run), mounted runtimes, native preparation freeze, an unavailable result snapshot, legacy test
  gates, key rotation, the execution boundary, a failing removal of the receipt. One
  walk of the workspace is one read; a walk that sees half an edit is not modelled.
* In `PluginSession`: the content of candidates and of error frames; bytes below a
  frame.
* In `Reseal`: the binding of a receipt to its commit, quarantine, owner globs, the
  tree of a preparation, the reuse path, docs-only and carry-forward receipts. The
  recursive removal of a directory and the writing of one file are atomic.
* In `Verdict`: required behaviour cases, the HTTP and auth pack verifiers, policy,
  baselines, quarantine, and the wording of reasons.
* What the definitions translate is a small share of the repository by lines; most of
  the rest is detectors, parsers, discovery, printing and option handling, which keep
  no state between calls.

## 6. Plan

The order follows what a wrong behaviour would cost: first what turns into evidence
or a commit.

1. Done: sessions, evidence, page observation, spool, drain and plugin session, each of
   the two with its contract and refinement, gate and broker, re-seal and its chain, the
   evaluator, persistence reads; proofs for all of them.
2. `SpoolDrain`: the freeze audit; `PersistenceReads` composed with `WitnessEvidence`,
   so that one interval serves exchanges and reads.
3. `GateCommit`: the staged pre-commit gate, `check --require-e2e`, key rotation.
4. Policy, baselines, quarantine and the behaviour cases as inputs of `Verdict`.

## 7. Checking

    tlc -workers 2 -config WitnessSessions.cfg MCWitnessSessions
    tlapm WitnessSessionsProofs.tla

The module and configuration of each run are in `PROJECT.json`.

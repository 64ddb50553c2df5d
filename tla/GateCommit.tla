----------------------------- MODULE GateCommit -----------------------------
(* How a workspace becomes a commit.  `gateforge test-gates` reads the       *)
(* workspace several times, runs the suite and seals a receipt in            *)
(* receipt.json; `gateforge broker commit` reads the workspace again,        *)
(* verifies that receipt and moves the authoritative ref by compare-and-     *)
(* swap.  No lock is held anywhere: runs, brokers, edits of the workspace,   *)
(* checkouts, other pushes and changes of the owner's policy pin interleave. *)
(*                                                                           *)
(* The run is a full one: no changed scope, no re-seal, no mounted runtime   *)
(* and no native preparation freeze.                                         *)
(*                                                                           *)
(* A tree stands for the bytes of the whole candidate; one walk of the       *)
(* workspace is one read of ws.  A commit is named by its position on the    *)
(* ref, 0 being "no commit" (null in the code).                              *)
EXTENDS Naturals, Sequences, FiniteSets

CONSTANTS
    Trees,        \* contents a workspace can have
    Policies,     \* policy revisions (trusted policy digests)
    PolicyOf,     \* the revision that the bytes of a tree hash to
    Strict,       \* revisions that declare enforcement.strictE2E
    Soft,         \* revisions that declare mode: warn or mode: changed
    Runs,         \* test-gates processes; each runs once
    Brokers,      \* broker processes
    NULL,
    MaxCommits,   \* bound: commits on the ref
    RunCost,      \* bound: the start of a run counts for so many events
    MaxEvents     \* bound: starts, edits, head moves, pin changes and pushes

ASSUME GateAssumption ==
    /\ PolicyOf \in [Trees -> Policies]
    /\ Strict \subseteq Policies /\ Soft \subseteq Policies
    /\ NULL \notin Trees \cup Policies \cup Runs
    /\ MaxCommits \in Nat \ {0} /\ MaxEvents \in Nat /\ RunCost \in Nat

VARIABLES
    ws,           \* bytes of the workspace
    base,         \* what `git rev-parse HEAD^` answers in it, 0 for nothing
    pin,          \* the approved digest in the environment of new processes
    run,          \* the local variables of each test-gates process
    receipt,      \* <state dir>/receipt.json, or NULL
    exec,         \* the run that wrote <state dir>/execution-result.json
    broker,       \* the local variables of each broker process
    log,          \* the commits on the authoritative ref
    revoked,      \* history: sealed receipts that a blocked run has revoked
    events        \* what has happened so far, counted up to MaxEvents

vars == <<ws, base, pin, run, receipt, exec, broker, log, revoked, events>>

Commits == 0 .. MaxCommits
Stages == {"idle", "inventory", "discovery", "digest", "freeze", "policy",
           "reuse", "suite", "post", "result", "decide", "done"}

\* What a receipt binds: run (with its execution result), tree, input digest,
\* policy revision, approved revision, parent.  The rest is history: what the
\* suite read, whether grading blocked, and whether the workspace came back to
\* the inventoried bytes during the run.
Receipts == [run : Runs, tree : Trees, input : Trees, policy : Policies,
             approved : Policies \cup {NULL}, parent : Commits,
             ran : SUBSET Trees, blocked : BOOLEAN, returned : BOOLEAN]

ASSUME NoReceiptIsNull == NULL \notin Receipts

RunStates == [pc : Stages, pin : Policies \cup {NULL}, keyed : BOOLEAN,
              config : Policies \cup {NULL}, pre : Trees \cup {NULL},
              input : Trees \cup {NULL}, tree : Trees \cup {NULL},
              parent : Commits, policy : Policies \cup {NULL},
              approved : Policies \cup {NULL}, ran : SUBSET Trees,
              complete : BOOLEAN, changed : BOOLEAN, blocked : BOOLEAN,
              softened : BOOLEAN, result : Trees \cup {NULL},
              exit : {NULL, 0, 1}, cert : Receipts \cup {NULL},
              returned : BOOLEAN]

BrokerStates == [pc : {"idle", "tree", "verify", "parent", "update"},
                 pin : Policies \cup {NULL}, policy : Policies \cup {NULL},
                 tree : Trees \cup {NULL}, held : Receipts \cup {NULL},
                 parent : Commits]

\* A commit that no broker made.
Foreign(n) == [tree |-> NULL, parent |-> n, pin |-> NULL, policy |-> NULL,
               by |-> NULL]

LogEntries == [tree : Trees \cup {NULL}, parent : Commits,
               pin : Policies \cup {NULL}, policy : Policies \cup {NULL},
               by : Receipts \cup {NULL}]

TypeOK ==
    /\ ws \in Trees /\ base \in Commits /\ pin \in Policies \cup {NULL}
    /\ run \in [Runs -> RunStates]
    /\ receipt \in Receipts \cup {NULL}
    /\ exec \in Runs \cup {NULL}
    /\ broker \in [Brokers -> BrokerStates]
    /\ log \in Seq(LogEntries) /\ Len(log) <= MaxCommits
    /\ revoked \subseteq Runs /\ events \in 0 .. MaxEvents

NewRun == [pc |-> "idle", pin |-> NULL, keyed |-> FALSE, config |-> NULL,
           pre |-> NULL, input |-> NULL, tree |-> NULL, parent |-> 0,
           policy |-> NULL, approved |-> NULL, ran |-> {}, complete |-> FALSE,
           changed |-> FALSE, blocked |-> FALSE, softened |-> FALSE,
           result |-> NULL, exit |-> NULL, cert |-> NULL, returned |-> FALSE]

NewBroker == [pc |-> "idle", pin |-> NULL, policy |-> NULL, tree |-> NULL,
              held |-> NULL, parent |-> 0]

\* The ref is unborn or has a first commit, which HEAD may sit on.
Init ==
    /\ ws \in Trees /\ pin \in Policies \cup {NULL}
    /\ log \in {<<>>, <<Foreign(0)>>} /\ base \in 0 .. Len(log)
    /\ run = [r \in Runs |-> NewRun]
    /\ receipt = NULL /\ exec = NULL
    /\ broker = [b \in Brokers |-> NewBroker]
    /\ revoked = {} /\ events = 0

\* The bound of the model.
Count(n) == events + n <= MaxEvents /\ events' = events + n

-----------------------------------------------------------------------------
(* The owner-approved policy pin (trusted-policy.ts).                        *)

\* evaluateApprovedPolicy: a pin binds every revision; without one, only a
\* configuration that demands it is blocked.
PinBlocks(approved, digest, demanded) ==
    IF approved = NULL THEN demanded ELSE approved # digest

\* assertReceiptApprovedPolicy, demanded only under a pin.
ReceiptBindsPin(rcpt, approved) == approved # NULL => rcpt.approved = approved

-----------------------------------------------------------------------------
(* gateforge test-gates, one step for each time it reads the workspace.      *)

Elsewhere == UNCHANGED <<ws, base, pin, broker, log, events>>
Quiet == Elsewhere /\ UNCHANGED <<receipt, exec, revoked>>

\* The runs that have sealed a receipt.
Sealers == {r \in Runs : run[r].cert # NULL /\ run[r].cert.run = r}

\* Mutant: a removal that fails goes unnoticed.
ClearGateReceiptKept == UNCHANGED receipt /\ revoked' = revoked \cup Sealers

\* clearGateReceipt: whatever was sealed so far must not count any more.
ClearGateReceipt == receipt' = NULL /\ revoked' = revoked \cup Sealers

Becomes(r, q) == run' = [run EXCEPT ![r] = q]

\* The process ends and its variables with it, but for what the run was about.
Ends(r, code, rcpt) ==
    Becomes(r, [NewRun EXCEPT !.pc = "done", !.exit = code, !.cert = rcpt,
                              !.parent = run[r].parent])

\* The process starts: its environment (pin, verifier key) is fixed and the
\* configuration, with its strictness mode, is loaded.
Start(r, keyed) ==
    /\ run[r].pc = "idle"
    /\ Becomes(r, [run[r] EXCEPT !.pc = "inventory", !.pin = pin,
                                 !.keyed = keyed, !.config = PolicyOf[ws]])
    /\ Count(RunCost)
    /\ UNCHANGED <<ws, base, pin, receipt, exec, broker, log, revoked>>

\* preFiles: the input files before discovery.
Inventory(r) ==
    /\ run[r].pc = "inventory"
    /\ Becomes(r, [run[r] EXCEPT !.pc = "discovery", !.pre = ws])
    /\ Quiet

\* postDiscovery: drift around the pipeline throws; receipt.json stays.
PostDiscovery(r) ==
    /\ run[r].pc = "discovery"
    /\ IF ws = run[r].pre
         THEN Becomes(r, [run[r] EXCEPT !.pc = "digest"])
         ELSE Ends(r, 1, NULL)
    /\ Quiet

\* computeInputSnapshot walks the files once more for the input digest.
Digest(r) ==
    /\ run[r].pc = "digest"
    /\ Becomes(r, [run[r] EXCEPT !.pc = "freeze", !.input = ws])
    /\ Quiet

\* The candidate tree and its parent are pinned before the suite.
Freeze(r) ==
    /\ run[r].pc = "freeze"
    /\ Becomes(r, [run[r] EXCEPT !.pc = "policy", !.tree = ws, !.parent = base])
    /\ Quiet

\* The policy digest is hashed and held against the pin; a blocked revision
\* revokes the receipt and ends the run.
Policy(r) ==
    /\ run[r].pc = "policy"
    /\ LET digest == PolicyOf[ws]
       IN IF PinBlocks(run[r].pin, digest, run[r].config \in Strict)
            THEN /\ Ends(r, 1, NULL)
                 /\ ClearGateReceipt
            ELSE /\ Becomes(r, [run[r] EXCEPT !.pc = "reuse", !.policy = digest,
                                              !.approved = run[r].pin])
                 /\ UNCHANGED <<receipt, revoked>>
    /\ UNCHANGED exec /\ Elsewhere

\* tryReuseReceipt: the receipt in the state directory authenticates, binds the
\* input, the policy and the frozen tree of this run, and the execution result
\* beside it is the one it was sealed over.
Reusable(r) ==
    /\ receipt # NULL /\ run[r].keyed
    /\ receipt.input = run[r].input /\ receipt.policy = run[r].policy
    /\ receipt.tree = run[r].tree
    /\ receipt.run = exec

\* A reusable receipt answers for this run (grading it again may block), unless
\* it does not bind the pin; otherwise the suite is executed.
Reuse(r) ==
    /\ run[r].pc = "reuse"
    /\ \/ /\ ~Reusable(r)
          /\ Becomes(r, [run[r] EXCEPT !.pc = "suite"])
       \/ /\ Reusable(r) /\ ~ReceiptBindsPin(receipt, run[r].approved)
          /\ Ends(r, 1, NULL)
       \/ /\ Reusable(r) /\ ReceiptBindsPin(receipt, run[r].approved)
          /\ Ends(r, 0, receipt) \/ Ends(r, 1, NULL)
    /\ Quiet

\* A test of the suite executes against the bytes then in the workspace.
RunTest(r) ==
    /\ run[r].pc = "suite" /\ ws \notin run[r].ran
    /\ Becomes(r, [run[r] EXCEPT !.ran = @ \cup {ws}])
    /\ Quiet

\* The runner ends; the supervised result, complete or not, replaces
\* execution-result.json.
SuiteEnds(r, complete) ==
    /\ run[r].pc = "suite" /\ run[r].ran # {}
    /\ Becomes(r, [run[r] EXCEPT !.pc = "post", !.complete = complete])
    /\ exec' = r
    /\ UNCHANGED <<receipt, revoked>> /\ Elsewhere

\* Mutant: the input files are not compared after the suite.
PostSuiteUncompared(r, blocked, softened) ==
    /\ run[r].pc = "post"
    /\ ~run[r].complete => blocked
    /\ softened => blocked /\ run[r].config \in Soft
    /\ Becomes(r, [run[r] EXCEPT !.pc = "result", !.blocked = blocked,
                                 !.softened = softened])
    /\ Quiet

\* changedInputs, then grading: an incomplete run always blocks; the mode of
\* the configuration may soften the exit code of a blocked run.
PostSuite(r, blocked, softened) ==
    /\ run[r].pc = "post"
    /\ ~run[r].complete => blocked
    /\ softened => blocked /\ run[r].config \in Soft
    /\ Becomes(r, [run[r] EXCEPT !.pc = "result", !.changed = ws # run[r].pre,
                                 !.blocked = blocked, !.softened = softened])
    /\ Quiet

\* resultTreeSnapshot: the candidate tree after the run.
ResultTree(r) ==
    /\ run[r].pc = "result"
    /\ Becomes(r, [run[r] EXCEPT !.pc = "decide", !.result = ws])
    /\ Quiet

GateCode(r) == IF run[r].blocked /\ ~run[r].softened THEN 1 ELSE 0
Unfit(r) == GateCode(r) # 0 \/ ~run[r].complete \/ run[r].changed

\* A run that may not seal revokes the receipt only when strict grading
\* blocked it and the mode did not soften that.
Refuse(r) ==
    /\ run[r].pc = "decide" /\ Unfit(r)
    /\ Ends(r, 1, NULL)
    /\ IF run[r].blocked /\ ~run[r].softened
         THEN ClearGateReceipt ELSE UNCHANGED <<receipt, revoked>>
    /\ UNCHANGED exec /\ Elsewhere

\* The workspace is not the tested tree any more: nothing is reported.
Drifted(r) ==
    /\ run[r].pc = "decide" /\ ~Unfit(r) /\ run[r].result # run[r].tree
    /\ Ends(r, 1, NULL) /\ Quiet

\* Without a verifier key nothing can be signed.
Unsigned(r) ==
    /\ run[r].pc = "decide" /\ ~Unfit(r) /\ run[r].result = run[r].tree
    /\ ~run[r].keyed
    /\ Ends(r, GateCode(r), NULL) /\ ClearGateReceipt
    /\ UNCHANGED exec /\ Elsewhere

\* Mutant: the approved revision is sealed where the policy revision belongs.
IssuedForPin(r) ==
    [run |-> r, tree |-> run[r].result, input |-> run[r].input,
     policy |-> run[r].approved, approved |-> run[r].approved,
     parent |-> run[r].parent, ran |-> run[r].ran,
     blocked |-> run[r].blocked, returned |-> run[r].returned]

\* issueGateReceipt: the receipt binds the tree recomputed at the end.
Issued(r) ==
    [run |-> r, tree |-> run[r].result, input |-> run[r].input,
     policy |-> run[r].policy, approved |-> run[r].approved,
     parent |-> run[r].parent, ran |-> run[r].ran,
     blocked |-> run[r].blocked, returned |-> run[r].returned]

Seal(r) ==
    /\ run[r].pc = "decide" /\ ~Unfit(r) /\ run[r].result = run[r].tree
    /\ run[r].keyed
    /\ receipt' = Issued(r)
    /\ Ends(r, 0, Issued(r))
    /\ UNCHANGED <<exec, revoked>> /\ Elsewhere

TestGates(r) ==
    \/ \E keyed \in BOOLEAN : Start(r, keyed)
    \/ Inventory(r) \/ PostDiscovery(r) \/ Digest(r) \/ Freeze(r) \/ Policy(r)
    \/ Reuse(r) \/ RunTest(r)
    \/ \E complete \in BOOLEAN : SuiteEnds(r, complete)
    \/ \E blocked, softened \in BOOLEAN : PostSuite(r, blocked, softened)
    \/ ResultTree(r) \/ Refuse(r) \/ Drifted(r) \/ Unsigned(r) \/ Seal(r)

-----------------------------------------------------------------------------
(* gateforge broker commit, run by the authority beside the workspace.       *)

OnlyBroker == UNCHANGED <<ws, base, pin, run, receipt, exec, log, revoked, events>>
Reject(b) == broker' = [broker EXCEPT ![b] = NewBroker]

\* recomputeWorkspaceDigests: the policy revision of the workspace.
BrokerPolicy(b) ==
    /\ broker[b].pc = "idle"
    /\ broker' = [broker EXCEPT ![b] = [@ EXCEPT !.pc = "tree", !.pin = pin,
                                                 !.policy = PolicyOf[ws]]]
    /\ OnlyBroker

\* computeCandidateTreeId: the bytes that would be committed.
BrokerTree(b) ==
    /\ broker[b].pc = "tree"
    /\ broker' = [broker EXCEPT ![b] = [@ EXCEPT !.pc = "verify", !.tree = ws]]
    /\ OnlyBroker

\* Mutant: the revision that the receipt binds is not compared.
ReceiptVerifiesTree(b) ==
    /\ receipt # NULL
    /\ receipt.tree = broker[b].tree
    /\ ReceiptBindsPin(receipt, broker[b].pin)

\* The receipt authenticates and is for exactly this tree and this revision.
ReceiptVerifies(b) ==
    /\ receipt # NULL
    /\ receipt.tree = broker[b].tree /\ receipt.policy = broker[b].policy
    /\ ReceiptBindsPin(receipt, broker[b].pin)

\* The pin gate, then the receipt, read from the state directory and held.
BrokerVerify(b) ==
    /\ broker[b].pc = "verify"
    /\ IF \/ PinBlocks(broker[b].pin, broker[b].policy, broker[b].policy \in Strict)
          \/ ~ReceiptVerifies(b)
         THEN Reject(b)
         ELSE broker' = [broker EXCEPT ![b] = [@ EXCEPT !.pc = "parent",
                                                        !.held = receipt]]
    /\ OnlyBroker

\* The expected parent is read; a parent the receipt binds must agree.
BrokerParent(b) ==
    /\ broker[b].pc = "parent"
    /\ IF broker[b].held.parent # 0 /\ broker[b].held.parent # Len(log)
         THEN Reject(b)
         ELSE broker' = [broker EXCEPT ![b] = [@ EXCEPT !.pc = "update",
                                                        !.parent = Len(log)]]
    /\ OnlyBroker

\* Mutant: update-ref without the old value.
RefAnywhere(parent) == TRUE

\* update-ref moves the ref only from the value that was read.
RefStillAt(parent) == Len(log) = parent

\* commit-tree and the compare-and-swap.
BrokerUpdate(b) ==
    /\ broker[b].pc = "update"
    /\ Reject(b)
    /\ \/ /\ ~RefStillAt(broker[b].parent) /\ UNCHANGED log
       \/ /\ RefStillAt(broker[b].parent) /\ Len(log) < MaxCommits
          /\ log' = Append(log, [tree |-> broker[b].tree,
                                 parent |-> broker[b].parent,
                                 pin |-> broker[b].pin,
                                 policy |-> broker[b].policy,
                                 by |-> broker[b].held])
    /\ UNCHANGED <<ws, base, pin, run, receipt, exec, revoked, events>>

BrokerCommit(b) ==
    \/ BrokerPolicy(b) \/ BrokerTree(b) \/ BrokerVerify(b) \/ BrokerParent(b)
    \/ BrokerUpdate(b)

-----------------------------------------------------------------------------
(* Everyone else.                                                            *)

Inside == {"discovery", "digest", "freeze", "policy", "reuse", "suite", "post"}

\* The agent, an editor or the application under test changes the workspace.
\* History: a run remembers that the bytes it inventoried came back meanwhile.
Edit(t) ==
    /\ Count(1)
    /\ t # ws
    /\ ws' = t
    /\ run' = [r \in Runs |->
                 [run[r] EXCEPT !.returned =
                    @ \/ (run[r].pc \in Inside /\ run[r].pre = t)]]
    /\ UNCHANGED <<base, pin, receipt, exec, broker, log, revoked>>

\* A commit, a fetch or a checkout in the workspace gives HEAD another parent.
MoveHead(n) ==
    /\ Count(1)
    /\ n \in 0 .. Len(log) /\ n # base
    /\ base' = n
    /\ UNCHANGED <<ws, pin, run, receipt, exec, broker, log, revoked>>

\* The owner provisions another approved revision, or none.
SetPin(p) ==
    /\ Count(1)
    /\ p # pin
    /\ pin' = p
    /\ UNCHANGED <<ws, base, run, receipt, exec, broker, log, revoked>>

\* Somebody else moves the authoritative ref forward.
Push ==
    /\ Count(1)
    /\ Len(log) < MaxCommits
    /\ log' = Append(log, Foreign(Len(log)))
    /\ UNCHANGED <<ws, base, pin, run, receipt, exec, broker, revoked>>

Next ==
    \/ \E r \in Runs : TestGates(r)
    \/ \E b \in Brokers : BrokerCommit(b)
    \/ \E t \in Trees : Edit(t)
    \/ \E n \in Commits : MoveHead(n)
    \/ \E p \in Policies \cup {NULL} : SetPin(p)
    \/ Push

Spec == Init /\ [][Next]_vars

-----------------------------------------------------------------------------
(* Properties.                                                               *)

\* The bytes a receipt stands for: every test of the suite read exactly the
\* sealed tree, and the input digest and the policy revision are those of that
\* tree.
OfOneTree(rcpt) ==
    /\ rcpt.ran = {rcpt.tree} /\ rcpt.input = rcpt.tree
    /\ rcpt.policy = PolicyOf[rcpt.tree]

\* A receipt that is in the state directory, or that a run passed on, is of one
\* tree although the workspace was read seven times without a lock, unless
\* the inventoried bytes left and came back while the run was going on.
SealedBytesWereTested ==
    \A rcpt \in ({receipt} \cup {run[r].cert : r \in Runs}) \ {NULL} :
        ~rcpt.returned => OfOneTree(rcpt)

\* What the broker put on the ref was tested as it stands, and the revision it
\* was accepted under (the pin, where one is provisioned) is that of the
\* committed bytes, although broker and gate each read policy and tree at
\* different times.
CommittedUnderItsPolicy ==
    \A i \in 1 .. Len(log) : log[i].by # NULL /\ ~log[i].by.returned =>
        /\ log[i].by.ran = {log[i].tree}
        /\ log[i].policy = PolicyOf[log[i].tree]
        /\ log[i].pin # NULL => log[i].pin = PolicyOf[log[i].tree]

\* A receipt that binds a parent lands at most once, and directly on that
\* parent: no second broker, no later ref and no concurrent push can make it
\* authorize another commit.
ReceiptLandsOnce ==
    \A i \in 1 .. Len(log) : log[i].by # NULL /\ log[i].by.parent # 0 =>
        /\ log[i].by.parent = i - 1
        /\ \A j \in 1 .. Len(log) : log[j].by # NULL /\ log[j].by.run = log[i].by.run => j = i

\* A receipt sealed before a blocked run cleared the state directory never
\* comes back to it, however the runs that share the directory interleave.
RevokedStaysRevoked == receipt # NULL => receipt.run \notin revoked

\* Claimed by the receipt verifier: a receipt is issued only after complete
\* success.
SealedMeansClean == receipt # NULL => ~receipt.blocked

\* Claimed by the broker's rejection of a stale base: running the gate again
\* binds the receipt to the current base.
PassBindsItsBase ==
    \A r \in Runs : run[r].cert # NULL => run[r].cert.parent = run[r].parent

-----------------------------------------------------------------------------
(* The inductive invariant behind the properties.                            *)

AfterDigest == {"freeze", "policy", "reuse", "suite", "post", "result", "decide"}
AfterFreeze == AfterDigest \ {"freeze"}
AfterPolicy == AfterFreeze \ {"policy"}
AfterSuite == {"post", "result", "decide"}

\* The workspace w has held the inventoried bytes ever since the inventory: it
\* holds them now, or held them after the suite, and they never came back.
Steady(q, w) ==
    /\ ~q.returned
    /\ \/ q.pc \in Inside /\ w = q.pre
       \/ q.pc \in {"result", "decide"} /\ ~q.changed

\* A run has the values its stage implies, and as long as the workspace is
\* steady all of them are of the inventoried tree.
LocalInv(q, w) ==
    /\ q.pc \in Inside \cup {"result", "decide"} => q.pre \in Trees
    /\ q.pc \in AfterDigest => q.input \in Trees
    /\ q.pc \in AfterFreeze => q.tree \in Trees
    /\ q.pc \in AfterPolicy => q.policy \in Policies
    /\ q.pc \in {"idle", "inventory"} => q.ran = {}
    /\ q.pc \in AfterSuite => q.ran # {}
    /\ q.pc = "decide" => q.result \in Trees
    /\ q.cert # NULL => q.pc = "done"
    /\ Steady(q, w) =>
         /\ q.pc \in AfterDigest => q.input = q.pre
         /\ q.pc \in AfterFreeze => q.tree = q.pre
         /\ q.pc \in AfterPolicy => q.policy = PolicyOf[q.pre]
         /\ q.ran \subseteq {q.pre}

\* A receipt, wherever it is held, is the one its run sealed, and of one tree.
InForce(rcpt) ==
    /\ run[rcpt.run].cert = rcpt
    /\ ~rcpt.returned => OfOneTree(rcpt)

\* What a broker has compared when it holds a receipt.
Accepted(rcpt, tree, policy, approved) ==
    /\ rcpt.tree = tree /\ rcpt.policy = policy
    /\ approved # NULL => approved = policy

BrokerInv(c) ==
    /\ c.pc # "idle" => c.policy \in Policies
    /\ c.pc \in {"verify", "parent", "update"} => c.tree \in Trees
    /\ c.pc \in {"parent", "update"} =>
         c.held # NULL /\ Accepted(c.held, c.tree, c.policy, c.pin)
    /\ c.pc = "update" /\ c.held.parent # 0 => c.held.parent = c.parent

CommitInv(i) == log[i].by # NULL =>
    /\ Accepted(log[i].by, log[i].tree, log[i].policy, log[i].pin)
    /\ InForce(log[i].by)
    /\ log[i].by.parent # 0 => log[i].by.parent = i - 1

GateInv ==
    /\ TypeOK
    /\ \A r \in Runs : LocalInv(run[r], ws)
    /\ \A r \in Runs : run[r].cert # NULL => InForce(run[r].cert)
    /\ receipt # NULL => InForce(receipt)
    /\ \A b \in Brokers : broker[b].held # NULL => InForce(broker[b].held)
    /\ \A b \in Brokers : BrokerInv(broker[b])
    /\ \A i \in 1 .. Len(log) : CommitInv(i)
    /\ \A r \in revoked : run[r].cert # NULL
    /\ RevokedStaysRevoked

=============================================================================

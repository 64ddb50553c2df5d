------------------------------- MODULE Reseal -------------------------------
(***************************************************************************)
(* The run-state directory and the test-only re-seal                       *)
(* (packages/cli/src: reseal.ts, reseal-chain.ts, reseal-evidence.ts and   *)
(* commands/test-gates.ts): full, changed-scope and re-sealing runs that   *)
(* read and replace the same files and may die between two of them, the    *)
(* staged gate that works on a copy of the directory, and the consumer     *)
(* that recomputes a re-sealed receipt from what the directory retains.    *)
(*                                                                         *)
(* A document (receipt, run record, execution result, witness envelope) is *)
(* authentic and bound by digest, so it is the number of the run that      *)
(* issued it; a record of evidence is the test file and the run it is      *)
(* from.  A file is the empty sequence while it does not exist.            *)
(***************************************************************************)
EXTENDS Naturals, Sequences, FiniteSets, FiniteSetsExt

CONSTANTS
    Files,      \* the test files of the runner's catalog
    Proving,    \* the ones whose tests prove an obligation
    Reach,      \* Reach[f]: f and the test files that import it, transitively
    App,        \* an application file
    Slices,     \* the selections of ordinary changed-scope runs
    Contents,   \* what a path may hold: [rev, tests], its bytes and test count
    MaxHops,    \* RESEAL_CHAIN_MAX_HOPS
    MaxRuns,    \* bound: runs that execute tests, and runs that die
    MaxEdits,   \* bound: edits of the tree
    MaxFaults   \* bound: runs that die

ASSUME ResealAssumption ==
    /\ Proving \subseteq Files /\ App \notin Files /\ Slices \subseteq SUBSET Files
    /\ Reach \in [Files -> SUBSET Files]
    /\ \A f \in Files : f \in Reach[f] /\ \A g \in Reach[f] : Reach[g] \subseteq Reach[f]
    /\ {MaxHops, MaxRuns, MaxEdits, MaxFaults} \subseteq Nat /\ MaxHops > 0

VARIABLES
    tree,     \* the candidate tree
    runs,     \* history: what each run was and found
    dir,      \* the run-state directory in use
    job,      \* the run under way
    edits,
    faults,
    residue   \* history: a run has ended on a chain it did not finish or clear

resealVars == <<tree, runs, dir, job, edits, faults, residue>>

Paths == Files \cup {App}
Absent == << >>
Exists(file) == file # Absent

\* The files of a hop, in the order of hopFileNames (records and claims as one).
Members == <<"receipt", "record", "execution", "catalog", "evidence", "envelopes">>
NoHop == [m \in {Members[i] : i \in 1..6} |-> Absent]
Positions == 1..MaxHops + 1
NoHops == [i \in Positions |-> NoHop]

EmptyDir == [receipt |-> Absent, record |-> Absent, execution |-> Absent,
             evidence |-> {}, kept |-> Absent, hops |-> NoHops]
NoJob == [phase |-> "idle"]

\* The outcomes of the files S in tree t: one for each of their tests.
Outcomes(t, S) == UNION {{f} \X (1..t[f].tests) : f \in S}
CatalogOf(t) == [f \in Files |-> t[f].tests]

ResealInit ==
    /\ tree \in [Paths -> {c \in Contents : \A d \in Contents : c.rev <= d.rev}]
    /\ runs = << >> /\ dir = EmptyDir /\ job = NoJob
    /\ edits = 0 /\ faults = 0 /\ residue = FALSE

----------------------------------------------------------------------------
(* Which tests a change can affect (classifyResealChange).                 *)

Changed(p, c) == {q \in Paths : p[q] # c[q]}

\* Mutant: a changed test file affects itself only.
AffectedAlone(p, c) == Changed(p, c) \cap Files

\* The changed test files and their importers, transitively.
Affected(p, c) == UNION {Reach[f] : f \in Changed(p, c) \cap Files}

Eligible(p, c) == Changed(p, c) # {} /\ App \notin Changed(p, c)

----------------------------------------------------------------------------
(* The retained chain.                                                     *)

Doc(h) == IF Exists(h.record) THEN h.record[1] ELSE h.receipt[1]
Kind(h) == IF Exists(h.record) THEN "record" ELSE "receipt"

\* resealChainHopCount goes by the names of the files.
HopCount(hops) ==
    Max({n \in 0..MaxHops + 1 :
            \A i \in 1..n : Exists(hops[i].receipt) \/ Exists(hops[i].record)})

\* readResealChain stops at a hop without a parent, and after one that lacks
\* the execution result or the catalog.  A receipt file may hold null (0).
ReadChain(hops) ==
    LET Read(n) == /\ \A i \in 1..n : Exists(hops[i].record) \/ hops[i].receipt \notin {Absent, <<0>>}
                   /\ \A i \in 1..n - 1 : Exists(hops[i].execution) /\ Exists(hops[i].catalog)
    IN SubSeq(hops, 1, Max({n \in 0..MaxHops + 1 : Read(n)}))

\* Mutant: the chain is not shifted.
ShiftedNot(hops, k) == hops

\* shiftResealChain after k of its renames: hop by hop from the last one, each
\* file of a hop in the order of Members; a file that is missing is passed over.
Shifted(hops, k) ==
    LET n == HopCount(hops)
        Moved(i, j) == i \in 1..n /\ (n - i) * 6 + j <= k
    IN [i \in Positions |-> [m \in DOMAIN NoHop |->
           LET j == CHOOSE x \in 1..6 : Members[x] = m
           IN IF i > 1 /\ Moved(i - 1, j) /\ Exists(hops[i - 1][m]) THEN hops[i - 1][m]
              ELSE IF Moved(i, j) THEN Absent ELSE hops[i][m]]]

\* writeResealChainParentEvidence after k of its steps.
Opened(hops, ev, envelopes, k) ==
    LET renames == HopCount(hops) * 6
        s == Shifted(hops, k)
    IN [s EXCEPT ![1].evidence = IF k > renames THEN <<ev>> ELSE @,
                 ![1].envelopes = IF k > renames + 1 THEN <<envelopes>> ELSE @]
OpenSteps(hops) == HopCount(hops) * 6 + 2

\* retainedChainCarriedTests: what hop i carries for a run of the files A.  No
\* two hops carry a file, so the outcomes they add up to are those of all.
CarriedByHop(chain, A, i) ==
    runs[chain[i].execution[1]].ran
      \ (A \cup UNION {runs[chain[j].execution[1]].ran : j \in 1..i - 1})

ChainCarried(chain, A) ==
    IF \E i \in DOMAIN chain : ~Exists(chain[i].execution)
      THEN [files |-> {}, count |-> 0]
      ELSE [files |-> UNION {CarriedByHop(chain, A, i) : i \in DOMAIN chain},
            count |-> Cardinality(UNION {Outcomes(runs[chain[i].execution[1]].tree,
                                                  CarriedByHop(chain, A, i)) :
                                         i \in DOMAIN chain})]

----------------------------------------------------------------------------
(* The start of a run.                                                     *)

\* resolveResealParent: the receipt of the last run, if it was a full run or
\* a re-seal and its execution result is in place, else its run record.
ParentReceipt(d) == /\ Exists(d.receipt) /\ d.execution = d.receipt
                    /\ runs[d.receipt[1]].scope \in {"full", "reseal"}
ParentRecord(d) == Exists(d.record) /\ d.execution = d.record
HasParent(d) == ParentReceipt(d) \/ ParentRecord(d)
Parent(d) == IF ParentReceipt(d) THEN d.receipt[1] ELSE d.record[1]

\* decideTestOnlyReseal: nothing that failed lies outside the affected set.
Decide(p) ==
    /\ Eligible(runs[p].tree, tree)
    /\ runs[p].ran \ Affected(runs[p].tree, tree) \subseteq runs[p].passed

WithinBound(hops) == HopCount(hops) < MaxHops

\* retainedEvidenceContributors and authenticateContributingEvidence: every
\* contributing run has the envelope its own document names.
Authentic(d, p) ==
    LET chain == ReadChain(d.hops)
    IN /\ Exists(d.kept) /\ d.kept[1].envelope = p
       /\ \A i \in DOMAIN chain : /\ Exists(chain[i].envelopes)
                                  /\ chain[i].envelopes[1][1] = Doc(chain[i])

Contributors(d, p) == <<p>> \o [i \in DOMAIN ReadChain(d.hops) |-> Doc(ReadChain(d.hops)[i])]
RangeOf(s) == {s[i] : i \in DOMAIN s}

\* What the run will carry: from its parent alone, or from the whole chain.
Carried(d, p, A) ==
    LET chain == ReadChain(d.hops)
    IN IF chain # << >> THEN ChainCarried(chain, A)
       ELSE [files |-> runs[p].ran \ A, count |-> Cardinality(Outcomes(tree, runs[p].ran \ A))]

Job(scope, files, covered, staged, d) ==
    [phase |-> "running", scope |-> scope, files |-> files, covered |-> covered,
     parent |-> 0, kind |-> "none", carried |-> 0, evidence |-> {}, envelopes |-> << >>,
     staged |-> staged, user |-> d]

Idle == job = NoJob /\ Len(runs) + faults < MaxRuns

StartFull(staged) ==
    /\ Idle
    /\ job' = Job("full", Files, Files, staged, dir)
    /\ UNCHANGED <<tree, runs, dir, edits, faults, residue>>

\* The ordinary changed-scope run of some files, where no re-seal is possible
\* (or a binding this model leaves out refuses it).
StartChanged(files) ==
    /\ Idle
    /\ job' = Job("changed", files, files, FALSE, dir)
    /\ UNCHANGED <<tree, runs, dir, edits, faults, residue>>

ResealDecided == Idle /\ HasParent(dir) /\ Decide(Parent(dir)) /\ WithinBound(dir.hops)

\* The re-seal is decided and its parent's evidence retained as hop 1; k of
\* the file operations happen before the run dies, or all of them.
StartReseal(staged, k) ==
    /\ ResealDecided /\ Authentic(dir, Parent(dir))
    /\ LET p == Parent(dir)
           A == Affected(runs[p].tree, tree)
           carried == Carried(dir, p, A)
           from == RangeOf(Contributors(dir, p))
           ev == {r \in dir.kept[1].evidence : r.run \in from /\ r.file \in carried.files}
           hops == Opened(dir.hops, ev, Contributors(dir, p), k)
       IN IF k = OpenSteps(dir.hops)
            THEN /\ dir' = [dir EXCEPT !.hops = hops]
                 /\ job' = [Job("reseal", A, Files, staged, dir) EXCEPT
                              !.parent = p, !.carried = carried.count,
                              !.kind = IF ParentReceipt(dir) THEN "receipt" ELSE "record",
                              !.evidence = ev, !.envelopes = Contributors(dir, p)]
                 /\ UNCHANGED <<faults, residue>>
            ELSE /\ k < OpenSteps(dir.hops) /\ faults < MaxFaults /\ ~staged
                 /\ dir' = [dir EXCEPT !.hops = hops]
                 /\ faults' = faults + 1 /\ residue' = (hops # NoHops)
                 /\ UNCHANGED job
    /\ UNCHANGED <<tree, runs, edits>>

\* The evidence does not authenticate: the run goes on without the re-seal,
\* but with its selection and its coverage.
StartRefused ==
    /\ ResealDecided /\ ~Authentic(dir, Parent(dir))
    /\ job' = Job("changed", Affected(runs[Parent(dir)].tree, tree), Files, FALSE, dir)
    /\ UNCHANGED <<tree, runs, dir, edits, faults, residue>>

----------------------------------------------------------------------------
(* The run and its end.                                                    *)

Me == Len(runs)
Ledger(passed) == [file : passed \cap Proving, run : {Len(runs) + 1}]

\* The suite runs and the witness ledger becomes records.json.
Execute(passed) ==
    /\ job.phase = "running" /\ passed \subseteq job.files
    /\ runs' = Append(runs, [scope |-> job.scope, tree |-> tree, ran |-> job.files,
                             passed |-> passed, covered |-> job.covered,
                             parent |-> job.parent, kind |-> job.kind, carried |-> job.carried,
                             evidence |-> job.evidence \cup Ledger(passed)])
    /\ dir' = [dir EXCEPT !.evidence = Ledger(passed)]
    /\ job' = [job EXCEPT !.phase = "executed"]
    /\ UNCHANGED <<tree, edits, faults, residue>>

\* The execution result is written, and the carried evidence joins the run's.
Record ==
    /\ job.phase = "executed"
    /\ dir' = [dir EXCEPT !.execution = <<Me>>, !.evidence = @ \cup job.evidence]
    /\ job' = [job EXCEPT !.phase = "graded"]
    /\ UNCHANGED <<tree, runs, edits, faults, residue>>

\* A re-seal is graded on every obligation, a slice on the ones it touches.
GateClean ==
    /\ runs[Me].passed = job.files
    /\ job.scope = "reseal" => Proving \subseteq {r.file : r \in dir.evidence}

\* The hop a re-seal writes, after k of its files.
WrittenHop(h, k) ==
    LET doc == IF job.kind = "receipt" THEN job.parent ELSE 0
    IN [h EXCEPT !.receipt   = IF k > 0 THEN <<doc>> ELSE @,
                 !.execution = IF k > 1 THEN <<job.parent>> ELSE @,
                 !.catalog   = IF k > 2 THEN <<CatalogOf(tree)>> ELSE @,
                 !.evidence  = IF k > 3 THEN <<job.evidence>> ELSE @,
                 !.envelopes = IF k > 4 THEN <<job.envelopes>> ELSE @,
                 !.record    = IF k > 5 THEN (IF doc = 0 THEN <<job.parent>> ELSE Absent) ELSE @]

\* The directory after k steps of sealing: receipt, run record, evidence copy,
\* and the hop's files or the end of the chain.
SealSteps == IF job.scope = "reseal" THEN 9 ELSE 4
SealedDir(k) ==
    [dir EXCEPT !.receipt = <<Me>>,
                !.record = IF k > 1 THEN Absent ELSE @,
                !.kept = IF k > 2 THEN <<[evidence |-> dir.evidence, envelope |-> Me]>> ELSE @,
                !.hops = IF job.scope = "reseal"
                           THEN [dir.hops EXCEPT ![1] = WrittenHop(dir.hops[1], IF k > 3 THEN k - 3 ELSE 0)]
                         ELSE IF k > 3 THEN NoHops ELSE @]

\* copyStateIfPresent back over the checkout's directory: nothing is deleted.
Or(new, old) == IF Exists(new) THEN new ELSE old
Merged(new, old) ==
    [receipt |-> Or(new.receipt, old.receipt), record |-> Or(new.record, old.record),
     execution |-> Or(new.execution, old.execution), evidence |-> new.evidence,
     kept |-> Or(new.kept, old.kept),
     hops |-> [i \in Positions |-> [m \in DOMAIN NoHop |-> Or(new.hops[i][m], old.hops[i][m])]]]

\* The run ends with directory d.
End(d, unfinished) ==
    LET final == IF job.staged THEN Merged(d, job.user) ELSE d
    IN /\ dir' = final /\ job' = NoJob
       /\ residue' = ((residue \/ unfinished \/ final.hops # d.hops) /\ final.hops # NoHops)
       /\ UNCHANGED <<tree, runs, edits>>

\* A clean run seals, and so does a complete one whose mode softens the exit
\* code of what it found (GateCommit!SealedMeansClean).
SealRun ==
    /\ job.phase = "graded"
    /\ End(SealedDir(SealSteps), FALSE)
    /\ UNCHANGED faults

\* A run that found a problem and does not seal invalidates what it leaves,
\* unless its mode softens the exit code and it is only incomplete; a
\* whole-suite run leaves a run record.
Fail(soft) ==
    /\ job.phase = "graded" /\ ~GateClean
    /\ LET d == IF soft THEN dir
                ELSE [dir EXCEPT !.receipt = Absent, !.hops = NoHops, !.kept = Absent]
       IN End(IF job.scope # "full" THEN d
              ELSE [d EXCEPT !.record = <<Me>>,
                             !.kept = <<[evidence |-> dir.evidence, envelope |-> Me]>>],
              TRUE)
    /\ UNCHANGED faults

\* The run dies, or gives up on a tree that moved, leaving the directory as it
\* is.  A death that leaves nothing (of a staged run, whose copy is lost, or of
\* a run that has not written yet) is no step.
Die ==
    /\ job # NoJob /\ faults < MaxFaults
    /\ ~job.staged /\ (job.phase # "running" \/ job.scope = "reseal")
    /\ faults' = faults + 1
    /\ job' = NoJob
    /\ residue' = ((residue \/ job.scope = "reseal") /\ dir.hops # NoHops)
    /\ UNCHANGED <<tree, runs, dir, edits>>

\* The run dies in the middle of sealing.
DieSealing(k) ==
    /\ job.phase = "graded" /\ ~job.staged
    /\ faults < MaxFaults /\ k \in 1..SealSteps - 1
    /\ faults' = faults + 1
    /\ dir' = SealedDir(k) /\ job' = NoJob
    /\ residue' = (dir'.hops # NoHops)
    /\ UNCHANGED <<tree, runs, edits>>

EditTree(p, c) ==
    /\ Idle /\ edits < MaxEdits /\ c # tree[p]
    /\ tree' = [tree EXCEPT ![p] = c] /\ edits' = edits + 1
    /\ UNCHANGED <<runs, dir, job, faults, residue>>

----------------------------------------------------------------------------
(* The consumer (resealChainBlocking behind loadReceiptFor).               *)

\* The chain as it is walked from receipt r: the child of hop i, what the walk
\* has seen re-run up to it, and what its parent carries.
Child(r, chain, i) == IF i = 1 THEN r ELSE Doc(chain[i - 1])
WalkAffected(r, chain, i) ==
    Affected(runs[Doc(chain[i])].tree, runs[Child(r, chain, i)].tree)
WalkCarried(r, chain, i) ==
    runs[Doc(chain[i])].ran
      \ (WalkAffected(r, chain, i) \cup UNION {runs[Child(r, chain, j)].ran : j \in 1..i})

Enveloped(h) == Exists(h.envelopes) /\ h.envelopes[1][1] = Doc(h)

HopRecomputes(r, chain, i) ==
    LET h == chain[i]
        child == runs[Child(r, chain, i)]
    IN /\ Exists(h.execution) /\ Exists(h.catalog)
       /\ child.kind = Kind(h)
       /\ h.execution[1] = Doc(h) /\ child.parent = Doc(h)
       /\ h.catalog[1] = CatalogOf(child.tree)
       /\ Eligible(runs[Doc(h)].tree, child.tree)
       /\ child.ran = WalkAffected(r, chain, i) /\ child.passed = child.ran
       /\ WalkCarried(r, chain, i) \subseteq runs[Doc(h)].passed
       /\ Exists(h.evidence) /\ \A j \in i..Len(chain) : Enveloped(chain[j])
       /\ Kind(h) = "record" => i = Len(chain)

\* The state evidence is the union of what hop 1 retains for the carried tests
\* and the run's own.
EvidenceRecomputes(r, chain) ==
    LET from == {Doc(chain[i]) : i \in DOMAIN chain}
        files == UNION {WalkCarried(r, chain, i) : i \in DOMAIN chain}
        kept == {e \in chain[1].evidence[1] : e.run \in from /\ e.file \in files}
    IN /\ dir.evidence = runs[r].evidence
       /\ runs[r].evidence = kept \cup {e \in dir.evidence : e.run \notin from}

Recomputes(r) ==
    LET chain == ReadChain(dir.hops)
    IN /\ Len(chain) \in 1..MaxHops
       /\ \A i \in 1..Len(chain) : HopRecomputes(r, chain, i)
       /\ runs[r].carried = Cardinality(UNION {Outcomes(runs[Doc(chain[i])].tree,
                                                        WalkCarried(r, chain, i)) :
                                               i \in DOMAIN chain})
       /\ EvidenceRecomputes(r, chain)

\* The receipt of the directory passes for tree t.
Accepts(t) ==
    /\ Exists(dir.receipt) /\ dir.execution = dir.receipt
    /\ LET r == dir.receipt[1]
       IN runs[r].tree = t /\ (runs[r].scope = "reseal" => Recomputes(r))

----------------------------------------------------------------------------
ResealNext ==
    \/ \E p \in Paths, c \in Contents : EditTree(p, c)
    \/ \E staged \in BOOLEAN : StartFull(staged)
    \/ \E files \in Slices : StartChanged(files)
    \/ \E staged \in BOOLEAN, k \in 0..6 * MaxHops + 2 : StartReseal(staged, k)
    \/ StartRefused
    \/ \E passed \in SUBSET Files : Execute(passed)
    \/ Record \/ SealRun \/ Die
    \/ \E soft \in BOOLEAN : Fail(soft)
    \/ \E k \in 1..8 : DieSealing(k)

ResealSpec == ResealInit /\ [][ResealNext]_resealVars

----------------------------------------------------------------------------
(* Properties.                                                             *)

\* Nothing file f runs with differs between two trees.
SameFor(f, t, u) == t[App] = u[App] /\ \A q \in Files : f \in Reach[q] => t[q] = u[q]

Proven(f, t) == \E s \in DOMAIN runs : f \in runs[s].passed /\ SameFor(f, runs[s].tree, t)

\* The receipt is of a run whose tests passed.
OfPassing(r) == runs[r].passed = runs[r].ran

\* The full or re-sealed receipt of a run whose tests passed stands on a
\* passing run of every test file with exactly the bytes it seals, however many
\* re-seals, failed or softened runs, deaths and staged gates lie between.
SealedIsProven ==
    (Exists(dir.receipt) /\ OfPassing(dir.receipt[1])) =>
      LET r == runs[dir.receipt[1]]
      IN r.scope \in {"full", "reseal"} => \A f \in Files : Proven(f, r.tree)

\* Every receipt has evidence, of its own run or carried into it, for what it
\* says it covers; a refused re-seal is said to continue on the ordinary path.
CoveredIsWitnessed ==
    (Exists(dir.receipt) /\ OfPassing(dir.receipt[1])) =>
      LET r == runs[dir.receipt[1]]
      IN r.covered \cap Proving \subseteq {e.file : e \in r.evidence}

\* What a run re-seals its own consumer recomputes, unless a mode softened a
\* failure of a re-seal of the chain, a run has ended on the chain without
\* finishing or clearing it, or a file that is carried has had another number of
\* tests in a run behind it.
SealedRecomputes ==
    LET chain == ReadChain(dir.hops)
        Parents == {Doc(chain[i]) : i \in DOMAIN chain}
        last == runs[Len(runs)]
    IN (/\ job = NoJob /\ ~residue /\ Exists(dir.receipt) /\ dir.receipt[1] = Len(runs)
        /\ \A r \in Parents \cup {Len(runs)} : runs[r].scope = "reseal" => OfPassing(r)
        /\ \A r \in Parents, f \in Files \ last.ran :
              runs[r].tree[f].tests = last.tree[f].tests) =>
         Accepts(runs[Len(runs)].tree)
=============================================================================

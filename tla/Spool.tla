------------------------------- MODULE Spool -------------------------------
(***************************************************************************)
(* The two spool files a supervised runner appends to and the trusted      *)
(* drain polls (packages/pack-playwright/src/supervisor/spool.ts):         *)
(* lifecycle events and persistence intents.                               *)
(*                                                                         *)
(* A line is abstracted to LineCells cells: a prefix that is not JSON, the *)
(* rest of the JSON text, and the newline.  The runner is another process, *)
(* so a reader may see any prefix of what is being appended, and the file  *)
(* may grow between its statSync and its readFileSync.                     *)
(***************************************************************************)
EXTENDS Integers

CONSTANTS
    MaxLines,   \* bound: lines per file
    Chunks      \* cells one visible append may add ({LineCells}: whole lines)

ASSUME SpoolAssumption ==
    /\ MaxLines \in Nat \ {0}
    /\ Chunks \subseteq Nat \ {0}

Files == {"events", "intents"}
LineNumbers == 1..MaxLines
LineCells == 3

VARIABLES
    raw,        \* cells of the file that a read would return
    readOffset, \* the drain's offset / intentsOffset
    size,       \* statSync(...).size of the poll under way, -1 = no poll
    delivered,  \* how often each line was handed to the drain (2 = more)
    torn        \* history: files a poll read in the middle of a line

spoolVars == <<raw, readOffset, size, delivered, torn>>

SpoolInit ==
    /\ raw = [f \in Files |-> 0]
    /\ readOffset = [f \in Files |-> 0]
    /\ size = [f \in Files |-> -1]
    /\ delivered = [f \in Files |-> [k \in LineNumbers |-> 0]]
    /\ torn = {}

LineStart(k) == LineCells * (k - 1)

(* The bytes after the last newline of a file of n cells.                  *)
Trailing(n) == n % LineCells

(* appendSpoolEvent / appendPersistenceIntent, as a reader sees it.        *)
AppendCells(f, c) ==
    /\ raw[f] + c <= LineCells * MaxLines
    /\ raw' = [raw EXCEPT ![f] = @ + c]
    /\ UNCHANGED <<readOffset, size, delivered, torn>>

(* The poll's statSync: nothing new ends it at once.                       *)
Stat(f) ==
    /\ size[f] = -1
    /\ raw[f] > readOffset[f]
    /\ size' = [size EXCEPT ![f] = raw[f]]
    /\ UNCHANGED <<raw, readOffset, delivered, torn>>

(* Every line whose JSON text is complete is parsed, the last one whether  *)
(* or not its newline is there.                                            *)
Parsed(f, k) ==
    /\ LineStart(k) >= readOffset[f]
    /\ raw[f] >= LineStart(k) + LineCells - 1

(* Mutant: the offset also passes a fragment that could not be parsed.     *)
RawNextOffset(n, sz, off) == n

(* Mutant: the offset is computed from the size the poll began with.       *)
StaleNextOffset(n, sz, off) ==
    IF sz - Trailing(n) > off THEN sz - Trailing(n) ELSE off

(* readSpoolEvents: through the bytes actually read.                       *)
EventsNextOffset(n, sz, off) ==
    IF n - Trailing(n) > off THEN n - Trailing(n) ELSE off

(* readPersistenceIntents: from the size the poll began with.              *)
IntentsNextOffset(n, sz, off) ==
    IF sz - Trailing(n) > off THEN sz - Trailing(n) ELSE off

NextOffset(f) ==
    IF f = "events" THEN EventsNextOffset(raw[f], size[f], readOffset[f])
                    ELSE IntentsNextOffset(raw[f], size[f], readOffset[f])

(* The poll's readFileSync, and the lines it hands to the drain.           *)
Read(f) ==
    /\ size[f] # -1
    /\ delivered' = [delivered EXCEPT ![f] = [k \in LineNumbers |->
         IF Parsed(f, k) /\ @[k] < 2 THEN @[k] + 1 ELSE @[k]]]
    /\ readOffset' = [readOffset EXCEPT ![f] = NextOffset(f)]
    /\ size' = [size EXCEPT ![f] = -1]
    /\ torn' = IF Trailing(raw[f]) = 0 THEN torn ELSE torn \cup {f}
    /\ UNCHANGED raw

SpoolNext == \E f \in Files : (\E c \in Chunks : AppendCells(f, c)) \/ Stat(f) \/ Read(f)

SpoolSpec == SpoolInit /\ [][SpoolNext]_spoolVars

(* The drain polls until the run ends, and an append that began ends.      *)
FairSpoolSpec ==
    /\ SpoolSpec
    /\ \A f \in Files : /\ WF_spoolVars(Stat(f)) /\ WF_spoolVars(Read(f))
                        /\ WF_spoolVars(\E c \in Chunks : AppendCells(f, c))

----------------------------------------------------------------------------
(* Properties.                                                             *)

(* Type invariant of the spool files and the drain's read offsets.         *)
SpoolTypeOK ==
    /\ raw \in [Files -> Nat] /\ readOffset \in [Files -> Nat]
    /\ size \in [Files -> Nat \cup {-1}]
    /\ delivered \in [Files -> [LineNumbers -> 0..2]]
    /\ torn \subseteq Files

(* The offset never passes a line the drain has not been given, although   *)
(* the file grows between the stat and the read; and lines are first       *)
(* handed over in file order.                                              *)
NothingSkipped ==
    \A f \in Files, k \in LineNumbers :
      /\ LineStart(k) < readOffset[f] => delivered[f][k] > 0
      /\ delivered[f][k] > 0 => \A j \in 1..(k - 1) : delivered[f][j] > 0

(* Unless a poll met a torn line, a lifecycle event is handled once:       *)
(* growth between the stat and the read replays nothing.                   *)
EventsOnce ==
    "events" \notin torn => \A k \in LineNumbers : delivered["events"][k] <= 1

(* Every line is handed to the drain in the end.                           *)
EveryLineDelivered ==
    \A f \in Files, k \in LineNumbers : <>(delivered[f][k] > 0)

(* The offset returned for the intents file is the one "to resume from":   *)
(* unless a poll met a torn line, no intent is forwarded twice.            *)
IntentsOnce ==
    "intents" \notin torn => \A k \in LineNumbers : delivered["intents"][k] <= 1

=============================================================================

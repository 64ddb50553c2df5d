--------------------------- MODULE PluginSession ---------------------------
(***************************************************************************)
(* The engine's session with a plugin subprocess                           *)
(* (packages/plugin-protocol/src/host.ts), the plugin on the other end of  *)
(* the pipe, and the client that drives the session                        *)
(* (packages/cli/src/plugins.ts and the detectors).                        *)
(*                                                                         *)
(* A settled read is continued before the next event of the host is        *)
(* served, so what follows it belongs to the event's action.  A frame is   *)
(* its type, the request it answers, and whether envelope (version, pinned *)
(* identity, sequence number, digest) and payload verify.                  *)
(***************************************************************************)
EXTENDS Naturals, Sequences

CONSTANTS
    MaxDiscovers,  \* bound: discover calls of the client
    MaxFrames      \* bound: frames a stray plugin writes

ASSUME PluginAssumption == MaxDiscovers \in Nat /\ MaxFrames \in Nat

VARIABLES
    call,       \* the client: "start", "discover", "shutdown" (its reads),
                \* "exit", "late" (awaits the exit, in time or killed),
                \* "none", "failed", "clean", "reap", "over"
    asked,      \* requestCounter
    answered,   \* history: the last request discover() returned for
    state,      \* #state
    pending,    \* #pending # null
    queue,      \* #lineQueue
    killed,     \* #killed
    exitInfo,   \* #exitInfo: "none", "zero" or "bad" (nonzero or signal)
    expired,    \* history: a watchdog has fired
    stray,      \* the plugin may break the protocol
    declined,   \* history: the plugin's handler has thrown
    proc,       \* the process: "up", or how it exited
    inbox,      \* host frames the plugin has not read
    pipe,       \* plugin frames the host has not read
    written     \* frames a stray plugin has written

hostVars == <<call, asked, answered, state, pending, queue, killed, exitInfo, expired>>
pluginVars == <<stray, declined, proc, written>>
vars == <<hostVars, pluginVars, inbox, pipe>>

Frame == [type : {"hello", "result", "error", "bye", "bad"}, rid : Nat]
F(type, rid) == [type |-> type, rid |-> rid]
Reads == {"start", "discover", "shutdown"}

Init ==
    /\ call = "start" /\ pending = TRUE /\ state = "handshaking"
    /\ asked = 0 /\ answered = 0 /\ queue = << >> /\ killed = FALSE
    /\ exitInfo = "none" /\ expired = FALSE
    /\ stray \in BOOLEAN /\ declined = FALSE /\ proc = "up" /\ written = 0
    /\ inbox = << >>
    /\ pipe = IF stray THEN << >> ELSE <<F("hello", 0)>>

----------------------------------------------------------------------------
(* The host.                                                               *)

\* Mutant: a killed session keeps its state.
KillQuietly ==
    /\ killed' = (killed \/ exitInfo = "none")
    /\ UNCHANGED state

\* #kill / #ensureDead
Kill ==
    /\ killed' = (killed \/ exitInfo = "none")
    /\ state' = "closed"

\* Mutant: the type of the frame is checked, its request is not.
FitsAnyRequest(f, c, n) ==
    \/ c = "start" /\ f.type = "hello"
    \/ c = "discover" /\ f.type = "result"
    \/ c = "shutdown" /\ f.type = "bye"

\* parseLine, verifyEnvelope, #checkExpectation, verifyPayload and the checks
\* of the caller: the frame is what read c of request n waits for.
Fits(f, c, n) ==
    \/ c = "start" /\ f.type = "hello"
    \/ c = "discover" /\ f.type = "result" /\ f.rid = n
    \/ c = "shutdown" /\ f.type = "bye"

\* The continuation of a read with the line it was given.  The exit is awaited
\* (#waitExit) in the same turn as the bye, so it cannot have been seen yet.
Receive(f, c, n) ==
    \/ /\ ~Fits(f, c, n)
       /\ call' = "failed" /\ Kill
       /\ UNCHANGED <<answered, inbox>>
    \/ /\ Fits(f, c, n) /\ c = "start"
       /\ call' = "none" /\ state' = "open" /\ inbox' = Append(inbox, F("ready", 0))
       /\ UNCHANGED <<answered, killed>>
    \/ /\ Fits(f, c, n) /\ c = "discover"
       /\ call' = "none" /\ answered' = f.rid
       /\ UNCHANGED <<state, killed, inbox>>
    \/ /\ Fits(f, c, n) /\ c = "shutdown"
       /\ call' = "exit"
       /\ UNCHANGED <<answered, state, killed, inbox>>

Ready == state = "open" /\ call = "none"

\* discover(): #send, then #readLine, which takes a queued line or waits.
Discover ==
    /\ Ready /\ asked < MaxDiscovers
    /\ call' = "discover" /\ asked' = asked + 1
    /\ inbox' = Append(inbox, F("discover", asked + 1))
    /\ pending' = (queue = << >>)
    /\ UNCHANGED <<answered, state, queue, killed, exitInfo, expired, pipe, pluginVars>>

Shutdown ==
    /\ Ready
    /\ call' = "shutdown" /\ state' = "shutting-down"
    /\ inbox' = Append(inbox, F("shutdown", 0))
    /\ pending' = (queue = << >>)
    /\ UNCHANGED <<asked, answered, queue, killed, exitInfo, expired, pipe, pluginVars>>

\* discover() or shutdown() of a session that is not open throws.
NotOpen ==
    /\ call = "none" /\ state # "open"
    /\ call' = "failed"
    /\ UNCHANGED <<asked, answered, state, pending, queue, killed, exitInfo,
                   expired, inbox, pipe, pluginVars>>

\* The queued line is handed over before any other event.
TakeQueued ==
    /\ call \in Reads /\ ~pending
    /\ queue # << >> /\ queue' = Tail(queue)
    /\ Receive(Head(queue), call, asked)
    /\ UNCHANGED <<asked, pending, exitInfo, expired, pipe, pluginVars>>

Serving == call \in Reads => pending

\* #onStdout: a chunk with n complete lines; the first one settles the read.
OnStdout(n) ==
    /\ Serving /\ exitInfo = "none"
    /\ pipe' = SubSeq(pipe, n + 1, Len(pipe))
    /\ pending' = FALSE
    /\ IF pending
         THEN /\ queue' = queue \o SubSeq(pipe, 2, n)
              /\ Receive(pipe[1], call, asked)
         ELSE /\ queue' = queue \o SubSeq(pipe, 1, n)
              /\ UNCHANGED <<call, answered, state, killed, inbox>>
    /\ UNCHANGED <<asked, exitInfo, expired, pluginVars>>

\* #onStdout beyond the line cap, #failPending.
OverCap ==
    /\ Serving /\ exitInfo = "none" /\ stray /\ proc = "up"
    /\ Kill /\ pending' = FALSE
    /\ IF pending THEN call' = "failed" /\ UNCHANGED queue
                  ELSE queue' = << >> /\ UNCHANGED call
    /\ UNCHANGED <<asked, answered, exitInfo, expired, inbox, pipe, pluginVars>>

\* The watchdog of #readLine.
Watchdog ==
    /\ pending
    /\ pending' = FALSE /\ call' = "failed" /\ Kill /\ expired' = TRUE
    /\ UNCHANGED <<asked, answered, queue, exitInfo, inbox, pipe, pluginVars>>

\* #waitExit gives up: the plugin is killed and its exit awaited.
ExitOverdue ==
    /\ call = "exit"
    /\ call' = "late" /\ Kill /\ expired' = TRUE
    /\ UNCHANGED <<asked, answered, pending, queue, exitInfo, inbox, pipe, pluginVars>>

\* Mutant: the end of the stream does not settle the read.
AtCloseDeaf ==
    call' = CASE call = "exit" -> IF proc = "zero" THEN "clean" ELSE "failed"
              [] call = "late" -> "failed"
              [] call = "reap" -> "over"
              [] OTHER         -> call

\* Mutant: every end of the stream fails the call.
AtCloseFails ==
    call' = CASE call \in Reads \cup {"exit", "late"} -> "failed"
              [] call = "reap" -> "over"
              [] OTHER         -> call

\* Mutant: the exit status is handed on as it is.
AtCloseRaw ==
    call' = CASE call \in Reads \cup {"late"} -> "failed"
              [] call = "exit" -> proc
              [] call = "reap" -> "over"
              [] OTHER         -> call

\* What the close event settles: a read, the wait for the exit, dispose().
AtClose ==
    call' = CASE call \in Reads  -> "failed"
              [] call = "exit" -> IF proc = "zero" THEN "clean" ELSE "failed"
              [] call = "late" -> "failed"
              [] call = "reap" -> "over"
              [] OTHER         -> call

\* #onClose, which comes after everything that was on stdout.
OnClose ==
    /\ Serving /\ exitInfo = "none" /\ proc # "up" /\ pipe = << >>
    /\ exitInfo' = proc /\ state' = "closed" /\ pending' = FALSE
    /\ AtClose
    /\ UNCHANGED <<asked, answered, queue, killed, expired, inbox, pipe, pluginVars>>

\* dispose() in the client's finally, after an error, the shutdown or, for the
\* detectors, without a shutdown.
Dispose ==
    /\ call \in {"none", "failed", "clean"}
    /\ Kill
    /\ call' = IF exitInfo = "none" THEN "reap" ELSE "over"
    /\ UNCHANGED <<asked, answered, pending, queue, exitInfo, expired, inbox,
                   pipe, pluginVars>>

----------------------------------------------------------------------------
(* The plugin.                                                             *)

\* servePlugin: one host frame is answered; a handler that throws answers with
\* an error, and after the bye the process ends.
Serve(ok) ==
    /\ ~stray /\ proc = "up" /\ inbox # << >>
    /\ inbox' = Tail(inbox)
    /\ LET f == Head(inbox)
       IN \/ f.type = "ready" /\ ok /\ UNCHANGED <<pipe, proc>>
          \/ /\ f.type = "discover"
             /\ pipe' = Append(pipe, F(IF ok THEN "result" ELSE "error", f.rid))
             /\ UNCHANGED proc
          \/ /\ f.type = "shutdown" /\ ok
             /\ pipe' = Append(pipe, F("bye", 0)) /\ proc' = "zero"
    /\ declined' = (declined \/ ~ok)
    /\ UNCHANGED <<hostVars, stray, written>>

\* A stray plugin writes whatever it likes, whenever it likes,
Stray(f) ==
    /\ stray /\ proc = "up" /\ written < MaxFrames
    /\ pipe' = Append(pipe, f) /\ written' = written + 1
    /\ UNCHANGED <<hostVars, stray, declined, proc, inbox>>

\* and exits when it likes.
Crash(how) ==
    /\ stray /\ proc = "up"
    /\ proc' = how
    /\ UNCHANGED <<hostVars, stray, declined, written, inbox, pipe>>

\* SIGKILL.
Die ==
    /\ killed /\ proc = "up"
    /\ proc' = "bad"
    /\ UNCHANGED <<hostVars, stray, declined, written, inbox, pipe>>

----------------------------------------------------------------------------
StrayFrames == [type : {"hello", "result", "error", "bye", "bad"}, rid : 1..MaxDiscovers]

Client == Discover \/ Shutdown \/ NotOpen \/ Dispose
Events == TakeQueued \/ (\E n \in 1..Len(pipe) : OnStdout(n)) \/ OnClose \/ Die
Timers == Watchdog \/ ExitOverdue

Next == \/ Client \/ Events \/ Timers \/ OverCap
        \/ \E ok \in BOOLEAN : Serve(ok)
        \/ \E f \in StrayFrames : Stray(f)
        \/ \E how \in {"zero", "bad"} : Crash(how)

Spec == Init /\ [][Next]_vars

\* The host's event loop serves its events and timers, a killed process dies
\* and its streams end, and the client goes on to its finally.
FairSpec == Spec /\ WF_vars(Events) /\ WF_vars(Timers) /\ WF_vars(Client)

----------------------------------------------------------------------------
(* Properties.                                                             *)

\* Type invariant of the session's fields, the pipe and the process.
TypeOK ==
    /\ call \in Reads \cup {"exit", "late", "none", "failed", "clean", "reap", "over"}
    /\ asked \in Nat /\ answered \in Nat
    /\ state \in {"handshaking", "open", "shutting-down", "closed"}
    /\ {pending, killed, expired, stray, declined} \subseteq BOOLEAN
    /\ queue \in Seq(Frame) /\ pipe \in Seq(Frame)
    /\ exitInfo \in {"none", "zero", "bad"} /\ proc \in {"up", "zero", "bad"}
    /\ inbox \in Seq([type : {"ready", "discover", "shutdown"}, rid : Nat])
    /\ written \in Nat

\* The inductive part: while no call has failed, answers keep up with requests,
\* and an end of the session has seen the end of the process.
CallsInv ==
    /\ call \in {"start", "none", "shutdown", "exit", "late", "clean"} => answered = asked
    /\ call = "discover" => answered < asked
    /\ call \in {"clean", "over"} => exitInfo # "none"
    /\ call \in Reads \cup {"exit", "late", "reap"} => exitInfo = "none"
    /\ state = "open" => exitInfo = "none"
    /\ pending => call \in Reads
    /\ call = "start" => pending

Phase == CASE call \in Reads \cup {"exit", "late"} -> "call"
           [] call = "none" -> "free"
           [] call = "reap" -> "failed"
           [] OTHER         -> call

Calls == INSTANCE PluginCalls
           WITH phase <- Phase, alive <- exitInfo = "none"

\* The host of a misbehaving plugin still keeps what PluginCalls promises the
\* client: every call ends once, an answer is for the request just asked,
\* nothing succeeds after a failure, and no process is left behind.
ImplementsCalls == Calls!Spec

\* A plugin that the host has killed (watchdog, line cap, bad frame) gives no
\* further answer, whatever it still had in the pipe.
KilledAnswersNothing == [][killed => answered' = answered]_vars

\* A plugin that keeps the protocol and is in time is never reported as
\* failed: neither an exit that is seen before it is awaited nor several frames
\* in one chunk count against it.
HonestPluginsPass ==
    call = "failed" => stray \/ expired \/ declined

\* Every use of a session ends, even if the plugin hangs, floods or dies.
EveryUseEnds == <>(call = "over")
=============================================================================

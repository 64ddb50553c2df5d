------------------------ MODULE PluginSessionProofs ------------------------
(* PluginSession implements PluginCalls, for every number of discover calls *)
(* and whatever the plugin writes.                                          *)
EXTENDS PluginSession, SequenceTheorems, TLAPS

SInv == TypeOK /\ CallsInv

\* The initial state satisfies the invariant and maps to the initial state of
\* PluginCalls.
LEMMA InitSession == Init => SInv /\ Calls!Init
  <1> SUFFICES ASSUME Init PROVE SInv /\ Calls!Init
    OBVIOUS
  <1>1. /\ F("hello", 0) \in Frame /\ << >> \in Seq(Frame)
        /\ <<F("hello", 0)>> \in Seq(Frame)
        /\ << >> \in Seq([type : {"ready", "discover", "shutdown"}, rid : Nat])
    BY DEF F, Frame
  <1>2. TypeOK
    BY <1>1 DEF Init, TypeOK, Reads
  <1>3. CallsInv
    BY DEF Init, CallsInv, Reads
  <1>4. Calls!Init
    BY DEF Init, Calls!Init, Phase, Reads
  <1> QED BY <1>2, <1>3, <1>4 DEF SInv

HostFrame == [type : {"ready", "discover", "shutdown"}, rid : Nat]

\* What one continuation of a read does to the client, the state and the frames
\* sent to the plugin.
LEMMA ReceiveStep ==
  ASSUME SInv, call \in Reads, NEW f \in Frame, Receive(f, call, asked),
         UNCHANGED <<asked, exitInfo>>
  PROVE  /\ call' \in {"failed", "none", "exit"}
         /\ answered' \in Nat /\ inbox' \in Seq(HostFrame)
         /\ state' \in {"handshaking", "open", "shutting-down", "closed"}
         /\ killed' \in BOOLEAN
         /\ call' = "failed" => answered' = answered
         /\ call' \in {"none", "exit"} => answered' = asked
         /\ call' = "exit" => answered = asked
         /\ call' = "none" => call \in {"start", "discover"}
  <1>0. /\ TypeOK /\ CallsInv
    BY DEF SInv
  <1>1. F("ready", 0) \in HostFrame
    BY DEF F, HostFrame
  <1>2. CASE ~Fits(f, call, asked)
    BY <1>0, <1>2 DEF Receive, Kill, TypeOK, HostFrame
  <1>3. CASE Fits(f, call, asked) /\ call = "start"
    <2>1. /\ call' = "none" /\ state' = "open" /\ inbox' = Append(inbox, F("ready", 0))
          /\ answered' = answered /\ killed' = killed
      BY <1>3 DEF Receive
    <2>2. inbox' \in Seq(HostFrame)
      BY <1>0, <1>1, <2>1, AppendProperties DEF TypeOK, HostFrame
    <2> QED BY <1>0, <1>3, <2>1, <2>2 DEF TypeOK, CallsInv
  <1>4. CASE Fits(f, call, asked) /\ call = "discover"
    <2>1. /\ call' = "none" /\ answered' = f.rid /\ f.rid = asked
          /\ state' = state /\ killed' = killed /\ inbox' = inbox
      BY <1>4 DEF Receive, Fits
    <2> QED BY <1>0, <1>4, <2>1 DEF TypeOK, CallsInv, HostFrame
  <1>5. CASE Fits(f, call, asked) /\ call = "shutdown"
    BY <1>0, <1>5 DEF Receive, TypeOK, CallsInv, HostFrame
  <1> QED BY <1>2, <1>3, <1>4, <1>5 DEF Reads

\* A read that is settled by a frame is a step of PluginCalls.
LEMMA ReceiveImplements ==
  ASSUME SInv, call \in Reads, NEW f \in Frame, Receive(f, call, asked),
         UNCHANGED <<asked, exitInfo>>
  PROVE  [Calls!Next]_(Calls!vars)
  <1>0. TypeOK /\ CallsInv
    BY DEF SInv
  <1>a. Phase = "call"
    BY DEF Phase, Reads
  <1>1. /\ call' \in {"failed", "none", "exit"}
        /\ call' = "failed" => answered' = answered
        /\ call' \in {"none", "exit"} => answered' = asked
        /\ call' = "exit" => answered = asked
        /\ call' = "none" => call \in {"start", "discover"}
    BY ReceiveStep
  <1>2. CASE call' = "failed"
    <2>1. Phase' = "failed"
      BY <1>2 DEF Phase, Reads
    <2> QED BY <1>a, <1>1, <1>2, <2>1 DEF Calls!Next, Calls!Fail
  <1>3. CASE call' = "none"
    <2>1. Phase' = "free"
      BY <1>3 DEF Phase, Reads
    <2>2. CASE call = "start"
      BY <1>0, <1>a, <1>1, <1>3, <2>1, <2>2 DEF Calls!Next, Calls!Started, CallsInv
    <2>3. CASE call = "discover"
      BY <1>0, <1>a, <1>1, <1>3, <2>1, <2>3 DEF Calls!Next, Calls!Answer, CallsInv
    <2> QED BY <1>1, <1>3, <2>2, <2>3
  <1>4. CASE call' = "exit"
    <2>1. Phase' = "call"
      BY <1>4 DEF Phase, Reads
    <2> QED BY <1>a, <1>1, <1>4, <2>1 DEF Calls!vars
  <1> QED BY <1>1, <1>2, <1>3, <1>4

\* Every step keeps the invariant and is a step of PluginCalls or none.
LEMMA StepSession == SInv /\ [Next]_vars => SInv' /\ [Calls!Next]_(Calls!vars)
  <1> SUFFICES ASSUME SInv, [Next]_vars
               PROVE  SInv' /\ [Calls!Next]_(Calls!vars)
    OBVIOUS
  <1>0. TypeOK /\ CallsInv
    BY DEF SInv
  <1> USE DEF hostVars, pluginVars
  <1>1. CASE Discover
    <2>1. F("discover", asked + 1) \in HostFrame
      BY <1>0 DEF F, HostFrame, TypeOK
    <2>2. inbox' \in Seq(HostFrame)
      BY <1>0, <1>1, <2>1, AppendProperties DEF Discover, TypeOK, HostFrame
    <2>3. SInv'
      BY <1>0, <1>1, <2>2 DEF Discover, Ready, SInv, TypeOK, CallsInv, Reads, HostFrame
    <2>4. Phase = "free" /\ Phase' = "call"
      BY <1>1 DEF Discover, Ready, Phase, Reads
    <2> QED BY <1>1, <2>3, <2>4 DEF Discover, Calls!Next, Calls!Ask
  <1>2. CASE Shutdown
    <2>1. F("shutdown", 0) \in HostFrame
      BY DEF F, HostFrame
    <2>2. inbox' \in Seq(HostFrame)
      BY <1>0, <1>2, <2>1, AppendProperties DEF Shutdown, TypeOK, HostFrame
    <2>3. SInv'
      BY <1>0, <1>2, <2>2 DEF Shutdown, Ready, SInv, TypeOK, CallsInv, Reads, HostFrame
    <2>4. Phase = "free" /\ Phase' = "call"
      BY <1>2 DEF Shutdown, Ready, Phase, Reads
    <2> QED BY <1>2, <2>3, <2>4 DEF Shutdown, Calls!Next, Calls!Close
  <1>3. CASE NotOpen
    <2>1. SInv'
      BY <1>0, <1>3 DEF NotOpen, SInv, TypeOK, CallsInv, Reads
    <2>2. Phase = "free" /\ Phase' = "failed"
      BY <1>3 DEF NotOpen, Phase, Reads
    <2> QED BY <1>3, <2>1, <2>2 DEF NotOpen, Calls!Next, Calls!Fail
  <1>4. CASE TakeQueued
    <2>1. Head(queue) \in Frame /\ Tail(queue) \in Seq(Frame)
      BY <1>0, <1>4, HeadTailProperties DEF TakeQueued, TypeOK
    <2>2. call \in Reads /\ Receive(Head(queue), call, asked) /\ UNCHANGED <<asked, exitInfo>>
      BY <1>4 DEF TakeQueued
    <2>3. /\ call' \in {"failed", "none", "exit"}
          /\ answered' \in Nat /\ inbox' \in Seq(HostFrame)
          /\ state' \in {"handshaking", "open", "shutting-down", "closed"}
          /\ killed' \in BOOLEAN
          /\ call' \in {"none", "exit"} => answered' = asked
      BY <2>1, <2>2, ReceiveStep
    <2>4. TypeOK'
      BY <1>0, <1>4, <2>1, <2>3 DEF TakeQueued, TypeOK, Reads, HostFrame
    <2>5. CallsInv'
      BY <1>0, <1>4, <2>2, <2>3 DEF TakeQueued, CallsInv, Reads
    <2>6. [Calls!Next]_(Calls!vars)
      BY <2>1, <2>2, ReceiveImplements
    <2> QED BY <2>4, <2>5, <2>6 DEF SInv
  <1>5. ASSUME NEW n \in 1..Len(pipe), OnStdout(n)
        PROVE  SInv' /\ [Calls!Next]_(Calls!vars)
    <2>1. /\ pipe[1] \in Frame /\ pipe' \in Seq(Frame) /\ queue' \in Seq(Frame)
      <3>1. pipe \in Seq(Frame) /\ Len(pipe) \in Nat /\ queue \in Seq(Frame) /\ n \in Nat
        BY <1>0, LenProperties DEF TypeOK
      <3>2. /\ SubSeq(pipe, n + 1, Len(pipe)) \in Seq(Frame)
            /\ SubSeq(pipe, 2, n) \in Seq(Frame) /\ SubSeq(pipe, 1, n) \in Seq(Frame)
        BY <1>5, <3>1
      <3>3. pipe[1] \in Frame
        BY <1>5, <3>1, ElementOfSeq
      <3> QED BY <1>5, <3>1, <3>2, <3>3, ConcatProperties DEF OnStdout
    <2>2. CASE pending
      <3>1. call \in Reads /\ Receive(pipe[1], call, asked) /\ UNCHANGED <<asked, exitInfo>>
        BY <1>0, <1>5, <2>2 DEF OnStdout, CallsInv
      <3>2. /\ call' \in {"failed", "none", "exit"}
            /\ answered' \in Nat /\ inbox' \in Seq(HostFrame)
            /\ state' \in {"handshaking", "open", "shutting-down", "closed"}
            /\ killed' \in BOOLEAN
            /\ call' \in {"none", "exit"} => answered' = asked
        BY <2>1, <3>1, ReceiveStep
      <3>3. TypeOK'
        BY <1>0, <1>5, <2>1, <3>2 DEF OnStdout, TypeOK, Reads, HostFrame
      <3>4. CallsInv'
        BY <1>0, <1>5, <3>1, <3>2 DEF OnStdout, CallsInv, Reads
      <3>5. [Calls!Next]_(Calls!vars)
        BY <2>1, <3>1, ReceiveImplements
      <3> QED BY <3>3, <3>4, <3>5 DEF SInv
    <2>3. CASE ~pending
      <3>1. TypeOK'
        BY <1>0, <1>5, <2>1, <2>3 DEF OnStdout, TypeOK
      <3>2. CallsInv'
        BY <1>0, <1>5, <2>3 DEF OnStdout, CallsInv, Serving
      <3>3. UNCHANGED Calls!vars
        BY <1>5, <2>3 DEF OnStdout, Calls!vars, Phase
      <3> QED BY <3>1, <3>2, <3>3 DEF SInv
    <2> QED BY <2>2, <2>3
  <1>6. CASE OverCap
    <2>1. TypeOK'
      <3>1. queue' \in Seq(Frame)
        <4>1. << >> \in Seq(Frame)
          BY EmptySeq
        <4> QED BY <1>0, <1>6, <4>1 DEF OverCap, TypeOK
      <3>2. killed' \in BOOLEAN /\ pending' \in BOOLEAN
        BY <1>6 DEF OverCap, Kill
      <3>3. call' \in {call, "failed"} /\ state' = "closed"
        BY <1>6 DEF OverCap, Kill
      <3> QED BY <1>0, <1>6, <3>1, <3>2, <3>3 DEF OverCap, TypeOK
    <2>2. CallsInv'
      BY <1>0, <1>6 DEF OverCap, Kill, CallsInv, Reads, Serving
    <2>3. CASE pending
      <3>1. Phase = "call" /\ Phase' = "failed"
        BY <1>0, <1>6, <2>3 DEF OverCap, CallsInv, Phase, Reads
      <3> QED BY <1>6, <2>1, <2>2, <3>1 DEF OverCap, SInv, Calls!Next, Calls!Fail
    <2>4. CASE ~pending
      <3>1. UNCHANGED Calls!vars
        BY <1>6, <2>4 DEF OverCap, Calls!vars, Phase
      <3> QED BY <2>1, <2>2, <3>1 DEF SInv
    <2> QED BY <2>3, <2>4
  <1>7. CASE Watchdog
    <2>1. SInv'
      BY <1>0, <1>7 DEF Watchdog, Kill, SInv, TypeOK, CallsInv, Reads
    <2>2. Phase = "call" /\ Phase' = "failed"
      BY <1>0, <1>7 DEF Watchdog, CallsInv, Phase, Reads
    <2> QED BY <1>7, <2>1, <2>2 DEF Watchdog, Calls!Next, Calls!Fail
  <1>8. CASE ExitOverdue
    <2>1. SInv'
      BY <1>0, <1>8 DEF ExitOverdue, Kill, SInv, TypeOK, CallsInv, Reads
    <2>2. Phase = "call" /\ Phase' = "call"
      BY <1>8 DEF ExitOverdue, Phase, Reads
    <2> QED BY <1>8, <2>1, <2>2 DEF ExitOverdue, Calls!vars
  <1>9. CASE OnClose
    <2>1. call' \in Reads \cup {"exit", "late", "none", "failed", "clean", "reap", "over"}
      BY <1>0, <1>9 DEF OnClose, AtClose, TypeOK
    <2>2. SInv'
      BY <1>0, <1>9, <2>1 DEF OnClose, AtClose, SInv, TypeOK, CallsInv, Reads
    <2>3. exitInfo = "none" /\ exitInfo' # "none" /\ UNCHANGED <<asked, answered>>
      BY <1>0, <1>9 DEF OnClose, TypeOK
    <2>4. CASE call \in Reads \cup {"late"}
      <3>1. Phase = "call" /\ Phase' = "failed"
        BY <1>9, <2>4 DEF OnClose, AtClose, Phase, Reads
      <3> QED BY <2>2, <2>3, <3>1 DEF Calls!Next, Calls!Fail
    <2>5. CASE call = "exit"
      <3>1. Phase = "call" /\ Phase' \in {"clean", "failed"} /\ asked = answered
        BY <1>0, <1>9, <2>5 DEF OnClose, AtClose, Phase, Reads, CallsInv
      <3> QED BY <2>2, <2>3, <3>1 DEF Calls!Next, Calls!Fail, Calls!Clean
    <2>6. CASE call = "reap"
      <3>1. Phase = "failed" /\ Phase' = "over"
        BY <1>9, <2>6 DEF OnClose, AtClose, Phase, Reads
      <3> QED BY <2>2, <2>3, <3>1 DEF Calls!Next, Calls!Over
    <2>7. CASE call \in {"none", "failed", "clean", "over"}
      <3>1. Phase' = Phase
        BY <1>9, <2>7 DEF OnClose, AtClose, Phase, Reads
      <3> QED BY <2>2, <2>3, <3>1 DEF Calls!Next, Calls!Exit
    <2> QED BY <1>0, <2>4, <2>5, <2>6, <2>7 DEF TypeOK
  <1>10. CASE Dispose
    <2>1. SInv'
      BY <1>0, <1>10 DEF Dispose, Kill, SInv, TypeOK, CallsInv, Reads
    <2>2. UNCHANGED <<asked, answered, exitInfo>>
      BY <1>10 DEF Dispose
    <2>3. CASE exitInfo = "none"
      <3>1. Phase \in {"free", "failed"} /\ Phase' = "failed"
        BY <1>0, <1>10, <2>3 DEF Dispose, Phase, Reads, CallsInv
      <3> QED BY <2>1, <2>2, <3>1 DEF Calls!Next, Calls!Fail, Calls!vars
    <2>4. CASE exitInfo # "none"
      <3>1. Phase # "over" /\ Phase' = "over"
        BY <1>10, <2>4 DEF Dispose, Phase, Reads
      <3> QED BY <2>1, <2>2, <2>4, <3>1 DEF Calls!Next, Calls!Over
    <2> QED BY <2>3, <2>4
  <1>11. ASSUME UNCHANGED <<hostVars, stray>>, pipe' \in Seq(Frame),
                inbox' \in Seq(HostFrame), proc' \in {"up", "zero", "bad"},
                declined' \in BOOLEAN, written' \in Nat
         PROVE  SInv' /\ [Calls!Next]_(Calls!vars)
    <2>1. TypeOK'
      BY <1>0, <1>11 DEF TypeOK, HostFrame
    <2>2. CallsInv'
      BY <1>0, <1>11 DEF CallsInv
    <2>3. UNCHANGED Calls!vars
      BY <1>11 DEF Calls!vars, Phase
    <2> QED BY <2>1, <2>2, <2>3 DEF SInv
  <1>12. ASSUME NEW ok \in BOOLEAN, Serve(ok)
         PROVE  SInv' /\ [Calls!Next]_(Calls!vars)
    <2>1. Head(inbox) \in HostFrame /\ Tail(inbox) \in Seq(HostFrame)
      BY <1>0, <1>12, HeadTailProperties DEF Serve, TypeOK, HostFrame
    <2>2. /\ F(IF ok THEN "result" ELSE "error", Head(inbox).rid) \in Frame
          /\ F("bye", 0) \in Frame
      BY <2>1 DEF F, Frame, HostFrame
    <2>3. pipe' \in Seq(Frame) /\ proc' \in {"up", "zero", "bad"}
      <3> DEFINE g == F(IF ok THEN "result" ELSE "error", Head(inbox).rid)
      <3>1. /\ Append(pipe, g) \in Seq(Frame)
            /\ Append(pipe, F("bye", 0)) \in Seq(Frame)
        BY <1>0, <2>2, AppendProperties DEF TypeOK
      <3>2. /\ pipe' \in {pipe, Append(pipe, g), Append(pipe, F("bye", 0))}
            /\ proc' \in {proc, "zero"}
        BY <1>12 DEF Serve
      <3> QED BY <1>0, <3>1, <3>2 DEF TypeOK
    <2> QED BY <1>0, <1>11, <1>12, <2>1, <2>3 DEF Serve, TypeOK
  <1>13. ASSUME NEW f \in StrayFrames, Stray(f)
         PROVE  SInv' /\ [Calls!Next]_(Calls!vars)
    <2>1. f \in Frame
      BY PluginAssumption DEF StrayFrames, Frame
    <2>2. pipe' \in Seq(Frame)
      BY <1>0, <1>13, <2>1, AppendProperties DEF Stray, TypeOK
    <2> QED BY <1>0, <1>11, <1>13, <2>2 DEF Stray, TypeOK, HostFrame
  <1>14. ASSUME NEW how \in {"zero", "bad"}, Crash(how)
         PROVE  SInv' /\ [Calls!Next]_(Calls!vars)
    BY <1>0, <1>11, <1>14 DEF Crash, TypeOK, HostFrame
  <1>15. CASE Die
    BY <1>0, <1>11, <1>15 DEF Die, TypeOK, HostFrame
  <1>16. CASE UNCHANGED vars
    BY <1>0, <1>11, <1>16 DEF vars, TypeOK, HostFrame
  <1> QED
    BY <1>1, <1>2, <1>3, <1>4, <1>5, <1>6, <1>7, <1>8, <1>9, <1>10, <1>12,
       <1>13, <1>14, <1>15, <1>16 DEF Next, Client, Events, Timers

\* The session's fields keep their types, whatever the plugin writes.
THEOREM SessionTypeCorrect == Spec => []TypeOK
  <1>1. Init => SInv
    BY InitSession
  <1>2. SInv /\ [Next]_vars => SInv'
    BY StepSession
  <1>3. SInv => TypeOK
    BY DEF SInv
  <1> QED BY <1>1, <1>2, <1>3, PTL DEF Spec

\* The host implements what PluginCalls promises its client: calls end once,
\* answers are for the request just asked, nothing succeeds after a failure,
\* and the process is gone when the session is over.
THEOREM SessionImplementsCalls == Spec => ImplementsCalls
  <1>1. Init => SInv /\ Calls!Init
    BY InitSession
  <1>2. SInv /\ [Next]_vars => SInv' /\ [Calls!Next]_(Calls!vars)
    BY StepSession
  <1> QED BY <1>1, <1>2, PTL DEF Spec, ImplementsCalls, Calls!Spec

\* A plugin that was killed answers nothing: the session of a killed plugin is
\* closed and no read of it is pending.
THEOREM KilledIsSilent == Spec => KilledAnswersNothing
  <1> DEFINE KInv == SInv /\ (killed => state = "closed" /\ call \notin Reads)
  <1>1. Init => KInv
    BY InitSession DEF Init
  <1>2. KInv /\ [Next]_vars => KInv'
    <2> SUFFICES ASSUME KInv, [Next]_vars PROVE KInv'
      OBVIOUS
    <2>1. SInv'
      BY StepSession
    <2>2. TypeOK /\ CallsInv
      BY DEF SInv
    <2>3. killed' => state' = "closed" /\ call' \notin Reads
      <3> USE DEF hostVars, pluginVars, Reads
      <3>1. CASE Discover \/ Shutdown \/ NotOpen \/ Dispose
        BY <2>2, <3>1 DEF Discover, Shutdown, Ready, NotOpen, Dispose, Kill
      <3>2. CASE TakeQueued
        BY <2>2, <3>2 DEF TakeQueued, Receive, Kill, Fits
      <3>3. CASE \E n \in 1..Len(pipe) : OnStdout(n)
        BY <2>2, <3>3 DEF OnStdout, Receive, Kill, Fits, CallsInv
      <3>4. CASE OverCap \/ Watchdog \/ ExitOverdue
        BY <2>2, <3>4 DEF OverCap, Watchdog, ExitOverdue, Kill, CallsInv, Serving
      <3>5. CASE OnClose
        BY <2>2, <3>5 DEF OnClose, AtClose, TypeOK
      <3>6. CASE \/ \E ok \in BOOLEAN : Serve(ok)
                 \/ \E f \in StrayFrames : Stray(f)
                 \/ \E how \in {"zero", "bad"} : Crash(how)
                 \/ Die \/ UNCHANGED vars
        BY <3>6 DEF Serve, Stray, Crash, Die, vars
      <3> QED BY <3>1, <3>2, <3>3, <3>4, <3>5, <3>6 DEF Next, Client, Events, Timers
    <2> QED BY <2>1, <2>3
  <1>3. KInv /\ [Next]_vars => [killed => answered' = answered]_vars
    <2> SUFFICES ASSUME KInv, Next, killed PROVE answered' = answered
      BY DEF vars, hostVars
    <2>1. pending => call \in Reads
      BY DEF SInv, CallsInv
    <2> QED
      BY <2>1 DEF Next, Client, Events, Timers, Discover, Shutdown, NotOpen,
         Dispose, TakeQueued, OnStdout, OverCap, Watchdog, ExitOverdue, OnClose,
         Serve, Stray, Crash, Die, hostVars
  <1> QED BY <1>1, <1>2, <1>3, PTL DEF Spec, KilledAnswersNothing

----------------------------------------------------------------------------
(* A plugin that keeps the protocol.                                       *)

Honest == ~stray /\ ~expired /\ ~declined

\* The plugin may still have to read the handshake before frame f.
Mail(f) == {<<f>>, <<F("ready", 0), f>>}

\* Between the host and an honest plugin one frame is on its way, in the one
\* direction or the other, and it is the one the host waits for.
Exchange ==
    /\ call \in Reads \cup {"none", "exit", "clean", "reap", "over"}
    /\ call \notin {"reap", "over"} => ~killed /\ queue = << >>
    /\ call = "start" =>
         /\ proc = "up" /\ inbox = << >> /\ pipe = <<F("hello", 0)>>
    /\ call = "none" =>
         /\ state = "open" /\ proc = "up" /\ pipe = << >>
         /\ inbox \in {<< >>, <<F("ready", 0)>>}
    /\ call = "discover" =>
         /\ state = "open" /\ proc = "up" /\ pending
         /\ \/ inbox \in Mail(F("discover", asked)) /\ pipe = << >>
            \/ inbox = << >> /\ pipe = <<F("result", asked)>>
    /\ call = "shutdown" =>
         /\ pending
         /\ \/ inbox \in Mail(F("shutdown", 0)) /\ pipe = << >> /\ proc = "up"
            \/ inbox = << >> /\ pipe = <<F("bye", 0)>> /\ proc = "zero"
    /\ call = "exit" => proc = "zero" /\ pipe = << >>

HonestInv == Honest => Exchange

\* A frame is appended to none or to one.
LEMMA AppendToMail ==
  ASSUME NEW m, NEW f, m = << >> \/ m = <<F("ready", 0)>>
  PROVE  Append(m, f) \in Mail(f)
  <1> DEFINE g == F("ready", 0)
  <1> HIDE DEF g
  <1>1. Append(<< >>, f) = <<f>>
    OBVIOUS
  <1>2. Append(<<g>>, f) = <<g, f>>
    <2>1. <<g>> \in Seq({g, f}) /\ <<g, f>> \in Seq({g, f})
      OBVIOUS
    <2>2. /\ Len(Append(<<g>>, f)) = 2 /\ Append(<<g>>, f)[1] = g
          /\ Append(<<g>>, f)[2] = f /\ Append(<<g>>, f) \in Seq({g, f})
      BY <2>1
    <2>3. /\ Len(<<g, f>>) = 2 /\ <<g, f>>[1] = g /\ <<g, f>>[2] = f
          /\ \A i \in 1..2 : i = 1 \/ i = 2
      OBVIOUS
    <2>4. \A i \in 1..2 : Append(<<g>>, f)[i] = <<g, f>>[i]
      BY <2>2, <2>3
    <2> QED BY <2>1, <2>2, <2>3, <2>4, SeqEqual
  <1> QED BY <1>1, <1>2 DEF Mail, g

\* An honest plugin reads its one frame and answers it.
LEMMA ServeKeepsExchange ==
  ASSUME SInv, Exchange, NEW ok \in BOOLEAN, Serve(ok), Honest'
  PROVE  Exchange'
  <1>0. TypeOK /\ ok
    BY DEF SInv, Serve, Honest, TypeOK
  <1>1. UNCHANGED hostVars /\ proc = "up" /\ inbox # << >> /\ inbox' = Tail(inbox)
    BY DEF Serve
  <1>2. \/ Head(inbox).type = "ready" /\ UNCHANGED <<pipe, proc>>
        \/ /\ Head(inbox).type = "discover" /\ UNCHANGED proc
           /\ pipe' = Append(pipe, F("result", Head(inbox).rid))
        \/ /\ Head(inbox).type = "shutdown" /\ proc' = "zero"
           /\ pipe' = Append(pipe, F("bye", 0))
    BY <1>0 DEF Serve
  <1>3. CASE call \in {"reap", "over", "clean", "start", "exit"}
    BY <1>0, <1>1, <1>2, <1>3 DEF Exchange, hostVars, Reads, TypeOK
  <1>4. CASE call = "none"
    <2>1. inbox = <<F("ready", 0)>>
      BY <1>1, <1>4 DEF Exchange
    <2>2. inbox' = << >> /\ UNCHANGED <<pipe, proc>>
      BY <1>1, <1>2, <2>1 DEF F
    <2> QED BY <1>1, <1>4, <2>2 DEF Exchange, hostVars, Reads
  <1>5. CASE call = "discover"
    <2>1. pipe = << >> /\ inbox \in Mail(F("discover", asked))
      BY <1>1, <1>5 DEF Exchange
    <2>2. CASE inbox = <<F("discover", asked)>>
      <3>1. inbox' = << >> /\ pipe' = <<F("result", asked)>> /\ proc' = proc
        BY <1>1, <1>2, <2>1, <2>2 DEF F
      <3> QED BY <1>1, <1>5, <3>1 DEF Exchange, hostVars, Reads
    <2>3. CASE inbox = <<F("ready", 0), F("discover", asked)>>
      <3>1. inbox' = <<F("discover", asked)>> /\ UNCHANGED <<pipe, proc>>
        BY <1>1, <1>2, <2>1, <2>3 DEF F
      <3> QED BY <1>1, <1>5, <2>1, <3>1 DEF Exchange, hostVars, Mail, Reads
    <2> QED BY <2>1, <2>2, <2>3 DEF Mail
  <1>6. CASE call = "shutdown"
    <2>1. pipe = << >> /\ inbox \in Mail(F("shutdown", 0))
      BY <1>1, <1>6 DEF Exchange
    <2>2. CASE inbox = <<F("shutdown", 0)>>
      <3>1. inbox' = << >> /\ pipe' = <<F("bye", 0)>> /\ proc' = "zero"
        BY <1>1, <1>2, <2>1, <2>2 DEF F
      <3> QED BY <1>1, <1>6, <3>1 DEF Exchange, hostVars, Reads
    <2>3. CASE inbox = <<F("ready", 0), F("shutdown", 0)>>
      <3>1. inbox' = <<F("shutdown", 0)>> /\ UNCHANGED <<pipe, proc>>
        BY <1>1, <1>2, <2>1, <2>3 DEF F
      <3> QED BY <1>1, <1>6, <2>1, <3>1 DEF Exchange, hostVars, Mail, Reads
    <2> QED BY <2>1, <2>2, <2>3 DEF Mail
  <1> QED BY <1>3, <1>4, <1>5, <1>6 DEF Exchange, Reads

\* The frame that arrives is the one that was waited for.
LEMMA ChunkKeepsExchange ==
  ASSUME SInv, Exchange, NEW n \in 1..Len(pipe), OnStdout(n)
  PROVE  Exchange'
  <1>0. TypeOK /\ CallsInv
    BY DEF SInv
  <1>1. CASE call \in {"reap", "over", "none", "clean"}
    <2>1. ~pending
      BY <1>0, <1>1 DEF CallsInv, Reads
    <2>2. call # "none"
      BY DEF Exchange
    <2>3. call # "clean"
      BY <1>0 DEF CallsInv, OnStdout
    <2> QED BY <1>1, <2>1, <2>2, <2>3 DEF OnStdout, Exchange, Reads, pluginVars
  <1>2. CASE call = "exit"
    BY <1>2 DEF Exchange
  <1>3. CASE call \in Reads
    <2>1. pending
      BY <1>3 DEF OnStdout, Serving
    <2> DEFINE f == pipe[1]
    <2>a. pipe # << >>
      OBVIOUS
    <2>b. /\ call = "start" => pipe = <<F("hello", 0)>>
          /\ call = "discover" => pipe = <<F("result", asked)>>
          /\ call = "shutdown" => pipe = <<F("bye", 0)>>
          /\ inbox = << >> /\ queue = << >> /\ ~killed
      BY <1>3, <2>a DEF Exchange, Reads
    <2>2. n = 1 /\ Len(pipe) = 1 /\ inbox = << >> /\ queue = << >> /\ ~killed
      <3>1. \E g : pipe = <<g>>
        BY <1>3, <2>b DEF Reads
      <3>2. Len(pipe) = 1
        BY <3>1
      <3> QED BY <2>b, <3>2
    <2>3. Fits(f, call, asked)
      <3>1. CASE call = "start"
        BY <2>b, <3>1 DEF F, Fits
      <3>2. CASE call = "discover"
        BY <2>b, <3>2 DEF F, Fits
      <3>3. CASE call = "shutdown"
        BY <2>b, <3>3 DEF F, Fits
      <3> QED BY <1>3, <3>1, <3>2, <3>3 DEF Reads
    <2>4. queue' = << >> /\ pipe' = << >> /\ proc' = proc /\ asked' = asked
      BY <1>0, <2>1, <2>2 DEF OnStdout, pluginVars, TypeOK
    <2>5. Receive(f, call, asked)
      BY <2>1 DEF OnStdout
    <2>6. CASE call = "start"
      <3>1. /\ call' = "none" /\ state' = "open" /\ killed' = killed
            /\ inbox' = <<F("ready", 0)>>
        BY <2>2, <2>3, <2>5, <2>6 DEF Receive
      <3> QED BY <2>2, <2>4, <2>6, <3>1 DEF Exchange, Reads
    <2>7. CASE call = "discover"
      <3>1. call' = "none" /\ UNCHANGED <<state, killed, inbox>>
        BY <2>3, <2>5, <2>7 DEF Receive
      <3> QED BY <2>2, <2>4, <2>7, <3>1 DEF Exchange, Reads
    <2>8. CASE call = "shutdown"
      <3>1. call' = "exit" /\ UNCHANGED <<killed, inbox>>
        BY <2>3, <2>5, <2>8 DEF Receive
      <3> QED BY <2>2, <2>4, <2>8, <3>1 DEF Exchange, Reads
    <2> QED BY <1>3, <2>6, <2>7, <2>8 DEF Reads
  <1> QED BY <1>1, <1>2, <1>3 DEF Exchange, Reads

\* Every step of a session with an honest plugin keeps the exchange in step.
LEMMA StepKeepsExchange == SInv /\ HonestInv /\ [Next]_vars => HonestInv'
  <1> SUFFICES ASSUME SInv, HonestInv, [Next]_vars, Honest'
               PROVE  Exchange'
    BY DEF HonestInv
  <1>0. TypeOK /\ CallsInv
    BY DEF SInv
  <1> USE DEF hostVars, pluginVars
  <1>1. CASE Discover
    <2>1. Exchange /\ asked' = asked + 1 /\ call = "none" /\ state = "open"
      BY <1>1 DEF Discover, Ready, Honest, HonestInv
    <2>2. inbox' = Append(inbox, F("discover", asked'))
      BY <1>1, <2>1 DEF Discover
    <2>3. inbox' \in Mail(F("discover", asked'))
      <3>1. inbox \in {<< >>, <<F("ready", 0)>>}
        BY <2>1 DEF Exchange
      <3> QED BY <2>2, <3>1, AppendToMail
    <2> QED BY <1>1, <2>1, <2>3 DEF Discover, Exchange, Reads
  <1>2. CASE Shutdown
    <2>1. Exchange /\ call = "none" /\ state = "open"
      BY <1>2 DEF Shutdown, Ready, Honest, HonestInv
    <2>2. inbox' \in Mail(F("shutdown", 0))
      <3>1. inbox \in {<< >>, <<F("ready", 0)>>} /\ inbox' = Append(inbox, F("shutdown", 0))
        BY <1>2, <2>1 DEF Shutdown, Exchange
      <3> QED BY <3>1, AppendToMail
    <2> QED BY <1>2, <2>1, <2>2 DEF Shutdown, Exchange, Reads
  <1>3. CASE NotOpen
    BY <1>3 DEF NotOpen, Honest, HonestInv, Exchange
  <1>4. CASE TakeQueued
    BY <1>4 DEF TakeQueued, Honest, HonestInv, Exchange, Reads
  <1>5. CASE \E n \in 1..Len(pipe) : OnStdout(n)
    <2>1. Honest
      BY <1>5 DEF OnStdout, Honest
    <2> QED BY <1>5, <2>1, ChunkKeepsExchange DEF HonestInv
  <1>6. CASE OverCap \/ Watchdog \/ ExitOverdue
    BY <1>6 DEF OverCap, Watchdog, ExitOverdue, Honest
  <1>7. CASE OnClose
    <2>1. Exchange /\ proc # "up" /\ pipe = << >>
      BY <1>7 DEF OnClose, Honest, HonestInv
    <2>2. call \in {"exit", "clean", "reap", "over"}
      BY <2>1 DEF Exchange, Reads
    <2> QED BY <1>7, <2>1, <2>2 DEF OnClose, AtClose, Exchange, Reads
  <1>8. CASE Dispose
    BY <1>8 DEF Dispose, Kill, Honest, HonestInv, Exchange, Reads
  <1>9. CASE \E ok \in BOOLEAN : Serve(ok)
    <2>1. Honest
      BY <1>0, <1>9 DEF Serve, Honest, TypeOK
    <2> QED BY <1>9, <2>1, ServeKeepsExchange DEF HonestInv
  <1>10. CASE (\E f \in StrayFrames : Stray(f)) \/ (\E how \in {"zero", "bad"} : Crash(how))
    BY <1>10 DEF Stray, Crash, Honest
  <1>11. CASE Die
    BY <1>11 DEF Die, Honest, HonestInv, Exchange, Reads
  <1>12. CASE UNCHANGED vars
    BY <1>12 DEF vars, Honest, HonestInv, Exchange
  <1> QED
    BY <1>1, <1>2, <1>3, <1>4, <1>5, <1>6, <1>7, <1>8, <1>9, <1>10, <1>11,
       <1>12 DEF Next, Client, Events, Timers

\* A plugin that keeps the protocol, answers in time and does not decline the
\* call is never reported as failed, whatever chunks its frames come in and
\* whenever it exits.
THEOREM HonestPluginsNeverFail == Spec => []HonestPluginsPass
  <1>1. Init => SInv /\ HonestInv
    <2>1. Init => HonestInv
      BY DEF Init, HonestInv, Honest, Exchange, Reads
    <2> QED BY <2>1, InitSession
  <1>2. SInv /\ HonestInv /\ [Next]_vars => SInv' /\ HonestInv'
    BY StepSession, StepKeepsExchange
  <1>3. HonestInv => HonestPluginsPass
    BY DEF HonestInv, Honest, Exchange, Reads, HonestPluginsPass
  <1> QED BY <1>1, <1>2, <1>3, PTL DEF Spec

=============================================================================

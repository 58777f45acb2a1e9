----------------------------- MODULE ProxyProofs -----------------------------
(***************************************************************************)
(* Proofs about the threads of rvgpu-proxy around the GPU device: its end, *)
(* for any number of clients and any limits; the relay, for any number of  *)
(* renderers and any room in pipes and sockets; the input thread, for any  *)
(* packets of one renderer.                                                *)
(***************************************************************************)
EXTENDS ProxyThreads, SequenceTheorems, TLAPS

(***************************************************************************)
(* The end of the proxy: what each phase of the main thread has behind it. *)
(***************************************************************************)
Removing == {"removing", "release"}
Freed    == {"unload", "end"}
Stopped  == {"remove"} \cup Removing \cup Freed
Joined   == {"flush", "stable", "stopinput"} \cup Stopped

\* The threads end before what they use is freed.
Ends ==
  /\ mpc \in Phases
  /\ drainer = "run" => mpc \in Removing
  /\ mapped \/ mpc \in Freed
  /\ mpc \in Joined => rthread = "gone"
  /\ mpc \in Stopped => ~input
  /\ mpc = "end" => ~relay
  /\ loaded \/ mpc = "end"

\* What the threads, the clients and the kernel do leaves that alone.
LEMMA OthersKeepEnds ==
  ASSUME Ends,
         \/ Removed \/ Relay \/ ResourceThread \/ DrainThread \/ Die
         \/ Terminate \/ ConnectionLost
         \/ \E c \in Clients : Return(c) \/ Cleaned(c) \/ Submit(c) \/ Exit(c) \/ Fence(c)
  PROVE  Ends'
<1> USE DEF Ends, Phases, Removing, Freed, Stopped, Joined, threadVars, restVars
<1>1. CASE Removed
  BY <1>1 DEF Removed
<1>2. CASE Relay \/ DrainThread \/ Die
  BY <1>2 DEF Relay, DrainThread, Die
<1>3. CASE ResourceThread
  BY <1>3 DEF ResourceThread
<1>4. CASE Terminate \/ ConnectionLost
  <2>1. relay' => relay
    BY <1>4 DEF Terminate, ConnectionLost, Interrupt
  <2>2. /\ mpc' = IF mpc = "write" THEN "serve" ELSE mpc
        /\ UNCHANGED << drainer, mapped, loaded, rthread, input >>
    BY <1>4 DEF Terminate, ConnectionLost, Interrupt
  <2> QED BY <2>1, <2>2
<1>5. ASSUME NEW c \in Clients, Return(c) \/ Cleaned(c) \/ Submit(c) \/ Exit(c) \/ Fence(c)
      PROVE  Ends'
  BY <1>5 DEF Return, Cleaned, Submit, Exit, Fence
<1> QED BY <1>1, <1>2, <1>3, <1>4, <1>5

\* What the main thread does has the next phase behind it.
LEMMA MainKeepsEnds ==
  ASSUME Ends, Main
  PROVE  Ends'
<1> USE DEF Ends, Phases, Removing, Freed, Stopped, Joined, threadVars, restVars
<1>1. CASE Loop
  BY <1>1 DEF Loop
<1>2. CASE Grace \/ Cleanup
  BY <1>2 DEF Grace, Cleanup, DrainTick, DrainEnds
<1>3. CASE FindUsers
  BY <1>3 DEF FindUsers
<1>4. CASE Join
  BY <1>4 DEF Join
<1>5. CASE Flush \/ FlushStable
  BY <1>5 DEF Flush, FlushStable
<1>6. CASE StopInput \/ StartDrainer
  BY <1>6 DEF StopInput, StartDrainer
<1>7. CASE Release \/ Unload
  BY <1>7 DEF Release, Unload
<1>8. ASSUME NEW c \in Clients, Take(c) \/ Write(c) PROVE Ends'
  BY <1>8 DEF Take, Write
<1> QED BY <1>1, <1>2, <1>3, <1>4, <1>5, <1>6, <1>7, <1>8 DEF Main

(***************************************************************************)
(* Whatever the clients, the renderer and the signals do meanwhile, no     *)
(* thread uses the rings after they were unmapped or the plugin's code     *)
(* after it was unloaded.                                                  *)
(***************************************************************************)
THEOREM FreeCorrect == Spec => []NothingUsedAfterFree
<1>1. Init => Ends
  BY DEF Init, Ends, Phases, Removing, Freed, Stopped, Joined
<1>2. Ends /\ [Next]_vars => Ends'
  <2> SUFFICES ASSUME Ends, [Next]_vars PROVE Ends'
    OBVIOUS
  <2>1. CASE UNCHANGED vars
    BY <2>1 DEF vars, Ends, threadVars, restVars
  <2> QED BY <2>1, OthersKeepEnds, MainKeepsEnds DEF Next, Kernel
<1>3. Ends => NothingUsedAfterFree
  BY DEF Ends, NothingUsedAfterFree, Removing, Freed, Stopped, Joined
<1> QED BY <1>1, <1>2, <1>3, PTL DEF Spec

(***************************************************************************)
(* Types.  The counters of a drain stay within its limits because each is  *)
(* looked at before the next turn.                                         *)
(***************************************************************************)
Typed ==
  /\ client \in [Clients -> {"free", "ioctl", "cleanup", "gone"}]
  /\ sig \in [Clients -> {"no", "term", "kill"}]
  /\ req \in [Clients -> {"no", "ring", "sending", "async", "done"}]
  /\ renderer \in {"up", "down"} /\ rthread \in {"poll", "recv", "gone"}
  /\ asked \in BOOLEAN /\ relay \in BOOLEAN /\ message \in BOOLEAN /\ stopped \in BOOLEAN
  /\ input \in BOOLEAN /\ present \in BOOLEAN /\ killed \in BOOLEAN
  /\ mapped \in BOOLEAN /\ loaded \in BOOLEAN
  /\ mpc \in Phases /\ pids \subseteq Clients
  /\ flushed \subseteq {"ok", "error"} /\ drainer \in {"no", "run", "gone"}

Before == {"loop", "serve", "write"}

Counted ==
  /\ submits \in 0 .. MaxSubmits /\ room \in 0 .. PipeRoom
  /\ elapsed \in Nat /\ idle \in Nat /\ idle <= elapsed
  /\ elapsed <= GraceTime \/ elapsed <= CleanupTime
  /\ mpc \in Before => elapsed = 0 /\ stable = 0
  /\ mpc = "grace" => elapsed <= GraceTime
  /\ mpc = "cleanup" => elapsed <= CleanupTime
  /\ scan \in 0 .. ScanInterval
  /\ stable \in Nat /\ stable <= StableRequired + StableChecks
  /\ mpc \in {"grace", "cleanup"} => stable < StableRequired
  /\ mpc = "flush" => stable = 0
  /\ mpc = "stable" => stable < StableRequired + StableChecks
  /\ pass \in 0 .. MaxPasses /\ (mpc = "flush" => pass < MaxPasses)

\* The limits are numbers.
LEMMA Limits ==
  /\ PipeRoom \in Nat \ {0} /\ StableRequired \in Nat \ {0}
  /\ ScanInterval \in Nat \ {0} /\ GraceTime \in Nat \ {0}
  /\ CleanupTime \in Nat \ {0} /\ MaxPasses \in Nat \ {0}
  /\ StableChecks \in Nat \ {0} /\ MaxSubmits \in Nat
BY LimitsAssumption

\* A turn of a drain, or its end, stays within the limits.
LEMMA DrainCounts ==
  ASSUME Typed, Counted, NEW limit \in Nat, NEW next \in Phases,
         next \notin {"grace", "cleanup", "stable", "flush"} \cup Before,
         \/ mpc = "grace" /\ limit = GraceTime
         \/ mpc = "cleanup" /\ limit = CleanupTime,
         DrainTick(limit, next) \/ DrainEnds(limit, next)
  PROVE  Typed' /\ Counted'
<1>1. CASE DrainEnds(limit, next)
  <2>1. Typed'
    BY <1>1 DEF DrainEnds, Typed, clientVars, threadVars, drainVars, restVars
  <2>2. Counted'
    BY <1>1 DEF DrainEnds, Counted, clientVars, threadVars, drainVars, restVars
  <2> QED BY <2>1, <2>2
<1>2. CASE DrainTick(limit, next)
  <2>1. /\ elapsed < limit /\ elapsed' = elapsed + 1
        /\ scan' \in {scan, 0, scan + 1} /\ (scan' = scan + 1 => scan + 1 < ScanInterval)
        /\ idle' \in {0, 1, idle, idle + 1} /\ stable' \in {0, stable + 1}
        /\ mpc' = IF stable' >= StableRequired THEN next ELSE mpc
        /\ UNCHANGED << submits, room, pass >>
    <3>1. scan' \in {scan, 0, scan + 1} /\ (scan' = scan + 1 => scan + 1 < ScanInterval)
      BY <1>2, Limits DEF DrainTick, Counted
    <3>2. idle' \in {0, 1, idle, idle + 1} /\ stable' \in {0, stable + 1}
      BY <1>2, Limits DEF DrainTick, Counted
    <3> QED BY <1>2, <3>1, <3>2 DEF DrainTick, threadVars, restVars
  <2>2. Counted'
    BY <2>1, Limits DEF Counted, Before
  <2>3. Typed'
    <3>1. req' \in [Clients -> {"no", "ring", "sending", "async", "done"}]
      BY <1>2 DEF DrainTick, Answer, Typed
    <3>2. sig' \in [Clients -> {"no", "term", "kill"}]
      BY <1>2 DEF DrainTick, Typed
    <3>3. present' \in BOOLEAN /\ killed' \in BOOLEAN
      BY <1>2 DEF DrainTick, Typed
    <3>4. mpc' \in Phases
      BY <2>1 DEF Typed
    <3>5. UNCHANGED << client, asked, threadVars, pids, restVars >>
      BY <1>2 DEF DrainTick
    <3> QED BY <3>1, <3>2, <3>3, <3>4, <3>5 DEF Typed, threadVars, restVars
  <2> QED BY <2>2, <2>3
<1> QED BY <1>1, <1>2

\* Clients, kernel, threads and renderer keep their types.
LEMMA OthersCount ==
  ASSUME Typed, Counted,
         \/ Removed \/ Relay \/ ResourceThread \/ DrainThread \/ Die
         \/ Terminate \/ ConnectionLost
         \/ \E c \in Clients : Return(c) \/ Cleaned(c) \/ Submit(c) \/ Exit(c) \/ Fence(c)
  PROVE  Typed' /\ Counted'
<1> USE Limits DEF clientVars, threadVars, drainVars, restVars
<1>1. CASE Removed
  <2>1. Typed'
    BY <1>1 DEF Removed, Typed, Phases
  <2>2. Counted'
    BY <1>1 DEF Removed, Counted, Before
  <2> QED BY <2>1, <2>2
<1>2. CASE Relay
  <2>1. message' \in BOOLEAN /\ room' \in 0 .. PipeRoom
    <3>1. message' \in BOOLEAN
      BY <1>2 DEF Relay, Typed
    <3>2. room' \in 0 .. PipeRoom
      BY <1>2 DEF Relay, Counted
    <3> QED BY <3>1, <3>2
  <2>2. UNCHANGED << clientVars, asked, renderer, relay, rthread, stopped, input,
                     mpc, pids, drainVars, restVars >>
    BY <1>2 DEF Relay
  <2>3. Typed'
    BY <2>1, <2>2 DEF Typed
  <2>4. Counted'
    BY <2>1, <2>2 DEF Counted
  <2> QED BY <2>3, <2>4
<1>3. CASE ResourceThread
  <2>1. Typed'
    BY <1>3 DEF ResourceThread, Typed
  <2>2. Counted'
    BY <1>3 DEF ResourceThread, Counted
  <2> QED BY <2>1, <2>2
<1>4. CASE DrainThread
  <2>1. Typed'
    BY <1>4 DEF DrainThread, Answer, Typed
  <2>2. Counted'
    BY <1>4 DEF DrainThread, Counted
  <2> QED BY <2>1, <2>2
<1>5. CASE Die
  <2>1. Typed'
    BY <1>5 DEF Die, Typed
  <2>2. Counted'
    BY <1>5 DEF Die, Counted
  <2> QED BY <2>1, <2>2
<1>6. CASE Terminate \/ ConnectionLost
  <2>1. /\ asked' = TRUE /\ relay' \in BOOLEAN
        /\ mpc' = IF mpc = "write" THEN "serve" ELSE mpc
        /\ req' = [c \in Clients |-> IF req[c] = "sending" THEN "async" ELSE req[c]]
        /\ UNCHANGED << client, sig, submits, room, renderer, message, rthread, stopped,
                        input, pids, drainVars, restVars >>
    BY <1>6 DEF Terminate, ConnectionLost, Interrupt
  <2>2. Typed'
    BY <2>1 DEF Typed, Phases
  <2>3. Counted'
    BY <2>1 DEF Counted, Before
  <2> QED BY <2>2, <2>3
<1>7. ASSUME NEW c \in Clients, Return(c) \/ Cleaned(c) \/ Submit(c) \/ Exit(c) \/ Fence(c)
      PROVE  Typed' /\ Counted'
  <2>1. client' \in [Clients -> {"free", "ioctl", "cleanup", "gone"}]
    BY <1>7 DEF Return, Cleaned, Submit, Exit, Fence, Typed
  <2>2. req' \in [Clients -> {"no", "ring", "sending", "async", "done"}]
    BY <1>7 DEF Return, Cleaned, Submit, Exit, Fence, Typed
  <2>3. submits' \in 0 .. MaxSubmits
    BY <1>7 DEF Return, Cleaned, Submit, Exit, Fence, Counted
  <2>4. UNCHANGED << sig, asked, threadVars, mpc, pids, drainVars, restVars >>
    BY <1>7 DEF Return, Cleaned, Submit, Exit, Fence
  <2>5. Typed'
    BY <2>1, <2>2, <2>4 DEF Typed
  <2>6. Counted'
    BY <2>3, <2>4 DEF Counted
  <2> QED BY <2>5, <2>6
<1> QED BY <1>1, <1>2, <1>3, <1>4, <1>5, <1>6, <1>7

\* So does the main thread.
LEMMA MainCounts ==
  ASSUME Typed, Counted, Main
  PROVE  Typed' /\ Counted'
<1> USE Limits DEF clientVars, threadVars, drainVars, restVars
<1>1. CASE Loop
  <2>1. Typed'
    BY <1>1 DEF Loop, Typed, Phases
  <2>2. Counted'
    BY <1>1 DEF Loop, Counted, Before
  <2> QED BY <2>1, <2>2
<1>2. CASE Grace
  <2>1. "find" \in Phases /\ "find" \notin {"grace", "cleanup", "stable", "flush"} \cup Before
    BY DEF Phases, Before
  <2> QED BY <1>2, <2>1, DrainCounts DEF Grace
<1>3. CASE Cleanup
  <2>1. "join" \in Phases /\ "join" \notin {"grace", "cleanup", "stable", "flush"} \cup Before
    BY DEF Phases, Before
  <2> QED BY <1>3, <2>1, DrainCounts DEF Cleanup
<1>4. CASE FindUsers
  <2>1. Typed'
    <3>1. mpc' \in Phases
      BY <1>4 DEF FindUsers, Phases
    <3>2. pids' \subseteq Clients
      BY <1>4 DEF FindUsers, Alive
    <3>3. sig' \in [Clients -> {"no", "term", "kill"}]
      <4> DEFINE new(c) == IF c \in Alive THEN "term" ELSE sig[c]
      <4>1. \A c \in Clients : new(c) \in {"no", "term", "kill"}
        BY DEF Typed
      <4>2. sig' = [c \in Clients |-> new(c)]
        BY <1>4 DEF FindUsers
      <4> HIDE DEF new
      <4> QED BY <4>1, <4>2
    <3>4. present' \in BOOLEAN /\ killed' \in BOOLEAN
      BY <1>4 DEF FindUsers
    <3>5. UNCHANGED << client, req, submits, asked, threadVars, restVars >>
      BY <1>4 DEF FindUsers
    <3> QED BY <3>1, <3>2, <3>3, <3>4, <3>5 DEF Typed
  <2>2. Counted'
    BY <1>4 DEF FindUsers, Counted, Before
  <2> QED BY <2>1, <2>2
<1>5. CASE Join
  <2>1. Typed'
    <3>1. stopped' \in BOOLEAN
      BY <1>5 DEF Join, Typed
    <3>2. mpc' \in Phases
      BY <1>5 DEF Join, Typed, Phases
    <3> QED BY <1>5, <3>1, <3>2 DEF Join, Typed
  <2>2. Counted'
    BY <1>5 DEF Join, Counted, Before
  <2> QED BY <2>1, <2>2
<1>6. CASE Flush
  <2>1. Typed'
    BY <1>6 DEF Flush, Answer, Typed, Phases
  <2>2. pass' = pass + 1 /\ mpc = "flush" /\ (mpc' = "flush" => pass' < MaxPasses)
        /\ mpc' \in {"flush", "stable"} /\ stable = 0
        /\ UNCHANGED << submits, room, elapsed, idle, scan, stable >>
    BY <1>6 DEF Flush, Counted
  <2>3. Counted'
    BY <2>2 DEF Counted, Before
  <2> QED BY <2>1, <2>3
<1>7. CASE FlushStable
  <2>1. Typed'
    BY <1>7 DEF FlushStable, Answer, Typed, Phases
  <2>2. Counted'
    BY <1>7 DEF FlushStable, Counted, Before
  <2> QED BY <2>1, <2>2
<1>8. CASE StopInput \/ StartDrainer
  <2>1. Typed'
    <3>1. CASE StopInput
      <4>1. input' \in BOOLEAN /\ mpc' \in Phases
        BY <3>1 DEF StopInput, Phases
      <4> QED BY <3>1, <4>1 DEF StopInput, Typed
    <3>2. CASE StartDrainer
      BY <1>8, <3>2 DEF StartDrainer, Answer, Typed, Phases
    <3> QED BY <1>8, <3>1, <3>2
  <2>2. Counted'
    BY <1>8 DEF StopInput, StartDrainer, Counted, Before
  <2> QED BY <2>1, <2>2
<1>9. CASE Release \/ Unload
  <2>1. Typed'
    <3>1. CASE Release
      <4>1. mapped' \in BOOLEAN /\ mpc' \in Phases /\ drainer' \in {"no", "run", "gone"}
        BY <3>1 DEF Release, Phases
      <4> QED BY <3>1, <4>1 DEF Release, Typed
    <3>2. CASE Unload
      <4>1. relay' \in BOOLEAN /\ loaded' \in BOOLEAN /\ mpc' \in Phases
        BY <3>2 DEF Unload, Phases
      <4> QED BY <3>2, <4>1 DEF Unload, Typed
    <3> QED BY <1>9, <3>1, <3>2
  <2>2. Counted'
    BY <1>9 DEF Release, Unload, Counted, Before
  <2> QED BY <2>1, <2>2
<1>10. ASSUME NEW c \in Clients, Take(c) \/ Write(c) PROVE Typed' /\ Counted'
  <2>1. Typed'
    <3>1. req' \in [Clients -> {"no", "ring", "sending", "async", "done"}]
      BY <1>10 DEF Take, Write, Typed
    <3>2. mpc' \in Phases
      BY <1>10 DEF Take, Write, Phases
    <3>3. UNCHANGED << client, sig, submits, asked, renderer, relay, message, rthread,
                       stopped, input, pids, drainVars, restVars >>
      BY <1>10 DEF Take, Write
    <3> QED BY <3>1, <3>2, <3>3 DEF Typed
  <2>2. Counted'
    BY <1>10 DEF Take, Write, Counted, Before
  <2> QED BY <2>1, <2>2
<1> QED BY <1>1, <1>2, <1>3, <1>4, <1>5, <1>6, <1>7, <1>8, <1>9, <1>10 DEF Main

\* The variables keep their types and the counters their limits, whatever those are.
THEOREM ShutdownTypeCorrect == Spec => []TypeOK
<1>1. Init => Typed /\ Counted
  <2> SUFFICES ASSUME Init PROVE Typed /\ Counted
    OBVIOUS
  <2>1. Typed
    BY DEF Init, Typed, Phases
  <2>2. Counted
    BY Limits DEF Init, Counted, Before
  <2> QED BY <2>1, <2>2
<1>2. Typed /\ Counted /\ [Next]_vars => (Typed /\ Counted)'
  <2> SUFFICES ASSUME Typed, Counted, [Next]_vars PROVE Typed' /\ Counted'
    OBVIOUS
  <2>1. CASE UNCHANGED vars
    <3> USE DEF vars, clientVars, threadVars, drainVars, restVars
    <3>1. Typed'
      BY <2>1 DEF Typed
    <3>2. Counted'
      BY <2>1 DEF Counted
    <3> QED BY <3>1, <3>2
  <2> QED BY <2>1, OthersCount, MainCounts DEF Next, Kernel
<1>3. Typed /\ Counted => TypeOK
  BY Limits DEF Typed, Counted, TypeOK
<1> QED BY <1>1, <1>2, <1>3, PTL DEF Spec

(***************************************************************************)
(* The relay.                                                              *)
(***************************************************************************)

\* The sockets, pipes and counters of the channels.
RelayTyped ==
  /\ inited \in BOOLEAN /\ interrupted \in BOOLEAN
  /\ pc \in {"init", "connect", "poll", "events", "done"} /\ stage \in {"cmd", "res"}
  /\ sock \in [Tcp!Chans -> {"none", "open"}]
  /\ todo \subseteq Tcp!Op
  /\ pipeIn \subseteq Tcp!Chans /\ sockOut \subseteq Tcp!Chans
  /\ cause \in Tcp!Chans \cup {<< "none", 0 >>}
  /\ closed \in [Tcp!Chans -> {"no", "eof", "error"}]

OutTyped ==
  /\ wrote \in [Tcp!Chans -> Nat] /\ snd \in [Tcp!Chans -> Nat] /\ rgot \in [Tcp!Chans -> Nat]
  /\ writing \subseteq Tcp!Chans
  /\ \A c \in Tcp!Chans : /\ snd[c] <= PipeCap /\ wrote[c] <= MaxUnits
                          /\ Tcp!OnWayOut(c) \in 0 .. SockCap
                          /\ c \in writing => wrote[c] < MaxUnits

InTyped ==
  /\ rsent \in [Tcp!Chans -> Nat] /\ rcv \in [Tcp!Chans -> Nat] /\ pgot \in [Tcp!Chans -> Nat]
  /\ \A c \in Tcp!Chans : /\ rcv[c] <= PipeCap /\ rsent[c] <= MaxSent
                          /\ Tcp!OnWayIn(c) \in 0 .. SockCap

\* The sockets of a stage are connected before the next stage begins.
Stages ==
  /\ stage = "res" => \A c \in Tcp!Chans :
       c[1] = "cmd" /\ c[2] \in Reachable => sock[c] = "open"
  /\ Tcp!AllConnected

\* The channel whose end stopped the relay is closed, and nothing is in it.
Ended ==
  cause \in Tcp!Chans =>
    pc = "done" /\ closed[cause] = "eof" /\ Tcp!OnWayIn(cause) = 0

RelayInv == RelayTyped /\ OutTyped /\ InTyped

\* What the assumption says of the bounds.
LEMMA RelayBounds ==
  /\ Renderers \in Nat \ {0} /\ Kinds \subseteq {"cmd", "res"}
  /\ PipeCap \in Nat \ {0} /\ SockCap \in Nat \ {0} /\ MaxUnits \in Nat /\ MaxSent \in Nat
  /\ Signals \in BOOLEAN /\ << "none", 0 >> \notin Tcp!Chans
  /\ \A c \in Tcp!Chans : c[1] \in {"cmd", "res"} /\ c[1] \in Kinds
<1>1. /\ Renderers \in Nat \ {0} /\ Kinds \subseteq {"cmd", "res"}
      /\ PipeCap \in Nat \ {0} /\ SockCap \in Nat \ {0} /\ MaxUnits \in Nat /\ MaxSent \in Nat
      /\ Signals \in BOOLEAN
  BY PartsAssumption DEF Tcp!ConstantsAssumption
<1> QED BY <1>1 DEF Tcp!Chans

\* The types of the relay's own variables.
LEMMA RelayTypes ==
  ASSUME RelayTyped, Tcp!Next
  PROVE  RelayTyped'
<1> USE DEF Tcp!relayVars, Tcp!outVars, Tcp!inVars
<1>1. CASE Tcp!Inited
  BY <1>1 DEF Tcp!Inited, RelayTyped
<1>2. CASE Tcp!StartConnect \/ Tcp!GiveUp
  BY <1>2 DEF Tcp!StartConnect, Tcp!GiveUp, RelayTyped
<1>3. CASE Tcp!ConnectEnds
  BY <1>3 DEF Tcp!ConnectEnds, Tcp!EndStage, RelayTyped
<1>4. CASE Tcp!Poll
  <2>1. /\ Tcp!Filled \subseteq Tcp!Chans
        /\ [dir : {"out"}, chan : Tcp!Writable] \cup [dir : {"in"}, chan : Tcp!Readable]
             \subseteq Tcp!Op
    BY <1>4 DEF Tcp!Filled, Tcp!Writable, Tcp!Readable, Tcp!Open, Tcp!Op, RelayTyped
  <2>2. CASE Tcp!Failed # {}
    BY <1>4, <2>2 DEF Tcp!Poll, RelayTyped
  <2>3. CASE Tcp!Failed = {}
    BY <1>4, <2>1, <2>3 DEF Tcp!Poll, RelayTyped
  <2> QED BY <2>2, <2>3
<1>5. CASE Tcp!EventsDone
  BY <1>5 DEF Tcp!EventsDone, RelayTyped
<1>6. ASSUME NEW c \in Tcp!Chans, Tcp!Connect(c) PROVE RelayTyped'
  BY <1>6 DEF Tcp!Connect, RelayTyped
<1>7. ASSUME NEW c \in Tcp!Chans, Tcp!SpliceOut(c) PROVE RelayTyped'
  BY <1>7 DEF Tcp!SpliceOut, RelayTyped
<1>8. ASSUME NEW c \in Tcp!Chans, Tcp!SpliceIn(c) PROVE RelayTyped'
  BY <1>8 DEF Tcp!SpliceIn, RelayTyped
<1>9. ASSUME NEW c \in Tcp!Chans, Tcp!Write(c) PROVE RelayTyped'
  BY <1>9 DEF Tcp!Write, RelayTyped
<1>10. ASSUME NEW k \in Kinds, Tcp!BeginSend(k) PROVE RelayTyped'
  BY <1>10 DEF Tcp!BeginSend, RelayTyped
<1>11. ASSUME NEW c \in Tcp!Chans,
              Tcp!Read(c) \/ Tcp!RendererReads(c) \/ Tcp!RendererSends(c)
       PROVE  RelayTyped'
  BY <1>11 DEF Tcp!Read, Tcp!RendererReads, Tcp!RendererSends, RelayTyped
<1>12. ASSUME NEW c \in Tcp!Chans, NEW how \in {"eof", "error"}, Tcp!RendererCloses(c, how)
       PROVE  RelayTyped'
  BY <1>12 DEF Tcp!RendererCloses, RelayTyped
<1> QED
  BY <1>1, <1>2, <1>3, <1>4, <1>5, <1>6, <1>7, <1>8, <1>9, <1>10, <1>11, <1>12
     DEF Tcp!Next, Tcp!Relay, Tcp!Main

\* The bytes towards the renderers: no pipe or socket holds more than it can.
LEMMA OutTypes ==
  ASSUME RelayTyped, OutTyped, Tcp!Next
  PROVE  OutTyped'
<1> USE DEF Tcp!relayVars, Tcp!outVars, Tcp!inVars
<1>1. ASSUME UNCHANGED << wrote, snd, rgot, writing >> PROVE OutTyped'
  BY <1>1 DEF OutTyped, Tcp!OnWayOut
<1>2. ASSUME NEW c \in Tcp!Chans, Tcp!SpliceOut(c) PROVE OutTyped'
  <2>1. PICK n \in 1 .. PipeCap : /\ n <= snd[c] /\ n <= SockCap - Tcp!OnWayOut(c)
                                  /\ snd' = [snd EXCEPT ![c] = @ - n]
                                  /\ UNCHANGED << wrote, rgot, writing >>
    BY <1>2 DEF Tcp!SpliceOut
  <2>2. n \in Nat
    BY <2>1, RelayBounds
  <2>3. ASSUME NEW d \in Tcp!Chans
        PROVE  /\ snd'[d] \in Nat /\ snd'[d] <= PipeCap
               /\ Tcp!OnWayOut(d)' \in 0 .. SockCap
    BY <2>1, <2>2, <2>3, RelayBounds DEF OutTyped, Tcp!OnWayOut
  <2> QED BY <2>1, <2>3 DEF OutTyped
<1>3. ASSUME NEW c \in Tcp!Chans, Tcp!Write(c) PROVE OutTyped'
  <2>1. /\ c \in writing /\ snd[c] < PipeCap /\ writing' = writing \ {c} /\ rgot' = rgot
        /\ wrote' = [wrote EXCEPT ![c] = @ + 1] /\ snd' = [snd EXCEPT ![c] = @ + 1]
    BY <1>3 DEF Tcp!Write
  <2>2. ASSUME NEW d \in Tcp!Chans
        PROVE  /\ wrote'[d] \in Nat /\ snd'[d] \in Nat
               /\ snd'[d] <= PipeCap /\ wrote'[d] <= MaxUnits
               /\ Tcp!OnWayOut(d)' \in 0 .. SockCap
               /\ d \in writing' => wrote'[d] < MaxUnits
    BY <2>1, <2>2, RelayBounds DEF OutTyped, Tcp!OnWayOut
  <2> QED BY <2>1, <2>2 DEF OutTyped
<1>4. ASSUME NEW k \in Kinds, Tcp!BeginSend(k) PROVE OutTyped'
  <2>1. {k} \X Tcp!Hosts \subseteq Tcp!Chans
    BY DEF Tcp!Chans
  <2> QED BY <1>4, <2>1 DEF Tcp!BeginSend, OutTyped, Tcp!OnWayOut
<1>5. ASSUME NEW c \in Tcp!Chans, Tcp!RendererReads(c) PROVE OutTyped'
  <2>1. /\ Tcp!OnWayOut(c) > 0 /\ rgot' = [rgot EXCEPT ![c] = @ + 1]
        /\ UNCHANGED << wrote, snd, writing >>
    BY <1>5 DEF Tcp!RendererReads
  <2>2. ASSUME NEW d \in Tcp!Chans
        PROVE  rgot'[d] \in Nat /\ Tcp!OnWayOut(d)' \in 0 .. SockCap
    BY <2>1, <2>2, RelayBounds DEF OutTyped, Tcp!OnWayOut
  <2> QED BY <2>1, <2>2 DEF OutTyped
<1>6. CASE \/ Tcp!Inited \/ Tcp!StartConnect \/ Tcp!GiveUp
           \/ Tcp!ConnectEnds \/ Tcp!Poll \/ Tcp!EventsDone
  BY <1>1, <1>6 DEF Tcp!Inited, Tcp!StartConnect, Tcp!GiveUp, Tcp!ConnectEnds,
                     Tcp!Poll, Tcp!EventsDone
<1>7. ASSUME NEW c \in Tcp!Chans, NEW how \in {"eof", "error"},
             \/ Tcp!Connect(c) \/ Tcp!SpliceIn(c) \/ Tcp!Read(c) \/ Tcp!RendererSends(c)
             \/ Tcp!RendererCloses(c, how)
      PROVE  OutTyped'
  BY <1>1, <1>7 DEF Tcp!Connect, Tcp!SpliceIn, Tcp!Read, Tcp!RendererSends, Tcp!RendererCloses
<1> QED
  BY <1>2, <1>3, <1>4, <1>5, <1>6, <1>7 DEF Tcp!Next, Tcp!Relay, Tcp!Main

\* The bytes from the renderers.
LEMMA InTypes ==
  ASSUME RelayTyped, InTyped, Tcp!Next
  PROVE  InTyped'
<1> USE DEF Tcp!relayVars, Tcp!outVars, Tcp!inVars
<1>1. ASSUME UNCHANGED << rsent, rcv, pgot >> PROVE InTyped'
  BY <1>1 DEF InTyped, Tcp!OnWayIn
<1>2. ASSUME NEW c \in Tcp!Chans, Tcp!SpliceIn(c) PROVE InTyped'
  <2>1. CASE Tcp!AtEnd(c)
    BY <1>1, <1>2, <2>1 DEF Tcp!SpliceIn
  <2>2. CASE ~Tcp!AtEnd(c)
    <3>1. PICK n \in 1 .. SockCap : /\ n <= Tcp!OnWayIn(c) /\ n <= PipeCap - rcv[c]
                                    /\ rcv' = [rcv EXCEPT ![c] = @ + n]
                                    /\ UNCHANGED << rsent, pgot >>
      BY <1>2, <2>2 DEF Tcp!SpliceIn
    <3>2. n \in Nat
      BY <3>1, RelayBounds
    <3>3. ASSUME NEW d \in Tcp!Chans
          PROVE  /\ rcv'[d] \in Nat /\ rcv'[d] <= PipeCap
                 /\ Tcp!OnWayIn(d)' \in 0 .. SockCap
      BY <3>1, <3>2, <3>3, RelayBounds DEF InTyped, Tcp!OnWayIn
    <3> QED BY <3>1, <3>3 DEF InTyped
  <2> QED BY <2>1, <2>2
<1>3. ASSUME NEW c \in Tcp!Chans, Tcp!Read(c) PROVE InTyped'
  <2>1. /\ rcv[c] > 0 /\ rsent' = rsent /\ rcv' = [rcv EXCEPT ![c] = @ - 1]
        /\ pgot' = [pgot EXCEPT ![c] = @ + 1]
    BY <1>3 DEF Tcp!Read
  <2>2. ASSUME NEW d \in Tcp!Chans
        PROVE  /\ rcv'[d] \in Nat /\ pgot'[d] \in Nat /\ rcv'[d] <= PipeCap
               /\ Tcp!OnWayIn(d)' \in 0 .. SockCap
    BY <2>1, <2>2, RelayBounds DEF InTyped, Tcp!OnWayIn
  <2> QED BY <2>1, <2>2 DEF InTyped
<1>4. ASSUME NEW c \in Tcp!Chans, Tcp!RendererSends(c) PROVE InTyped'
  <2>1. /\ rsent[c] < MaxSent /\ Tcp!OnWayIn(c) < SockCap
        /\ rsent' = [rsent EXCEPT ![c] = @ + 1] /\ UNCHANGED << rcv, pgot >>
    BY <1>4 DEF Tcp!RendererSends
  <2>2. ASSUME NEW d \in Tcp!Chans
        PROVE  /\ rsent'[d] \in Nat /\ rsent'[d] <= MaxSent
               /\ Tcp!OnWayIn(d)' \in 0 .. SockCap
    BY <2>1, <2>2, RelayBounds DEF InTyped, Tcp!OnWayIn
  <2> QED BY <2>1, <2>2 DEF InTyped
<1>5. CASE \/ Tcp!Inited \/ Tcp!StartConnect \/ Tcp!GiveUp
           \/ Tcp!ConnectEnds \/ Tcp!Poll \/ Tcp!EventsDone
  BY <1>1, <1>5 DEF Tcp!Inited, Tcp!StartConnect, Tcp!GiveUp, Tcp!ConnectEnds,
                     Tcp!Poll, Tcp!EventsDone
<1>6. ASSUME NEW c \in Tcp!Chans, NEW how \in {"eof", "error"},
             \/ Tcp!Connect(c) \/ Tcp!SpliceOut(c) \/ Tcp!Write(c) \/ Tcp!RendererReads(c)
             \/ Tcp!RendererCloses(c, how)
      PROVE  InTyped'
  BY <1>1, <1>6 DEF Tcp!Connect, Tcp!SpliceOut, Tcp!Write, Tcp!RendererReads,
                    Tcp!RendererCloses
<1>7. ASSUME NEW k \in Kinds, Tcp!BeginSend(k) PROVE InTyped'
  BY <1>1, <1>7 DEF Tcp!BeginSend
<1> QED
  BY <1>2, <1>3, <1>4, <1>5, <1>6, <1>7 DEF Tcp!Next, Tcp!Relay, Tcp!Main

\* Sockets are connected stage by stage and stay connected.
LEMMA StagesKept ==
  ASSUME ~Signals, RelayTyped, Stages, Tcp!Next
  PROVE  Stages'
<1> USE DEF Tcp!relayVars, Tcp!outVars, Tcp!inVars
<1>1. ASSUME UNCHANGED << stage, sock >>,
             pc' \in {"poll", "events"} => pc \in {"poll", "events"}
      PROVE  Stages'
  BY <1>1 DEF Stages, Tcp!AllConnected
<1>2. CASE Tcp!ConnectEnds
  <2>1. /\ Tcp!Connected /\ sock' = sock
        /\ IF stage = "cmd" /\ "res" \in Kinds THEN stage' = "res" /\ pc' = "connect"
                                               ELSE stage' = stage
    BY <1>2 DEF Tcp!ConnectEnds, Tcp!EndStage
  <2>2. stage = "cmd" => \A c \in Tcp!Chans :
          c[1] = "cmd" /\ c[2] \in Reachable => sock[c] = "open"
    BY <2>1 DEF Tcp!Connected
  <2>3. CASE stage = "cmd" /\ "res" \in Kinds
    BY <2>1, <2>2, <2>3 DEF Stages, Tcp!AllConnected
  <2>4. CASE stage = "cmd" /\ "res" \notin Kinds
    <3>1. \A c \in Tcp!Chans : c[1] = "cmd"
      BY <2>4, RelayBounds
    <3> QED BY <2>1, <2>2, <2>4, <3>1 DEF Stages, Tcp!AllConnected
  <2>5. CASE stage = "res"
    <3>1. \A c \in Tcp!Chans : c[2] \in Reachable => sock[c] = "open"
      BY <2>1, <2>5, RelayBounds DEF Stages, Tcp!Connected
    <3> QED BY <2>1, <2>5, <3>1 DEF Stages, Tcp!AllConnected
  <2> QED BY <2>3, <2>4, <2>5 DEF RelayTyped
<1>3. ASSUME NEW c \in Tcp!Chans, Tcp!Connect(c) PROVE Stages'
  BY <1>3 DEF Tcp!Connect, Stages, Tcp!AllConnected, RelayTyped
<1>4. CASE Tcp!Inited \/ Tcp!StartConnect \/ Tcp!GiveUp \/ Tcp!EventsDone
  BY <1>1, <1>4 DEF Tcp!Inited, Tcp!StartConnect, Tcp!GiveUp, Tcp!EventsDone
<1>5. CASE Tcp!Poll
  BY <1>1, <1>5 DEF Tcp!Poll
<1>6. ASSUME NEW c \in Tcp!Chans, Tcp!SpliceOut(c) \/ Tcp!SpliceIn(c)
      PROVE  Stages'
  BY <1>1, <1>6 DEF Tcp!SpliceOut, Tcp!SpliceIn, Tcp!Turn
<1>7. ASSUME NEW k \in Kinds, Tcp!BeginSend(k) PROVE Stages'
  BY <1>1, <1>7 DEF Tcp!BeginSend
<1>8. ASSUME NEW c \in Tcp!Chans, NEW how \in {"eof", "error"},
             \/ Tcp!Write(c) \/ Tcp!Read(c) \/ Tcp!RendererReads(c) \/ Tcp!RendererSends(c)
             \/ Tcp!RendererCloses(c, how)
      PROVE  Stages'
  BY <1>1, <1>8 DEF Tcp!Write, Tcp!Read, Tcp!RendererReads, Tcp!RendererSends,
                    Tcp!RendererCloses
<1> QED
  BY <1>2, <1>3, <1>4, <1>5, <1>6, <1>7, <1>8 DEF Tcp!Next, Tcp!Relay, Tcp!Main

\* Once the end of a connection was read nothing is spliced, and nothing is sent
\* on it.
LEMMA EndedKept ==
  ASSUME RelayTyped, InTyped, Ended, Tcp!Next
  PROVE  Ended'
<1> USE DEF Tcp!relayVars, Tcp!outVars, Tcp!inVars
<1>1. ASSUME UNCHANGED << cause, closed, rsent, rcv, pgot >>, pc = "done" => pc' = "done"
      PROVE  Ended'
  BY <1>1 DEF Ended, Tcp!OnWayIn
<1>2. ASSUME NEW c \in Tcp!Chans, Tcp!SpliceIn(c) PROVE Ended'
  <2>1. pc = "events" /\ cause \notin Tcp!Chans
    BY <1>2 DEF Tcp!SpliceIn, Tcp!Turn, Ended
  <2>2. CASE Tcp!AtEnd(c)
    BY <1>2, <2>2 DEF Tcp!SpliceIn, Tcp!AtEnd, Ended, Tcp!OnWayIn
  <2>3. CASE ~Tcp!AtEnd(c)
    BY <1>2, <2>1, <2>3 DEF Tcp!SpliceIn, Ended
  <2> QED BY <2>2, <2>3
<1>3. ASSUME NEW c \in Tcp!Chans, Tcp!Read(c) PROVE Ended'
  <2>1. UNCHANGED << cause, closed, pc >>
    BY <1>3 DEF Tcp!Read
  <2>2. \A d \in Tcp!Chans : Tcp!OnWayIn(d)' = Tcp!OnWayIn(d)
    BY <1>3 DEF Tcp!Read, InTyped, Tcp!OnWayIn
  <2>3. cause \in Tcp!Chans => (Tcp!OnWayIn(cause))' = Tcp!OnWayIn(cause)
    <3>1. PICK d : d = cause
      OBVIOUS
    <3>2. d' = d /\ (d \in Tcp!Chans => Tcp!OnWayIn(d)' = Tcp!OnWayIn(d))
      BY <2>2
    <3> QED BY <2>1, <3>1, <3>2 DEF Tcp!OnWayIn
  <2> QED BY <2>1, <2>3 DEF Ended
<1>4. ASSUME NEW c \in Tcp!Chans, Tcp!RendererSends(c) PROVE Ended'
  BY <1>4 DEF Tcp!RendererSends, Ended, Tcp!OnWayIn, InTyped
<1>5. ASSUME NEW c \in Tcp!Chans, NEW how \in {"eof", "error"}, Tcp!RendererCloses(c, how)
      PROVE  Ended'
  BY <1>5 DEF Tcp!RendererCloses, Ended, Tcp!OnWayIn, RelayTyped
<1>6. CASE Tcp!Inited \/ Tcp!StartConnect \/ Tcp!GiveUp \/ Tcp!ConnectEnds \/ Tcp!EventsDone
  BY <1>1, <1>6 DEF Tcp!Inited, Tcp!StartConnect, Tcp!GiveUp, Tcp!ConnectEnds, Tcp!EventsDone
<1>7. CASE Tcp!Poll
  BY <1>1, <1>7 DEF Tcp!Poll
<1>8. ASSUME NEW k \in Kinds, Tcp!BeginSend(k) PROVE Ended'
  BY <1>1, <1>8 DEF Tcp!BeginSend
<1>9. ASSUME NEW c \in Tcp!Chans,
             \/ Tcp!Connect(c) \/ Tcp!SpliceOut(c) \/ Tcp!Write(c) \/ Tcp!RendererReads(c)
      PROVE  Ended'
  BY <1>1, <1>9 DEF Tcp!Connect, Tcp!SpliceOut, Tcp!Write, Tcp!RendererReads
<1> QED
  BY <1>2, <1>3, <1>4, <1>5, <1>6, <1>7, <1>8, <1>9 DEF Tcp!Next, Tcp!Relay, Tcp!Main

\* In the beginning nothing is connected or sent.
LEMMA RelayInit == Tcp!Init => RelayInv /\ Stages /\ Ended
<1> SUFFICES ASSUME Tcp!Init PROVE RelayInv /\ Stages /\ Ended
  OBVIOUS
<1>1. RelayTyped /\ Stages /\ Ended
  BY RelayBounds DEF Tcp!Init, RelayTyped, Stages, Ended, Tcp!AllConnected
<1>2. OutTyped /\ InTyped
  BY RelayBounds DEF Tcp!Init, OutTyped, InTyped, Tcp!OnWayOut, Tcp!OnWayIn, Tcp!Zero
<1> QED BY <1>1, <1>2 DEF RelayInv

\* A step of the relay, of its users or of a renderer, or none.
LEMMA RelayStep ==
  ASSUME RelayInv, Ended, [Tcp!Next]_(Tcp!vars)
  PROVE  RelayInv' /\ Ended'
<1>1. CASE Tcp!Next
  BY <1>1, RelayTypes, OutTypes, InTypes, EndedKept DEF RelayInv
<1>2. CASE UNCHANGED Tcp!vars
  BY <1>2 DEF Tcp!vars, Tcp!relayVars, Tcp!outVars, Tcp!inVars, RelayInv, RelayTyped, OutTyped,
              InTyped, Ended, Tcp!OnWayOut, Tcp!OnWayIn
<1> QED BY <1>1, <1>2

\* The relay keeps its types, and no pipe or socket is filled beyond its room:
\* for any number of renderers, and whether or not polls are interrupted.
THEOREM RelayTypeCorrect == Tcp!Spec => []Tcp!TypeOK
<1>1. RelayInv => Tcp!TypeOK
  BY DEF RelayInv, RelayTyped, OutTyped, InTyped, Tcp!TypeOK
<1> QED BY <1>1, RelayInit, RelayStep, PTL DEF Tcp!Spec

\* A renderer that closes a socket in good order loses nothing it sent on it:
\* for any number of renderers, and whether or not polls are interrupted.
THEOREM LastWordsCorrect == Tcp!Spec => []Tcp!LastWordsKept
<1>1. RelayInv /\ Ended => Tcp!LastWordsKept
  BY DEF RelayInv, InTyped, Ended, Tcp!LastWordsKept, Tcp!OnWayIn
<1> QED BY <1>1, RelayInit, RelayStep, PTL DEF Tcp!Spec

\* The relay never begins to stream without a socket that it should wait for, as
\* long as no signal interrupts connect_hosts: for any number of renderers.
THEOREM ConnectedCorrect ==
  ASSUME ~Signals
  PROVE  Tcp!Spec => []Tcp!AllConnected
<1>1. RelayInv /\ Ended /\ Stages /\ [Tcp!Next]_(Tcp!vars) => Stages'
  <2> SUFFICES ASSUME RelayInv, Stages, [Tcp!Next]_(Tcp!vars) PROVE Stages'
    OBVIOUS
  <2>1. CASE Tcp!Next
    BY <2>1, StagesKept DEF RelayInv
  <2>2. CASE UNCHANGED Tcp!vars
    BY <2>2 DEF Tcp!vars, Tcp!relayVars, Stages, Tcp!AllConnected
  <2> QED BY <2>1, <2>2
<1>2. Stages => Tcp!AllConnected
  BY DEF Stages
<1> QED BY <1>1, <1>2, RelayInit, RelayStep, PTL DEF Tcp!Spec

(***************************************************************************)
(* The packets of one renderer.  A place in its stream is the number of    *)
(* events to come of the packet and the packet's number; a unit leads from *)
(* one place to the next.                                                  *)
(***************************************************************************)
Packets == 0 .. MaxPackets
Left    == 0 .. MaxEvents

\* The unit u, read where a events of packet n are to come, leaves b of m.
Leads(u, a, n, b, m) ==
  \/ a = 0 /\ b > 0 /\ m = n + 1 /\ u = [host |-> 0, packet |-> m, evnum |-> b]
  \/ a > 0 /\ b = a - 1 /\ m = n /\ u = [host |-> 0, packet |-> m, evnum |-> 0]

\* The units of q lead from one place to another one.
Stream(q, a, n, b, m) ==
  \E e \in [0 .. Len(q) -> Left], k \in [0 .. Len(q) -> Packets] :
    /\ e[0] = a /\ k[0] = n /\ e[Len(q)] = b /\ k[Len(q)] = m
    /\ \A i \in 1 .. Len(q) : Leads(q[i], e[i - 1], k[i - 1], e[i], k[i])

\* A unit is written at the end.
LEMMA StreamAppend ==
  ASSUME NEW q \in Seq(Input!Unit), NEW u \in Input!Unit, NEW a, NEW n, NEW b, NEW m,
         Stream(q, a, n, b, m), NEW c \in Left, NEW p \in Packets, Leads(u, b, m, c, p)
  PROVE  Stream(Append(q, u), a, n, c, p)
<1>1. PICK e \in [0 .. Len(q) -> Left], k \in [0 .. Len(q) -> Packets] :
        /\ e[0] = a /\ k[0] = n /\ e[Len(q)] = b /\ k[Len(q)] = m
        /\ \A i \in 1 .. Len(q) : Leads(q[i], e[i - 1], k[i - 1], e[i], k[i])
  BY DEF Stream
<1>2. /\ Len(q) \in Nat /\ Len(Append(q, u)) = Len(q) + 1
      /\ \A i \in 1 .. Len(q) : Append(q, u)[i] = q[i]
      /\ Append(q, u)[Len(q) + 1] = u
  BY AppendProperties, LenProperties
<1> DEFINE f == [i \in 0 .. Len(q) + 1 |-> IF i <= Len(q) THEN e[i] ELSE c]
           l == [i \in 0 .. Len(q) + 1 |-> IF i <= Len(q) THEN k[i] ELSE p]
<1>3. f \in [0 .. Len(q) + 1 -> Left] /\ l \in [0 .. Len(q) + 1 -> Packets]
  BY <1>1, <1>2
<1>4. f[0] = a /\ l[0] = n /\ f[Len(q) + 1] = c /\ l[Len(q) + 1] = p
  BY <1>1, <1>2
<1>5. ASSUME NEW i \in 1 .. Len(q) + 1
      PROVE  Leads(Append(q, u)[i], f[i - 1], l[i - 1], f[i], l[i])
  <2>1. CASE i = Len(q) + 1
    <3>1. f[i - 1] = b /\ l[i - 1] = m /\ f[i] = c /\ l[i] = p
      BY <1>1, <1>2, <2>1
    <3> QED BY <1>2, <2>1, <3>1
  <2>2. CASE i # Len(q) + 1
    <3>1. i \in 1 .. Len(q)
      BY <1>2, <2>2
    <3>2. f[i - 1] = e[i - 1] /\ l[i - 1] = k[i - 1] /\ f[i] = e[i] /\ l[i] = k[i]
      BY <1>2, <3>1
    <3> QED BY <1>1, <1>2, <3>1, <3>2
  <2> QED BY <2>1, <2>2
<1> HIDE DEF f, l
<1> QED BY <1>2, <1>3, <1>4, <1>5 DEF Stream

\* The first unit is read.
LEMMA StreamTail ==
  ASSUME NEW q \in Seq(Input!Unit), q # << >>, NEW a, NEW n, NEW b, NEW m,
         Stream(q, a, n, b, m)
  PROVE  \E c \in Left, p \in Packets : /\ Leads(Head(q), a, n, c, p)
                                        /\ Stream(Tail(q), c, p, b, m)
<1>1. PICK e \in [0 .. Len(q) -> Left], k \in [0 .. Len(q) -> Packets] :
        /\ e[0] = a /\ k[0] = n /\ e[Len(q)] = b /\ k[Len(q)] = m
        /\ \A i \in 1 .. Len(q) : Leads(q[i], e[i - 1], k[i - 1], e[i], k[i])
  BY DEF Stream
<1>2. /\ Len(q) \in Nat \ {0} /\ Head(q) = q[1] /\ Len(Tail(q)) = Len(q) - 1
      /\ \A i \in 1 .. Len(q) - 1 : Tail(q)[i] = q[i + 1]
  BY HeadTailProperties, EmptySeq, LenProperties
<1> DEFINE f == [i \in 0 .. Len(q) - 1 |-> e[i + 1]]
           l == [i \in 0 .. Len(q) - 1 |-> k[i + 1]]
<1>3. f \in [0 .. Len(q) - 1 -> Left] /\ l \in [0 .. Len(q) - 1 -> Packets]
  BY <1>1, <1>2
<1>4. /\ f[0] = e[1] /\ l[0] = k[1] /\ f[Len(q) - 1] = b /\ l[Len(q) - 1] = m
      /\ e[1] \in Left /\ k[1] \in Packets
  BY <1>1, <1>2
<1>5. ASSUME NEW i \in 1 .. Len(q) - 1
      PROVE  Leads(Tail(q)[i], f[i - 1], l[i - 1], f[i], l[i])
  <2>1. f[i - 1] = e[i] /\ l[i - 1] = k[i] /\ f[i] = e[i + 1] /\ l[i] = k[i + 1]
    BY <1>2
  <2>2. i + 1 \in 1 .. Len(q) /\ (i + 1) - 1 = i
    BY <1>2
  <2>3. Leads(q[i + 1], e[i], k[i], e[i + 1], k[i + 1])
    BY <1>1, <2>2
  <2> QED BY <1>2, <2>1, <2>3
<1> HIDE DEF f, l
<1>6. Stream(Tail(q), e[1], k[1], b, m)
  BY <1>2, <1>3, <1>4, <1>5 DEF Stream
<1>7. Leads(Head(q), a, n, e[1], k[1])
  BY <1>1, <1>2
<1> QED BY <1>4, <1>6, <1>7

(***************************************************************************)
(* Where the input thread is in the stream.                                *)
(***************************************************************************)
Inside == {"events", "recvall", "serve"}
ToCome == IF ipc \in Inside THEN header.evnum - Len(got) ELSE 0
Number == IF ipc \in Inside THEN header.packet ELSE served[0]

\* The part of a packet it has read.
PartRead ==
  ipc \in Inside =>
    /\ header.host = 0 /\ header.packet = served[0] + 1
    /\ \A i \in 1 .. Len(got) :
         got[i] = [host |-> 0, packet |-> header.packet, evnum |-> 0]
    /\ ipc = "events" => got = << >>
    /\ ipc \in {"events", "recvall"} <=> Len(got) < header.evnum
    /\ Len(got) <= header.evnum

DemuxTyped ==
  /\ sent \in [{0} -> Packets] /\ owed \in [{0} -> Left] /\ (owed[0] > 0 => sent[0] > 0)
  /\ pipe \in [{0} -> Seq(Input!Unit)]
  /\ ipc \in {"header", "recv"} \cup Inside
  /\ src = 0 /\ from = 0
  /\ header \in Input!Unit \cup {<< >>} /\ (ipc \in Inside => header \in Input!Unit)
  /\ got \in Seq(Input!Unit) /\ served \in [{0} -> Nat]

DemuxInv ==
  DemuxTyped /\ PartRead /\ Stream(pipe[0], ToCome, Number, owed[0], sent[0])

\* What the assumption says of the packets.
LEMMA DemuxBounds ==
  ASSUME Renderers = 1
  PROVE  /\ MaxEvents \in Nat \ {0} /\ MaxPackets \in Nat /\ Input!Hosts = {0}
         /\ Left \subseteq Nat /\ Packets \subseteq Nat
<1>1. MaxEvents \in Nat \ {0} /\ MaxPackets \in Nat
  BY PartsAssumption DEF Input!ConstantsAssumption
<1> QED BY <1>1 DEF Input!Hosts, Left, Packets

\* A renderer writes the next unit of its stream.
LEMMA SendKeeps ==
  ASSUME Renderers = 1, DemuxInv,
         \/ Input!SendEvent(0)
         \/ \E n \in 1 .. MaxEvents : Input!SendHeader(0, n)
  PROVE  DemuxInv'
<1>1. /\ DemuxTyped /\ PartRead /\ pipe[0] \in Seq(Input!Unit)
      /\ owed[0] \in Left /\ sent[0] \in Packets
      /\ MaxEvents \in Nat \ {0} /\ MaxPackets \in Nat /\ Input!Hosts = {0}
  BY DemuxBounds DEF DemuxInv, DemuxTyped
<1>2. PICK u \in Input!Unit, b \in Left, m \in Packets :
        /\ Leads(u, owed[0], sent[0], b, m) /\ m > 0
        /\ sent' = [sent EXCEPT ![0] = m] /\ owed' = [owed EXCEPT ![0] = b]
        /\ pipe' = [pipe EXCEPT ![0] = Append(@, u)]
        /\ UNCHANGED << ipc, src, from, header, got, served >>
  <2>1. CASE Input!SendEvent(0)
    <3> DEFINE u == [host |-> 0, packet |-> sent[0], evnum |-> 0]
    <3>1. owed[0] > 0 /\ owed[0] - 1 \in Left
      BY <1>1, <2>1 DEF Input!SendEvent, Left
    <3>2. /\ sent' = [sent EXCEPT ![0] = sent[0]]
          /\ owed' = [owed EXCEPT ![0] = owed[0] - 1]
          /\ pipe' = [pipe EXCEPT ![0] = Append(@, u)]
          /\ UNCHANGED << ipc, src, from, header, got, served >>
      BY <1>1, <2>1 DEF Input!SendEvent, Input!threadVars, DemuxTyped
    <3>3. Leads(u, owed[0], sent[0], owed[0] - 1, sent[0])
      BY <3>1 DEF Leads
    <3>4. u \in Input!Unit
      <4>1. sent[0] \in 1 .. MaxPackets
        BY <1>1, <3>1 DEF DemuxTyped, Packets
      <4> QED BY <1>1, <4>1 DEF Input!Unit
    <3>5. sent[0] > 0
      BY <1>1, <3>1 DEF DemuxTyped
    <3> HIDE DEF u
    <3> QED BY <1>1, <3>1, <3>2, <3>3, <3>4, <3>5
  <2>2. ASSUME NEW n \in 1 .. MaxEvents, Input!SendHeader(0, n)
        PROVE  \E u \in Input!Unit, b \in Left, m \in Packets :
                 /\ Leads(u, owed[0], sent[0], b, m) /\ m > 0
                 /\ sent' = [sent EXCEPT ![0] = m] /\ owed' = [owed EXCEPT ![0] = b]
                 /\ pipe' = [pipe EXCEPT ![0] = Append(@, u)]
                 /\ UNCHANGED << ipc, src, from, header, got, served >>
    <3> DEFINE u == [host |-> 0, packet |-> sent[0] + 1, evnum |-> n]
    <3>1. n \in Left /\ n > 0 /\ sent[0] + 1 \in Packets /\ sent[0] + 1 \in 1 .. MaxPackets
      BY <1>1, <2>2 DEF Input!SendHeader, Left, Packets
    <3>2. u \in Input!Unit
      BY <1>1, <3>1 DEF Input!Unit, Left
    <3>3. sent' = [sent EXCEPT ![0] = sent[0] + 1] /\ sent'[0] = sent[0] + 1
      BY <1>1, <2>2 DEF Input!SendHeader, DemuxTyped
    <3>4. /\ owed[0] = 0 /\ owed' = [owed EXCEPT ![0] = n]
          /\ pipe' = [pipe EXCEPT ![0] = Append(@, u)]
          /\ UNCHANGED << ipc, src, from, header, got, served >>
      BY <2>2, <3>3 DEF Input!SendHeader, Input!threadVars
    <3>5. Leads(u, owed[0], sent[0], n, sent[0] + 1)
      BY <3>1, <3>4 DEF Leads
    <3>6. n \in Left /\ sent[0] + 1 \in Packets /\ sent[0] + 1 > 0
      BY <1>1, <3>1
    <3> HIDE DEF u
    <3> QED BY <3>2, <3>3, <3>4, <3>5, <3>6
  <2> QED BY <2>1, <2>2
<1>3. Stream(pipe[0], ToCome, Number, owed[0], sent[0])
  BY DEF DemuxInv
<1>4. Stream(Append(pipe[0], u), ToCome, Number, b, m)
  BY <1>1, <1>2, <1>3, StreamAppend
<1>5. /\ pipe'[0] = Append(pipe[0], u) /\ owed'[0] = b /\ sent'[0] = m
      /\ Append(pipe[0], u) \in Seq(Input!Unit)
  BY <1>1, <1>2 DEF DemuxTyped
<1>6. ToCome' = ToCome /\ Number' = Number
  BY <1>2 DEF ToCome, Number
<1>7. DemuxTyped' /\ PartRead'
  BY <1>1, <1>2, <1>5 DEF DemuxTyped, PartRead
<1> QED BY <1>4, <1>5, <1>6, <1>7 DEF DemuxInv

\* What the input thread finds in its pipe is the next unit of the stream.
LEMMA NextUnit ==
  ASSUME DemuxInv, pipe[0] # << >>
  PROVE  /\ Head(pipe[0]) \in Input!Unit /\ Tail(pipe[0]) \in Seq(Input!Unit)
         /\ \E c \in Left, p \in Packets :
              /\ Leads(Head(pipe[0]), ToCome, Number, c, p)
              /\ Stream(Tail(pipe[0]), c, p, owed[0], sent[0])
<1>1. pipe[0] \in Seq(Input!Unit)
  BY DEF DemuxInv, DemuxTyped
<1> QED BY <1>1, StreamTail, HeadTailProperties DEF DemuxInv

\* It chooses the only pipe,
LEMMA PollKeeps ==
  ASSUME Renderers = 1, DemuxInv, Input!Poll
  PROVE  DemuxInv'
<1>1. /\ ipc \in {"header", "events"} /\ from' = 0 /\ src' = 0
      /\ ipc' = IF ipc = "header" THEN "recv" ELSE "recvall"
      /\ UNCHANGED << sent, owed, pipe, header, got, served >>
  BY DemuxBounds DEF Input!Poll, DemuxInv, DemuxTyped
<1>2. ToCome' = ToCome /\ Number' = Number
  BY <1>1 DEF ToCome, Number, Inside
<1>3. DemuxTyped' /\ PartRead'
  BY <1>1 DEF DemuxInv, DemuxTyped, PartRead, Inside
<1> QED BY <1>1, <1>2, <1>3 DEF DemuxInv

\* reads a header where a packet begins,
LEMMA HeaderKeeps ==
  ASSUME Renderers = 1, DemuxInv, Input!RecvHeader
  PROVE  DemuxInv'
<1>1. /\ ipc = "recv" /\ pipe[0] # << >> /\ header' = Head(pipe[0])
      /\ pipe' = [pipe EXCEPT ![0] = Tail(@)] /\ got' = << >> /\ ipc' = "events"
      /\ UNCHANGED << sent, owed, src, from, served >>
  BY DEF Input!RecvHeader, DemuxInv, DemuxTyped
<1>2. PICK c \in Left, p \in Packets :
        /\ Leads(Head(pipe[0]), ToCome, Number, c, p)
        /\ Stream(Tail(pipe[0]), c, p, owed[0], sent[0])
  BY <1>1, NextUnit
<1>3. /\ Head(pipe[0]) \in Input!Unit /\ Tail(pipe[0]) \in Seq(Input!Unit)
      /\ pipe'[0] = Tail(pipe[0]) /\ c \in Nat /\ p \in Nat
  BY <1>1, NextUnit, DemuxBounds DEF DemuxInv, DemuxTyped
<1>4. /\ c > 0 /\ p = served[0] + 1
      /\ header' = [host |-> 0, packet |-> p, evnum |-> c]
  BY <1>1, <1>2 DEF Leads, ToCome, Number, Inside
<1>5. Len(got') = 0 /\ got' \in Seq(Input!Unit)
  BY <1>1, EmptySeq
<1>6. ToCome' = c /\ Number' = p
  BY <1>1, <1>3, <1>4, <1>5 DEF ToCome, Number, Inside
<1>7. DemuxTyped'
  BY <1>1, <1>3, <1>5 DEF DemuxInv, DemuxTyped, Inside
<1>8. PartRead'
  BY <1>1, <1>3, <1>4, <1>5 DEF PartRead, Inside
<1> QED BY <1>1, <1>2, <1>3, <1>6, <1>7, <1>8 DEF DemuxInv

\* and the events that belong to it,
LEMMA EventKeeps ==
  ASSUME Renderers = 1, DemuxInv, Input!RecvEvent
  PROVE  DemuxInv'
<1>1. /\ ipc = "recvall" /\ pipe[0] # << >> /\ got' = Append(got, Head(pipe[0]))
      /\ pipe' = [pipe EXCEPT ![0] = Tail(@)]
      /\ ipc' = IF Len(got') = header.evnum THEN "serve" ELSE "recvall"
      /\ UNCHANGED << sent, owed, src, from, header, served >>
  BY DEF Input!RecvEvent, DemuxInv, DemuxTyped
<1>2. PICK c \in Left, p \in Packets :
        /\ Leads(Head(pipe[0]), ToCome, Number, c, p)
        /\ Stream(Tail(pipe[0]), c, p, owed[0], sent[0])
  BY <1>1, NextUnit
<1>3. /\ Head(pipe[0]) \in Input!Unit /\ Tail(pipe[0]) \in Seq(Input!Unit)
      /\ pipe'[0] = Tail(pipe[0])
      /\ got \in Seq(Input!Unit) /\ header \in Input!Unit
  BY <1>1, NextUnit DEF DemuxInv, DemuxTyped, Inside
<1>4. /\ Len(got) \in Nat /\ Len(got') = Len(got) + 1 /\ got' \in Seq(Input!Unit)
      /\ \A i \in 1 .. Len(got) : got'[i] = got[i]
      /\ got'[Len(got) + 1] = Head(pipe[0])
  BY <1>1, <1>3, AppendProperties, LenProperties
<1>5. header.evnum \in Nat
  BY <1>3, DemuxBounds DEF Input!Unit
<1>6. /\ header.host = 0 /\ header.packet = served[0] + 1 /\ Len(got) < header.evnum
      /\ \A i \in 1 .. Len(got) : got[i] = [host |-> 0, packet |-> header.packet, evnum |-> 0]
  BY <1>1 DEF DemuxInv, PartRead, Inside
<1>7. ToCome = header.evnum - Len(got) /\ Number = header.packet
  BY <1>1 DEF ToCome, Number, Inside
<1>8. /\ c = header.evnum - Len(got) - 1 /\ p = header.packet
      /\ Head(pipe[0]) = [host |-> 0, packet |-> header.packet, evnum |-> 0]
  BY <1>2, <1>4, <1>5, <1>6, <1>7 DEF Leads
<1>9. ToCome' = c /\ Number' = p
  BY <1>1, <1>4, <1>5, <1>8 DEF ToCome, Number, Inside
<1>10. DemuxTyped'
  BY <1>1, <1>3, <1>4 DEF DemuxInv, DemuxTyped, Inside
<1>11. PartRead'
  <2>1. \A i \in 1 .. Len(got') : got'[i] = [host |-> 0, packet |-> header.packet, evnum |-> 0]
    BY <1>4, <1>6, <1>8
  <2>2. ipc' \in {"events", "recvall"} <=> Len(got') < header.evnum
    BY <1>1, <1>4, <1>5, <1>6
  <2> QED BY <1>1, <1>4, <1>5, <1>6, <2>1, <2>2 DEF PartRead, Inside
<1> QED BY <1>1, <1>2, <1>3, <1>9, <1>10, <1>11 DEF DemuxInv

\* and serves it when it is complete.
LEMMA ServeKeeps ==
  ASSUME Renderers = 1, DemuxInv, Input!Serve
  PROVE  DemuxInv'
<1>1. /\ ipc = "serve" /\ ipc' = "header" /\ served' = [served EXCEPT ![0] = @ + 1]
      /\ UNCHANGED << sent, owed, pipe, src, from, header, got >>
  BY DEF Input!Serve, DemuxInv, DemuxTyped
<1>2. /\ served[0] \in Nat /\ served'[0] = served[0] + 1 /\ served' \in [{0} -> Nat]
      /\ header \in Input!Unit /\ got \in Seq(Input!Unit)
  BY <1>1 DEF DemuxInv, DemuxTyped, Inside
<1>3. header.evnum \in Nat /\ Len(got) \in Nat
  BY <1>2, DemuxBounds, LenProperties DEF Input!Unit
<1>4. header.packet = served[0] + 1 /\ Len(got) = header.evnum
  BY <1>1, <1>3 DEF DemuxInv, PartRead, Inside
<1>5. ToCome' = ToCome /\ Number' = Number
  BY <1>1, <1>2, <1>3, <1>4 DEF ToCome, Number, Inside
<1>6. DemuxTyped' /\ PartRead'
  BY <1>1, <1>2 DEF DemuxInv, DemuxTyped, PartRead, Inside
<1> QED BY <1>1, <1>5, <1>6 DEF DemuxInv

\* With one renderer input_device_serve is given whole packets, each once and in
\* the order in which they were sent, whatever pieces they arrive in: for any
\* number of packets and events.
THEOREM PacketsCorrect ==
  ASSUME Renderers = 1
  PROVE  Input!Spec => [](Input!PacketWhole /\ Input!PacketsInOrder)
<1>1. Input!Init => DemuxInv
  <2> SUFFICES ASSUME Input!Init PROVE DemuxInv
    OBVIOUS
  <2>1. DemuxTyped /\ PartRead /\ ToCome = 0 /\ Number = 0
    BY DemuxBounds, EmptySeq
       DEF Input!Init, DemuxTyped, PartRead, ToCome, Number, Inside, Left, Packets
  <2>2. /\ pipe[0] = << >> /\ Len(<< >>) = 0 /\ owed[0] = 0 /\ sent[0] = 0
        /\ 0 \in Left /\ 0 \in Packets
    BY DemuxBounds, EmptySeq DEF Input!Init, Left, Packets
  <2>3. Stream(<< >>, 0, 0, 0, 0)
    <3> DEFINE z == [i \in 0 .. 0 |-> 0]
    <3>1. z \in [0 .. 0 -> Left] /\ z \in [0 .. 0 -> Packets] /\ z[0] = 0
      BY <2>2
    <3> HIDE DEF z
    <3> QED BY <2>2, <3>1 DEF Stream
  <2> QED BY <2>1, <2>2, <2>3 DEF DemuxInv
<1>2. DemuxInv /\ [Input!Next]_(Input!vars) => DemuxInv'
  <2> SUFFICES ASSUME DemuxInv, [Input!Next]_(Input!vars) PROVE DemuxInv'
    OBVIOUS
  <2>1. CASE UNCHANGED Input!vars
    BY <2>1 DEF Input!vars, DemuxInv, DemuxTyped, PartRead, ToCome, Number
  <2> QED
    BY <2>1, DemuxBounds, SendKeeps, PollKeeps, HeaderKeeps, EventKeeps, ServeKeeps
       DEF Input!Next, Input!InputThread
<1>3. DemuxInv => Input!PacketWhole /\ Input!PacketsInOrder
  <2> SUFFICES ASSUME DemuxInv
               PROVE  Input!PacketWhole /\ Input!PacketsInOrder
    OBVIOUS
  <2>1. CASE ipc = "serve"
    <3>1. header \in Input!Unit /\ got \in Seq(Input!Unit)
      BY <2>1 DEF DemuxInv, DemuxTyped, Inside
    <3>2. header.evnum \in Nat /\ Len(got) \in Nat /\ DOMAIN got = 1 .. Len(got)
      BY <3>1, DemuxBounds, LenProperties DEF Input!Unit
    <3>3. /\ header.host = 0 /\ header.packet = served[0] + 1 /\ Len(got) = header.evnum
          /\ \A i \in 1 .. Len(got) : got[i] = [host |-> 0, packet |-> header.packet, evnum |-> 0]
          /\ src = 0
      BY <2>1, <3>2 DEF DemuxInv, DemuxTyped, PartRead, Inside
    <3> QED BY <3>2, <3>3 DEF Input!PacketWhole, Input!PacketsInOrder
  <2> QED BY <2>1 DEF Input!PacketWhole, Input!PacketsInOrder
<1> QED BY <1>1, <1>2, <1>3, PTL DEF Input!Spec

\* With any number of renderers the pipes and the thread's variables keep their
\* types, though a packet may then be put together of two.
THEOREM DemuxTypeCorrect == Input!Spec => []Input!TypeOK
<1> DEFINE Begun == \A h \in Input!Hosts : owed[h] > 0 => sent[h] > 0
<1>1. /\ Renderers \in Nat \ {0} /\ 0 \in Input!Hosts
      /\ MaxEvents \in Nat \ {0} /\ MaxPackets \in Nat
  BY PartsAssumption DEF Input!ConstantsAssumption, Input!Hosts
<1>2. Input!Init => Input!TypeOK /\ Begun
  BY <1>1, EmptySeq DEF Input!Init, Input!TypeOK
<1>3. Input!TypeOK /\ Begun /\ [Input!Next]_(Input!vars) => (Input!TypeOK /\ Begun)'
  <2> SUFFICES ASSUME Input!TypeOK, Begun, [Input!Next]_(Input!vars)
               PROVE  Input!TypeOK' /\ Begun'
    OBVIOUS
  <2>1. CASE UNCHANGED Input!vars
    BY <2>1 DEF Input!vars, Input!TypeOK
  <2>2. ASSUME NEW h \in Input!Hosts, Input!SendEvent(h) PROVE Input!TypeOK' /\ Begun'
    <3>1. /\ owed[h] \in 0 .. MaxEvents /\ sent[h] \in 0 .. MaxPackets
          /\ owed[h] > 0 /\ sent[h] > 0
      BY <2>2 DEF Input!SendEvent, Input!TypeOK
    <3>2. owed[h] - 1 \in 0 .. MaxEvents /\ sent[h] \in 1 .. MaxPackets
      BY <1>1, <3>1
    <3>3. [host |-> h, packet |-> sent[h], evnum |-> 0] \in Input!Unit
      BY <1>1, <3>2 DEF Input!Unit
    <3>4. pipe' \in [Input!Hosts -> Seq(Input!Unit)]
      BY <2>2, <3>3, AppendProperties DEF Input!SendEvent, Input!TypeOK
    <3>5. /\ owed' = [owed EXCEPT ![h] = owed[h] - 1] /\ sent' = sent
          /\ UNCHANGED << ipc, src, from, header, got, served >>
      BY <2>2 DEF Input!SendEvent, Input!threadVars
    <3>6. owed' \in [Input!Hosts -> 0 .. MaxEvents]
      BY <3>2, <3>5 DEF Input!TypeOK
    <3>7. \A g \in Input!Hosts : owed'[g] > 0 => sent'[g] > 0
      BY <3>1, <3>5 DEF Input!TypeOK
    <3> QED BY <3>4, <3>5, <3>6, <3>7 DEF Input!TypeOK
  <2>3. ASSUME NEW h \in Input!Hosts, NEW n \in 1 .. MaxEvents, Input!SendHeader(h, n)
        PROVE  Input!TypeOK' /\ Begun'
    <3>1. sent[h] \in 0 .. MaxPackets /\ sent[h] < MaxPackets
      BY <2>3 DEF Input!SendHeader, Input!TypeOK
    <3>2. /\ sent[h] + 1 \in 1 .. MaxPackets /\ sent[h] + 1 \in 0 .. MaxPackets
          /\ n \in 0 .. MaxEvents
      BY <1>1, <3>1
    <3>3. /\ sent' = [sent EXCEPT ![h] = sent[h] + 1] /\ owed' = [owed EXCEPT ![h] = n]
          /\ UNCHANGED << ipc, src, from, header, got, served >>
      BY <2>3 DEF Input!SendHeader, Input!threadVars
    <3>4. sent' \in [Input!Hosts -> 0 .. MaxPackets] /\ sent'[h] = sent[h] + 1
      BY <1>1, <3>2, <3>3 DEF Input!TypeOK
    <3>5. owed' \in [Input!Hosts -> 0 .. MaxEvents]
      BY <3>2, <3>3 DEF Input!TypeOK
    <3>6. [host |-> h, packet |-> sent'[h], evnum |-> n] \in Input!Unit
      BY <3>2, <3>4 DEF Input!Unit
    <3>7. pipe' \in [Input!Hosts -> Seq(Input!Unit)]
      BY <2>3, <3>6, AppendProperties DEF Input!SendHeader, Input!TypeOK
    <3>8. ASSUME NEW g \in Input!Hosts, owed'[g] > 0 PROVE sent'[g] > 0
      <4>1. CASE g = h
        BY <1>1, <3>1, <3>4, <4>1
      <4>2. CASE g # h
        BY <3>3, <3>8, <4>2 DEF Input!TypeOK
      <4> QED BY <4>1, <4>2
    <3> QED BY <3>3, <3>4, <3>5, <3>7, <3>8 DEF Input!TypeOK
  <2>4. CASE Input!Poll
    <3>1. Input!TypeOK'
      BY <2>4 DEF Input!Poll, Input!TypeOK
    <3> QED BY <2>4, <3>1 DEF Input!Poll
  <2>5. ASSUME Input!RecvHeader \/ Input!RecvEvent
        PROVE  /\ Head(pipe[from]) \in Input!Unit
               /\ pipe' \in [Input!Hosts -> Seq(Input!Unit)]
               /\ UNCHANGED << sent, owed, src, from, served >>
    <3>1. pipe[from] # << >> /\ pipe[from] \in Seq(Input!Unit)
      BY <2>5 DEF Input!RecvHeader, Input!RecvEvent, Input!TypeOK
    <3>2. Head(pipe[from]) \in Input!Unit /\ Tail(pipe[from]) \in Seq(Input!Unit)
      BY <3>1, HeadTailProperties
    <3> QED BY <2>5, <3>2 DEF Input!RecvHeader, Input!RecvEvent, Input!TypeOK
  <2>6. CASE Input!RecvHeader
    <3>1. got' \in Seq(Input!Unit)
      BY <2>6, EmptySeq DEF Input!RecvHeader
    <3> QED BY <2>5, <2>6, <3>1 DEF Input!RecvHeader, Input!TypeOK
  <2>7. CASE Input!RecvEvent
    <3>1. got' \in Seq(Input!Unit)
      BY <2>5, <2>7, AppendProperties DEF Input!RecvEvent, Input!TypeOK
    <3> QED BY <2>5, <2>7, <3>1 DEF Input!RecvEvent, Input!TypeOK
  <2>8. CASE Input!Serve
    <3>1. Input!TypeOK'
      BY <2>8 DEF Input!Serve, Input!TypeOK
    <3> QED BY <2>8, <3>1 DEF Input!Serve
  <2> QED
    BY <2>1, <2>2, <2>3, <2>4, <2>6, <2>7, <2>8 DEF Input!Next, Input!InputThread
<1> HIDE DEF Begun
<1> QED BY <1>2, <1>3, PTL DEF Input!Spec

(***************************************************************************)
(* Together.                                                               *)
(***************************************************************************)

\* The threads keep their types, for any number of renderers and clients.
THEOREM TypesCorrect == Spec /\ Tcp!Spec /\ Input!Spec => []TypesOK
<1>1. (Spec => []TypeOK) /\ (Tcp!Spec => []Tcp!TypeOK) /\ (Input!Spec => []Input!TypeOK)
  BY ShutdownTypeCorrect, RelayTypeCorrect, DemuxTypeCorrect
<1> QED BY <1>1, PTL DEF TypesOK

\* With one renderer, and no signal while the sockets are connected, streaming
\* begins with every socket, the last words of a renderer are read, and input
\* packets are served whole and in order.
THEOREM StreamsCorrect ==
  ASSUME ~Signals, Renderers = 1
  PROVE  Tcp!Spec /\ Input!Spec => []StreamsWhole
<1>1. Tcp!Spec => []Tcp!AllConnected
  BY ConnectedCorrect
<1>2. Tcp!Spec => []Tcp!LastWordsKept
  BY LastWordsCorrect
<1>3. Input!Spec => [](Input!PacketWhole /\ Input!PacketsInOrder)
  BY PacketsCorrect
<1> QED BY <1>1, <1>2, <1>3, PTL DEF StreamsWhole
=============================================================================

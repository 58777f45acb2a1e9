------------------------------ MODULE TcpRelay ------------------------------
(***************************************************************************)
(* The TCP plugin of rvgpu-proxy: one thread, thread_conn_tcp, connects a  *)
(* command and a resource socket to every renderer and then moves bytes    *)
(* between the sockets and the pipes that the other threads use:           *)
(*                                                                         *)
(*   main thread   rvgpu_ctx_send and rvgpu_send write to a snd_pipe per   *)
(*                 socket, and block when it is full                       *)
(*   relay         in_out_events: splices a snd_pipe to its socket and a   *)
(*                 socket to its rcv_pipe, blocking when that is full      *)
(*   consumers     input and resource thread read the rcv_pipes            *)
(*   renderers     external                                                *)
(*                                                                         *)
(* A channel is a socket with its two pipes; bytes are counted in units.   *)
(* The reconnection timers are never armed at this commit and left out.    *)
(***************************************************************************)
EXTENDS Integers, FiniteSets

CONSTANTS
  N,          \* renderers
  Kinds,      \* kinds of sockets: {"cmd", "res"}
  PipeCap,    \* units in a pipe (8 MB)
  SockCap,    \* units on the way through a socket
  Reachable,  \* renderers that accept both connections in time
  Stuck,      \* renderers that may stop reading
  Signals,    \* may a poll be interrupted?
  MaxUnits,   \* bound: units written to a channel
  MaxSent     \* bound: units a renderer sends on a channel

Hosts == 0 .. N - 1
Chans == Kinds \X Hosts

ConstantsAssumption ==
  /\ N \in Nat \ {0} /\ Kinds \subseteq {"cmd", "res"}
  /\ Reachable \subseteq Hosts /\ Stuck \subseteq Hosts /\ Signals \in BOOLEAN
  /\ PipeCap \in Nat \ {0} /\ SockCap \in Nat \ {0}
  /\ MaxUnits \in Nat /\ MaxSent \in Nat

VARIABLES
  inited,  \* inited_scanout_num = scanout_num
  pc,      \* relay: "init", "connect", "poll", "events" or "done"
  stage,   \* the kind of sockets being connected
  sock,    \* per channel: "none", "open"
  todo,    \* splices the last poll left to do
  pipeIn,  \* channels whose snd_pipe is watched for POLLIN
  sockOut, \* channels whose socket is watched for POLLOUT
  interrupted, \* ctx_priv->interrupted; SIGTERM was sent to the process
  cause,   \* the channel whose end of file interrupted, or "none"
  writing, \* main: channels still to be written of this command
  wrote, snd, rgot, \* per channel: written, in the snd_pipe, read by the renderer
  rsent, rcv, pgot, \* and written by the renderer, in the rcv_pipe, read
  closed   \* per channel, renderer's end: "no", "eof" or "error"

relayVars == << pc, stage, sock, todo, pipeIn, sockOut, interrupted, cause >>
outVars   == << wrote, snd, rgot >>
inVars    == << rsent, rcv, pgot >>
vars == << inited, relayVars, writing, outVars, inVars, closed >>

(* Units inside a socket, towards and from the renderer.                    *)
OnWayOut(c) == wrote[c] - snd[c] - rgot[c]
OnWayIn(c)  == rsent[c] - rcv[c] - pgot[c]

Op == [dir : {"out", "in"}, chan : Chans]

TypeOK ==
  /\ inited \in BOOLEAN /\ interrupted \in BOOLEAN
  /\ pc \in {"init", "connect", "poll", "events", "done"}
  /\ stage \in {"cmd", "res"}
  /\ sock \in [Chans -> {"none", "open"}]
  /\ todo \subseteq Op
  /\ pipeIn \subseteq Chans /\ sockOut \subseteq Chans /\ writing \subseteq Chans
  /\ cause \in Chans \cup {<< "none", 0 >>}
  /\ closed \in [Chans -> {"no", "eof", "error"}]
  /\ \A c \in Chans :
       /\ snd[c] \in 0 .. PipeCap /\ rcv[c] \in 0 .. PipeCap
       /\ OnWayOut(c) \in 0 .. SockCap /\ OnWayIn(c) \in 0 .. SockCap
       /\ wrote[c] \in 0 .. MaxUnits /\ rsent[c] \in 0 .. MaxSent
       /\ rgot[c] \in Nat /\ pgot[c] \in Nat

Zero == [c \in Chans |-> 0]

Init ==
  /\ inited = FALSE /\ pc = "init" /\ stage = "cmd"
  /\ sock = [c \in Chans |-> "none"]
  /\ todo = {} /\ pipeIn = {} /\ sockOut = {}
  /\ interrupted = FALSE /\ cause = << "none", 0 >> /\ writing = {}
  /\ wrote = Zero /\ snd = Zero /\ rgot = Zero
  /\ rsent = Zero /\ rcv = Zero /\ pgot = Zero
  /\ closed = [c \in Chans |-> "no"]

(***************************************************************************)
(* Start.  rvgpu_init is called for one renderer after the other; the relay*)
(* waits for it, 10 seconds at most, and connects all command sockets, then*)
(* all resource sockets.                                                   *)
(***************************************************************************)

Inited ==
  /\ ~inited /\ inited' = TRUE
  /\ UNCHANGED << relayVars, writing, outVars, inVars, closed >>

StartConnect ==
  /\ pc = "init" /\ inited
  /\ pc' = "connect"
  /\ UNCHANGED << inited, stage, sock, todo, pipeIn, sockOut, interrupted, cause,
                  writing, outVars, inVars, closed >>

(* The time is over before all of them are initialised.  The relay ends;    *)
(* the rest of the proxy is not told.                                       *)
GiveUp ==
  /\ pc = "init" /\ ~inited
  /\ pc' = "done"
  /\ UNCHANGED << inited, stage, sock, todo, pipeIn, sockOut, interrupted, cause,
                  writing, outVars, inVars, closed >>

(* A socket became writable without an error.                               *)
Connect(c) ==
  /\ pc = "connect" /\ c[1] = stage /\ c[2] \in Reachable /\ sock[c] = "none"
  /\ sock' = [sock EXCEPT ![c] = "open"]
  /\ UNCHANGED << inited, pc, stage, todo, pipeIn, sockOut, interrupted, cause,
                  writing, outVars, inVars, closed >>

(* set_pfd: the open sockets and all the pipes are watched for input.       *)
EndStage ==
  IF stage = "cmd" /\ "res" \in Kinds
  THEN stage' = "res" /\ UNCHANGED << pc, pipeIn >>
  ELSE pc' = "poll" /\ pipeIn' = Chans /\ UNCHANGED stage

\* Mutant: waits for the command sockets only.
Connected_CmdOnly ==
  \A c \in Chans : c[1] = stage /\ stage = "cmd" /\ c[2] \in Reachable => sock[c] = "open"

(* No socket is waited for, or the time is over: renderers that are not     *)
(* reachable never become ready.                                            *)
Connected == \A c \in Chans : c[1] = stage /\ c[2] \in Reachable => sock[c] = "open"

(* An interrupted poll goes on to the condition of the loop, whose          *)
(* wait_more was just reset.                                                *)
ConnectEnds ==
  /\ pc = "connect" /\ (Connected \/ Signals)
  /\ EndStage
  /\ UNCHANGED << inited, sock, todo, sockOut, interrupted, cause, writing,
                  outVars, inVars, closed >>

(***************************************************************************)
(* The relay.                                                              *)
(***************************************************************************)

Open == { c \in Chans : sock[c] = "open" }
Failed == { c \in Open : closed[c] = "error" }
Writable == { c \in Open \cap sockOut : OnWayOut(c) < SockCap }

\* Mutant: waits for more than one unit.
Readable_NotLast == { c \in Open : OnWayIn(c) > 1 \/ closed[c] = "eof" }

\* Mutant: looks for data only.
Readable_DataOnly == { c \in Open : OnWayIn(c) > 0 }

Readable == { c \in Open : OnWayIn(c) > 0 \/ closed[c] = "eof" }
Filled == { c \in pipeIn : snd[c] > 0 }

\* Mutant: watches the pipe although the socket is full.
Poll_KeepsPipe ==
  /\ pc = "poll" /\ Failed \cup Writable \cup Readable \cup Filled # {}
  /\ IF Failed # {}
     THEN /\ interrupted' = TRUE /\ pc' = "done"
          /\ UNCHANGED << todo, pipeIn, sockOut >>
     ELSE /\ todo' = [dir : {"out"}, chan : Writable] \cup [dir : {"in"}, chan : Readable]
          /\ pipeIn' = pipeIn \ Filled
          /\ pc' = "events"
          /\ UNCHANGED << sockOut, interrupted >>
  /\ UNCHANGED << inited, stage, sock, cause, writing, outVars, inVars, closed >>

(* poll, and of in_out_events the check for errors and what it does about a *)
(* filled pipe: wait for the socket instead.                                *)
Poll ==
  /\ pc = "poll" /\ Failed \cup Writable \cup Readable \cup Filled # {}
  /\ IF Failed # {}
     THEN /\ interrupted' = TRUE /\ pc' = "done"
          /\ UNCHANGED << todo, pipeIn, sockOut >>
     ELSE /\ todo' = [dir : {"out"}, chan : Writable] \cup [dir : {"in"}, chan : Readable]
          /\ pipeIn' = pipeIn \ Filled
          /\ sockOut' = sockOut \cup Filled
          /\ pc' = "events"
          /\ UNCHANGED interrupted
  /\ UNCHANGED << inited, stage, sock, cause, writing, outVars, inVars, closed >>

(* The order of the loops: commands before resources, out before in.        *)
Rank(o) == (IF o.chan[1] = "cmd" THEN 0 ELSE 2 * N)
           + (IF o.dir = "out" THEN 0 ELSE N) + o.chan[2]
Turn(o) == pc = "events" /\ o \in todo /\ \A p \in todo : Rank(o) <= Rank(p)

\* Mutant: leaves the pipe unwatched after the splice.
SpliceOut_NotRearmed(c) ==
  /\ Turn([dir |-> "out", chan |-> c])
  /\ \E n \in 1 .. PipeCap :
       /\ n <= snd[c] /\ n <= SockCap - OnWayOut(c)
       /\ snd' = [snd EXCEPT ![c] = @ - n]
  /\ todo' = todo \ {[dir |-> "out", chan |-> c]}
  /\ sockOut' = sockOut \ {c}
  /\ UNCHANGED << inited, pc, stage, sock, pipeIn, interrupted, cause, writing,
                  wrote, rgot, inVars, closed >>

(* The sockets do not block: the splice moves what fits.                    *)
SpliceOut(c) ==
  /\ Turn([dir |-> "out", chan |-> c])
  /\ \E n \in 1 .. PipeCap :
       /\ n <= snd[c] /\ n <= SockCap - OnWayOut(c)
       /\ snd' = [snd EXCEPT ![c] = @ - n]
  /\ todo' = todo \ {[dir |-> "out", chan |-> c]}
  /\ sockOut' = sockOut \ {c}
  /\ pipeIn' = pipeIn \cup {c}
  /\ UNCHANGED << inited, pc, stage, sock, interrupted, cause, writing,
                  wrote, rgot, inVars, closed >>

\* Mutant: takes the end of file before what came before it.
AtEnd_Early(c) == closed[c] = "eof"

(* recv with MSG_PEEK returns 0.                                            *)
AtEnd(c) == OnWayIn(c) = 0 /\ closed[c] = "eof"

(* The splice into the pipe blocks until there is room.                     *)
SpliceIn(c) ==
  /\ Turn([dir |-> "in", chan |-> c])
  /\ IF AtEnd(c)
     THEN /\ interrupted' = TRUE /\ cause' = c /\ todo' = {} /\ pc' = "done"
          /\ UNCHANGED rcv
     ELSE /\ \E n \in 1 .. SockCap :
               /\ n <= OnWayIn(c) /\ n <= PipeCap - rcv[c]
               /\ rcv' = [rcv EXCEPT ![c] = @ + n]
          /\ todo' = todo \ {[dir |-> "in", chan |-> c]}
          /\ UNCHANGED << interrupted, cause, pc >>
  /\ UNCHANGED << inited, stage, sock, pipeIn, sockOut, writing, outVars,
                  rsent, pgot, closed >>

EventsDone ==
  /\ pc = "events" /\ todo = {}
  /\ pc' = "poll"
  /\ UNCHANGED << inited, stage, sock, todo, pipeIn, sockOut, interrupted, cause,
                  writing, outVars, inVars, closed >>

Relay == \/ StartConnect \/ ConnectEnds \/ Poll \/ EventsDone
         \/ \E c \in Chans : Connect(c) \/ SpliceOut(c) \/ SpliceIn(c)

(***************************************************************************)
(* The other threads and the renderers.                                    *)
(***************************************************************************)

(* rvgpu_ctx_send: one unit to every renderer in turn.                      *)
BeginSend(k) ==
  /\ inited /\ writing = {} /\ \A h \in Hosts : wrote[<< k, h >>] < MaxUnits
  /\ writing' = {k} \X Hosts
  /\ UNCHANGED << inited, relayVars, outVars, inVars, closed >>

\* Mutant: writes to a full pipe.
Write_NoRoom(c) ==
  /\ c \in writing /\ \A d \in writing : c[2] <= d[2]
  /\ wrote' = [wrote EXCEPT ![c] = @ + 1]
  /\ snd' = [snd EXCEPT ![c] = @ + 1]
  /\ writing' = writing \ {c}
  /\ UNCHANGED << inited, relayVars, rgot, inVars, closed >>

Write(c) ==
  /\ c \in writing /\ \A d \in writing : c[2] <= d[2]
  /\ snd[c] < PipeCap
  /\ wrote' = [wrote EXCEPT ![c] = @ + 1]
  /\ snd' = [snd EXCEPT ![c] = @ + 1]
  /\ writing' = writing \ {c}
  /\ UNCHANGED << inited, relayVars, rgot, inVars, closed >>

(* rvgpu_recv_all in the input or the resource thread.                      *)
Read(c) ==
  /\ rcv[c] > 0
  /\ rcv' = [rcv EXCEPT ![c] = @ - 1]
  /\ pgot' = [pgot EXCEPT ![c] = @ + 1]
  /\ UNCHANGED << inited, relayVars, writing, outVars, rsent, closed >>

RendererReads(c) ==
  /\ OnWayOut(c) > 0 /\ closed[c] = "no"
  /\ rgot' = [rgot EXCEPT ![c] = @ + 1]
  /\ UNCHANGED << inited, relayVars, writing, wrote, snd, inVars, closed >>

RendererSends(c) ==
  /\ sock[c] = "open" /\ closed[c] = "no"
  /\ rsent[c] < MaxSent /\ OnWayIn(c) < SockCap
  /\ rsent' = [rsent EXCEPT ![c] = @ + 1]
  /\ UNCHANGED << inited, relayVars, writing, outVars, rcv, pgot, closed >>

RendererCloses(c, how) ==
  /\ sock[c] = "open" /\ closed[c] = "no"
  /\ closed' = [closed EXCEPT ![c] = how]
  /\ UNCHANGED << inited, relayVars, writing, outVars, inVars >>

Main == \E c \in Chans : Write(c)

Next ==
  \/ Inited \/ GiveUp \/ Relay \/ Main
  \/ \E k \in Kinds : BeginSend(k)
  \/ \E c \in Chans :
       \/ Read(c) \/ RendererReads(c) \/ RendererSends(c)
       \/ \E how \in {"eof", "error"} : RendererCloses(c, how)

Spec == Init /\ [][Next]_vars

(* The threads run, and renderers that are not stuck read their sockets.    *)
FairSpec ==
  /\ Spec /\ WF_vars(Inited) /\ WF_vars(Relay) /\ WF_vars(Main)
  /\ \A c \in Chans :
       WF_vars(Read(c)) /\ (c[2] \notin Stuck => WF_vars(RendererReads(c)))

(***************************************************************************)
(* Properties.                                                             *)
(***************************************************************************)

(* "Timeout in seconds to wait for all scanouts be connected": streaming    *)
(* starts with a socket to every renderer that accepts in time.  It fails   *)
(* if a poll may be interrupted.                                            *)
AllConnected ==
  pc \in {"poll", "events"} => \A c \in Chans : c[2] \in Reachable => sock[c] = "open"

GaveUp == pc = "done" /\ ~interrupted

(* What was written for a renderer that reads gets there, however slow the  *)
(* others are: the relay never waits for a socket.  A relay that gave up at *)
(* the start delivers nothing.                                              *)
DeliveredOut ==
  \A c \in Chans : c[2] \in Reachable \ Stuck =>
    \A n \in 1 .. MaxUnits :
      wrote[c] >= n ~> rgot[c] >= n \/ GaveUp \/ \E d \in Chans : closed[d] # "no"

(* What a renderer sends gets to its reader, unless the relay was stopped.  *)
DeliveredIn ==
  \A c \in Chans, n \in 1 .. MaxSent :
    rsent[c] >= n ~> pgot[c] >= n \/ interrupted

(* The end of a connection stops the proxy in the end.                      *)
CloseNoticed == (\E c \in Chans : closed[c] # "no") ~> interrupted

(* A renderer that closes its socket in good order loses nothing it sent    *)
(* before on that socket.                                                   *)
LastWordsKept ==
  cause \in Chans => rsent[cause] = rcv[cause] + pgot[cause]

(* The main thread gets through a command.  It fails when a renderer cannot *)
(* be reached, or the relay gave up: a pipe fills up and nobody empties it. *)
MainReturns ==
  writing # {} ~> writing = {} \/ GaveUp \/ \E d \in Chans : closed[d] # "no"
=============================================================================

------------------------------- MODULE MCProxy -------------------------------
(* The threads of rvgpu-proxy around the GPU device, part by part; a behaviour *)
(* moves one of them:                                                          *)
(*   relay     TcpRelay, both sockets of one renderer                          *)
(*   slow      TcpRelay with two renderers, one of which may stop reading      *)
(*   input     InputDemux, packets of one renderer                             *)
(*   shutdown  ProxyShutdown itself, two clients, one of which ignores SIGTERM *)
EXTENDS ProxyThreads
VARIABLES which,
  s_inited, s_pc, s_stage, s_sock, s_todo, s_pipeIn, s_sockOut, s_interrupted, s_cause,
  s_writing, s_wrote, s_snd, s_rgot, s_rsent, s_rcv, s_pgot, s_closed

Slow == INSTANCE TcpRelay WITH
  N <- 2, Kinds <- {"cmd"}, Reachable <- {0, 1}, Stuck <- {1}, MaxUnits <- 2, MaxSent <- 0,
  inited <- s_inited, pc <- s_pc, stage <- s_stage, sock <- s_sock, todo <- s_todo,
  pipeIn <- s_pipeIn, sockOut <- s_sockOut, interrupted <- s_interrupted,
  cause <- s_cause, writing <- s_writing, wrote <- s_wrote, snd <- s_snd,
  rgot <- s_rgot, rsent <- s_rsent, rcv <- s_rcv, pgot <- s_pgot, closed <- s_closed

ASSUME SlowAssumption == Slow!ConstantsAssumption

tcpVars == <<inited, pc, stage, sock, todo, pipeIn, sockOut, interrupted, cause, writing,
             wrote, snd, rgot, rsent, rcv, pgot, closed>>
slowVars == <<s_inited, s_pc, s_stage, s_sock, s_todo, s_pipeIn, s_sockOut,
              s_interrupted, s_cause, s_writing, s_wrote, s_snd, s_rgot, s_rsent,
              s_rcv, s_pgot, s_closed>>
inputVars == <<sent, owed, pipe, ipc, src, from, header, got, served>>
mcvars == <<which, vars, tcpVars, slowVars, inputVars>>

MCInit == /\ which \in {"relay", "slow", "input", "shutdown"}
          /\ Init /\ Tcp!Init /\ Slow!Init /\ Input!Init

MCNext ==
  /\ UNCHANGED which
  /\ \/ which = "relay" /\ Tcp!Next /\ UNCHANGED <<vars, slowVars, inputVars>>
     \/ which = "slow" /\ Slow!Next /\ UNCHANGED <<vars, tcpVars, inputVars>>
     \/ which = "input" /\ Input!Next /\ UNCHANGED <<vars, tcpVars, slowVars>>
     \/ which = "shutdown" /\ Next /\ UNCHANGED <<tcpVars, slowVars, inputVars>>

\* The fairness of the parts' FairSpec, for the part that moves.
RelayFair ==
  /\ WF_tcpVars(which = "relay" /\ Tcp!Inited) /\ WF_tcpVars(which = "relay" /\ Tcp!Relay)
  /\ WF_tcpVars(which = "relay" /\ Tcp!Main)
  /\ \A c \in Tcp!Chans : /\ WF_tcpVars(which = "relay" /\ Tcp!Read(c))
                          /\ WF_tcpVars(which = "relay" /\ Tcp!RendererReads(c))
SlowFair ==
  /\ WF_slowVars(which = "slow" /\ Slow!Inited) /\ WF_slowVars(which = "slow" /\ Slow!Relay)
  /\ WF_slowVars(which = "slow" /\ Slow!Main)
  /\ \A c \in Slow!Chans : WF_slowVars(which = "slow" /\ Slow!Read(c))
  /\ WF_slowVars(which = "slow" /\ Slow!RendererReads(<<"cmd", 0>>))

MCSpec == /\ MCInit /\ [][MCNext]_mcvars
          /\ RelayFair /\ SlowFair /\ Input!Fairness
          /\ WF_vars(which = "shutdown" /\ Main)
          /\ WF_vars(which = "shutdown" /\ Relay /\ room' > room)
          /\ WF_vars(which = "shutdown" /\ Relay /\ ~message')
          /\ SF_vars(which = "shutdown" /\ ResourceThread)
          /\ WF_vars(which = "shutdown" /\ DrainThread)
          /\ WF_vars(which = "shutdown" /\ Removed)
          /\ \A c \in Clients :
               /\ WF_vars(which = "shutdown" /\ Return(c))
               /\ WF_vars(which = "shutdown" /\ Cleaned(c))
               /\ WF_vars(which = "shutdown" /\ MustExit(c) /\ Exit(c))

\* What was written for a renderer that reads gets there, though another one has
\* stopped reading, once all are connected; what a renderer sends gets to its
\* reader, and every input packet is served; the end of a connection stops the
\* proxy; the main thread gets through its commands.
Delivered == /\ [](Slow!TypeOK /\ Slow!AllConnected)
             /\ Slow!DeliveredOut /\ Tcp!DeliveredIn /\ Input!PacketServed
             /\ Tcp!CloseNoticed /\ Tcp!MainReturns

\* A shutdown ends while the renderer is there, and with it every client that
\* was sent SIGTERM.
ShutdownServed == ShutdownEnds /\ UsersGone
==============================================================================

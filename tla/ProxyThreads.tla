----------------------------- MODULE ProxyThreads -----------------------------
(***************************************************************************)
(* The threads of rvgpu-proxy around the GPU device: the relay of the TCP  *)
(* plugin (Tcp), the input thread (Input) and the end of main, which stops *)
(* them (ProxyShutdown itself).  They share no state that these models     *)
(* keep: what the relay does to the bytes of the input pipes is what Input *)
(* says of them, and the shutdown sees of the relay whether it runs.       *)
(***************************************************************************)
EXTENDS ProxyShutdown, Sequences

CONSTANTS
  Renderers,                     \* scanout_num
  Kinds, PipeCap, SockCap, Reachable, Stuck, Signals, MaxUnits, MaxSent, \* TcpRelay
  MaxEvents, MaxPackets          \* InputDemux

VARIABLES
  inited, pc, stage, sock, todo, pipeIn, sockOut, interrupted, cause,
  writing, wrote, snd, rgot, rsent, rcv, pgot, closed,
  sent, owed, pipe, ipc, src, from, header, got, served

Tcp   == INSTANCE TcpRelay WITH N <- Renderers
Input == INSTANCE InputDemux WITH N <- Renderers, pc <- ipc

ASSUME PartsAssumption == Tcp!ConstantsAssumption /\ Input!ConstantsAssumption

\* Type invariant.
TypesOK == TypeOK /\ Tcp!TypeOK /\ Input!TypeOK

\* Streaming starts with a socket to every renderer that accepts in time, and a
\* renderer that closes its socket in good order loses nothing it sent before;
\* the input thread serves packets as one piece each and in their turn, whatever
\* pieces they arrive in. It needs a single renderer, and polls that are not
\* interrupted.
StreamsWhole == /\ Tcp!AllConnected /\ Tcp!LastWordsKept
                /\ Input!PacketWhole /\ Input!PacketsInOrder
===============================================================================

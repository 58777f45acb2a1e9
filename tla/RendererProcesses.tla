--------------------------- MODULE RendererProcesses ---------------------------
(***************************************************************************)
(* What a render process of rvgpu-renderer consists of, how it came to be, *)
(* and what it is for the compositor: the ring of buffers the two share    *)
(* (SwapSync itself), its table of GL sync objects (Syncs), the acceptor   *)
(* that forked it (Accept), and the compositor with the connections and    *)
(* the list of its clients (Life).  The four have no state in common: the  *)
(* acceptor keeps only the pid of a process, the picture that SwapSync     *)
(* copies is the one that Syncs waits for, and Life has the frames of      *)
(* SwapSync as messages without content.                                   *)
(***************************************************************************)
EXTENDS SwapSync

CONSTANTS
  Contexts, Main, NoContext, MaxSize,                                \* GlSyncObjs
  Proxies, IdOf, AutoStep, Pids, NoProxy, NoPid,                     \* ProxyAccept
  Clients, NoClient, SurfaceOf, StopId, Backlog, MaxDraws,
  OneAtATime, Crashes, ThreadFails                                   \* ClientLife

VARIABLES
  table, gsize, current_ctx, gl, alive, work, live, lacking, damaged,
  proxy, backlog, apc, newsock, rsocket, num_proxy, proxy_list, render, refused,
  mixed, reused,
  client, made, cdrawn, ccontrol, conns, open, group, descriptors, thread, fds,
  crequests, mpc, cwoken, running, list

Syncs  == INSTANCE GlSyncObjs WITH size <- gsize
Accept == INSTANCE ProxyAccept WITH pc <- apc
Life   == INSTANCE ClientLife WITH
  IdOf <- SurfaceOf, Stop <- StopId, drawn <- cdrawn, control <- ccontrol,
  backlog <- conns, table <- descriptors, requests <- crequests, woken <- cwoken

ASSUME PartsAssumption ==
  Syncs!ConstantsAssumption /\ Accept!ConstantsAssumption /\ Life!ConstantsAssumption

(* The picture is copied only when everything drawn into it is finished, by *)
(* a table that has one entry for a context, loses no sync object and fits  *)
(* into its arrays, unless contexts were destroyed that had no entry.       *)
DrawWaits == /\ Syncs!RoomLeft /\ Syncs!StoredInside
             /\ Syncs!OneEntry /\ Syncs!NoSyncLost /\ Syncs!WaitedAtDraw

(* A surface id has one render process at a time, and a process has both    *)
(* connections of one proxy, unless two connected at the same time.         *)
Admitted == Accept!UniqueIds /\ Accept!Paired

(* The surface of a running client is on the list, every DRAW finds it, and *)
(* the compositor does not end while it shows one.  A client that has       *)
(* crashed leaves its surface to its request thread, so it needs clients    *)
(* that do not crash, or surfaces of one client each.                       *)
SurfacesKept == Life!OwnEntry /\ Life!DrawLands /\ Life!StaysForClients
===============================================================================

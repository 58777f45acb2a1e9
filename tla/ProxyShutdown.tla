---------------------------- MODULE ProxyShutdown ----------------------------
(***************************************************************************)
(* How rvgpu-proxy ends.  A signal, from the user or from the relay when a *)
(* renderer has gone, takes the main loop to                               *)
(*                                                                         *)
(*   terminate_dri_users       answers the virtqueue while the DRI clients *)
(*                             leave, sends SIGTERM, then SIGKILL          *)
(*   gpu_device_flush_pending  joins the resource thread, answers the rest *)
(*   pthread_cancel/join       of the input thread                         *)
(*   gpu_device_free           removes the device, with a thread that goes *)
(*                             on answering; unmaps the rings; unloads the *)
(*                             plugin                                      *)
(*                                                                         *)
(* Clients and kernel are external: a client inside an ioctl acts on a     *)
(* signal only when its request is answered, a client that ends leaves one *)
(* more request for the kernel's cleanup, and the device is removed when   *)
(* no request of it is unanswered.  Times are in ticks of the drain loop.  *)
(***************************************************************************)
EXTENDS Integers, FiniteSets

CONSTANTS
  Clients,       \* processes that use the DRM device
  Polite,        \* those that end on SIGTERM
  PipeRoom,      \* units the pipe to the renderer takes
  RendererDies,  \* may the renderer go away?
  StableRequired, IdleBeforeKill, KillDeadline, ScanInterval,
  GraceTime, CleanupTime, \* the limits of drain_during_dri_cleanup
  MaxPasses, StableChecks, \* the limits of gpu_device_flush_pending
  MaxSubmits     \* bound: requests of the clients

ASSUME ClientsAssumption == IsFiniteSet(Clients) /\ Polite \subseteq Clients
ASSUME DiesAssumption    == RendererDies \in BOOLEAN
ASSUME LimitsAssumption  ==
  /\ { PipeRoom, StableRequired, IdleBeforeKill, KillDeadline, ScanInterval,
       GraceTime, CleanupTime, MaxPasses, StableChecks } \subseteq Nat \ {0}
  /\ MaxSubmits \in Nat

VARIABLES
  client,   \* "free", "ioctl", "cleanup" (ended, its last request open) or "gone"
  sig,      \* per client: the strongest signal sent: "no", "term" or "kill"
  req,      \* its request: "no", "ring", "sending", "async" or "done"
  submits,  \* requests so far
  asked,    \* g_shutdown_requested
  room,     \* units the pipe still takes
  renderer, \* "up", "down"
  relay,    \* thread_conn_tcp runs
  message,  \* a message of the renderer that is in the pipe in part
  rthread,  \* resource thread: "poll", "recv" or "gone"
  stopped,  \* resource_thread_shutdown
  input,    \* the input thread runs
  mpc,      \* main thread, see Phases
  pids,     \* the processes that were sent SIGTERM
  elapsed, idle, stable, scan, present, killed, \* locals of the drain loop
  pass,     \* passes of gpu_device_flush_pending
  flushed,  \* types of the responses it sent
  drainer,  \* detach_drain_thread: "no", "run" or "gone"
  mapped, loaded \* the rings are mapped, the plugin is loaded

Phases == {"loop", "serve", "write", "grace", "find", "cleanup", "join", "flush",
           "stable", "stopinput", "remove", "removing", "release", "unload", "end"}

clientVars == << client, sig, req, submits >>
threadVars == << room, renderer, relay, message, rthread, stopped, input >>
drainVars  == << elapsed, idle, stable, scan, present, killed >>
restVars   == << pass, flushed, drainer, mapped, loaded >>
vars == << clientVars, asked, threadVars, mpc, pids, drainVars, restVars >>

TypeOK ==
  /\ client \in [Clients -> {"free", "ioctl", "cleanup", "gone"}]
  /\ sig \in [Clients -> {"no", "term", "kill"}]
  /\ req \in [Clients -> {"no", "ring", "sending", "async", "done"}]
  /\ submits \in 0 .. MaxSubmits /\ room \in 0 .. PipeRoom
  /\ renderer \in {"up", "down"} /\ rthread \in {"poll", "recv", "gone"}
  /\ { asked, relay, message, stopped, input, present, killed, mapped, loaded } \subseteq BOOLEAN
  /\ mpc \in Phases /\ pids \subseteq Clients
  /\ elapsed \in 0 .. CleanupTime + GraceTime
  /\ idle \in 0 .. CleanupTime + GraceTime /\ scan \in 0 .. ScanInterval
  /\ stable \in 0 .. StableRequired + StableChecks /\ pass \in 0 .. MaxPasses
  /\ flushed \subseteq {"ok", "error"} /\ drainer \in {"no", "run", "gone"}

Init ==
  /\ client = [c \in Clients |-> "free"] /\ sig = [c \in Clients |-> "no"]
  /\ req = [c \in Clients |-> "no"] /\ submits = 0
  /\ asked = FALSE /\ room = PipeRoom /\ renderer = "up" /\ relay = TRUE
  /\ message = FALSE /\ rthread = "poll" /\ stopped = FALSE /\ input = TRUE
  /\ mpc = "loop" /\ pids = {}
  /\ elapsed = 0 /\ idle = 0 /\ stable = 0 /\ scan = ScanInterval
  /\ present = FALSE /\ killed = FALSE
  /\ pass = 0 /\ flushed = {} /\ drainer = "no" /\ mapped = TRUE /\ loaded = TRUE

(***************************************************************************)
(* Clients and the kernel.                                                 *)
(***************************************************************************)

Alive == { c \in Clients : client[c] \in {"free", "ioctl"} }
Open  == { c \in Clients : req[c] \in {"ring", "async"} }

Submit(c) ==
  /\ client[c] = "free" /\ sig[c] # "kill" /\ submits < MaxSubmits
  /\ mpc \notin {"release", "unload", "end"}
  /\ submits' = submits + 1
  /\ client' = [client EXCEPT ![c] = "ioctl"]
  /\ req' = [req EXCEPT ![c] = "ring"]
  /\ UNCHANGED << sig, asked, threadVars, mpc, pids, drainVars, restVars >>

Return(c) ==
  /\ client[c] = "ioctl" /\ req[c] = "done"
  /\ client' = [client EXCEPT ![c] = "free"]
  /\ req' = [req EXCEPT ![c] = "no"]
  /\ UNCHANGED << sig, submits, asked, threadVars, mpc, pids, drainVars, restVars >>

(* A client ends, by itself or by a signal; while there is a device, the    *)
(* kernel cleans up.                                                        *)
Exit(c) ==
  /\ client[c] = "free"
  /\ IF mpc \in {"release", "unload", "end"}
     THEN client' = [client EXCEPT ![c] = "gone"] /\ UNCHANGED req
     ELSE /\ client' = [client EXCEPT ![c] = "cleanup"]
          /\ req' = [req EXCEPT ![c] = "ring"]
  /\ UNCHANGED << sig, submits, asked, threadVars, mpc, pids, drainVars, restVars >>

Cleaned(c) ==
  /\ client[c] = "cleanup" /\ req[c] = "done"
  /\ client' = [client EXCEPT ![c] = "gone"]
  /\ req' = [req EXCEPT ![c] = "no"]
  /\ UNCHANGED << sig, submits, asked, threadVars, mpc, pids, drainVars, restVars >>

MustExit(c) == sig[c] = "kill" \/ (sig[c] = "term" /\ c \in Polite)

(***************************************************************************)
(* The renderer, the relay and the resource thread.                        *)
(***************************************************************************)

(* The signal handler only sets the flag; a write that waits returns EINTR. *)
Interrupt(gone) ==
  /\ asked' = TRUE
  /\ relay' = (relay /\ ~gone)
  /\ mpc' = IF mpc = "write" THEN "serve" ELSE mpc
  /\ req' = [c \in Clients |-> IF req[c] = "sending" THEN "async" ELSE req[c]]

Terminate ==
  /\ ~asked /\ Interrupt(FALSE)
  /\ UNCHANGED << client, sig, submits, room, renderer, message, rthread, stopped, input,
                  pids, drainVars, restVars >>

Die ==
  /\ RendererDies /\ renderer = "up"
  /\ renderer' = "down"
  /\ UNCHANGED << clientVars, asked, room, relay, message, rthread, stopped, input,
                  mpc, pids, drainVars, restVars >>

(* handle_connection_error and check_connection_closed.                     *)
ConnectionLost ==
  /\ relay /\ renderer = "down" /\ Interrupt(TRUE)
  /\ UNCHANGED << client, sig, submits, room, renderer, message, rthread, stopped, input,
                  pids, drainVars, restVars >>

(* A message arrives in two parts; the relay empties the pipe to a renderer *)
(* that reads.                                                              *)
Relay ==
  /\ relay /\ renderer = "up"
  /\ \/ message' = ~message /\ UNCHANGED room
     \/ room < PipeRoom /\ room' = room + 1 /\ UNCHANGED message
  /\ UNCHANGED << clientVars, asked, renderer, relay, rthread, stopped, input,
                  mpc, pids, drainVars, restVars >>

(* It blocks in rvgpu_recv_all until a message is complete, and looks at    *)
(* resource_thread_shutdown between messages.                               *)
ResourceThread ==
  /\ \/ rthread = "poll" /\ message /\ rthread' = "recv"
     \/ rthread = "recv" /\ ~message /\ rthread' = IF stopped THEN "gone" ELSE "poll"
     \/ rthread = "poll" /\ stopped /\ rthread' = "gone"
  /\ UNCHANGED << clientVars, asked, room, renderer, relay, message, stopped, input,
                  mpc, pids, drainVars, restVars >>

(* A fence of the renderer lets the main loop answer.                       *)
Fence(c) ==
  /\ mpc = "loop" /\ renderer = "up" /\ relay /\ req[c] = "async"
  /\ req' = [req EXCEPT ![c] = "done"]
  /\ UNCHANGED << client, sig, submits, asked, threadVars, mpc, pids, drainVars, restVars >>

(***************************************************************************)
(* The main loop: the flag is looked at when no request is left.           *)
(***************************************************************************)

Loop ==
  /\ \/ /\ mpc = "loop" /\ asked
        /\ mpc' = "grace"
     \/ /\ mpc = "loop" /\ ~asked /\ \E c \in Clients : req[c] = "ring"
        /\ mpc' = "serve"
     \/ /\ mpc = "serve" /\ \A c \in Clients : req[c] # "ring"
        /\ mpc' = "loop"
  /\ UNCHANGED << clientVars, asked, threadVars, pids, drainVars, restVars >>

Take(c) ==
  /\ mpc = "serve" /\ req[c] = "ring"
  /\ req' = [req EXCEPT ![c] = "sending"]
  /\ mpc' = "write"
  /\ UNCHANGED << client, sig, submits, asked, threadVars, pids, drainVars, restVars >>

\* Mutant: writes to a full pipe.
Write_NoRoom(c) ==
  /\ mpc = "write" /\ req[c] = "sending"
  /\ room' = room - 1
  /\ req' = [req EXCEPT ![c] = "async"]
  /\ mpc' = "serve"
  /\ UNCHANGED << client, sig, submits, asked, renderer, relay, message, rthread,
                  stopped, input, pids, drainVars, restVars >>

Write(c) ==
  /\ mpc = "write" /\ req[c] = "sending" /\ room > 0
  /\ room' = room - 1
  /\ req' = [req EXCEPT ![c] = "async"]
  /\ mpc' = "serve"
  /\ UNCHANGED << client, sig, submits, asked, renderer, relay, message, rthread,
                  stopped, input, pids, drainVars, restVars >>

(***************************************************************************)
(* terminate_dri_users.                                                    *)
(***************************************************************************)

Answer(S) == req' = [c \in Clients |-> IF c \in S THEN "done" ELSE req[c]]

(* gpu_device_drain_once answers what waits for a fence and what is on the  *)
(* rings.                                                                   *)
Drained == Open

\* Mutant: no SIGKILL.
KillTime_Never == FALSE

KillTime == idle >= IdleBeforeKill \/ elapsed >= KillDeadline

(* One turn of drain_during_dri_cleanup.  The pids it was given, and once a *)
(* while everybody who holds the node, keep it going.                       *)
DrainTick(limit, next) ==
  LET left   == { c \in pids : client[c] # "gone" }
      rescan == left = {} /\ scan + 1 >= ScanInterval
      users  == IF rescan THEN Alive # {} ELSE present
      alive  == left # {} \/ users
      kill   == ~killed /\ pids # {} /\ alive /\ KillTime
  IN /\ elapsed < limit
     /\ Answer(Drained)
     /\ scan' = IF left # {} THEN scan ELSE IF rescan THEN 0 ELSE scan + 1
     /\ present' = IF left # {} THEN present ELSE users
     /\ sig' = [c \in Clients |-> IF kill /\ c \in pids THEN "kill" ELSE sig[c]]
     /\ killed' = (killed \/ kill)
     /\ idle' = IF Drained # {} THEN 0
                ELSE IF alive THEN (IF kill THEN 0 ELSE idle) + 1 ELSE idle
     /\ stable' = IF Drained # {} \/ alive THEN 0 ELSE stable + 1
     /\ elapsed' = elapsed + 1
     /\ mpc' = IF stable' >= StableRequired THEN next ELSE mpc
     /\ UNCHANGED << client, submits, asked, threadVars, pids, restVars >>

DrainEnds(limit, next) ==
  /\ elapsed >= limit
  /\ mpc' = next
  /\ UNCHANGED << clientVars, asked, threadVars, pids, drainVars, restVars >>

Grace == mpc = "grace" /\ (DrainTick(GraceTime, "find") \/ DrainEnds(GraceTime, "find"))

(* find_dri_user_pids and SIGTERM; a new drain begins.                      *)
FindUsers ==
  /\ mpc = "find"
  /\ pids' = Alive
  /\ sig' = [c \in Clients |-> IF c \in Alive THEN "term" ELSE sig[c]]
  /\ elapsed' = 0 /\ idle' = 0 /\ stable' = 0 /\ scan' = ScanInterval
  /\ present' = FALSE /\ killed' = FALSE
  /\ mpc' = IF Alive = {} THEN "join" ELSE "cleanup"
  /\ UNCHANGED << client, req, submits, asked, threadVars, restVars >>

Cleanup ==
  mpc = "cleanup" /\ (DrainTick(CleanupTime, "join") \/ DrainEnds(CleanupTime, "join"))

(***************************************************************************)
(* gpu_device_flush_pending.                                               *)
(***************************************************************************)

(* resource_thread_shutdown is set, then the thread is joined.              *)
Join ==
  /\ mpc = "join"
  /\ \/ ~stopped /\ stopped' = TRUE /\ UNCHANGED << mpc, pass, stable >>
     \/ /\ stopped /\ rthread = "gone"
        /\ mpc' = "flush" /\ pass' = 0 /\ stable' = 0
        /\ UNCHANGED stopped
  /\ UNCHANGED << clientVars, asked, room, renderer, relay, message, rthread, input, pids,
                  elapsed, idle, scan, present, killed, flushed, drainer, mapped, loaded >>

Flush ==
  /\ mpc = "flush"
  /\ Answer(Open)
  /\ flushed' = IF Open # {} THEN flushed \cup {"ok"} ELSE flushed
  /\ pass' = pass + 1
  /\ mpc' = IF pass' < MaxPasses /\ Open # {} THEN "flush" ELSE "stable"
  /\ UNCHANGED << client, sig, submits, asked, threadVars, pids, drainVars,
                  drainer, mapped, loaded >>

(* Until nothing new was there for a while.                                 *)
FlushStable ==
  /\ mpc = "stable"
  /\ Answer(Open)
  /\ flushed' = IF Open # {} THEN flushed \cup {"ok"} ELSE flushed
  /\ stable' = IF Open # {} THEN 0 ELSE stable + 1
  /\ mpc' = IF stable' >= StableChecks THEN "stopinput" ELSE "stable"
  /\ UNCHANGED << client, sig, submits, asked, threadVars, pids, elapsed, idle, scan,
                  present, killed, pass, drainer, mapped, loaded >>

StopInput ==
  /\ mpc = "stopinput"
  /\ input' = FALSE
  /\ mpc' = "remove"
  /\ UNCHANGED << clientVars, asked, room, renderer, relay, message, rthread, stopped,
                  pids, drainVars, restVars >>

(***************************************************************************)
(* gpu_device_free.                                                        *)
(***************************************************************************)

\* Mutant: removes the device without the thread.
StartDrainer_None ==
  /\ mpc = "remove"
  /\ Answer(Drained)
  /\ mpc' = "removing"
  /\ UNCHANGED << client, sig, submits, asked, threadVars, pids, drainVars, restVars >>

(* The last drains; then the thread goes on while VIRTIO_LO_DELDEV blocks.  *)
StartDrainer ==
  /\ mpc = "remove"
  /\ Answer(Drained)
  /\ drainer' = "run"
  /\ mpc' = "removing"
  /\ UNCHANGED << client, sig, submits, asked, threadVars, pids, drainVars,
                  pass, flushed, mapped, loaded >>

DrainThread ==
  /\ drainer = "run" /\ Drained # {}
  /\ Answer(Drained)
  /\ UNCHANGED << client, sig, submits, asked, threadVars, mpc, pids, drainVars, restVars >>

(* The kernel has released every client that was inside an ioctl.           *)
Removed ==
  /\ mpc = "removing" /\ Open = {} /\ \A c \in Clients : client[c] # "ioctl"
  /\ mpc' = "release"
  /\ UNCHANGED << clientVars, asked, threadVars, pids, drainVars, restVars >>

\* Mutant: unmaps the rings without joining the thread.
Release_NoJoin ==
  /\ mpc = "release"
  /\ mapped' = FALSE
  /\ mpc' = "unload"
  /\ UNCHANGED << clientVars, asked, threadVars, pids, drainVars, pass, flushed,
                  drainer, loaded >>

(* ctx.stop and pthread_join, then unmap_guest.                             *)
Release ==
  /\ mpc = "release"
  /\ drainer' = "gone"
  /\ mapped' = FALSE
  /\ mpc' = "unload"
  /\ UNCHANGED << clientVars, asked, threadVars, pids, drainVars, pass, flushed, loaded >>

(* destroy_backend_rvgpu cancels and joins the relay before dlclose.        *)
Unload ==
  /\ mpc = "unload"
  /\ relay' = FALSE
  /\ loaded' = FALSE /\ mpc' = "end"
  /\ UNCHANGED << clientVars, asked, room, renderer, message, rthread, stopped, input,
                  pids, drainVars, pass, flushed, drainer, mapped >>

Main ==
  \/ Loop \/ Grace \/ FindUsers \/ Cleanup \/ Join \/ Flush \/ FlushStable
  \/ StopInput \/ StartDrainer \/ Release \/ Unload
  \/ \E c \in Clients : Take(c) \/ Write(c)

Kernel == Removed \/ \E c \in Clients : Return(c) \/ Cleaned(c)

Next ==
  \/ Main \/ Kernel \/ Terminate \/ Die \/ ConnectionLost \/ Relay
  \/ ResourceThread \/ DrainThread
  \/ \E c \in Clients : Submit(c) \/ Exit(c) \/ Fence(c)

Spec == Init /\ [][Next]_vars

(* All threads run; the renderer sends the rest of a message and reads.     *)
(* Clients do what signals make them do, and nothing else by themselves.    *)
FairSpec ==
  /\ Spec /\ WF_vars(Main) /\ WF_vars(ConnectionLost) /\ WF_vars(Relay /\ room' > room)
  /\ WF_vars(Relay /\ ~message') /\ SF_vars(ResourceThread) /\ WF_vars(DrainThread)
  /\ WF_vars(Removed)
  /\ \A c \in Clients : /\ WF_vars(Return(c)) /\ WF_vars(Cleaned(c))
                        /\ WF_vars(MustExit(c) /\ Exit(c))

(***************************************************************************)
(* Properties.                                                             *)
(***************************************************************************)

(* No thread uses the rings after they were unmapped, or the plugin's code  *)
(* after it was unloaded, however the removal, the drain thread and the     *)
(* other threads interleave.                                                *)
NothingUsedAfterFree ==
  /\ drainer = "run" => mapped
  /\ ~loaded => ~relay /\ ~input /\ rthread = "gone"

(* A shutdown ends, while the renderer is there: neither clients that wait  *)
(* in ioctls, nor those that ignore SIGTERM, nor the removal of the device, *)
(* which waits for the clients, keep it from that.                          *)
ShutdownEnds == asked ~> mpc = "end"

(* A client that was sent SIGTERM is gone in the end, polite or not.        *)
UsersGone == pids # {} ~> \A c \in pids : client[c] \in {"cleanup", "gone"}

(* "connection was lost and shutdown was triggered": a shutdown gets the    *)
(* main thread out of a write.  It fails when the renderer is gone: only    *)
(* the first write is interrupted, and nobody empties the pipe.             *)
WriteEnds == asked /\ mpc = "write" ~> mpc \notin {"write", "serve"}

(* "Short enough for responsive shutdown detection": the resource thread    *)
(* ends when it is told to.  It fails when the renderer is gone in the      *)
(* middle of a message, for which rvgpu_recv_all waits.                     *)
JoinReturns == mpc = "join" ~> mpc # "join"

(* "Flush pending virtqueue requests with error responses."  The responses  *)
(* say VIRTIO_GPU_RESP_OK_NODATA.                                           *)
FlushedWithErrors == flushed \subseteq {"error"}
=============================================================================

----------------------------- MODULE ClientLife -----------------------------
(***************************************************************************)
(* The clients of the compositor. A client is a render process; it makes   *)
(* four connections, sends its surface id, adds its surface, draws, and    *)
(* ends when its proxy has closed the command socket.                      *)
(*                                                                         *)
(*   regislation_read_loop  takes four connections and an id, and starts a *)
(*                          request thread for them; "stop" for an id ends *)
(*                          the compositor                                 *)
(*   request_event_loop     hands ADD and DRAW to the compositor; at the   *)
(*                          end of the control connection it hands over    *)
(*                          REMOVE, tells its client, closes the sockets   *)
(*   compositor_render      keeps rvgpu_surface_list, draws, acknowledges  *)
(*                                                                         *)
(* What a DRAW carries is in SwapSync, the fences of GL in GlSyncObjs.     *)
(***************************************************************************)
EXTENDS Naturals, Sequences, SequencesExt, FiniteSets, FiniteSetsExt, Lists

CONSTANTS
  Clients, NoClient,
  IdOf, Stop,    \* the surface id of a client; the id that stops the compositor
  Backlog,       \* connections a socket holds that listens with backlog 1
  MaxDraws,      \* bound: frames of a client
  OneAtATime,    \* a client connects when no other waits for its answer
  Crashes,       \* clients may end without a word
  ThreadFails    \* pthread_create may fail

ConstantsAssumption ==
  /\ NoClient \notin Clients /\ IsFiniteSet(Clients)
  /\ {OneAtATime, Crashes, ThreadFails} \subseteq BOOLEAN
  /\ Backlog \in Nat \ {0} /\ MaxDraws \in Nat

Connections == 1 .. 4  \* fd, control, sync, term
Sync    == 3
Term    == 4
Socket  == [of : Clients, n : Connections]
Closed  == [of |-> NoClient, n |-> 0]
Fds     == 1 .. 4 * Cardinality(Clients)
Result  == {0, 11}     \* of pthread_create: 0, or EAGAIN
Event   == [type : {"ADD", "DRAW", "REMOVE", "STOP"}, of : Clients]

VARIABLES
  client,    \* "new", "conn"ecting, "asked", "ready", "running", "leaving", "ended"
  made,      \* connections a client has made
  drawn,     \* frames it has sent
  control,   \* what it has sent on its control connection
  backlog,   \* connections not accepted
  open,      \* the acceptor takes connections
  group,     \* descriptors of the client it is connecting
  table,     \* the compositor's descriptors
  thread,    \* request thread: "none", "failed", "run", "tell", "close" or "done"
  fds,       \* its descriptors
  requests,  \* pipe to the compositor
  mpc,       \* the compositor: "poll", "draw", "done", or "killed" by a signal
  woken,     \* event_num > 0
  running,
  list       \* rvgpu_surface_list: [of, updated, sync]

clientVars == <<client, made, drawn, control>>
acceptVars == <<backlog, open, group, table>>
threadVars == <<thread, fds>>
mainVars   == <<mpc, woken, running, list>>
vars == <<clientVars, acceptVars, threadVars, requests, mainVars>>

Entry == [of : Clients, updated : 0 .. MaxDraws, sync : Fds]

TypeOK ==
  /\ client \in [Clients -> {"new", "conn", "asked", "ready", "running", "leaving", "ended"}]
  /\ made \in [Clients -> 0 .. 4] /\ drawn \in [Clients -> 0 .. MaxDraws]
  /\ \A c \in Clients : Range(control[c]) \subseteq {"ADD", "DRAW"}
  /\ Range(backlog) \subseteq Socket /\ Len(backlog) <= Backlog
  /\ open \in BOOLEAN /\ Range(group) \subseteq Fds /\ Len(group) <= 4
  /\ table \in [Fds -> Socket \cup {Closed}]
  /\ thread \in [Clients -> {"none", "failed", "run", "tell", "close", "done"}]
  /\ \A c \in Clients : Range(fds[c]) \subseteq Fds /\ Len(fds[c]) \in {0, 4}
  /\ Range(requests) \subseteq Event
  /\ mpc \in {"poll", "draw", "done", "killed"} /\ {woken, running} \subseteq BOOLEAN
  /\ Range(list) \subseteq Entry

Init ==
  /\ client = [c \in Clients |-> "new"] /\ made = [c \in Clients |-> 0]
  /\ drawn = [c \in Clients |-> 0] /\ control = [c \in Clients |-> <<>>]
  /\ backlog = <<>> /\ open = TRUE /\ group = <<>>
  /\ table = [f \in Fds |-> Closed]
  /\ thread = [c \in Clients |-> "none"] /\ fds = [c \in Clients |-> <<>>]
  /\ requests = <<>>
  /\ mpc = "poll" /\ woken = FALSE /\ running = TRUE /\ list = <<>>

SameId(c, d) == IdOf[c] = IdOf[d]
Up == mpc \in {"poll", "draw"}

(***************************************************************************)
(* The client.                                                             *)
(***************************************************************************)
\* The acceptor of the renderer starts no second process for an id
\* (ProxyAccept, UniqueIds). A socket with a full backlog blocks connect.
Connect(c) ==
  /\ Up /\ open /\ Len(backlog) < Backlog /\ made[c] < 4
  /\ \/ /\ client[c] = "new"
        /\ \A d \in Clients \ {c} : SameId(c, d) => client[d] \in {"new", "ended"}
        /\ OneAtATime => \A d \in Clients : client[d] \notin {"conn", "asked"}
     \/ client[c] = "conn"
  /\ made' = [made EXCEPT ![c] = @ + 1]
  /\ backlog' = Append(backlog, [of |-> c, n |-> made'[c]])
  /\ client' = [client EXCEPT ![c] = IF made'[c] = 4 THEN "asked" ELSE "conn"]
  /\ UNCHANGED <<drawn, control, open, group, table, threadVars, requests, mainVars>>

\* No connection, or its end before the answer; the last of 50 tries.
FailedToConnect(c) ==
  /\ ~open \/ ~Up
  /\ \/ client[c] \in {"new", "conn"}
     \/ client[c] = "asked" /\ IdOf[c] # Stop /\ thread[c] = "none"
  /\ client' = [client EXCEPT ![c] = "ended"]
  /\ UNCHANGED <<made, drawn, control, acceptVars, threadVars, requests, mainVars>>

CreateResult(c) == IF thread[c] = "failed" THEN 11 ELSE 0

Answer(c) ==
  /\ Up /\ client[c] = "asked" /\ thread[c] # "none"
  /\ client' = [client EXCEPT ![c] = IF CreateResult(c) < 0 THEN "ended" ELSE "ready"]
  /\ UNCHANGED <<made, drawn, control, acceptVars, threadVars, requests, mainVars>>

\* Mutant: the background is drawn before the scanout is added.
AddScanout_Late(c) ==
  /\ Up /\ client[c] = "ready"
  /\ client' = [client EXCEPT ![c] = "running"]
  /\ control' = [control EXCEPT ![c] = Append(@, "DRAW") \o <<"ADD">>]
  /\ UNCHANGED <<made, drawn, acceptVars, threadVars, requests, mainVars>>

AddScanout(c) ==
  /\ Up /\ client[c] = "ready"
  /\ client' = [client EXCEPT ![c] = "running"]
  /\ control' = [control EXCEPT ![c] = Append(@, "ADD")]
  /\ UNCHANGED <<made, drawn, acceptVars, threadVars, requests, mainVars>>

Draw(c) ==
  /\ Up /\ client[c] = "running" /\ drawn[c] < MaxDraws
  /\ drawn' = [drawn EXCEPT ![c] = @ + 1]
  /\ control' = [control EXCEPT ![c] = Append(@, "DRAW")]
  /\ UNCHANGED <<client, made, acceptVars, threadVars, requests, mainVars>>

\* rvgpu_pr_dispatch has returned 0: close the sockets but the last.
Leave(c) ==
  /\ Up /\ client[c] = "running"
  /\ client' = [client EXCEPT ![c] = "leaving"]
  /\ UNCHANGED <<made, drawn, control, acceptVars, threadVars, requests, mainVars>>

\* Mutant: the client does not wait for its request thread.
Told_Never(c) ==
  /\ client[c] = "leaving"
  /\ client' = [client EXCEPT ![c] = "ended"]
  /\ UNCHANGED <<made, drawn, control, acceptVars, threadVars, requests, mainVars>>

\* The message on the last socket, or its end.
Told(c) ==
  /\ client[c] = "leaving" /\ thread[c] \in {"close", "done"}
  /\ client' = [client EXCEPT ![c] = "ended"]
  /\ UNCHANGED <<made, drawn, control, acceptVars, threadVars, requests, mainVars>>

\* err(): an invalid command, a lost display.
Crash(c) ==
  /\ Crashes /\ client[c] \in {"ready", "running"}
  /\ client' = [client EXCEPT ![c] = "ended"]
  /\ UNCHANGED <<made, drawn, control, acceptVars, threadVars, requests, mainVars>>

\* All its sockets end with the compositor.
Alone(c) ==
  /\ ~Up /\ client[c] \in {"asked", "ready", "running", "leaving"}
  /\ client' = [client EXCEPT ![c] = "ended"]
  /\ UNCHANGED <<made, drawn, control, acceptVars, threadVars, requests, mainVars>>

\* Mutant: the client waits before it closes its sockets.
ControlOpen_Waiting(c) == client[c] \in {"asked", "ready", "running", "leaving"}

ControlOpen(c) == client[c] \in {"asked", "ready", "running"}

(***************************************************************************)
(* The registration thread.                                                *)
(***************************************************************************)
\* accept returns the lowest free number. The count that is read first comes
\* on the first connection of a client only.
Accept ==
  /\ Up /\ open /\ backlog # <<>> /\ Len(group) < 4
  /\ Len(group) = 1 => table[group[1]].n = 1
  /\ LET f == Min({g \in Fds : table[g] = Closed})
     IN  /\ table' = [table EXCEPT ![f] = Head(backlog)]
         /\ group' = Append(group, f)
  /\ backlog' = Tail(backlog)
  /\ UNCHANGED <<clientVars, open, threadVars, requests, mainVars>>

Owners(g) == {table[f].of : f \in Range(g)}

\* A group of several clients is as far as this model goes (Grouped).
Complete(c) == Up /\ Len(group) = 4 /\ Owners(group) = {c} /\ client[c] = "asked"

Register(c) ==
  /\ Complete(c) /\ IdOf[c] # Stop
  /\ \/ thread' = [thread EXCEPT ![c] = "run"]
     \/ ThreadFails /\ thread' = [thread EXCEPT ![c] = "failed"]
  /\ fds' = [fds EXCEPT ![c] = group]
  /\ group' = <<>>
  /\ UNCHANGED <<clientVars, backlog, open, table, requests, mainVars>>

\* The listening socket is closed; the sockets of the group are not.
StopCommand(c) ==
  /\ Complete(c) /\ IdOf[c] = Stop
  /\ requests' = Append(requests, [type |-> "STOP", of |-> c])
  /\ open' = FALSE /\ backlog' = <<>> /\ group' = <<>>
  /\ UNCHANGED <<clientVars, table, threadVars, mainVars>>

(***************************************************************************)
(* Request threads.                                                        *)
(***************************************************************************)
\* A write on a socket whose client has closed it raises SIGPIPE, which ends
\* the compositor. A client that leaves keeps the last of its sockets.
PeerClosed(s) ==
  s \in Socket /\ client[s.of] \in {"ended"} \cup (IF s.n = Term THEN {} ELSE {"leaving"})

Handle(c) ==
  /\ Up /\ thread[c] = "run" /\ control[c] # <<>>
  /\ requests' = Append(requests, [type |-> Head(control[c]), of |-> c])
  /\ control' = [control EXCEPT ![c] = Tail(@)]
  /\ UNCHANGED <<client, made, drawn, acceptVars, threadVars, mainVars>>

\* Mutant: the thread ends without a REMOVE.
EndOfControl_Silent(c) ==
  /\ Up /\ thread[c] = "run" /\ control[c] = <<>> /\ ~ControlOpen(c)
  /\ thread' = [thread EXCEPT ![c] = "tell"]
  /\ UNCHANGED <<clientVars, acceptVars, requests, fds, mainVars>>

\* recv_json has nothing: the textures and buffers go, then the surface.
EndOfControl(c) ==
  /\ Up /\ thread[c] = "run" /\ control[c] = <<>> /\ ~ControlOpen(c)
  /\ requests' = Append(requests, [type |-> "REMOVE", of |-> c])
  /\ thread' = [thread EXCEPT ![c] = "tell"]
  /\ UNCHANGED <<clientVars, acceptVars, fds, mainVars>>

\* "request thread done"
Tell(c) ==
  /\ Up /\ thread[c] = "tell"
  /\ thread' = [thread EXCEPT ![c] = "close"]
  /\ mpc' = IF PeerClosed([of |-> c, n |-> Term]) THEN "killed" ELSE mpc
  /\ UNCHANGED <<clientVars, acceptVars, fds, requests, woken, running, list>>

\* The four are closed one after the other; here in one step.
CloseFds(c) ==
  /\ Up /\ thread[c] = "close"
  /\ table' = [f \in Fds |-> IF f \in Range(fds[c]) THEN Closed ELSE table[f]]
  /\ thread' = [thread EXCEPT ![c] = "done"]
  /\ UNCHANGED <<clientVars, backlog, open, group, fds, requests, mainVars>>

(***************************************************************************)
(* compositor_render.                                                      *)
(***************************************************************************)
\* Mutant: the clients are not asked.
Rendering_Stopped == running

Rendering == running \/ list # <<>>

Mine(c) == {i \in DOMAIN list : SameId(list[i].of, c)}

\* Mutant: the entry has no descriptor.
Listed_NoSync(e) == Append(list, [of |-> e.of, updated |-> 0, sync |-> 0])

Listed(e) == Append(list, [of |-> e.of, updated |-> 0, sync |-> fds[e.of][Sync]])

Drawn(e) == IF Mine(e.of) = {} THEN list
            ELSE [list EXCEPT ![Min(Mine(e.of))].updated = @ + 1]
Removed(e) == Without(list, Mine(e.of))

Receive ==
  /\ mpc = "poll" /\ requests # <<>>
  /\ LET e == Head(requests)
     IN  /\ list' = CASE e.type = "ADD"    -> Listed(e)
                      [] e.type = "DRAW"   -> Drawn(e)
                      [] e.type = "REMOVE" -> Removed(e)
                      [] OTHER             -> list
         /\ running' = (running /\ e.type # "STOP")
         /\ mpc' = IF Rendering' /\ e.type # "STOP" THEN "poll" ELSE "draw"
  /\ requests' = Tail(requests) /\ woken' = TRUE
  /\ UNCHANGED <<clientVars, acceptVars, threadVars>>

\* Every frame but the last is acknowledged before the composition, the last
\* after the swap.
Broken(from) ==
  \E i \in DOMAIN list : list[i].updated > from /\ PeerClosed(table[list[i].sync])

Acknowledged(from) ==
  [i \in DOMAIN list |-> [list[i] EXCEPT !.updated = Min({@, from})]]

Drained ==
  /\ mpc = "poll" /\ requests = <<>> /\ woken
  /\ mpc' = IF Broken(1) THEN "killed" ELSE "draw"
  /\ list' = Acknowledged(1)
  /\ UNCHANGED <<clientVars, acceptVars, threadVars, requests, woken, running>>

Compose ==
  /\ mpc = "draw"
  /\ mpc' = IF Broken(0) THEN "killed" ELSE IF Rendering THEN "poll" ELSE "done"
  /\ list' = Acknowledged(0) /\ woken' = FALSE
  /\ UNCHANGED <<clientVars, acceptVars, threadVars, requests, running>>

MainLoop == Receive \/ Drained \/ Compose
RequestThread(c) == Handle(c) \/ EndOfControl(c) \/ Tell(c) \/ CloseFds(c)
Registration == Accept \/ \E c \in Clients : Register(c) \/ StopCommand(c)
Client(c) ==
  \/ Connect(c) \/ FailedToConnect(c) \/ Answer(c) \/ AddScanout(c) \/ Draw(c)
  \/ Leave(c) \/ Told(c) \/ Crash(c) \/ Alone(c)

Next == MainLoop \/ Registration \/ \E c \in Clients : RequestThread(c) \/ Client(c)

Spec == Init /\ [][Next]_vars

\* The threads run. A client starts, draws and leaves when it likes; what it
\* has begun it goes on with.
Going(c) == (Connect(c) /\ client[c] = "conn") \/ Answer(c) \/ AddScanout(c) \/ Told(c) \/ Alone(c)

FairSpec ==
  /\ Spec /\ WF_vars(MainLoop) /\ WF_vars(Registration)
  /\ \A c \in Clients : WF_vars(RequestThread(c)) /\ WF_vars(Going(c))

-----------------------------------------------------------------------------
(***************************************************************************)
(* Properties                                                              *)
(***************************************************************************)
Pending(c, t) ==
  \/ t \in Range(control[c])
  \/ \E e \in Range(requests) : e.type = t /\ e.of = c

\* The surface of a running client stays on the list from its ADD to its own
\* REMOVE. A new client with the id of one that has just left adds a surface
\* after the REMOVE of the old one, because that one has waited for its
\* request thread to have written it.
OwnEntry ==
  \A c \in Clients :
     Up /\ client[c] = "running" /\ thread[c] = "run" /\ ~Pending(c, "ADD")
       => \E e \in Range(list) : e.of = c

\* Every DRAW finds the surface of its client.
DrawLands ==
  mpc = "poll" /\ requests # <<>> /\ Head(requests).type = "DRAW"
    => Mine(Head(requests).of) # {} /\ list[Min(Mine(Head(requests).of))].of = Head(requests).of

\* The compositor does not end while it shows a surface.
StaysForClients == mpc = "done" => list = <<>>

\* The surface of a client that has ended, or crashed, does not stay.
Forgotten ==
  \A c \in Clients :
     client[c] = "ended" ~> (~Up \/ \A e \in Range(list) : e.of # c)

\* A client that closes its sockets is told, and ends.
LeavingEnds == \A c \in Clients : client[c] = "leaving" ~> client[c] = "ended"

\* The compositor ends after "stop" when its clients have.
StopEnds ==
  (~open /\ \A c \in Clients : IdOf[c] # Stop => client[c] = "ended") ~> ~Up

\* The four sockets of a request thread are those of one client.
Grouped == Len(group) = 4 => Cardinality(Owners(group)) = 1

\* A frame is acknowledged on the sync connection of the client that drew it.
AckToOwner ==
  mpc = "draw" =>
    \A e \in Range(list) : e.updated > 0 => table[e.sync] \in {Closed, [of |-> e.of, n |-> Sync]}

\* A client that leaves does not end the compositor.
StaysUp == mpc # "killed"

\* A client the compositor has no thread for does not go on.
RefusedWithoutThread == \A c \in Clients : thread[c] = "failed" => client[c] \in {"asked", "ended"}
=============================================================================

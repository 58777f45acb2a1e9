----------------------------- MODULE ProxyAccept -----------------------------
(***************************************************************************)
(* The acceptor of rvgpu-renderer (rvgpu_handle_connection). It takes two  *)
(* connections, reads the surface id from the first, and forks a render    *)
(* process for it unless the id is in use. proxy_list remembers which      *)
(* process has which id; kill(pid, 0) tells whether the process is there.  *)
(* A render process that has ended is a zombie until the SIGCHLD handler   *)
(* has waited for it; the signal interrupts poll.                          *)
(*                                                                         *)
(* A proxy makes its command connection, then its resource connection, and *)
(* then sends its id. Explicit ids are numbers; the n-th pair of           *)
(* connections gets the number n * AutoStep when the id is "no".           *)
(***************************************************************************)
EXTENDS Lists

CONSTANTS
  Proxies,
  IdOf,      \* the -i option of a proxy: a number, or 0 for "no"
  AutoStep,  \* 1000 in the code
  Pids, NoProxy,
  NoPid      \* -1, what fork returns when it fails

ConstantsAssumption ==
  /\ IdOf \in [Proxies -> Nat] /\ AutoStep \in Nat \ {0}
  /\ NoProxy \notin Proxies /\ NoPid \notin Pids

VARIABLES
  proxy,       \* "new", "cmd" and "res" connected, "sent" its id, ended
               \* "closed" before and "gone" after that
  backlog,     \* connections not accepted yet: [of, kind]
  pc,          \* the acceptor is in its first or second accept4, or in poll
  newsock, rsocket,
  num_proxy,
  proxy_list,  \* entries [id, pid]
  render,      \* pid -> [id, cmd, res, state]: "free", "running", "zombie" or "reaped"
  refused,     \* proxies whose connections the acceptor closed
  mixed,       \* history: a proxy connected while another had one connection,
               \* or ended with one
  reused       \* history: pids that a process had before

list == <<num_proxy, proxy_list, render, reused>>
vars == <<proxy, backlog, pc, newsock, rsocket, refused, mixed, list>>

NoSocket == [of |-> NoProxy, kind |-> "none"]
Socket == [of : Proxies, kind : {"cmd", "res"}]
NoProcess == [id |-> 0, cmd |-> NoSocket, res |-> NoSocket, state |-> "free"]

TypeOK ==
  /\ proxy \in [Proxies -> {"new", "cmd", "res", "sent", "closed", "gone"}]
  /\ backlog \in Seq(Socket) /\ pc \in {"first", "second", "poll"}
  /\ {newsock, rsocket} \subseteq Socket \cup {NoSocket}
  /\ num_proxy \in Nat /\ proxy_list \in Seq([id : Nat, pid : Pids \cup {NoPid}])
  /\ \A i, j \in DOMAIN proxy_list : proxy_list[i].id = proxy_list[j].id => i = j
  /\ render \in [Pids -> [id : Nat, cmd : Socket \cup {NoSocket}, res : Socket \cup {NoSocket},
                          state : {"free", "running", "zombie", "reaped"}]]
  /\ refused \subseteq Proxies /\ mixed \in BOOLEAN /\ reused \subseteq Pids

Init ==
  /\ proxy = [p \in Proxies |-> "new"] /\ backlog = <<>>
  /\ pc = "first" /\ newsock = NoSocket /\ rsocket = NoSocket
  /\ num_proxy = 0 /\ proxy_list = <<>>
  /\ render = [x \in Pids |-> NoProcess] /\ refused = {}
  /\ mixed = FALSE /\ reused = {}
-------------------------------------------------------------------------------
\* The proxies (rvgpu-tcp.c).

\* connect_hosts for the command socket, then for the resource socket.
Connect(p) ==
  /\ \/ /\ proxy[p] = "new"
        /\ proxy' = [proxy EXCEPT ![p] = "cmd"]
        /\ backlog' = Append(backlog, [of |-> p, kind |-> "cmd"])
        /\ mixed' = (mixed \/ \E q \in Proxies : proxy[q] = "cmd")
     \/ /\ proxy[p] = "cmd"
        /\ proxy' = [proxy EXCEPT ![p] = "res"]
        /\ backlog' = Append(backlog, [of |-> p, kind |-> "res"])
        /\ UNCHANGED mixed
  /\ UNCHANGED <<pc, newsock, rsocket, refused, list>>

SendId(p) ==
  /\ proxy[p] = "res"
  /\ proxy' = [proxy EXCEPT ![p] = "sent"]
  /\ UNCHANGED <<backlog, pc, newsock, rsocket, refused, mixed, list>>

\* The user ends a proxy, or it ends because its connections are closed.
Leave(p) ==
  /\ proxy[p] \in {"cmd", "res", "sent"}
  /\ proxy' = [proxy EXCEPT ![p] = IF @ = "sent" THEN "gone" ELSE "closed"]
  /\ mixed' = (mixed \/ proxy[p] = "cmd")
  /\ UNCHANGED <<backlog, pc, newsock, rsocket, refused, list>>
-------------------------------------------------------------------------------
\* The acceptor.

Accept ==
  /\ backlog # <<>> /\ pc \in {"first", "second"}
  /\ backlog' = Tail(backlog)
  /\ IF pc = "first"
     THEN pc' = "second" /\ newsock' = Head(backlog) /\ UNCHANGED <<rsocket, num_proxy>>
     ELSE pc' = "poll" /\ rsocket' = Head(backlog) /\ num_proxy' = num_proxy + 1 /\ UNCHANGED newsock
  /\ UNCHANGED <<proxy, proxy_list, render, refused, mixed, reused>>

NoId == newsock.kind = "res" \/ proxy[newsock.of] = "closed"

Readable == proxy[newsock.of] \in {"gone", "closed"} \/ (newsock.kind = "cmd" /\ proxy[newsock.of] = "sent")

SurfaceId == IF IdOf[newsock.of] = 0 THEN num_proxy * AutoStep ELSE IdOf[newsock.of]

\* The first entry with the id: the process in it is looked for.
Entries == {i \in DOMAIN proxy_list : proxy_list[i].id = SurfaceId}
First == CHOOSE i \in Entries : \A j \in Entries : i <= j

\* kill(pid, 0): a zombie is still there, and -1 stands for all processes.
Alive(pid) == pid = NoPid \/ render[pid].state \in {"running", "zombie"}

\* Mutant: an id is in use as long as it is in the list.
HasId_Listed == Entries # {}

\* Mutant: the result of kill is taken the wrong way round.
HasId_Inverted == Entries # {} /\ ~Alive(proxy_list[First].pid)

HasId == Entries # {} /\ Alive(proxy_list[First].pid)

\* Mutant: the entry that was found is not removed.
Cleaned_Kept == proxy_list

Of(pid) == {i \in DOMAIN proxy_list : proxy_list[i].pid = pid}

\* Every entry with the pid of the process that has ended is removed.
Cleaned ==
  IF Entries # {} /\ ~HasId THEN Without(proxy_list, Of(proxy_list[First].pid)) ELSE proxy_list

\* The connections are closed and the loop begins again.
Refuse ==
  /\ refused' = refused \cup {newsock.of, rsocket.of}
  /\ newsock' = NoSocket /\ rsocket' = NoSocket /\ pc' = "first"

\* The entry of a process that is forked, or is not.
ForkFails ==
  /\ proxy_list' = Append(Cleaned, [id |-> SurfaceId, pid |-> NoPid])
  /\ Refuse
  /\ UNCHANGED <<render, reused>>

Fork(x) ==
  /\ render[x].state \in {"free", "reaped"}
  /\ render' = [render EXCEPT ![x] =
       [id |-> SurfaceId, cmd |-> newsock, res |-> rsocket, state |-> "running"]]
  /\ proxy_list' = Append(Cleaned, [id |-> SurfaceId, pid |-> x])
  /\ reused' = IF render[x].state = "reaped" THEN reused \cup {x} ELSE reused
  /\ newsock' = NoSocket /\ rsocket' = NoSocket /\ pc' = "first"
  /\ UNCHANGED refused

\* poll returns with the id, or with the end of the connection.
ReadId ==
  /\ pc = "poll" /\ Readable
  /\ IF NoId \/ HasId
     THEN Refuse /\ UNCHANGED <<proxy_list, render, reused>>
     ELSE ForkFails \/ \E x \in Pids : Fork(x)
  /\ UNCHANGED <<proxy, backlog, num_proxy, mixed>>

\* A render process ends when its proxy has closed the connection.
RenderEnds(x) ==
  /\ render[x].state = "running" /\ proxy[render[x].cmd.of] \in {"gone", "closed"}
  /\ render' = [render EXCEPT ![x].state = "zombie"]
  /\ UNCHANGED <<proxy, backlog, pc, newsock, rsocket, num_proxy, proxy_list, refused, mixed, reused>>

Reaped == [x \in Pids |-> IF render[x].state = "zombie" THEN [render[x] EXCEPT !.state = "reaped"] ELSE render[x]]

\* Mutant: accept4 is not restarted either, and the loop begins again.
wait_for_child_NoRestart ==
  /\ \E x \in Pids : render[x].state = "zombie"
  /\ render' = Reaped
  /\ pc' = "first" /\ newsock' = NoSocket /\ rsocket' = NoSocket
  /\ UNCHANGED <<proxy, backlog, num_proxy, proxy_list, refused, mixed, reused>>

\* SIGCHLD: accept4 is restarted, but a poll that waits fails, which refuses
\* the proxy it waits for.
wait_for_child ==
  /\ \E x \in Pids : render[x].state = "zombie"
  /\ render' = Reaped
  /\ IF pc = "poll" /\ ~Readable THEN Refuse ELSE UNCHANGED <<pc, newsock, rsocket, refused>>
  /\ UNCHANGED <<proxy, backlog, num_proxy, proxy_list, mixed, reused>>

Next ==
  \/ \E p \in Proxies : Connect(p) \/ SendId(p) \/ Leave(p)
  \/ Accept \/ ReadId \/ wait_for_child
  \/ \E x \in Pids : RenderEnds(x)

Spec == Init /\ [][Next]_vars
\* The acceptor and the signal are scheduled, and a proxy that has begun goes on.
FairSpec == Spec /\ WF_vars(Accept) /\ WF_vars(ReadId) /\ WF_vars(wait_for_child)
                 /\ \A p \in Proxies : WF_vars(SendId(p)) /\ WF_vars(Connect(p))
-------------------------------------------------------------------------------
\* No two render processes draw the same surface at one time, although the
\* list keeps entries of processes that have ended and pids come back.
UniqueIds ==
  \A x, y \in Pids : /\ x # y /\ render[x].state = "running" /\ render[y].state = "running"
                     => render[x].id # render[y].id

\* A render process has both connections of one proxy, as long as no two
\* proxies connect at the same time.
Paired ==
  mixed \/ \A x \in Pids : render[x].state # "free" =>
             render[x].cmd.of = render[x].res.of /\ render[x].res.kind = "res"

\* Nothing refuses a proxy but: it has left itself; a process draws the surface
\* with its id, or has a pid that was another's before; a fork for its id has
\* failed; proxies connected at the same time; or a child ends while the
\* acceptor waits for the id.
RefusedForItsId ==
  \A p \in refused' \ refused :
    \/ proxy[p] \in {"gone", "closed"}
    \/ \E x \in Pids : Alive(x) /\ (render[x].id = SurfaceId \/ x \in reused)
    \/ \E i \in DOMAIN proxy_list' : proxy_list'[i] = [id |-> SurfaceId, pid |-> NoPid]
    \/ mixed
    \/ ~Readable /\ \E x \in Pids : render[x].state = "zombie"

\* Every proxy gets a render process or is refused, as long as no two proxies
\* connect at the same time.
Answered ==
  \A p \in Proxies : (proxy[p] = "sent") ~>
    (mixed \/ p \in refused \/ \E x \in Pids : render[x].cmd.of = p /\ render[x].state # "free")
=============================================================================

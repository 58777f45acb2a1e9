------------------------------ MODULE FenceSync ------------------------------
(***************************************************************************)
(* The fence pipeline of rvgpu-proxy: how a command that the guest driver  *)
(* puts on the control virtqueue is copied to the renderers, and how the   *)
(* fences the renderers report come back as responses on the used ring.    *)
(*                                                                         *)
(* Processes:                                                              *)
(*   guest            submits requests and kicks an eventfd (external)     *)
(*   main loop        gpu_device_serve: drains fence_pipe, then takes      *)
(*                    requests, forwards and answers them                  *)
(*   resource thread  resource_thread_func: merges the fences of all       *)
(*                    renderers and writes the smallest to fence_pipe      *)
(*   renderer h       rvgpu_pr_dispatch, with virglrenderer retiring the   *)
(*                    fences it created                                    *)
(*                                                                         *)
(* Requests are numbered 1, 2, ... in ring order and the number is the     *)
(* fence id of a fenced one: the guest draws ids from one counter under    *)
(* the ring's lock, so they grow along the ring.                           *)
(***************************************************************************)
EXTENDS Integers, Sequences, FiniteSets

CONSTANTS
  N,          \* number of renderers the proxy is connected to (scanout_num)
  Kinds,      \* kinds of request the guest may submit, a subset of AllKinds
  QueueSize,  \* size of the control virtqueue (1024 in gpu_device_init)
  CmdCap,     \* commands that fit between the proxy and one renderer
  ResCap,     \* messages that fit between one renderer and the proxy
  PipeCap,    \* fence ids that fit in fence_pipe
  FenceMod,   \* fence ids travel as uint32_t: 2^32 in the code
  FenceFails, \* may virgl_renderer_create_fence fail?
  MaxCmd      \* bound: number of requests the guest submits

Hosts == 0 .. N - 1
Cmds  == 1 .. MaxCmd

(***************************************************************************)
(* "plain" is a request without VIRTIO_GPU_FLAG_FENCE, "fenced" one with   *)
(* it, "read" a fenced TRANSFER_FROM_HOST_3D (sent to renderer 0 only),    *)
(* "insane" one that sanity_check_gpu_ctrl rejects.                        *)
(***************************************************************************)
AllKinds == {"plain", "fenced", "read", "insane"}

ASSUME NAssumption      == N \in Nat \ {0}
ASSUME KindsAssumption  == Kinds \subseteq AllKinds
ASSUME BoundsAssumption == /\ QueueSize \in Nat \ {0}
                           /\ CmdCap \in Nat \ {0}
                           /\ ResCap \in Nat \ {0}
                           /\ PipeCap \in Nat \ {0}
                           /\ FenceMod \in Nat \ {0}
                           /\ FenceFails \in BOOLEAN
                           /\ MaxCmd \in Nat

VARIABLES
  cmds,      \* the requests submitted so far, by kind
  rung,      \* number of requests the guest has rung the doorbell for
  kickfd,    \* is the kick eventfd readable?
  told,      \* requests whose response a VIRTIO_LO_KICK has announced
  pc,        \* main loop: "idle", "fences", "requests" or "forward"
  serves,    \* calls of gpu_device_serve left in this round of epoll events
  taken,     \* last_avail_idx: requests taken off the ring
  left,      \* renderers the current request is still to be written to
  kick,      \* has this call produced a response to announce?
  async,     \* async_cmds: fenced requests waiting for their fence
  refs,      \* reference count of each request
  answers,   \* used-ring elements written for each request
  pipe,      \* fence_pipe
  recv,      \* recv_fence_ids of the resource thread
  heard,     \* renderers whose recv_fence_flags entry is set
  landed,    \* "read" requests whose data is in guest memory
  toHost,    \* commands on their way to each renderer
  fromHost,  \* messages on their way from each renderer
  made,      \* fences created in each renderer and not yet retired
  received,  \* fence_received of each renderer
  sent,      \* fence_sent of each renderer
  done       \* id of the last fence that retired in each renderer's GPU

guestVars    == <<cmds, rung, kickfd>>
mainVars     == <<pc, serves, taken, left, kick, told>>
requestVars  == <<async, refs, answers>>
resourceVars == <<recv, heard, landed>>
rendererVars == <<made, received, sent, done>>
vars == <<guestVars, mainVars, requestVars, resourceVars, rendererVars,
          pipe, toHost, fromHost>>

\* Mutant: a TRANSFER_FROM_HOST_3D is answered like an unfenced request.
Fenced_NotReads(c) == cmds[c] = "fenced"
Fenced(c)   == cmds[c] \in {"fenced", "read"}
\* Mutant: the loop over the scanouts runs one too far.
Dest_OneTooFar(c) == IF cmds[c] = "read" THEN {0} ELSE 0 .. N
Dest(c)     == IF cmds[c] = "read" THEN {0} ELSE Hosts
Answered    == {c \in Cmds : answers[c] > 0}
Wire(f)     == f % FenceMod
FenceMsg(f) == [type |-> "fence", id |-> Wire(f)]
DataMsg(c)  == [type |-> "transfer", id |-> c]

Init ==
  /\ cmds = <<>> /\ rung = 0 /\ kickfd = FALSE /\ told = {}
  /\ pc = "idle" /\ serves = 0 /\ taken = 0 /\ left = {} /\ kick = FALSE
  /\ async = {}
  /\ refs = [c \in Cmds |-> 0]
  /\ answers = [c \in Cmds |-> 0]
  /\ pipe = <<>>
  /\ recv = [h \in Hosts |-> 0]
  /\ heard = {} /\ landed = {}
  /\ toHost = [h \in Hosts |-> <<>>]
  /\ fromHost = [h \in Hosts |-> <<>>]
  /\ made = [h \in Hosts |-> {}]
  /\ received = [h \in Hosts |-> 0]
  /\ sent = [h \in Hosts |-> 0]
  /\ done = [h \in Hosts |-> 0]

-----------------------------------------------------------------------------
(* Guest driver (external). *)

\* A request is put on the ring while it has a free descriptor.
Submit(k) ==
  /\ Len(cmds) < MaxCmd
  /\ Len(cmds) - Cardinality(Answered) < QueueSize
  /\ cmds' = Append(cmds, k)
  /\ UNCHANGED <<rung, kickfd, mainVars, requestVars, resourceVars,
                 rendererVars, pipe, toHost, fromHost>>

\* The doorbell that follows; several requests may share one. The main loop
\* may have taken them all by then.
Notify ==
  /\ rung < Len(cmds)
  /\ rung' = Len(cmds)
  /\ kickfd' = TRUE
  /\ UNCHANGED <<cmds, mainVars, requestVars, resourceVars, rendererVars,
                 pipe, toHost, fromHost>>

-----------------------------------------------------------------------------
(* Main loop of the proxy. *)

\* epoll_wait returns one event per readable descriptor, and each event calls
\* gpu_device_serve, which first resets the eventfd.
Wake ==
  /\ pc = "idle"
  /\ kickfd \/ pipe # <<>>
  /\ serves' = IF kickfd /\ pipe # <<>> THEN 2 ELSE 1
  /\ pc' = "fences"
  /\ kickfd' = FALSE
  /\ UNCHANGED <<cmds, rung, taken, left, kick, told, requestVars,
                 resourceVars, rendererVars, pipe, toHost, fromHost>>

\* Mutant: the caller does not count the responses.
Respond_NoKick(S) ==
  /\ answers' = [c \in Cmds |-> IF c \in S THEN answers[c] + 1 ELSE answers[c]]
  /\ refs' = [c \in Cmds |-> IF c \in S THEN refs[c] - 1 ELSE refs[c]]
  /\ kick' = kick

\* vqueue_send_response for the requests in S; each drops one reference.
Respond(S) ==
  /\ answers' = [c \in Cmds |-> IF c \in S THEN answers[c] + 1 ELSE answers[c]]
  /\ refs' = [c \in Cmds |-> IF c \in S THEN refs[c] - 1 ELSE refs[c]]
  /\ kick' = (kick \/ S # {})

\* Mutants: every waiting request is answered; the comparison is strict; it is
\* off by one; it is made on 32 bits.
Reached_All(id)       == {c \in async : TRUE}
Reached_Strict(id)    == {c \in async : c < id}
Reached_OffByOne(id)  == {c \in async : c <= id + 1}
Reached_Truncated(id) == {c \in async : Wire(c) <= id}

\* process_fences: the waiting requests a reported id answers.
Reached(id) == {c \in async : c <= id}

\* One turn of gpu_device_serve_fences: read an id and process it.
ServeFence ==
  /\ pc = "fences" /\ pipe # <<>>
  /\ pipe' = Tail(pipe)
  /\ async' = async \ Reached(Head(pipe))
  /\ Respond(Reached(Head(pipe)))
  /\ UNCHANGED <<guestVars, pc, serves, taken, left, told, resourceVars,
                 rendererVars, toHost, fromHost>>

\* fence_pipe is empty: go on with the requests.
FencesDrained ==
  /\ pc = "fences" /\ pipe = <<>>
  /\ pc' = "requests"
  /\ UNCHANGED <<guestVars, serves, taken, left, kick, told, requestVars,
                 resourceVars, rendererVars, pipe, toHost, fromHost>>

\* vqueue_get_request of a request that fails the sanity check: answered at
\* once with the error, whatever its flags.
TakeInsane ==
  /\ pc = "requests" /\ taken < Len(cmds)
  /\ cmds[taken + 1] = "insane"
  /\ taken' = taken + 1
  /\ answers' = [answers EXCEPT ![taken + 1] = @ + 1]
  /\ kick' = TRUE
  /\ UNCHANGED <<guestVars, pc, serves, left, told, async, refs, resourceVars,
                 rendererVars, pipe, toHost, fromHost>>

\* Mutant: add_resp is given the request without a reference of its own.
TakeSane_NoRef ==
  /\ pc = "requests" /\ taken < Len(cmds)
  /\ LET c == taken + 1 IN
       /\ cmds[c] # "insane"
       /\ left' = Dest(c)
       /\ async' = IF Fenced(c) THEN async \cup {c} ELSE async
       /\ refs' = [refs EXCEPT ![c] = 1]
  /\ taken' = taken + 1
  /\ pc' = "forward"
  /\ UNCHANGED <<guestVars, serves, kick, told, answers, resourceVars,
                 rendererVars, pipe, toHost, fromHost>>

\* vqueue_get_request of a sane request: the fenced one is queued with a
\* reference of its own (add_resp) before anything is forwarded.
TakeSane ==
  /\ pc = "requests" /\ taken < Len(cmds)
  /\ LET c == taken + 1 IN
       /\ cmds[c] # "insane"
       /\ left' = Dest(c)
       /\ async' = IF Fenced(c) THEN async \cup {c} ELSE async
       /\ refs' = [refs EXCEPT ![c] = IF Fenced(c) THEN 2 ELSE 1]
  /\ taken' = taken + 1
  /\ pc' = "forward"
  /\ UNCHANGED <<guestVars, serves, kick, told, answers, resourceVars,
                 rendererVars, pipe, toHost, fromHost>>

\* gpu_device_send_command: a blocking write to each renderer in turn.
Forward(h) ==
  /\ pc = "forward"
  /\ h \in left /\ \A g \in left : h <= g
  /\ Len(toHost[h]) < CmdCap
  /\ toHost' = [toHost EXCEPT ![h] = Append(@, taken)]
  /\ left' = left \ {h}
  /\ UNCHANGED <<guestVars, pc, serves, taken, kick, told, requestVars,
                 resourceVars, rendererVars, pipe, fromHost>>

\* The request is executed; without a fence it is answered, with one only the
\* main loop's own reference is dropped.
Finish ==
  /\ pc = "forward" /\ left = {}
  /\ pc' = "requests"
  /\ IF Fenced(taken)
     THEN /\ refs' = [refs EXCEPT ![taken] = @ - 1]
          /\ UNCHANGED <<answers, kick>>
     ELSE Respond({taken})
  /\ UNCHANGED <<guestVars, serves, taken, left, told, async, resourceVars,
                 rendererVars, pipe, toHost, fromHost>>

\* Mutant: the call returns without looking for requests that came meanwhile.
EndServe_NoRecheck ==
  /\ pc = "requests"
  /\ told' = IF kick THEN Answered ELSE told
  /\ kick' = FALSE
  /\ serves' = serves - 1
  /\ pc' = IF serves = 1 THEN "idle" ELSE "fences"
  /\ kickfd' = IF serves = 1 THEN kickfd ELSE FALSE
  /\ UNCHANGED <<cmds, rung, taken, left, requestVars, resourceVars,
                 rendererVars, pipe, toHost, fromHost>>

\* No request left: announce the responses, if there are any, and return to
\* the next event or to epoll_wait.
EndServe ==
  /\ pc = "requests" /\ taken = Len(cmds)
  /\ told' = IF kick THEN Answered ELSE told
  /\ kick' = FALSE
  /\ serves' = serves - 1
  /\ pc' = IF serves = 1 THEN "idle" ELSE "fences"
  /\ kickfd' = IF serves = 1 THEN kickfd ELSE FALSE
  /\ UNCHANGED <<cmds, rung, taken, left, requestVars, resourceVars,
                 rendererVars, pipe, toHost, fromHost>>

Main == \/ Wake \/ ServeFence \/ FencesDrained \/ TakeInsane \/ TakeSane
        \/ \E h \in Hosts : Forward(h)
        \/ Finish \/ EndServe

-----------------------------------------------------------------------------
(* Resource thread of the proxy. *)

\* Mutant: the newest report wins.
Slowest_Newest(ids) == {g \in Hosts : \A k \in Hosts : ids[g] >= ids[k]}

\* The renderers whose last reported id is the smallest.
Slowest(ids) == {g \in Hosts : \A k \in Hosts : ids[g] <= ids[k]}

\* A fence of renderer h: remember it and write the smallest id of all the
\* renderers to fence_pipe, unless that one has reported nothing yet.
ReceiveFence(h) ==
  /\ fromHost[h] # <<>> /\ Head(fromHost[h]).type = "fence"
  /\ fromHost' = [fromHost EXCEPT ![h] = Tail(@)]
  /\ recv' = [recv EXCEPT ![h] = Head(fromHost[h]).id]
  /\ heard' = heard \cup {h}
  /\ \E g \in Slowest(recv') :
       IF g \in heard'
       THEN /\ Len(pipe) < PipeCap
            /\ pipe' = Append(pipe, recv'[g])
       ELSE UNCHANGED pipe
  /\ UNCHANGED <<guestVars, mainVars, requestVars, landed, rendererVars, toHost>>

\* resource_transfer: the data of a "read" request is copied to guest memory.
ReceiveData(h) ==
  /\ fromHost[h] # <<>> /\ Head(fromHost[h]).type = "transfer"
  /\ fromHost' = [fromHost EXCEPT ![h] = Tail(@)]
  /\ landed' = landed \cup {Head(fromHost[h]).id}
  /\ UNCHANGED <<guestVars, mainVars, requestVars, recv, heard, rendererVars,
                 pipe, toHost>>

-----------------------------------------------------------------------------
(* Renderer h. *)

\* virgl_renderer_create_fence and the bookkeeping after it. Its failure is
\* only logged: no fence is ever reported for this command.
CreateFence(h, c) ==
  \/ /\ made' = [made EXCEPT ![h] = @ \cup {c}]
     /\ received' = [received EXCEPT ![h] = IF c > @ THEN Wire(c) ELSE @]
  \/ /\ FenceFails
     /\ UNCHANGED <<made, received>>

\* One turn of rvgpu_pr_dispatch: execute the next command, upload the data
\* of a "read" one, create its fence.
Dispatch(h) ==
  /\ toHost[h] # <<>>
  /\ LET c == Head(toHost[h]) IN
       /\ IF cmds[c] = "read"
          THEN /\ Len(fromHost[h]) < ResCap
               /\ fromHost' = [fromHost EXCEPT ![h] = Append(@, DataMsg(c))]
          ELSE UNCHANGED fromHost
       /\ IF Fenced(c)
          THEN CreateFence(h, c)
          ELSE UNCHANGED <<made, received>>
  /\ toHost' = [toHost EXCEPT ![h] = Tail(@)]
  /\ UNCHANGED <<guestVars, mainVars, requestVars, resourceVars, sent, done, pipe>>

\* Mutant: only the fence itself is taken off the list of pending fences.
Retire_OnlyOne(h) ==
  /\ received[h] # sent[h] \/ toHost[h] # <<>>
  /\ Len(fromHost[h]) < ResCap
  /\ \E f \in made[h] :
       /\ made' = [made EXCEPT ![h] = @ \ {f}]
       /\ done' = [done EXCEPT ![h] = f]
       /\ sent' = [sent EXCEPT ![h] = IF Wire(f) > @ THEN Wire(f) ELSE @]
       /\ fromHost' = [fromHost EXCEPT ![h] = Append(@, FenceMsg(f))]
  /\ UNCHANGED <<guestVars, mainVars, requestVars, resourceVars, received,
                 pipe, toHost>>

\* virgl_renderer_poll finds that everything up to fence f has retired and
\* calls virgl_write_fence. The renderer polls while a fence is outstanding by
\* its own count, or when a command wakes it from the indefinite wait.
Retire(h) ==
  /\ received[h] # sent[h] \/ toHost[h] # <<>>
  /\ Len(fromHost[h]) < ResCap
  /\ \E f \in made[h] :
       /\ made' = [made EXCEPT ![h] = {g \in @ : g > f}]
       /\ done' = [done EXCEPT ![h] = f]
       /\ sent' = [sent EXCEPT ![h] = IF Wire(f) > @ THEN Wire(f) ELSE @]
       /\ fromHost' = [fromHost EXCEPT ![h] = Append(@, FenceMsg(f))]
  /\ UNCHANGED <<guestVars, mainVars, requestVars, resourceVars, received,
                 pipe, toHost>>

-----------------------------------------------------------------------------

Next ==
  \/ \E k \in Kinds : Submit(k)
  \/ Notify
  \/ Main
  \/ \E h \in Hosts : ReceiveFence(h) \/ ReceiveData(h) \/ Dispatch(h) \/ Retire(h)

Spec == Init /\ [][Next]_vars

(***************************************************************************)
(* The threads of the proxy and the renderers are always scheduled, the    *)
(* guest rings the doorbell of what it submitted, and the GPU finishes     *)
(* what it was given. The guest need not submit anything.                  *)
(***************************************************************************)
Fairness ==
  /\ WF_vars(Notify) /\ WF_vars(Main)
  /\ \A h \in Hosts : /\ WF_vars(ReceiveFence(h)) /\ WF_vars(ReceiveData(h))
                      /\ WF_vars(Dispatch(h)) /\ WF_vars(Retire(h))

FairSpec == Spec /\ Fairness

-----------------------------------------------------------------------------
\* The guest sees no more of the pipeline than FenceService promises.
Service == INSTANCE FenceService
             WITH issued <- cmds, completed <- Answered, progress <- done

(***************************************************************************)
(* Properties.                                                             *)
(***************************************************************************)

Msg == [type : {"fence", "transfer"}, id : Nat]

TypeLoop ==
  /\ cmds \in Seq(Kinds) /\ Len(cmds) <= MaxCmd
  /\ rung \in Nat /\ rung <= Len(cmds)
  /\ pc \in {"idle", "fences", "requests", "forward"}
  /\ serves \in 0 .. 2 /\ (pc # "idle" => serves > 0)
  /\ taken \in Nat /\ taken <= Len(cmds) /\ (pc = "forward" => taken > 0)
  /\ left \subseteq Hosts

TypeFlags == kickfd \in BOOLEAN /\ kick \in BOOLEAN

TypeRequests ==
  /\ told \subseteq Cmds /\ async \subseteq 1 .. taken
  /\ refs \in [Cmds -> Int] /\ answers \in [Cmds -> Nat]

TypeChannels ==
  /\ pipe \in Seq(Nat)
  /\ toHost \in [Hosts -> Seq(Cmds)] /\ fromHost \in [Hosts -> Seq(Msg)]

TypeHosts ==
  /\ recv \in [Hosts -> Nat] /\ heard \subseteq Hosts /\ landed \subseteq Nat
  /\ made \in [Hosts -> SUBSET Cmds]
  /\ received \in [Hosts -> Nat] /\ sent \in [Hosts -> Nat]
  /\ done \in [Hosts -> Nat]

\* Type invariant.
TypeOK == TypeLoop /\ TypeFlags /\ TypeRequests /\ TypeChannels /\ TypeHosts

\* The point of the pipeline (rvgpu-gpu-device.c, resource_thread_func and
\* process_fences): a fenced request is answered only when the fence, or a
\* later one, has retired in the GPU of EVERY renderer, however their reports
\* interleave and even when the 32-bit ids on the wire wrap.
AnswerAfterAllHosts ==
  \A c \in Answered : Fenced(c) => \A h \in Hosts : c <= done[h]

\* The last request the main loop has passed on to renderer h, or skipped.
Passed(h) == IF pc = "forward" /\ h \in left THEN taken - 1 ELSE taken

\* Why the minimum is safe: per renderer the retired fences, the fences being
\* waited for and the commands still on the way follow each other in ring
\* order, across the main loop, two sockets and virglrenderer; so the fence
\* reported last speaks for all requests before it.
InOrder ==
  \A h \in Hosts :
    /\ done[h] <= Passed(h)
    /\ \A f \in made[h] : Fenced(f) /\ done[h] < f /\ f <= Passed(h)
    /\ \A i \in 1 .. Len(toHost[h]) :
         /\ done[h] < toHost[h][i] /\ toHost[h][i] <= Passed(h)
         /\ \A f \in made[h] : f < toHost[h][i]
         /\ \A j \in 1 .. i - 1 : toHost[h][j] < toHost[h][i]

\* No id between a GPU and process_fences promises more than its GPU has done;
\* what is in fence_pipe holds for every renderer, the silent ones included.
ReportsBacked ==
  /\ \A h \in Hosts :
       /\ recv[h] <= done[h]
       /\ \A i \in 1 .. Len(fromHost[h]) :
            fromHost[h][i].type = "fence" => fromHost[h][i].id <= done[h]
  /\ \A i \in 1 .. Len(pipe) : \A h \in Hosts : pipe[i] <= done[h]

\* The data of a TRANSFER_FROM_HOST_3D is in the guest's memory before the
\* guest is told that the transfer is over: they arrive over one socket but
\* are handled by two threads (resource_transfer, process_fences).
DataBeforeAnswer ==
  \A c \in Answered : cmds[c] = "read" => c \in landed

\* A request the main loop is through with is either waiting for its fence,
\* holding the one reference add_resp took, or was answered exactly once and
\* freed; the assertion in vqueue_request_unref never fails.
RequestLifetime ==
  \A c \in 1 .. taken :
    (pc = "forward" => c # taken) =>
      IF c \in async THEN refs[c] = 1 /\ answers[c] = 0
                    ELSE refs[c] = 0 /\ answers[c] = 1

\* Whenever the main loop goes back to epoll_wait, every response it wrote has
\* been announced to the guest by a kick.
NothingUnannounced == pc = "idle" => told = Answered

\* The resource thread never blocks on fence_pipe, so it always empties the
\* resource sockets and the renderers never stall on them for good: each
\* renderer has at most one entry per unanswered request in the pipe.
FencePipeBounded == Len(pipe) <= N * Cardinality(async)

\* Together: when the guest is shown an answer the request is over and freed,
\* its data is there and no other answer is kept back; and the pipe between the
\* two threads that see to this never stops one of them.
AnswersSound ==
  DataBeforeAnswer /\ RequestLifetime /\ NothingUnannounced /\ FencePipeBounded

\* Every request without a fence is answered and the answer announced.
PlainCompletes ==
  \A c \in Cmds : c <= Len(cmds) /\ ~Fenced(c) ~> c \in told

\* Every fenced request is, once every renderer has created its fence or a
\* later one.
FencedCompletes ==
  \A c \in Cmds :
    (c <= Len(cmds) /\ \A h \in Hosts : received[h] >= c) ~> c \in told

\* A renderer with an unretired fence does not sit in the indefinite poll of
\* rvgpu_pr_readbuf.
PendingFencePolled ==
  \A h \in Hosts : made[h] # {} => received[h] # sent[h]

\* Everything is answered, and nobody sleeps over an answer: the main loop, the
\* resource thread and the renderers wake each other through a chain of
\* eventfds, pipes and counts. It needs ids that do not wrap.
AllComplete == PlainCompletes /\ FencedCompletes /\ []PendingFencePolled

\* The pipeline implements FenceService: requests are completed at most once
\* and for good, and the fences of each GPU retire in order.
ImplementsService == Service!Spec
=============================================================================

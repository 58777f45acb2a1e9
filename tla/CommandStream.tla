---------------------------- MODULE CommandStream ----------------------------
(***************************************************************************)
(* The byte streams between rvgpu-proxy and one renderer, as far as their  *)
(* framing goes. A command is forwarded as it is; when it loads guest      *)
(* memory into resources, one list of patches per resource follows it, and *)
(* nothing in the stream says how many lists there are. Proxy and renderer *)
(* each keep a table of resources and each decide from their own table     *)
(* which loads have a list, so the tables must agree at that point of the  *)
(* stream. The renderer answers a TRANSFER_FROM_HOST_3D with data on the   *)
(* resource stream, which the proxy consumes by its table.                 *)
(*                                                                         *)
(* The guest's view of a resource is updated when its command is served:   *)
(* requests are served in ring order. A resource is "absent", "bare"       *)
(* (created) or "backed" (by guest memory).                                *)
(***************************************************************************)
EXTENDS Integers, Sequences, SequencesExt, FiniteSetsExt

CONSTANTS
  Res,       \* resource ids
  Sizes,     \* sizes of the backing storage the guest attaches
  MaxMem,    \* limit on the backing storage, 0 for none (option -M)
  MaxLoads,  \* bound: transfers in one SUBMIT_3D
  StreamCap, \* messages that fit in the command stream
  ResCap     \* messages that fit in the resource stream

ASSUME ResAssumption    == IsFiniteSet(Res)
ASSUME SizesAssumption  == Sizes \subseteq Nat \ {0}
ASSUME LimitsAssumption == /\ MaxMem \in Nat /\ MaxLoads \in Nat
                           /\ StreamCap \in Nat \ {0} /\ ResCap \in Nat \ {0}

VARIABLES
  gtable,   \* the guest driver's view of each resource
  table,    \* reslist of the proxy: state of each resource
  held,     \* length of the backing the proxy has mapped for each resource
  mem,      \* curr_mem of the proxy
  sending,  \* transfers of the last command whose patches are still to be sent
  stream,   \* the command stream
  views,    \* history: the proxy's view when each message in it was written
  rend,     \* the renderer: its table, the lists it has still to read, its fate
  fromHost, \* the resource stream: a resource id per upload
  torn      \* has the proxy left a payload unread in the resource stream?

proxyVars == <<table, held, mem, sending>>
vars == <<gtable, proxyVars, stream, views, rend, fromHost, torn>>

States   == {"absent", "bare", "backed"}
Ops      == {"create", "unref", "attach", "detach", "load", "store",
             "patch", "end"}
Messages == {m \in [op : Ops, rs : Seq(Res)] :
               m.op \in {"load", "patch", "end"} \/ Len(m.rs) = 1}
Msg(op, rs) == [op |-> op, rs |-> rs]

\* The transfers of a command that have a patch list, by their position in it;
\* the lists are sent in that order.
Lists(t, rs) == {i \in DOMAIN rs : t[rs[i]] = "backed"}
AllButFirst(L) == {i \in L : \E j \in L : j < i}

\* What the renderer should be like when it has read all that is sent.
View == [table |-> table, loads |-> sending, fate |-> "ok"]

Init ==
  /\ gtable = [r \in Res |-> "absent"]
  /\ table = [r \in Res |-> "absent"]
  /\ held = [r \in Res |-> 0] /\ mem = 0
  /\ sending = {} /\ stream = <<>> /\ views = <<>>
  /\ rend = [table |-> [r \in Res |-> "absent"], loads |-> {}, fate |-> "ok"]
  /\ fromHost = <<>> /\ torn = FALSE

-----------------------------------------------------------------------------
(* Main loop of the proxy, driven by the guest. *)

\* A blocking write to the renderer.
Send(op, rs) ==
  /\ Len(stream) < StreamCap
  /\ stream' = Append(stream, Msg(op, rs))
  /\ views' = Append(views, View)
  /\ UNCHANGED <<rend, fromHost, torn>>

\* gpu_device_send_command, before the command is executed. The patches of
\* the previous command have all been written.
Forward(op, rs) == sending = {} /\ Send(op, rs)

Create(r) ==
  /\ gtable[r] = "absent"
  /\ Forward("create", <<r>>)
  /\ gtable' = [gtable EXCEPT ![r] = "bare"]
  /\ table' = [table EXCEPT ![r] = IF @ = "absent" THEN "bare" ELSE @]
  /\ UNCHANGED <<held, mem, sending>>

\* A TRANSFER_FROM_HOST_3D of r is unfinished: the guest driver keeps the
\* resource and its backing until the fence, which comes after the data.
Reading(r) ==
  \/ Msg("store", <<r>>) \in ToSet(stream)
  \/ r \in ToSet(fromHost)

\* Mutant: the memory of the backing is not given back.
Unref_KeepsMem(r) ==
  /\ gtable[r] # "absent" /\ ~Reading(r)
  /\ Forward("unref", <<r>>)
  /\ gtable' = [gtable EXCEPT ![r] = "absent"]
  /\ table' = [table EXCEPT ![r] = "absent"]
  /\ held' = [held EXCEPT ![r] = 0]
  /\ UNCHANGED <<mem, sending>>

\* gpu_device_destroy_res: also frees the backing. The guest does not drop a
\* resource while a transfer from it is unfinished.
Unref(r) ==
  /\ gtable[r] # "absent" /\ ~Reading(r)
  /\ Forward("unref", <<r>>)
  /\ gtable' = [gtable EXCEPT ![r] = "absent"]
  /\ table' = [table EXCEPT ![r] = "absent"]
  /\ mem' = mem - held[r]
  /\ held' = [held EXCEPT ![r] = 0]
  /\ UNCHANGED sending

\* Mutant: no limit is taken for a limit of nothing.
Refused_Unlimited(n) == mem + n > MaxMem

\* Mutant: the limit is one for each backing.
Refused_PerBacking(n) == MaxMem # 0 /\ n > MaxMem

\* The limit check of gpu_device_attach, after the command was forwarded.
Refused(n) == MaxMem # 0 /\ mem + n > MaxMem

\* gpu_device_attach. The guest driver only logs a refusal.
Attach(r, n) ==
  /\ gtable[r] = "bare"
  /\ Forward("attach", <<r>>)
  /\ gtable' = [gtable EXCEPT ![r] = "backed"]
  /\ IF table[r] = "bare" /\ ~Refused(n)
     THEN /\ table' = [table EXCEPT ![r] = "backed"]
          /\ held' = [held EXCEPT ![r] = n]
          /\ mem' = mem + n
     ELSE UNCHANGED <<table, held, mem>>
  /\ UNCHANGED sending

\* gpu_device_detach.
Detach(r) ==
  /\ gtable[r] = "backed" /\ ~Reading(r)
  /\ Forward("detach", <<r>>)
  /\ gtable' = [gtable EXCEPT ![r] = "bare"]
  /\ table' = [table EXCEPT ![r] = IF @ = "backed" THEN "bare" ELSE @]
  /\ mem' = mem - held[r]
  /\ held' = [held EXCEPT ![r] = 0]
  /\ UNCHANGED sending

\* A TRANSFER_TO_HOST, or a SUBMIT_3D with the transfers rs in its buffer. The
\* buffer comes from a guest process and may name any resource: one without a
\* backing is answered with an error and has no patches.
Load(rs) ==
  /\ Forward("load", rs)
  /\ sending' = Lists(table, rs)
  /\ UNCHANGED <<gtable, table, held, mem>>

\* TRANSFER_FROM_HOST_3D: nothing to execute in the proxy.
Store(r) ==
  /\ gtable[r] = "backed"
  /\ Forward("store", <<r>>)
  /\ UNCHANGED <<gtable, proxyVars>>

\* write_patch: the next patch of the load being sent.
SendPatch ==
  /\ sending # {} /\ Send("patch", <<>>)
  /\ UNCHANGED <<gtable, proxyVars>>

\* Mutant: a load ends without the empty patch.
SendEnd_Silent ==
  /\ sending # {} /\ Len(stream) < StreamCap
  /\ sending' = AllButFirst(sending)
  /\ UNCHANGED <<gtable, table, held, mem, stream, views, rend, fromHost,
                 torn>>

\* The end of rvgpu_ctx_transfer_to_host: a patch of length 0.
SendEnd ==
  /\ sending # {} /\ Send("end", <<>>)
  /\ sending' = AllButFirst(sending)
  /\ UNCHANGED <<gtable, table, held, mem>>

\* resource_transfer, in the resource thread. Without a backing it returns
\* after the headers, and the payload stays in the stream.
ReceiveData ==
  /\ fromHost # <<>> /\ ~torn
  /\ fromHost' = Tail(fromHost)
  /\ torn' = (table[Head(fromHost)] # "backed")
  /\ UNCHANGED <<gtable, proxyVars, stream, views, rend>>

-----------------------------------------------------------------------------
(* The renderer. *)

Lost(s) == [s EXCEPT !.fate = "lost"]

\* load_resource_patched reads patches until the empty one; a command in
\* their place is taken for a patch.
ReadPatch(s, m) ==
  CASE m.op = "patch" -> s
    [] m.op = "end"   -> [s EXCEPT !.loads = AllButFirst(@)]
    [] OTHER          -> Lost(s)

\* A command in rvgpu_pr_dispatch; a patch in its place is taken for one.
Obey(s, m) ==
  LET r == m.rs[1] IN
  CASE m.op = "create" -> [s EXCEPT !.table[r] = "bare"]
    [] m.op = "unref"  -> [s EXCEPT !.table[r] = "absent"]
    [] m.op = "attach" -> IF s.table[r] = "bare"
                          THEN [s EXCEPT !.table[r] = "backed"] ELSE Lost(s)
    [] m.op = "detach" -> IF s.table[r] = "backed"
                          THEN [s EXCEPT !.table[r] = "bare"] ELSE s
    [] m.op = "load"   -> [s EXCEPT !.loads = Lists(s.table, m.rs)]
    [] m.op = "store"  -> IF s.table[r] = "backed" THEN s ELSE Lost(s)
    [] OTHER           -> Lost(s)

Parse(s, m) == IF s.loads # {} THEN ReadPatch(s, m) ELSE Obey(s, m)

\* Does m, read in state s, make the renderer upload a resource?
Uploads(s, m) == m.op = "store" /\ Parse(s, m).fate = "ok"

\* A renderer that has lost the framing exits by errx.
Render ==
  /\ stream # <<>> /\ rend.fate = "ok"
  /\ rend' = Parse(rend, Head(stream))
  /\ stream' = Tail(stream) /\ views' = Tail(views)
  /\ IF Uploads(rend, Head(stream))
     THEN /\ Len(fromHost) < ResCap
          /\ fromHost' = Append(fromHost, Head(stream).rs[1])
     ELSE UNCHANGED fromHost
  /\ UNCHANGED <<gtable, proxyVars, torn>>

-----------------------------------------------------------------------------

Guest ==
  \/ \E r \in Res : \/ Create(r) \/ Unref(r) \/ Detach(r) \/ Store(r)
                    \/ \E n \in Sizes : Attach(r, n)
  \/ \E k \in 1 .. MaxLoads : \E rs \in [1 .. k -> Res] : Load(rs)

Next == Guest \/ SendPatch \/ SendEnd \/ ReceiveData \/ Render

Spec == Init /\ [][Next]_vars

(***************************************************************************)
(* All threads are scheduled. The loop over the backing that sends patches *)
(* is finite: SendEnd, enabled again and again while the stream has room,  *)
(* is taken at last. The guest need not do anything.                       *)
(***************************************************************************)
Fairness == SF_vars(SendEnd) /\ WF_vars(ReceiveData) /\ WF_vars(Render)

FairSpec == Spec /\ Fairness

(***************************************************************************)
(* Properties.                                                             *)
(***************************************************************************)

RendStates ==
  [table : [Res -> States], loads : SUBSET Nat, fate : {"ok", "lost"}]

\* Type invariant.
TypeOK ==
  /\ gtable \in [Res -> States]
  /\ table \in [Res -> States] /\ held \in [Res -> Nat] /\ mem \in Int
  /\ \A r \in Res : held[r] > 0 <=> table[r] = "backed"
  /\ sending \subseteq Nat
  /\ stream \in Seq(Messages)
  /\ views \in Seq(RendStates) /\ Len(views) = Len(stream)
  /\ rend \in RendStates
  /\ fromHost \in Seq(Res) /\ torn \in BOOLEAN

\* The proxy's view when it was about to write message i.
Expected(i) == IF i > Len(stream) THEN View ELSE views[i]

\* The framing (rvgpu_pr_dispatch and load_resource against gpu_device_send_res
\* and rvgpu_ctx_transfer_to_host): when the renderer has read all that is in
\* the stream it has the proxy's table, expects exactly the patch lists the
\* proxy has still to send, and has never taken a patch for a command or a
\* command for a patch, whatever the lag between the two.
CatchesUp ==
  /\ rend = Expected(1)
  /\ \A i \in 1 .. Len(stream) : Parse(Expected(i), stream[i]) = Expected(i + 1)

\* Resource data always finds the backing it is for (resource_transfer), so
\* the resource stream never loses its framing either.
NoStrayData == ~torn

\* curr_mem is what the mapped backings add up to, however resources end
\* (gpu_device_attach, gpu_device_detach, gpu_device_free_res).
MemAccounted == mem = SumFunctionOnSet(held, Res)

\* The limit given with -M is never exceeded (gpu_device_attach).
WithinLimit == MaxMem # 0 => mem <= MaxMem

\* A long sequence of attach, detach and unref neither leaks the proxy's memory
\* account nor takes it over the limit.
MemoryKept == MemAccounted /\ WithinLimit

\* The renderer never reads a patch list for ever.
LoadFinishes == rend.loads # {} ~> rend.loads = {}

\* The exits "insane command issued" and "Wrong patch format!" of the renderer
\* are never reached on the commands of a well-behaved guest.
FramingKept == rend.fate = "ok"
=============================================================================

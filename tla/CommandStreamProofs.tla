------------------------- MODULE CommandStreamProofs -------------------------
(***************************************************************************)
(* Proofs about the framing of the command and resource streams, for any   *)
(* set of resources, any size of the streams and any number of transfers   *)
(* in one SUBMIT_3D; and about the memory the proxy accounts for, with and  *)
(* without a limit. What the backings add up to is a sum the library makes *)
(* by recursion over the set of resources; the lemmas about it argue with  *)
(* a smallest set that is a counterexample, not by induction.              *)
(***************************************************************************)
EXTENDS CommandStream, SequenceTheorems, FiniteSetTheorems,
        WellFoundedInduction, TLAPS

\* What a command that is forwarded looks like to the type invariant.
LEMMA SendType ==
  ASSUME TypeOK, NEW op \in Ops, NEW rs \in Seq(Res), Send(op, rs),
         op \in {"load", "patch", "end"} \/ Len(rs) = 1
  PROVE  /\ stream' \in Seq(Messages) /\ views' \in Seq(RendStates)
         /\ Len(views') = Len(stream')
         /\ rend' \in RendStates /\ fromHost' \in Seq(Res) /\ torn' \in BOOLEAN
<1>1. Msg(op, rs) \in Messages /\ View \in RendStates
  BY DEF TypeOK, Msg, Messages, View, RendStates
<1>2. UNCHANGED <<rend, fromHost, torn>>
  BY DEF Send
<1>3. rend' \in RendStates /\ fromHost' \in Seq(Res)
  BY <1>2 DEF TypeOK
<1>4. torn' \in BOOLEAN
  BY <1>2, Zenon DEF TypeOK
<1>5. /\ stream' \in Seq(Messages) /\ views' \in Seq(RendStates)
      /\ Len(views') = Len(stream')
  <2>1. stream' = Append(stream, Msg(op, rs)) /\ views' = Append(views, View)
    BY DEF Send
  <2>2. stream \in Seq(Messages) /\ views \in Seq(RendStates) /\ Len(views) = Len(stream)
    BY DEF TypeOK
  <2>3. PICK m \in Messages, v \in RendStates : m = Msg(op, rs) /\ v = View
    BY <1>1
  <2> QED BY <2>1, <2>2, <2>3, AppendProperties
<1> QED BY <1>3, <1>4, <1>5

\* Reading a message leaves the renderer typed.
LEMMA ParseType ==
  ASSUME NEW s \in RendStates, NEW m \in Messages
  PROVE  Parse(s, m) \in RendStates
<1>1. ReadPatch(s, m) \in RendStates
  BY DEF ReadPatch, Lost, RendStates, AllButFirst
<1>2. Obey(s, m) \in RendStates
  <2>1. Lists(s.table, m.rs) \in SUBSET Nat
    BY DEF Lists, Messages, RendStates
  <2>2. Lost(s) \in RendStates
    BY DEF Lost, RendStates
  <2> QED BY <2>1, <2>2 DEF Obey, RendStates, States
<1> QED BY <1>1, <1>2 DEF Parse

(***************************************************************************)
(* Type correctness.                                                       *)
(***************************************************************************)
LEMMA TypeInit == Init => TypeOK
<1> SUFFICES ASSUME Init PROVE TypeOK
  OBVIOUS
<1>1. /\ gtable \in [Res -> States] /\ table \in [Res -> States]
      /\ held \in [Res -> Nat] /\ mem \in Int /\ sending \subseteq Nat
      /\ \A r \in Res : held[r] > 0 <=> table[r] = "backed"
  BY DEF Init, States
<1>2. /\ stream \in Seq(Messages) /\ views \in Seq(RendStates)
      /\ Len(views) = Len(stream) /\ fromHost \in Seq(Res)
  BY EmptySeq DEF Init
<1>3. rend \in RendStates
  BY DEF Init, RendStates, States
<1>4. torn \in BOOLEAN
  BY Zenon DEF Init
<1> QED BY <1>1, <1>2, <1>3, <1>4 DEF TypeOK

LEMMA TypeStep == TypeOK /\ [Next]_vars => TypeOK'
<1> SUFFICES ASSUME TypeOK, [Next]_vars PROVE TypeOK'
  OBVIOUS
<1> USE DEF Ops
<1>1. ASSUME NEW r \in Res, Create(r) PROVE TypeOK'
  <2>1. <<r>> \in Seq(Res) /\ Len(<<r>>) = 1 /\ Forward("create", <<r>>)
    BY <1>1 DEF Create
  <2>2. /\ gtable' \in [Res -> States] /\ table' \in [Res -> States]
        /\ held' \in [Res -> Nat] /\ mem' \in Int /\ sending' \subseteq Nat
        /\ \A q \in Res : held'[q] > 0 <=> table'[q] = "backed"
    BY <1>1 DEF Create, TypeOK, States
  <2> QED BY <2>1, <2>2, SendType DEF Forward, TypeOK
<1>2. ASSUME NEW r \in Res, Unref(r) PROVE TypeOK'
  <2>1. <<r>> \in Seq(Res) /\ Len(<<r>>) = 1 /\ Forward("unref", <<r>>)
    BY <1>2 DEF Unref
  <2>2. /\ gtable' \in [Res -> States] /\ table' \in [Res -> States]
        /\ held' \in [Res -> Nat] /\ mem' \in Int /\ sending' \subseteq Nat
        /\ \A q \in Res : held'[q] > 0 <=> table'[q] = "backed"
    BY <1>2 DEF Unref, TypeOK, States
  <2> QED BY <2>1, <2>2, SendType DEF Forward, TypeOK
<1>3. ASSUME NEW r \in Res, NEW n \in Sizes, Attach(r, n) PROVE TypeOK'
  <2>1. <<r>> \in Seq(Res) /\ Len(<<r>>) = 1 /\ Forward("attach", <<r>>)
    BY <1>3 DEF Attach
  <2>2. /\ gtable' \in [Res -> States] /\ table' \in [Res -> States]
        /\ held' \in [Res -> Nat] /\ mem' \in Int /\ sending' \subseteq Nat
        /\ \A q \in Res : held'[q] > 0 <=> table'[q] = "backed"
    <3>1. CASE table[r] = "bare" /\ ~Refused(n)
      <4>1. n \in Nat /\ n > 0
        BY SizesAssumption
      <4>2. /\ table' = [table EXCEPT ![r] = "backed"]
            /\ held' = [held EXCEPT ![r] = n] /\ mem' = mem + n
            /\ gtable' = [gtable EXCEPT ![r] = "backed"] /\ sending' = sending
        BY <1>3, <3>1 DEF Attach
      <4> QED BY <4>1, <4>2 DEF TypeOK, States
    <3>2. CASE ~(table[r] = "bare" /\ ~Refused(n))
      BY <1>3, <3>2 DEF Attach, TypeOK, States
    <3> QED BY <3>1, <3>2
  <2> QED BY <2>1, <2>2, SendType DEF Forward, TypeOK
<1>4. ASSUME NEW r \in Res, Detach(r) PROVE TypeOK'
  <2>1. <<r>> \in Seq(Res) /\ Len(<<r>>) = 1 /\ Forward("detach", <<r>>)
    BY <1>4 DEF Detach
  <2>2. /\ gtable' \in [Res -> States] /\ table' \in [Res -> States]
        /\ held' \in [Res -> Nat] /\ mem' \in Int /\ sending' \subseteq Nat
        /\ \A q \in Res : held'[q] > 0 <=> table'[q] = "backed"
    BY <1>4 DEF Detach, TypeOK, States
  <2> QED BY <2>1, <2>2, SendType DEF Forward, TypeOK
<1>5. ASSUME NEW rs \in Seq(Res), Load(rs) PROVE TypeOK'
  <2>1. Forward("load", rs)
    BY <1>5 DEF Load
  <2>2. sending' \subseteq Nat
    BY <1>5 DEF Load, Lists
  <2> QED BY <1>5, <2>1, <2>2, SendType DEF Forward, TypeOK, Load
<1>6. ASSUME NEW r \in Res, Store(r) PROVE TypeOK'
  <2>1. <<r>> \in Seq(Res) /\ Len(<<r>>) = 1 /\ Forward("store", <<r>>)
    BY <1>6 DEF Store
  <2> QED BY <1>6, <2>1, SendType DEF Forward, TypeOK, Store, proxyVars
<1>7. CASE SendPatch
  <2>1. Send("patch", <<>>) /\ <<>> \in Seq(Res)
    BY <1>7 DEF SendPatch
  <2> QED BY <1>7, <2>1, SendType DEF SendPatch, proxyVars, TypeOK
<1>8. CASE SendEnd
  <2>1. Send("end", <<>>) /\ <<>> \in Seq(Res)
    BY <1>8 DEF SendEnd
  <2>2. sending' \subseteq Nat
    BY <1>8 DEF SendEnd, AllButFirst, TypeOK
  <2> QED BY <1>8, <2>1, <2>2, SendType DEF SendEnd, TypeOK
<1>9. CASE ReceiveData
  BY <1>9 DEF ReceiveData, TypeOK, proxyVars
<1>10. CASE Render
  <2>1. /\ stream' \in Seq(Messages) /\ views' \in Seq(RendStates)
        /\ Len(views') = Len(stream')
    BY <1>10, HeadTailProperties, EmptySeq DEF Render, TypeOK
  <2>2. Head(stream) \in Messages
    BY <1>10, HeadTailProperties DEF Render, TypeOK
  <2>3. rend' \in RendStates
    BY <1>10, <2>2, ParseType DEF Render, TypeOK
  <2>4. fromHost' \in Seq(Res)
    <3>1. CASE Uploads(rend, Head(stream))
      <4>1. /\ Head(stream).rs \in Seq(Res) /\ Len(Head(stream).rs) = 1
        BY <2>2, <3>1 DEF Uploads, Messages
      <4>2. Head(stream).rs[1] \in Res
        BY <4>1, ElementOfSeq
      <4>3. fromHost' = Append(fromHost, Head(stream).rs[1])
        BY <1>10, <3>1 DEF Render
      <4> QED BY <4>2, <4>3, AppendProperties DEF TypeOK
    <3>2. CASE ~Uploads(rend, Head(stream))
      BY <1>10, <3>2 DEF Render, TypeOK
    <3> QED BY <3>1, <3>2
  <2> QED BY <1>10, <2>1, <2>3, <2>4 DEF Render, TypeOK, proxyVars
<1>11. CASE UNCHANGED vars
  BY <1>11 DEF vars, proxyVars, TypeOK
<1> QED
  <2>1. \A k \in 1 .. MaxLoads : \A rs \in [1 .. k -> Res] : rs \in Seq(Res)
    BY LimitsAssumption
  <2> QED
    BY <1>1, <1>2, <1>3, <1>4, <1>5, <1>6, <1>7, <1>8, <1>9, <1>10, <1>11, <2>1
       DEF Next, Guest

\* The proxy and the renderer never leave their types.
THEOREM TypeCorrect == Spec => []TypeOK
<1>1. Init => TypeOK
  BY TypeInit
<1>2. TypeOK /\ [Next]_vars => TypeOK'
  BY TypeStep
<1> QED BY <1>1, <1>2, PTL DEF Spec

(***************************************************************************)
(* The framing, when there is no memory limit. The invariant that carries  *)
(* it: the guest's view is the proxy's table, each message takes the view  *)
(* at which it was written to the next one (CatchesUp), and a resource     *)
(* with an unfinished upload keeps its backing.                            *)
(***************************************************************************)
KeepsBacking == \A r \in Res : Reading(r) => table[r] = "backed"

IInv == TypeOK /\ gtable = table /\ CatchesUp /\ KeepsBacking /\ NoStrayData

\* The messages after one was written, and what was expected at each.
LEMMA Written ==
  ASSUME TypeOK, NEW m,
         stream' = Append(stream, m), views' = Append(views, View)
  PROVE  /\ Len(stream') = Len(stream) + 1
         /\ \A i \in 1 .. Len(stream) : stream'[i] = stream[i] /\ views'[i] = views[i]
         /\ stream'[Len(stream) + 1] = m /\ views'[Len(stream) + 1] = View
BY AppendProperties, LenProperties DEF TypeOK, View, RendStates

\* A message that takes the proxy's view to the next one keeps the framing.
LEMMA Grow ==
  ASSUME CatchesUp, NEW m, Len(stream) \in Nat,
         Len(stream') = Len(stream) + 1,
         \A i \in 1 .. Len(stream) : stream'[i] = stream[i] /\ views'[i] = views[i],
         stream'[Len(stream) + 1] = m, views'[Len(stream) + 1] = View,
         rend' = rend, Parse(View, m) = View'
  PROVE  CatchesUp'
<1>1. ASSUME NEW i \in 1 .. Len(stream) + 1 PROVE Expected(i)' = Expected(i)
  BY <1>1 DEF Expected
<1>2. Expected(Len(stream) + 1) = View
  BY DEF Expected
<1>3. rend' = Expected(1)'
  BY <1>1 DEF CatchesUp
<1>4. ASSUME NEW i \in 1 .. Len(stream')
      PROVE  Parse(Expected(i)', stream'[i]) = Expected(i + 1)'
  <2>1. CASE i \in 1 .. Len(stream)
    BY <1>1, <2>1 DEF CatchesUp
  <2>2. CASE i = Len(stream) + 1
    <3>1. Expected(i)' = View /\ stream'[i] = m
      BY <1>1, <1>2, <2>2
    <3>2. Expected(i + 1)' = View'
      BY <2>2 DEF Expected
    <3> QED BY <3>1, <3>2
  <2> QED BY <2>1, <2>2
<1> QED BY <1>3, <1>4 DEF CatchesUp

\* The messages after the first one was read.
LEMMA Read ==
  ASSUME TypeOK, stream # <<>>, stream' = Tail(stream), views' = Tail(views)
  PROVE  /\ Len(stream) \in Nat /\ Len(stream) > 0 /\ Head(stream) = stream[1]
         /\ Len(stream') = Len(stream) - 1
         /\ \A i \in 1 .. Len(stream) - 1 : /\ stream'[i] = stream[i + 1]
                                            /\ views'[i] = views[i + 1]
BY HeadTailProperties, LenProperties, EmptySeq DEF TypeOK

\* Reading the first message keeps the framing.
LEMMA Shrink ==
  ASSUME CatchesUp, Len(stream) \in Nat, Len(stream) > 0,
         Len(stream') = Len(stream) - 1,
         \A i \in 1 .. Len(stream) - 1 : /\ stream'[i] = stream[i + 1]
                                         /\ views'[i] = views[i + 1],
         rend' = Parse(rend, stream[1]), View' = View
  PROVE  CatchesUp'
<1>1. ASSUME NEW i \in 1 .. Len(stream) PROVE Expected(i)' = Expected(i + 1)
  BY <1>1 DEF Expected
<1>2. rend' = Expected(1)'
  BY <1>1 DEF CatchesUp
<1>3. ASSUME NEW i \in 1 .. Len(stream')
      PROVE  Parse(Expected(i)', stream'[i]) = Expected(i + 1)'
  <2>1. /\ i \in 1 .. Len(stream) /\ i + 1 \in 1 .. Len(stream)
        /\ stream'[i] = stream[i + 1]
    BY <1>3
  <2>2. Parse(Expected(i + 1), stream[i + 1]) = Expected((i + 1) + 1)
    BY <2>1 DEF CatchesUp
  <2>3. Expected(i)' = Expected(i + 1) /\ Expected(i + 1)' = Expected((i + 1) + 1)
    BY <1>1, <2>1
  <2> QED BY <2>1, <2>2, <2>3
<1> QED BY <1>2, <1>3 DEF CatchesUp

\* A forwarded command that both tables obey alike keeps the framing.
LEMMA Sent ==
  ASSUME IInv, NEW op, NEW rs, Send(op, rs), Parse(View, Msg(op, rs)) = View'
  PROVE  CatchesUp'
<1>1. /\ stream' = Append(stream, Msg(op, rs)) /\ views' = Append(views, View)
      /\ rend' = rend /\ TypeOK /\ CatchesUp
  BY DEF Send, IInv
<1>2. Len(stream) \in Nat
  BY <1>1, LenProperties DEF TypeOK
<1> QED BY <1>1, <1>2, Written, Grow

\* Only TRANSFER_FROM_HOST_3D starts an upload.
LEMMA SendReading ==
  ASSUME TypeOK, NEW op, NEW rs, Send(op, rs), NEW r \in Res, Reading(r)'
  PROVE  Reading(r) \/ Msg(op, rs) = Msg("store", <<r>>)
<1>1. fromHost' = fromHost /\ stream' = Append(stream, Msg(op, rs))
  BY DEF Send
<1>2. ToSet(stream') = ToSet(stream) \cup {Msg(op, rs)}
  <2>1. /\ Len(stream') = Len(stream) + 1 /\ Len(stream) \in Nat
        /\ \A i \in 1 .. Len(stream) : stream'[i] = stream[i]
        /\ stream'[Len(stream) + 1] = Msg(op, rs)
        /\ DOMAIN stream = 1 .. Len(stream) /\ DOMAIN stream' = 1 .. Len(stream')
    BY <1>1, AppendProperties, LenProperties DEF TypeOK
  <2> QED BY <2>1 DEF ToSet
<1> QED BY <1>1, <1>2 DEF Reading

\* A command that spares the resources being uploaded leaves them backed.
LEMMA Spared ==
  ASSUME TypeOK, KeepsBacking, NEW op, NEW rs, Send(op, rs),
         \A r \in Res : Reading(r) => table'[r] = table[r],
         \A r \in Res : Msg(op, rs) = Msg("store", <<r>>) => table'[r] = "backed"
  PROVE  KeepsBacking'
<1> SUFFICES ASSUME NEW r \in Res, Reading(r)' PROVE table'[r] = "backed"
  BY DEF KeepsBacking
<1>1. Reading(r) \/ Msg(op, rs) = Msg("store", <<r>>)
  BY SendReading
<1> QED BY <1>1 DEF KeepsBacking

\* Every command forwarded without a memory limit keeps the invariant.
LEMMA CommandStep ==
  ASSUME MaxMem = 0, IInv, TypeOK', NEW r \in Res, NEW n \in Nat,
         Create(r) \/ Unref(r) \/ Attach(r, n) \/ Detach(r) \/ Store(r)
  PROVE  IInv'
<1> USE DEF Msg
<1>1. /\ TypeOK /\ gtable = table /\ CatchesUp /\ KeepsBacking /\ NoStrayData
      /\ rend.fate = rend.fate
  BY DEF IInv
<1>2. CASE Create(r)
  <2>1. /\ Forward("create", <<r>>) /\ table[r] = "absent" /\ sending = {}
        /\ table' = [table EXCEPT ![r] = "bare"] /\ gtable' = table'
        /\ sending' = sending
    BY <1>1, <1>2 DEF Create, Forward, TypeOK
  <2>2. Parse(View, Msg("create", <<r>>)) = View'
    BY <2>1 DEF Parse, Obey, View
  <2>3. KeepsBacking'
    <3>1. ASSUME NEW q \in Res, Reading(q) PROVE table'[q] = table[q]
      <4>1. table[q] = "backed" /\ q # r
        BY <1>1, <2>1, <3>1 DEF KeepsBacking
      <4> QED BY <1>1, <2>1, <4>1 DEF TypeOK
    <3>2. \A q \in Res : Msg("create", <<r>>) # Msg("store", <<q>>)
      OBVIOUS
    <3> QED BY <1>1, <2>1, <3>1, <3>2, Spared DEF Forward
  <2> QED BY <1>1, <2>1, <2>2, <2>3, Sent DEF IInv, NoStrayData, Forward, Send
<1>3. CASE Unref(r)
  <2>1. /\ Forward("unref", <<r>>) /\ ~Reading(r) /\ sending = {}
        /\ table' = [table EXCEPT ![r] = "absent"] /\ gtable' = table'
        /\ sending' = sending
    BY <1>1, <1>3 DEF Unref, Forward, TypeOK
  <2>2. Parse(View, Msg("unref", <<r>>)) = View'
    BY <2>1 DEF Parse, Obey, View
  <2>3. KeepsBacking'
    <3>1. ASSUME NEW q \in Res, Reading(q) PROVE table'[q] = table[q]
      <4>1. table[q] = "backed" /\ q # r
        BY <1>1, <2>1, <3>1 DEF KeepsBacking
      <4> QED BY <1>1, <2>1, <4>1 DEF TypeOK
    <3>2. \A q \in Res : Msg("unref", <<r>>) # Msg("store", <<q>>)
      OBVIOUS
    <3> QED BY <1>1, <2>1, <3>1, <3>2, Spared DEF Forward
  <2> QED BY <1>1, <2>1, <2>2, <2>3, Sent DEF IInv, NoStrayData, Forward, Send
<1>4. CASE Attach(r, n)
  <2>1. /\ Forward("attach", <<r>>) /\ table[r] = "bare" /\ sending = {}
        /\ table' = [table EXCEPT ![r] = "backed"] /\ gtable' = table'
        /\ sending' = sending
    BY <1>1, <1>4 DEF Attach, Refused, Forward, TypeOK
  <2>2. Parse(View, Msg("attach", <<r>>)) = View'
    BY <2>1 DEF Parse, Obey, View
  <2>3. KeepsBacking'
    <3>1. ASSUME NEW q \in Res, Reading(q) PROVE table'[q] = table[q]
      <4>1. table[q] = "backed" /\ q # r
        BY <1>1, <2>1, <3>1 DEF KeepsBacking
      <4> QED BY <1>1, <2>1, <4>1 DEF TypeOK
    <3>2. \A q \in Res : Msg("attach", <<r>>) # Msg("store", <<q>>)
      OBVIOUS
    <3> QED BY <1>1, <2>1, <3>1, <3>2, Spared DEF Forward
  <2> QED BY <1>1, <2>1, <2>2, <2>3, Sent DEF IInv, NoStrayData, Forward, Send
<1>5. CASE Detach(r)
  <2>1. /\ Forward("detach", <<r>>) /\ ~Reading(r) /\ sending = {}
        /\ table[r] = "backed"
        /\ table' = [table EXCEPT ![r] = "bare"] /\ gtable' = table'
        /\ sending' = sending
    BY <1>1, <1>5 DEF Detach, Forward, TypeOK
  <2>2. Parse(View, Msg("detach", <<r>>)) = View'
    BY <2>1 DEF Parse, Obey, View
  <2>3. KeepsBacking'
    <3>1. ASSUME NEW q \in Res, Reading(q) PROVE table'[q] = table[q]
      <4>1. table[q] = "backed" /\ q # r
        BY <1>1, <2>1, <3>1 DEF KeepsBacking
      <4> QED BY <1>1, <2>1, <4>1 DEF TypeOK
    <3>2. \A q \in Res : Msg("detach", <<r>>) # Msg("store", <<q>>)
      OBVIOUS
    <3> QED BY <1>1, <2>1, <3>1, <3>2, Spared DEF Forward
  <2> QED BY <1>1, <2>1, <2>2, <2>3, Sent DEF IInv, NoStrayData, Forward, Send
<1>6. CASE Store(r)
  <2>1. /\ Forward("store", <<r>>) /\ table[r] = "backed" /\ sending = {}
        /\ table' = table /\ gtable' = gtable /\ sending' = sending
    BY <1>1, <1>6 DEF Store, Forward, proxyVars
  <2>2. Parse(View, Msg("store", <<r>>)) = View'
    BY <2>1 DEF Parse, Obey, View
  <2>3. KeepsBacking'
    <3>1. \A q \in Res : Msg("store", <<r>>) = Msg("store", <<q>>) => q = r
      OBVIOUS
    <3> QED BY <1>1, <2>1, <3>1, Spared DEF Forward, KeepsBacking
  <2> QED BY <1>1, <2>1, <2>2, <2>3, Sent DEF IInv, NoStrayData, Forward, Send
<1> QED BY <1>2, <1>3, <1>4, <1>5, <1>6

\* Patch lists and the commands that start them keep the invariant.
LEMMA PatchStep ==
  ASSUME IInv, TypeOK', NEW rs \in Seq(Res), Load(rs) \/ SendPatch \/ SendEnd
  PROVE  IInv'
<1>1. /\ TypeOK /\ gtable = table /\ CatchesUp /\ KeepsBacking /\ NoStrayData
      /\ sending \subseteq Nat
  BY DEF IInv, TypeOK
<1>2. PICK op, qs : /\ op \in {"load", "patch", "end"} /\ Send(op, qs)
                    /\ table' = table /\ gtable' = gtable
                    /\ Parse(View, Msg(op, qs)) = View'
  <2>1. CASE Load(rs)
    <3>1. Parse(View, Msg("load", rs)) = View'
      BY <2>1 DEF Load, Forward, Parse, Obey, View, Msg
    <3> QED BY <2>1, <3>1 DEF Load, Forward
  <2>2. CASE SendPatch
    <3>1. Parse(View, Msg("patch", <<>>)) = View'
      BY <2>2 DEF SendPatch, proxyVars, Parse, ReadPatch, View, Msg
    <3> QED BY <2>2, <3>1 DEF SendPatch, proxyVars
  <2>3. CASE SendEnd
    <3>1. Parse(View, Msg("end", <<>>)) = View'
      BY <2>3 DEF SendEnd, Parse, ReadPatch, View, Msg
    <3> QED BY <2>3, <3>1 DEF SendEnd
  <2> QED BY <2>1, <2>2, <2>3
<1>3. \A q \in Res : Msg(op, qs) # Msg("store", <<q>>)
  BY <1>2 DEF Msg
<1>4. KeepsBacking'
  BY <1>1, <1>2, <1>3, Spared
<1>5. CatchesUp'
  BY <1>2, Sent
<1>6. NoStrayData'
  BY <1>1, <1>2 DEF Send, NoStrayData
<1> QED BY <1>1, <1>2, <1>4, <1>5, <1>6 DEF IInv

\* Data that arrives finds its backing.
LEMMA ReceiveStep ==
  ASSUME IInv, TypeOK', ReceiveData
  PROVE  IInv'
<1>1. /\ TypeOK /\ gtable = table /\ CatchesUp /\ KeepsBacking
      /\ fromHost \in Seq(Res) /\ fromHost # <<>> /\ fromHost' = Tail(fromHost)
      /\ UNCHANGED <<gtable, table, sending, stream, views, rend>>
  BY DEF IInv, TypeOK, ReceiveData, proxyVars
<1>2. /\ Head(fromHost) \in ToSet(fromHost) /\ Head(fromHost) \in Res
      /\ ToSet(fromHost') \subseteq ToSet(fromHost)
  BY <1>1, HeadTailProperties, EmptySeq, LenProperties DEF ToSet
<1>3. NoStrayData'
  <2>1. table[Head(fromHost)] = "backed"
    BY <1>1, <1>2 DEF KeepsBacking, Reading
  <2>2. torn' = (table[Head(fromHost)] # "backed")
    BY DEF ReceiveData
  <2> QED BY <2>1, <2>2 DEF NoStrayData
<1>4. KeepsBacking'
  BY <1>1, <1>2 DEF KeepsBacking, Reading
<1>5. CatchesUp'
  BY <1>1 DEF CatchesUp, Expected, View
<1> QED BY <1>1, <1>3, <1>4, <1>5 DEF IInv

\* The renderer reads as the proxy's view says it should.
LEMMA RenderStep ==
  ASSUME IInv, TypeOK', Render
  PROVE  IInv'
<1>1. /\ TypeOK /\ gtable = table /\ CatchesUp /\ KeepsBacking /\ NoStrayData
      /\ stream # <<>> /\ stream' = Tail(stream) /\ views' = Tail(views)
      /\ rend' = Parse(rend, Head(stream))
      /\ UNCHANGED <<gtable, table, sending, torn>>
  BY DEF IInv, Render, proxyVars
<1>2. View' = View
  BY <1>1 DEF View
<1>3. CatchesUp'
  BY <1>1, <1>2, Read, Shrink
<1>4. ASSUME NEW r \in Res, Reading(r)' PROVE Reading(r)
  <2>1. /\ Head(stream) \in ToSet(stream) /\ Head(stream) \in Messages
        /\ ToSet(stream') \subseteq ToSet(stream)
    BY <1>1, HeadTailProperties, EmptySeq, LenProperties DEF ToSet, TypeOK
  <2>2. CASE r \in ToSet(fromHost')
    <3>1. CASE Uploads(rend, Head(stream))
      <4>1. fromHost' = Append(fromHost, Head(stream).rs[1])
        BY <3>1 DEF Render
      <4>2. Head(stream) = Msg("store", <<Head(stream).rs[1]>>)
        <5>1. /\ Head(stream).op = "store" /\ Head(stream).rs \in Seq(Res)
              /\ Len(Head(stream).rs) = 1
          BY <2>1, <3>1 DEF Uploads, Messages
        <5>2. Head(stream).rs = <<Head(stream).rs[1]>>
          BY <5>1
        <5> QED BY <2>1, <5>1, <5>2 DEF Msg, Messages
      <4>3. fromHost \in Seq(Res)
        BY <1>1 DEF TypeOK
      <4>4. \A x : x \in ToSet(Append(fromHost, Head(stream).rs[1]))
                     => x \in ToSet(fromHost) \/ x = Head(stream).rs[1]
        BY <4>3 DEF ToSet
      <4> QED BY <2>1, <2>2, <4>1, <4>2, <4>4 DEF Reading
    <3>2. CASE ~Uploads(rend, Head(stream))
      BY <2>2, <3>2 DEF Render, Reading
    <3> QED BY <3>1, <3>2
  <2>3. CASE Msg("store", <<r>>) \in ToSet(stream')
    BY <2>1, <2>3 DEF Reading
  <2> QED BY <1>4, <2>2, <2>3 DEF Reading
<1>5. KeepsBacking'
  BY <1>1, <1>4 DEF KeepsBacking
<1> QED BY <1>1, <1>3, <1>5 DEF IInv, NoStrayData

\* The invariant holds at the start,
LEMMA FramingInit == Init => IInv
<1> SUFFICES ASSUME Init PROVE IInv
  OBVIOUS
<1>1. CatchesUp
  BY DEF Init, CatchesUp, Expected, View
<1>2. KeepsBacking
  BY DEF Init, KeepsBacking, Reading, ToSet
<1>3. gtable = table /\ NoStrayData
  BY DEF Init, NoStrayData
<1> QED BY <1>1, <1>2, <1>3, TypeInit DEF IInv

\* and without a memory limit, when the proxy refuses nothing, it is kept.
LEMMA FramingNext ==
  ASSUME MaxMem = 0
  PROVE  IInv /\ [Next]_vars => IInv'
<1> SUFFICES ASSUME IInv, [Next]_vars PROVE IInv'
  OBVIOUS
<1>1. TypeOK'
  BY TypeStep DEF IInv
<1>2. CASE Guest
  <2>1. ASSUME NEW r \in Res, NEW n \in Sizes, Attach(r, n) PROVE IInv'
    BY <1>1, <2>1, SizesAssumption, CommandStep
  <2>2. ASSUME NEW r \in Res, Create(r) \/ Unref(r) \/ Detach(r) \/ Store(r)
        PROVE  IInv'
    <3>1. 0 \in Nat
      OBVIOUS
    <3> QED BY <1>1, <2>2, <3>1, CommandStep
  <2>3. ASSUME NEW k \in 1 .. MaxLoads, NEW rs \in [1 .. k -> Res], Load(rs)
        PROVE  IInv'
    <3>1. rs \in Seq(Res)
      BY LimitsAssumption
    <3> QED BY <1>1, <2>3, <3>1, PatchStep
  <2> QED BY <1>2, <2>1, <2>2, <2>3 DEF Guest
<1>3. CASE SendPatch \/ SendEnd
  <2>1. <<>> \in Seq(Res)
    OBVIOUS
  <2> QED BY <1>1, <1>3, <2>1, PatchStep
<1>4. CASE ReceiveData
  BY <1>1, <1>4, ReceiveStep
<1>5. CASE Render
  BY <1>1, <1>5, RenderStep
<1>6. CASE UNCHANGED vars
  <2>1. /\ TypeOK /\ gtable = table /\ CatchesUp /\ KeepsBacking /\ NoStrayData
        /\ UNCHANGED <<gtable, table, sending, stream, views, rend, fromHost, torn>>
    BY <1>6 DEF IInv, vars, proxyVars
  <2>2. CatchesUp'
    BY <2>1 DEF CatchesUp, Expected, View
  <2>3. KeepsBacking'
    BY <2>1 DEF KeepsBacking, Reading
  <2> QED BY <1>1, <2>1, <2>2, <2>3 DEF IInv, NoStrayData
<1> QED BY <1>2, <1>3, <1>4, <1>5, <1>6 DEF Next

\* Without a memory limit the commands on the way bring the renderer to the
\* proxy's view of every resource: the command stream keeps its framing.
THEOREM FramingCorrect ==
  ASSUME MaxMem = 0
  PROVE  Spec => []CatchesUp
<1>1. IInv /\ [Next]_vars => IInv'
  BY FramingNext
<1>2. IInv => CatchesUp
  BY DEF IInv
<1> QED BY <1>1, <1>2, FramingInit, PTL DEF Spec

\* Without a memory limit resource data always finds the backing it is for: the
\* resource stream keeps its framing.
THEOREM StrayCorrect ==
  ASSUME MaxMem = 0
  PROVE  Spec => []NoStrayData
<1>1. IInv /\ [Next]_vars => IInv'
  BY FramingNext
<1>2. IInv => NoStrayData
  BY DEF IInv
<1> QED BY <1>1, <1>2, FramingInit, PTL DEF Spec

\* With a memory limit, the backings never exceed it.
THEOREM LimitKept == Spec => []WithinLimit
<1>1. Init => WithinLimit
  BY LimitsAssumption DEF Init, WithinLimit
<1>2. TypeOK /\ WithinLimit /\ [Next]_vars => WithinLimit'
  <2> SUFFICES ASSUME TypeOK, WithinLimit, [Next]_vars, MaxMem # 0
               PROVE  mem' <= MaxMem
    BY DEF WithinLimit
  <2>1. mem \in Int /\ mem <= MaxMem /\ MaxMem \in Nat /\ held \in [Res -> Nat]
    BY LimitsAssumption DEF TypeOK, WithinLimit
  <2>2. ASSUME NEW r \in Res, NEW n \in Sizes, Attach(r, n) PROVE mem' <= MaxMem
    BY <2>1, <2>2, SizesAssumption DEF Attach, Refused
  <2>3. ASSUME NEW r \in Res, Unref(r) \/ Detach(r) PROVE mem' <= MaxMem
    BY <2>1, <2>3 DEF Unref, Detach
  <2>4. CASE mem' = mem
    BY <2>1, <2>4
  <2> QED
    BY <2>2, <2>3, <2>4
       DEF Next, Guest, Create, Load, Store, SendPatch, SendEnd, ReceiveData,
           Render, proxyVars, vars
<1> QED BY <1>1, <1>2, TypeCorrect, PTL DEF Spec

(***************************************************************************)
(* Sums over a finite set.                                                 *)
(***************************************************************************)

\* The sum over a set is made of sums h over its subsets.
Pick(s) == CHOOSE x \in s : TRUE
PartSum(f, h, s) == IF s = {} THEN 0 ELSE f[Pick(s)] + h[s \ {Pick(s)}]
SumLoop(h, f, D) == h = [s \in D |-> PartSum(f, h, s)]
UpTo(S, n) == {s \in SUBSET S : Cardinality(s) <= n}

\* Some numbers have a least one.
LEMMA LeastNumber ==
  ASSUME NEW N, N \subseteq Nat, N # {}
  PROVE  \E x \in N : \A y \in N : x <= y
<1>1. PICK x \in N : \A y \in N : ~(<<y, x>> \in {ss \in Nat \X Nat : ss[1] < ss[2]})
  BY NatLessThanWellFounded, WFMin DEF OpToRel
<1>2. \A y \in N : x <= y
  <2> SUFFICES ASSUME NEW y \in N, ~(x <= y) PROVE FALSE
    OBVIOUS
  <2>1. y < x /\ y \in Nat /\ x \in Nat
    OBVIOUS
  <2>2. <<y, x>> \in {ss \in Nat \X Nat : ss[1] < ss[2]}
    BY <2>1
  <2> QED BY <1>1, <2>2
<1> QED BY <1>2

\* A set of subsets has one that is in it only as a whole.
LEMMA SmallestSet ==
  ASSUME NEW S, IsFiniteSet(S), NEW B, B \subseteq SUBSET S, B # {}
  PROVE  \E s \in B : \A x \in s : s \ {x} \notin B
<1> DEFINE N == {Cardinality(s) : s \in B}
<1>1. \A s \in B : IsFiniteSet(s) /\ Cardinality(s) \in Nat
  BY FS_Subset, FS_CardinalityType
<1>2. N \subseteq Nat /\ N # {}
  BY <1>1
<1>3. PICK n \in N : \A m \in N : n <= m
  <2> HIDE DEF N
  <2> QED BY <1>2, LeastNumber
<1>4. PICK s \in B : n = Cardinality(s)
  BY <1>3
<1>5. ASSUME NEW x \in s, s \ {x} \in B PROVE FALSE
  <2>1. Cardinality(s \ {x}) = Cardinality(s) - 1
    BY <1>1, FS_RemoveElement
  <2>2. n <= Cardinality(s \ {x})
    BY <1>3, <1>5
  <2>3. n \in Nat
    BY <1>1, <1>4
  <2> HIDE DEF N
  <2> QED BY <1>4, <2>1, <2>2, <2>3
<1> QED BY <1>5

\* What a sum is made of exists.
LEMMA SumExists ==
  ASSUME NEW S, IsFiniteSet(S), NEW f
  PROVE  \E h : SumLoop(h, f, SUBSET S)
<1>1. \A s \in SUBSET S : IsFiniteSet(s) /\ Cardinality(s) \in Nat /\ Cardinality(s) <= Cardinality(S)
  BY FS_Subset, FS_CardinalityType
<1>2. \A s \in SUBSET S : s # {} =>
        /\ Pick(s) \in s /\ s \ {Pick(s)} \in SUBSET S
        /\ Cardinality(s \ {Pick(s)}) = Cardinality(s) - 1
  BY <1>1, FS_RemoveElement DEF Pick
<1> DEFINE N == {n \in Nat : ~\E h : SumLoop(h, f, UpTo(S, n))}
<1>3. N = {}
  <2> SUFFICES ASSUME N # {} PROVE FALSE
    OBVIOUS
  <2>1. PICK m \in N : \A n \in N : m <= n
    <3>1. N \subseteq Nat
      OBVIOUS
    <3> HIDE DEF N
    <3> QED BY <3>1, LeastNumber
  <2>2. m \in Nat /\ ~\E h : SumLoop(h, f, UpTo(S, m))
    BY <2>1
  <2>3. m # 0
    <3>1. \A s \in UpTo(S, 0) : s = {}
      BY <1>1, FS_EmptySet DEF UpTo
    <3>2. PICK h : h = [s \in UpTo(S, 0) |-> 0]
      OBVIOUS
    <3>3. \A s \in UpTo(S, 0) : PartSum(f, h, s) = 0
      BY <3>1 DEF PartSum
    <3>4. SumLoop(h, f, UpTo(S, 0))
      BY <3>2, <3>3 DEF SumLoop
    <3> QED BY <2>2, <3>4
  <2>4. m - 1 \in Nat /\ ~(m <= m - 1)
    BY <2>2, <2>3
  <2>5. PICK g : SumLoop(g, f, UpTo(S, m - 1))
    BY <2>1, <2>4
  <2> DEFINE h == [s \in UpTo(S, m) |-> PartSum(f, g, s)]
  <2>6. ASSUME NEW s \in UpTo(S, m - 1) PROVE s \in UpTo(S, m) /\ h[s] = g[s]
    <3>1. s \in UpTo(S, m)
      BY <1>1, <2>2 DEF UpTo
    <3>2. g[s] = PartSum(f, g, s)
      BY <2>5 DEF SumLoop
    <3> QED BY <3>1, <3>2
  <2>7. ASSUME NEW s \in UpTo(S, m) PROVE h[s] = PartSum(f, h, s)
    <3>1. CASE s = {}
      BY <3>1 DEF PartSum
    <3>2. CASE s # {}
      <4>1. s \ {Pick(s)} \in UpTo(S, m - 1)
        BY <1>1, <1>2, <2>2, <3>2 DEF UpTo
      <4>2. h[s \ {Pick(s)}] = g[s \ {Pick(s)}]
        BY <2>6, <4>1
      <4>3. h[s] = PartSum(f, g, s)
        OBVIOUS
      <4> HIDE DEF h
      <4> QED BY <3>2, <4>2, <4>3 DEF PartSum
    <3> QED BY <3>1, <3>2
  <2>8. h = [s \in UpTo(S, m) |-> h[s]]
    OBVIOUS
  <2> HIDE DEF h
  <2>9. SumLoop(h, f, UpTo(S, m))
    BY <2>7, <2>8 DEF SumLoop
  <2> QED BY <2>2, <2>9
<1>4. Cardinality(S) \in Nat
  BY FS_CardinalityType
<1>5. PICK n \in Nat : n = Cardinality(S)
  BY <1>4
<1>6. UpTo(S, n) = SUBSET S
  BY <1>1, <1>5 DEF UpTo
<1>7. \E h : SumLoop(h, f, UpTo(S, n))
  BY <1>3
<1> QED BY <1>6, <1>7

\* The sum is made that way.
LEMMA SumResult ==
  ASSUME NEW S, IsFiniteSet(S), NEW f \in [S -> Int]
  PROVE  \E h : /\ SumFunctionOnSet(f, S) = h[S]
                /\ \A s \in SUBSET S : h[s] = PartSum(f, h, s)
<1> DEFINE h == CHOOSE g : SumLoop(g, f, SUBSET S)
<1>1. SumFunctionOnSet(f, S) = h[S]
  BY DEF SumFunctionOnSet, FoldFunctionOnSet, MapThenFoldSet, SumLoop, PartSum, Pick
<1>2. SumLoop(h, f, SUBSET S)
  BY SumExists
<1> HIDE DEF h
<1>3. \A s \in SUBSET S : h[s] = PartSum(f, h, s)
  BY <1>2 DEF SumLoop
<1> QED BY <1>1, <1>3

\* When one of the numbers changes, the sum changes by as much.
LEMMA SumChanges ==
  ASSUME NEW S, IsFiniteSet(S), NEW f \in [S -> Int], NEW k \in S, NEW n \in Int
  PROVE  SumFunctionOnSet([f EXCEPT ![k] = n], S) = SumFunctionOnSet(f, S) + n - f[k]
<1>1. PICK g \in [S -> Int] : g = [f EXCEPT ![k] = n]
  OBVIOUS
<1>2. g[k] = n /\ \A x \in S \ {k} : g[x] = f[x]
  BY <1>1
<1>3. PICK p : /\ SumFunctionOnSet(f, S) = p[S]
               /\ \A s \in SUBSET S : p[s] = PartSum(f, p, s)
  BY SumResult
<1>4. PICK q : /\ SumFunctionOnSet(g, S) = q[S]
               /\ \A s \in SUBSET S : q[s] = PartSum(g, q, s)
  BY SumResult
<1> DEFINE Moved(s) == /\ p[s] \in Int /\ q[s] \in Int
                       /\ q[s] = p[s] + (IF k \in s THEN n - f[k] ELSE 0)
           B == {s \in SUBSET S : ~Moved(s)}
<1>5. B = {}
  <2> SUFFICES ASSUME B # {} PROVE FALSE
    OBVIOUS
  <2>1. PICK s \in B : \A x \in s : s \ {x} \notin B
    <3>1. B \subseteq SUBSET S
      OBVIOUS
    <3> HIDE DEF B
    <3> QED BY <3>1, SmallestSet
  <2>2. s \in SUBSET S /\ ~Moved(s)
    BY <2>1
  <2>3. s # {}
    <3>1. p[{}] = 0 /\ q[{}] = 0
      BY <1>3, <1>4 DEF PartSum
    <3>2. Moved({})
      BY <3>1
    <3> QED BY <2>2, <3>2
  <2>4. PICK x \in s : x = Pick(s)
    BY <2>3 DEF Pick
  <2>5. Moved(s \ {x})
    <3> HIDE DEF Moved
    <3> QED BY <2>1, <2>2
  <2>6. p[s] = f[x] + p[s \ {x}] /\ q[s] = g[x] + q[s \ {x}]
    BY <1>3, <1>4, <2>2, <2>3, <2>4 DEF PartSum
  <2>7. x \in S /\ f[x] \in Int /\ g[x] \in Int /\ f[k] \in Int
    BY <1>2, <2>2
  <2>8. CASE x = k
    <3>1. k \in s /\ k \notin s \ {x} /\ g[x] = n
      BY <1>2, <2>8
    <3>2. Moved(s)
      BY <2>5, <2>6, <2>7, <2>8, <3>1
    <3> QED BY <2>2, <3>2
  <2>9. CASE x # k
    <3>1. (k \in s <=> k \in s \ {x}) /\ g[x] = f[x]
      BY <1>2, <2>7, <2>9
    <3>2. Moved(s)
      BY <2>5, <2>6, <2>7, <3>1
    <3> QED BY <2>2, <3>2
  <2> QED BY <2>8, <2>9
<1>6. Moved(S)
  <2> HIDE DEF Moved
  <2> QED BY <1>5
<1>7. SumFunctionOnSet(g, S) = SumFunctionOnSet(f, S) + n - f[k]
  <2>1. f[k] \in Int
    OBVIOUS
  <2> QED BY <1>3, <1>4, <1>6, <2>1
<1> QED BY <1>1, <1>7

\* A sum of zeros.
LEMMA SumZero ==
  ASSUME NEW S, IsFiniteSet(S)
  PROVE  SumFunctionOnSet([x \in S |-> 0], S) = 0
<1>1. PICK g \in [S -> Int] : g = [x \in S |-> 0]
  <2>1. [x \in S |-> 0] \in [S -> Int]
    OBVIOUS
  <2> QED BY <2>1, Zenon
<1>2. PICK p : /\ SumFunctionOnSet(g, S) = p[S]
               /\ \A s \in SUBSET S : p[s] = PartSum(g, p, s)
  BY SumResult
<1> DEFINE B == {s \in SUBSET S : p[s] # 0}
<1>3. B = {}
  <2> SUFFICES ASSUME B # {} PROVE FALSE
    OBVIOUS
  <2>1. PICK s \in B : \A x \in s : s \ {x} \notin B
    <3>1. B \subseteq SUBSET S
      OBVIOUS
    <3> HIDE DEF B
    <3> QED BY <3>1, SmallestSet
  <2>2. s # {}
    BY <1>2, <2>1 DEF PartSum
  <2>3. PICK x \in s : x = Pick(s)
    BY <2>2 DEF Pick
  <2>4. p[s \ {x}] = 0 /\ x \in S
    BY <2>1
  <2>5. p[s] = g[x] + p[s \ {x}]
    BY <1>2, <2>1, <2>2, <2>3 DEF PartSum
  <2> QED BY <1>1, <2>1, <2>4, <2>5
<1> QED BY <1>1, <1>2, <1>3

(***************************************************************************)
(* The memory of the proxy.                                                *)
(***************************************************************************)

\* Backings that come and go.
LEMMA AccountStep ==
  ASSUME TypeOK, MemAccounted, [Next]_vars
  PROVE  MemAccounted'
<1>1. PICK f \in [Res -> Int], m \in Int : f = held /\ m = mem
  BY DEF TypeOK
<1>2. m = SumFunctionOnSet(f, Res) /\ \A r \in Res : held[r] \in Nat /\ (held[r] > 0 <=> table[r] = "backed")
  BY <1>1 DEF MemAccounted, TypeOK
<1>3. ASSUME NEW r \in Res, NEW n \in Int, held' = [held EXCEPT ![r] = n], mem' = mem + n - held[r]
      PROVE  MemAccounted'
  <2>1. SumFunctionOnSet([f EXCEPT ![r] = n], Res) = SumFunctionOnSet(f, Res) + n - f[r]
    BY ResAssumption, SumChanges
  <2>2. held' = [f EXCEPT ![r] = n] /\ mem' = m + n - f[r]
    BY <1>1, <1>3
  <2> QED BY <1>2, <2>1, <2>2 DEF MemAccounted
<1>4. CASE UNCHANGED << held, mem >>
  BY <1>1, <1>2, <1>4 DEF MemAccounted
<1>5. ASSUME NEW r \in Res, NEW n \in Sizes, Attach(r, n) PROVE MemAccounted'
  <2>1. CASE UNCHANGED << held, mem >>
    BY <1>4, <2>1
  <2>2. CASE table[r] = "bare" /\ held' = [held EXCEPT ![r] = n] /\ mem' = mem + n
    <3>1. held[r] = 0
      BY <1>2, <2>2
    <3>2. mem + n = mem + n - held[r] /\ n \in Int
      BY <1>1, <3>1, SizesAssumption
    <3> QED BY <1>3, <2>2, <3>2
  <2> QED BY <1>5, <2>1, <2>2 DEF Attach
<1>6. ASSUME NEW r \in Res, Unref(r) \/ Detach(r) PROVE MemAccounted'
  <2>1. held' = [held EXCEPT ![r] = 0] /\ mem' = mem - held[r]
    BY <1>6 DEF Unref, Detach
  <2>2. held[r] \in Int /\ mem \in Int
    BY <1>1, <1>2
  <2>3. mem' = mem + 0 - held[r]
    BY <2>1, <2>2
  <2>4. 0 \in Int
    OBVIOUS
  <2> QED BY <1>3, <2>1, <2>3, <2>4
<1> QED
  BY <1>4, <1>5, <1>6
     DEF Next, Guest, Create, Load, Store, SendPatch, SendEnd, ReceiveData,
         Render, proxyVars, vars

\* However resources end, curr_mem is what the mapped backings add up to, and
\* the limit given with -M is never exceeded.
THEOREM MemoryCorrect == Spec => []MemoryKept
<1>1. Init => MemAccounted
  BY ResAssumption, SumZero DEF Init, MemAccounted
<1>2. TypeOK /\ MemAccounted /\ [Next]_vars => MemAccounted'
  BY AccountStep
<1>3. MemAccounted /\ WithinLimit => MemoryKept
  BY DEF MemoryKept
<1> QED BY <1>1, <1>2, <1>3, TypeCorrect, LimitKept, PTL DEF Spec
=============================================================================

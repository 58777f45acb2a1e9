--------------------------- MODULE FenceSyncProofs ---------------------------
(***************************************************************************)
(* Proofs about the fence pipeline, for any number of renderers, any queue *)
(* and pipe sizes and any width of the fence ids on the wire.              *)
(***************************************************************************)
EXTENDS FenceSync, SequenceTheorems, FiniteSetTheorems, TLAPS

\* Truncation to the width of the wire never makes an id larger. It is what
\* keeps AnswerAfterAllHosts true when the ids wrap.
LEMMA WireBound ==
  ASSUME NEW f \in Nat
  PROVE  Wire(f) \in Nat /\ Wire(f) <= f
BY BoundsAssumption DEF Wire

\* The destinations of a request are renderers.
LEMMA DestHosts ==
  ASSUME NEW c
  PROVE  Dest(c) \subseteq Hosts
BY NAssumption DEF Dest, Hosts

\* Answering some requests keeps the counters of all of them typed.
LEMMA RespondType ==
  ASSUME TypeOK, NEW S, Respond(S)
  PROVE  /\ refs' \in [Cmds -> Int] /\ answers' \in [Cmds -> Nat]
         /\ kick' \in BOOLEAN
<1>1. refs' \in [Cmds -> Int] /\ answers' \in [Cmds -> Nat]
  BY DEF TypeOK, TypeRequests, Respond
<1>2. kick' \in BOOLEAN
  BY Zenon DEF Respond
<1> QED BY <1>1, <1>2

(***************************************************************************)
(* Type correctness.                                                       *)
(***************************************************************************)
LEMMA TypeInit == Init => TypeOK
<1> SUFFICES ASSUME Init PROVE TypeOK
  OBVIOUS
<1>1. TypeLoop
  BY BoundsAssumption DEF Init, TypeLoop
<1>2. TypeFlags
  BY DEF Init, TypeFlags
<1>3. TypeRequests
  BY DEF Init, TypeRequests
<1>4. TypeChannels
  BY DEF Init, TypeChannels
<1>5. TypeHosts
  BY DEF Init, TypeHosts
<1> QED
  BY <1>1, <1>2, <1>3, <1>4, <1>5 DEF TypeOK

LEMMA TypeMain ==
  ASSUME TypeOK, Main
  PROVE  TypeOK'
<1> USE DEF guestVars, mainVars, requestVars, resourceVars, rendererVars
<1>1. CASE Wake
  <2>1. TypeLoop'
    BY <1>1 DEF Wake, TypeOK, TypeLoop
  <2>2. TypeFlags'
    BY <1>1 DEF Wake, TypeOK, TypeFlags
  <2> QED
    BY <1>1, <2>1, <2>2 DEF Wake, TypeOK, TypeRequests, TypeChannels, TypeHosts
<1>2. CASE ServeFence
  <2>1. TypeLoop'
    BY <1>2 DEF ServeFence, TypeOK, TypeLoop
  <2>2. TypeFlags'
    BY <1>2, RespondType DEF ServeFence, TypeOK, TypeFlags
  <2>3. TypeRequests'
    BY <1>2, RespondType DEF ServeFence, TypeOK, TypeRequests
  <2>4. TypeChannels'
    BY <1>2 DEF ServeFence, TypeOK, TypeChannels
  <2> QED
    BY <1>2, <2>1, <2>2, <2>3, <2>4 DEF ServeFence, TypeOK, TypeHosts
<1>3. CASE FencesDrained
  <2>1. TypeLoop'
    BY <1>3 DEF FencesDrained, TypeOK, TypeLoop
  <2> QED
    BY <1>3, <2>1 DEF FencesDrained, TypeOK, TypeFlags, TypeRequests,
                      TypeChannels, TypeHosts
<1>4. CASE TakeInsane
  <2>1. TypeLoop' /\ taken + 1 \in Cmds
    BY <1>4, BoundsAssumption DEF TakeInsane, TypeOK, TypeLoop, Cmds
  <2>2. TypeFlags'
    BY <1>4 DEF TakeInsane, TypeOK, TypeFlags
  <2>3. async' \subseteq 1 .. taken'
    BY <1>4 DEF TakeInsane, TypeOK, TypeLoop, TypeRequests
  <2>4. answers' \in [Cmds -> Nat]
    BY <1>4, <2>1 DEF TakeInsane, TypeOK, TypeRequests
  <2>5. TypeRequests'
    BY <1>4, <2>3, <2>4 DEF TakeInsane, TypeOK, TypeRequests
  <2> QED
    BY <1>4, <2>1, <2>2, <2>5 DEF TakeInsane, TypeOK, TypeChannels, TypeHosts
<1>5. CASE TakeSane
  <2>1. TypeLoop' /\ taken + 1 \in Cmds
    BY <1>5, DestHosts, BoundsAssumption DEF TakeSane, TypeOK, TypeLoop, Cmds
  <2>2. async' \subseteq 1 .. taken'
    BY <1>5 DEF TakeSane, TypeOK, TypeLoop, TypeRequests
  <2>3. refs' \in [Cmds -> Int]
    BY <1>5, <2>1 DEF TakeSane, TypeOK, TypeRequests
  <2>4. TypeRequests'
    BY <1>5, <2>2, <2>3 DEF TakeSane, TypeOK, TypeRequests
  <2> QED
    BY <1>5, <2>1, <2>4 DEF TakeSane, TypeOK, TypeFlags, TypeChannels, TypeHosts
<1>6. ASSUME NEW h \in Hosts, Forward(h)
      PROVE  TypeOK'
  <2>1. TypeLoop'
    BY <1>6 DEF Forward, TypeOK, TypeLoop
  <2>2. taken \in Cmds
    BY <1>6, BoundsAssumption DEF Forward, TypeOK, TypeLoop, Cmds
  <2>3. TypeChannels'
    BY <1>6, <2>2 DEF Forward, TypeOK, TypeChannels
  <2> QED
    BY <1>6, <2>1, <2>3 DEF Forward, TypeOK, TypeFlags, TypeRequests, TypeHosts
<1>7. CASE Finish
  <2>1. TypeLoop'
    BY <1>7 DEF Finish, TypeOK, TypeLoop
  <2>2. taken \in Cmds
    BY <1>7, BoundsAssumption DEF Finish, TypeOK, TypeLoop, Cmds
  <2>3. TypeFlags' /\ refs' \in [Cmds -> Int] /\ answers' \in [Cmds -> Nat]
    <3>1. CASE Fenced(taken)
      BY <1>7, <2>2, <3>1 DEF Finish, TypeOK, TypeFlags, TypeRequests
    <3>2. CASE ~Fenced(taken)
      BY <1>7, <3>2, RespondType DEF Finish, TypeOK, TypeFlags
    <3> QED BY <3>1, <3>2
  <2>4. TypeRequests'
    BY <1>7, <2>3 DEF Finish, TypeOK, TypeRequests
  <2> QED
    BY <1>7, <2>1, <2>3, <2>4 DEF Finish, TypeOK, TypeChannels, TypeHosts
<1>8. CASE EndServe
  <2>1. TypeLoop'
    BY <1>8 DEF EndServe, TypeOK, TypeLoop
  <2>2. TypeFlags'
    BY <1>8 DEF EndServe, TypeOK, TypeFlags
  <2>3. TypeRequests'
    BY <1>8 DEF EndServe, TypeOK, TypeRequests, Answered
  <2> QED
    BY <1>8, <2>1, <2>2, <2>3 DEF EndServe, TypeOK, TypeChannels, TypeHosts
<1> QED
  BY <1>1, <1>2, <1>3, <1>4, <1>5, <1>6, <1>7, <1>8 DEF Main

LEMMA TypeNext == TypeOK /\ [Next]_vars => TypeOK'
<1> SUFFICES ASSUME TypeOK, [Next]_vars
             PROVE  TypeOK'
  OBVIOUS
<1> USE DEF guestVars, mainVars, requestVars, resourceVars, rendererVars
<1>1. ASSUME NEW k \in Kinds, Submit(k)
      PROVE  TypeOK'
  <2>1. TypeLoop'
    BY <1>1, BoundsAssumption DEF Submit, TypeOK, TypeLoop
  <2> QED
    BY <1>1, <2>1 DEF Submit, TypeOK, TypeFlags, TypeRequests, TypeChannels,
                      TypeHosts
<1>2. CASE Notify
  <2>1. TypeLoop'
    BY <1>2 DEF Notify, TypeOK, TypeLoop
  <2>2. TypeFlags'
    BY <1>2 DEF Notify, TypeOK, TypeFlags
  <2> QED
    BY <1>2, <2>1, <2>2 DEF Notify, TypeOK, TypeRequests, TypeChannels, TypeHosts
<1>3. CASE Main
  BY <1>3, TypeMain
<1>4. ASSUME NEW h \in Hosts, ReceiveFence(h)
      PROVE  TypeOK'
  <2>1. fromHost[h] \in Seq(Msg) /\ fromHost[h] # <<>>
    BY <1>4 DEF ReceiveFence, TypeOK, TypeChannels
  <2>2. Head(fromHost[h]) \in Msg /\ Tail(fromHost[h]) \in Seq(Msg)
    BY <2>1, HeadTailProperties
  <2>3. recv' \in [Hosts -> Nat] /\ heard' \subseteq Hosts
    BY <1>4, <2>2 DEF ReceiveFence, TypeOK, TypeHosts, Msg
  <2>4. fromHost' \in [Hosts -> Seq(Msg)]
    BY <1>4, <2>2 DEF ReceiveFence, TypeOK, TypeChannels
  <2>5. pipe' \in Seq(Nat)
    <3>1. PICK g \in Hosts : \/ pipe' = Append(pipe, recv'[g])
                             \/ pipe' = pipe
      BY <1>4 DEF ReceiveFence, Slowest
    <3>2. pipe \in Seq(Nat) /\ recv'[g] \in Nat
      BY <2>3 DEF TypeOK, TypeChannels
    <3>3. CASE pipe' = Append(pipe, recv'[g])
      <4>1. PICK x \in Nat : x = recv'[g]
        BY <3>2
      <4> QED BY <3>2, <3>3, <4>1, AppendProperties
    <3> QED BY <3>1, <3>2, <3>3
  <2>6. TypeChannels'
    BY <1>4, <2>4, <2>5 DEF ReceiveFence, TypeOK, TypeChannels
  <2>7. TypeHosts'
    BY <1>4, <2>3 DEF ReceiveFence, TypeOK, TypeHosts
  <2> QED
    BY <1>4, <2>6, <2>7 DEF ReceiveFence, TypeOK, TypeLoop, TypeFlags,
                            TypeRequests
<1>5. ASSUME NEW h \in Hosts, ReceiveData(h)
      PROVE  TypeOK'
  <2>1. fromHost[h] \in Seq(Msg) /\ fromHost[h] # <<>>
    BY <1>5 DEF ReceiveData, TypeOK, TypeChannels
  <2>2. Head(fromHost[h]) \in Msg /\ Tail(fromHost[h]) \in Seq(Msg)
    BY <2>1, HeadTailProperties
  <2>3. TypeChannels'
    BY <1>5, <2>2 DEF ReceiveData, TypeOK, TypeChannels
  <2>4. TypeHosts'
    BY <1>5, <2>2 DEF ReceiveData, TypeOK, TypeHosts, Msg
  <2> QED
    BY <1>5, <2>3, <2>4 DEF ReceiveData, TypeOK, TypeLoop, TypeFlags,
                            TypeRequests
<1>6. ASSUME NEW h \in Hosts, Dispatch(h)
      PROVE  TypeOK'
  <2> DEFINE c == Head(toHost[h])
  <2>1. toHost[h] \in Seq(Cmds) /\ toHost[h] # <<>>
    BY <1>6 DEF Dispatch, TypeOK, TypeChannels
  <2>2. c \in Cmds /\ Tail(toHost[h]) \in Seq(Cmds)
    BY <2>1, HeadTailProperties
  <2>3. c \in Nat
    BY <2>2 DEF Cmds
  <2>4. DataMsg(c) \in Msg /\ Wire(c) \in Nat
    BY <2>3, WireBound DEF DataMsg, Msg
  <2> HIDE DEF c
  <2>5. fromHost' \in [Hosts -> Seq(Msg)]
    <3>1. \/ fromHost' = fromHost
          \/ fromHost' = [fromHost EXCEPT ![h] = Append(@, DataMsg(c))]
      BY <1>6 DEF Dispatch, c
    <3>2. Append(fromHost[h], DataMsg(c)) \in Seq(Msg)
      BY <2>4, AppendProperties DEF TypeOK, TypeChannels
    <3> QED
      BY <3>1, <3>2 DEF TypeOK, TypeChannels
  <2>6. toHost' \in [Hosts -> Seq(Cmds)]
    BY <1>6, <2>2 DEF Dispatch, TypeOK, TypeChannels
  <2>7. TypeChannels'
    BY <1>6, <2>5, <2>6 DEF Dispatch, TypeOK, TypeChannels
  <2>8. made' \in [Hosts -> SUBSET Cmds]
    <3>1. \/ made' = made
          \/ made' = [made EXCEPT ![h] = @ \cup {c}]
      BY <1>6 DEF Dispatch, CreateFence, c
    <3> QED
      BY <2>2, <3>1 DEF TypeOK, TypeHosts
  <2>9. received' \in [Hosts -> Nat]
    <3>1. \/ received' = received
          \/ received' = [received EXCEPT ![h] = IF c > @ THEN Wire(c) ELSE @]
      BY <1>6 DEF Dispatch, CreateFence, c
    <3> QED
      BY <2>4, <3>1 DEF TypeOK, TypeHosts
  <2>10. TypeHosts'
    BY <1>6, <2>8, <2>9 DEF Dispatch, TypeOK, TypeHosts
  <2> QED
    BY <1>6, <2>7, <2>10 DEF Dispatch, TypeOK, TypeLoop, TypeFlags, TypeRequests
<1>7. ASSUME NEW h \in Hosts, Retire(h)
      PROVE  TypeOK'
  <2> PICK f \in made[h] :
        /\ made' = [made EXCEPT ![h] = {g \in @ : g > f}]
        /\ done' = [done EXCEPT ![h] = f]
        /\ sent' = [sent EXCEPT ![h] = IF Wire(f) > @ THEN Wire(f) ELSE @]
        /\ fromHost' = [fromHost EXCEPT ![h] = Append(@, FenceMsg(f))]
    BY <1>7 DEF Retire
  <2>1. f \in Nat
    BY DEF TypeOK, TypeHosts, Cmds
  <2>2. FenceMsg(f) \in Msg /\ Wire(f) \in Nat
    BY <2>1, WireBound DEF FenceMsg, Msg
  <2>3. TypeChannels'
    BY <1>7, <2>2 DEF Retire, TypeOK, TypeChannels
  <2>4. TypeHosts'
    BY <1>7, <2>1, <2>2 DEF Retire, TypeOK, TypeHosts
  <2> QED
    BY <1>7, <2>3, <2>4 DEF Retire, TypeOK, TypeLoop, TypeFlags, TypeRequests
<1>8. CASE UNCHANGED vars
  BY <1>8 DEF vars, TypeOK, TypeLoop, TypeFlags, TypeRequests, TypeChannels,
              TypeHosts
<1> QED
  BY <1>1, <1>2, <1>3, <1>4, <1>5, <1>6, <1>7, <1>8 DEF Next

\* The pipeline never leaves its types.
THEOREM TypeCorrect == Spec => []TypeOK
<1> QED BY TypeInit, TypeNext, PTL DEF Spec

(***************************************************************************)
(* Order.  InOrder is inductive given the types; no other invariant is     *)
(* needed.                                                                 *)
(***************************************************************************)

\* What the type invariant says of one renderer's part of the state.
LEMMA HostTyped ==
  ASSUME TypeOK, NEW h \in Hosts
  PROVE  /\ toHost[h] \in Seq(Cmds) /\ Len(toHost[h]) \in Nat
         /\ \A i \in 1 .. Len(toHost[h]) : toHost[h][i] \in Nat
         /\ made[h] \subseteq Nat /\ done[h] \in Nat
<1>1. toHost[h] \in Seq(Cmds)
  BY DEF TypeOK, TypeChannels
<1>2. ASSUME NEW i \in 1 .. Len(toHost[h])
      PROVE  toHost[h][i] \in Nat
  <2>1. toHost[h][i] \in Cmds
    BY <1>1, ElementOfSeq
  <2> QED BY <2>1 DEF Cmds
<1>3. made[h] \subseteq Nat /\ done[h] \in Nat
  BY DEF TypeOK, TypeHosts, Cmds
<1> QED BY <1>1, <1>2, <1>3, LenProperties

LEMMA OrderInit == Init => InOrder
BY DEF Init, InOrder, Passed

\* A step that leaves renderer h and its command queue alone, and does not
\* move Passed(h) back, keeps the order in h.
LEMMA OrderFrame ==
  ASSUME TypeOK, InOrder, NEW h \in Hosts,
         UNCHANGED <<cmds, toHost, made, done>>,
         Passed(h)' >= Passed(h), Passed(h)' \in Int
  PROVE  /\ done'[h] <= Passed(h)'
         /\ \A f \in made'[h] : Fenced(f)' /\ done'[h] < f /\ f <= Passed(h)'
         /\ \A i \in 1 .. Len(toHost'[h]) :
              /\ done'[h] < toHost'[h][i] /\ toHost'[h][i] <= Passed(h)'
              /\ \A f \in made'[h] : f < toHost'[h][i]
              /\ \A j \in 1 .. i - 1 : toHost'[h][j] < toHost'[h][i]
<1>1. Passed(h) \in Int
  BY DEF TypeOK, TypeLoop, Passed
<1>2. /\ done[h] \in Nat /\ made[h] \subseteq Nat
      /\ \A i \in 1 .. Len(toHost[h]) : toHost[h][i] \in Nat
  BY HostTyped
<1>3. \A f : Fenced(f)' <=> Fenced(f)
  BY DEF Fenced
<1> QED
  BY <1>1, <1>2, <1>3 DEF InOrder

LEMMA OrderNext == TypeOK /\ InOrder /\ [Next]_vars => InOrder'
<1> SUFFICES ASSUME TypeOK, InOrder, [Next]_vars
             PROVE  InOrder'
  OBVIOUS
<1> USE DEF guestVars, mainVars, requestVars, resourceVars, rendererVars
<1>1. ASSUME UNCHANGED <<cmds, toHost, made, done>>,
             \A h \in Hosts : Passed(h)' >= Passed(h) /\ Passed(h)' \in Int
      PROVE  InOrder'
  BY <1>1, OrderFrame DEF InOrder
<1>2. taken \in Nat /\ (pc = "forward" => taken > 0)
  BY DEF TypeOK, TypeLoop
<1>3. ASSUME UNCHANGED <<pc, left, taken>>
      PROVE  \A h \in Hosts : Passed(h)' >= Passed(h) /\ Passed(h)' \in Int
  BY <1>2, <1>3 DEF Passed
<1>4. ASSUME NEW k \in Kinds, Submit(k)
      PROVE  InOrder'
  <2>1. \A f \in Cmds : f <= taken => (Fenced(f)' <=> Fenced(f))
    BY <1>4 DEF Submit, Fenced, TypeOK, TypeLoop, Cmds
  <2>2. ASSUME NEW h \in Hosts, NEW f \in made[h]
        PROVE  f \in Cmds /\ f <= taken
    BY <1>2 DEF InOrder, Passed, TypeOK, TypeHosts, Cmds
  <2>3. UNCHANGED <<toHost, made, done>> /\ \A h \in Hosts : Passed(h)' = Passed(h)
    BY <1>4 DEF Submit, Passed
  <2> QED
    BY <2>1, <2>2, <2>3 DEF InOrder
<1>5. CASE Notify
  BY <1>5, <1>1, <1>3 DEF Notify
<1>6. CASE Main
  <2>1. CASE Wake
    BY <2>1, <1>1, <1>2 DEF Wake, Passed
  <2>2. CASE ServeFence
    BY <2>2, <1>1, <1>3 DEF ServeFence
  <2>3. CASE FencesDrained
    BY <2>3, <1>1, <1>2 DEF FencesDrained, Passed
  <2>4. CASE TakeInsane
    BY <2>4, <1>1, <1>2 DEF TakeInsane, Passed
  <2>5. CASE TakeSane
    BY <2>5, <1>1, <1>2 DEF TakeSane, Passed
  <2>6. ASSUME NEW h \in Hosts, Forward(h)
        PROVE  InOrder'
    <3>1. UNCHANGED <<cmds, made, done>>
      BY <2>6 DEF Forward
    <3>2. ASSUME NEW g \in Hosts, g # h
          PROVE  toHost'[g] = toHost[g] /\ Passed(g)' = Passed(g)
      BY <2>6, <3>2 DEF Forward, Passed, TypeOK, TypeChannels
    <3>3. Passed(h) = taken - 1 /\ Passed(h)' = taken
      BY <2>6 DEF Forward, Passed
    <3>4. toHost'[h] = Append(toHost[h], taken) /\ toHost[h] \in Seq(Cmds)
      BY <2>6 DEF Forward, TypeOK, TypeChannels
    <3>5. taken \in Cmds
      BY <2>6, <1>2, BoundsAssumption DEF Forward, TypeOK, TypeLoop, Cmds
    <3>6. /\ Len(toHost'[h]) = Len(toHost[h]) + 1
          /\ \A i \in 1 .. Len(toHost[h]) : toHost'[h][i] = toHost[h][i]
          /\ toHost'[h][Len(toHost[h]) + 1] = taken
      BY <3>4, <3>5, AppendProperties
    <3>7. /\ Len(toHost[h]) \in Nat /\ done[h] \in Nat /\ made[h] \subseteq Nat
          /\ \A i \in 1 .. Len(toHost[h]) : toHost[h][i] \in Nat
      BY HostTyped
    <3>8. \A f : Fenced(f)' <=> Fenced(f)
      BY <3>1 DEF Fenced
    <3>9. /\ done[h] < taken /\ \A f \in made[h] : f < taken
          /\ \A i \in 1 .. Len(toHost[h]) : toHost[h][i] < taken
      BY <3>3, <3>7, <1>2 DEF InOrder
    <3>10. ASSUME NEW i \in 1 .. Len(toHost'[h])
          PROVE  /\ done'[h] < toHost'[h][i] /\ toHost'[h][i] <= taken
                 /\ \A f \in made'[h] : f < toHost'[h][i]
                 /\ \A j \in 1 .. i - 1 : toHost'[h][j] < toHost'[h][i]
      <4>1. CASE i \in 1 .. Len(toHost[h])
        <5>1. toHost'[h][i] = toHost[h][i]
          BY <4>1, <3>6
        <5>2. \A j \in 1 .. i - 1 : toHost'[h][j] = toHost[h][j]
          BY <4>1, <3>6, <3>7
        <5>3. /\ done[h] < toHost[h][i]
              /\ \A f \in made[h] : f < toHost[h][i]
              /\ \A j \in 1 .. i - 1 : toHost[h][j] < toHost[h][i]
          BY <4>1 DEF InOrder
        <5>4. toHost[h][i] <= taken
          BY <4>1, <3>7, <3>9, <1>2
        <5> QED
          BY <5>1, <5>2, <5>3, <5>4, <3>1
      <4>2. CASE i = Len(toHost[h]) + 1
        <5>1. toHost'[h][i] = taken
          BY <4>2, <3>6
        <5>2. \A j \in 1 .. i - 1 : toHost'[h][j] = toHost[h][j]
          BY <4>2, <3>6, <3>7
        <5>3. \A j \in 1 .. i - 1 : toHost[h][j] < taken
          BY <4>2, <3>7, <3>9
        <5> QED
          BY <5>1, <5>2, <5>3, <3>1, <3>9, <1>2
      <4> QED BY <4>1, <4>2, <3>6, <3>7
    <3>11. done'[h] <= Passed(h)' /\ \A f \in made'[h] : /\ Fenced(f)'
                                                         /\ done'[h] < f
                                                         /\ f <= Passed(h)'
      BY <3>1, <3>3, <3>7, <3>8, <1>2 DEF InOrder
    <3> QED
      BY <3>1, <3>2, <3>3, <3>8, <3>10, <3>11 DEF InOrder
  <2>7. CASE Finish
    BY <2>7, <1>1, <1>2 DEF Finish, Passed
  <2>8. CASE EndServe
    BY <2>8, <1>1, <1>2 DEF EndServe, Passed
  <2> QED
    BY <1>6, <2>1, <2>2, <2>3, <2>4, <2>5, <2>6, <2>7, <2>8 DEF Main
<1>7. ASSUME NEW h \in Hosts, ReceiveFence(h)
      PROVE  InOrder'
  BY <1>7, <1>1, <1>3 DEF ReceiveFence
<1>8. ASSUME NEW h \in Hosts, ReceiveData(h)
      PROVE  InOrder'
  BY <1>8, <1>1, <1>3 DEF ReceiveData
<1>9. ASSUME NEW h \in Hosts, Dispatch(h)
      PROVE  InOrder'
  <2> DEFINE c == Head(toHost[h])
  <2>1. toHost[h] \in Seq(Cmds) /\ toHost[h] # <<>>
    BY <1>9 DEF Dispatch, TypeOK, TypeChannels
  <2>2. /\ Len(Tail(toHost[h])) = Len(toHost[h]) - 1
        /\ \A i \in 1 .. Len(Tail(toHost[h])) : Tail(toHost[h])[i] = toHost[h][i + 1]
    BY <2>1, HeadTailProperties
  <2>3. c = toHost[h][1] /\ Len(toHost[h]) \in Nat /\ Len(toHost[h]) > 0
    BY <2>1, LenProperties, EmptySeq
  <2>4. UNCHANGED <<cmds, done, pc, left, taken>>
    BY <1>9 DEF Dispatch
  <2>5. toHost' = [toHost EXCEPT ![h] = Tail(@)]
    BY <1>9 DEF Dispatch
  <2>6. \/ made' = made
        \/ made' = [made EXCEPT ![h] = @ \cup {c}] /\ Fenced(c)
    BY <1>9 DEF Dispatch, CreateFence
  <2>7. \A g \in Hosts : Passed(g)' = Passed(g)
    BY <2>4 DEF Passed
  <2>8. \A f : Fenced(f)' <=> Fenced(f)
    BY <2>4 DEF Fenced
  <2>9. \A g \in Hosts : g # h => toHost'[g] = toHost[g] /\ made'[g] = made[g]
    BY <2>5, <2>6 DEF TypeOK, TypeChannels, TypeHosts
  <2>10. toHost'[h] = Tail(toHost[h]) /\ made'[h] \subseteq made[h] \cup {c}
    BY <2>5, <2>6 DEF TypeOK, TypeChannels, TypeHosts
  <2>11. Fenced(c) \/ made' = made
    BY <2>6
  <2> HIDE DEF c
  <2>12. /\ done[h] < c /\ c <= Passed(h)
         /\ \A f \in made[h] : f < c
         /\ \A i \in 2 .. Len(toHost[h]) : c < toHost[h][i]
    BY <2>3 DEF InOrder
  <2>13. \A f \in made'[h] : Fenced(f)' /\ done'[h] < f /\ f <= Passed(h)'
    BY <2>4, <2>7, <2>8, <2>10, <2>11, <2>12 DEF InOrder
  <2>14. ASSUME NEW i \in 1 .. Len(toHost'[h])
         PROVE  /\ done'[h] < toHost'[h][i] /\ toHost'[h][i] <= Passed(h)'
                /\ \A f \in made'[h] : f < toHost'[h][i]
                /\ \A j \in 1 .. i - 1 : toHost'[h][j] < toHost'[h][i]
    <3>1. i + 1 \in 2 .. Len(toHost[h]) /\ toHost'[h][i] = toHost[h][i + 1]
      BY <2>2, <2>3, <2>10
    <3>2. \A j \in 1 .. i - 1 : /\ toHost'[h][j] = toHost[h][j + 1]
                                /\ j + 1 \in 1 .. (i + 1) - 1
      BY <2>2, <2>3, <2>10, <3>1
    <3> QED
      BY <2>4, <2>7, <2>10, <2>12, <3>1, <3>2 DEF InOrder
  <2>15. done'[h] <= Passed(h)'
    BY <2>4, <2>7 DEF InOrder
  <2> QED
    BY <2>4, <2>7, <2>8, <2>9, <2>13, <2>14, <2>15 DEF InOrder
<1>10. ASSUME NEW h \in Hosts, Retire(h)
       PROVE  InOrder'
  <2> PICK f \in made[h] : /\ made' = [made EXCEPT ![h] = {g \in @ : g > f}]
                           /\ done' = [done EXCEPT ![h] = f]
    BY <1>10 DEF Retire
  <2>1. UNCHANGED <<cmds, toHost, pc, left, taken>>
    BY <1>10 DEF Retire
  <2>2. \A g \in Hosts : Passed(g)' = Passed(g)
    BY <2>1 DEF Passed
  <2>3. \A g : Fenced(g)' <=> Fenced(g)
    BY <2>1 DEF Fenced
  <2>4. made'[h] = {g \in made[h] : g > f} /\ done'[h] = f
    BY DEF TypeOK, TypeHosts
  <2>5. \A g \in Hosts : g # h => made'[g] = made[g] /\ done'[g] = done[g]
    BY DEF TypeOK, TypeHosts
  <2>6. f \in Nat /\ made[h] \subseteq Nat
    BY DEF TypeOK, TypeHosts, Cmds
  <2> QED
    BY <2>1, <2>2, <2>3, <2>4, <2>5, <2>6 DEF InOrder
<1>11. CASE UNCHANGED vars
  BY <1>11, <1>1, <1>3 DEF vars
<1> QED
  BY <1>4, <1>5, <1>6, <1>7, <1>8, <1>9, <1>10, <1>11 DEF Next

\* Per renderer, fences and commands never overtake each other.
THEOREM OrderKept == Spec => []InOrder
<1> QED BY OrderInit, OrderNext, TypeInit, TypeNext, PTL DEF Spec

(***************************************************************************)
(* What a GPU has retired.                                                 *)
(***************************************************************************)

\* The fences of a GPU retire in ring order: done never decreases.
LEMMA DoneGrows ==
  ASSUME TypeOK, InOrder, [Next]_vars, NEW h \in Hosts
  PROVE  done[h] <= done'[h]
<1> USE DEF guestVars, mainVars, requestVars, resourceVars, rendererVars
<1>1. CASE UNCHANGED done
  BY <1>1, HostTyped
<1>2. ASSUME NEW g \in Hosts, Retire(g)
      PROVE  done[h] <= done'[h]
  <2> PICK f \in made[g] : done' = [done EXCEPT ![g] = f]
    BY <1>2 DEF Retire
  <2>1. done[g] < f /\ f \in Nat /\ done[g] \in Nat
    BY HostTyped DEF InOrder
  <2>2. CASE g = h
    BY <2>1, <2>2 DEF TypeOK, TypeHosts
  <2>3. CASE g # h
    BY <2>3, HostTyped DEF TypeOK, TypeHosts
  <2> QED BY <2>2, <2>3
<1>3. ASSUME NEW k \in Kinds, Submit(k) PROVE UNCHANGED done
  BY <1>3 DEF Submit
<1>4. ASSUME NEW g \in Hosts, ReceiveFence(g) \/ ReceiveData(g) \/ Dispatch(g)
      PROVE  UNCHANGED done
  BY <1>4 DEF ReceiveFence, ReceiveData, Dispatch
<1>5. CASE Notify \/ Main
  BY <1>5, <1>1 DEF Notify, Main, Wake, ServeFence, FencesDrained, TakeInsane,
    TakeSane, Forward, Finish, EndServe
<1>6. CASE UNCHANGED vars
  BY <1>6, <1>1 DEF vars
<1> QED
  BY <1>1, <1>2, <1>3, <1>4, <1>5, <1>6 DEF Next

\* The slowest renderer's last report holds for all of them.
LEMMA SlowestHolds ==
  ASSUME TypeOK', NEW g \in Slowest(recv'), NEW k \in Hosts,
         recv'[k] <= done[k], done[k] \in Nat
  PROVE  recv'[g] <= done[k]
<1>1. recv'[g] \in Nat /\ recv'[k] \in Nat /\ recv'[g] <= recv'[k]
  BY DEF TypeOK, TypeHosts, Slowest
<1> QED BY <1>1

\* The guest only appends to its requests.
LEMMA CmdsGrow ==
  ASSUME TypeOK, [Next]_vars, NEW c \in 1 .. Len(cmds)
  PROVE  cmds'[c] = cmds[c] /\ (Fenced(c)' <=> Fenced(c))
<1> USE DEF guestVars, mainVars, requestVars, resourceVars, rendererVars
<1>1. CASE UNCHANGED cmds
  BY <1>1 DEF Fenced
<1>2. ASSUME NEW k \in Kinds, Submit(k)
      PROVE  cmds'[c] = cmds[c]
  BY <1>2, AppendProperties DEF Submit, TypeOK, TypeLoop
<1>3. CASE Notify \/ Main
  BY <1>1, <1>3 DEF Notify, Main, Wake, ServeFence, FencesDrained, TakeInsane,
    TakeSane, Forward, Finish, EndServe
<1>4. ASSUME NEW h \in Hosts,
             ReceiveFence(h) \/ ReceiveData(h) \/ Dispatch(h) \/ Retire(h)
      PROVE  UNCHANGED cmds
  BY <1>4 DEF ReceiveFence, ReceiveData, Dispatch, Retire
<1>5. CASE UNCHANGED vars
  BY <1>1, <1>5 DEF vars
<1> QED
  BY <1>1, <1>2, <1>3, <1>4, <1>5 DEF Next, Fenced

LEMMA ReportsInit == Init => ReportsBacked
BY DEF Init, ReportsBacked

LEMMA ReportsNext ==
  TypeOK /\ InOrder /\ ReportsBacked /\ [Next]_vars => ReportsBacked'
<1> SUFFICES ASSUME TypeOK, InOrder, ReportsBacked, [Next]_vars
             PROVE  ReportsBacked'
  OBVIOUS
<1> USE DEF guestVars, mainVars, requestVars, resourceVars, rendererVars
<1>1. TypeOK' /\ \A h \in Hosts : done[h] <= done'[h]
  BY TypeNext, DoneGrows
<1>2. \A h \in Hosts : /\ done[h] \in Nat /\ done'[h] \in Nat
                       /\ recv[h] \in Nat /\ fromHost[h] \in Seq(Msg)
  BY <1>1 DEF TypeOK, TypeHosts, TypeChannels
<1>3. /\ pipe \in Seq(Nat) /\ Len(pipe) \in Nat
      /\ \A i \in 1 .. Len(pipe) : pipe[i] \in Nat
  BY ElementOfSeq, LenProperties DEF TypeOK, TypeChannels
<1>4. ASSUME NEW h \in Hosts
      PROVE  /\ Len(fromHost[h]) \in Nat
             /\ \A i \in 1 .. Len(fromHost[h]) : fromHost[h][i].id \in Nat
  <2>1. \A i \in 1 .. Len(fromHost[h]) : fromHost[h][i] \in Msg
    BY <1>2, ElementOfSeq
  <2> QED BY <2>1, <1>2, LenProperties DEF Msg
<1>5. ASSUME UNCHANGED <<recv, fromHost, pipe>>
      PROVE  ReportsBacked'
  <2>1. \A h \in Hosts : recv'[h] <= done'[h]
    BY <1>1, <1>2, <1>5 DEF ReportsBacked
  <2>2. \A h \in Hosts : \A i \in 1 .. Len(fromHost'[h]) :
          fromHost'[h][i].type = "fence" => fromHost'[h][i].id <= done'[h]
    BY <1>1, <1>2, <1>4, <1>5 DEF ReportsBacked
  <2>3. ASSUME NEW i \in 1 .. Len(pipe'), NEW h \in Hosts
        PROVE  pipe'[i] <= done'[h]
    <3>1. i \in 1 .. Len(pipe) /\ pipe'[i] = pipe[i]
      BY <1>5
    <3>2. pipe[i] <= done[h]
      BY <3>1 DEF ReportsBacked
    <3>3. pipe[i] \in Nat /\ done[h] \in Nat /\ done'[h] \in Nat /\ done[h] <= done'[h]
      BY <1>1, <1>2, <1>3, <3>1
    <3> QED BY <3>1, <3>2, <3>3
  <2> QED BY <2>1, <2>2, <2>3 DEF ReportsBacked
<1>6. ASSUME NEW k \in Kinds, Submit(k) PROVE ReportsBacked'
  BY <1>5, <1>6 DEF Submit
<1>7. CASE Notify
  BY <1>5, <1>7 DEF Notify
<1>8. CASE Main
  <2>1. CASE ServeFence
    <3>1. UNCHANGED <<recv, fromHost, done>> /\ pipe # <<>> /\ pipe' = Tail(pipe)
      BY <2>1 DEF ServeFence
    <3>2. /\ Len(pipe') = Len(pipe) - 1
          /\ \A i \in 1 .. Len(pipe') : pipe'[i] = pipe[i + 1]
      BY <1>3, <3>1, HeadTailProperties
    <3>3. ASSUME NEW i \in 1 .. Len(pipe'), NEW h \in Hosts
          PROVE  pipe'[i] <= done'[h]
      <4>1. i + 1 \in 1 .. Len(pipe)
        BY <1>3, <3>2
      <4> QED BY <3>1, <3>2, <4>1 DEF ReportsBacked
    <3> QED BY <3>1, <3>3 DEF ReportsBacked
  <2> QED
    BY <1>5, <1>8, <2>1 DEF Main, Wake, FencesDrained, TakeInsane, TakeSane,
      Forward, Finish, EndServe
<1>9. ASSUME NEW h \in Hosts, ReceiveFence(h)
      PROVE  ReportsBacked'
  <2>1. fromHost[h] # <<>> /\ UNCHANGED done
    BY <1>9 DEF ReceiveFence
  <2>2. /\ Head(fromHost[h]) = fromHost[h][1] /\ Len(fromHost[h]) > 0
        /\ Len(Tail(fromHost[h])) = Len(fromHost[h]) - 1
        /\ \A i \in 1 .. Len(Tail(fromHost[h])) :
              Tail(fromHost[h])[i] = fromHost[h][i + 1]
    BY <1>2, <2>1, HeadTailProperties, LenProperties, EmptySeq
  <2>3. /\ fromHost'[h] = Tail(fromHost[h])
        /\ \A k \in Hosts : k # h => fromHost'[k] = fromHost[k]
    BY <1>9 DEF ReceiveFence, TypeOK, TypeChannels
  <2>4. ASSUME NEW k \in Hosts, NEW i \in 1 .. Len(fromHost'[k]),
               fromHost'[k][i].type = "fence"
        PROVE  fromHost'[k][i].id <= done'[k]
    <3>1. CASE k = h
      <4>1. i \in 1 .. Len(Tail(fromHost[h])) /\ Len(fromHost[h]) \in Nat
        BY <1>4, <2>3, <3>1
      <4>2. i + 1 \in 1 .. Len(fromHost[h])
        BY <2>2, <4>1
      <4>3. fromHost'[k][i] = fromHost[h][i + 1]
        BY <2>2, <2>3, <3>1, <4>1
      <4> QED BY <2>1, <2>4, <3>1, <4>2, <4>3 DEF ReportsBacked
    <3>2. CASE k # h
      BY <2>1, <2>3, <2>4, <3>2 DEF ReportsBacked
    <3> QED BY <3>1, <3>2
  <2>5. ASSUME NEW k \in Hosts
        PROVE  recv'[k] <= done[k]
    <3>1. CASE k = h
      <4>1. recv'[h] = fromHost[h][1].id /\ fromHost[h][1].type = "fence"
        BY <1>9, <2>2 DEF ReceiveFence, TypeOK, TypeHosts
      <4> QED BY <1>4, <2>2, <3>1, <4>1 DEF ReportsBacked
    <3>2. CASE k # h
      BY <1>9, <3>2 DEF ReceiveFence, ReportsBacked, TypeOK, TypeHosts
    <3> QED BY <3>1, <3>2
  <2>6. ASSUME NEW i \in 1 .. Len(pipe'), NEW k \in Hosts
        PROVE  pipe'[i] <= done[k]
    <3>1. PICK g \in Slowest(recv') : \/ pipe' = Append(pipe, recv'[g])
                                      \/ pipe' = pipe
      BY <1>9 DEF ReceiveFence
    <3>2. recv'[g] <= done[k] /\ recv'[g] \in Nat
      BY <1>1, <1>2, <2>5, SlowestHolds DEF TypeOK, TypeHosts, Slowest
    <3>3. CASE pipe' = pipe
      BY <3>3 DEF ReportsBacked
    <3>4. CASE pipe' = Append(pipe, recv'[g])
      <4>1. /\ Len(pipe') = Len(pipe) + 1 /\ pipe'[Len(pipe) + 1] = recv'[g]
            /\ \A j \in 1 .. Len(pipe) : pipe'[j] = pipe[j]
        BY <1>3, <3>2, <3>4, AppendProperties
      <4>2. CASE i \in 1 .. Len(pipe)
        BY <4>1, <4>2 DEF ReportsBacked
      <4>3. CASE i = Len(pipe) + 1
        BY <3>2, <4>1, <4>3
      <4> QED BY <1>3, <4>1, <4>2, <4>3
    <3> QED BY <3>1, <3>3, <3>4
  <2> QED
    BY <2>1, <2>4, <2>5, <2>6 DEF ReportsBacked
<1>10. ASSUME NEW h \in Hosts, ReceiveData(h)
       PROVE  ReportsBacked'
  <2>1. fromHost[h] # <<>> /\ UNCHANGED <<recv, pipe, done>>
    BY <1>10 DEF ReceiveData
  <2>2. /\ Len(Tail(fromHost[h])) = Len(fromHost[h]) - 1
        /\ \A i \in 1 .. Len(Tail(fromHost[h])) :
              Tail(fromHost[h])[i] = fromHost[h][i + 1]
    BY <1>2, <2>1, HeadTailProperties
  <2>3. /\ fromHost'[h] = Tail(fromHost[h])
        /\ \A k \in Hosts : k # h => fromHost'[k] = fromHost[k]
    BY <1>10 DEF ReceiveData, TypeOK, TypeChannels
  <2>4. ASSUME NEW k \in Hosts, NEW i \in 1 .. Len(fromHost'[k]),
               fromHost'[k][i].type = "fence"
        PROVE  fromHost'[k][i].id <= done'[k]
    <3>1. CASE k = h
      <4>1. i \in 1 .. Len(Tail(fromHost[h])) /\ Len(fromHost[h]) \in Nat
        BY <1>4, <2>3, <3>1
      <4>2. i + 1 \in 1 .. Len(fromHost[h])
        BY <2>2, <4>1
      <4>3. fromHost'[k][i] = fromHost[h][i + 1]
        BY <2>2, <2>3, <3>1, <4>1
      <4> QED BY <2>1, <2>4, <3>1, <4>2, <4>3 DEF ReportsBacked
    <3>2. CASE k # h
      BY <2>1, <2>3, <2>4, <3>2 DEF ReportsBacked
    <3> QED BY <3>1, <3>2
  <2> QED BY <2>1, <2>4 DEF ReportsBacked
<1>11. ASSUME NEW h \in Hosts, NEW m \in Msg, UNCHANGED <<recv, pipe>>,
              \/ fromHost' = fromHost
              \/ fromHost' = [fromHost EXCEPT ![h] = Append(@, m)],
              m.type = "fence" => m.id <= done'[h]
       PROVE  ReportsBacked'
  <2>1. CASE fromHost' = fromHost
    BY <1>5, <1>11, <2>1
  <2>2. CASE fromHost' = [fromHost EXCEPT ![h] = Append(@, m)]
    <3>1. /\ fromHost'[h] = Append(fromHost[h], m)
          /\ \A k \in Hosts : k # h => fromHost'[k] = fromHost[k]
      BY <2>2 DEF TypeOK, TypeChannels
    <3>2. /\ Len(fromHost'[h]) = Len(fromHost[h]) + 1
          /\ fromHost'[h][Len(fromHost[h]) + 1] = m
          /\ \A i \in 1 .. Len(fromHost[h]) : fromHost'[h][i] = fromHost[h][i]
      BY <1>2, <3>1, AppendProperties
    <3>3. ASSUME NEW k \in Hosts, NEW i \in 1 .. Len(fromHost[k]),
                 fromHost[k][i].type = "fence"
          PROVE  fromHost[k][i].id <= done'[k]
      <4>1. fromHost[k][i].id <= done[k] /\ fromHost[k][i].id \in Nat
        BY <1>4, <3>3 DEF ReportsBacked
      <4> QED BY <1>1, <1>2, <4>1
    <3>4. ASSUME NEW k \in Hosts, NEW i \in 1 .. Len(fromHost'[k]),
                 fromHost'[k][i].type = "fence"
          PROVE  fromHost'[k][i].id <= done'[k]
      <4>1. CASE k # h
        BY <3>1, <3>3, <3>4, <4>1
      <4>2. CASE k = h /\ i \in 1 .. Len(fromHost[h])
        BY <3>2, <3>3, <3>4, <4>2
      <4>3. CASE k = h /\ i = Len(fromHost[h]) + 1
        BY <1>11, <3>2, <3>4, <4>3
      <4> QED BY <1>4, <3>2, <4>1, <4>2, <4>3
    <3>5. \A k \in Hosts : recv'[k] <= done'[k]
      BY <1>1, <1>2, <1>11 DEF ReportsBacked
    <3>6. ASSUME NEW i \in 1 .. Len(pipe'), NEW k \in Hosts
          PROVE  pipe'[i] <= done'[k]
      <4>1. i \in 1 .. Len(pipe) /\ pipe'[i] = pipe[i]
        BY <1>11
      <4>2. pipe[i] <= done[k]
        BY <4>1 DEF ReportsBacked
      <4>3. pipe[i] \in Nat /\ done[k] \in Nat /\ done'[k] \in Nat /\ done[k] <= done'[k]
        BY <1>1, <1>2, <1>3, <4>1
      <4> QED BY <4>1, <4>2, <4>3
    <3> QED BY <3>4, <3>5, <3>6 DEF ReportsBacked
  <2> QED BY <1>11, <2>1, <2>2
<1>12. ASSUME NEW h \in Hosts, Dispatch(h)
       PROVE  ReportsBacked'
  <2> DEFINE c == Head(toHost[h])
  <2>1. c \in Nat
    BY <1>12, HostTyped, HeadTailProperties DEF Dispatch, Cmds
  <2>2. DataMsg(c) \in Msg /\ DataMsg(c).type # "fence"
    BY <2>1 DEF DataMsg, Msg
  <2>3. /\ UNCHANGED <<recv, pipe>>
        /\ \/ fromHost' = fromHost
           \/ fromHost' = [fromHost EXCEPT ![h] = Append(@, DataMsg(c))]
    BY <1>12 DEF Dispatch
  <2> QED BY <1>11, <2>2, <2>3
<1>13. ASSUME NEW h \in Hosts, Retire(h)
       PROVE  ReportsBacked'
  <2> PICK f \in made[h] :
        /\ done' = [done EXCEPT ![h] = f]
        /\ fromHost' = [fromHost EXCEPT ![h] = Append(@, FenceMsg(f))]
    BY <1>13 DEF Retire
  <2>1. f \in Nat /\ done'[h] = f
    BY HostTyped DEF TypeOK, TypeHosts
  <2>2. FenceMsg(f) \in Msg /\ FenceMsg(f).id <= f
    BY <2>1, WireBound DEF FenceMsg, Msg
  <2>3. UNCHANGED <<recv, pipe>>
    BY <1>13 DEF Retire
  <2> QED BY <1>11, <2>1, <2>2, <2>3
<1>14. CASE UNCHANGED vars
  BY <1>5, <1>14 DEF vars
<1> QED
  BY <1>6, <1>7, <1>8, <1>9, <1>10, <1>12, <1>13, <1>14 DEF Next

(***************************************************************************)
(* Responses.                                                              *)
(***************************************************************************)

\* Only requests that were taken off the ring are answered, and an answer is
\* never taken back.
AnsweredTaken == \A c \in Cmds : c > taken => answers[c] = 0

\* What one step may add to the answered requests: a request that no fence
\* guards, or those process_fences finds covered by the head of fence_pipe.
Covered(c) ==
  /\ c \in Cmds /\ c <= Len(cmds)
  /\ Fenced(c) => pipe # <<>> /\ c <= Head(pipe)

LEMMA RespondAdds ==
  ASSUME TypeOK, NEW S, Respond(S), NEW c \in Cmds
  PROVE  /\ answers'[c] >= answers[c]
         /\ answers'[c] > 0 => answers[c] > 0 \/ c \in S
         /\ answers'[c] = 0 <=> answers[c] = 0 /\ c \notin S
BY DEF TypeOK, TypeRequests, Respond

\* Each step keeps the answers given and adds covered requests at most.
LEMMA AnswerStep ==
  ASSUME TypeOK, AnsweredTaken, [Next]_vars
  PROVE  /\ AnsweredTaken'
         /\ Answered \subseteq Answered'
         /\ \A c \in Answered' \ Answered : Covered(c) /\ UNCHANGED <<cmds, done>>
<1> USE DEF guestVars, mainVars, requestVars, resourceVars, rendererVars
<1>1. /\ taken \in Nat /\ Len(cmds) \in Nat /\ taken <= Len(cmds)
      /\ pc = "forward" => taken > 0
      /\ async \subseteq 1 .. taken
      /\ answers \in [Cmds -> Nat]
  BY LenProperties DEF TypeOK, TypeLoop, TypeRequests
<1>2. ASSUME UNCHANGED answers, taken' \in Nat, taken' >= taken
      PROVE  AnsweredTaken' /\ Answered' = Answered
  BY <1>1, <1>2 DEF AnsweredTaken, Answered, Cmds
<1>3. CASE ServeFence
  <2> DEFINE S == Reached(Head(pipe))
  <2>1. /\ Respond(S) /\ pipe # <<>>
        /\ UNCHANGED <<cmds, done, taken>>
    BY <1>3 DEF ServeFence
  <2>2. \A c \in S : c \in async /\ c <= Head(pipe)
    BY DEF Reached
  <2>3. \A c \in Cmds : c \in S => c <= taken
    <3> HIDE DEF S
    <3>1. \A c \in S : c \in 1 .. taken
      BY <1>1, <2>2
    <3> QED BY <1>1, <3>1
  <2> HIDE DEF S
  <2>4. AnsweredTaken'
    <3>1. ASSUME NEW c \in Cmds, c > taken PROVE answers'[c] = 0
      <4>1. answers[c] = 0
        BY <3>1 DEF AnsweredTaken
      <4>2. c \notin S
        <5>1. c \in Nat
          BY DEF Cmds
        <5> QED BY <1>1, <2>3, <3>1, <5>1
      <4> QED BY <2>1, <4>1, <4>2, RespondAdds
    <3> QED BY <2>1, <3>1 DEF AnsweredTaken
  <2>5. Answered \subseteq Answered'
    BY <1>1, <2>1, RespondAdds, RespondType DEF Answered
  <2>6. ASSUME NEW c \in Answered' \ Answered
        PROVE  Covered(c)
    <3>1. c \in Cmds /\ c \in S
      BY <2>1, <2>6, RespondAdds DEF Answered
    <3>2. c \in async /\ c <= Head(pipe)
      BY <2>2, <3>1
    <3>3. c <= taken /\ c \in Cmds
      BY <2>3, <3>1
    <3>4. c <= Len(cmds)
      <4>1. c \in Nat
        BY <3>3 DEF Cmds
      <4> QED BY <1>1, <3>3, <4>1
    <3> QED BY <2>1, <3>2, <3>3, <3>4 DEF Covered
  <2> QED BY <2>1, <2>4, <2>5, <2>6
<1>4. CASE TakeInsane
  <2>1. /\ taken < Len(cmds) /\ cmds[taken + 1] = "insane" /\ taken' = taken + 1
        /\ answers' = [answers EXCEPT ![taken + 1] = @ + 1]
        /\ UNCHANGED <<cmds, done>>
    BY <1>4 DEF TakeInsane
  <2>2. \A c \in Cmds : c # taken + 1 => answers'[c] = answers[c]
    BY <1>1, <2>1
  <2>3. AnsweredTaken'
    BY <1>1, <2>1, <2>2 DEF AnsweredTaken, Cmds
  <2>4. Answered \subseteq Answered'
    BY <1>1, <2>1 DEF Answered
  <2>5. ASSUME NEW c \in Answered' \ Answered
        PROVE  Covered(c)
    <3>1. c \in Cmds /\ c = taken + 1
      BY <2>2, <2>5 DEF Answered
    <3> QED
      BY <1>1, <2>1, <3>1 DEF Covered, Fenced
  <2> QED BY <2>1, <2>3, <2>4, <2>5
<1>5. CASE Finish
  <2>1. UNCHANGED <<cmds, done, taken>> /\ taken > 0
    BY <1>1, <1>5 DEF Finish
  <2>2. CASE Fenced(taken)
    BY <1>1, <1>2, <1>5, <2>1, <2>2 DEF Finish
  <2>3. CASE ~Fenced(taken)
    <3>1. Respond({taken})
      BY <1>5, <2>3 DEF Finish
    <3>2. AnsweredTaken'
      BY <1>1, <2>1, <3>1, RespondAdds DEF AnsweredTaken, Cmds
    <3>3. Answered \subseteq Answered'
      BY <1>1, <3>1, RespondAdds, RespondType DEF Answered
    <3>4. ASSUME NEW c \in Answered' \ Answered
          PROVE  Covered(c)
      <4>1. c \in Cmds /\ c = taken
        BY <3>1, <3>4, RespondAdds DEF Answered
      <4> QED
        BY <1>1, <2>3, <4>1 DEF Covered
    <3> QED BY <2>1, <3>2, <3>3, <3>4
  <2> QED BY <2>2, <2>3
<1>6. CASE TakeSane
  BY <1>1, <1>2, <1>6 DEF TakeSane
<1>7. CASE Wake \/ FencesDrained \/ EndServe \/ \E h \in Hosts : Forward(h)
  <2>1. UNCHANGED <<answers, taken>>
    BY <1>7 DEF Wake, FencesDrained, EndServe, Forward
  <2> QED BY <1>1, <1>2, <2>1
<1>8. CASE Notify \/ \E k \in Kinds : Submit(k)
  BY <1>1, <1>2, <1>8 DEF Notify, Submit
<1>9. ASSUME NEW h \in Hosts,
             ReceiveFence(h) \/ ReceiveData(h) \/ Dispatch(h) \/ Retire(h)
      PROVE  UNCHANGED <<answers, taken>>
  BY <1>9 DEF ReceiveFence, ReceiveData, Dispatch, Retire
<1>10. CASE UNCHANGED vars
  BY <1>1, <1>2, <1>10 DEF vars
<1> QED
  BY <1>1, <1>2, <1>3, <1>4, <1>5, <1>6, <1>7, <1>8, <1>9, <1>10 DEF Next, Main

(***************************************************************************)
(* The inductive invariant behind AnswerAfterAllHosts.                     *)
(***************************************************************************)
IInv == TypeOK /\ InOrder /\ ReportsBacked /\ AnsweredTaken /\ AnswerAfterAllHosts

LEMMA IInvInit == Init => IInv
<1> SUFFICES ASSUME Init PROVE IInv
  OBVIOUS
<1>1. AnsweredTaken /\ AnswerAfterAllHosts
  BY DEF Init, AnsweredTaken, AnswerAfterAllHosts, Answered
<1> QED
  BY <1>1, TypeInit, OrderInit, ReportsInit DEF IInv

LEMMA IInvNext == IInv /\ [Next]_vars => IInv'
<1> SUFFICES ASSUME IInv, [Next]_vars
             PROVE  IInv'
  OBVIOUS
<1> USE DEF IInv
<1>1. TypeOK' /\ InOrder' /\ ReportsBacked' /\ AnsweredTaken'
  BY TypeNext, OrderNext, ReportsNext, AnswerStep
<1>2. ASSUME NEW c \in Answered', Fenced(c)', NEW h \in Hosts
      PROVE  c <= done'[h]
  <2>1. done[h] \in Nat /\ done'[h] \in Nat /\ done[h] <= done'[h] /\ c \in Nat
    BY <1>1, DoneGrows DEF TypeOK, TypeHosts, Answered, Cmds
  <2>2. CASE c \in Answered
    <3>1. c <= taken
      BY <2>2 DEF AnsweredTaken, Answered, TypeOK, TypeLoop, Cmds
    <3>2. Fenced(c)
      <4>1. c \in 1 .. Len(cmds)
        BY <3>1, LenProperties DEF Answered, Cmds, TypeOK, TypeLoop
      <4> QED BY <1>2, <4>1, CmdsGrow
    <3> QED
      BY <2>1, <2>2, <3>2 DEF AnswerAfterAllHosts
  <2>3. CASE c \notin Answered
    <3>1. Covered(c) /\ UNCHANGED <<cmds, done>>
      BY <2>3, AnswerStep
    <3>2. pipe # <<>> /\ c <= Head(pipe)
      BY <1>2, <3>1 DEF Covered, Fenced
    <3>3. pipe \in Seq(Nat)
      BY DEF TypeOK, TypeChannels
    <3>4. Head(pipe) = pipe[1] /\ Head(pipe) \in Nat /\ 1 \in 1 .. Len(pipe)
      BY <3>2, <3>3, HeadTailProperties, EmptySeq
    <3> QED
      BY <2>1, <3>1, <3>2, <3>4 DEF ReportsBacked
  <2> QED BY <2>2, <2>3
<1> QED
  BY <1>1, <1>2 DEF AnswerAfterAllHosts

\* A fenced request is answered only when the GPU of every renderer has come
\* past its fence: for any number of renderers, any queue sizes, any
\* interleaving of their reports, any width of the ids on the wire.
THEOREM AnswerCorrect == Spec => []AnswerAfterAllHosts
<1>1. IInv => AnswerAfterAllHosts
  BY DEF IInv
<1> QED BY <1>1, IInvInit, IInvNext, PTL DEF Spec

\* No report promises more than the GPU it speaks for has done.
THEOREM ReportsCorrect == Spec => []ReportsBacked
<1>1. IInv => ReportsBacked
  BY DEF IInv
<1> QED BY <1>1, IInvInit, IInvNext, PTL DEF Spec

(***************************************************************************)
(* Refinement.                                                             *)
(***************************************************************************)
LEMMA ServiceInit == Init => Service!Init
BY DEF Init, Service!Init, Answered

LEMMA ServiceNext ==
  ASSUME IInv, IInv', [Next]_vars
  PROVE  [Service!Next]_(Service!svars)
<1> USE DEF IInv, guestVars, mainVars, requestVars, resourceVars, rendererVars
<1>1. ASSUME UNCHANGED <<cmds, answers, done>>
      PROVE  UNCHANGED Service!svars
  BY <1>1 DEF Service!svars, Answered
<1>2. ASSUME UNCHANGED <<cmds, done>>
      PROVE  [Service!Next]_(Service!svars)
  <2> DEFINE S == Answered' \ Answered
  <2>1. Answered' = Answered \cup S /\ \A c \in S : Covered(c)
    BY AnswerStep
  <2>2. S \in SUBSET (1 .. Len(cmds) \ Answered)
    BY <2>1 DEF Covered, Cmds
  <2>3. ASSUME NEW c \in S, Fenced(c), NEW h \in Hosts
        PROVE  c <= done[h]
    <3>1. c \in Answered' /\ Fenced(c)'
      BY <1>2, <2>3 DEF Fenced
    <3> QED
      BY <1>2, <3>1 DEF AnswerAfterAllHosts
  <2>4. \A c \in S : Service!IsFenced(c) => \A h \in Hosts : c <= done[h]
    BY <2>3 DEF Service!IsFenced, Fenced
  <2> HIDE DEF S
  <2>5. Service!Complete
    BY <1>2, <2>1, <2>2, <2>4 DEF Service!Complete
  <2> QED
    BY <2>5 DEF Service!Next
<1>3. ASSUME NEW k \in Kinds, Submit(k)
      PROVE  [Service!Next]_(Service!svars)
  <2>1. Service!Issue(k)
    BY <1>3 DEF Submit, Service!Issue, Answered
  <2> QED
    BY <2>1 DEF Service!Next
<1>4. CASE Notify \/ Main
  <2>1. UNCHANGED <<cmds, done>>
    BY <1>4 DEF Notify, Main, Wake, ServeFence, FencesDrained, TakeInsane,
      TakeSane, Forward, Finish, EndServe
  <2> QED BY <1>2, <2>1
<1>5. ASSUME NEW h \in Hosts, ReceiveFence(h) \/ ReceiveData(h) \/ Dispatch(h)
      PROVE  [Service!Next]_(Service!svars)
  BY <1>1, <1>5 DEF ReceiveFence, ReceiveData, Dispatch
<1>6. ASSUME NEW h \in Hosts, Retire(h)
      PROVE  [Service!Next]_(Service!svars)
  <2>1. PICK f \in made[h] : done' = [done EXCEPT ![h] = f]
    BY <1>6 DEF Retire
  <2>2. Fenced(f) /\ done[h] < f /\ f \in Cmds /\ f <= taken
    <3>1. f \in Cmds /\ Fenced(f) /\ done[h] < f /\ f <= Passed(h)
      BY <2>1 DEF InOrder, TypeOK, TypeHosts
    <3> QED
      BY <3>1 DEF Passed, Cmds, TypeOK, TypeLoop
  <2>3. f \in 1 .. Len(cmds)
    BY <2>2, LenProperties DEF TypeOK, TypeLoop, Cmds
  <2>4. UNCHANGED <<cmds, answers>>
    BY <1>6 DEF Retire
  <2>5. Service!Advance(h)
    BY <2>1, <2>2, <2>3, <2>4 DEF Service!Advance, Service!IsFenced, Fenced, Answered
  <2> QED
    BY <2>5 DEF Service!Next
<1>7. CASE UNCHANGED vars
  BY <1>1, <1>7 DEF vars
<1> QED
  BY <1>3, <1>4, <1>5, <1>6, <1>7 DEF Next

\* The fence pipeline implements FenceService: requests are completed once
\* and for good, the fenced ones after their fence on every GPU.
THEOREM Refinement == Spec => ImplementsService
<1> QED
  BY IInvInit, IInvNext, ServiceInit, ServiceNext, PTL
  DEF Spec, ImplementsService, Service!Spec

(***************************************************************************)
(* The answers: what the guest finds when it is shown one, and how many    *)
(* reports may wait in fence_pipe.                                         *)
(***************************************************************************)

(***************************************************************************)
(* The life of a request.                                                  *)
(***************************************************************************)

\* The request the main loop is forwarding.
InHand(c) == c = taken /\ pc = "forward"

\* RequestLifetime with what it says nothing of: a request that was not taken
\* yet has no reference, the one in the main loop's hand one of the main loop
\* and, when it is fenced, the one add_resp took.
LifeKept ==
  \A c \in Cmds :
    /\ c > taken => refs[c] = 0 /\ answers[c] = 0
    /\ InHand(c) => /\ answers[c] = 0
                    /\ c \in async <=> Fenced(c)
                    /\ refs[c] = IF Fenced(c) THEN 2 ELSE 1
    /\ c <= taken /\ ~InHand(c) =>
         IF c \in async THEN refs[c] = 1 /\ answers[c] = 0
                       ELSE refs[c] = 0 /\ answers[c] = 1

\* vqueue_get_request, process_fences and the end of a request hand its
\* references on as LifeKept says.
LEMMA LifeNext ==
  ASSUME TypeOK, LifeKept, [Next]_vars
  PROVE  LifeKept'
<1> USE DEF guestVars, mainVars, requestVars, resourceVars, rendererVars
<1>1. /\ taken \in Nat /\ Len(cmds) \in Nat /\ taken <= Len(cmds)
      /\ pc = "forward" => taken > 0
      /\ async \subseteq 1 .. taken
      /\ refs \in [Cmds -> Int] /\ answers \in [Cmds -> Nat]
  BY LenProperties DEF TypeOK, TypeLoop, TypeRequests
<1>2. ASSUME UNCHANGED <<taken, async, refs, answers>>,
             (pc = "forward") = (pc' = "forward")
      PROVE  LifeKept'
  <2>1. pc = "forward" => (Fenced(taken)' <=> Fenced(taken))
    <3>1. pc = "forward" => taken \in 1 .. Len(cmds)
      BY <1>1
    <3> QED BY <3>1, CmdsGrow, <1>2 DEF Fenced
  <2> QED BY <1>1, <1>2, <2>1 DEF LifeKept, InHand, Cmds
<1>3. CASE ServeFence
  <2> DEFINE S == Reached(Head(pipe))
  <2>1. /\ UNCHANGED <<pc, taken>> /\ pc = "fences"
        /\ async' = async \ S /\ S \subseteq async
        /\ \A c \in Cmds :
             /\ refs'[c] = IF c \in S THEN refs[c] - 1 ELSE refs[c]
             /\ answers'[c] = IF c \in S THEN answers[c] + 1 ELSE answers[c]
    BY <1>3 DEF ServeFence, Respond, Reached
  <2> HIDE DEF S
  <2>2. ASSUME NEW c \in Cmds, c > taken
        PROVE  refs'[c] = 0 /\ answers'[c] = 0
    BY <1>1, <2>1, <2>2 DEF LifeKept, Cmds
  <2>3. ASSUME NEW c \in Cmds, c <= taken
        PROVE  IF c \in async' THEN refs'[c] = 1 /\ answers'[c] = 0
                               ELSE refs'[c] = 0 /\ answers'[c] = 1
    BY <2>1, <2>3 DEF LifeKept, InHand
  <2> QED BY <2>1, <2>2, <2>3 DEF LifeKept, InHand
<1>4. CASE TakeInsane
  <2>1. /\ pc = "requests" /\ UNCHANGED <<pc, async, refs>>
        /\ taken' = taken + 1 /\ taken + 1 \in Cmds /\ taken + 1 \notin async
        /\ answers' = [answers EXCEPT ![taken + 1] = @ + 1]
    BY <1>1, <1>4, BoundsAssumption DEF TakeInsane, Cmds, TypeOK, TypeLoop
  <2> QED BY <1>1, <2>1 DEF LifeKept, InHand, Cmds
<1>5. CASE TakeSane
  <2>1. /\ pc = "requests" /\ pc' = "forward" /\ UNCHANGED <<cmds, answers>>
        /\ taken' = taken + 1 /\ taken + 1 \in Cmds /\ taken + 1 \notin async
        /\ async' = IF Fenced(taken + 1) THEN async \cup {taken + 1} ELSE async
        /\ refs' = [refs EXCEPT ![taken + 1] = IF Fenced(taken + 1) THEN 2 ELSE 1]
    BY <1>1, <1>5, BoundsAssumption DEF TakeSane, Cmds, TypeOK, TypeLoop
  <2>2. \A c : Fenced(c)' <=> Fenced(c)
    BY <2>1 DEF Fenced
  <2> QED BY <1>1, <2>1, <2>2 DEF LifeKept, InHand, Cmds
<1>6. CASE Finish
  <2>1. /\ pc = "forward" /\ pc' = "requests" /\ UNCHANGED <<async, taken>>
        /\ taken \in Cmds
    BY <1>1, <1>6, BoundsAssumption DEF Finish, Cmds, TypeOK, TypeLoop
  <2>2. CASE Fenced(taken)
    <3>1. /\ refs' = [refs EXCEPT ![taken] = @ - 1] /\ UNCHANGED answers
      BY <1>6, <2>2 DEF Finish
    <3> QED BY <1>1, <2>1, <2>2, <3>1 DEF LifeKept, InHand, Cmds
  <2>3. CASE ~Fenced(taken)
    <3>1. \A c \in Cmds :
             /\ refs'[c] = IF c = taken THEN refs[c] - 1 ELSE refs[c]
             /\ answers'[c] = IF c = taken THEN answers[c] + 1 ELSE answers[c]
      BY <1>6, <2>3 DEF Finish, Respond
    <3> QED BY <1>1, <2>1, <2>3, <3>1 DEF LifeKept, InHand, Cmds
  <2> QED BY <2>2, <2>3
<1>7. CASE Wake \/ FencesDrained \/ EndServe \/ \E h \in Hosts : Forward(h)
  <2>1. UNCHANGED <<taken, async, refs, answers>> /\ (pc = "forward") = (pc' = "forward")
    BY <1>7 DEF Wake, FencesDrained, EndServe, Forward
  <2> QED BY <1>2, <2>1
<1>8. CASE Notify \/ \E k \in Kinds : Submit(k)
  <2>1. UNCHANGED <<taken, async, refs, answers, pc>>
    BY <1>8 DEF Notify, Submit
  <2> QED BY <1>2, <2>1
<1>9. ASSUME NEW h \in Hosts,
             ReceiveFence(h) \/ ReceiveData(h) \/ Dispatch(h) \/ Retire(h)
      PROVE  LifeKept'
  <2>1. UNCHANGED <<taken, async, refs, answers, pc>>
    BY <1>9 DEF ReceiveFence, ReceiveData, Dispatch, Retire
  <2> QED BY <1>2, <2>1
<1>10. CASE UNCHANGED vars
  BY <1>2, <1>10 DEF vars
<1> QED
  BY <1>3, <1>4, <1>5, <1>6, <1>7, <1>8, <1>9, <1>10 DEF Next, Main

(***************************************************************************)
(* Announcements.                                                          *)
(***************************************************************************)

\* What was not announced yet is remembered by kick, which is clear while the
\* main loop waits.
KickKept == (~kick => told = Answered) /\ (pc = "idle" => ~kick)

\* Every response sets kick, and only the announcement clears it.
LEMMA KickNext ==
  ASSUME TypeOK, KickKept, [Next]_vars
  PROVE  KickKept'
<1> USE DEF guestVars, mainVars, requestVars, resourceVars, rendererVars
<1>1. ASSUME UNCHANGED <<told, answers, kick>>, pc' = "idle" => pc = "idle"
      PROVE  KickKept'
  BY <1>1, Zenon DEF KickKept, Answered
<1>2. ASSUME NEW S, Respond(S), UNCHANGED told, pc' # "idle"
      PROVE  KickKept'
  <2>1. CASE S = {}
    <3>1. kick' = kick
      BY <1>2, <2>1, Zenon DEF Respond, TypeOK, TypeFlags
    <3>2. answers' = answers
      BY <1>2, <2>1 DEF Respond, TypeOK, TypeRequests
    <3> QED BY <1>1, <1>2, <3>1, <3>2
  <2>2. CASE S # {}
    <3>1. kick'
      BY <1>2, <2>2, Zenon DEF Respond
    <3> QED BY <1>2, <3>1, Zenon DEF KickKept
  <2> QED BY <2>1, <2>2
<1>3. CASE ServeFence
  BY <1>2, <1>3 DEF ServeFence
<1>4. CASE TakeInsane
  BY <1>4, Zenon DEF TakeInsane, KickKept
<1>5. CASE Finish
  <2>1. pc' # "idle" /\ UNCHANGED told
    BY <1>5 DEF Finish
  <2>2. CASE Fenced(taken)
    BY <1>1, <1>5, <2>1, <2>2 DEF Finish
  <2>3. CASE ~Fenced(taken)
    BY <1>2, <1>5, <2>1, <2>3 DEF Finish
  <2> QED BY <2>2, <2>3
<1>6. CASE EndServe
  <2>1. kick' = FALSE /\ told' = (IF kick THEN Answered ELSE told) /\ UNCHANGED answers
    BY <1>6 DEF EndServe
  <2>2. Answered' = Answered
    BY <2>1 DEF Answered
  <2>3. told' = Answered
    BY <2>1, Zenon DEF KickKept
  <2> QED BY <2>1, <2>2, <2>3, Zenon DEF KickKept
<1>7. CASE Wake \/ FencesDrained \/ TakeSane \/ \E h \in Hosts : Forward(h)
  BY <1>1, <1>7 DEF Wake, FencesDrained, TakeSane, Forward
<1>8. CASE Notify \/ \E k \in Kinds : Submit(k)
  BY <1>1, <1>8 DEF Notify, Submit
<1>9. ASSUME NEW h \in Hosts,
             ReceiveFence(h) \/ ReceiveData(h) \/ Dispatch(h) \/ Retire(h)
      PROVE  KickKept'
  BY <1>1, <1>9 DEF ReceiveFence, ReceiveData, Dispatch, Retire
<1>10. CASE UNCHANGED vars
  BY <1>1, <1>10 DEF vars
<1> QED
  BY <1>3, <1>4, <1>5, <1>6, <1>7, <1>8, <1>9, <1>10 DEF Next, Main

(***************************************************************************)
(* The data of a TRANSFER_FROM_HOST_3D.                                    *)
(***************************************************************************)

\* None of the first n messages of renderer 0 reports request c.
NoReport(c, n) ==
  \A j \in 1 .. n : fromHost[0][j].type = "fence" => fromHost[0][j].id < c

\* Where a transfer is whose data has not landed: not passed on yet, on its way
\* to renderer 0, or on its way back, ahead of every report that covers it.
DataAhead(c) ==
  \/ c > Passed(0)
  \/ \E i \in 1 .. Len(toHost[0]) : toHost[0][i] = c
  \/ \E i \in 1 .. Len(fromHost[0]) :
       fromHost[0][i] = DataMsg(c) /\ NoReport(c, i - 1)

\* So neither the resource thread nor fence_pipe holds an id that covers it.
DataKept ==
  \A c \in 1 .. Len(cmds) : cmds[c] = "read" /\ c \notin landed =>
    /\ recv[0] < c
    /\ \A i \in 1 .. Len(pipe) : pipe[i] < c
    /\ DataAhead(c)

\* What the types say of the messages.
LEMMA MessagesTyped ==
  ASSUME TypeOK
  PROVE  /\ pipe \in Seq(Nat) /\ Len(pipe) \in Nat
         /\ \A i \in 1 .. Len(pipe) : pipe[i] \in Nat
         /\ \A h \in Hosts :
              /\ fromHost[h] \in Seq(Msg) /\ Len(fromHost[h]) \in Nat
              /\ recv[h] \in Nat /\ done[h] \in Nat
              /\ \A i \in 1 .. Len(fromHost[h]) :
                   fromHost[h][i] \in Msg /\ fromHost[h][i].id \in Nat
<1>1. /\ pipe \in Seq(Nat) /\ Len(pipe) \in Nat
      /\ \A i \in 1 .. Len(pipe) : pipe[i] \in Nat
  BY ElementOfSeq, LenProperties DEF TypeOK, TypeChannels
<1>2. ASSUME NEW h \in Hosts
      PROVE  /\ fromHost[h] \in Seq(Msg) /\ Len(fromHost[h]) \in Nat
             /\ recv[h] \in Nat /\ done[h] \in Nat
             /\ \A i \in 1 .. Len(fromHost[h]) :
                  fromHost[h][i] \in Msg /\ fromHost[h][i].id \in Nat
  <2>1. fromHost[h] \in Seq(Msg) /\ recv[h] \in Nat /\ done[h] \in Nat
    BY DEF TypeOK, TypeChannels, TypeHosts
  <2>2. Len(fromHost[h]) \in Nat
    BY <2>1, LenProperties
  <2>3. \A i \in 1 .. Len(fromHost[h]) : fromHost[h][i] \in Msg
    BY <2>1, ElementOfSeq
  <2> QED BY <2>1, <2>2, <2>3 DEF Msg
<1> QED BY <1>1, <1>2

\* What a renderer has not been sent, or not executed, it has not reported.
LEMMA NotReported ==
  ASSUME TypeOK, InOrder, ReportsBacked, NEW c \in Nat,
         c > Passed(0) \/ \E i \in 1 .. Len(toHost[0]) : toHost[0][i] = c
  PROVE  done[0] < c /\ NoReport(c, Len(fromHost[0]))
<1>1. 0 \in Hosts
  BY NAssumption DEF Hosts
<1>2. Passed(0) \in Int /\ done[0] \in Nat
  BY <1>1, MessagesTyped DEF Passed, TypeOK, TypeLoop
<1>3. done[0] < c
  BY <1>1, <1>2 DEF InOrder
<1>4. NoReport(c, Len(fromHost[0]))
  <2>1. \A j \in 1 .. Len(fromHost[0]) :
          fromHost[0][j].type = "fence" => fromHost[0][j].id <= done[0]
    BY <1>1 DEF ReportsBacked
  <2> QED BY <1>1, <1>2, <1>3, <2>1, MessagesTyped DEF NoReport
<1> QED BY <1>3, <1>4

\* The main loop passes a transfer on to renderer 0, and the steps that do not
\* touch what renderer 0 sends keep its data ahead of the reports.
LEMMA DataMain ==
  ASSUME TypeOK, DataKept, Main
  PROVE  DataKept'
<1> USE DEF guestVars, mainVars, requestVars, resourceVars, rendererVars
<1>1. /\ UNCHANGED <<cmds, landed, recv, fromHost>> /\ 0 \in Hosts
      /\ taken \in Nat /\ (pc = "forward" => taken > 0)
  <2>1. UNCHANGED <<cmds, landed, recv, fromHost>>
    BY DEF Main, Wake, ServeFence, FencesDrained, TakeInsane, TakeSane,
       Forward, Finish, EndServe
  <2>2. 0 \in Hosts
    BY NAssumption DEF Hosts
  <2> QED BY <2>1, <2>2 DEF TypeOK, TypeLoop
<1>2. ASSUME NEW i \in 1 .. Len(pipe')
      PROVE  \E j \in 1 .. Len(pipe) : pipe'[i] = pipe[j]
  <2>1. CASE ServeFence
    <3>1. /\ pipe' = Tail(pipe) /\ pipe # <<>>
      BY <2>1 DEF ServeFence
    <3>2. pipe'[i] = pipe[i + 1] /\ i + 1 \in 1 .. Len(pipe)
      BY <1>2, <3>1, MessagesTyped, HeadTailProperties
    <3> QED BY <3>2
  <2>2. CASE ~ServeFence
    <3>1. pipe' = pipe
      BY <2>2 DEF Main, Wake, FencesDrained, TakeInsane, TakeSane,
         Forward, Finish, EndServe
    <3> QED BY <1>2, <3>1
  <2> QED BY <2>1, <2>2
<1>3. ASSUME NEW c \in 1 .. Len(cmds), cmds[c] = "read", c > Passed(0)
      PROVE  \/ c > Passed(0)'
             \/ \E i \in 1 .. Len(toHost'[0]) : toHost'[0][i] = c
  <2>1. CASE TakeInsane
    <3>1. c # taken + 1 /\ c > taken /\ taken' = taken + 1 /\ pc' # "forward"
      BY <1>1, <1>3, <2>1 DEF TakeInsane, Passed
    <3> QED BY <1>1, <3>1 DEF Passed
  <2>2. CASE TakeSane
    <3>1. /\ c > taken /\ taken' = taken + 1 /\ pc' = "forward"
          /\ left' = Dest(taken + 1)
      BY <1>1, <1>3, <2>2 DEF TakeSane, Passed
    <3>2. 0 \in left'
      BY <1>1, <3>1 DEF Dest
    <3> QED BY <1>1, <3>1, <3>2 DEF Passed
  <2>3. ASSUME NEW h \in Hosts, Forward(h)
        PROVE  \/ c > Passed(0)'
               \/ \E i \in 1 .. Len(toHost'[0]) : toHost'[0][i] = c
    <3>1. /\ pc = "forward" /\ UNCHANGED <<pc, taken>> /\ left' = left \ {h}
          /\ toHost' = [toHost EXCEPT ![h] = Append(@, taken)] /\ h \in left
      BY <2>3 DEF Forward
    <3>2. CASE h # 0
      BY <1>3, <3>1, <3>2 DEF Passed
    <3>3. CASE h = 0 /\ c > taken
      BY <1>1, <3>1, <3>3 DEF Passed
    <3>4. CASE h = 0 /\ c = taken
      <4>1. toHost'[0] = Append(toHost[0], taken) /\ toHost[0] \in Seq(Cmds)
        BY <1>1, <3>1, <3>4 DEF TypeOK, TypeChannels
      <4>2. taken \in Cmds
        BY <1>1, <1>3, <3>4, BoundsAssumption DEF Cmds, TypeOK, TypeLoop
      <4>3. /\ Len(toHost'[0]) = Len(toHost[0]) + 1 /\ Len(toHost[0]) \in Nat
            /\ toHost'[0][Len(toHost[0]) + 1] = taken
        BY <4>1, <4>2, AppendProperties, LenProperties
      <4> QED BY <3>4, <4>3
    <3> QED BY <1>1, <1>3, <3>1, <3>2, <3>3, <3>4 DEF Passed
  <2>4. CASE Wake \/ ServeFence \/ FencesDrained \/ Finish \/ EndServe
    <3>1. pc' # "forward" /\ taken' = taken /\ (pc = "forward" => left = {})
      BY <2>4 DEF Wake, ServeFence, FencesDrained, Finish, EndServe
    <3> QED BY <1>1, <1>3, <3>1 DEF Passed
  <2> QED BY <2>1, <2>2, <2>3, <2>4 DEF Main
<1>4. ASSUME NEW c, NEW i \in 1 .. Len(toHost[0]), toHost[0][i] = c
      PROVE  \E j \in 1 .. Len(toHost'[0]) : toHost'[0][j] = c
  <2>1. ASSUME NEW h \in Hosts, Forward(h)
        PROVE  \E j \in 1 .. Len(toHost'[0]) : toHost'[0][j] = c
    <3>1. toHost' = [toHost EXCEPT ![h] = Append(@, taken)]
      BY <2>1 DEF Forward
    <3>2. taken \in Cmds /\ toHost[0] \in Seq(Cmds)
      BY <1>1, <2>1, BoundsAssumption, LenProperties
      DEF Forward, Cmds, TypeOK, TypeLoop, TypeChannels
    <3>3. toHost'[0] = toHost[0] \/ toHost'[0] = Append(toHost[0], taken)
      BY <1>1, <3>1 DEF TypeOK, TypeChannels
    <3>4. CASE toHost'[0] = toHost[0]
      BY <1>4, <3>4
    <3>5. CASE toHost'[0] = Append(toHost[0], taken)
      <4>1. /\ Len(toHost'[0]) = Len(toHost[0]) + 1 /\ Len(toHost[0]) \in Nat
            /\ \A j \in 1 .. Len(toHost[0]) : toHost'[0][j] = toHost[0][j]
        BY <3>2, <3>5, AppendProperties, LenProperties
      <4>2. i \in 1 .. Len(toHost'[0]) /\ toHost'[0][i] = c
        BY <1>4, <4>1
      <4> QED BY <4>2
    <3> QED BY <3>3, <3>4, <3>5
  <2>2. CASE ~\E h \in Hosts : Forward(h)
    <3>1. toHost' = toHost
      BY <2>2 DEF Main, Wake, ServeFence, FencesDrained, TakeInsane, TakeSane,
         Finish, EndServe
    <3> QED BY <1>4, <3>1
  <2> QED BY <2>1, <2>2
<1>5. ASSUME NEW c \in 1 .. Len(cmds), cmds[c] = "read", DataAhead(c)
      PROVE  DataAhead(c)'
  <2>1. ASSUME NEW i \in 1 .. Len(fromHost[0]),
               fromHost[0][i] = DataMsg(c) /\ NoReport(c, i - 1)
        PROVE  DataAhead(c)'
    BY <1>1, <2>1 DEF DataAhead, NoReport, DataMsg
  <2> QED BY <1>3, <1>4, <1>5, <2>1 DEF DataAhead
<1> QED BY <1>1, <1>2, <1>5 DEF DataKept

\* Neither a report nor data of renderer 0 overtakes the data of a transfer.
LEMMA DataNext ==
  ASSUME TypeOK, TypeOK', InOrder, ReportsBacked, DataKept, [Next]_vars
  PROVE  DataKept'
<1> USE DEF guestVars, mainVars, requestVars, resourceVars, rendererVars
<1>1. 0 \in Hosts /\ Len(cmds) \in Nat
  BY NAssumption, LenProperties DEF Hosts, TypeOK, TypeLoop
<1>2. ASSUME UNCHANGED <<cmds, recv, landed, pipe>>,
             \A c \in 1 .. Len(cmds) : DataAhead(c) => DataAhead(c)'
      PROVE  DataKept'
  BY <1>2 DEF DataKept
<1>3. ASSUME UNCHANGED <<taken, pc, left, toHost, fromHost>>, NEW c, DataAhead(c)
      PROVE  DataAhead(c)'
  BY <1>3 DEF DataAhead, Passed, NoReport, DataMsg
<1>4. ASSUME NEW k \in Kinds, Submit(k)
      PROVE  DataKept'
  <2>1. /\ Len(cmds') = Len(cmds) + 1
        /\ \A c \in 1 .. Len(cmds) : cmds'[c] = cmds[c]
        /\ UNCHANGED <<taken, pc, left, toHost, fromHost, recv, landed, pipe>>
    BY <1>4, AppendProperties DEF Submit, TypeOK, TypeLoop
  <2>2. ASSUME NEW c \in 1 .. Len(cmds'), cmds'[c] = "read", c \notin landed'
        PROVE  /\ recv'[0] < c
               /\ \A i \in 1 .. Len(pipe') : pipe'[i] < c
               /\ DataAhead(c)'
    <3>1. CASE c \in 1 .. Len(cmds)
      BY <1>3, <2>1, <2>2, <3>1 DEF DataKept
    <3>2. CASE c = Len(cmds) + 1
      <4>1. c > Passed(0) /\ Passed(0) \in Int
        BY <1>1, <3>2 DEF Passed, TypeOK, TypeLoop
      <4>2. done[0] < c
        BY <1>1, <3>2, <4>1, NotReported
      <4>3. recv[0] < c /\ \A i \in 1 .. Len(pipe) : pipe[i] < c
        BY <1>1, <3>2, <4>2, MessagesTyped DEF ReportsBacked
      <4>4. DataAhead(c)
        BY <4>1 DEF DataAhead
      <4> QED BY <1>3, <2>1, <4>3, <4>4
    <3> QED BY <1>1, <2>1, <3>1, <3>2
  <2> QED BY <2>2 DEF DataKept
<1>5. CASE Notify
  BY <1>2, <1>3, <1>5 DEF Notify
<1>6. CASE Main
  BY <1>6, DataMain
<1>7. ASSUME NEW c \in 1 .. Len(cmds), DataAhead(c),
             UNCHANGED <<taken, pc, left, toHost>>,
             fromHost'[0] = Tail(fromHost[0]), fromHost[0] # <<>>,
             fromHost[0][1] # DataMsg(c)
      PROVE  DataAhead(c)'
  <2>1. CASE c > Passed(0) \/ \E i \in 1 .. Len(toHost[0]) : toHost[0][i] = c
    BY <1>7, <2>1 DEF DataAhead, Passed
  <2>2. ASSUME NEW i \in 1 .. Len(fromHost[0]),
               fromHost[0][i] = DataMsg(c) /\ NoReport(c, i - 1)
        PROVE  DataAhead(c)'
    <3>1. /\ Len(fromHost'[0]) = Len(fromHost[0]) - 1 /\ Len(fromHost[0]) \in Nat
          /\ \A j \in 1 .. Len(fromHost'[0]) : fromHost'[0][j] = fromHost[0][j + 1]
      BY <1>1, <1>7, MessagesTyped, HeadTailProperties
    <3>2. i - 1 \in 1 .. Len(fromHost'[0]) /\ fromHost'[0][i - 1] = DataMsg(c)
      BY <1>7, <2>2, <3>1
    <3>3. \A j \in 1 .. (i - 1) - 1 :
            fromHost'[0][j].type = "fence" => fromHost'[0][j].id < c
      <4>1. ASSUME NEW j \in 1 .. (i - 1) - 1
            PROVE  /\ j + 1 \in 1 .. i - 1
                   /\ fromHost'[0][j] = fromHost[0][j + 1]
        BY <3>1, <3>2
      <4> QED BY <2>2, <4>1 DEF NoReport
    <3> QED BY <3>2, <3>3 DEF DataAhead, NoReport, DataMsg
  <2> QED BY <1>7, <2>1, <2>2 DEF DataAhead
<1>8. ASSUME NEW c \in 1 .. Len(cmds), DataAhead(c),
             UNCHANGED <<taken, pc, left, toHost>>,
             fromHost'[0] = fromHost[0]
      PROVE  DataAhead(c)'
  BY <1>8 DEF DataAhead, Passed, NoReport, DataMsg
<1>9. ASSUME NEW h \in Hosts, ReceiveFence(h)
      PROVE  DataKept'
  <2>1. /\ UNCHANGED <<cmds, taken, pc, left, toHost, landed>>
        /\ fromHost[h] # <<>> /\ Head(fromHost[h]).type = "fence"
        /\ fromHost' = [fromHost EXCEPT ![h] = Tail(@)]
        /\ recv' = [recv EXCEPT ![h] = Head(fromHost[h]).id]
    BY <1>9 DEF ReceiveFence
  <2>2. Head(fromHost[h]) = fromHost[h][1] /\ 1 \in 1 .. Len(fromHost[h])
    BY <2>1, MessagesTyped, EmptySeq
  <2>3. ASSUME NEW c \in 1 .. Len(cmds), cmds[c] = "read", c \notin landed
        PROVE  /\ recv'[0] < c
               /\ \A i \in 1 .. Len(pipe') : pipe'[i] < c
               /\ DataAhead(c)'
    <3>1. recv[0] < c /\ (\A i \in 1 .. Len(pipe) : pipe[i] < c) /\ DataAhead(c)
      BY <2>3 DEF DataKept
    <3>2. recv'[0] < c
      <4>1. CASE h = 0
        <5>1. fromHost[0][1].type = "fence" /\ fromHost[0][1] # DataMsg(c)
          BY <2>1, <2>2, <4>1 DEF DataMsg
        <5>2. fromHost[0][1].id < c
          <6>1. CASE c > Passed(0) \/ \E i \in 1 .. Len(toHost[0]) : toHost[0][i] = c
            <7>1. NoReport(c, Len(fromHost[0]))
              BY <6>1, NotReported
            <7> QED BY <2>2, <4>1, <5>1, <7>1 DEF NoReport
          <6>2. ASSUME NEW i \in 1 .. Len(fromHost[0]),
                       fromHost[0][i] = DataMsg(c) /\ NoReport(c, i - 1)
                PROVE  fromHost[0][1].id < c
            <7>1. 1 \in 1 .. i - 1
              BY <5>1, <6>2
            <7> QED BY <5>1, <6>2, <7>1 DEF NoReport
          <6> QED BY <3>1, <6>1, <6>2 DEF DataAhead
        <5> QED BY <1>1, <2>1, <2>2, <4>1, <5>2 DEF TypeOK, TypeHosts
      <4>2. CASE h # 0
        BY <1>1, <2>1, <3>1, <4>2 DEF TypeOK, TypeHosts
      <4> QED BY <4>1, <4>2
    <3>3. ASSUME NEW i \in 1 .. Len(pipe')
          PROVE  pipe'[i] < c
      <4>1. PICK g \in Slowest(recv') : \/ pipe' = Append(pipe, recv'[g])
                                        \/ pipe' = pipe
        BY <1>9 DEF ReceiveFence
      <4>2. recv'[g] \in Nat /\ recv'[g] < c
        <5>1. g \in Hosts /\ recv'[g] <= recv'[0]
          BY <1>1 DEF Slowest
        <5>2. recv'[g] \in Nat /\ recv'[0] \in Nat
          BY <1>1, <5>1 DEF TypeOK, TypeHosts
        <5> QED BY <3>2, <5>1, <5>2
      <4>3. CASE pipe' = pipe
        BY <3>1, <3>3, <4>3
      <4>4. CASE pipe' = Append(pipe, recv'[g])
        BY <3>1, <3>3, <4>2, <4>4, MessagesTyped, AppendProperties
      <4> QED BY <4>1, <4>3, <4>4
    <3>4. DataAhead(c)'
      <4>1. CASE h = 0
        <5>1. fromHost'[0] = Tail(fromHost[0]) /\ fromHost[0][1] # DataMsg(c)
          BY <1>1, <2>1, <2>2, <4>1 DEF DataMsg, TypeOK, TypeChannels
        <5> QED BY <1>7, <2>1, <3>1, <4>1, <5>1
      <4>2. CASE h # 0
        <5>1. fromHost'[0] = fromHost[0]
          BY <1>1, <2>1, <4>2 DEF TypeOK, TypeChannels
        <5> QED BY <1>8, <2>1, <3>1, <5>1
      <4> QED BY <4>1, <4>2
    <3> QED BY <3>2, <3>3, <3>4
  <2> QED BY <2>1, <2>3 DEF DataKept
<1>10. ASSUME NEW h \in Hosts, ReceiveData(h)
       PROVE  DataKept'
  <2>1. /\ UNCHANGED <<cmds, taken, pc, left, toHost, recv, pipe>>
        /\ fromHost[h] # <<>> /\ fromHost' = [fromHost EXCEPT ![h] = Tail(@)]
        /\ landed' = landed \cup {Head(fromHost[h]).id}
    BY <1>10 DEF ReceiveData
  <2>2. Head(fromHost[h]) = fromHost[h][1]
    BY <2>1, MessagesTyped
  <2>3. ASSUME NEW c \in 1 .. Len(cmds), cmds[c] = "read", c \notin landed'
        PROVE  /\ recv'[0] < c
               /\ \A i \in 1 .. Len(pipe') : pipe'[i] < c
               /\ DataAhead(c)'
    <3>1. recv[0] < c /\ (\A i \in 1 .. Len(pipe) : pipe[i] < c) /\ DataAhead(c)
      BY <2>1, <2>3 DEF DataKept
    <3>2. CASE h = 0
      <4>1. fromHost'[0] = Tail(fromHost[0]) /\ fromHost[0][1] # DataMsg(c)
        BY <1>1, <2>1, <2>2, <2>3, <3>2 DEF DataMsg, TypeOK, TypeChannels
      <4> QED BY <1>7, <2>1, <3>1, <3>2, <4>1
    <3>3. CASE h # 0
      <4>1. fromHost'[0] = fromHost[0]
        BY <1>1, <2>1, <3>3 DEF TypeOK, TypeChannels
      <4> QED BY <1>8, <2>1, <3>1, <4>1
    <3> QED BY <3>2, <3>3
  <2> QED BY <2>1, <2>3 DEF DataKept
<1>11. ASSUME NEW h \in Hosts, NEW m \in Msg, NEW c \in 1 .. Len(cmds), DataAhead(c),
              UNCHANGED <<taken, pc, left>>,
              \/ fromHost' = fromHost
              \/ fromHost' = [fromHost EXCEPT ![h] = Append(@, m)],
              \/ toHost'[0] = toHost[0]
              \/ /\ h = 0 /\ toHost[0] # <<>> /\ toHost'[0] = Tail(toHost[0])
                 /\ toHost[0][1] = c => fromHost'[0] = Append(fromHost[0], DataMsg(c))
       PROVE  DataAhead(c)'
  <2>1. /\ Len(fromHost'[0]) \in Nat /\ Len(fromHost'[0]) >= Len(fromHost[0])
        /\ Len(fromHost[0]) \in Nat
        /\ \A i \in 1 .. Len(fromHost[0]) : fromHost'[0][i] = fromHost[0][i]
    <3>1. fromHost'[0] = fromHost[0] \/ fromHost'[0] = Append(fromHost[0], m)
      BY <1>1, <1>11 DEF TypeOK, TypeChannels
    <3>2. fromHost[0] \in Seq(Msg) /\ Len(fromHost[0]) \in Nat
      BY <1>1, MessagesTyped
    <3>3. CASE fromHost'[0] = fromHost[0]
      BY <3>2, <3>3
    <3>4. CASE fromHost'[0] = Append(fromHost[0], m)
      BY <3>2, <3>4, AppendProperties
    <3> QED BY <3>1, <3>3, <3>4
  <2>2. CASE c > Passed(0)
    BY <1>11, <2>2 DEF DataAhead, Passed
  <2>3. ASSUME NEW i \in 1 .. Len(toHost[0]), toHost[0][i] = c
        PROVE  DataAhead(c)'
    <3>1. CASE toHost'[0] = toHost[0]
      BY <2>3, <3>1 DEF DataAhead
    <3>2. CASE toHost[0] # <<>> /\ toHost'[0] = Tail(toHost[0]) /\ i # 1
      <4>1. i - 1 \in 1 .. Len(toHost'[0]) /\ toHost'[0][i - 1] = toHost[0][i]
        <5>1. toHost[0] \in Seq(Cmds)
          BY <1>1 DEF TypeOK, TypeChannels
        <5> QED BY <2>3, <3>2, <5>1, HeadTailProperties, LenProperties
      <4> QED BY <2>3, <4>1 DEF DataAhead
    <3>3. CASE i = 1 /\ fromHost'[0] = Append(fromHost[0], DataMsg(c))
      <4>1. NoReport(c, Len(fromHost[0]))
        BY <2>3, NotReported
      <4>2. DataMsg(c) \in Msg
        BY DEF DataMsg, Msg
      <4>3. /\ Len(fromHost'[0]) = Len(fromHost[0]) + 1
            /\ fromHost'[0][Len(fromHost[0]) + 1] = DataMsg(c)
        BY <1>1, <3>3, <4>2, MessagesTyped, AppendProperties
      <4>4. \A j \in 1 .. (Len(fromHost[0]) + 1) - 1 :
              fromHost'[0][j].type = "fence" => fromHost'[0][j].id < c
        BY <2>1, <4>1 DEF NoReport
      <4> QED BY <2>1, <4>3, <4>4 DEF DataAhead, NoReport, DataMsg
    <3> QED BY <1>11, <2>3, <3>1, <3>2, <3>3
  <2>4. ASSUME NEW i \in 1 .. Len(fromHost[0]),
               fromHost[0][i] = DataMsg(c) /\ NoReport(c, i - 1)
        PROVE  DataAhead(c)'
    <3>1. i \in 1 .. Len(fromHost'[0]) /\ fromHost'[0][i] = DataMsg(c)
      BY <2>1, <2>4
    <3>2. NoReport(c, i - 1)'
      <4>1. ASSUME NEW j \in 1 .. i - 1, fromHost'[0][j].type = "fence"
            PROVE  fromHost'[0][j].id < c
        <5>1. j \in 1 .. Len(fromHost[0]) /\ fromHost'[0][j] = fromHost[0][j]
          BY <2>1, <2>4
        <5> QED BY <2>4, <4>1, <5>1 DEF NoReport
      <4> QED BY <4>1 DEF NoReport
    <3> QED BY <3>1, <3>2 DEF DataAhead, DataMsg
  <2> QED BY <1>11, <2>2, <2>3, <2>4 DEF DataAhead
<1>12. ASSUME NEW h \in Hosts, Dispatch(h)
       PROVE  DataKept'
  <2> DEFINE d == Head(toHost[h])
  <2>1. /\ UNCHANGED <<cmds, taken, pc, left, recv, landed, pipe>>
        /\ toHost[h] # <<>> /\ toHost' = [toHost EXCEPT ![h] = Tail(@)]
        /\ fromHost' = IF cmds[d] = "read"
                       THEN [fromHost EXCEPT ![h] = Append(@, DataMsg(d))]
                       ELSE fromHost
    BY <1>12 DEF Dispatch
  <2>2. toHost[h] \in Seq(Cmds) /\ d = toHost[h][1] /\ DataMsg(d) \in Msg
    <3>1. toHost[h] \in Seq(Cmds)
      BY DEF TypeOK, TypeChannels
    <3>2. d \in Cmds /\ d = toHost[h][1]
      BY <2>1, <3>1, HeadTailProperties
    <3> QED BY <3>1, <3>2 DEF Cmds, DataMsg, Msg
  <2> HIDE DEF d
  <2>3. ASSUME NEW c \in 1 .. Len(cmds), cmds[c] = "read", DataAhead(c)
        PROVE  DataAhead(c)'
    <3>1. \/ toHost'[0] = toHost[0]
          \/ /\ h = 0 /\ toHost[0] # <<>> /\ toHost'[0] = Tail(toHost[0])
             /\ toHost[0][1] = c => fromHost'[0] = Append(fromHost[0], DataMsg(c))
      BY <1>1, <2>1, <2>2, <2>3 DEF TypeOK, TypeChannels
    <3> QED BY <1>11, <2>1, <2>2, <2>3, <3>1
  <2> QED BY <2>1, <2>3 DEF DataKept
<1>13. ASSUME NEW h \in Hosts, Retire(h)
       PROVE  DataKept'
  <2>1. PICK f \in made[h] :
          fromHost' = [fromHost EXCEPT ![h] = Append(@, FenceMsg(f))]
    BY <1>13 DEF Retire
  <2>2. FenceMsg(f) \in Msg
    BY WireBound DEF FenceMsg, Msg, TypeOK, TypeHosts, Cmds
  <2>3. UNCHANGED <<cmds, taken, pc, left, toHost, recv, landed, pipe>>
    BY <1>13 DEF Retire
  <2> QED BY <1>2, <1>11, <2>1, <2>2, <2>3
<1>14. CASE UNCHANGED vars
  BY <1>2, <1>3, <1>14 DEF vars
<1> QED
  BY <1>4, <1>5, <1>6, <1>9, <1>10, <1>12, <1>13, <1>14 DEF Next

\* A transfer is answered because of an id in fence_pipe, and that id is behind
\* its data.
LEMMA DataAnswered ==
  ASSUME IInv, DataKept, DataBeforeAnswer, [Next]_vars, landed \subseteq landed'
  PROVE  DataBeforeAnswer'
<1> USE DEF IInv
<1>1. SUFFICES ASSUME NEW c \in Answered', cmds'[c] = "read"
               PROVE  c \in landed'
  BY DEF DataBeforeAnswer
<1>2. CASE c \in Answered
  <2>1. c \in 1 .. Len(cmds)
    BY <1>2, LenProperties DEF AnsweredTaken, Answered, Cmds, TypeOK, TypeLoop
  <2> QED BY <1>1, <1>2, <2>1, CmdsGrow DEF DataBeforeAnswer
<1>3. CASE c \notin Answered
  <2>1. Covered(c) /\ UNCHANGED cmds
    BY <1>3, AnswerStep
  <2>2. c \in 1 .. Len(cmds) /\ pipe # <<>> /\ c <= Head(pipe)
    BY <1>1, <2>1, LenProperties DEF Covered, Fenced, Cmds, TypeOK, TypeLoop
  <2>3. Head(pipe) = pipe[1] /\ 1 \in 1 .. Len(pipe) /\ pipe[1] \in Nat
    BY <2>2, MessagesTyped, EmptySeq
  <2> QED BY <1>1, <2>1, <2>2, <2>3 DEF DataKept
<1> QED BY <1>2, <1>3

\* The resource thread never takes back what it copied.
LEMMA LandedGrows ==
  ASSUME [Next]_vars
  PROVE  landed \subseteq landed'
<1> USE DEF guestVars, mainVars, requestVars, resourceVars, rendererVars
<1>1. CASE Notify \/ \E k \in Kinds : Submit(k)
  BY <1>1 DEF Notify, Submit
<1>2. CASE Main
  BY <1>2 DEF Main, Wake, ServeFence, FencesDrained, TakeInsane, TakeSane,
     Forward, Finish, EndServe
<1>3. ASSUME NEW h \in Hosts,
             ReceiveFence(h) \/ ReceiveData(h) \/ Dispatch(h) \/ Retire(h)
      PROVE  landed \subseteq landed'
  BY <1>3 DEF ReceiveFence, ReceiveData, Dispatch, Retire
<1>4. CASE UNCHANGED vars
  BY <1>4 DEF vars
<1> QED BY <1>1, <1>2, <1>3, <1>4 DEF Next

(***************************************************************************)
(* The length of fence_pipe.                                               *)
(***************************************************************************)

\* Each report of a renderer on its way to the main loop stands for a fence of
\* that renderer, "of" for those on the socket and "own" for those in
\* fence_pipe, whose request still waits: reports of one renderer stand for
\* different requests, and what is ahead of a report never answers its request.
PipeOwned(own, of) ==
  /\ \A h \in Hosts : \A k \in 1 .. Len(fromHost[h]) :
       fromHost[h][k].type = "fence" =>
         /\ of[h][k] \in async /\ fromHost[h][k].id <= of[h][k]
         /\ recv[h] < of[h][k] /\ of[h][k] <= done[h]
         /\ \A j \in 1 .. k - 1 :
              fromHost[h][j].type = "fence" => of[h][j] < of[h][k]
         /\ \A i \in 1 .. Len(pipe) :
              /\ pipe[i] < of[h][k]
              /\ own[i][1] = h => own[i][2] < of[h][k]
  /\ \A i \in 1 .. Len(pipe) :
       /\ own[i][2] \in async /\ own[i][2] <= done[own[i][1]]
       /\ \A j \in 1 .. i - 1 : own[j] # own[i] /\ pipe[j] < own[i][2]

Owners(own, of) ==
  /\ own \in Seq(Hosts \X Cmds) /\ Len(own) = Len(pipe)
  /\ of \in [Hosts -> Seq(Cmds)]
  /\ \A h \in Hosts : Len(of[h]) = Len(fromHost[h])

PipeKept == \E own, of : Owners(own, of) /\ PipeOwned(own, of)

\* A fence that has not retired belongs to a request that waits for it.
LEMMA MadeWaits ==
  ASSUME IInv, LifeKept, NEW h \in Hosts, NEW f \in made[h]
  PROVE  f \in async /\ f \in Cmds /\ done[h] < f
<1>1. f \in Cmds /\ Fenced(f) /\ done[h] < f /\ f <= Passed(h)
  BY DEF IInv, InOrder, TypeOK, TypeHosts
<1>2. f <= taken
  BY <1>1 DEF Passed, Cmds, IInv, TypeOK, TypeLoop
<1>3. answers[f] = 0
  <2>1. f \notin Answered
    BY <1>1 DEF IInv, AnswerAfterAllHosts, Cmds, TypeOK, TypeHosts
  <2> QED BY <1>1, <2>1 DEF Answered, IInv, TypeOK, TypeRequests
<1> QED BY <1>1, <1>2, <1>3 DEF LifeKept

\* The owners typed.
LEMMA OwnersTyped ==
  ASSUME TypeOK, NEW own, NEW of, Owners(own, of)
  PROVE  /\ \A i \in 1 .. Len(pipe) : own[i] \in Hosts \X Cmds
         /\ \A h \in Hosts : \A k \in 1 .. Len(fromHost[h]) : of[h][k] \in Nat
<1>1. \A i \in 1 .. Len(pipe) : own[i] \in Hosts \X Cmds
  BY ElementOfSeq DEF Owners
<1>2. ASSUME NEW h \in Hosts, NEW k \in 1 .. Len(fromHost[h])
      PROVE  of[h][k] \in Nat
  <2>1. of[h] \in Seq(Cmds) /\ Len(of[h]) = Len(fromHost[h])
    BY DEF Owners
  <2>2. of[h][k] \in Cmds
    BY <2>1, ElementOfSeq
  <2> QED BY <2>2 DEF Cmds
<1> QED BY <1>1, <1>2

\* Steps that leave the reports alone and answer nothing.
LEMMA PipeFrame ==
  ASSUME PipeKept, UNCHANGED <<fromHost, pipe, recv, done>>, async \subseteq async'
  PROVE  PipeKept'
<1>1. PICK own, of : Owners(own, of) /\ PipeOwned(own, of)
  BY DEF PipeKept
<1>2. Owners(own, of)'
  BY <1>1 DEF Owners
<1>3. PipeOwned(own, of)'
  BY <1>1 DEF PipeOwned
<1> QED BY <1>2, <1>3 DEF PipeKept

\* Taking the head of fence_pipe answers no request another report stands for.
LEMMA PipeServe ==
  ASSUME TypeOK, PipeKept, ServeFence
  PROVE  PipeKept'
<1> USE DEF guestVars, mainVars, requestVars, resourceVars, rendererVars
<1>1. PICK own, of : Owners(own, of) /\ PipeOwned(own, of)
  BY DEF PipeKept
<1>2. /\ pipe # <<>> /\ pipe' = Tail(pipe) /\ Head(pipe) = pipe[1]
      /\ async' = {c \in async : ~(c <= pipe[1])}
      /\ UNCHANGED <<fromHost, recv, done>>
  BY DEF ServeFence, Reached
<1>3. /\ Len(pipe') = Len(pipe) - 1 /\ 1 \in 1 .. Len(pipe) /\ pipe[1] \in Nat
      /\ Len(pipe) \in Nat
      /\ \A i \in 1 .. Len(pipe') : pipe'[i] = pipe[i + 1] /\ i + 1 \in 1 .. Len(pipe)
  BY <1>2, MessagesTyped, HeadTailProperties, EmptySeq
<1>4. own \in Seq(Hosts \X Cmds) /\ Len(own) = Len(pipe) /\ own # <<>>
  BY <1>1, <1>3, EmptySeq DEF Owners
<1>5. /\ Tail(own) \in Seq(Hosts \X Cmds) /\ Len(Tail(own)) = Len(pipe')
      /\ \A i \in 1 .. Len(pipe') : Tail(own)[i] = own[i + 1]
  BY <1>3, <1>4, HeadTailProperties
<1>6. Owners(Tail(own), of)'
  BY <1>1, <1>2, <1>5 DEF Owners
<1>7. ASSUME NEW h \in Hosts, NEW k \in 1 .. Len(fromHost'[h]),
             fromHost'[h][k].type = "fence"
      PROVE  /\ of[h][k] \in async' /\ fromHost'[h][k].id <= of[h][k]
             /\ recv'[h] < of[h][k] /\ of[h][k] <= done'[h]
             /\ \A j \in 1 .. k - 1 :
                  fromHost'[h][j].type = "fence" => of[h][j] < of[h][k]
             /\ \A i \in 1 .. Len(pipe') :
                  /\ pipe'[i] < of[h][k]
                  /\ Tail(own)[i][1] = h => Tail(own)[i][2] < of[h][k]
  <2>1. pipe[1] < of[h][k] /\ of[h][k] \in async /\ of[h][k] \in Nat
    BY <1>1, <1>2, <1>3, <1>7, OwnersTyped DEF PipeOwned
  <2>2. of[h][k] \in async'
    BY <1>2, <1>3, <2>1
  <2>3. ASSUME NEW i \in 1 .. Len(pipe')
        PROVE  /\ pipe'[i] < of[h][k]
               /\ Tail(own)[i][1] = h => Tail(own)[i][2] < of[h][k]
    BY <1>1, <1>2, <1>3, <1>5, <1>7 DEF PipeOwned
  <2> QED BY <1>1, <1>2, <1>7, <2>2, <2>3 DEF PipeOwned
<1>8. ASSUME NEW i \in 1 .. Len(pipe')
      PROVE  /\ Tail(own)[i][2] \in async' /\ Tail(own)[i][2] <= done'[Tail(own)[i][1]]
             /\ \A j \in 1 .. i - 1 :
                  Tail(own)[j] # Tail(own)[i] /\ pipe'[j] < Tail(own)[i][2]
  <2>1. Tail(own)[i] = own[i + 1] /\ i + 1 \in 1 .. Len(pipe) /\ 1 \in 1 .. (i + 1) - 1
    BY <1>3, <1>5
  <2>2. own[i + 1][2] \in async /\ own[i + 1][2] <= done[own[i + 1][1]] /\ pipe[1] < own[i + 1][2]
    BY <1>1, <2>1 DEF PipeOwned
  <2>3. own[i + 1][2] \in Nat
    BY <1>1, <2>1, OwnersTyped DEF Cmds
  <2>4. Tail(own)[i][2] \in async'
    <3>1. own[i + 1][2] \in async'
      BY <1>2, <1>3, <2>2, <2>3
    <3> QED BY <2>1, <3>1
  <2>5. ASSUME NEW j \in 1 .. i - 1
        PROVE  Tail(own)[j] # Tail(own)[i] /\ pipe'[j] < Tail(own)[i][2]
    <3>1. /\ j + 1 \in 1 .. (i + 1) - 1 /\ Tail(own)[j] = own[j + 1]
          /\ pipe'[j] = pipe[j + 1]
      <4>1. j \in 1 .. Len(pipe') /\ j + 1 \in 1 .. (i + 1) - 1
        BY <1>3
      <4> QED BY <1>3, <1>5, <4>1
    <3> QED BY <1>1, <2>1, <3>1 DEF PipeOwned
  <2> QED BY <1>2, <2>1, <2>2, <2>4, <2>5
<1>9. PipeOwned(Tail(own), of)'
  BY <1>7, <1>8 DEF PipeOwned
<1> QED BY <1>6, <1>9 DEF PipeKept

\* A renderer sends a message: the fence it reports is newer than all before.
LEMMA PipeExtend ==
  ASSUME TypeOK, ReportsBacked, PipeKept, UNCHANGED <<async, recv, pipe>>,
         NEW h \in Hosts, NEW m \in Msg, NEW f \in Cmds,
         fromHost' = [fromHost EXCEPT ![h] = Append(@, m)],
         \A g \in Hosts : done'[g] \in Nat /\ done[g] <= done'[g],
         m.type = "fence" => /\ m.id <= f /\ f \in async
                             /\ done[h] < f /\ f <= done'[h]
  PROVE  PipeKept'
<1>1. PICK own, of : Owners(own, of) /\ PipeOwned(own, of)
  BY DEF PipeKept
<1> DEFINE new == [of EXCEPT ![h] = Append(@, f)]
<1>2. of \in [Hosts -> Seq(Cmds)] /\ \A g \in Hosts : Len(of[g]) = Len(fromHost[g])
  BY <1>1 DEF Owners
<1>3. /\ fromHost'[h] = Append(fromHost[h], m) /\ new[h] = Append(of[h], f)
      /\ \A g \in Hosts : g # h => fromHost'[g] = fromHost[g] /\ new[g] = of[g]
      /\ new \in [Hosts -> Seq(Cmds)]
  <2>1. Append(of[h], f) \in Seq(Cmds)
    BY <1>2, AppendProperties
  <2> QED BY <1>2, <2>1 DEF TypeOK, TypeChannels
<1>4. /\ Len(fromHost'[h]) = Len(fromHost[h]) + 1 /\ Len(new[h]) = Len(fromHost[h]) + 1
      /\ fromHost'[h][Len(fromHost[h]) + 1] = m /\ new[h][Len(fromHost[h]) + 1] = f
      /\ \A k \in 1 .. Len(fromHost[h]) : /\ fromHost'[h][k] = fromHost[h][k]
                                          /\ new[h][k] = of[h][k]
  <2>1. fromHost[h] \in Seq(Msg) /\ of[h] \in Seq(Cmds) /\ Len(of[h]) = Len(fromHost[h])
    BY <1>2, MessagesTyped
  <2> QED BY <1>3, <2>1, AppendProperties
<1> HIDE DEF new
<1>5. Owners(own, new)'
  BY <1>1, <1>2, <1>3, <1>4 DEF Owners
<1>6. \A g \in Hosts : /\ Len(fromHost[g]) \in Nat /\ recv[g] \in Nat /\ done[g] \in Nat
                       /\ recv[g] <= done[g]
                       /\ \A i \in 1 .. Len(pipe) : pipe[i] \in Nat /\ pipe[i] <= done[g]
  BY MessagesTyped DEF ReportsBacked
<1>7. ASSUME NEW g \in Hosts, NEW k \in 1 .. Len(fromHost[g]),
             fromHost'[g][k].type = "fence"
      PROVE  /\ new[g][k] \in async' /\ fromHost'[g][k].id <= new[g][k]
             /\ recv'[g] < new[g][k] /\ new[g][k] <= done'[g]
             /\ \A j \in 1 .. k - 1 :
                  fromHost'[g][j].type = "fence" => new[g][j] < new[g][k]
             /\ \A i \in 1 .. Len(pipe') :
                  /\ pipe'[i] < new[g][k]
                  /\ own[i][1] = g => own[i][2] < new[g][k]
  <2>1. fromHost'[g][k] = fromHost[g][k] /\ new[g][k] = of[g][k]
    BY <1>3, <1>4
  <2>2. ASSUME NEW j \in 1 .. k - 1
        PROVE  fromHost'[g][j] = fromHost[g][j] /\ new[g][j] = of[g][j]
    <3>1. j \in 1 .. Len(fromHost[g])
      BY <1>6
    <3> QED BY <1>3, <1>4, <3>1
  <2>3. of[g][k] \in Nat /\ of[g][k] <= done[g]
    BY <1>1, <1>7, <2>1, OwnersTyped DEF PipeOwned
  <2>4. of[g][k] <= done'[g]
    BY <1>6, <2>3
  <2> QED BY <1>1, <1>7, <2>1, <2>2, <2>4 DEF PipeOwned
<1>8. ASSUME NEW k, k = Len(fromHost[h]) + 1, m.type = "fence"
      PROVE  /\ new[h][k] \in async' /\ fromHost'[h][k].id <= new[h][k]
             /\ recv'[h] < new[h][k] /\ new[h][k] <= done'[h]
             /\ \A j \in 1 .. k - 1 :
                  fromHost'[h][j].type = "fence" => new[h][j] < new[h][k]
             /\ \A i \in 1 .. Len(pipe') :
                  /\ pipe'[i] < new[h][k]
                  /\ own[i][1] = h => own[i][2] < new[h][k]
  <2>1. fromHost'[h][k] = m /\ new[h][k] = f /\ f \in Nat
    BY <1>4, <1>8 DEF Cmds
  <2>2. recv[h] < f /\ \A i \in 1 .. Len(pipe) : pipe[i] < f
    BY <1>6, <1>8, <2>1
  <2>3. ASSUME NEW j \in 1 .. k - 1, fromHost'[h][j].type = "fence"
        PROVE  new[h][j] < f
    <3>1. /\ j \in 1 .. Len(fromHost[h]) /\ fromHost'[h][j] = fromHost[h][j]
          /\ new[h][j] = of[h][j]
      BY <1>4, <1>6, <1>8
    <3>2. of[h][j] <= done[h] /\ of[h][j] \in Nat
      BY <1>1, <2>3, <3>1, OwnersTyped DEF PipeOwned
    <3> QED BY <1>6, <1>8, <2>1, <3>1, <3>2
  <2>4. ASSUME NEW i \in 1 .. Len(pipe), own[i][1] = h
        PROVE  own[i][2] < f
    <3>1. own[i][2] <= done[h] /\ own[i][2] \in Nat
      BY <1>1, <2>4, OwnersTyped DEF PipeOwned, Cmds
    <3> QED BY <1>6, <1>8, <2>1, <3>1
  <2> QED BY <1>8, <2>1, <2>2, <2>3, <2>4
<1>9. ASSUME NEW g \in Hosts, NEW k \in 1 .. Len(fromHost'[g])
      PROVE  k \in 1 .. Len(fromHost[g]) \/ (g = h /\ k = Len(fromHost[h]) + 1)
  BY <1>3, <1>4, <1>6
<1>10. ASSUME NEW i \in 1 .. Len(pipe')
       PROVE  /\ own[i][2] \in async' /\ own[i][2] <= done'[own[i][1]]
              /\ \A j \in 1 .. i - 1 : own[j] # own[i] /\ pipe'[j] < own[i][2]
  <2>1. own[i][1] \in Hosts /\ own[i][2] \in Nat /\ own[i][2] <= done[own[i][1]]
    BY <1>1, OwnersTyped DEF PipeOwned, Cmds
  <2>2. own[i][2] <= done'[own[i][1]]
    BY <1>6, <2>1
  <2> QED BY <1>1, <2>2 DEF PipeOwned
<1>11. PipeOwned(own, new)'
  BY <1>4, <1>7, <1>8, <1>9, <1>10 DEF PipeOwned
<1> QED BY <1>5, <1>11 DEF PipeKept

\* The resource thread takes a message off a socket and may write to fence_pipe
\* what no request of the reports still on a socket is covered by.
LEMMA PipeReceive ==
  ASSUME TypeOK, PipeKept, UNCHANGED <<async, done>>,
         NEW h \in Hosts, fromHost[h] # <<>>,
         fromHost' = [fromHost EXCEPT ![h] = Tail(@)],
         NEW id \in Nat,
         \/ UNCHANGED <<recv, pipe>>
         \/ /\ fromHost[h][1].type = "fence"
            /\ recv' = [recv EXCEPT ![h] = fromHost[h][1].id]
            /\ \A g \in Hosts : id <= recv'[g]
            /\ pipe' = pipe \/ pipe' = Append(pipe, id)
  PROVE  PipeKept'
<1>1. PICK own, of : Owners(own, of) /\ PipeOwned(own, of)
  BY DEF PipeKept
<1> DEFINE rest == [of EXCEPT ![h] = Tail(@)]
           add == Append(own, <<h, of[h][1]>>)
           src(g, k) == IF g = h THEN k + 1 ELSE k
<1>2. /\ of \in [Hosts -> Seq(Cmds)] /\ \A g \in Hosts : Len(of[g]) = Len(fromHost[g])
      /\ own \in Seq(Hosts \X Cmds) /\ Len(own) = Len(pipe)
  BY <1>1 DEF Owners
<1>3. \A g \in Hosts : /\ Len(fromHost[g]) \in Nat /\ recv[g] \in Nat /\ done[g] \in Nat
  BY MessagesTyped
<1>4. /\ fromHost'[h] = Tail(fromHost[h]) /\ 1 \in 1 .. Len(fromHost[h])
      /\ \A g \in Hosts : g # h => fromHost'[g] = fromHost[g]
      /\ Len(Tail(fromHost[h])) = Len(fromHost[h]) - 1
      /\ \A k \in 1 .. Len(Tail(fromHost[h])) : Tail(fromHost[h])[k] = fromHost[h][k + 1]
  BY MessagesTyped, HeadTailProperties, EmptySeq DEF TypeOK, TypeChannels
<1>5. /\ Tail(of[h]) \in Seq(Cmds) /\ Len(Tail(of[h])) = Len(fromHost[h]) - 1
      /\ \A k \in 1 .. Len(Tail(of[h])) : Tail(of[h])[k] = of[h][k + 1]
      /\ of[h][1] \in Cmds
  <2>1. of[h] \in Seq(Cmds) /\ of[h] # <<>> /\ Len(of[h]) = Len(fromHost[h])
    BY <1>2, <1>4, EmptySeq
  <2> QED BY <1>4, <2>1, HeadTailProperties, ElementOfSeq
<1>6. /\ rest \in [Hosts -> Seq(Cmds)] /\ rest[h] = Tail(of[h])
      /\ \A g \in Hosts : g # h => rest[g] = of[g]
  BY <1>2, <1>5
<1>7. /\ \A g \in Hosts : Len(rest[g]) = Len(fromHost'[g]) /\ Len(fromHost'[g]) \in Nat
      /\ \A g \in Hosts : \A k \in 1 .. Len(fromHost'[g]) :
           /\ src(g, k) \in 1 .. Len(fromHost[g])
           /\ fromHost'[g][k] = fromHost[g][src(g, k)] /\ rest[g][k] = of[g][src(g, k)]
  <2>1. ASSUME NEW g \in Hosts
        PROVE  Len(rest[g]) = Len(fromHost'[g]) /\ Len(fromHost'[g]) \in Nat
    <3>1. CASE g = h
      <4>1. /\ Len(rest[h]) = Len(fromHost[h]) - 1
            /\ Len(fromHost'[h]) = Len(fromHost[h]) - 1
        BY <1>4, <1>5, <1>6
      <4> QED BY <1>3, <1>4, <3>1, <4>1
    <3>2. CASE g # h
      BY <1>2, <1>3, <1>4, <1>6, <3>2
    <3> QED BY <3>1, <3>2
  <2>2. ASSUME NEW g \in Hosts, NEW k \in 1 .. Len(fromHost'[g])
        PROVE  /\ src(g, k) \in 1 .. Len(fromHost[g])
               /\ fromHost'[g][k] = fromHost[g][src(g, k)]
               /\ rest[g][k] = of[g][src(g, k)]
    <3>1. CASE g = h
      <4>1. k \in 1 .. Len(Tail(fromHost[h])) /\ k \in 1 .. Len(Tail(of[h]))
        BY <1>4, <1>5, <2>2, <3>1
      <4>2. fromHost'[h][k] = fromHost[h][k + 1] /\ rest[h][k] = of[h][k + 1]
        BY <1>4, <1>5, <1>6, <4>1
      <4>3. k + 1 \in 1 .. Len(fromHost[h])
        BY <1>3, <1>4, <4>1
      <4> QED BY <3>1, <4>2, <4>3
    <3>2. CASE g # h
      BY <1>4, <1>6, <2>2, <3>2
    <3> QED BY <3>1, <3>2
  <2> QED BY <2>1, <2>2
<1>8. \A g \in Hosts : \A k \in 1 .. Len(fromHost'[g]) : \A j \in 1 .. k - 1 :
        /\ j \in 1 .. Len(fromHost'[g]) /\ src(g, j) \in 1 .. src(g, k) - 1
        /\ g = h => 1 \in 1 .. src(g, k) - 1
  BY <1>7
<1>9. \A k \in 1 .. Len(fromHost'[h]) : 1 \in 1 .. src(h, k) - 1
  BY <1>7
<1> HIDE DEF rest, src
<1>10. ASSUME NEW g \in Hosts, NEW k \in 1 .. Len(fromHost'[g]),
              fromHost'[g][k].type = "fence"
       PROVE  /\ rest[g][k] \in async' /\ fromHost'[g][k].id <= rest[g][k]
              /\ recv'[g] < rest[g][k] /\ rest[g][k] <= done'[g]
              /\ rest[g][k] \in Nat
              /\ \A j \in 1 .. k - 1 :
                   fromHost'[g][j].type = "fence" => rest[g][j] < rest[g][k]
              /\ \A i \in 1 .. Len(pipe) :
                   /\ pipe[i] < rest[g][k]
                   /\ own[i][1] = g => own[i][2] < rest[g][k]
              /\ fromHost[h][1].type = "fence" /\ g = h => of[h][1] < rest[g][k]
  <2>1. /\ src(g, k) \in 1 .. Len(fromHost[g])
        /\ fromHost'[g][k] = fromHost[g][src(g, k)] /\ rest[g][k] = of[g][src(g, k)]
    BY <1>7
  <2>2. /\ of[g][src(g, k)] \in async /\ fromHost[g][src(g, k)].id <= of[g][src(g, k)]
        /\ recv[g] < of[g][src(g, k)] /\ of[g][src(g, k)] <= done[g]
        /\ \A j \in 1 .. src(g, k) - 1 :
             fromHost[g][j].type = "fence" => of[g][j] < of[g][src(g, k)]
        /\ \A i \in 1 .. Len(pipe) :
             /\ pipe[i] < of[g][src(g, k)]
             /\ own[i][1] = g => own[i][2] < of[g][src(g, k)]
    BY <1>1, <1>10, <2>1 DEF PipeOwned
  <2>3. rest[g][k] \in Nat
    BY <1>1, <2>1, OwnersTyped
  <2>4. ASSUME NEW j \in 1 .. k - 1, fromHost'[g][j].type = "fence"
        PROVE  rest[g][j] < rest[g][k]
    <3>1. j \in 1 .. Len(fromHost'[g]) /\ src(g, j) \in 1 .. src(g, k) - 1
      BY <1>8
    <3>2. fromHost'[g][j] = fromHost[g][src(g, j)] /\ rest[g][j] = of[g][src(g, j)]
      BY <1>7, <3>1
    <3> QED BY <2>1, <2>2, <2>4, <3>1, <3>2
  <2>5. fromHost[h][1].type = "fence" /\ g = h => of[h][1] < rest[g][k]
    BY <1>9, <2>1, <2>2
  <2>6. recv'[g] < rest[g][k]
    <3>1. CASE recv' = recv \/ g # h
      BY <2>1, <2>2, <3>1 DEF TypeOK, TypeHosts
    <3>2. CASE g = h /\ fromHost[h][1].type = "fence" /\ recv'[h] = fromHost[h][1].id
      <4>1. fromHost[h][1].id <= of[h][1] /\ of[h][1] \in Nat /\ fromHost[h][1].id \in Nat
        BY <1>1, <1>4, <3>2, MessagesTyped, OwnersTyped DEF PipeOwned
      <4> QED BY <2>3, <2>5, <3>2, <4>1
    <3> QED BY <3>1, <3>2 DEF TypeOK, TypeHosts
  <2> QED BY <2>1, <2>2, <2>3, <2>4, <2>5, <2>6
<1>11. CASE pipe' = pipe
  <2>1. Owners(own, rest)'
    BY <1>2, <1>6, <1>7, <1>11 DEF Owners
  <2>2. PipeOwned(own, rest)'
    BY <1>1, <1>10, <1>11 DEF PipeOwned
  <2> QED BY <2>1, <2>2 DEF PipeKept
<1>12. CASE /\ pipe' = Append(pipe, id) /\ \A g \in Hosts : id <= recv'[g]
            /\ fromHost[h][1].type = "fence"
            /\ recv' = [recv EXCEPT ![h] = fromHost[h][1].id]
  <2> DEFINE f == of[h][1]
             n == Len(pipe)
  <2>1. /\ pipe \in Seq(Nat) /\ n \in Nat /\ Len(pipe') = n + 1 /\ pipe'[n + 1] = id
        /\ \A i \in 1 .. n : pipe'[i] = pipe[i] /\ pipe[i] \in Nat
    BY <1>12, MessagesTyped, AppendProperties
  <2>2. /\ add \in Seq(Hosts \X Cmds) /\ Len(add) = n + 1 /\ add[n + 1] = <<h, f>>
        /\ \A i \in 1 .. n : add[i] = own[i]
    BY <1>2, <1>5, AppendProperties
  <2> HIDE DEF add
  <2>3. Owners(add, rest)'
    BY <1>6, <1>7, <2>1, <2>2 DEF Owners
  <2>4. /\ f \in async /\ f <= done[h] /\ f \in Nat
        /\ \A i \in 1 .. n : pipe[i] < f /\ (own[i][1] = h => own[i][2] < f)
    BY <1>1, <1>4, <1>12, OwnersTyped DEF PipeOwned
  <2>5. ASSUME NEW g \in Hosts, NEW k \in 1 .. Len(fromHost'[g]),
               fromHost'[g][k].type = "fence", NEW i \in 1 .. Len(pipe')
        PROVE  pipe'[i] < rest[g][k] /\ (add[i][1] = g => add[i][2] < rest[g][k])
    <3>1. CASE i \in 1 .. n
      <4>1. add[i] = own[i] /\ pipe'[i] = pipe[i]
        BY <2>1, <2>2, <3>1
      <4> QED BY <1>10, <2>5, <3>1, <4>1
    <3>2. CASE i = n + 1
      <4>1. recv'[g] \in Nat
        BY <1>12, <1>4, MessagesTyped DEF TypeOK, TypeHosts
      <4>2. id < rest[g][k]
        BY <1>10, <1>12, <2>5, <4>1
      <4>3. pipe'[i] = id /\ add[i] = <<h, f>>
        BY <2>1, <2>2, <3>2
      <4>4. h = g => f < rest[g][k]
        BY <1>10, <1>12, <2>5
      <4> QED BY <4>2, <4>3, <4>4
    <3> QED BY <2>1, <3>1, <3>2
  <2>6. ASSUME NEW i \in 1 .. Len(pipe')
        PROVE  /\ add[i][2] \in async' /\ add[i][2] <= done'[add[i][1]]
               /\ \A j \in 1 .. i - 1 : add[j] # add[i] /\ pipe'[j] < add[i][2]
    <3>1. CASE i \in 1 .. n
      <4>1. ASSUME NEW j \in 1 .. i - 1
            PROVE  add[j] = own[j] /\ pipe'[j] = pipe[j]
        <5>1. j \in 1 .. n
          BY <2>1, <3>1
        <5> QED BY <2>1, <2>2, <5>1
      <4> QED BY <1>1, <2>2, <3>1, <4>1 DEF PipeOwned
    <3>2. CASE i = n + 1
      <4>1. ASSUME NEW j \in 1 .. n
            PROVE  own[j] # <<h, f>> /\ pipe[j] < f
        <5>1. own[j] = <<h, f>> => f < f
          BY <2>4
        <5> QED BY <2>4, <5>1
      <4>2. \A j \in 1 .. i - 1 : j \in 1 .. n
        BY <2>1, <3>2
      <4>3. ASSUME NEW j \in 1 .. i - 1
            PROVE  add[j] # add[i] /\ pipe'[j] < add[i][2]
        <5>1. /\ add[j] = own[j] /\ pipe'[j] = pipe[j] /\ add[i] = <<h, f>>
              /\ own[j] # <<h, f>> /\ pipe[j] < f
          BY <2>1, <2>2, <3>2, <4>1, <4>2
        <5> QED BY <5>1
      <4> QED BY <2>2, <2>4, <3>2, <4>3
    <3> QED BY <2>1, <3>1, <3>2
  <2>7. PipeOwned(add, rest)'
    BY <1>10, <2>5, <2>6 DEF PipeOwned
  <2> QED BY <2>3, <2>7 DEF PipeKept
<1> QED BY <1>11, <1>12

\* Every step finds owners for the reports it leaves on the way.
LEMMA PipeNext ==
  ASSUME IInv, IInv', LifeKept, PipeKept, [Next]_vars
  PROVE  PipeKept'
<1> USE DEF IInv
<1> USE DEF guestVars, mainVars, requestVars, resourceVars, rendererVars
<1>1. \A g \in Hosts : done[g] \in Nat /\ done'[g] \in Nat /\ done[g] <= done'[g]
  BY DoneGrows DEF TypeOK, TypeHosts
<1>2. CASE Notify \/ \E k \in Kinds : Submit(k)
  <2>1. UNCHANGED <<fromHost, pipe, recv, done, async>>
    BY <1>2 DEF Notify, Submit
  <2> QED BY <2>1, PipeFrame
<1>3. CASE ServeFence
  BY <1>3, PipeServe
<1>4. CASE Main /\ ~ServeFence
  <2>1. UNCHANGED <<fromHost, pipe, recv, done>> /\ async \subseteq async'
    BY <1>4 DEF Main, Wake, FencesDrained, TakeInsane, TakeSane, Forward, Finish,
       EndServe
  <2> QED BY <2>1, PipeFrame
<1>5. ASSUME NEW h \in Hosts, ReceiveFence(h)
      PROVE  PipeKept'
  <2>1. /\ UNCHANGED <<async, done>>
        /\ fromHost[h] # <<>> /\ Head(fromHost[h]).type = "fence"
        /\ fromHost' = [fromHost EXCEPT ![h] = Tail(@)]
        /\ recv' = [recv EXCEPT ![h] = Head(fromHost[h]).id]
    BY <1>5 DEF ReceiveFence
  <2>2. PICK g \in Slowest(recv') : \/ pipe' = Append(pipe, recv'[g])
                                    \/ pipe' = pipe
    BY <1>5 DEF ReceiveFence
  <2>3. PICK id \in Nat : id = recv'[g]
    BY DEF Slowest, TypeOK, TypeHosts
  <2>4. \A k \in Hosts : id <= recv'[k]
    BY <2>3 DEF Slowest
  <2>5. Head(fromHost[h]) = fromHost[h][1]
    BY <2>1, MessagesTyped
  <2> QED BY <2>1, <2>2, <2>3, <2>4, <2>5, PipeReceive
<1>6. ASSUME NEW h \in Hosts, ReceiveData(h)
      PROVE  PipeKept'
  <2>1. /\ UNCHANGED <<async, done, recv, pipe>> /\ fromHost[h] # <<>>
        /\ fromHost' = [fromHost EXCEPT ![h] = Tail(@)]
    BY <1>6 DEF ReceiveData
  <2> QED BY <2>1, PipeReceive
<1>7. ASSUME NEW h \in Hosts, Dispatch(h)
      PROVE  PipeKept'
  <2>1. UNCHANGED <<async, done, recv, pipe>>
    BY <1>7 DEF Dispatch
  <2>2. PICK c : c = Head(toHost[h])
    OBVIOUS
  <2>3. \/ fromHost' = fromHost
        \/ fromHost' = [fromHost EXCEPT ![h] = Append(@, DataMsg(c))]
    BY <1>7, <2>2 DEF Dispatch
  <2>4. c \in Cmds /\ c \in Nat
    <3>1. toHost[h] \in Seq(Cmds) /\ toHost[h] # <<>>
      BY <1>7 DEF Dispatch, TypeOK, TypeChannels
    <3>2. c \in Cmds
      BY <2>2, <3>1, HeadTailProperties
    <3> QED BY <3>2 DEF Cmds
  <2>5. PICK m \in Msg : m = DataMsg(c) /\ m.type # "fence"
    <3>1. DataMsg(c) \in Msg /\ DataMsg(c).type # "fence"
      BY <2>4 DEF DataMsg, Msg
    <3> QED BY <3>1
  <2>6. CASE fromHost' = fromHost
    BY <2>1, <2>6, PipeFrame
  <2>7. CASE fromHost' = [fromHost EXCEPT ![h] = Append(@, m)]
    BY <1>1, <2>1, <2>4, <2>5, <2>7, PipeExtend
  <2> QED BY <2>3, <2>5, <2>6, <2>7
<1>8. ASSUME NEW h \in Hosts, Retire(h)
      PROVE  PipeKept'
  <2>1. PICK f \in made[h] :
          /\ done' = [done EXCEPT ![h] = f]
          /\ fromHost' = [fromHost EXCEPT ![h] = Append(@, FenceMsg(f))]
    BY <1>8 DEF Retire
  <2>2. f \in async /\ f \in Cmds /\ f \in Nat /\ done[h] < f /\ done'[h] = f
    BY <2>1, MadeWaits DEF TypeOK, TypeHosts, Cmds
  <2>3. PICK m \in Msg : m = FenceMsg(f) /\ m.id <= f
    <3>1. FenceMsg(f) \in Msg /\ FenceMsg(f).id <= f
      BY <2>2, WireBound DEF FenceMsg, Msg
    <3> QED BY <3>1
  <2>4. UNCHANGED <<async, recv, pipe>>
    BY <1>8 DEF Retire
  <2>5. fromHost' = [fromHost EXCEPT ![h] = Append(@, m)] /\ f <= done'[h]
    BY <2>1, <2>2, <2>3
  <2> QED BY <1>1, <2>2, <2>3, <2>4, <2>5, PipeExtend
<1>9. CASE UNCHANGED vars
  BY <1>9, PipeFrame DEF vars
<1> QED
  BY <1>2, <1>3, <1>4, <1>5, <1>6, <1>7, <1>8, <1>9 DEF Next

\* The reports in fence_pipe stand for different pairs of a renderer and a
\* waiting request, so there are at most as many.
LEMMA PipeBound ==
  ASSUME TypeOK, PipeKept
  PROVE  FencePipeBounded
<1>1. PICK own, of : Owners(own, of) /\ PipeOwned(own, of)
  BY DEF PipeKept
<1>2. /\ own \in Seq(Hosts \X Cmds) /\ Len(own) = Len(pipe) /\ Len(pipe) \in Nat
      /\ own \in [1 .. Len(pipe) -> Hosts \X Cmds]
  BY <1>1, MessagesTyped, LenProperties DEF Owners
<1>3. own \in [1 .. Len(pipe) -> Hosts \X async]
  <2>1. \A i \in 1 .. Len(pipe) : own[i] \in Hosts \X async
    BY <1>1, <1>2 DEF PipeOwned
  <2> QED BY <1>2, <2>1
<1>4. \A i, j \in 1 .. Len(pipe) : own[i] = own[j] => i = j
  <2>1. SUFFICES ASSUME NEW i \in 1 .. Len(pipe), NEW j \in 1 .. Len(pipe),
                        own[i] = own[j], i < j
                 PROVE  FALSE
    BY <1>2
  <2>2. i \in 1 .. j - 1
    BY <2>1
  <2> QED BY <1>1, <2>1, <2>2 DEF PipeOwned
<1>5. own \in Injection(1 .. Len(pipe), Hosts \X async)
  BY <1>3, <1>4 DEF Injection, IsInjective
<1>6. IsFiniteSet(Hosts) /\ Cardinality(Hosts) = N
  <2>1. 0 \in Int /\ N - 1 \in Int
    BY NAssumption
  <2>2. IsFiniteSet(0 .. N - 1)
        /\ Cardinality(0 .. N - 1) = IF 0 > N - 1 THEN 0 ELSE (N - 1) - 0 + 1
    BY <2>1, FS_Interval
  <2> QED BY <2>2, NAssumption DEF Hosts
<1>7. IsFiniteSet(async)
  <2>1. IsFiniteSet(1 .. taken) /\ async \in SUBSET (1 .. taken)
    BY FS_Interval DEF TypeOK, TypeLoop, TypeRequests
  <2> QED BY <2>1, FS_Subset
<1>8. /\ IsFiniteSet(Hosts \X async)
      /\ Cardinality(Hosts \X async) = N * Cardinality(async)
  BY <1>6, <1>7, FS_Product
<1>9. Cardinality(1 .. Len(pipe)) = Len(pipe)
  <2>1. 1 \in Int /\ Len(pipe) \in Int
    BY <1>2
  <2>2. Cardinality(1 .. Len(pipe)) = IF 1 > Len(pipe) THEN 0 ELSE Len(pipe) - 1 + 1
    BY <2>1, FS_Interval
  <2> QED BY <1>2, <2>2
<1>10. Cardinality(1 .. Len(pipe)) <= Cardinality(Hosts \X async)
  BY <1>5, <1>8, FS_Injection
<1> QED BY <1>8, <1>9, <1>10 DEF FencePipeBounded

(***************************************************************************)
(* The inductive invariant behind AnswersSound.                            *)
(***************************************************************************)
AInv == /\ IInv /\ LifeKept /\ KickKept /\ DataKept /\ DataBeforeAnswer
        /\ PipeKept

\* It holds when the proxy starts,
LEMMA AInvInit == Init => AInv
<1> SUFFICES ASSUME Init PROVE AInv
  OBVIOUS
<1>1. IInv
  BY IInvInit
<1>2. LifeKept
  BY DEF Init, LifeKept, InHand, Cmds
<1>3. KickKept
  BY DEF Init, KickKept, Answered
<1>4. DataKept /\ DataBeforeAnswer
  BY DEF Init, DataKept, DataBeforeAnswer, Answered
<1>5. PipeKept
  <2> DEFINE of == [h \in Hosts |-> <<>>]
  <2>1. Owners(<<>>, of)
    BY EmptySeq DEF Init, Owners
  <2>2. PipeOwned(<<>>, of)
    BY DEF Init, PipeOwned
  <2> QED BY <2>1, <2>2 DEF PipeKept
<1> QED BY <1>1, <1>2, <1>3, <1>4, <1>5 DEF AInv

\* and every step keeps it.
LEMMA AInvNext == AInv /\ [Next]_vars => AInv'
<1> SUFFICES ASSUME AInv, [Next]_vars
             PROVE  AInv'
  OBVIOUS
<1>1. IInv'
  BY IInvNext DEF AInv
<1>2. TypeOK /\ TypeOK' /\ InOrder /\ ReportsBacked
  BY <1>1 DEF AInv, IInv
<1>3. LifeKept' /\ KickKept' /\ DataKept'
  BY <1>2, LifeNext, KickNext, DataNext DEF AInv
<1>4. DataBeforeAnswer'
  BY LandedGrows, DataAnswered DEF AInv
<1>5. PipeKept'
  BY <1>1, PipeNext DEF AInv
<1> QED BY <1>1, <1>3, <1>4, <1>5 DEF AInv

\* A guest that is shown an answer finds the request over and freed, its data
\* in place and no other answer kept back, and fence_pipe never holds more ids
\* than there are renderers times waiting requests: for any number of
\* renderers, any queue sizes, any width of the ids on the wire.
THEOREM AnswersCorrect == Spec => []AnswersSound
<1>1. ASSUME AInv
      PROVE  AnswersSound
  <2>1. RequestLifetime
    <3>1. \A c \in 1 .. taken : c \in Cmds
      BY <1>1, BoundsAssumption, LenProperties
      DEF AInv, IInv, TypeOK, TypeLoop, Cmds
    <3>2. \A c \in 1 .. taken : c <= taken
      BY <1>1 DEF AInv, IInv, TypeOK, TypeLoop
    <3> QED BY <1>1, <3>1, <3>2 DEF AInv, LifeKept, RequestLifetime, InHand
  <2>2. NothingUnannounced
    BY <1>1, Zenon DEF AInv, KickKept, NothingUnannounced
  <2>3. DataBeforeAnswer /\ FencePipeBounded
    BY <1>1, PipeBound DEF AInv, IInv
  <2> QED BY <2>1, <2>2, <2>3 DEF AnswersSound
<1> QED BY <1>1, AInvInit, AInvNext, PTL DEF Spec
=============================================================================

---------------------------- MODULE SwapSyncProofs ----------------------------
(***************************************************************************)
(* Proofs about the buffers between a render process and the compositor,   *)
(* for any number of buffers, frames and other requests.                   *)
(***************************************************************************)
EXTENDS SwapSync, SequenceTheorems, FiniteSetTheorems, TLAPS

(***************************************************************************)
(* Type correctness.                                                       *)
(***************************************************************************)
Messages == [type : {"CREATE"}, idx : Index]
            \cup [type : {"DRAW"}, idx : Index, frame : Frame]

\* The types with the channels as sequences, and the frame that is drawn next.
TypeRender ==
  /\ pc \in {"idle", "create", "wait", "write", "send"}
  /\ idx \in Index /\ drawn \in Frame /\ (pc # "idle" => drawn < MaxFrames)
  /\ size \in [Index -> Sizes \cup {0}] /\ status \in [Index -> {0, 1}]

TypeBuffers ==
  /\ picture \in [Index -> Frame] /\ texture \in [Index -> Frame]
  /\ hard \subseteq images /\ images \subseteq Index /\ dropped \subseteq Index
  /\ images # {} => Hardware
  /\ lastCount \in {"zero", "old", "now"}

TypeChannels ==
  /\ control \in Seq(Messages)
  /\ requests \in Seq(Draws \cup {<< >>}) /\ others \in 0 .. MaxOthers
  /\ updated \in Seq(Index) /\ acks \in Seq(Seq(Index))

TypeComp ==
  /\ cpc \in {"poll", "skip", "draw", "ack"} /\ woken \in BOOLEAN
  /\ surface \in Draws \cup {<< >>} /\ shown \in Frame

\* A CREATE_BUFFER is the last message on the control socket: rvgpu_egl_draw
\* waits for its reply.
CreateLast ==
  \A i \in 1 .. Len(control) : control[i].type = "CREATE" =>
    pc = "create" /\ i = Len(control) /\ control[i].idx = idx

Types == TypeRender /\ TypeBuffers /\ TypeChannels /\ TypeComp /\ CreateLast

\* Sequences of a type have their elements in it.
LEMMA RangeTyped ==
  ASSUME NEW S, NEW s \in Seq(S)
  PROVE  /\ Range(s) \subseteq S /\ Range(s) = {s[i] : i \in 1 .. Len(s)}
         /\ Len(s) \in Nat
BY RangeOfSeq, RangeEquality, LenProperties

\* The control socket typed.
LEMMA ControlTyped ==
  ASSUME Types
  PROVE  /\ control \in Seq(Messages) /\ Len(control) \in Nat
         /\ \A i \in 1 .. Len(control) : control[i] \in Messages
         /\ control # << >> => 1 \in 1 .. Len(control) /\ Head(control) = control[1]
<1>1. control \in Seq(Messages)
  BY DEF Types, TypeChannels
<1> QED BY <1>1, ElementOfSeq, LenProperties, EmptySeq

\* The last of a list of indexes, and those before it.
LEMMA FrontTyped ==
  ASSUME NEW s \in Seq(Index), Len(s) > 1
  PROVE  /\ Front(s) \in Seq(Index) /\ Len(Front(s)) = Len(s) - 1
         /\ \A i \in 1 .. Len(s) - 1 : Front(s)[i] = s[i]
         /\ Last(s) = s[Len(s)] /\ Last(s) \in Index /\ Len(s) \in Nat
<1>1. Len(s) \in Nat /\ \A i \in 1 .. Len(s) : s[i] \in Index
  BY LenProperties, ElementOfSeq
<1>2. \A i \in 1 .. Len(s) - 1 : s[i] \in Index
  BY <1>1
<1>3. 1 \in Int /\ Len(s) - 1 \in Int
  BY <1>1
<1>4. /\ SubSeq(s, 1, Len(s) - 1) \in Seq(Index)
      /\ Len(SubSeq(s, 1, Len(s) - 1)) =
           IF 1 <= Len(s) - 1 THEN (Len(s) - 1) - 1 + 1 ELSE 0
      /\ \A i \in 1 .. (Len(s) - 1) - 1 + 1 :
           SubSeq(s, 1, Len(s) - 1)[i] = s[1 + i - 1]
  BY <1>2, <1>3, SubSeqProperties
<1> QED BY <1>1, <1>4 DEF Front, Last

\* The types as sequences give those as sets of elements.
LEMMA TypesSuffice == Types => TypeOK
<1> SUFFICES ASSUME Types PROVE TypeOK
  OBVIOUS
<1>1. \A m \in Range(control) : m.type \in {"CREATE", "DRAW"} /\ m.idx \in Index
  <2>1. Range(control) \subseteq Messages
    BY RangeTyped DEF Types, TypeChannels
  <2> QED BY <2>1 DEF Messages
<1>2. Range(requests) \subseteq Draws \cup {<< >>} /\ Range(updated) \subseteq Index
  BY RangeTyped DEF Types, TypeChannels
<1>3. \A a \in Range(acks) : Range(a) \subseteq Index
  <2>1. Range(acks) \subseteq Seq(Index)
    BY RangeTyped DEF Types, TypeChannels
  <2> QED BY <2>1, RangeTyped
<1> QED
  BY <1>1, <1>2, <1>3
  DEF Types, TypeRender, TypeBuffers, TypeChannels, TypeComp, TypeOK

\* The first buffer is one of the ring, and so is the next one.
LEMMA IndexTyped ==
  /\ 0 \in Index
  /\ \A b \in Index : (b + 1) % Buffers \in Index
<1>1. Buffers \in Nat /\ Buffers > 0
  BY BuffersAssumption
<1>2. \A n \in Nat : n % Buffers \in 0 .. Buffers - 1
  BY <1>1
<1> QED BY <1>1, <1>2 DEF Index

\* The types hold before the first frame,
LEMMA TypesInit == Init => Types
<1> SUFFICES ASSUME Init PROVE Types
  OBVIOUS
<1>1. 0 \in Index /\ 0 \in Frame
  BY IndexTyped, BoundsAssumption DEF Frame
<1> QED
  BY <1>1, EmptySeq, BoundsAssumption
  DEF Init, Types, TypeRender, TypeBuffers, TypeChannels, TypeComp, CreateLast

\* Only rvgpu_egl_draw writes to the control socket, a CREATE_BUFFER when none
\* is on it.
LEMMA CreateStays ==
  ASSUME Types, [Next]_vars
  PROVE  CreateLast'
<1> USE DEF renderVars, bufferVars, makeVars, compVars
<1>1. CASE UNCHANGED << control, pc, idx >>
  BY <1>1 DEF Types, CreateLast
<1>2. ASSUME NEW m \in Messages, control' = Append(control, m), pc # "create",
             m.type = "CREATE" => pc' = "create" /\ m.idx = idx'
      PROVE  CreateLast'
  <2>1. /\ Len(control') = Len(control) + 1 /\ control'[Len(control) + 1] = m
        /\ \A i \in 1 .. Len(control) : control'[i] = control[i]
    BY <1>2, ControlTyped, AppendProperties
  <2> QED BY <1>2, <2>1, ControlTyped DEF Types, CreateLast
<1>3. ASSUME control # << >>, control' = Tail(control),
             UNCHANGED << pc, idx >> \/ Head(control).type = "CREATE"
      PROVE  CreateLast'
  <2>1. /\ Len(control') = Len(control) - 1
        /\ \A i \in 1 .. Len(control') : control'[i] = control[i + 1]
    BY <1>3, ControlTyped, HeadTailProperties
  <2>2. CASE UNCHANGED << pc, idx >>
    <3>1. \A i \in 1 .. Len(control') : i + 1 \in 1 .. Len(control)
      BY <2>1, ControlTyped
    <3> QED BY <2>1, <2>2, <3>1, ControlTyped DEF Types, CreateLast
  <2>3. CASE Head(control).type = "CREATE"
    <3>1. Len(control) = 1
      BY <1>3, <2>3, ControlTyped DEF Types, CreateLast
    <3> QED BY <2>1, <3>1 DEF CreateLast
  <2> QED BY <1>3, <2>2, <2>3
<1>4. ASSUME NEW s \in Sizes, Begin(s) PROVE CreateLast'
  <2>1. CASE size[idx] = s
    BY <1>4, <2>1 DEF Begin, Types, CreateLast
  <2>2. CASE size[idx] # s
    <3>1. PICK m \in Messages : m = [type |-> "CREATE", idx |-> idx]
      BY DEF Types, TypeRender, Messages
    <3> QED BY <1>2, <1>4, <2>2, <3>1 DEF Begin
  <2> QED BY <2>1, <2>2
<1>5. CASE Send
  <2>1. drawn + 1 \in Frame
    BY <1>5, BoundsAssumption DEF Send, Types, TypeRender, Frame
  <2>2. PICK m \in Messages : m = [type |-> "DRAW", idx |-> idx, frame |-> drawn + 1]
    BY <2>1 DEF Types, TypeRender, Messages
  <2> QED BY <1>2, <1>5, <2>2 DEF Send
<1>6. CASE Wait \/ Finish
  BY <1>6 DEF Wait, Finish, Types, CreateLast
<1>7. CASE Create \/ Forward \/ Drop
  BY <1>3, <1>7 DEF Create, Forward, Drop
<1>8. CASE Acked \/ Other \/ Compositor
  BY <1>1, <1>8
  DEF Acked, Other, Compositor, Receive, Drained, Skip, Compose, Acknowledge
<1>9. CASE UNCHANGED vars
  BY <1>1, <1>9 DEF vars
<1> QED BY <1>4, <1>5, <1>6, <1>7, <1>8, <1>9 DEF Next, Render, Request

\* and after every step.
LEMMA TypesNext == Types /\ [Next]_vars => Types'
<1> SUFFICES ASSUME Types, [Next]_vars PROVE Types'
  OBVIOUS
<1> USE DEF renderVars, bufferVars, makeVars, compVars
<1> SUFFICES (TypeRender /\ TypeBuffers /\ TypeChannels /\ TypeComp)'
  BY CreateStays DEF Types
<1>1. MaxFrames \in Nat /\ MaxOthers \in Nat /\ 0 \in Frame
  BY BoundsAssumption DEF Frame
<1>2. ASSUME NEW s \in Sizes, Begin(s) PROVE (TypeRender /\ TypeBuffers /\ TypeChannels /\ TypeComp)'
  <2>1. TypeRender'
    BY <1>1, <1>2 DEF Begin, Types, TypeRender, Frame
  <2>2. [type |-> "CREATE", idx |-> idx] \in Messages
    BY DEF Types, TypeRender, Messages
  <2>3. control \in Seq(Messages)
    BY DEF Types, TypeChannels
  <2>4. \/ control' = control
        \/ control' = Append(control, [type |-> "CREATE", idx |-> idx])
    BY <1>2 DEF Begin
  <2>5. control' \in Seq(Messages)
    <3>1. CASE control' = control
      BY <2>3, <3>1
    <3>2. CASE control' = Append(control, [type |-> "CREATE", idx |-> idx])
      <4>1. PICK m \in Messages : m = [type |-> "CREATE", idx |-> idx]
        BY <2>2
      <4>2. control' = Append(control, m)
        BY <3>2, <4>1
      <4> QED BY <2>3, <4>2, AppendProperties
    <3> QED BY <2>4, <3>1, <3>2
  <2>6. UNCHANGED <<bufferVars, requests, others, compVars, acks>>
    BY <1>2 DEF Begin
  <2> QED
    BY <2>1, <2>5, <2>6 DEF Types, TypeBuffers, TypeChannels, TypeComp
<1>3. CASE Wait
  BY <1>1, <1>3
  DEF Wait, Types, TypeRender, TypeBuffers, TypeChannels, TypeComp
<1>4. CASE Finish
  <2>1. drawn + 1 \in Frame
    BY <1>1, <1>4 DEF Finish, Types, TypeRender, Frame
  <2> QED
    BY <1>4, <2>1
    DEF Finish, Types, TypeRender, TypeBuffers, TypeChannels, TypeComp
<1>5. CASE Send
  <2>1. drawn + 1 \in Frame
    BY <1>1, <1>5 DEF Send, Types, TypeRender, Frame
  <2>2. [type |-> "DRAW", idx |-> idx, frame |-> drawn + 1] \in Messages
    BY <2>1 DEF Types, TypeRender, Messages
  <2>3. control' \in Seq(Messages)
    BY <1>5, <2>2, AppendProperties DEF Send, Types, TypeChannels
  <2>4. TypeRender'
    BY <1>5, <2>1, IndexTyped DEF Send, NextIndex, Types, TypeRender
  <2> QED
    BY <1>5, <2>3, <2>4 DEF Send, Types, TypeBuffers, TypeChannels, TypeComp
<1>6. CASE Acked
  <2>1. acks' \in Seq(Seq(Index))
    BY <1>6, HeadTailProperties DEF Acked, Types, TypeChannels
  <2> QED
    BY <1>6, <2>1
    DEF Acked, Types, TypeRender, TypeBuffers, TypeChannels, TypeComp
<1>7. CASE Create
  <2>1. Head(control) \in Messages /\ control' \in Seq(Messages)
    BY <1>7, HeadTailProperties DEF Create, Types, TypeChannels
  <2>2. Head(control).idx \in Index
    BY <2>1 DEF Messages
  <2>3. pc = "create"
    BY <1>7, ControlTyped DEF Create, Types, CreateLast
  <2>4. TypeRender'
    BY <1>1, <1>7, <2>3 DEF Create, Types, TypeRender
  <2>5. TypeBuffers'
    <3>1. PICK hw \in BOOLEAN : (hw => Hardware) /\ NewBuffer(Head(control).idx, hw)
      BY <1>7 DEF Create
    <3>2. CASE hw
      BY <1>1, <1>7, <2>2, <3>1, <3>2 DEF Create, NewBuffer, Types, TypeBuffers
    <3>3. CASE ~hw
      BY <1>1, <1>7, <2>2, <3>1, <3>3 DEF Create, NewBuffer, Types, TypeBuffers
    <3> QED BY <3>2, <3>3
  <2> QED
    BY <1>7, <2>1, <2>4, <2>5 DEF Create, Types, TypeChannels, TypeComp
<1>8. CASE Forward
  <2>1. Head(control) \in Messages /\ control' \in Seq(Messages)
    BY <1>8, HeadTailProperties DEF Forward, Types, TypeChannels
  <2>2. Head(control).idx \in Index /\ Head(control).frame \in Frame
    BY <1>8, <2>1 DEF Forward, Messages
  <2>3. Direct(Head(control).idx) \in BOOLEAN
    BY Zenon DEF Direct
  <2>4. [idx |-> Head(control).idx, frame |-> Head(control).frame,
         direct |-> Direct(Head(control).idx)] \in Draws
    BY <2>2, <2>3, Zenon DEF Draws
  <2>5. requests' \in Seq(Draws \cup {<< >>})
    BY <1>8, <2>4, AppendProperties DEF Forward, Types, TypeChannels
  <2>6. texture' \in [Index -> Frame]
    BY <1>8, <2>2 DEF Forward, Copied, Types, TypeBuffers
  <2>7. lastCount' \in {"zero", "old", "now"}
    BY <1>8 DEF Forward, Types, TypeBuffers
  <2> QED
    BY <1>8, <2>1, <2>5, <2>6, <2>7
    DEF Forward, Types, TypeRender, TypeBuffers, TypeChannels, TypeComp
<1>9. CASE Other
  <2>1. requests' \in Seq(Draws \cup {<< >>})
    BY <1>9, AppendProperties DEF Other, Types, TypeChannels
  <2> QED
    BY <1>1, <1>9, <2>1
    DEF Other, Types, TypeRender, TypeBuffers, TypeChannels, TypeComp
<1>10. CASE Receive
  <2>1. /\ Head(requests) \in Draws \cup {<< >>}
        /\ requests' \in Seq(Draws \cup {<< >>})
    BY <1>10, HeadTailProperties DEF Receive, Types, TypeChannels
  <2>2. Head(requests) # << >> => Head(requests).idx \in Index
    BY <2>1 DEF Draws
  <2>3. updated' \in Seq(Index)
    <3>1. updated \in Seq(Index)
      BY DEF Types, TypeChannels
    <3>2. CASE Head(requests) = << >>
      BY <1>10, <3>1, <3>2 DEF Receive
    <3>3. CASE Head(requests) # << >>
      BY <1>10, <2>2, <3>1, <3>3, AppendProperties DEF Receive
    <3> QED BY <3>2, <3>3
  <2> QED
    BY <1>10, <2>1, <2>3
    DEF Receive, Types, TypeRender, TypeBuffers, TypeChannels, TypeComp
<1>11. CASE Drained
  BY <1>11 DEF Drained, Types, TypeRender, TypeBuffers, TypeChannels, TypeComp
<1>12. CASE Skip
  <2>1. updated \in Seq(Index) /\ acks \in Seq(Seq(Index))
    BY DEF Types, TypeChannels
  <2>2. Skipped \in Seq(Index)
    BY <2>1, FrontTyped, EmptySeq DEF Skipped
  <2>3. acks' \in Seq(Seq(Index))
    BY <1>12, <2>1, <2>2, AppendProperties DEF Skip
  <2>4. updated' \in Seq(Index)
    <3>1. CASE Len(updated) > 1
      <4>1. Last(updated) \in Index
        BY <2>1, <3>1, FrontTyped
      <4>2. updated' = << Last(updated) >>
        BY <1>12, <3>1 DEF Skip
      <4> QED BY <4>1, <4>2
    <3> QED BY <1>12, <2>1, <3>1 DEF Skip
  <2> QED
    BY <1>12, <2>3, <2>4
    DEF Skip, Types, TypeRender, TypeBuffers, TypeChannels, TypeComp
<1>13. CASE Compose
  <2>1. surface # << >> => Picture \in Frame
    BY DEF Picture, Types, TypeBuffers, TypeComp, Draws
  <2>2. shown' \in Frame
    BY <1>13, <2>1 DEF Compose, Types, TypeComp
  <2> QED
    BY <1>13, <2>2
    DEF Compose, Types, TypeRender, TypeBuffers, TypeChannels, TypeComp
<1>14. CASE Acknowledge
  <2>1. updated' \in Seq(Index) /\ acks' \in Seq(Seq(Index))
    BY <1>14, AppendProperties, EmptySeq DEF Acknowledge, Types, TypeChannels
  <2> QED
    BY <1>14, <2>1
    DEF Acknowledge, Types, TypeRender, TypeBuffers, TypeChannels, TypeComp
<1>15. CASE UNCHANGED vars
  BY <1>15 DEF vars, Types, TypeRender, TypeBuffers, TypeChannels, TypeComp
<1>16. CASE Drop
  <2>1. Head(control) \in Messages /\ control' \in Seq(Messages)
    BY <1>16, HeadTailProperties DEF Drop, Types, TypeChannels
  <2>2. Head(control).idx \in Index
    BY <2>1 DEF Messages
  <2> QED
    BY <1>16, <2>1, <2>2
    DEF Drop, Types, TypeRender, TypeBuffers, TypeChannels, TypeComp
<1> QED
  BY <1>2, <1>3, <1>4, <1>5, <1>6, <1>7, <1>8, <1>9, <1>10, <1>11, <1>12, <1>13,
     <1>14, <1>15, <1>16 DEF Next, Render, Request, Compositor

\* The buffers and their channels never leave their types.
THEOREM TypeCorrect == Spec => []TypeOK
<1> QED BY TypesInit, TypesNext, TypesSuffice, PTL DEF Spec

(***************************************************************************)
(* Where the DRAW of a buffer can be: on the control socket, in the pipe   *)
(* to compositor_render, in updated_indexes, or in an acknowledgement.     *)
(***************************************************************************)
Sent ==
  {b \in Index : \E i \in 1 .. Len(control) :
                   control[i].type = "DRAW" /\ control[i].idx = b}
Requested ==
  {b \in Index : \E i \in 1 .. Len(requests) :
                   requests[i] # << >> /\ requests[i].idx = b}
Updated == {b \in Index : \E i \in 1 .. Len(updated) : updated[i] = b}
Acking  == {b \in Index : \E i \in 1 .. Len(acks) : b \in Range(acks[i])}

\* No place has it twice,
SentOnce ==
  \A i, j \in 1 .. Len(control) :
    i # j /\ control[i].type = "DRAW" /\ control[j].type = "DRAW"
      => control[i].idx # control[j].idx
RequestedOnce ==
  \A i, j \in 1 .. Len(requests) :
    i # j /\ requests[i] # << >> /\ requests[j] # << >>
      => requests[i].idx # requests[j].idx
UpdatedOnce ==
  \A i, j \in 1 .. Len(updated) : i # j => updated[i] # updated[j]
AckingOnce ==
  \A i, j \in 1 .. Len(acks) : i # j => Range(acks[i]) \cap Range(acks[j]) = {}

\* no two places have it,
Apart ==
  /\ Sent \cap (Requested \cup Updated \cup Acking) = {}
  /\ Requested \cap (Updated \cup Acking) = {}
  /\ Updated \cap Acking = {}

\* and while one of them has it, composit_status keeps the buffer from being
\* drawn to.
Busy ==
  \A b \in Sent \cup Requested \cup Updated \cup Acking : status[b] = 1

Places ==
  SentOnce /\ RequestedOnce /\ UpdatedOnce /\ AckingOnce /\ Apart /\ Busy

\* A message is written to the control socket.
LEMMA SentAppend ==
  ASSUME Types, SentOnce, NEW m \in Messages, control' = Append(control, m),
         m.type = "DRAW" => m.idx \notin Sent
  PROVE  /\ Sent' = IF m.type = "DRAW" THEN Sent \cup {m.idx} ELSE Sent
         /\ SentOnce'
<1>1. /\ Len(control') = Len(control) + 1 /\ control'[Len(control) + 1] = m
      /\ \A i \in 1 .. Len(control) : control'[i] = control[i]
      /\ Len(control) \in Nat
  BY ControlTyped, AppendProperties
<1>2. m.idx \in Index /\ \A i \in 1 .. Len(control) : control[i].idx \in Index
  BY ControlTyped DEF Messages
<1>3. \A b \in Index : b \in Sent' <=> b \in Sent \/ (m.type = "DRAW" /\ b = m.idx)
  <2> SUFFICES ASSUME NEW b \in Index
               PROVE  b \in Sent' <=> b \in Sent \/ (m.type = "DRAW" /\ b = m.idx)
    OBVIOUS
  <2>1. ASSUME b \in Sent' PROVE b \in Sent \/ (m.type = "DRAW" /\ b = m.idx)
    <3>1. PICK i \in 1 .. Len(control') : control'[i].type = "DRAW" /\ control'[i].idx = b
      BY <2>1 DEF Sent
    <3>2. i \in 1 .. Len(control) \/ i = Len(control) + 1
      BY <1>1
    <3> QED BY <1>1, <3>1, <3>2 DEF Sent
  <2>2. ASSUME b \in Sent PROVE b \in Sent'
    <3>1. PICK i \in 1 .. Len(control) : control[i].type = "DRAW" /\ control[i].idx = b
      BY <2>2 DEF Sent
    <3>2. i \in 1 .. Len(control')
      BY <1>1
    <3> QED BY <1>1, <3>1, <3>2 DEF Sent
  <2>3. ASSUME m.type = "DRAW", b = m.idx PROVE b \in Sent'
    <3>1. Len(control) + 1 \in 1 .. Len(control')
      BY <1>1
    <3> QED BY <1>1, <2>3, <3>1 DEF Sent
  <2> QED BY <2>1, <2>2, <2>3
<1>4. Sent \subseteq Index /\ Sent' \subseteq Index
  BY DEF Sent
<1>5. SentOnce'
  <2> SUFFICES ASSUME NEW i \in 1 .. Len(control'), NEW j \in 1 .. Len(control'),
                      i # j, control'[i].type = "DRAW", control'[j].type = "DRAW"
               PROVE  control'[i].idx # control'[j].idx
    BY DEF SentOnce
  <2>1. /\ i \in 1 .. Len(control) \/ i = Len(control) + 1
        /\ j \in 1 .. Len(control) \/ j = Len(control) + 1
    BY <1>1
  <2> QED BY <1>1, <1>2, <2>1 DEF SentOnce, Sent
<1> QED BY <1>2, <1>3, <1>4, <1>5

\* The first message is taken from the control socket.
LEMMA SentTail ==
  ASSUME Types, SentOnce, control # << >>, control' = Tail(control)
  PROVE  /\ Sent' = IF Head(control).type = "DRAW" THEN Sent \ {Head(control).idx}
                                                   ELSE Sent
         /\ Head(control).type = "DRAW" => Head(control).idx \in Sent
         /\ SentOnce'
<1>1. /\ Len(control') = Len(control) - 1 /\ Len(control) \in Nat
      /\ \A i \in 1 .. Len(control') : control'[i] = control[i + 1]
      /\ Head(control) = control[1] /\ 1 \in 1 .. Len(control)
  BY ControlTyped, HeadTailProperties
<1>2. \A i \in 1 .. Len(control') : i + 1 \in 1 .. Len(control)
  BY <1>1
<1>3. \A i \in 1 .. Len(control) : i = 1 \/ i - 1 \in 1 .. Len(control')
  BY <1>1
<1>4. \A i \in 1 .. Len(control) : control[i].idx \in Index
  BY ControlTyped DEF Messages
<1>5. Head(control).type = "DRAW" => Head(control).idx \in Sent
  BY <1>1, <1>4 DEF Sent
<1>6. ASSUME NEW b \in Sent'
      PROVE  b \in Sent /\ (Head(control).type = "DRAW" => b # Head(control).idx)
  <2>1. PICK i \in 1 .. Len(control') : control'[i].type = "DRAW" /\ control'[i].idx = b
    BY <1>6 DEF Sent
  <2>2. i + 1 \in 1 .. Len(control) /\ i + 1 # 1 /\ control'[i] = control[i + 1]
    BY <1>1, <1>2
  <2> QED BY <1>1, <1>6, <2>1, <2>2 DEF Sent, SentOnce
<1>7. ASSUME NEW b \in Sent, b # Head(control).idx \/ Head(control).type # "DRAW"
      PROVE  b \in Sent'
  <2>1. PICK i \in 1 .. Len(control) : control[i].type = "DRAW" /\ control[i].idx = b
    BY <1>7 DEF Sent
  <2>2. i # 1
    BY <1>1, <1>7, <2>1
  <2>3. i - 1 \in 1 .. Len(control') /\ control'[i - 1] = control[i]
    BY <1>1, <1>3, <2>2
  <2> QED BY <1>7, <2>1, <2>3 DEF Sent
<1>8. SentOnce'
  <2> SUFFICES ASSUME NEW i \in 1 .. Len(control'), NEW j \in 1 .. Len(control'),
                      i # j, control'[i].type = "DRAW", control'[j].type = "DRAW"
               PROVE  control'[i].idx # control'[j].idx
    BY DEF SentOnce
  <2>1. i + 1 \in 1 .. Len(control) /\ j + 1 \in 1 .. Len(control) /\ i + 1 # j + 1
    BY <1>2
  <2> QED BY <1>1, <2>1 DEF SentOnce
<1>9. Sent' = IF Head(control).type = "DRAW" THEN Sent \ {Head(control).idx} ELSE Sent
  BY <1>6, <1>7
<1> QED BY <1>5, <1>8, <1>9

\* The pipe to compositor_render typed.
LEMMA RequestsTyped ==
  ASSUME Types
  PROVE  /\ requests \in Seq(Draws \cup {<< >>}) /\ Len(requests) \in Nat
         /\ \A i \in 1 .. Len(requests) :
              /\ requests[i] \in Draws \cup {<< >>}
              /\ requests[i] # << >> => requests[i].idx \in Index
         /\ requests # << >> => 1 \in 1 .. Len(requests) /\ Head(requests) = requests[1]
<1>1. requests \in Seq(Draws \cup {<< >>})
  BY DEF Types, TypeChannels
<1>2. \A i \in 1 .. Len(requests) : requests[i] \in Draws \cup {<< >>}
  BY <1>1, ElementOfSeq
<1>3. \A r \in Draws : r.idx \in Index
  BY DEF Draws
<1> QED BY <1>1, <1>2, <1>3, LenProperties, EmptySeq

\* A request is written to the pipe.
LEMMA RequestedAppend ==
  ASSUME Types, RequestedOnce, NEW r \in Draws \cup {<< >>},
         requests' = Append(requests, r),
         r # << >> => r.idx \notin Requested
  PROVE  /\ Requested' = IF r # << >> THEN Requested \cup {r.idx} ELSE Requested
         /\ RequestedOnce'
<1>1. /\ Len(requests') = Len(requests) + 1 /\ requests'[Len(requests) + 1] = r
      /\ \A i \in 1 .. Len(requests) : requests'[i] = requests[i]
      /\ Len(requests) \in Nat
  BY RequestsTyped, AppendProperties
<1>2. r # << >> => r.idx \in Index
  BY DEF Draws
<1>3. \A i \in 1 .. Len(requests') :
        i \in 1 .. Len(requests) \/ i = Len(requests) + 1
  BY <1>1
<1>4. /\ \A i \in 1 .. Len(requests) : i \in 1 .. Len(requests')
      /\ Len(requests) + 1 \in 1 .. Len(requests')
  BY <1>1
<1>5. ASSUME NEW b \in Requested' PROVE b \in Requested \/ (r # << >> /\ b = r.idx)
  <2>1. PICK i \in 1 .. Len(requests') : requests'[i] # << >> /\ requests'[i].idx = b
    BY <1>5 DEF Requested
  <2> QED BY <1>1, <1>3, <1>5, <2>1 DEF Requested
<1>6. ASSUME NEW b \in Requested PROVE b \in Requested'
  <2>1. PICK i \in 1 .. Len(requests) : requests[i] # << >> /\ requests[i].idx = b
    BY <1>6 DEF Requested
  <2> QED BY <1>1, <1>4, <1>6, <2>1 DEF Requested
<1>7. r # << >> => r.idx \in Requested'
  BY <1>1, <1>2, <1>4 DEF Requested
<1>8. RequestedOnce'
  <2> SUFFICES ASSUME NEW i \in 1 .. Len(requests'), NEW j \in 1 .. Len(requests'),
                      i # j, requests'[i] # << >>, requests'[j] # << >>
               PROVE  requests'[i].idx # requests'[j].idx
    BY DEF RequestedOnce
  <2> QED BY <1>1, <1>2, <1>3, RequestsTyped DEF RequestedOnce, Requested
<1> QED BY <1>5, <1>6, <1>7, <1>8

\* compositor_render takes the first request.
LEMMA RequestedTail ==
  ASSUME Types, RequestedOnce, requests # << >>, requests' = Tail(requests)
  PROVE  /\ Requested' = IF Head(requests) # << >> THEN Requested \ {Head(requests).idx}
                                                   ELSE Requested
         /\ Head(requests) # << >> => Head(requests).idx \in Requested
         /\ RequestedOnce'
<1>1. /\ Len(requests') = Len(requests) - 1 /\ Len(requests) \in Nat
      /\ \A i \in 1 .. Len(requests') : requests'[i] = requests[i + 1]
      /\ Head(requests) = requests[1] /\ 1 \in 1 .. Len(requests)
  BY RequestsTyped, HeadTailProperties
<1>2. \A i \in 1 .. Len(requests') : i + 1 \in 1 .. Len(requests)
  BY <1>1
<1>3. \A i \in 1 .. Len(requests) : i = 1 \/ i - 1 \in 1 .. Len(requests')
  BY <1>1
<1>4. Head(requests) # << >> => Head(requests).idx \in Requested
  BY <1>1, RequestsTyped DEF Requested
<1>5. ASSUME NEW b \in Requested'
      PROVE  b \in Requested /\ (Head(requests) # << >> => b # Head(requests).idx)
  <2>1. PICK i \in 1 .. Len(requests') : requests'[i] # << >> /\ requests'[i].idx = b
    BY <1>5 DEF Requested
  <2>2. i + 1 \in 1 .. Len(requests) /\ i + 1 # 1 /\ requests'[i] = requests[i + 1]
    BY <1>1, <1>2
  <2> QED BY <1>1, <1>5, <2>1, <2>2 DEF Requested, RequestedOnce
<1>6. ASSUME NEW b \in Requested, Head(requests) = << >> \/ b # Head(requests).idx
      PROVE  b \in Requested'
  <2>1. PICK i \in 1 .. Len(requests) : requests[i] # << >> /\ requests[i].idx = b
    BY <1>6 DEF Requested
  <2>2. i # 1
    BY <1>1, <1>6, <2>1
  <2>3. i - 1 \in 1 .. Len(requests') /\ requests'[i - 1] = requests[i]
    BY <1>1, <1>3, <2>2
  <2> QED BY <1>6, <2>1, <2>3 DEF Requested
<1>7. RequestedOnce'
  <2> SUFFICES ASSUME NEW i \in 1 .. Len(requests'), NEW j \in 1 .. Len(requests'),
                      i # j, requests'[i] # << >>, requests'[j] # << >>
               PROVE  requests'[i].idx # requests'[j].idx
    BY DEF RequestedOnce
  <2>1. i + 1 \in 1 .. Len(requests) /\ j + 1 \in 1 .. Len(requests) /\ i + 1 # j + 1
    BY <1>2
  <2> QED BY <1>1, <2>1 DEF RequestedOnce
<1> QED BY <1>4, <1>5, <1>6, <1>7

\* updated_indexes and the acknowledgements typed.
LEMMA UpdatedTyped ==
  ASSUME Types
  PROVE  /\ updated \in Seq(Index) /\ Len(updated) \in Nat
         /\ Updated = Range(updated) /\ Updated \subseteq Index
         /\ Range(updated) = {updated[i] : i \in 1 .. Len(updated)}
<1>1. updated \in Seq(Index)
  BY DEF Types, TypeChannels
<1> QED BY <1>1, RangeTyped DEF Updated

LEMMA AcksTyped ==
  ASSUME Types
  PROVE  /\ acks \in Seq(Seq(Index)) /\ Len(acks) \in Nat
         /\ \A i \in 1 .. Len(acks) : acks[i] \in Seq(Index) /\ Range(acks[i]) \subseteq Index
         /\ acks # << >> => 1 \in 1 .. Len(acks) /\ Head(acks) = acks[1]
<1>1. acks \in Seq(Seq(Index))
  BY DEF Types, TypeChannels
<1>2. \A i \in 1 .. Len(acks) : acks[i] \in Seq(Index)
  BY <1>1, ElementOfSeq
<1> QED BY <1>1, <1>2, RangeTyped, LenProperties, EmptySeq

\* compositor_render notes a buffer in updated_indexes.
LEMMA UpdatedAppend ==
  ASSUME Types, UpdatedOnce, NEW b \in Index, updated' = Append(updated, b),
         b \notin Updated
  PROVE  Updated' = Updated \cup {b} /\ UpdatedOnce'
<1>1. /\ Len(updated') = Len(updated) + 1 /\ updated'[Len(updated) + 1] = b
      /\ \A i \in 1 .. Len(updated) : updated'[i] = updated[i]
      /\ Len(updated) \in Nat
  BY UpdatedTyped, AppendProperties
<1>2. \A i \in 1 .. Len(updated') : i \in 1 .. Len(updated) \/ i = Len(updated) + 1
  BY <1>1
<1>3. /\ \A i \in 1 .. Len(updated) : i \in 1 .. Len(updated')
      /\ Len(updated) + 1 \in 1 .. Len(updated')
  BY <1>1
<1>4. ASSUME NEW c \in Index PROVE c \in Updated' <=> c \in Updated \/ c = b
  BY <1>1, <1>2, <1>3 DEF Updated
<1>5. UpdatedOnce'
  <2> SUFFICES ASSUME NEW i \in 1 .. Len(updated'), NEW j \in 1 .. Len(updated'), i # j
               PROVE  updated'[i] # updated'[j]
    BY DEF UpdatedOnce
  <2>1. \A k \in 1 .. Len(updated) : updated[k] # b
    BY DEF Updated
  <2> QED BY <1>1, <1>2, <2>1 DEF UpdatedOnce
<1>6. Updated \subseteq Index /\ Updated' \subseteq Index
  BY DEF Updated
<1> QED BY <1>4, <1>5, <1>6

\* Of the buffers in updated_indexes the skipped ones are taken out.
LEMMA UpdatedSkip ==
  ASSUME Types, UpdatedOnce,
         updated' = IF Len(updated) > 1 THEN << Last(updated) >> ELSE updated
  PROVE  /\ Updated' = Updated \ Range(Skipped) /\ Range(Skipped) \subseteq Updated
         /\ Skipped \in Seq(Index) /\ UpdatedOnce'
<1>1. CASE Len(updated) > 1
  <2>1. /\ Skipped = Front(updated) /\ Skipped \in Seq(Index)
        /\ Len(Skipped) = Len(updated) - 1 /\ Len(updated) \in Nat
        /\ \A i \in 1 .. Len(updated) - 1 : Skipped[i] = updated[i]
        /\ Last(updated) = updated[Len(updated)] /\ Last(updated) \in Index
    BY <1>1, UpdatedTyped, FrontTyped DEF Skipped
  <2>2. Range(Skipped) = {Skipped[i] : i \in 1 .. Len(Skipped)}
    BY <2>1, RangeTyped
  <2>3. Len(updated) \in 1 .. Len(updated)
    BY <1>1, <2>1
  <2>4. \A i \in 1 .. Len(updated) - 1 : i \in 1 .. Len(updated) /\ i # Len(updated)
    BY <2>1
  <2>5. \A i \in 1 .. Len(updated) : i = Len(updated) \/ i \in 1 .. Len(updated) - 1
    BY <2>1
  <2>6. Range(Skipped) = {updated[i] : i \in 1 .. Len(updated) - 1}
    BY <2>1, <2>2
  <2>7. Last(updated) \notin Range(Skipped)
    BY <2>1, <2>3, <2>4, <2>6 DEF UpdatedOnce
  <2>8. Updated = Range(Skipped) \cup {Last(updated)}
    BY <2>1, <2>3, <2>4, <2>5, <2>6, UpdatedTyped
  <2>9. updated' = << Last(updated) >>
    BY <1>1
  <2>10. Updated' = {Last(updated)}
    BY <2>1, <2>9 DEF Updated
  <2>11. UpdatedOnce'
    BY <2>9 DEF UpdatedOnce
  <2> QED BY <2>1, <2>7, <2>8, <2>10, <2>11
<1>2. CASE ~(Len(updated) > 1)
  <2>1. Skipped = << >> /\ updated' = updated
    BY <1>2 DEF Skipped
  <2>2. Skipped \in Seq(Index) /\ Range(Skipped) = {}
    <3>1. Skipped \in Seq(Index) /\ Len(Skipped) = 0
      BY <2>1, EmptySeq
    <3>2. Range(Skipped) = {Skipped[i] : i \in 1 .. Len(Skipped)}
      BY <3>1, RangeTyped
    <3>3. \A i \in 1 .. Len(Skipped) : FALSE
      BY <3>1
    <3> QED BY <3>1, <3>2, <3>3
  <2> QED BY <2>1, <2>2 DEF Updated, UpdatedOnce
<1> QED BY <1>1, <1>2

\* An acknowledgement is sent.
LEMMA AckingAppend ==
  ASSUME Types, AckingOnce, NEW s \in Seq(Index), acks' = Append(acks, s),
         Range(s) \cap Acking = {}
  PROVE  Acking' = Acking \cup Range(s) /\ AckingOnce'
<1>1. /\ Len(acks') = Len(acks) + 1 /\ acks'[Len(acks) + 1] = s
      /\ \A i \in 1 .. Len(acks) : acks'[i] = acks[i]
      /\ Len(acks) \in Nat
  BY AcksTyped, AppendProperties
<1>2. \A i \in 1 .. Len(acks') : i \in 1 .. Len(acks) \/ i = Len(acks) + 1
  BY <1>1
<1>3. /\ \A i \in 1 .. Len(acks) : i \in 1 .. Len(acks')
      /\ Len(acks) + 1 \in 1 .. Len(acks')
  BY <1>1
<1>4. Range(s) \subseteq Index
  BY RangeTyped
<1>5. ASSUME NEW b \in Index PROVE b \in Acking' <=> b \in Acking \/ b \in Range(s)
  BY <1>1, <1>2, <1>3 DEF Acking
<1>6. Acking \subseteq Index /\ Acking' \subseteq Index
  BY DEF Acking
<1>7. \A i \in 1 .. Len(acks) : Range(acks[i]) \subseteq Acking
  BY AcksTyped DEF Acking
<1>8. AckingOnce'
  <2> SUFFICES ASSUME NEW i \in 1 .. Len(acks'), NEW j \in 1 .. Len(acks'), i # j
               PROVE  Range(acks'[i]) \cap Range(acks'[j]) = {}
    BY DEF AckingOnce
  <2>1. /\ i \in 1 .. Len(acks) \/ acks'[i] = s
        /\ j \in 1 .. Len(acks) \/ acks'[j] = s
        /\ i \in 1 .. Len(acks) \/ j \in 1 .. Len(acks)
    BY <1>1, <1>2
  <2> QED BY <1>1, <1>7, <2>1 DEF AckingOnce
<1> QED BY <1>4, <1>5, <1>6, <1>8

\* swap_completed_loop takes the first acknowledgement.
LEMMA AckingTail ==
  ASSUME Types, AckingOnce, acks # << >>, acks' = Tail(acks)
  PROVE  /\ Acking' = Acking \ Range(Head(acks)) /\ Range(Head(acks)) \subseteq Acking
         /\ AckingOnce'
<1>1. /\ Len(acks') = Len(acks) - 1 /\ Len(acks) \in Nat
      /\ \A i \in 1 .. Len(acks') : acks'[i] = acks[i + 1]
      /\ Head(acks) = acks[1] /\ 1 \in 1 .. Len(acks)
  BY AcksTyped, HeadTailProperties
<1>2. \A i \in 1 .. Len(acks') : i + 1 \in 1 .. Len(acks) /\ i + 1 # 1
  BY <1>1
<1>3. \A i \in 1 .. Len(acks) : i = 1 \/ (i - 1 \in 1 .. Len(acks') /\ acks'[i - 1] = acks[i])
  BY <1>1
<1>4. Range(Head(acks)) \subseteq Acking
  BY <1>1, AcksTyped DEF Acking
<1>5. ASSUME NEW b \in Acking' PROVE b \in Acking /\ b \notin Range(Head(acks))
  <2>1. PICK i \in 1 .. Len(acks') : b \in Range(acks'[i])
    BY <1>5 DEF Acking
  <2>2. acks'[i] = acks[i + 1] /\ i + 1 \in 1 .. Len(acks) /\ i + 1 # 1
    BY <1>1, <1>2
  <2>3. Range(acks[i + 1]) \cap Range(acks[1]) = {}
    BY <1>1, <2>2 DEF AckingOnce
  <2> QED BY <1>1, <1>5, <2>1, <2>2, <2>3 DEF Acking
<1>6. ASSUME NEW b \in Acking, b \notin Range(Head(acks)) PROVE b \in Acking'
  <2>1. PICK i \in 1 .. Len(acks) : b \in Range(acks[i])
    BY <1>6 DEF Acking
  <2>2. i # 1
    BY <1>1, <1>6, <2>1
  <2> QED BY <1>3, <1>6, <2>1, <2>2 DEF Acking
<1>7. AckingOnce'
  <2> SUFFICES ASSUME NEW i \in 1 .. Len(acks'), NEW j \in 1 .. Len(acks'), i # j
               PROVE  Range(acks'[i]) \cap Range(acks'[j]) = {}
    BY DEF AckingOnce
  <2>1. i + 1 \in 1 .. Len(acks) /\ j + 1 \in 1 .. Len(acks) /\ i + 1 # j + 1
    BY <1>2
  <2>2. acks'[i] = acks[i + 1] /\ acks'[j] = acks[j + 1]
    BY <1>1
  <2> QED BY <2>1, <2>2 DEF AckingOnce
<1> QED BY <1>4, <1>5, <1>6, <1>7

\* What writes to none of the channels changes no place.
LEMMA PlacesStay ==
  /\ UNCHANGED control => Sent' = Sent /\ (SentOnce => SentOnce')
  /\ UNCHANGED requests => Requested' = Requested /\ (RequestedOnce => RequestedOnce')
  /\ UNCHANGED updated => Updated' = Updated /\ (UpdatedOnce => UpdatedOnce')
  /\ UNCHANGED acks => Acking' = Acking /\ (AckingOnce => AckingOnce')
<1>1. UNCHANGED control => Sent' = Sent /\ (SentOnce => SentOnce')
  BY DEF Sent, SentOnce
<1>2. UNCHANGED requests => Requested' = Requested /\ (RequestedOnce => RequestedOnce')
  BY DEF Requested, RequestedOnce
<1>3. UNCHANGED updated => Updated' = Updated /\ (UpdatedOnce => UpdatedOnce')
  BY DEF Updated, UpdatedOnce
<1>4. UNCHANGED acks => Acking' = Acking /\ (AckingOnce => AckingOnce')
  BY DEF Acking, AckingOnce
<1> QED BY <1>1, <1>2, <1>3, <1>4

(***************************************************************************)
(* The buffer rvgpu_egl_draw is at: what it draws to is free, and where    *)
(* there are hardware buffers one is made anew only before its first frame.*)
(***************************************************************************)
Making ==
  /\ pc \in {"write", "send"} => status[idx] = 0
  /\ pc = "send" => picture[idx] = drawn + 1
  /\ pc # "idle" => size[idx] # 0
  /\ pc = "create" /\ Hardware => status[idx] = 0
  /\ Hardware => \A b \in Index : status[b] = 1 => size[b] # 0

\* Every step keeps the places apart and their buffers busy.
LEMMA PlacesNext ==
  ASSUME Types, Places, Making, [Next]_vars
  PROVE  Places'
<1> USE DEF renderVars, bufferVars, makeVars, compVars
<1>1. /\ SentOnce /\ RequestedOnce /\ UpdatedOnce /\ AckingOnce
      /\ Sent \subseteq Index /\ Requested \subseteq Index
      /\ Updated \subseteq Index /\ Acking \subseteq Index
      /\ idx \in Index /\ status \in [Index -> {0, 1}]
  BY DEF Places, Sent, Requested, Updated, Acking, Types, TypeRender
<1>2. CASE UNCHANGED << control, requests, updated, acks, status >>
  BY <1>2, PlacesStay DEF Places, Apart, Busy
<1>3. ASSUME NEW s \in Sizes, Begin(s) PROVE Places'
  <2>1. CASE size[idx] = s
    BY <1>2, <1>3, <2>1 DEF Begin
  <2>2. CASE size[idx] # s
    <3>1. PICK m \in Messages : m = [type |-> "CREATE", idx |-> idx]
      BY <1>1 DEF Messages
    <3>2. Sent' = Sent /\ SentOnce'
      BY <1>1, <1>3, <2>2, <3>1, SentAppend DEF Begin
    <3> QED
      BY <1>1, <1>3, <3>2, PlacesStay DEF Begin, Places, Apart, Busy
  <2> QED BY <2>1, <2>2
<1>4. CASE Wait \/ Finish
  BY <1>2, <1>4 DEF Wait, Finish
<1>5. CASE Send
  <2>1. status[idx] = 0 /\ idx \notin Sent \cup Requested \cup Updated \cup Acking
    BY <1>1, <1>5 DEF Send, Making, Places, Busy
  <2>2. drawn + 1 \in Frame
    BY <1>5, BoundsAssumption DEF Send, Types, TypeRender, Frame
  <2>3. PICK m \in Messages : m = [type |-> "DRAW", idx |-> idx, frame |-> drawn + 1]
    BY <1>1, <2>2 DEF Messages
  <2>4. Sent' = Sent \cup {idx} /\ SentOnce'
    BY <1>1, <1>5, <2>1, <2>3, SentAppend DEF Send
  <2>5. /\ Requested' = Requested /\ Updated' = Updated /\ Acking' = Acking
        /\ RequestedOnce' /\ UpdatedOnce' /\ AckingOnce'
    BY <1>1, <1>5, PlacesStay DEF Send
  <2>6. \A b \in Index : status[b] = 1 \/ b = idx => status'[b] = 1
    BY <1>1, <1>5 DEF Send
  <2>7. Apart'
    BY <2>1, <2>4, <2>5 DEF Places, Apart
  <2>8. Busy'
    BY <1>1, <2>4, <2>5, <2>6 DEF Places, Busy
  <2> QED BY <2>4, <2>5, <2>7, <2>8 DEF Places
<1>6. CASE Acked
  <2>1. /\ Acking' = Acking \ Range(Head(acks)) /\ Range(Head(acks)) \subseteq Acking
        /\ AckingOnce'
    BY <1>1, <1>6, AckingTail DEF Acked
  <2>2. /\ Requested' = Requested /\ Updated' = Updated /\ Sent' = Sent
        /\ RequestedOnce' /\ UpdatedOnce' /\ SentOnce'
    BY <1>1, <1>6, PlacesStay DEF Acked
  <2>3. \A b \in Index : b \notin Range(Head(acks)) => status'[b] = status[b]
    BY <1>6 DEF Acked
  <2>4. Apart'
    BY <2>1, <2>2 DEF Places, Apart
  <2>5. Busy'
    BY <1>1, <2>1, <2>2, <2>3 DEF Places, Apart, Busy
  <2> QED BY <2>1, <2>2, <2>4, <2>5 DEF Places
<1>7. CASE Create
  <2>1. Sent' = Sent /\ SentOnce'
    BY <1>1, <1>7, SentTail DEF Create
  <2> QED BY <1>1, <1>7, <2>1, PlacesStay DEF Create, Places, Apart, Busy
<1>8. CASE Forward
  <2>1. /\ Sent' = Sent \ {Head(control).idx} /\ Head(control).idx \in Sent
        /\ SentOnce'
    BY <1>1, <1>8, SentTail DEF Forward
  <2>2. Head(control) \in Messages /\ Head(control).type = "DRAW"
    BY <1>8, ControlTyped DEF Forward
  <2>3. Direct(Head(control).idx) \in BOOLEAN
    BY Zenon DEF Direct
  <2>4. PICK r \in Draws :
          r = [idx |-> Head(control).idx, frame |-> Head(control).frame,
               direct |-> Direct(Head(control).idx)]
    BY <2>2, <2>3 DEF Messages, Draws
  <2>5. r # << >> /\ r.idx = Head(control).idx
    BY <2>4
  <2>6. requests' = Append(requests, r)
    BY <1>8, <2>4 DEF Forward
  <2>7. Requested' = Requested \cup {Head(control).idx} /\ RequestedOnce'
    BY <1>1, <2>1, <2>5, <2>6, RequestedAppend DEF Places, Apart
  <2>8. /\ Updated' = Updated /\ Acking' = Acking /\ UpdatedOnce' /\ AckingOnce'
    BY <1>1, <1>8, PlacesStay DEF Forward
  <2> QED
    BY <1>1, <1>8, <2>1, <2>7, <2>8 DEF Forward, Places, Apart, Busy
<1>9. CASE Other
  <2>1. Requested' = Requested /\ RequestedOnce'
    BY <1>1, <1>9, RequestedAppend DEF Other
  <2> QED BY <1>1, <1>9, <2>1, PlacesStay DEF Other, Places, Apart, Busy
<1>10. CASE Receive
  <2>1. /\ Requested' = IF Head(requests) # << >> THEN Requested \ {Head(requests).idx}
                                                  ELSE Requested
        /\ Head(requests) # << >> => Head(requests).idx \in Requested
        /\ RequestedOnce'
    BY <1>1, <1>10, RequestedTail DEF Receive
  <2>2. CASE Head(requests) = << >>
    BY <1>1, <1>10, <2>1, <2>2, PlacesStay DEF Receive, Places, Apart, Busy
  <2>3. CASE Head(requests) # << >>
    <3>1. Updated' = Updated \cup {Head(requests).idx} /\ UpdatedOnce'
      BY <1>1, <1>10, <2>1, <2>3, UpdatedAppend DEF Receive, Places, Apart
    <3> QED
      BY <1>1, <1>10, <2>1, <2>3, <3>1, PlacesStay DEF Receive, Places, Apart, Busy
  <2> QED BY <2>2, <2>3
<1>11. CASE Drained \/ Compose
  BY <1>2, <1>11 DEF Drained, Compose
<1>12. CASE Skip
  <2>1. /\ Updated' = Updated \ Range(Skipped) /\ Range(Skipped) \subseteq Updated
        /\ Skipped \in Seq(Index) /\ UpdatedOnce'
    BY <1>1, <1>12, UpdatedSkip DEF Skip
  <2>2. Acking' = Acking \cup Range(Skipped) /\ AckingOnce'
    <3>1. CASE Skipped = << >>
      <4>1. Range(Skipped) = {Skipped[i] : i \in 1 .. Len(Skipped)}
        BY <2>1, RangeTyped
      <4>2. \A i \in 1 .. Len(Skipped) : FALSE
        BY <3>1, EmptySeq
      <4> QED BY <1>1, <1>12, <3>1, <4>1, <4>2, PlacesStay DEF Skip
    <3>2. CASE Skipped # << >>
      BY <1>1, <1>12, <2>1, <3>2, AckingAppend DEF Skip, Places, Apart
    <3> QED BY <3>1, <3>2
  <2> QED
    BY <1>1, <1>12, <2>1, <2>2, PlacesStay DEF Skip, Places, Apart, Busy
<1>13. CASE Acknowledge
  <2>1. Updated = Range(updated) /\ updated \in Seq(Index) /\ updated' = << >>
    BY <1>13, UpdatedTyped DEF Acknowledge
  <2>2. Updated' = {} /\ UpdatedOnce'
    BY <2>1 DEF Updated, UpdatedOnce
  <2>3. Acking' = Acking \cup Updated /\ AckingOnce'
    <3>1. CASE updated = << >>
      <4>1. Updated = {}
        BY <3>1 DEF Updated
      <4> QED BY <1>1, <1>13, <3>1, <4>1, PlacesStay DEF Acknowledge
    <3>2. CASE updated # << >>
      BY <1>1, <1>13, <2>1, <3>2, AckingAppend DEF Acknowledge, Places, Apart
    <3> QED BY <3>1, <3>2
  <2> QED
    BY <1>1, <1>13, <2>2, <2>3, PlacesStay DEF Acknowledge, Places, Apart, Busy
<1>14. CASE UNCHANGED vars
  BY <1>2, <1>14 DEF vars
<1>15. CASE Drop
  <2>1. /\ Sent' = Sent \ {Head(control).idx} /\ Head(control).idx \in Sent
        /\ SentOnce'
    BY <1>1, <1>15, SentTail DEF Drop
  <2> QED BY <1>1, <1>15, <2>1, PlacesStay DEF Drop, Places, Apart, Busy
<1> QED
  BY <1>3, <1>4, <1>5, <1>6, <1>7, <1>8, <1>9, <1>10, <1>11, <1>12, <1>13, <1>14, <1>15
  DEF Next, Render, Request, Compositor

\* A hardware buffer is made anew before its first frame only, as the window
\* has one size; and rvgpu_egl_draw waits for composit_status.
LEMMA MakingNext ==
  ASSUME Types, Making, [Next]_vars, Vsync,
         Hardware => \A s, t \in Sizes : s = t
  PROVE  Making'
<1> USE DEF renderVars, bufferVars, makeVars, compVars
<1>1. /\ idx \in Index /\ status \in [Index -> {0, 1}] /\ drawn \in Frame
      /\ size \in [Index -> Sizes \cup {0}] /\ picture \in [Index -> Frame]
      /\ \A s \in Sizes : s # 0
  BY SizesAssumption DEF Types, TypeRender, TypeBuffers
<1>2. CASE UNCHANGED << renderVars, picture >>
  BY <1>2 DEF Making
<1>3. ASSUME NEW s \in Sizes, Begin(s) PROVE Making'
  <2>1. CASE size[idx] = s
    BY <1>1, <1>3, <2>1 DEF Begin, Making
  <2>2. CASE size[idx] # s
    <3>1. Hardware => status[idx] = 0
      BY <1>1, <2>2 DEF Making
    <3> QED BY <1>1, <1>3, <2>2, <3>1 DEF Begin, Making
  <2> QED BY <2>1, <2>2
<1>4. CASE Wait
  BY <1>1, <1>4 DEF Wait, Making
<1>5. CASE Finish
  BY <1>1, <1>5 DEF Finish, Making
<1>6. CASE Send
  BY <1>1, <1>6 DEF Send, Making
<1>7. CASE Acked
  <2>1. \A b \in Index : status'[b] = 0 \/ status'[b] = status[b]
    BY <1>7 DEF Acked
  <2> QED BY <1>1, <1>7, <2>1 DEF Acked, Making
<1>8. CASE Create
  <2>1. pc = "create"
    BY <1>8, ControlTyped DEF Create, Types, CreateLast
  <2>2. pc' \in {"wait", "idle"} /\ UNCHANGED << idx, status, drawn >>
    BY <1>8 DEF Create
  <2>3. CASE pc' = "wait"
    BY <1>1, <1>8, <2>1, <2>2, <2>3 DEF Create, Making
  <2>4. CASE pc' = "idle"
    BY <1>1, <1>8, <2>1, <2>2, <2>4 DEF Create, Making
  <2> QED BY <2>2, <2>3, <2>4
<1>9. CASE Forward \/ Drop \/ Other \/ Compositor
  BY <1>2, <1>9
  DEF Forward, Drop, Other, Compositor, Receive, Drained, Skip, Compose, Acknowledge
<1>10. CASE UNCHANGED vars
  BY <1>2, <1>10 DEF vars
<1> QED
  BY <1>3, <1>4, <1>5, <1>6, <1>7, <1>8, <1>9, <1>10 DEF Next, Render, Request

(***************************************************************************)
(* Each DRAW finds its frame: in its buffer while it is on the control     *)
(* socket, and afterwards where the compositor reads it.                   *)
(***************************************************************************)
Reads(r) == IF r.direct THEN picture[r.idx] ELSE texture[r.idx]

FoundSent ==
  \A i \in 1 .. Len(control) :
    control[i].type = "DRAW" => picture[control[i].idx] = control[i].frame

FoundRequested ==
  \A i \in 1 .. Len(requests) :
    requests[i] # << >> => /\ Reads(requests[i]) = requests[i].frame
                           /\ requests[i].direct => Hardware

FoundUpdated ==
  updated # << >> => /\ surface # << >> /\ surface.idx \in Updated
                     /\ surface.idx = updated[Len(updated)]
                     /\ Reads(surface) = surface.frame
                     /\ surface.direct => Hardware

Found == FoundSent /\ FoundRequested /\ FoundUpdated

\* What is not read for a DRAW under way may change.
LEMMA FoundStays ==
  ASSUME Types, Found, UNCHANGED << control, requests, updated, surface >>,
         \A b \in Sent : picture'[b] = picture[b],
         \A b \in Requested \cup Updated :
           texture'[b] = texture[b] /\ (Hardware => picture'[b] = picture[b])
  PROVE  Found'
<1>1. FoundSent'
  <2> SUFFICES ASSUME NEW i \in 1 .. Len(control), control[i].type = "DRAW"
               PROVE  picture'[control[i].idx] = control[i].frame
    BY DEF FoundSent
  <2>1. control[i].idx \in Sent
    BY ControlTyped DEF Sent, Messages
  <2> QED BY <2>1 DEF Found, FoundSent
<1>2. FoundRequested'
  <2> SUFFICES ASSUME NEW i \in 1 .. Len(requests), requests[i] # << >>
               PROVE  /\ Reads(requests[i])' = requests[i].frame
                      /\ requests[i].direct => Hardware
    BY DEF FoundRequested, Reads
  <2>1. requests[i].idx \in Requested
    BY RequestsTyped DEF Requested
  <2> QED BY <2>1 DEF Found, FoundRequested, Reads
<1>3. FoundUpdated'
  <2>1. Updated' = Updated
    BY PlacesStay
  <2> QED BY <2>1 DEF Found, FoundUpdated, Reads
<1> QED BY <1>1, <1>2, <1>3 DEF Found

\* Every step leaves each DRAW its frame.
LEMMA FoundNext ==
  ASSUME Types, Places, Making, Found, [Next]_vars, Vsync
  PROVE  Found'
<1> USE DEF renderVars, bufferVars, makeVars, compVars
<1>1. /\ idx \in Index /\ status \in [Index -> {0, 1}] /\ drawn \in Frame
      /\ picture \in [Index -> Frame] /\ texture \in [Index -> Frame]
      /\ Sent \subseteq Index /\ Requested \subseteq Index /\ Updated \subseteq Index
      /\ Types' /\ Places'
  BY TypesNext, PlacesNext
  DEF Types, TypeRender, TypeBuffers, Sent, Requested, Updated
<1>2. CASE UNCHANGED << control, requests, updated, surface, picture, texture >>
  BY <1>2, FoundStays
<1>3. ASSUME NEW s \in Sizes, Begin(s) PROVE Found'
  <2>1. CASE size[idx] = s
    BY <1>2, <1>3, <2>1 DEF Begin
  <2>2. CASE size[idx] # s
    <3>1. PICK m \in Messages : m = [type |-> "CREATE", idx |-> idx]
      BY <1>1 DEF Messages
    <3>2. /\ Len(control') = Len(control) + 1 /\ control'[Len(control) + 1] = m
          /\ \A i \in 1 .. Len(control) : control'[i] = control[i]
          /\ Len(control) \in Nat
      BY <1>3, <2>2, <3>1, ControlTyped, AppendProperties DEF Begin
    <3>3. \A i \in 1 .. Len(control') :
            i \in 1 .. Len(control) \/ control'[i].type = "CREATE"
      BY <3>1, <3>2
    <3>4. FoundSent'
      BY <1>3, <3>2, <3>3 DEF Begin, Found, FoundSent
    <3>5. FoundRequested' /\ FoundUpdated'
      BY <1>3, PlacesStay DEF Begin, Found, FoundRequested, FoundUpdated, Reads
    <3> QED BY <3>4, <3>5 DEF Found
  <2> QED BY <2>1, <2>2
<1>4. CASE Wait \/ Finish
  <2>1. status[idx] = 0
    BY <1>1, <1>4 DEF Wait, Finish, Making
  <2>2. idx \notin Sent \cup Requested \cup Updated
    BY <2>1 DEF Places, Busy
  <2>3. \A b \in Index : b # idx => picture'[b] = picture[b]
    BY <1>1, <1>4 DEF Wait, Finish
  <2> QED
    BY <1>1, <1>4, <2>2, <2>3, FoundStays DEF Wait, Finish
<1>5. CASE Send
  <2>1. drawn + 1 \in Frame
    BY <1>5, BoundsAssumption DEF Send, Types, TypeRender, Frame
  <2>2. PICK m \in Messages : m = [type |-> "DRAW", idx |-> idx, frame |-> drawn + 1]
    BY <1>1, <2>1 DEF Messages
  <2>3. /\ Len(control') = Len(control) + 1 /\ control'[Len(control) + 1] = m
        /\ \A i \in 1 .. Len(control) : control'[i] = control[i]
        /\ Len(control) \in Nat
    BY <1>5, <2>2, ControlTyped, AppendProperties DEF Send
  <2>4. \A i \in 1 .. Len(control') : i \in 1 .. Len(control) \/ control'[i] = m
    BY <2>3
  <2>5. picture[m.idx] = m.frame /\ UNCHANGED picture
    BY <1>5, <2>2 DEF Send, Making
  <2>6. FoundSent'
    BY <2>3, <2>4, <2>5 DEF Found, FoundSent
  <2>7. FoundRequested' /\ FoundUpdated'
    BY <1>5, PlacesStay DEF Send, Found, FoundRequested, FoundUpdated, Reads
  <2> QED BY <2>6, <2>7 DEF Found
<1>6. CASE Acked \/ Drained \/ Compose
  BY <1>2, <1>6 DEF Acked, Drained, Compose
<1>7. CASE Create
  <2>1. /\ pc = "create" /\ Len(control) = 1 /\ Head(control).idx = idx
    BY <1>7, ControlTyped DEF Create, Types, CreateLast
  <2>2. Len(control') = 0
    BY <1>7, <2>1, ControlTyped, HeadTailProperties DEF Create
  <2>3. FoundSent'
    BY <2>2 DEF FoundSent
  <2>4. \A b \in Requested \cup Updated : Hardware => picture'[b] = picture[b]
    BY <1>1, <1>7, <2>1 DEF Create, NewBuffer, Making, Places, Busy
  <2>5. FoundRequested'
    <3> SUFFICES ASSUME NEW i \in 1 .. Len(requests), requests[i] # << >>
                 PROVE  /\ Reads(requests[i])' = requests[i].frame
                        /\ requests[i].direct => Hardware
      BY <1>7 DEF Create, FoundRequested, Reads
    <3>1. requests[i].idx \in Requested
      BY RequestsTyped DEF Requested
    <3> QED BY <1>7, <2>4, <3>1 DEF Create, Found, FoundRequested, Reads
  <2>6. FoundUpdated'
    BY <1>7, <2>4, PlacesStay DEF Create, Found, FoundUpdated, Reads
  <2> QED BY <2>3, <2>5, <2>6 DEF Found
<1>8. CASE Forward
  <2>1. /\ Head(control).idx \in Sent
        /\ Len(control') = Len(control) - 1 /\ Len(control) \in Nat
        /\ \A i \in 1 .. Len(control') : control'[i] = control[i + 1]
        /\ Head(control) = control[1] /\ 1 \in 1 .. Len(control)
    BY <1>8, SentTail, ControlTyped, HeadTailProperties DEF Forward, Places
  <2>2. \A i \in 1 .. Len(control') : i + 1 \in 1 .. Len(control)
    BY <2>1
  <2>3. Head(control) \in Messages /\ Head(control).type = "DRAW"
    BY <1>8, ControlTyped DEF Forward
  <2> DEFINE direct == Direct(Head(control).idx)
  <2>4. direct \in BOOLEAN /\ (direct => Hardware)
    <3>1. direct => images # {} /\ (images # {} => Hardware)
      BY Zenon DEF Direct, Types, TypeBuffers
    <3>2. direct \in BOOLEAN
      BY Zenon DEF Direct
    <3> QED BY <3>1, <3>2
  <2>5. PICK r \in Draws :
          r = [idx |-> Head(control).idx, frame |-> Head(control).frame,
               direct |-> direct]
    BY <2>3, <2>4 DEF Messages, Draws
  <2>6. requests' = Append(requests, r)
    BY <1>8, <2>5 DEF Forward
  <2>7. /\ r.idx = Head(control).idx /\ r.frame = picture[r.idx]
        /\ (r.direct <=> direct) /\ (r.direct => Hardware)
    BY <2>1, <2>3, <2>4, <2>5 DEF Found, FoundSent
  <2>8. /\ \A b \in Index : b # r.idx => texture'[b] = texture[b]
        /\ ~direct => texture'[r.idx] = picture[r.idx]
        /\ UNCHANGED << picture, updated, surface >>
    BY <1>1, <1>8, <2>1, <2>7 DEF Forward, Copied
  <2>9. Reads(r)' = r.frame
    BY <2>7, <2>8 DEF Reads
  <2>10. FoundSent'
    BY <2>1, <2>2, <2>8 DEF Found, FoundSent
  <2>11. r.idx \notin Requested \cup Updated
    BY <2>1, <2>7 DEF Places, Apart
  <2>12. /\ Len(requests') = Len(requests) + 1 /\ requests'[Len(requests) + 1] = r
         /\ \A i \in 1 .. Len(requests) : requests'[i] = requests[i]
         /\ Len(requests) \in Nat
    BY <2>6, RequestsTyped, AppendProperties
  <2>13. ASSUME NEW i \in 1 .. Len(requests), requests[i] # << >>
         PROVE  (/\ Reads(requests[i]) = requests[i].frame
                 /\ requests[i].direct => Hardware)'
    <3>1. requests[i].idx \in Requested
      BY <2>13, RequestsTyped DEF Requested
    <3>2. Reads(requests[i]) = requests[i].frame /\ (requests[i].direct => Hardware)
      BY <2>13 DEF Found, FoundRequested
    <3>3. requests[i].idx \in Index /\ requests[i].idx # r.idx
      BY <1>1, <2>11, <3>1
    <3>4. texture'[requests[i].idx] = texture[requests[i].idx]
      BY <2>8, <3>3
    <3> QED BY <2>8, <2>12, <3>2, <3>4 DEF Reads
  <2>14. FoundRequested'
    <3> SUFFICES ASSUME NEW i \in 1 .. Len(requests'), requests'[i] # << >>
                 PROVE  (/\ Reads(requests[i]) = requests[i].frame
                         /\ requests[i].direct => Hardware)'
      BY DEF FoundRequested
    <3>1. i \in 1 .. Len(requests) \/ i = Len(requests) + 1
      BY <2>12
    <3>2. CASE i \in 1 .. Len(requests)
      BY <2>12, <2>13, <3>2
    <3>3. CASE i = Len(requests) + 1
      BY <2>7, <2>9, <2>12, <3>3 DEF Reads
    <3> QED BY <3>1, <3>2, <3>3
  <2>15. FoundUpdated'
    BY <1>1, <2>8, <2>11, PlacesStay DEF Found, FoundUpdated, Reads
  <2> QED BY <2>10, <2>14, <2>15 DEF Found
<1>9. CASE Other
  <2>1. /\ Len(requests') = Len(requests) + 1 /\ requests'[Len(requests) + 1] = << >>
        /\ \A i \in 1 .. Len(requests) : requests'[i] = requests[i]
        /\ Len(requests) \in Nat
    BY <1>9, RequestsTyped, AppendProperties DEF Other
  <2>2. \A i \in 1 .. Len(requests') : requests'[i] # << >> => i \in 1 .. Len(requests)
    BY <2>1
  <2>3. FoundRequested'
    BY <1>9, <2>1, <2>2 DEF Other, Found, FoundRequested, Reads
  <2>4. FoundSent' /\ FoundUpdated'
    BY <1>9, PlacesStay DEF Other, Found, FoundSent, FoundUpdated, Reads
  <2> QED BY <2>3, <2>4 DEF Found
<1>10. CASE Receive
  <2>1. /\ Len(requests') = Len(requests) - 1 /\ Len(requests) \in Nat
        /\ \A i \in 1 .. Len(requests') : requests'[i] = requests[i + 1]
        /\ Head(requests) = requests[1] /\ 1 \in 1 .. Len(requests)
    BY <1>10, RequestsTyped, HeadTailProperties DEF Receive
  <2>2. \A i \in 1 .. Len(requests') : i + 1 \in 1 .. Len(requests)
    BY <2>1
  <2>3. FoundRequested' /\ FoundSent'
    BY <1>10, <2>1, <2>2 DEF Receive, Found, FoundSent, FoundRequested, Reads
  <2>4. CASE Head(requests) = << >>
    BY <1>10, <2>3, <2>4, PlacesStay DEF Receive, Found, FoundUpdated, Reads
  <2>5. CASE Head(requests) # << >>
    <3>1. Head(requests).idx \in Index
      BY <2>1, <2>5, RequestsTyped
    <3>2. /\ Len(updated') = Len(updated) + 1 /\ Len(updated) \in Nat
          /\ updated'[Len(updated) + 1] = Head(requests).idx
      BY <1>10, <2>5, <3>1, UpdatedTyped, AppendProperties DEF Receive
    <3>3. Len(updated') \in 1 .. Len(updated')
      BY <3>2
    <3>4. Head(requests).idx \in Updated'
      BY <3>1, <3>2, <3>3 DEF Updated
    <3>5. FoundUpdated'
      BY <1>10, <2>1, <2>5, <3>2, <3>4
      DEF Receive, Found, FoundUpdated, FoundRequested, Reads
    <3> QED BY <2>3, <3>5 DEF Found
  <2> QED BY <2>4, <2>5
<1>11. CASE Skip
  <2>1. FoundSent' /\ FoundRequested'
    BY <1>11 DEF Skip, Found, FoundSent, FoundRequested, Reads
  <2>2. CASE Len(updated) > 1
    <3>1. updated # << >> /\ updated' = << Last(updated) >>
      BY <1>11, <2>2 DEF Skip
    <3>2. /\ Last(updated) = updated[Len(updated)] /\ Last(updated) \in Index
      BY <2>2, UpdatedTyped, FrontTyped
    <3>3. Len(updated') = 1 /\ updated'[1] = Last(updated)
      BY <3>1
    <3>4. Last(updated) \in Updated'
      BY <3>2, <3>3 DEF Updated
    <3>5. FoundUpdated'
      BY <1>11, <3>1, <3>2, <3>3, <3>4 DEF Skip, Found, FoundUpdated, Reads
    <3> QED BY <2>1, <3>5 DEF Found
  <2>3. CASE ~(Len(updated) > 1)
    BY <1>2, <1>11, <2>3 DEF Skip
  <2> QED BY <2>2, <2>3
<1>12. CASE Acknowledge
  BY <1>12
  DEF Acknowledge, Found, FoundSent, FoundRequested, FoundUpdated, Reads
<1>13. CASE UNCHANGED vars
  BY <1>2, <1>13 DEF vars
<1>14. CASE Drop
  <2>1. /\ Len(control') = Len(control) - 1 /\ Len(control) \in Nat
        /\ \A i \in 1 .. Len(control') : control'[i] = control[i + 1]
    BY <1>14, ControlTyped, HeadTailProperties DEF Drop
  <2>2. \A i \in 1 .. Len(control') : i + 1 \in 1 .. Len(control)
    BY <2>1
  <2>3. FoundSent'
    BY <1>14, <2>1, <2>2 DEF Drop, Found, FoundSent
  <2>4. FoundRequested' /\ FoundUpdated'
    BY <1>14, PlacesStay DEF Drop, Found, FoundRequested, FoundUpdated, Reads
  <2> QED BY <2>3, <2>4 DEF Found
<1> QED
  BY <1>3, <1>4, <1>5, <1>6, <1>7, <1>8, <1>9, <1>10, <1>11, <1>12, <1>13, <1>14
  DEF Next, Render, Request, Compositor

(***************************************************************************)
(* A free buffer has no DRAW or acknowledgement under way, and a frame to  *)
(* be shown is intact.                                                     *)
(***************************************************************************)
RingInv == Types /\ Places /\ Making /\ Found

\* In the beginning nothing is drawn.
LEMMA RingInit == Init => RingInv
<1> SUFFICES ASSUME Init PROVE RingInv
  OBVIOUS
<1>1. /\ Len(control) = 0 /\ Len(requests) = 0 /\ Len(updated) = 0 /\ Len(acks) = 0
  BY DEF Init
<1>2. Sent = {} /\ Requested = {} /\ Updated = {} /\ Acking = {}
  BY <1>1 DEF Sent, Requested, Updated, Acking
<1>3. Places
  BY <1>1, <1>2
  DEF Places, SentOnce, RequestedOnce, UpdatedOnce, AckingOnce, Apart, Busy
<1>4. Making
  BY IndexTyped DEF Init, Making
<1>5. Found
  BY <1>1 DEF Init, Found, FoundSent, FoundRequested, FoundUpdated
<1> QED BY <1>3, <1>4, <1>5, TypesInit DEF RingInv

\* The places are those of the acknowledgement under way.
LEMMA OutstandingPlaces ==
  ASSUME Types
  PROVE  Outstanding = Sent \cup Requested \cup Updated \cup Acking
<1>1. \A b : b \in {m.idx : m \in {x \in Range(control) : x.type = "DRAW"}} <=> b \in Sent
  <2>1. Range(control) = {control[i] : i \in 1 .. Len(control)}
    BY RangeTyped DEF Types, TypeChannels
  <2>2. \A i \in 1 .. Len(control) : control[i].idx \in Index
    BY ControlTyped DEF Messages
  <2> QED BY <2>1, <2>2 DEF Sent
<1>2. \A b : b \in {m.idx : m \in Range(requests) \ {<< >>}} <=> b \in Requested
  <2>1. Range(requests) = {requests[i] : i \in 1 .. Len(requests)}
    BY RangeTyped DEF Types, TypeChannels
  <2> QED BY <2>1, RequestsTyped DEF Requested
<1>3. Range(updated) = Updated
  BY UpdatedTyped
<1>4. \A b : b \in UNION {Range(a) : a \in Range(acks)} <=> b \in Acking
  <2>1. Range(acks) = {acks[i] : i \in 1 .. Len(acks)}
    BY RangeTyped DEF Types, TypeChannels
  <2> QED BY <2>1, AcksTyped DEF Acking
<1> QED BY <1>1, <1>2, <1>3, <1>4 DEF Outstanding

\* With vsync, and where a hardware buffer is not made anew (the window keeps
\* its size), composit_status keeps every buffer from the render process until
\* the compositor has given back what it was sent in it, and what is to be shown
\* is what was drawn.  A copied buffer may change its size.
THEOREM BuffersCorrect ==
  ASSUME Vsync, Hardware => \A s, t \in Sizes : s = t
  PROVE  Spec => []BuffersKept
<1>1. RingInv /\ [Next]_vars => RingInv'
  BY TypesNext, PlacesNext, MakingNext, FoundNext DEF RingInv
<1>2. RingInv => BuffersKept
  <2> SUFFICES ASSUME RingInv PROVE BuffersKept
    OBVIOUS
  <2>1. FreeIsFree
    BY OutstandingPlaces DEF RingInv, Places, Busy, FreeIsFree
  <2>2. FreshIntact
    BY DEF RingInv, Found, FoundUpdated, Reads, FreshIntact, Picture
  <2> QED BY <2>1, <2>2 DEF BuffersKept
<1> QED BY <1>1, <1>2, RingInit, PTL DEF Spec

(***************************************************************************)
(* The ring implements FrameService while only this surface is drawn.      *)
(***************************************************************************)

\* The last frame the compositor was told of.
Base == IF surface = << >> THEN 0 ELSE surface.frame

\* The frames rise through the channels,
Rising ==
  /\ Base <= drawn
  /\ \A i \in 1 .. Len(requests) :
       requests[i] # << >> /\ requests[i].frame \in Base + 1 .. drawn
  /\ \A i, j \in 1 .. Len(requests) : i < j => requests[i].frame < requests[j].frame
  /\ \A i \in 1 .. Len(control) : control[i].type = "DRAW" =>
       /\ control[i].frame \in Base + 1 .. drawn
       /\ \A j \in 1 .. Len(requests) : requests[j].frame < control[i].frame
  /\ \A i, j \in 1 .. Len(control) :
       i < j /\ control[i].type = "DRAW" /\ control[j].type = "DRAW"
       => control[i].frame < control[j].frame

\* one by one until a DRAW is dropped,
InOrder ==
  /\ \A i \in 1 .. Len(requests) :
       requests[i] # << >> /\ requests[i].frame = Base + i
  /\ \A i \in 1 .. Len(control) :
       control[i].type = "DRAW" => control[i].frame = Base + Len(requests) + i
  /\ pc = "create" => control # << >> /\ control[Len(control)].type = "CREATE"
  /\ drawn = Base + Len(requests) + Len(control) - (IF pc = "create" THEN 1 ELSE 0)

\* and what is shown is the last one the compositor was told of as soon as that
\* is to be acknowledged.
ShownLast ==
  /\ shown <= Base
  /\ updated = << >> \/ cpc = "ack" => shown = Base
  /\ woken \/ cpc # "poll" => updated # << >>

\* The buffers that are not free, each of which is in one of the places, or its
\* DRAW was dropped.
Taken == {b \in Index : status[b] = 1}

Tracked ==
  /\ Taken \subseteq Sent \cup Requested \cup Updated \cup Acking \cup dropped
  /\ dropped \subseteq Taken \ (Sent \cup Requested \cup Updated \cup Acking)
  /\ \A i \in 1 .. Len(acks) : acks[i] # << >>

OrderInv == /\ RingInv /\ Rising /\ ShownLast /\ Tracked
            /\ dropped = {} => InOrder

\* The numbers of the invariant.
LEMMA BaseTyped ==
  ASSUME Types
  PROVE  /\ Base \in Nat /\ drawn \in Nat /\ shown \in Nat
         /\ Len(requests) \in Nat /\ Len(control) \in Nat
         /\ \A r \in Draws : r # << >> /\ r.frame \in Nat
<1>1. \A r \in Draws : r # << >> /\ r.frame \in Nat
  BY BoundsAssumption DEF Draws, Frame
<1>2. /\ surface \in Draws \cup {<< >>} /\ drawn \in Nat /\ shown \in Nat
  BY BoundsAssumption DEF Types, TypeRender, TypeComp, Frame
<1> QED BY <1>1, <1>2, ControlTyped, RequestsTyped DEF Base

\* A DRAW that was dropped stays so.
LEMMA DroppedStays ==
  ASSUME [Next]_vars
  PROVE  dropped' = dropped \/ (Drop /\ dropped' # {})
BY DEF Next, Render, Request, Compositor, Begin, Wait, Finish, Send, Acked, Create,
       NewBuffer, Forward, Drop, Other, Receive, Drained, Skip, Compose, Acknowledge,
       vars, renderVars, bufferVars, makeVars, compVars

\* The frames keep their order.
LEMMA InOrderNext ==
  ASSUME OrderInv, [Next]_vars, MaxOthers = 0, dropped' = {}
  PROVE  InOrder'
<1> USE DEF renderVars, bufferVars, makeVars, compVars
<1>0. dropped = {} /\ (Drop => FALSE)
  BY DroppedStays DEF Drop
<1>1. /\ Types /\ InOrder /\ idx \in Index
      /\ Base \in Nat /\ drawn \in Nat /\ Len(requests) \in Nat /\ Len(control) \in Nat
  BY <1>0, BaseTyped DEF OrderInv, RingInv, Types, TypeRender
<1>2. CASE /\ UNCHANGED << requests, control, surface, drawn >>
           /\ (pc # "create" /\ pc' # "create") \/ UNCHANGED pc
  BY <1>1, <1>2 DEF InOrder, Base
<1>3. ASSUME NEW s \in Sizes, Begin(s) PROVE InOrder'
  <2>1. CASE size[idx] = s
    BY <1>2, <1>3, <2>1 DEF Begin
  <2>2. CASE size[idx] # s
    <3>1. PICK m \in Messages : m = [type |-> "CREATE", idx |-> idx]
      BY <1>1 DEF Messages
    <3>2. /\ Len(control') = Len(control) + 1 /\ control'[Len(control) + 1] = m
          /\ \A i \in 1 .. Len(control) : control'[i] = control[i]
          /\ control' # << >>
      BY <1>1, <1>3, <2>2, <3>1, ControlTyped, AppendProperties, EmptySeq DEF Begin
    <3>3. \A i \in 1 .. Len(control') :
            i \in 1 .. Len(control) \/ control'[i].type = "CREATE"
      BY <1>1, <3>1, <3>2
    <3>4. UNCHANGED << requests, Base, drawn >> /\ pc = "idle" /\ pc' = "create"
      BY <1>3, <2>2 DEF Begin, Base
    <3> QED BY <1>1, <3>1, <3>2, <3>3, <3>4 DEF InOrder
  <2> QED BY <2>1, <2>2
<1>4. CASE Wait \/ Finish
  BY <1>2, <1>4 DEF Wait, Finish
<1>5. CASE Send
  <2>1. drawn + 1 \in Frame
    BY <1>5, BoundsAssumption DEF Send, OrderInv, RingInv, Types, TypeRender, Frame, Making
  <2>2. PICK m \in Messages : m = [type |-> "DRAW", idx |-> idx, frame |-> drawn + 1]
    BY <1>1, <2>1 DEF Messages
  <2>3. /\ Len(control') = Len(control) + 1 /\ control'[Len(control) + 1] = m
        /\ \A i \in 1 .. Len(control) : control'[i] = control[i]
    BY <1>1, <1>5, <2>2, ControlTyped, AppendProperties DEF Send
  <2>4. \A i \in 1 .. Len(control') :
          i \in 1 .. Len(control) \/ (i = Len(control) + 1 /\ control'[i] = m)
    BY <1>1, <2>3
  <2>5. /\ UNCHANGED << requests, Base >> /\ pc # "create" /\ pc' # "create"
        /\ drawn' = drawn + 1
    BY <1>5 DEF Send, Base
  <2>6. drawn = Base + Len(requests) + Len(control)
    BY <1>1, <2>5 DEF InOrder
  <2>7. ASSUME NEW i \in 1 .. Len(control'), control'[i].type = "DRAW"
        PROVE  control'[i].frame = Base' + Len(requests') + i
    <3>1. CASE i \in 1 .. Len(control)
      <4>1. control'[i] = control[i] /\ control[i].type = "DRAW"
        BY <2>3, <2>7, <3>1
      <4> HIDE DEF Base
      <4>2. control[i].frame = Base + Len(requests) + i
        BY <1>1, <3>1, <4>1 DEF InOrder
      <4> QED BY <2>5, <4>1, <4>2
    <3>2. CASE i = Len(control) + 1 /\ control'[i] = m
      <4>1. control'[i].frame = drawn + 1
        BY <2>2, <3>2
      <4> HIDE DEF Base
      <4> QED BY <1>1, <2>5, <2>6, <3>2, <4>1
    <3> QED BY <2>4, <3>1, <3>2
  <2>8. \A i \in 1 .. Len(requests') :
          requests'[i] # << >> /\ requests'[i].frame = Base' + i
    BY <1>1, <2>5 DEF InOrder
  <2>9. drawn' = Base' + Len(requests') + Len(control')
                 - (IF pc' = "create" THEN 1 ELSE 0)
    BY <1>1, <2>3, <2>5, <2>6
  <2> HIDE DEF Base
  <2> QED BY <2>5, <2>7, <2>8, <2>9 DEF InOrder
<1>6. CASE Acked \/ Drained \/ Skip \/ Compose \/ Acknowledge
  BY <1>2, <1>6 DEF Acked, Drained, Skip, Compose, Acknowledge
<1>7. CASE Create
  <2>1. pc = "create" /\ Len(control) = 1
    BY <1>1, <1>7, ControlTyped DEF Create, Types, CreateLast
  <2>2. Len(control') = 0 /\ pc' # "create" /\ UNCHANGED << requests, Base, drawn >>
    BY <1>1, <1>7, <2>1, ControlTyped, HeadTailProperties DEF Create, Base
  <2>3. drawn = Base + Len(requests)
    BY <1>1, <2>1 DEF InOrder
  <2>4. \A i \in 1 .. Len(control') : FALSE
    BY <2>2
  <2>5. \A i \in 1 .. Len(requests') :
          requests'[i] # << >> /\ requests'[i].frame = Base' + i
    BY <1>1, <2>2 DEF InOrder
  <2>6. drawn' = Base' + Len(requests') + Len(control')
                 - (IF pc' = "create" THEN 1 ELSE 0)
    BY <1>1, <2>2, <2>3
  <2> QED BY <2>2, <2>4, <2>5, <2>6 DEF InOrder
<1>8. CASE Forward
  <2>1. /\ Len(control') = Len(control) - 1
        /\ \A i \in 1 .. Len(control') : control'[i] = control[i + 1]
        /\ Head(control) = control[1] /\ 1 \in 1 .. Len(control)
        /\ Head(control) \in Messages /\ control' \in Seq(Messages)
    BY <1>1, <1>8, ControlTyped, HeadTailProperties DEF Forward
  <2>2. \A i \in 1 .. Len(control') : i + 1 \in 1 .. Len(control)
    BY <1>1, <2>1
  <2>3. Direct(Head(control).idx) \in BOOLEAN
    BY Zenon DEF Direct
  <2>4. PICK r \in Draws :
          r = [idx |-> Head(control).idx, frame |-> Head(control).frame,
               direct |-> Direct(Head(control).idx)]
    BY <1>8, <2>1, <2>3 DEF Forward, Messages, Draws
  <2>5. r.frame = Base + Len(requests) + 1 /\ r # << >>
    BY <1>1, <1>8, <2>1, <2>4, BaseTyped DEF Forward, InOrder
  <2>6. /\ Len(requests') = Len(requests) + 1 /\ requests'[Len(requests) + 1] = r
        /\ \A i \in 1 .. Len(requests) : requests'[i] = requests[i]
    BY <1>1, <1>8, <2>4, RequestsTyped, AppendProperties DEF Forward
  <2>7. \A i \in 1 .. Len(requests') : i \in 1 .. Len(requests) \/ i = Len(requests) + 1
    BY <1>1, <2>6
  <2>8. UNCHANGED << pc, Base, drawn >>
    BY <1>8 DEF Forward, Base
  <2>9. pc = "create" => /\ control' # << >>
                         /\ control'[Len(control')].type = "CREATE"
    <3> SUFFICES ASSUME pc = "create"
                 PROVE  control' # << >> /\ control'[Len(control')].type = "CREATE"
      OBVIOUS
    <3>1. control[Len(control)].type = "CREATE" /\ Head(control).type = "DRAW"
      BY <1>1, <1>8 DEF InOrder, Forward
    <3>2. Len(control) # 1
      BY <2>1, <3>1
    <3>3. Len(control') \in 1 .. Len(control') /\ Len(control') + 1 = Len(control)
      BY <1>1, <2>1, <3>2
    <3>4. control' # << >>
      BY <3>3, EmptySeq
    <3> QED BY <2>1, <3>1, <3>3, <3>4
  <2>10. \A i \in 1 .. Len(requests') :
           requests'[i] # << >> /\ requests'[i].frame = Base' + i
    <3> SUFFICES ASSUME NEW i \in 1 .. Len(requests')
                 PROVE  requests'[i] # << >> /\ requests'[i].frame = Base' + i
      OBVIOUS
    <3> HIDE DEF Base
    <3>1. CASE i \in 1 .. Len(requests)
      <4>1. requests[i] # << >> /\ requests[i].frame = Base + i
        BY <1>1, <3>1 DEF InOrder
      <4>2. requests'[i] = requests[i]
        BY <2>6, <3>1
      <4> QED BY <2>8, <4>1, <4>2
    <3>2. CASE i = Len(requests) + 1
      <4>1. requests'[i] = r
        BY <2>6, <3>2
      <4>2. r.frame = Base + i
        BY <1>1, <2>5, <3>2
      <4> QED BY <2>5, <2>8, <4>1, <4>2
    <3> QED BY <2>7, <3>1, <3>2
  <2>11. \A i \in 1 .. Len(control') :
           control'[i].type = "DRAW" => control'[i].frame = Base' + Len(requests') + i
    <3> HIDE DEF Base
    <3> SUFFICES ASSUME NEW i \in 1 .. Len(control'), control'[i].type = "DRAW"
                 PROVE  control'[i].frame = Base' + Len(requests') + i
      OBVIOUS
    <3>1. i + 1 \in 1 .. Len(control) /\ control'[i] = control[i + 1]
      BY <2>1, <2>2
    <3>2. control[i + 1].frame = Base + Len(requests) + (i + 1)
      BY <1>1, <3>1 DEF InOrder
    <3> QED BY <1>1, <2>6, <2>8, <3>1, <3>2
  <2>12. drawn' = Base' + Len(requests') + Len(control')
                  - (IF pc' = "create" THEN 1 ELSE 0)
    BY <1>1, <2>1, <2>6, <2>8 DEF InOrder
  <2> QED BY <2>8, <2>9, <2>10, <2>11, <2>12 DEF InOrder
<1>9. CASE Other
  BY <1>1, <1>9 DEF Other, Types, TypeChannels
<1>10. CASE Receive
  <2>1. /\ Len(requests') = Len(requests) - 1
        /\ \A i \in 1 .. Len(requests') : requests'[i] = requests[i + 1]
        /\ Head(requests) = requests[1] /\ 1 \in 1 .. Len(requests)
    BY <1>1, <1>10, RequestsTyped, HeadTailProperties DEF Receive
  <2>2. \A i \in 1 .. Len(requests') : i + 1 \in 1 .. Len(requests)
    BY <1>1, <2>1
  <2>3. Head(requests) # << >> /\ Head(requests).frame = Base + 1
    BY <1>1, <2>1 DEF InOrder
  <2>4. Base' = Base + 1 /\ UNCHANGED << pc, control, drawn >>
    BY <1>10, <2>3 DEF Receive, Base
  <2> HIDE DEF Base
  <2>5. ASSUME NEW i \in 1 .. Len(requests')
        PROVE  requests'[i] # << >> /\ requests'[i].frame = Base' + i
    <3>1. /\ requests'[i] = requests[i + 1] /\ requests[i + 1] # << >>
          /\ requests[i + 1].frame = Base + (i + 1)
      BY <1>1, <2>1, <2>2 DEF InOrder
    <3> QED BY <1>1, <2>4, <3>1
  <2>6. ASSUME NEW i \in 1 .. Len(control'), control'[i].type = "DRAW"
        PROVE  control'[i].frame = Base' + Len(requests') + i
    <3>1. i \in 1 .. Len(control) /\ control[i].frame = Base + Len(requests) + i
      BY <1>1, <2>4, <2>6 DEF InOrder
    <3> QED BY <1>1, <2>1, <2>4, <3>1
  <2>7. drawn' = Base' + Len(requests') + Len(control')
                 - (IF pc' = "create" THEN 1 ELSE 0)
    BY <1>1, <2>1, <2>4 DEF InOrder
  <2>8. pc' = "create" => control' # << >> /\ control'[Len(control')].type = "CREATE"
    BY <1>1, <2>4 DEF InOrder
  <2> QED BY <2>5, <2>6, <2>7, <2>8 DEF InOrder
<1>11. CASE UNCHANGED vars
  BY <1>2, <1>11 DEF vars
<1> QED
  BY <1>0, <1>3, <1>4, <1>5, <1>6, <1>7, <1>8, <1>9, <1>10, <1>11
  DEF Next, Render, Request, Compositor

\* The frames rise, whether some are dropped or not.
LEMMA RisingNext ==
  ASSUME OrderInv, [Next]_vars, MaxOthers = 0
  PROVE  Rising'
<1> USE DEF renderVars, bufferVars, makeVars, compVars
<1>1. /\ Types /\ Rising /\ idx \in Index
      /\ Base \in Nat /\ drawn \in Nat /\ Len(requests) \in Nat /\ Len(control) \in Nat
  BY BaseTyped DEF OrderInv, RingInv, Types, TypeRender
<1>2. CASE UNCHANGED << requests, control, surface, drawn >>
  BY <1>1, <1>2 DEF Rising, Base
<1>3. ASSUME NEW s \in Sizes, Begin(s) PROVE Rising'
  <2>1. CASE size[idx] = s
    BY <1>2, <1>3, <2>1 DEF Begin
  <2>2. CASE size[idx] # s
    <3>1. PICK m \in Messages : m = [type |-> "CREATE", idx |-> idx]
      BY <1>1 DEF Messages
    <3>2. /\ Len(control') = Len(control) + 1 /\ control'[Len(control) + 1] = m
          /\ \A i \in 1 .. Len(control) : control'[i] = control[i]
      BY <1>1, <1>3, <2>2, <3>1, ControlTyped, AppendProperties DEF Begin
    <3>3. \A i \in 1 .. Len(control') : control'[i].type = "DRAW" =>
            i \in 1 .. Len(control) /\ control'[i] = control[i]
      BY <1>1, <3>1, <3>2
    <3>4. UNCHANGED << requests, Base, drawn >>
      BY <1>3 DEF Begin, Base
    <3> HIDE DEF Base
    <3> QED BY <1>1, <3>3, <3>4 DEF Rising
  <2> QED BY <2>1, <2>2
<1>4. CASE Wait \/ Finish
  BY <1>2, <1>4 DEF Wait, Finish
<1>5. CASE Send
  <2>1. drawn + 1 \in Frame
    BY <1>5, BoundsAssumption DEF Send, OrderInv, RingInv, Types, TypeRender, Frame, Making
  <2>2. PICK m \in Messages : m = [type |-> "DRAW", idx |-> idx, frame |-> drawn + 1]
    BY <1>1, <2>1 DEF Messages
  <2>3. /\ Len(control') = Len(control) + 1 /\ control'[Len(control) + 1] = m
        /\ \A i \in 1 .. Len(control) : control'[i] = control[i]
    BY <1>1, <1>5, <2>2, ControlTyped, AppendProperties DEF Send
  <2>4. \A i \in 1 .. Len(control') :
          \/ i \in 1 .. Len(control) /\ control'[i] = control[i]
          \/ i = Len(control) + 1 /\ control'[i].frame = drawn + 1
    BY <1>1, <2>2, <2>3
  <2>5. UNCHANGED << requests, Base >> /\ drawn' = drawn + 1
    BY <1>5 DEF Send, Base
  <2> HIDE DEF Base
  <2>6. \A i \in 1 .. Len(requests) : requests[i] # << >> /\ requests[i].frame \in Base + 1 .. drawn'
    BY <1>1, <2>5 DEF Rising
  <2>7. \A i \in 1 .. Len(control') : control'[i].type = "DRAW" =>
          /\ control'[i].frame \in Base + 1 .. drawn'
          /\ \A j \in 1 .. Len(requests) : requests[j].frame < control'[i].frame
    <3> SUFFICES ASSUME NEW i \in 1 .. Len(control'), control'[i].type = "DRAW"
                 PROVE  /\ control'[i].frame \in Base + 1 .. drawn'
                        /\ \A j \in 1 .. Len(requests) :
                             requests[j].frame < control'[i].frame
      OBVIOUS
    <3>1. CASE i \in 1 .. Len(control) /\ control'[i] = control[i]
      BY <1>1, <2>5, <3>1 DEF Rising
    <3>2. CASE control'[i].frame = drawn + 1
      BY <1>1, <2>5, <3>2 DEF Rising
    <3> QED BY <2>4, <3>1, <3>2
  <2>8. ASSUME NEW i \in 1 .. Len(control'), NEW j \in 1 .. Len(control'), i < j,
               control'[i].type = "DRAW", control'[j].type = "DRAW"
        PROVE  control'[i].frame < control'[j].frame
    <3>1. i \in 1 .. Len(control)
      BY <1>1, <2>3, <2>8
    <3>2. control'[i] = control[i]
      BY <2>3, <3>1
    <3>3. control[i].frame \in Base + 1 .. drawn
      BY <1>1, <2>8, <3>1, <3>2 DEF Rising
    <3>4. CASE j \in 1 .. Len(control) /\ control'[j] = control[j]
      BY <1>1, <2>8, <3>1, <3>2, <3>4 DEF Rising
    <3>5. CASE control'[j].frame = drawn + 1
      BY <1>1, <3>2, <3>3, <3>5
    <3> QED BY <2>4, <3>4, <3>5
  <2> QED BY <1>1, <2>5, <2>6, <2>7, <2>8 DEF Rising
<1>6. CASE Acked \/ Drained \/ Skip \/ Compose \/ Acknowledge
  BY <1>2, <1>6 DEF Acked, Drained, Skip, Compose, Acknowledge
<1>7. ASSUME control # << >>, control' = Tail(control), UNCHANGED << surface, drawn >>
      PROVE  /\ \A i \in 1 .. Len(control') :
                  i + 1 \in 1 .. Len(control) /\ control'[i] = control[i + 1]
             /\ Base' = Base
             /\ Head(control) = control[1] /\ 1 \in 1 .. Len(control)
             /\ \A i, j \in 1 .. Len(control') :
                  i < j /\ control'[i].type = "DRAW" /\ control'[j].type = "DRAW"
                  => control'[i].frame < control'[j].frame
  <2>1. /\ Len(control') = Len(control) - 1
        /\ \A i \in 1 .. Len(control') : control'[i] = control[i + 1]
        /\ Head(control) = control[1] /\ 1 \in 1 .. Len(control)
    BY <1>1, <1>7, ControlTyped, HeadTailProperties
  <2>2. \A i \in 1 .. Len(control') : i + 1 \in 1 .. Len(control)
    BY <1>1, <2>1
  <2>3. ASSUME NEW i \in 1 .. Len(control'), NEW j \in 1 .. Len(control'), i < j,
               control'[i].type = "DRAW", control'[j].type = "DRAW"
        PROVE  control'[i].frame < control'[j].frame
    <3>1. /\ i + 1 \in 1 .. Len(control) /\ j + 1 \in 1 .. Len(control) /\ i + 1 < j + 1
          /\ control'[i] = control[i + 1] /\ control'[j] = control[j + 1]
      BY <1>1, <2>1, <2>2, <2>3
    <3> QED BY <1>1, <2>3, <3>1 DEF Rising
  <2> QED BY <1>7, <2>1, <2>2, <2>3 DEF Base
<1>8. CASE Create \/ Drop
  <2>1. UNCHANGED << requests, drawn >>
    BY <1>8 DEF Create, NewBuffer, Drop
  <2>2. /\ \A i \in 1 .. Len(control') :
             i + 1 \in 1 .. Len(control) /\ control'[i] = control[i + 1]
        /\ Base' = Base
        /\ \A i, j \in 1 .. Len(control') :
             i < j /\ control'[i].type = "DRAW" /\ control'[j].type = "DRAW"
             => control'[i].frame < control'[j].frame
    BY <1>7, <1>8 DEF Create, NewBuffer, Drop
  <2> HIDE DEF Base
  <2>3. \A i \in 1 .. Len(control') : control'[i].type = "DRAW" =>
          /\ control'[i].frame \in Base + 1 .. drawn
          /\ \A j \in 1 .. Len(requests) : requests[j].frame < control'[i].frame
    BY <1>1, <2>2 DEF Rising
  <2> QED BY <1>1, <2>1, <2>2, <2>3 DEF Rising
<1>9. CASE Forward
  <2>1. /\ \A i \in 1 .. Len(control') :
             i + 1 \in 1 .. Len(control) /\ control'[i] = control[i + 1]
        /\ Base' = Base /\ UNCHANGED drawn
        /\ Head(control) = control[1] /\ 1 \in 1 .. Len(control)
        /\ \A i, j \in 1 .. Len(control') :
             i < j /\ control'[i].type = "DRAW" /\ control'[j].type = "DRAW"
             => control'[i].frame < control'[j].frame
    BY <1>7, <1>9 DEF Forward
  <2>2. Head(control) \in Messages /\ Head(control).type = "DRAW"
    BY <1>1, <1>9, <2>1, ControlTyped DEF Forward
  <2>3. Direct(Head(control).idx) \in BOOLEAN
    BY Zenon DEF Direct
  <2>4. PICK r \in Draws :
          r = [idx |-> Head(control).idx, frame |-> Head(control).frame,
               direct |-> Direct(Head(control).idx)]
    BY <2>2, <2>3 DEF Messages, Draws
  <2>5. r # << >> /\ r.frame = control[1].frame
    BY <1>1, <2>1, <2>4, BaseTyped
  <2>6. /\ Len(requests') = Len(requests) + 1 /\ requests'[Len(requests) + 1] = r
        /\ \A i \in 1 .. Len(requests) : requests'[i] = requests[i]
    BY <1>1, <1>9, <2>4, RequestsTyped, AppendProperties DEF Forward
  <2>7. \A i \in 1 .. Len(requests') :
          \/ i \in 1 .. Len(requests) /\ requests'[i] = requests[i]
          \/ i = Len(requests) + 1 /\ requests'[i] = r
    BY <1>1, <2>6
  <2> HIDE DEF Base
  <2>8. /\ r.frame \in Base + 1 .. drawn
        /\ \A j \in 1 .. Len(requests) : requests[j].frame < r.frame
        /\ \A i \in 1 .. Len(control') :
             control'[i].type = "DRAW" => r.frame < control'[i].frame
    <3>1. /\ r.frame \in Base + 1 .. drawn
          /\ \A j \in 1 .. Len(requests) : requests[j].frame < r.frame
      BY <1>1, <2>1, <2>2, <2>5 DEF Rising
    <3>2. ASSUME NEW i \in 1 .. Len(control'), control'[i].type = "DRAW"
          PROVE  r.frame < control'[i].frame
      <4>1. /\ i + 1 \in 1 .. Len(control) /\ 1 \in 1 .. Len(control) /\ 1 < i + 1
            /\ control'[i] = control[i + 1]
        BY <1>1, <2>1, <3>2
      <4>2. control[1].type = "DRAW" /\ control[i + 1].type = "DRAW"
        BY <2>1, <2>2, <3>2, <4>1
      <4>3. control[1].frame < control[i + 1].frame
        BY <1>1, <4>1, <4>2 DEF Rising
      <4> QED BY <2>5, <4>1, <4>3
    <3> QED BY <3>1, <3>2
  <2>9. \A i \in 1 .. Len(requests') :
          requests'[i] # << >> /\ requests'[i].frame \in Base' + 1 .. drawn'
    BY <1>1, <2>1, <2>5, <2>7, <2>8 DEF Rising
  <2>10. \A i, j \in 1 .. Len(requests') : i < j => requests'[i].frame < requests'[j].frame
    BY <1>1, <2>6, <2>7, <2>8 DEF Rising
  <2>11. \A i \in 1 .. Len(control') : control'[i].type = "DRAW" =>
           /\ control'[i].frame \in Base' + 1 .. drawn'
           /\ \A j \in 1 .. Len(requests') : requests'[j].frame < control'[i].frame
    BY <1>1, <2>1, <2>7, <2>8 DEF Rising
  <2>12. Base' <= drawn'
    BY <1>1, <2>1 DEF Rising
  <2> QED BY <2>1, <2>9, <2>10, <2>11, <2>12 DEF Rising
<1>10. CASE Other
  BY <1>1, <1>10 DEF Other, Types, TypeChannels
<1>11. CASE Receive
  <2>1. /\ Len(requests') = Len(requests) - 1
        /\ \A i \in 1 .. Len(requests') : requests'[i] = requests[i + 1]
        /\ Head(requests) = requests[1] /\ 1 \in 1 .. Len(requests)
    BY <1>1, <1>11, RequestsTyped, HeadTailProperties DEF Receive
  <2>2. \A i \in 1 .. Len(requests') : i + 1 \in 1 .. Len(requests) /\ 1 < i + 1
    BY <1>1, <2>1
  <2>3. Head(requests) # << >> /\ Head(requests).frame \in Base + 1 .. drawn
    BY <1>1, <2>1 DEF Rising
  <2>4. Base' = requests[1].frame /\ UNCHANGED << control, drawn >>
    BY <1>11, <2>1, <2>3 DEF Receive, Base
  <2>5. requests[1].frame \in Base + 1 .. drawn
    BY <2>1, <2>3
  <2> HIDE DEF Base
  <2>6. \A i \in 1 .. Len(requests') :
          requests'[i] # << >> /\ requests'[i].frame \in Base' + 1 .. drawn'
    <3> SUFFICES ASSUME NEW i \in 1 .. Len(requests')
                 PROVE  requests'[i] # << >> /\ requests'[i].frame \in Base' + 1 .. drawn'
      OBVIOUS
    <3>1. /\ requests'[i] = requests[i + 1] /\ i + 1 \in 1 .. Len(requests)
          /\ requests[i + 1] # << >> /\ requests[i + 1].frame \in Base + 1 .. drawn
          /\ requests[1].frame < requests[i + 1].frame
      BY <1>1, <2>1, <2>2 DEF Rising
    <3> QED BY <1>1, <2>4, <2>5, <3>1
  <2>7. ASSUME NEW i \in 1 .. Len(requests'), NEW j \in 1 .. Len(requests'), i < j
        PROVE  requests'[i].frame < requests'[j].frame
    <3>1. /\ requests'[i] = requests[i + 1] /\ i + 1 \in 1 .. Len(requests)
          /\ requests'[j] = requests[j + 1] /\ j + 1 \in 1 .. Len(requests)
          /\ i + 1 < j + 1
      BY <2>1, <2>2, <2>7
    <3> QED BY <1>1, <3>1 DEF Rising
  <2>8. \A i \in 1 .. Len(control) : control[i].type = "DRAW" =>
          /\ control[i].frame \in Base' + 1 .. drawn
          /\ \A j \in 1 .. Len(requests') : requests'[j].frame < control[i].frame
    <3> SUFFICES ASSUME NEW i \in 1 .. Len(control), control[i].type = "DRAW"
                 PROVE  /\ control[i].frame \in Base' + 1 .. drawn
                        /\ \A j \in 1 .. Len(requests') :
                             requests'[j].frame < control[i].frame
      OBVIOUS
    <3>1. /\ control[i].frame \in Base + 1 .. drawn
          /\ \A j \in 1 .. Len(requests) : requests[j].frame < control[i].frame
      BY <1>1 DEF Rising
    <3>2. control[i].frame \in Base' + 1 .. drawn
      BY <1>1, <2>1, <2>4, <2>5, <3>1
    <3>3. \A j \in 1 .. Len(requests') : requests'[j].frame < control[i].frame
      BY <2>1, <2>2, <3>1
    <3> QED BY <3>2, <3>3
  <2>9. Base' <= drawn'
    BY <1>1, <2>4, <2>5
  <2>10. \A i, j \in 1 .. Len(control) :
          i < j /\ control[i].type = "DRAW" /\ control[j].type = "DRAW"
          => control[i].frame < control[j].frame
    BY <1>1 DEF Rising
  <2>11. \A i, j \in 1 .. Len(requests') : i < j => requests'[i].frame < requests'[j].frame
    BY <2>7
  <2> QED BY <2>4, <2>6, <2>8, <2>9, <2>10, <2>11 DEF Rising
<1>12. CASE UNCHANGED vars
  BY <1>2, <1>12 DEF vars
<1> QED
  BY <1>3, <1>4, <1>5, <1>6, <1>8, <1>9, <1>10, <1>11, <1>12
  DEF Next, Render, Request, Compositor

\* What is shown is what was last sent once it is to be acknowledged.
LEMMA ShownLastNext ==
  ASSUME OrderInv, [Next]_vars, MaxOthers = 0
  PROVE  ShownLast'
<1> USE DEF renderVars, bufferVars, makeVars, compVars
<1>1. /\ Types /\ ShownLast /\ Rising /\ Found
      /\ Base \in Nat /\ shown \in Nat /\ woken \in BOOLEAN
  BY BaseTyped DEF OrderInv, RingInv, Types, TypeComp
<1>2. CASE UNCHANGED compVars
  BY <1>1, <1>2 DEF ShownLast, Base
<1>3. CASE Receive
  <2>1. 1 \in 1 .. Len(requests) /\ Head(requests) = requests[1]
    BY <1>1, <1>3, RequestsTyped DEF Receive
  <2>2. Head(requests) # << >> /\ Head(requests).frame \in Base + 1 .. drawn
    BY <1>1, <2>1 DEF Rising
  <2>3. Head(requests).idx \in Index
    BY <1>1, <2>1, <2>2, RequestsTyped
  <2>4. updated' # << >>
    BY <1>1, <1>3, <2>2, <2>3, UpdatedTyped, AppendProperties, EmptySeq DEF Receive
  <2>5. Base' = Head(requests).frame
    BY <1>3, <2>2 DEF Receive, Base
  <2>6. Base' \in Nat /\ Base' > Base
    <3>1. drawn \in Nat
      BY <1>1, BaseTyped
    <3> QED BY <1>1, <2>2, <2>5, <3>1
  <2> QED BY <1>1, <1>3, <2>4, <2>6 DEF Receive, ShownLast
<1>4. CASE Drained
  BY <1>1, <1>4 DEF Drained, ShownLast, Base
<1>5. CASE Skip
  <2>1. updated' # << >> <=> updated # << >>
    BY <1>5, EmptySeq DEF Skip
  <2> QED BY <1>1, <1>5, <2>1 DEF Skip, ShownLast, Base
<1>6. CASE Compose
  <2>1. surface # << >> /\ Reads(surface) = surface.frame
    BY <1>1, <1>6 DEF Compose, ShownLast, Found, FoundUpdated
  <2>2. shown' = Base /\ Base' = Base
    BY <1>6, <2>1 DEF Compose, Picture, Reads, Base
  <2> QED BY <1>1, <1>6, <2>2 DEF Compose, ShownLast
<1>7. CASE Acknowledge
  BY <1>1, <1>7 DEF Acknowledge, ShownLast, Base
<1>8. CASE Render \/ Request \/ Acked \/ Other \/ UNCHANGED vars
  BY <1>2, <1>8
  DEF Render, Request, Begin, Wait, Finish, Send, Create, NewBuffer, Forward, Drop, Acked, Other, vars
<1> QED BY <1>3, <1>4, <1>5, <1>6, <1>7, <1>8 DEF Next, Compositor

\* A buffer that is taken stays in one of the places until it is given back.
LEMMA TrackedNext ==
  ASSUME OrderInv, [Next]_vars, MaxOthers = 0
  PROVE  Tracked'
<1> USE DEF renderVars, bufferVars, makeVars, compVars
<1>1. /\ Types /\ Places /\ Tracked /\ idx \in Index /\ status \in [Index -> {0, 1}]
      /\ SentOnce /\ RequestedOnce /\ UpdatedOnce /\ AckingOnce
      /\ Requested \subseteq Index
      /\ Taken \subseteq Sent \cup Requested \cup Updated \cup Acking \cup dropped
      /\ dropped \subseteq Taken
      /\ dropped \cap (Sent \cup Requested \cup Updated \cup Acking) = {}
  BY DEF OrderInv, RingInv, Places, Types, TypeRender, Requested, Tracked
<1>2. CASE UNCHANGED << status, dropped, control, requests, updated, acks >>
  BY <1>1, <1>2, PlacesStay DEF Tracked, Taken
<1>3. ASSUME NEW s \in Sizes, Begin(s) PROVE Tracked'
  <2>1. CASE size[idx] = s
    BY <1>2, <1>3, <2>1 DEF Begin
  <2>2. CASE size[idx] # s
    <3>1. PICK m \in Messages : m = [type |-> "CREATE", idx |-> idx]
      BY <1>1 DEF Messages
    <3>2. Sent' = Sent
      BY <1>1, <1>3, <2>2, <3>1, SentAppend DEF Begin
    <3> QED BY <1>1, <1>3, <3>2, PlacesStay DEF Begin, Tracked, Taken
  <2> QED BY <2>1, <2>2
<1>4. CASE Send
  <2>1. drawn + 1 \in Frame
    BY <1>1, <1>4, BoundsAssumption
    DEF Send, OrderInv, RingInv, Types, TypeRender, Frame
  <2>2. PICK m \in Messages : m = [type |-> "DRAW", idx |-> idx, frame |-> drawn + 1]
    BY <1>1, <2>1 DEF Messages
  <2>3. idx \notin Sent
    BY <1>1, <1>4 DEF Send, OrderInv, RingInv, Making, Places, Busy
  <2>4. Sent' = Sent \cup {idx}
    BY <1>1, <1>4, <2>2, <2>3, SentAppend DEF Send
  <2>5. Taken' = Taken \cup {idx} /\ idx \notin Taken
    BY <1>1, <1>4 DEF Send, Taken, OrderInv, RingInv, Making
  <2>6. /\ Requested' = Requested /\ Updated' = Updated /\ Acking' = Acking
        /\ dropped' = dropped /\ acks' = acks
    BY <1>4, PlacesStay DEF Send
  <2> QED BY <1>1, <2>4, <2>5, <2>6 DEF Tracked
<1>5. CASE Acked
  <2>1. Acking' = Acking \ Range(Head(acks))
    BY <1>1, <1>5, AckingTail DEF Acked
  <2>2. Taken' = Taken \ Range(Head(acks))
    BY <1>1, <1>5 DEF Acked, Taken
  <2>3. \A i \in 1 .. Len(acks') : i + 1 \in 1 .. Len(acks) /\ acks'[i] = acks[i + 1]
    BY <1>1, <1>5, AcksTyped, HeadTailProperties DEF Acked
  <2>4. \A i \in 1 .. Len(acks') : acks'[i] # << >>
    BY <1>1, <2>3 DEF Tracked
  <2>5. /\ Requested' = Requested /\ Updated' = Updated /\ Sent' = Sent
        /\ dropped' = dropped
    BY <1>5, PlacesStay DEF Acked
  <2>6. Range(Head(acks)) \subseteq Acking
    BY <1>1, <1>5, AckingTail DEF Acked
  <2> QED BY <1>1, <2>1, <2>2, <2>4, <2>5, <2>6 DEF Tracked
<1>6. CASE Create
  <2>1. Sent' = Sent
    BY <1>1, <1>6, SentTail DEF Create
  <2> QED BY <1>1, <1>6, <2>1, PlacesStay DEF Create, Tracked, Taken
<1>7. CASE Forward
  <2>1. Sent' = Sent \ {Head(control).idx}
    BY <1>1, <1>7, SentTail DEF Forward
  <2>2. Head(control) \in Messages /\ Head(control).idx \in Sent
    BY <1>1, <1>7, ControlTyped, SentTail DEF Forward
  <2>3. Direct(Head(control).idx) \in BOOLEAN
    BY Zenon DEF Direct
  <2>4. PICK r \in Draws :
          r = [idx |-> Head(control).idx, frame |-> Head(control).frame,
               direct |-> Direct(Head(control).idx)]
    BY <1>7, <2>2, <2>3 DEF Forward, Messages, Draws
  <2>5. r.idx \notin Requested /\ r # << >> /\ r.idx = Head(control).idx
    BY <1>1, <2>2, <2>4, BaseTyped DEF Places, Apart
  <2>6. requests' = Append(requests, r)
    BY <1>7, <2>4 DEF Forward
  <2>7. Requested' = Requested \cup {Head(control).idx}
    BY <1>1, <2>5, <2>6, RequestedAppend
  <2>8. /\ Updated' = Updated /\ Acking' = Acking /\ Taken' = Taken
        /\ dropped' = dropped /\ acks' = acks
    BY <1>7, PlacesStay DEF Forward, Taken
  <2> QED BY <1>1, <2>1, <2>2, <2>7, <2>8 DEF Tracked
<1>8. CASE Receive
  <2>1. Requested' = IF Head(requests) # << >> THEN Requested \ {Head(requests).idx}
                                               ELSE Requested
    BY <1>1, <1>8, RequestedTail DEF Receive
  <2>2. CASE Head(requests) = << >>
    BY <1>1, <1>8, <2>1, <2>2, PlacesStay DEF Receive, Tracked, Taken
  <2>3. CASE Head(requests) # << >>
    <3>1. Head(requests).idx \in Requested
      BY <1>1, <1>8, <2>3, RequestedTail DEF Receive
    <3>2. Updated' = Updated \cup {Head(requests).idx}
      BY <1>1, <1>8, <2>3, <3>1, UpdatedAppend DEF Receive, Places, Apart
    <3>3. /\ Sent' = Sent /\ Acking' = Acking /\ Taken' = Taken
          /\ dropped' = dropped /\ acks' = acks
      BY <1>8, PlacesStay DEF Receive, Taken
    <3> QED BY <1>1, <2>1, <2>3, <3>1, <3>2, <3>3 DEF Tracked
  <2> QED BY <2>2, <2>3
<1>9. CASE Skip
  <2>1. /\ Updated' = Updated \ Range(Skipped) /\ Range(Skipped) \subseteq Updated
        /\ Skipped \in Seq(Index)
    BY <1>1, <1>9, UpdatedSkip DEF Skip
  <2>2. CASE Skipped = << >>
    <3>1. Range(Skipped) = {Skipped[i] : i \in 1 .. Len(Skipped)}
      BY <2>1, RangeTyped
    <3>2. \A i \in 1 .. Len(Skipped) : FALSE
      BY <2>2, EmptySeq
    <3> QED BY <1>1, <1>9, <2>1, <2>2, <3>1, <3>2, PlacesStay DEF Skip, Tracked, Taken
  <2>3. CASE Skipped # << >>
    <3>1. Acking' = Acking \cup Range(Skipped)
      BY <1>1, <1>9, <2>1, <2>3, AckingAppend DEF Skip, Places, Apart
    <3>2. \A i \in 1 .. Len(acks') : acks'[i] # << >>
      BY <1>1, <1>9, <2>1, <2>3, AcksTyped, AppendProperties DEF Skip, Tracked
    <3> QED BY <1>1, <1>9, <2>1, <3>1, <3>2, PlacesStay DEF Skip, Tracked, Taken
  <2> QED BY <2>2, <2>3
<1>10. CASE Acknowledge
  <2>1. Updated = Range(updated) /\ updated \in Seq(Index)
    BY <1>1, UpdatedTyped
  <2>2. CASE updated = << >>
    BY <1>2, <1>10, <2>2 DEF Acknowledge
  <2>3. CASE updated # << >>
    <3>1. Acking' = Acking \cup Updated
      BY <1>1, <1>10, <2>1, <2>3, AckingAppend DEF Acknowledge, Places, Apart
    <3>2. \A i \in 1 .. Len(acks') : acks'[i] # << >>
      BY <1>1, <1>10, <2>1, <2>3, AcksTyped, AppendProperties DEF Acknowledge, Tracked
    <3>3. /\ Sent' = Sent /\ Requested' = Requested /\ Taken' = Taken
          /\ dropped' = dropped /\ Updated' \subseteq Updated
      BY <1>10, PlacesStay, EmptySeq DEF Acknowledge, Taken, Updated
    <3> QED BY <1>1, <3>1, <3>2, <3>3 DEF Tracked
  <2> QED BY <2>2, <2>3
<1>11. CASE Wait \/ Finish \/ Drained \/ Compose \/ UNCHANGED vars
  BY <1>2, <1>11 DEF Wait, Finish, Drained, Compose, vars
<1>12. CASE Other
  BY <1>1, <1>12 DEF Other, Types, TypeChannels
<1>13. CASE Drop
  <2>1. Sent' = Sent \ {Head(control).idx} /\ Head(control).idx \in Sent
    BY <1>1, <1>13, SentTail DEF Drop
  <2>2. Head(control).idx \in Taken
    BY <1>1, <2>1 DEF Places, Busy, Taken, Sent
  <2>3. Head(control).idx \notin Requested \cup Updated \cup Acking
    BY <1>1, <2>1 DEF Places, Apart
  <2>4. /\ Taken' = Taken /\ Requested' = Requested /\ Updated' = Updated
        /\ Acking' = Acking /\ dropped' = dropped \cup {Head(control).idx}
    BY <1>13, PlacesStay DEF Drop, Taken
  <2> QED BY <1>1, <1>13, <2>1, <2>2, <2>3, <2>4 DEF Drop, Tracked
<1> QED
  BY <1>3, <1>4, <1>5, <1>6, <1>7, <1>8, <1>9, <1>10, <1>11, <1>12, <1>13
  DEF Next, Render, Request, Compositor

\* The buffers that are not free are at most all of them, and none is left only
\* when everything drawn is shown.
LEMMA TakenProperties ==
  /\ IsFiniteSet(Taken) /\ Cardinality(Taken) \in 0 .. Buffers
  /\ \A b \in Index : b \notin Taken => Cardinality(Taken) < Buffers
  /\ Taken = {} /\ OrderInv => shown = drawn
<1>1. Buffers \in Nat /\ Buffers > 0
  BY BuffersAssumption
<1>2. IsFiniteSet(Index) /\ Cardinality(Index) = Buffers
  <2>1. IsFiniteSet(Index) /\ Cardinality(Index) =
          IF 0 > Buffers - 1 THEN 0 ELSE (Buffers - 1) - 0 + 1
    BY <1>1, FS_Interval DEF Index
  <2> QED BY <1>1, <2>1
<1>3. Taken \subseteq Index
  BY DEF Taken
<1>4. IsFiniteSet(Taken) /\ Cardinality(Taken) <= Buffers
  BY <1>2, <1>3, FS_Subset
<1>5. Cardinality(Taken) \in Nat
  BY <1>4, FS_CardinalityType
<1>6. ASSUME NEW b \in Index, b \notin Taken PROVE Cardinality(Taken) < Buffers
  <2>1. Taken # Index
    BY <1>6
  <2>2. Cardinality(Index) # Cardinality(Taken)
    BY <1>2, <1>3, <2>1, FS_Subset
  <2> QED BY <1>1, <1>2, <1>4, <1>5, <2>2
<1>7. ASSUME Taken = {}, OrderInv PROVE shown = drawn
  <2>0. dropped = {}
    BY <1>7 DEF OrderInv, Tracked
  <2>1. /\ Types /\ InOrder /\ ShownLast /\ Busy /\ Base \in Nat /\ drawn \in Nat
        /\ Len(requests) \in Nat /\ Len(control) \in Nat /\ Len(updated) \in Nat
        /\ \A b \in Index : status[b] # 1
    BY <1>7, <2>0, BaseTyped, UpdatedTyped DEF OrderInv, RingInv, Places, Taken
  <2>2. Sent = {} /\ Requested = {} /\ Updated = {}
    BY <2>1 DEF Busy, Sent, Requested, Updated
  <2>3. Len(requests) = 0
    <3> SUFFICES ASSUME Len(requests) # 0 PROVE FALSE
      OBVIOUS
    <3>1. 1 \in 1 .. Len(requests)
      BY <2>1
    <3>2. requests[1] # << >> /\ requests[1].idx \in Index
      BY <2>1, <3>1, RequestsTyped DEF InOrder
    <3> QED BY <2>2, <3>1, <3>2 DEF Requested
  <2>4. updated = << >>
    <3> SUFFICES ASSUME updated # << >> PROVE FALSE
      OBVIOUS
    <3>1. 1 \in 1 .. Len(updated) /\ updated[1] \in Index
      BY <2>1, UpdatedTyped, EmptySeq, ElementOfSeq
    <3> QED BY <2>2, <3>1 DEF Updated
  <2>5. Len(control) = IF pc = "create" THEN 1 ELSE 0
    <3>1. \A i \in 1 .. Len(control) : control[i].type = "CREATE"
      <4>1. \A i \in 1 .. Len(control) :
              control[i].type \in {"CREATE", "DRAW"} /\ control[i].idx \in Index
        BY <2>1, ControlTyped DEF Messages
      <4> QED BY <2>2, <4>1 DEF Sent
    <3>2. CASE Len(control) = 0
      BY <2>1, <3>2, EmptySeq, ControlTyped DEF InOrder
    <3>3. CASE Len(control) # 0
      <4>1. 1 \in 1 .. Len(control)
        BY <2>1, <3>3
      <4> QED BY <2>1, <3>1, <4>1 DEF Types, CreateLast
    <3> QED BY <3>2, <3>3
  <2>6. drawn = Base
    BY <2>1, <2>3, <2>5 DEF InOrder
  <2> QED BY <2>1, <2>4, <2>6 DEF ShownLast
<1> QED BY <1>1, <1>4, <1>5, <1>6, <1>7

\* The ring implements the service while the window keeps its size and nothing
\* else wakes the compositor: at most Buffers frames are drawn ahead of the last
\* one given back, what is shown never goes back, and all of the buffers are
\* free only when the last frame drawn is shown.
THEOREM ServiceCorrect ==
  ASSUME Vsync, Hardware => \A s, t \in Sizes : s = t, MaxOthers = 0
  PROVE  Spec => ServiceSpec
<1> DEFINE given == drawn - Cardinality(Taken)
<1>1. Init => OrderInv /\ Service!Init
  <2> SUFFICES ASSUME Init PROVE OrderInv /\ Service!Init
    OBVIOUS
  <2>1. Taken = {} /\ Len(control) = 0 /\ Len(requests) = 0 /\ Len(acks) = 0
    BY DEF Init, Taken
  <2>2. InOrder /\ Rising /\ ShownLast /\ Tracked
    BY <2>1 DEF Init, InOrder, Rising, ShownLast, Tracked, Base
  <2>3. Cardinality({b \in Index : status[b] = 1}) = 0
    BY <2>1, FS_EmptySet DEF Taken
  <2> QED BY <2>2, <2>3, RingInit DEF Init, OrderInv, Service!Init
<1>2. OrderInv /\ [Next]_vars => OrderInv'
  BY TypesNext, PlacesNext, MakingNext, FoundNext, RisingNext, InOrderNext, ShownLastNext,
     TrackedNext DEF OrderInv, RingInv
<1>3. ASSUME OrderInv, OrderInv', [Next]_vars
      PROVE  [Service!Next]_<< drawn, shown, given >>
  <2> USE DEF renderVars, bufferVars, makeVars, compVars
  <2>1. /\ Types /\ Places /\ Tracked /\ Rising /\ ShownLast /\ Found /\ Making
        /\ idx \in Index /\ status \in [Index -> {0, 1}]
        /\ drawn \in Nat /\ shown \in Nat /\ Base \in Nat
        /\ Len(requests) \in Nat /\ Len(control) \in Nat
    BY <1>3, BaseTyped DEF OrderInv, RingInv, Types, TypeRender
  <2>2. /\ Buffers \in Nat /\ Cardinality(Taken) \in Nat
        /\ Cardinality(Taken') \in Nat /\ IsFiniteSet(Taken)
    <3>1. Cardinality(Taken) \in Nat /\ IsFiniteSet(Taken)
      BY TakenProperties
    <3>2. (Cardinality(Taken) \in 0 .. Buffers)'
      BY TakenProperties, PTL
    <3> QED BY <3>1, <3>2, BuffersAssumption
  <2>3. CASE UNCHANGED << drawn, shown, status >>
    BY <2>3 DEF Taken
  <2>4. CASE Send
    <3>1. idx \notin Taken
      BY <2>1, <2>4 DEF Send, Making, Taken
    <3>2. Taken' = Taken \cup {idx}
      BY <2>1, <2>4 DEF Send, Taken
    <3>3. Cardinality(Taken') = Cardinality(Taken) + 1
      BY <2>2, <3>1, <3>2, FS_AddElement
    <3>4. Cardinality(Taken) < Buffers
      BY <2>1, <3>1, TakenProperties
    <3>5. drawn' = drawn + 1 /\ shown' = shown
      BY <2>4 DEF Send
    <3>6. given' = given /\ drawn - given < Buffers
      BY <2>1, <2>2, <3>3, <3>4, <3>5
    <3> QED BY <3>5, <3>6 DEF Service!Next, Service!Draw, Taken
  <2>5. CASE Compose
    <3>1. surface # << >> /\ Reads(surface) = surface.frame
      BY <2>1, <2>5 DEF Compose, ShownLast, Found, FoundUpdated
    <3>2. shown' = Base /\ drawn' = drawn /\ Taken' = Taken
      BY <2>5, <3>1 DEF Compose, Picture, Reads, Base, Taken
    <3>3. Base <= drawn
      BY <2>1 DEF Rising
    <3>4. shown' \in shown .. drawn
      BY <2>1, <3>2, <3>3 DEF ShownLast
    <3> QED BY <3>2, <3>4 DEF Service!Next, Service!Show, Taken
  <2>6. CASE Acked
    <3>1. /\ Head(acks) \in Seq(Index) /\ Head(acks) # << >>
          /\ Range(Head(acks)) \subseteq Acking
      BY <2>1, <2>6, AcksTyped, AckingTail DEF Acked, Tracked, Places
    <3>2. PICK b \in Range(Head(acks)) : b \in Taken
      <4>1. 1 \in 1 .. Len(Head(acks))
        BY <3>1, EmptySeq, LenProperties
      <4>2. Head(acks)[1] \in Range(Head(acks))
        BY <3>1, <4>1, RangeTyped
      <4> QED BY <2>1, <3>1, <4>2 DEF Places, Busy, Taken, Acking
    <3>3. Taken' = Taken \ Range(Head(acks))
      BY <2>1, <2>6 DEF Acked, Taken
    <3>4. /\ Taken' \in SUBSET Taken /\ Taken # Taken'
      BY <3>2, <3>3
    <3>5. /\ Cardinality(Taken') <= Cardinality(Taken)
          /\ Cardinality(Taken') # Cardinality(Taken) /\ IsFiniteSet(Taken')
      BY <2>2, <3>4, FS_Subset
    <3>6. drawn' = drawn /\ shown' = shown
      BY <2>6 DEF Acked
    <3>7. given' \in given + 1 .. drawn
      BY <2>1, <2>2, <3>5, <3>6
    <3>8. given' = drawn => shown = drawn
      <4>1. given' = drawn => Cardinality(Taken') = 0
        BY <2>1, <2>2, <3>6
      <4>2. Cardinality(Taken') = 0 => Taken' = {}
        BY <3>5, FS_EmptySet
      <4>3. Taken' = {} => shown' = drawn'
        <5>1. (Taken = {} /\ OrderInv => shown = drawn)'
          BY TakenProperties, PTL
        <5> QED BY <1>3, <5>1
      <4> QED BY <3>6, <4>1, <4>2, <4>3
    <3> QED BY <3>6, <3>7, <3>8 DEF Service!Next, Service!Release, Taken
  <2>7. CASE Other
    BY <2>1, <2>7 DEF Other, Types, TypeChannels
  <2> QED
    BY <1>3, <2>3, <2>4, <2>5, <2>6, <2>7
    DEF Next, Render, Request, Compositor, Begin, Wait, Finish, Create, NewBuffer,
        Forward, Drop, Receive, Drained, Skip, Acknowledge, vars
<1>4. OrderInv /\ OrderInv' /\ [Next]_vars => [Service!Next]_<< drawn, shown, given >>
  BY <1>3
<1> QED
  BY <1>1, <1>2, <1>4, PTL DEF Spec, ServiceSpec, Service!Spec, Taken

=============================================================================

-------------------------- MODULE LayoutSyncProofs --------------------------
(***************************************************************************)
(* Proofs about the layout handshake, for any number of commands,          *)
(* connections, draws and surfaces, with and without -L.                   *)
(***************************************************************************)
EXTENDS LayoutSync, SequenceTheorems, TLAPS

(***************************************************************************)
(* Type correctness.  Commands are neither invented nor answered twice:    *)
(* what is read, being handled and edited was asked for, and what is       *)
(* answered or about to be was edited.                                     *)
(***************************************************************************)
Handling  == IF lpc = "edit" THEN 1 ELSE 0
Answering == IF lpc \in {"notify", "mark", "check", "wait", "answer"} THEN 1 ELSE 0

Counted == /\ list + Len(inbox) + Handling <= asked
           /\ answers + Answering <= list

TypeInv == TypeOK /\ Counted

LEMMA TypeInit == Init => TypeInv
<1> SUFFICES ASSUME Init PROVE TypeInv
  OBVIOUS
<1>1. TypeClients /\ TypePipes
  BY BoundsAssumption DEF Init, TypeClients, TypePipes
<1>2. TypeLayout /\ TypeCompositor
  BY BoundsAssumption DEF Init, TypeLayout, TypeCompositor
<1>3. TypeFlags
  BY DEF Init, TypeFlags
<1>4. Counted
  BY DEF Init, Counted, Handling, Answering
<1> QED
  BY <1>1, <1>2, <1>3, <1>4 DEF TypeInv, TypeOK

\* What the clients and the other threads do.
LEMMA TypeOthers ==
  ASSUME TypeInv,
         \/ \E c \in Commands : Ask(c)
         \/ \E e \in {"add", "draw", "remove"} : Forward(e)
         \/ Stop
  PROVE  TypeInv'
<1> USE DEF clientVars, layoutVars, compVars, frameVars
<1>1. CASE \E c \in Commands : Ask(c)
  <2> PICK c \in Commands : Ask(c)
    BY <1>1
  <2>1. TypeClients'
    BY BoundsAssumption DEF Ask, TypeInv, TypeOK, TypeClients
  <2>2. TypePipes' /\ Len(inbox') = Len(inbox) + 1
    BY DEF Ask, TypeInv, TypeOK, TypePipes
  <2>3. Counted'
    <3>1. asked \in Int /\ list \in Int /\ Len(inbox) \in Nat
      BY LenProperties DEF TypeInv, TypeOK, TypeClients, TypeLayout, TypePipes
    <3> QED
      BY <3>1, <2>2 DEF Ask, TypeInv, Counted, Handling, Answering
  <2> QED
    BY <2>1, <2>2, <2>3 DEF Ask, TypeInv, TypeOK, TypeLayout, TypeCompositor, TypeFlags
<1>2. CASE \E e \in {"add", "draw", "remove"} : Forward(e)
  <2> PICK e \in {"add", "draw", "remove"} : Forward(e)
    BY <1>2
  <2>1. TypeClients'
    <3>0. conns' = conns /\ asked' = asked
      BY DEF Forward
    <3>1. CASE e = "add"
      <4>1. /\ adds < MaxSurfaces /\ adds' = adds + 1 /\ here' = here + 1 /\ draws' = draws
        BY <3>1 DEF Forward
      <4> QED BY <3>0, <4>1, BoundsAssumption DEF TypeInv, TypeOK, TypeClients
    <3>2. CASE e = "draw"
      BY <3>0, <3>2, BoundsAssumption DEF Forward, TypeInv, TypeOK, TypeClients
    <3>3. CASE e = "remove"
      BY <3>0, <3>3, BoundsAssumption DEF Forward, TypeInv, TypeOK, TypeClients
    <3> QED
      BY <3>1, <3>2, <3>3
  <2>2. TypePipes'
    BY DEF Forward, TypeInv, TypeOK, TypePipes, Events
  <2> QED
    BY <2>1, <2>2 DEF Forward, TypeInv, TypeOK, TypeLayout, TypeCompositor, TypeFlags,
                      Counted, Handling, Answering
<1>3. CASE Stop
  <2>1. TypePipes'
    BY <1>3 DEF Stop, TypeInv, TypeOK, TypePipes, Events
  <2> QED
    BY <1>3, <2>1 DEF Stop, TypeInv, TypeOK, TypeClients, TypeLayout, TypeCompositor,
                      TypeFlags, Counted, Handling, Answering
<1> QED
  BY <1>1, <1>2, <1>3

\* What the layout thread does.
LEMMA TypeLayoutThread ==
  ASSUME TypeInv, LayoutThread \/ LAccept \/ LSpurious
  PROVE  TypeInv'
<1> USE DEF clientVars, layoutVars, compVars, frameVars
<1>0. asked \in Int /\ list \in Int /\ answers \in Int /\ Len(inbox) \in Nat
  BY LenProperties DEF TypeInv, TypeOK, TypeClients, TypeLayout, TypePipes
<1>1. CASE LAccept
  <2>1. TypeClients'
    BY <1>1, BoundsAssumption DEF LAccept, TypeInv, TypeOK, TypeClients
  <2>2. TypePipes' /\ Len(inbox') = 0
    BY <1>1 DEF LAccept, TypeInv, TypeOK, TypePipes
  <2>3. Counted'
    BY <1>0, <1>1, <2>2 DEF LAccept, TypeInv, Counted, Handling, Answering
  <2>4. TypeFlags'
    BY <1>1 DEF LAccept, TypeInv, TypeOK, TypeFlags
  <2>5. TypeLayout'
    BY <1>1 DEF LAccept, TypeInv, TypeOK, TypeLayout
  <2> QED
    BY <1>1, <2>1, <2>2, <2>3, <2>4, <2>5 DEF LAccept, TypeInv, TypeOK, TypeCompositor
<1>2. CASE LReceive
  <2>1. TypePipes' /\ Len(inbox') = Len(inbox) - 1
    BY <1>2, HeadTailProperties DEF LReceive, TypeInv, TypeOK, TypePipes
  <2>2. Counted'
    BY <1>0, <1>2, <2>1 DEF LReceive, CanReceive, TypeInv, Counted, Handling, Answering
  <2>3. TypeFlags'
    BY <1>2, Zenon DEF LReceive, TypeInv, TypeOK, TypeFlags
  <2>4. TypeLayout'
    BY <1>2 DEF LReceive, TypeInv, TypeOK, TypeLayout
  <2> QED
    BY <1>2, <2>1, <2>2, <2>3, <2>4 DEF LReceive, TypeInv, TypeOK, TypeClients,
                                        TypeCompositor
<1>3. CASE LEdit
  <2>1. Counted'
    BY <1>0, <1>3 DEF LEdit, TypeInv, Counted, Handling, Answering
  <2>2. list' <= asked /\ asked <= MaxEdits
    BY <1>0, <1>3 DEF LEdit, TypeInv, TypeOK, TypeClients, Counted, Handling
  <2>3. TypeLayout' /\ TypeCompositor'
    BY <1>0, <1>3, <2>2, BoundsAssumption DEF LEdit, TypeInv, TypeOK, TypeLayout, TypeCompositor
  <2> QED
    BY <1>3, <2>1, <2>3 DEF LEdit, TypeInv, TypeOK, TypeClients, TypePipes, TypeFlags
<1>4. CASE LNotify
  <2>1. TypePipes'
    BY <1>4 DEF LNotify, TypeInv, TypeOK, TypePipes, Events
  <2>2. TypeLayout' /\ Counted'
    BY <1>4 DEF LNotify, TypeInv, TypeOK, TypeLayout, Counted, Handling, Answering
  <2> QED
    BY <1>4, <2>1, <2>2 DEF LNotify, TypeInv, TypeOK, TypeClients, TypeCompositor,
                            TypeFlags
<1>5. CASE LMark \/ LCheck \/ LSpurious
  <2>1. /\ UNCHANGED <<clientVars, inbox, connected, list, answers, req, eventfd, compVars>>
        /\ lpc \in {"mark", "check", "wait"} /\ lpc' \in {"check", "answer", "wait"}
        /\ layoutStatus' \in {layoutStatus, "UPDATING"}
    BY <1>5 DEF LMark, LCheck, LSpurious
  <2>2. TypeLayout'
    BY <2>1 DEF TypeInv, TypeOK, TypeLayout
  <2>3. Counted'
    BY <2>1 DEF TypeInv, Counted, Handling, Answering
  <2>4. TypeClients' /\ TypePipes' /\ TypeCompositor'
    BY <2>1 DEF TypeInv, TypeOK, TypeClients, TypePipes, TypeCompositor
  <2>5. TypeFlags'
    BY <2>1 DEF TypeInv, TypeOK, TypeFlags
  <2> QED BY <2>2, <2>3, <2>4, <2>5 DEF TypeInv, TypeOK
<1>6. CASE LAnswer
  <2>1. Counted'
    BY <1>0, <1>6 DEF LAnswer, TypeInv, Counted, Handling, Answering
  <2>2. TypeLayout'
    BY <1>0, <1>6, <2>1 DEF LAnswer, TypeInv, TypeOK, TypeLayout, Counted, Answering
  <2> QED
    BY <1>6, <2>1, <2>2 DEF LAnswer, TypeInv, TypeOK, TypeClients, TypePipes,
                            TypeCompositor, TypeFlags
<1>7. CASE LKilled
  <2>1. /\ UNCHANGED <<clientVars, inbox, connected, list, answers, layoutStatus, req, eventfd,
                       running, surfaces, events, layoutEvent, frameVars>>
        /\ lpc = "answer" /\ lpc' = "killed" /\ cpc' = "killed"
    BY <1>7 DEF LKilled
  <2>2. TypeLayout' /\ TypeCompositor'
    BY <2>1 DEF TypeInv, TypeOK, TypeLayout, TypeCompositor
  <2>3. Counted'
    BY <1>0, <2>1 DEF TypeInv, Counted, Handling, Answering
  <2>4. TypeClients' /\ TypePipes'
    BY <2>1 DEF TypeInv, TypeOK, TypeClients, TypePipes
  <2>5. TypeFlags'
    BY <2>1 DEF TypeInv, TypeOK, TypeFlags
  <2> QED
    BY <2>2, <2>3, <2>4, <2>5 DEF TypeInv, TypeOK
<1>8. CASE LExit
  <2>1. TypeLayout' /\ Counted'
    BY <1>8 DEF LExit, TypeInv, TypeOK, TypeLayout, Counted, Handling, Answering
  <2>2. TypeFlags'
    BY <1>8 DEF LExit, TypeInv, TypeOK, TypeFlags
  <2> QED
    BY <1>8, <2>1, <2>2 DEF LExit, TypeInv, TypeOK, TypeClients, TypePipes, TypeCompositor
<1> QED
  BY <1>1, <1>2, <1>3, <1>4, <1>5, <1>6, <1>7, <1>8 DEF LayoutThread

\* What the compositor does.
LEMMA TypeComp ==
  ASSUME TypeInv, Compositor
  PROVE  TypeInv'
<1> USE DEF clientVars, layoutVars, compVars, frameVars
<1>1. CASE CEvent
  <2>1. TypePipes'
    BY <1>1, HeadTailProperties DEF CEvent, TypeInv, TypeOK, TypePipes
  <2>2. TypeCompositor'
    BY <1>1 DEF CEvent, TypeInv, TypeOK, TypeCompositor
  <2>3. TypeFlags'
    BY <1>1, Zenon DEF CEvent, TypeInv, TypeOK, TypeFlags
  <2> QED
    BY <1>1, <2>1, <2>2, <2>3 DEF CEvent, TypeInv, TypeOK, TypeClients, TypeLayout,
                                  Counted, Handling, Answering
<1>2. CASE CBatchEnds \/ CJoin
  <2>1. /\ UNCHANGED <<clientVars, inbox, layoutVars, layoutStatus, req, eventfd, running,
                       surfaces, events, layoutEvent, frameVars>>
        /\ cpc' \in {"render", "done"}
    BY <1>2 DEF CBatchEnds, CJoin
  <2>2. TypeClients' /\ TypePipes' /\ TypeLayout'
    BY <2>1 DEF TypeInv, TypeOK, TypeClients, TypePipes, TypeLayout
  <2>3. TypeCompositor'
    BY <2>1 DEF TypeInv, TypeOK, TypeCompositor
  <2>4. TypeFlags'
    BY <2>1 DEF TypeInv, TypeOK, TypeFlags
  <2>5. Counted'
    BY <2>1 DEF TypeInv, Counted, Handling, Answering
  <2> QED BY <2>2, <2>3, <2>4, <2>5 DEF TypeInv, TypeOK
<1>3. CASE CDraw \/ CSwap
  <2>1. UNCHANGED <<clientVars, inbox, layoutVars, layoutStatus, req, eventfd, running,
                    surfaces, events, layoutEvent>>
    BY <1>3 DEF CDraw, CSwap
  <2>2. TypeClients' /\ TypePipes' /\ TypeLayout'
    BY <2>1 DEF TypeInv, TypeOK, TypeClients, TypePipes, TypeLayout
  <2>3. TypeCompositor'
    <3>1. CASE CDraw
      BY <3>1 DEF CDraw, TypeInv, TypeOK, TypeCompositor, TypeLayout
    <3>2. CASE CSwap
      BY <3>2 DEF CSwap, TypeInv, TypeOK, TypeCompositor
    <3> QED BY <1>3, <3>1, <3>2
  <2>4. TypeFlags'
    BY <2>1 DEF TypeInv, TypeOK, TypeFlags
  <2>5. Counted'
    BY <2>1 DEF TypeInv, Counted, Handling, Answering
  <2> QED BY <2>2, <2>3, <2>4, <2>5 DEF TypeInv, TypeOK
<1>4. CASE CTell
  <2>1. TypeLayout' /\ Counted'
    BY <1>4 DEF CTell, TypeInv, TypeOK, TypeLayout, Counted, Handling, Answering
  <2>2. TypeCompositor'
    BY <1>4 DEF CTell, TypeInv, TypeOK, TypeCompositor
  <2>3. TypeFlags'
    BY <1>4 DEF CTell, TypeInv, TypeOK, TypeFlags
  <2> QED
    BY <1>4, <2>1, <2>2, <2>3 DEF CTell, TypeInv, TypeOK, TypeClients, TypePipes
<1> QED
  BY <1>1, <1>2, <1>3, <1>4 DEF Compositor

LEMMA TypeStep == TypeInv /\ [Next]_vars => TypeInv'
<1> SUFFICES ASSUME TypeInv, [Next]_vars PROVE TypeInv'
  OBVIOUS
<1>1. CASE UNCHANGED vars
  BY <1>1 DEF vars, layoutVars, compVars, TypeInv, TypeOK, TypeClients, TypePipes,
              TypeLayout, TypeCompositor, TypeFlags, Counted, Handling, Answering
<1> QED
  BY <1>1, TypeOthers, TypeLayoutThread, TypeComp DEF Next

\* The counters of the handshake keep their ranges: no frame is drawn from a
\* list newer than the layout thread's, and no command is answered twice.
THEOREM TypeCorrect == Spec => []TypeOK
<1>1. TypeInv => TypeOK
  BY DEF TypeInv
<1> QED
  BY <1>1, TypeInit, TypeStep, PTL DEF Spec

(***************************************************************************)
(* No change of the layout is forgotten.  Once a frame is drawn its own    *)
(* batch does not vouch for later edits any more: those need an event of   *)
(* their own, still to be sent or in the pipe.                             *)
(***************************************************************************)
Announced == lpc = "notify" \/ InPipe

ChangeInv ==
  /\ NoChangeForgotten
  /\ cpc = "swap" /\ drawn # list => Announced
  /\ cpc = "tell" /\ shown # list => Announced

LEMMA InPipeAppend ==
  ASSUME NEW e \in Events, req \in Seq(Events), req' = Append(req, e)
  PROVE  /\ InPipe => InPipe'
         /\ e = "layout" => InPipe'
         /\ e # "layout" /\ InPipe' => InPipe
<1>1. /\ DOMAIN req' = 1 .. Len(req) + 1 /\ DOMAIN req = 1 .. Len(req)
      /\ Len(req) \in Nat
      /\ \A i \in 1 .. Len(req) : req'[i] = req[i]
      /\ req'[Len(req) + 1] = e
  BY AppendProperties, LenProperties
<1> QED
  BY <1>1 DEF InPipe

LEMMA InPipeTail ==
  ASSUME req \in Seq(Events), req # << >>, req' = Tail(req)
  PROVE  /\ InPipe => Head(req) = "layout" \/ InPipe'
         /\ InPipe' => InPipe
<1>1. /\ Len(req) \in Nat \ {0} /\ DOMAIN req = 1 .. Len(req)
      /\ DOMAIN req' = 1 .. Len(req) - 1
      /\ Head(req) = req[1]
      /\ \A i \in 1 .. Len(req) - 1 : req'[i] = req[i + 1]
  BY HeadTailProperties, LenProperties, EmptySeq
<1>2. ASSUME NEW i \in DOMAIN req, req[i] = "layout", Head(req) # "layout"
      PROVE  InPipe'
  <2>1. i - 1 \in DOMAIN req' /\ req'[i - 1] = "layout"
    BY <1>1, <1>2
  <2> QED
    BY <2>1 DEF InPipe
<1>3. ASSUME NEW i \in DOMAIN req', req'[i] = "layout" PROVE InPipe
  BY <1>1, <1>3 DEF InPipe
<1> QED
  BY <1>2, <1>3 DEF InPipe

LEMMA ChangeInit == Init => ChangeInv
BY DEF Init, ChangeInv, NoChangeForgotten

LEMMA ChangeStep == TypeOK /\ ChangeInv /\ [Next]_vars => ChangeInv'
<1> SUFFICES ASSUME TypeOK, ChangeInv, [Next]_vars PROVE ChangeInv'
  OBVIOUS
<1> USE DEF clientVars, layoutVars, compVars, frameVars
<1>0. req \in Seq(Events)
  BY DEF TypeOK, TypePipes
<1>1. ASSUME UNCHANGED << list, compVars >>, InPipe => InPipe', lpc # "notify"
      PROVE  ChangeInv'
  BY <1>1 DEF ChangeInv, NoChangeForgotten, Announced
<1>2. ASSUME NEW e \in Events, req' = Append(req, e), UNCHANGED << list, compVars, lpc >>
      PROVE  ChangeInv'
  <2>1. InPipe => InPipe'
    BY <1>0, <1>2, InPipeAppend
  <2> QED
    BY <1>2, <2>1 DEF ChangeInv, NoChangeForgotten, Announced
<1>3. ASSUME UNCHANGED << list, compVars, lpc, req >> PROVE ChangeInv'
  BY <1>3 DEF ChangeInv, NoChangeForgotten, Announced, InPipe
<1>4. ASSUME UNCHANGED << list, compVars, req >>, lpc # "notify" PROVE ChangeInv'
  BY <1>1, <1>4 DEF InPipe
<1>5. CASE UNCHANGED vars
  BY <1>3, <1>5 DEF vars
<1>6. CASE \E c \in Commands : Ask(c)
  BY <1>3, <1>6 DEF Ask
<1>7. CASE \E e \in {"add", "draw", "remove"} : Forward(e)
  BY <1>2, <1>7 DEF Forward, Events
<1>8. CASE Stop
  BY <1>2, <1>8 DEF Stop, Events
<1>9. CASE LAccept
  BY <1>4, <1>9 DEF LAccept
<1>10. CASE LReceive
  BY <1>4, <1>10 DEF LReceive, CanReceive
<1>11. CASE LEdit
  BY <1>11 DEF LEdit, ChangeInv, NoChangeForgotten, Announced
<1>12. CASE LNotify
  <2>1. InPipe'
    BY <1>0, <1>12, InPipeAppend DEF LNotify, Events
  <2> QED
    BY <1>12, <2>1 DEF LNotify, ChangeInv, NoChangeForgotten, Announced
<1>13. CASE LMark \/ LCheck \/ LSpurious \/ LAnswer \/ LExit
  BY <1>4, <1>13 DEF LMark, LCheck, LSpurious, LAnswer, LExit
<1>14. CASE CEvent
  <2>1. InPipe => Head(req) = "layout" \/ InPipe'
    BY <1>0, <1>14, InPipeTail DEF CEvent
  <2>2. Head(req) = "layout" => layoutEvent'
    BY <1>14, Zenon DEF CEvent
  <2>3. layoutEvent => layoutEvent'
    BY <1>14, Zenon DEF CEvent
  <2>4. cpc' \in {"poll", "render"} /\ UNCHANGED << list, lpc, shown, drawn >> /\ cpc = "poll"
    BY <1>14, Zenon DEF CEvent
  <2> QED
    BY <2>1, <2>2, <2>3, <2>4 DEF ChangeInv, NoChangeForgotten
<1>15. CASE CBatchEnds
  BY <1>15 DEF CBatchEnds, ChangeInv, NoChangeForgotten, InPipe
<1>16. CASE CDraw
  BY <1>16 DEF CDraw, ChangeInv, NoChangeForgotten, InPipe
<1>17. CASE CSwap
  BY <1>17 DEF CSwap, ChangeInv, NoChangeForgotten, Announced, InPipe
<1>18. CASE CTell
  BY <1>18 DEF CTell, ChangeInv, NoChangeForgotten, Announced, InPipe
<1>19. CASE CJoin
  BY <1>19 DEF CJoin, ChangeInv, NoChangeForgotten, InPipe
<1>20. CASE LKilled
  BY <1>20 DEF LKilled, ChangeInv, NoChangeForgotten, InPipe
<1> QED
  BY <1>5, <1>6, <1>7, <1>8, <1>9, <1>10, <1>11, <1>12, <1>13, <1>14, <1>15,
     <1>16, <1>17, <1>18, <1>19, <1>20 DEF Next, LayoutThread, Compositor

\* Every edit that the screen does not show has an event under way, however
\* many clients, batches and draws come between (layout_event_loop,
\* compositor_render).
THEOREM ChangesKept == Spec => []NoChangeForgotten
<1>1. TypeInv => TypeOK
  BY DEF TypeInv
<1>2. ChangeInv => NoChangeForgotten
  BY DEF ChangeInv
<1> QED
  BY <1>1, <1>2, TypeInit, TypeStep, ChangeInit, ChangeStep, PTL DEF Spec

(***************************************************************************)
(* With -L at most one LAYOUT event is outstanding, and only while the     *)
(* layout thread waits for it.  The list stands still meanwhile, so the    *)
(* frame that is drawn after the event was read shows all of it, and a     *)
(* COMPLETED the thread can see belongs to that frame.                     *)
(***************************************************************************)
Waiting == lpc \in {"check", "wait"}

HandshakeInv ==
  /\ InPipe \/ layoutEvent => lpc \in {"mark", "check", "wait"}
  /\ layoutEvent => ~InPipe
  /\ \A i, j \in DOMAIN req : req[i] = "layout" /\ req[j] = "layout" => i = j
  /\ layoutEvent /\ cpc = "swap" => drawn = list
  /\ layoutEvent /\ cpc = "tell" => shown = list
  /\ Waiting /\ layoutStatus = "COMPLETED" =>
       shown = list /\ ~InPipe /\ ~layoutEvent
  /\ lpc = "answer" => shown = list

\* Taking the only LAYOUT event off the pipe leaves none.
LEMMA OnlyOne ==
  ASSUME req \in Seq(Events), req # << >>,
         \A i, j \in DOMAIN req : req[i] = "layout" /\ req[j] = "layout" => i = j,
         req' = Tail(req)
  PROVE  /\ \A i, j \in DOMAIN req' : req'[i] = "layout" /\ req'[j] = "layout" => i = j
         /\ Head(req) = "layout" => ~InPipe'
<1>1. /\ Len(req) \in Nat \ {0} /\ DOMAIN req = 1 .. Len(req)
      /\ DOMAIN req' = 1 .. Len(req) - 1
      /\ Head(req) = req[1]
      /\ \A i \in 1 .. Len(req) - 1 : req'[i] = req[i + 1]
  BY HeadTailProperties, LenProperties, EmptySeq
<1>2. ASSUME NEW i \in DOMAIN req', NEW j \in DOMAIN req',
             req'[i] = "layout", req'[j] = "layout"
      PROVE  i = j
  <2>1. /\ i + 1 \in DOMAIN req /\ req[i + 1] = "layout"
        /\ j + 1 \in DOMAIN req /\ req[j + 1] = "layout"
    BY <1>1, <1>2
  <2>2. i + 1 = j + 1
    BY <2>1
  <2> QED
    BY <1>1, <2>2
<1>3. ASSUME Head(req) = "layout", NEW i \in DOMAIN req', req'[i] = "layout"
      PROVE  FALSE
  <2>1. i + 1 \in DOMAIN req /\ req[i + 1] = "layout" /\ 1 \in DOMAIN req /\ req[1] = "layout"
    BY <1>1, <1>3
  <2>2. i + 1 = 1
    BY <2>1
  <2> QED
    BY <1>1, <2>2
<1> QED
  BY <1>2, <1>3 DEF InPipe

LEMMA HandshakeInit == Init => HandshakeInv
BY DEF Init, HandshakeInv, InPipe, Waiting

LEMMA HandshakeStep ==
  UseLayoutSync /\ TypeOK /\ HandshakeInv /\ [Next]_vars => HandshakeInv'
<1> SUFFICES ASSUME UseLayoutSync, TypeOK, HandshakeInv, [Next]_vars
             PROVE  HandshakeInv'
  OBVIOUS
<1> USE DEF clientVars, layoutVars, compVars, frameVars
<1>0. /\ req \in Seq(Events)
      /\ list \in Int /\ drawn \in 0 .. list /\ shown \in 0 .. drawn
  BY DEF TypeOK, TypePipes, TypeLayout, TypeCompositor
<1>1. ASSUME NEW e \in Events, e # "layout", req' = Append(req, e),
             UNCHANGED << lpc, list, layoutStatus, compVars >>
      PROVE  HandshakeInv'
  <2>1. ~InPipe => ~InPipe'
    BY <1>0, <1>1, InPipeAppend
  <2>2. /\ DOMAIN req' = 1 .. Len(req) + 1 /\ DOMAIN req = 1 .. Len(req)
        /\ Len(req) \in Nat
        /\ \A i \in 1 .. Len(req) : req'[i] = req[i]
        /\ req'[Len(req) + 1] # "layout"
    BY <1>0, <1>1, AppendProperties, LenProperties
  <2>3. \A i, j \in DOMAIN req' : req'[i] = "layout" /\ req'[j] = "layout" => i = j
    BY <2>2 DEF HandshakeInv
  <2> QED
    BY <1>1, <2>1, <2>3 DEF HandshakeInv, Waiting
<1>2. ASSUME UNCHANGED << lpc, list, layoutStatus, req, compVars >>
      PROVE  HandshakeInv'
  BY <1>2 DEF HandshakeInv, Waiting, InPipe
<1>3. ASSUME UNCHANGED << req, compVars >>, lpc \in {"poll", "recv", "edit"},
             lpc' \in {"poll", "recv", "edit", "notify", "exit"}
      PROVE  HandshakeInv'
  BY <1>3 DEF HandshakeInv, Waiting, InPipe
<1>4. CASE UNCHANGED vars
  BY <1>2, <1>4 DEF vars
<1>5. CASE \E c \in Commands : Ask(c)
  BY <1>2, <1>5 DEF Ask
<1>6. CASE \E e \in {"add", "draw", "remove"} : Forward(e)
  BY <1>1, <1>6 DEF Forward, Events
<1>7. CASE Stop
  BY <1>1, <1>7 DEF Stop, Events
<1>8. CASE LAccept
  BY <1>3, <1>8 DEF LAccept
<1>9. CASE LReceive \/ LEdit \/ LExit
  BY <1>3, <1>9 DEF LReceive, CanReceive, LEdit, LExit
<1>10. CASE LNotify
  <2>1. ~InPipe /\ ~layoutEvent
    BY <1>10 DEF LNotify, HandshakeInv
  <2>2. /\ DOMAIN req' = 1 .. Len(req) + 1 /\ DOMAIN req = 1 .. Len(req)
        /\ Len(req) \in Nat
        /\ \A i \in 1 .. Len(req) : req'[i] = req[i]
    BY <1>0, <1>10, AppendProperties, LenProperties DEF LNotify, Events
  <2>3. \A i, j \in DOMAIN req' : req'[i] = "layout" /\ req'[j] = "layout" => i = j
    BY <2>1, <2>2 DEF InPipe
  <2> QED
    BY <1>10, <2>1, <2>3 DEF LNotify, HandshakeInv, Waiting
<1>11. CASE LMark
  BY <1>11 DEF LMark, HandshakeInv, Waiting, InPipe
<1>12. CASE LCheck \/ LSpurious
  BY <1>12 DEF LCheck, LSpurious, HandshakeInv, Waiting, InPipe
<1>13. CASE LAnswer
  BY <1>13 DEF LAnswer, HandshakeInv, Waiting, InPipe
<1>14. CASE CEvent
  <2>1. (InPipe' => InPipe) /\ (Head(req) = "layout" => InPipe)
    <3>1. 1 \in DOMAIN req /\ req[1] = Head(req)
      BY <1>0, <1>14, HeadTailProperties, LenProperties, EmptySeq DEF CEvent
    <3> QED
      BY <1>0, <1>14, <3>1, InPipeTail DEF CEvent, InPipe
  <2>2. /\ \A i, j \in DOMAIN req' : req'[i] = "layout" /\ req'[j] = "layout" => i = j
        /\ Head(req) = "layout" => ~InPipe'
    BY <1>0, <1>14, OnlyOne DEF CEvent, HandshakeInv
  <2>3. layoutEvent' => layoutEvent \/ Head(req) = "layout"
    BY <1>14, Zenon DEF CEvent
  <2>4. cpc' \in {"poll", "render"} /\ UNCHANGED << list, lpc, shown, drawn, layoutStatus >>
    BY <1>14, Zenon DEF CEvent
  <2> QED
    BY <2>1, <2>2, <2>3, <2>4 DEF HandshakeInv, Waiting
<1>15. CASE CBatchEnds \/ CJoin
  BY <1>15 DEF CBatchEnds, CJoin, HandshakeInv, Waiting, InPipe
<1>16. CASE CDraw
  BY <1>16 DEF CDraw, HandshakeInv, Waiting, InPipe
<1>17. CASE CSwap
  BY <1>0, <1>17 DEF CSwap, HandshakeInv, Waiting, InPipe
<1>18. CASE CTell
  <2>2. CASE Completes
    BY <1>18, <2>2 DEF CTell, Completes, HandshakeInv, Waiting, InPipe
  <2>3. CASE ~Completes
    BY <1>18, <2>3 DEF CTell, Completes, HandshakeInv, Waiting, InPipe
  <2> QED
    BY <2>2, <2>3
<1>19. CASE LKilled
  BY <1>19 DEF LKilled, HandshakeInv, Waiting, InPipe
<1> QED
  BY <1>4, <1>5, <1>6, <1>7, <1>8, <1>9, <1>10, <1>11, <1>12, <1>13, <1>14, <1>15,
     <1>16, <1>17, <1>18, <1>19 DEF Next, LayoutThread, Compositor

\* With -L a command is answered only when the screen shows its effect
\* (layout_event_loop, compositor_render).
THEOREM AnswersShown == Spec => []AnswerShown
<1>1. TypeInv => TypeOK
  BY DEF TypeInv
<1>2. CASE ~UseLayoutSync
  <2>1. AnswerShown
    BY <1>2 DEF AnswerShown
  <2> QED
    BY <2>1, PTL
<1>3. CASE UseLayoutSync
  <2>1. HandshakeInv => AnswerShown
    BY DEF HandshakeInv, AnswerShown
  <2>2. TypeOK /\ HandshakeInv /\ [Next]_vars => HandshakeInv'
    BY <1>3, HandshakeStep
  <2> QED
    BY <1>1, <2>1, <2>2, TypeInit, TypeStep, HandshakeInit, PTL DEF Spec
<1> QED
  BY <1>2, <1>3
=============================================================================

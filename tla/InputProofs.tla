------------------------------ MODULE InputProofs ------------------------------
(***************************************************************************)
(* Proofs about input on its way from a user to the guest: touches in the  *)
(* slots of the guest, for any number of renderers, slots and touches, and *)
(* the surface that is told, for any windows, fingers and buttons.         *)
(***************************************************************************)
EXTENDS InputPath, SequenceTheorems, FiniteSetTheorems, WellFoundedInduction, TLAPS

(***************************************************************************)
(* What the events of one render process say of its slots: which of them   *)
(* are in use, the touch each one holds, and the one the next event is     *)
(* about.                                                                  *)
(***************************************************************************)
View == [used : SUBSET SrcSlots, held : [SrcSlots -> Ids \cup {NoId}], cur : SrcSlots]

Target(v, e) == IF e.code = "slot" THEN e.val ELSE v.cur

After(v, e) ==
  [used |-> IF e.code = "track" /\ e.val = -1 THEN v.used \ {Target(v, e)}
            ELSE v.used \cup {Target(v, e)},
   held |-> IF e.code = "track"
            THEN [v.held EXCEPT ![Target(v, e)] = IF e.val = -1 THEN NoId ELSE e.id]
            ELSE v.held,
   cur  |-> Target(v, e)]

\* An MT_SLOT event names a slot in use or the first free one, what follows is
\* about a slot in use, and a position about the touch that holds it.
Fits(v, e) ==
  /\ e.code = "slot" => e.val \in v.used \/ \A j \in SrcSlots : j < e.val => j \in v.used
  /\ e.code # "slot" => v.cur \in v.used
  /\ e.code = "pos" => v.held[v.cur] = e.id

\* The events q lead from v to w.
Leads(v, q, w) ==
  \E f \in [0 .. Len(q) -> View] :
    /\ f[0] = v /\ f[Len(q)] = w
    /\ \A i \in 1 .. Len(q) : Fits(f[i - 1], q[i]) /\ f[i] = After(f[i - 1], q[i])

\* The rest q of one packet and the packets n after it lead from v to w.
Chain(v, q, n, w) ==
  \E p \in [0 .. Len(n) -> View] :
    /\ Leads(v, q, p[0]) /\ p[Len(n)] = w
    /\ \A i \in 1 .. Len(n) : Leads(p[i - 1], n[i], p[i])

\* The first of some slots is one of them, and none is before it.
LEMMA FirstProperties ==
  ASSUME NEW S, S \subseteq Nat, S # {}
  PROVE  First(S) \in S /\ \A j \in S : First(S) <= j
<1>1. PICK x \in S : \A y \in S : ~(<< y, x >> \in {ss \in Nat \X Nat : ss[1] < ss[2]})
  BY NatLessThanWellFounded, WFMin DEF OpToRel
<1>2. \A y \in S : x <= y
  <2> SUFFICES ASSUME NEW y \in S, ~(x <= y) PROVE FALSE
    OBVIOUS
  <2>1. y < x /\ y \in Nat /\ x \in Nat
    OBVIOUS
  <2>2. << y, x >> \in {ss \in Nat \X Nat : ss[1] < ss[2]}
    BY <2>1
  <2> QED BY <1>1, <2>2
<1> QED BY <1>2 DEF First

\* The parts of an event.
LEMMA EventTyped ==
  ASSUME NEW e \in Events
  PROVE  /\ e.code \in {"slot", "track", "pos"} /\ e.id \in Ids
         /\ e.code = "slot" => e.val \in SrcSlots
         /\ e.code # "slot" => e.val \in {-1, 0}
BY DEF Events, Ev

\* Slots are numbers.
LEMMA SlotsTyped ==
  SrcSlots \subseteq Nat /\ GuestSlots \subseteq Nat /\ 0 \in SrcSlots /\ 0 \in GuestSlots
BY SlotsAssumption DEF SrcSlots, GuestSlots

\* An event leads from a view to a view.
LEMMA AfterTyped ==
  ASSUME NEW v \in View, NEW e \in Events
  PROVE  After(v, e) \in View /\ Target(v, e) \in SrcSlots
<1>1. Target(v, e) \in SrcSlots
  BY EventTyped DEF Target, View
<1>2. v.used \subseteq SrcSlots /\ v.held \in [SrcSlots -> Ids \cup {NoId}]
  BY DEF View
<1> QED BY <1>1, <1>2, EventTyped DEF After, View

\* No event, no change.
LEMMA LeadsNowhere ==
  ASSUME NEW v \in View
  PROVE  Leads(v, << >>, v) /\ \A w : Leads(v, << >>, w) => w = v
<1>1. Len(<< >>) = 0
  OBVIOUS
<1>2. \E f \in [0 .. 0 -> View] : f[0] = v
  <2> WITNESS [i \in 0 .. 0 |-> v] \in [0 .. 0 -> View]
  <2> QED OBVIOUS
<1>3. Leads(v, << >>, v)
  <2>1. PICK f \in [0 .. 0 -> View] : f[0] = v
    BY <1>2
  <2>2. \A i \in 1 .. 0 : FALSE
    OBVIOUS
  <2> QED BY <1>1, <2>1, <2>2 DEF Leads
<1> QED BY <1>1, <1>3 DEF Leads

\* One event more,
LEMMA LeadsAppend ==
  ASSUME NEW v, NEW w \in View, NEW q \in Seq(Events), NEW e \in Events,
         Leads(v, q, w), Fits(w, e)
  PROVE  Leads(v, Append(q, e), After(w, e))
<1>1. PICK f \in [0 .. Len(q) -> View] :
        /\ f[0] = v /\ f[Len(q)] = w
        /\ \A i \in 1 .. Len(q) : Fits(f[i - 1], q[i]) /\ f[i] = After(f[i - 1], q[i])
  BY DEF Leads
<1>2. /\ Len(Append(q, e)) = Len(q) + 1 /\ Append(q, e)[Len(q) + 1] = e
      /\ \A i \in 1 .. Len(q) : Append(q, e)[i] = q[i]
      /\ Len(q) \in Nat
  BY AppendProperties, LenProperties
<1> DEFINE g == [i \in 0 .. Len(q) + 1 |-> IF i = Len(q) + 1 THEN After(w, e) ELSE f[i]]
<1>3. g \in [0 .. Len(q) + 1 -> View]
  BY <1>1, <1>2, AfterTyped
<1>4. g[0] = v /\ g[Len(q) + 1] = After(w, e)
  BY <1>1, <1>2
<1>5. ASSUME NEW i \in 1 .. Len(q) + 1
      PROVE  Fits(g[i - 1], Append(q, e)[i]) /\ g[i] = After(g[i - 1], Append(q, e)[i])
  <2>1. CASE i \in 1 .. Len(q)
    <3>1. i - 1 \in 0 .. Len(q) /\ i - 1 # Len(q) + 1 /\ i # Len(q) + 1
      BY <1>2, <2>1
    <3>2. g[i - 1] = f[i - 1] /\ g[i] = f[i]
      BY <1>2, <2>1, <3>1
    <3> QED BY <1>1, <1>2, <2>1, <3>2
  <2>2. CASE i = Len(q) + 1
    <3>1. g[i - 1] = w /\ g[i] = After(w, e)
      BY <1>1, <1>2, <2>2
    <3> QED BY <1>2, <2>2, <3>1
  <2> QED BY <1>2, <2>1, <2>2
<1> HIDE DEF g
<1> QED BY <1>2, <1>3, <1>4, <1>5 DEF Leads

\* and one event less.
LEMMA LeadsTail ==
  ASSUME NEW v, NEW w, NEW q \in Seq(Events), q # << >>, Leads(v, q, w)
  PROVE  Fits(v, Head(q)) /\ Leads(After(v, Head(q)), Tail(q), w)
<1>1. PICK f \in [0 .. Len(q) -> View] :
        /\ f[0] = v /\ f[Len(q)] = w
        /\ \A i \in 1 .. Len(q) : Fits(f[i - 1], q[i]) /\ f[i] = After(f[i - 1], q[i])
  BY DEF Leads
<1>2. /\ Len(Tail(q)) = Len(q) - 1 /\ Len(q) \in Nat /\ Len(q) # 0
      /\ \A i \in 1 .. Len(Tail(q)) : Tail(q)[i] = q[i + 1]
      /\ Head(q) = q[1] /\ 1 \in 1 .. Len(q)
  BY HeadTailProperties, LenProperties, EmptySeq
<1> DEFINE g == [i \in 0 .. Len(Tail(q)) |-> f[i + 1]]
<1>3. g \in [0 .. Len(Tail(q)) -> View]
  BY <1>1, <1>2
<1>4. Fits(v, Head(q)) /\ f[1] = After(v, Head(q))
  <2>1. Fits(f[1 - 1], q[1]) /\ f[1] = After(f[1 - 1], q[1])
    BY <1>1, <1>2
  <2> QED BY <1>1, <1>2, <2>1
<1>5. g[0] = After(v, Head(q)) /\ g[Len(Tail(q))] = w
  BY <1>1, <1>2, <1>4
<1>6. ASSUME NEW i \in 1 .. Len(Tail(q))
      PROVE  Fits(g[i - 1], Tail(q)[i]) /\ g[i] = After(g[i - 1], Tail(q)[i])
  <2>1. i + 1 \in 1 .. Len(q) /\ i - 1 \in 0 .. Len(Tail(q)) /\ (i + 1) - 1 = i
        /\ (i - 1) + 1 = i
    BY <1>2
  <2>2. g[i - 1] = f[i] /\ g[i] = f[i + 1]
    BY <1>2, <2>1
  <2>3. Fits(f[(i + 1) - 1], q[i + 1]) /\ f[i + 1] = After(f[(i + 1) - 1], q[i + 1])
    BY <1>1, <2>1
  <2> QED BY <1>2, <2>1, <2>2, <2>3
<1> HIDE DEF g
<1> QED BY <1>3, <1>4, <1>5, <1>6 DEF Leads

\* No packet, no change.
LEMMA ChainNowhere ==
  ASSUME NEW v \in View
  PROVE  Chain(v, << >>, << >>, v) /\ \A w : Chain(v, << >>, << >>, w) => w = v
<1>1. Len(<< >>) = 0
  OBVIOUS
<1>2. \E p \in [0 .. 0 -> View] : p[0] = v
  <2> WITNESS [i \in 0 .. 0 |-> v] \in [0 .. 0 -> View]
  <2> QED OBVIOUS
<1>3. Chain(v, << >>, << >>, v)
  <2>1. PICK p \in [0 .. 0 -> View] : p[0] = v
    BY <1>2
  <2>2. \A i \in 1 .. 0 : FALSE
    OBVIOUS
  <2> QED BY <1>1, <2>1, <2>2, LeadsNowhere DEF Chain
<1> QED BY <1>1, <1>3, LeadsNowhere DEF Chain

\* A packet is sent,
LEMMA ChainSend ==
  ASSUME NEW v, NEW q, NEW n \in Seq(Seq(Events)), NEW w, Chain(v, q, n, w),
         NEW e \in Seq(Events), NEW x \in View, Leads(w, e, x)
  PROVE  Chain(v, q, Append(n, e), x)
<1>1. PICK p \in [0 .. Len(n) -> View] :
        /\ Leads(v, q, p[0]) /\ p[Len(n)] = w
        /\ \A i \in 1 .. Len(n) : Leads(p[i - 1], n[i], p[i])
  BY DEF Chain
<1>2. /\ Len(Append(n, e)) = Len(n) + 1 /\ Append(n, e)[Len(n) + 1] = e
      /\ \A i \in 1 .. Len(n) : Append(n, e)[i] = n[i]
      /\ Len(n) \in Nat
  BY AppendProperties, LenProperties
<1> DEFINE g == [i \in 0 .. Len(n) + 1 |-> IF i = Len(n) + 1 THEN x ELSE p[i]]
<1>3. g \in [0 .. Len(n) + 1 -> View]
  BY <1>1, <1>2
<1>4. g[0] = p[0] /\ g[Len(n) + 1] = x
  BY <1>1, <1>2
<1>5. ASSUME NEW i \in 1 .. Len(n) + 1
      PROVE  Leads(g[i - 1], Append(n, e)[i], g[i])
  <2>1. CASE i \in 1 .. Len(n)
    <3>1. i - 1 \in 0 .. Len(n) /\ i - 1 # Len(n) + 1 /\ i # Len(n) + 1
      BY <1>2, <2>1
    <3>2. g[i - 1] = p[i - 1] /\ g[i] = p[i]
      BY <1>2, <2>1, <3>1
    <3> QED BY <1>1, <1>2, <2>1, <3>2
  <2>2. CASE i = Len(n) + 1
    <3>1. g[i - 1] = w /\ g[i] = x
      BY <1>1, <1>2, <2>2
    <3> QED BY <1>2, <2>2, <3>1
  <2> QED BY <1>2, <2>1, <2>2
<1> HIDE DEF g
<1> QED BY <1>1, <1>2, <1>3, <1>4, <1>5 DEF Chain

\* read,
LEMMA ChainRead ==
  ASSUME NEW v \in View, NEW n \in Seq(Seq(Events)), NEW w, n # << >>,
         Chain(v, << >>, n, w)
  PROVE  Chain(v, Head(n), Tail(n), w)
<1>1. PICK p \in [0 .. Len(n) -> View] :
        /\ Leads(v, << >>, p[0]) /\ p[Len(n)] = w
        /\ \A i \in 1 .. Len(n) : Leads(p[i - 1], n[i], p[i])
  BY DEF Chain
<1>2. /\ Len(Tail(n)) = Len(n) - 1 /\ Len(n) \in Nat /\ Len(n) # 0
      /\ \A i \in 1 .. Len(Tail(n)) : Tail(n)[i] = n[i + 1]
      /\ Head(n) = n[1] /\ 1 \in 1 .. Len(n)
  BY HeadTailProperties, LenProperties, EmptySeq
<1> DEFINE g == [i \in 0 .. Len(Tail(n)) |-> p[i + 1]]
<1>3. g \in [0 .. Len(Tail(n)) -> View]
  BY <1>1, <1>2
<1>4. Leads(v, Head(n), g[0])
  <2>1. Leads(p[1 - 1], n[1], p[1])
    BY <1>1, <1>2
  <2>2. p[0] = v
    BY <1>1, LeadsNowhere
  <2>3. g[0] = p[1]
    BY <1>2
  <2> QED BY <1>2, <2>1, <2>2, <2>3
<1>5. g[Len(Tail(n))] = w
  BY <1>1, <1>2
<1>6. ASSUME NEW i \in 1 .. Len(Tail(n)) PROVE Leads(g[i - 1], Tail(n)[i], g[i])
  <2>1. i + 1 \in 1 .. Len(n) /\ i - 1 \in 0 .. Len(Tail(n)) /\ (i + 1) - 1 = i
        /\ (i - 1) + 1 = i
    BY <1>2
  <2>2. g[i - 1] = p[i] /\ g[i] = p[i + 1]
    BY <1>2, <2>1
  <2>3. Leads(p[(i + 1) - 1], n[i + 1], p[i + 1])
    BY <1>1, <2>1
  <2> QED BY <1>2, <2>1, <2>2, <2>3
<1> HIDE DEF g
<1> QED BY <1>3, <1>4, <1>5, <1>6 DEF Chain

\* and translated event by event.
LEMMA ChainTranslate ==
  ASSUME NEW v, NEW q \in Seq(Events), NEW n, NEW w, q # << >>, Chain(v, q, n, w)
  PROVE  Fits(v, Head(q)) /\ Chain(After(v, Head(q)), Tail(q), n, w)
<1>1. PICK p \in [0 .. Len(n) -> View] :
        /\ Leads(v, q, p[0]) /\ p[Len(n)] = w
        /\ \A i \in 1 .. Len(n) : Leads(p[i - 1], n[i], p[i])
  BY DEF Chain
<1>2. Fits(v, Head(q)) /\ Leads(After(v, Head(q)), Tail(q), p[0])
  BY <1>1, LeadsTail
<1> QED BY <1>1, <1>2 DEF Chain

(***************************************************************************)
(* The render process.  What it has queued leads from what it has sent to  *)
(* what it believes.                                                       *)
(***************************************************************************)
InputState ==
  [slots : [SrcSlots -> Ids \cup {NoId}], last : SrcSlots,
   olds  : [SrcSlots -> Ids \cup {NoId}], old  : SrcSlots, queue : Seq(Events)]

Believed(in) ==
  [used |-> {k \in SrcSlots : in.slots[k] # NoId}, held |-> in.slots, cur |-> in.last]
Kept(in) ==
  [used |-> {k \in SrcSlots : in.olds[k] # NoId}, held |-> in.olds, cur |-> in.old]

Consistent(in) == in \in InputState /\ Leads(Kept(in), in.queue, Believed(in))

\* in becomes out, of the same frame.
Grows(in, out) ==
  Consistent(in) => Consistent(out) /\ out.olds = in.olds /\ out.old = in.old

\* Both are views.
LEMMA InputViews ==
  ASSUME NEW in \in InputState
  PROVE  Believed(in) \in View /\ Kept(in) \in View
BY DEF InputState, Believed, Kept, View

\* Events of a touch are events.
LEMMA TouchEvents ==
  ASSUME NEW id \in Ids, NEW k \in SrcSlots
  PROVE  /\ Ev("slot", k, id) \in Events
         /\ \A c \in {"track", "pos"}, v \in {-1, 0} : Ev(c, v, id) \in Events
BY DEF Events

\* No touch has the number of a slot without one.
LEMMA NoIdIsNone == NoId \notin Ids /\ NoId = -1
BY IdsAssumption DEF NoId

\* A slot in use is named before what is about it.
LEMMA MoveToGrows ==
  ASSUME NEW in, NEW id \in Ids, NEW k \in SrcSlots, in.slots[k] # NoId
  PROVE  /\ Grows(in, MoveTo(in, k, id))
         /\ Consistent(in) => MoveTo(in, k, id).last = k
                              /\ MoveTo(in, k, id).slots = in.slots
<1> SUFFICES ASSUME Consistent(in)
             PROVE  /\ Consistent(MoveTo(in, k, id)) /\ MoveTo(in, k, id).olds = in.olds
                    /\ MoveTo(in, k, id).old = in.old /\ MoveTo(in, k, id).last = k
                    /\ MoveTo(in, k, id).slots = in.slots
  BY DEF Grows
<1>1. in \in InputState /\ Leads(Kept(in), in.queue, Believed(in))
  BY DEF Consistent
<1>2. CASE in.last = k
  BY <1>2 DEF MoveTo
<1>3. CASE in.last # k
  <2> DEFINE e == Ev("slot", k, id)
             out == [in EXCEPT !.queue = Append(@, e), !.last = k]
  <2>1. e \in Events /\ e.code = "slot" /\ e.val = k
    BY TouchEvents DEF Ev
  <2>2. MoveTo(in, k, id) = out
    BY <1>3 DEF MoveTo
  <2>3. Append(in.queue, e) \in Seq(Events)
    BY <1>1, <2>1, AppendProperties DEF InputState
  <2> HIDE DEF e
  <2>4. /\ out \in InputState /\ out.slots = in.slots /\ out.last = k
        /\ out.olds = in.olds /\ out.old = in.old /\ out.queue = Append(in.queue, e)
    BY <1>1, <2>3 DEF InputState
  <2>5. Kept(out) = Kept(in)
    BY <2>4 DEF Kept
  <2>6. Fits(Believed(in), e)
    BY <2>1 DEF Fits, Believed
  <2>7. After(Believed(in), e) = Believed(out)
    BY <2>1, <2>4 DEF After, Target, Believed
  <2>8. Leads(Kept(in), Append(in.queue, e), After(Believed(in), e))
    BY <1>1, <2>1, <2>6, InputViews, LeadsAppend DEF InputState
  <2>9. Consistent(out)
    BY <2>4, <2>5, <2>7, <2>8 DEF Consistent
  <2> QED BY <2>2, <2>4, <2>9
<1> QED BY <1>2, <1>3

\* The slots of a touch.
LEMMA HoldersProperties ==
  ASSUME NEW in, NEW id, Holders(in, id) # {}
  PROVE  /\ First(Holders(in, id)) \in SrcSlots /\ in.slots[First(Holders(in, id))] = id
         /\ \A j \in SrcSlots : j < First(Holders(in, id)) => in.slots[j] # id
<1>1. Holders(in, id) \subseteq SrcSlots /\ Holders(in, id) \subseteq Nat
  BY SlotsTyped DEF Holders
<1>2. /\ First(Holders(in, id)) \in Holders(in, id)
      /\ \A j \in Holders(in, id) : First(Holders(in, id)) <= j
  BY <1>1, FirstProperties
<1>3. \A j \in SrcSlots : j \in Holders(in, id) <=> in.slots[j] = id
  BY DEF Holders
<1> QED BY <1>1, <1>2, <1>3, SlotsTyped

\* A touch is removed,
LEMMA RemoveGrows ==
  ASSUME NEW in, NEW id \in Ids
  PROVE  Grows(in, remove_slot(in, id))
<1> SUFFICES ASSUME Consistent(in)
             PROVE  /\ Consistent(remove_slot(in, id))
                    /\ remove_slot(in, id).olds = in.olds
                    /\ remove_slot(in, id).old = in.old
  BY DEF Grows
<1>1. CASE Holders(in, id) = {}
  BY <1>1 DEF remove_slot
<1>2. CASE Holders(in, id) # {}
  <2> DEFINE k == First(Holders(in, id))
             m == MoveTo(in, k, id)
             e == Ev("track", -1, id)
             out == [m EXCEPT !.queue = Append(@, e), !.slots[k] = NoId]
  <2>1. k \in SrcSlots /\ in.slots[k] = id /\ id # NoId
    BY <1>2, HoldersProperties, NoIdIsNone
  <2>2. remove_slot(in, id) = out
    BY <1>2 DEF remove_slot
  <2> HIDE DEF k
  <2>3. /\ Consistent(m) /\ m.olds = in.olds /\ m.old = in.old /\ m.last = k
        /\ m.slots = in.slots
    BY <2>1, MoveToGrows DEF Grows
  <2> HIDE DEF m
  <2>4. e \in Events /\ e.code = "track" /\ e.val = -1
    BY <2>1, TouchEvents DEF Ev
  <2> HIDE DEF e
  <2>5. m \in InputState /\ Leads(Kept(m), m.queue, Believed(m))
    BY <2>3 DEF Consistent
  <2>6. Append(m.queue, e) \in Seq(Events)
    BY <2>4, <2>5, AppendProperties DEF InputState
  <2>7. /\ out \in InputState /\ out.slots = [m.slots EXCEPT ![k] = NoId]
        /\ out.last = k /\ out.olds = m.olds /\ out.old = m.old
        /\ out.queue = Append(m.queue, e)
    BY <2>1, <2>3, <2>5, <2>6 DEF InputState
  <2>8. Kept(out) = Kept(m)
    BY <2>7 DEF Kept
  <2>9. Fits(Believed(m), e)
    BY <2>1, <2>3, <2>4 DEF Fits, Believed
  <2>10. After(Believed(m), e) = Believed(out)
    <3>1. {j \in SrcSlots : out.slots[j] # NoId} = {j \in SrcSlots : m.slots[j] # NoId} \ {k}
      BY <2>5, <2>7 DEF InputState
    <3> QED BY <2>3, <2>4, <2>7, <3>1 DEF After, Target, Believed
  <2>11. Leads(Kept(m), Append(m.queue, e), After(Believed(m), e))
    BY <2>4, <2>5, <2>9, InputViews, LeadsAppend DEF InputState
  <2>12. Consistent(out)
    BY <2>7, <2>8, <2>10, <2>11 DEF Consistent
  <2> QED BY <2>2, <2>3, <2>7, <2>12
<1> QED BY <1>1, <1>2

\* is given a slot,
LEMMA AddGrows ==
  ASSUME NEW in, NEW id \in Ids
  PROVE  Grows(in, add_slot(in, id))
<1> SUFFICES ASSUME Consistent(in)
             PROVE  /\ Consistent(add_slot(in, id))
                    /\ add_slot(in, id).olds = in.olds
                    /\ add_slot(in, id).old = in.old
  BY DEF Grows
<1> DEFINE r == remove_slot(in, id)
<1>1. Consistent(r) /\ r.olds = in.olds /\ r.old = in.old
  BY RemoveGrows DEF Grows
<1>2. CASE Holders(r, NoId) = {}
  BY <1>1, <1>2 DEF add_slot
<1>3. CASE Holders(r, NoId) # {}
  <2> DEFINE k == First(Holders(r, NoId))
             e == Ev("slot", k, id)
             f == Ev("track", 0, id)
             out == [r EXCEPT !.slots[k] = id, !.last = k, !.queue = @ \o << e, f >>]
  <2>1. add_slot(in, id) = out
    BY <1>3 DEF add_slot
  <2> HIDE DEF r
  <2>2. k \in SrcSlots /\ r.slots[k] = NoId /\ \A j \in SrcSlots : j < k => r.slots[j] # NoId
    BY <1>3, HoldersProperties
  <2> HIDE DEF k
  <2>3. /\ e \in Events /\ e.code = "slot" /\ e.val = k
        /\ f \in Events /\ f.code = "track" /\ f.val = 0 /\ f.id = id
    BY <2>2, TouchEvents DEF Ev
  <2> HIDE DEF e, f
  <2>4. r \in InputState /\ Leads(Kept(r), r.queue, Believed(r)) /\ r.queue \in Seq(Events)
    BY <1>1 DEF Consistent, InputState
  <2>5. /\ Append(r.queue, e) \in Seq(Events)
        /\ Append(Append(r.queue, e), f) \in Seq(Events)
    BY <2>3, <2>4, AppendProperties
  <2>6. r.queue \o << e, f >> = Append(Append(r.queue, e), f)
    <3>1. << e, f >> \in Seq(Events) /\ Len(<< e, f >>) = 2
      BY <2>3
    <3>2. /\ r.queue \o << e, f >> \in Seq(Events)
          /\ Len(r.queue \o << e, f >>) = Len(r.queue) + 2
          /\ \A i \in 1 .. Len(r.queue) + 2 :
               (r.queue \o << e, f >>)[i] =
                 IF i <= Len(r.queue) THEN r.queue[i] ELSE << e, f >>[i - Len(r.queue)]
      BY <2>4, <3>1, ConcatProperties
    <3>3. /\ Len(Append(Append(r.queue, e), f)) = Len(r.queue) + 2
          /\ Append(Append(r.queue, e), f)[Len(r.queue) + 2] = f
          /\ Append(Append(r.queue, e), f)[Len(r.queue) + 1] = e
          /\ \A i \in 1 .. Len(r.queue) : Append(Append(r.queue, e), f)[i] = r.queue[i]
          /\ Len(r.queue) \in Nat
      BY <2>3, <2>4, <2>5, AppendProperties, LenProperties
    <3>4. ASSUME NEW i \in 1 .. Len(r.queue) + 2
          PROVE  (r.queue \o << e, f >>)[i] = Append(Append(r.queue, e), f)[i]
      <4>1. i \in 1 .. Len(r.queue) \/ i = Len(r.queue) + 1 \/ i = Len(r.queue) + 2
        BY <3>3
      <4>2. CASE i \in 1 .. Len(r.queue)
        BY <3>2, <3>3, <4>2
      <4>3. CASE i = Len(r.queue) + 1
        BY <3>2, <3>3, <4>3
      <4>4. CASE i = Len(r.queue) + 2
        BY <3>2, <3>3, <4>4
      <4> QED BY <4>1, <4>2, <4>3, <4>4
    <3> QED BY <2>5, <3>2, <3>3, <3>4, SeqEqual
  <2>7. /\ out \in InputState /\ out.slots = [r.slots EXCEPT ![k] = id]
        /\ out.last = k /\ out.olds = r.olds /\ out.old = r.old
        /\ out.queue = Append(Append(r.queue, e), f)
    BY <2>2, <2>4, <2>5, <2>6 DEF InputState
  <2>8. Kept(out) = Kept(r)
    BY <2>7 DEF Kept
  <2> DEFINE w == After(Believed(r), e)
  <2>9. w \in View /\ Fits(Believed(r), e)
    BY <2>2, <2>3, <2>4, InputViews, AfterTyped DEF Fits, Believed
  <2>10. w.cur = k /\ w.used = Believed(r).used \cup {k} /\ w.held = r.slots
    BY <2>3 DEF After, Target, Believed
  <2>11. Leads(Kept(r), Append(r.queue, e), w)
    BY <2>3, <2>4, <2>9, InputViews, LeadsAppend
  <2> HIDE DEF w
  <2>12. Fits(w, f)
    BY <2>3, <2>10 DEF Fits
  <2>13. Leads(Kept(r), Append(Append(r.queue, e), f), After(w, f))
    BY <2>3, <2>5, <2>9, <2>11, <2>12, LeadsAppend
  <2>14. After(w, f) = Believed(out)
    <3>1. {j \in SrcSlots : out.slots[j] # NoId} = Believed(r).used \cup {k}
      BY <2>2, <2>4, <2>7, NoIdIsNone DEF InputState, Believed
    <3>2. w.used \cup {k} = {j \in SrcSlots : out.slots[j] # NoId}
      BY <2>10, <3>1
    <3>3. Target(w, f) = k
      BY <2>3, <2>10 DEF Target
    <3>4. After(w, f) = [used |-> w.used \cup {k}, held |-> [w.held EXCEPT ![k] = id],
                         cur  |-> k]
      BY <2>3, <3>3 DEF After
    <3> QED BY <2>7, <2>10, <3>2, <3>4 DEF Believed
  <2>15. Consistent(out)
    BY <2>7, <2>8, <2>13, <2>14 DEF Consistent
  <2> QED BY <1>1, <2>1, <2>7, <2>15
<1> QED BY <1>2, <1>3

\* and moves.
LEMMA MoveGrows ==
  ASSUME NEW in, NEW id \in Ids
  PROVE  Grows(in, move_slot(in, id))
<1> SUFFICES ASSUME Consistent(in)
             PROVE  /\ Consistent(move_slot(in, id))
                    /\ move_slot(in, id).olds = in.olds
                    /\ move_slot(in, id).old = in.old
  BY DEF Grows
<1>1. CASE Holders(in, id) = {}
  BY <1>1 DEF move_slot
<1>2. CASE Holders(in, id) # {}
  <2> DEFINE k == First(Holders(in, id))
             m == MoveTo(in, k, id)
             e == Ev("pos", 0, id)
             out == [m EXCEPT !.queue = Append(@, e)]
  <2>1. k \in SrcSlots /\ in.slots[k] = id /\ id # NoId
    BY <1>2, HoldersProperties, NoIdIsNone
  <2>2. move_slot(in, id) = out
    BY <1>2 DEF move_slot
  <2> HIDE DEF k
  <2>3. /\ Consistent(m) /\ m.olds = in.olds /\ m.old = in.old /\ m.last = k
        /\ m.slots = in.slots
    BY <2>1, MoveToGrows DEF Grows
  <2> HIDE DEF m
  <2>4. e \in Events /\ e.code = "pos" /\ e.id = id
    BY <2>1, TouchEvents DEF Ev
  <2> HIDE DEF e
  <2>5. m \in InputState /\ Leads(Kept(m), m.queue, Believed(m))
    BY <2>3 DEF Consistent
  <2>6. Append(m.queue, e) \in Seq(Events)
    BY <2>4, <2>5, AppendProperties DEF InputState
  <2>7. /\ out \in InputState /\ out.slots = m.slots /\ out.last = m.last
        /\ out.olds = m.olds /\ out.old = m.old /\ out.queue = Append(m.queue, e)
    BY <2>5, <2>6 DEF InputState
  <2>8. Kept(out) = Kept(m)
    BY <2>7 DEF Kept
  <2>9. Fits(Believed(m), e)
    BY <2>1, <2>3, <2>4 DEF Fits, Believed
  <2>10. After(Believed(m), e) = Believed(out)
    <3>1. k \in Believed(m).used
      BY <2>1, <2>3 DEF Believed
    <3> QED BY <2>3, <2>4, <2>7, <3>1 DEF After, Target, Believed
  <2>11. Leads(Kept(m), Append(m.queue, e), After(Believed(m), e))
    BY <2>4, <2>5, <2>9, InputViews, LeadsAppend DEF InputState
  <2>12. Consistent(out)
    BY <2>7, <2>8, <2>10, <2>11 DEF Consistent
  <2> QED BY <2>2, <2>3, <2>7, <2>12
<1> QED BY <1>1, <1>2

\* What is sent is believed, and what is dropped is forgotten.
LEMMA SentCleared ==
  ASSUME NEW in, Consistent(in)
  PROVE  /\ Consistent(Sent(in)) /\ Kept(Sent(in)) = Believed(in)
         /\ Consistent(Cleared(in)) /\ Kept(Cleared(in)) = Kept(in)
<1>1. in \in InputState /\ Believed(in) \in View /\ Kept(in) \in View
  BY InputViews DEF Consistent
<1>2. << >> \in Seq(Events)
  BY EmptySeq
<1>3. /\ Sent(in) \in InputState /\ Sent(in).queue = << >>
      /\ Kept(Sent(in)) = Believed(in) /\ Believed(Sent(in)) = Believed(in)
  BY <1>1, <1>2 DEF InputState, Sent, Kept, Believed
<1>4. /\ Cleared(in) \in InputState /\ Cleared(in).queue = << >>
      /\ Kept(Cleared(in)) = Kept(in) /\ Believed(Cleared(in)) = Kept(in)
  BY <1>1, <1>2 DEF InputState, Cleared, Kept, Believed
<1> QED BY <1>1, <1>3, <1>4, LeadsNowhere DEF Consistent

(***************************************************************************)
(* The packets of a renderer lead from what the proxy has made of those    *)
(* before to what the render process has sent.                             *)
(***************************************************************************)
Typed ==
  /\ input \in [Srcs -> InputState] /\ net \in [Srcs -> Seq(Seq(Events))]
  /\ packet \in [src : Srcs, events : Seq(Events)]
  /\ TypeProxy

Queued == \A s \in Srcs : Consistent(input[s])

\* The rest of the packet that is translated, if it is of s.
Pending(s) == IF packet.src = s THEN packet.events ELSE << >>

\* The next event of s is translated.
Moving(s) == packet.src = s /\ packet.events # << >> /\ packet' # packet

\* A step of a render process: more is queued, all is sent, or all is dropped.
More(u, out) ==
  Grows(input[u], out) /\ input' = [input EXCEPT ![u] = out] /\ UNCHANGED net
Sends(u, in) == Grows(input[u], in) /\ Send(u, in)
Drops(u) == input' = [input EXCEPT ![u] = Cleared(@)] /\ UNCHANGED net

Renders ==
  \/ \E u \in Srcs : (\E out : More(u, out)) \/ (\E in : Sends(u, in)) \/ Drops(u)

\* These are the steps of the render processes.
LEMMA RenderSteps ==
  ASSUME [Next]_vars
  PROVE  \/ Renders /\ UNCHANGED << packet, proxyVars, guestVars >>
         \/ \E s \in Srcs : Read(s)
         \/ Translate
         \/ UNCHANGED vars
<1>1. ASSUME NEW s \in Srcs, NEW id \in Ids, Down(s, id) \/ Motion(s, id) \/ Up(s, id)
      PROVE  Renders /\ UNCHANGED << packet, proxyVars, guestVars >>
  <2>1. CASE Down(s, id)
    <3>1. Grows(input[s], move_slot(add_slot(input[s], id), id))
      BY AddGrows, MoveGrows DEF Grows
    <3> QED BY <2>1, <3>1 DEF Down, Input, Renders, More
  <2>2. CASE Motion(s, id)
    BY <2>2, MoveGrows DEF Motion, Input, Renders, More
  <2>3. CASE Up(s, id)
    BY <2>3, RemoveGrows DEF Up, Input, Renders, Sends
  <2> QED BY <1>1, <2>1, <2>2, <2>3
<1>2. ASSUME NEW s \in Srcs, Frame(s) \/ Cancel(s)
      PROVE  Renders /\ UNCHANGED << packet, proxyVars, guestVars >>
  <2>1. Grows(input[s], input[s])
    BY DEF Grows
  <2> QED BY <1>2, <2>1 DEF Frame, Cancel, Input, Renders, Sends, Drops
<1> QED BY <1>1, <1>2 DEF Next

\* They keep their types, and the queue leads to what is believed.
LEMMA QueuedNext ==
  ASSUME Typed, Queued, [Next]_vars
  PROVE  /\ input' \in [Srcs -> InputState] /\ net' \in [Srcs -> Seq(Seq(Events))]
         /\ packet' \in [src : Srcs, events : Seq(Events)]
         /\ Queued'
<1>1. CASE Renders /\ UNCHANGED packet
  <2> SUFFICES input' \in [Srcs -> InputState] /\ net' \in [Srcs -> Seq(Seq(Events))]
               /\ Queued'
    BY <1>1 DEF Typed
  <2>1. PICK u \in Srcs : (\E out : More(u, out)) \/ (\E in : Sends(u, in)) \/ Drops(u)
    BY <1>1 DEF Renders
  <2>2. ASSUME NEW out, input' = [input EXCEPT ![u] = out], Consistent(out)
        PROVE  input' \in [Srcs -> InputState] /\ Queued'
    BY <2>2 DEF Typed, Queued, Consistent
  <2>3. Consistent(input[u])
    BY DEF Queued
  <2>4. ASSUME NEW out, More(u, out)
        PROVE  input' \in [Srcs -> InputState] /\ Queued' /\ UNCHANGED net
    BY <2>2, <2>3, <2>4 DEF More, Grows
  <2>5. ASSUME NEW in, Sends(u, in)
        PROVE  /\ input' \in [Srcs -> InputState] /\ Queued'
               /\ net' \in [Srcs -> Seq(Seq(Events))]
    <3>1. Consistent(in)
      BY <2>3, <2>5 DEF Sends, Grows
    <3>2. input' \in [Srcs -> InputState] /\ Queued'
      BY <2>2, <2>5, <3>1, SentCleared DEF Sends, Send
    <3>3. in.queue \in Seq(Events) /\ net[u] \in Seq(Seq(Events))
      BY <3>1 DEF Consistent, InputState, Typed
    <3>4. Append(net[u], in.queue) \in Seq(Seq(Events))
      BY <3>3, AppendProperties
    <3> QED BY <2>5, <3>2, <3>4 DEF Sends, Send, Typed
  <2>6. CASE Drops(u)
    BY <2>2, <2>3, <2>6, SentCleared DEF Drops, Typed
  <2> QED BY <2>1, <2>4, <2>5, <2>6 DEF Typed
<1>2. ASSUME NEW s \in Srcs, Read(s)
      PROVE  /\ net' \in [Srcs -> Seq(Seq(Events))] /\ UNCHANGED input
             /\ packet' \in [src : Srcs, events : Seq(Events)]
  <2>1. net[s] \in Seq(Seq(Events)) /\ net[s] # << >>
    BY <1>2 DEF Read, Typed
  <2>2. Head(net[s]) \in Seq(Events) /\ Tail(net[s]) \in Seq(Seq(Events))
    BY <2>1, HeadTailProperties
  <2> QED BY <1>2, <2>2 DEF Read, Typed
<1>3. CASE Translate
  <2>1. packet.events \in Seq(Events) /\ packet.events # << >>
    BY <1>3 DEF Translate, Typed
  <2>2. Tail(packet.events) \in Seq(Events)
    BY <2>1, HeadTailProperties
  <2>3. UNCHANGED << input, net >>
        /\ (UNCHANGED packet \/ packet' = [packet EXCEPT !.events = Tail(@)])
    BY <1>3 DEF Translate
  <2> QED BY <2>2, <2>3 DEF Typed, Queued
<1> QED BY <1>1, <1>2, <1>3, RenderSteps DEF Typed, Queued, vars

\* A step of anyone keeps the packets of s in line.
LEMMA ChainNext ==
  ASSUME Typed, Queued, [Next]_vars, NEW s \in Srcs, NEW v \in View,
         Chain(v, Pending(s), net[s], Kept(input[s]))
  PROVE  /\ Moving(s) => Fits(v, Head(packet.events))
         /\ Chain(IF Moving(s) THEN After(v, Head(packet.events)) ELSE v,
                  Pending(s)', net'[s], Kept(input'[s]))
<1>1. /\ net[s] \in Seq(Seq(Events)) /\ Consistent(input[s]) /\ input[s] \in InputState
      /\ packet.events \in Seq(Events)
  BY DEF Typed, Queued
<1>2. CASE Renders /\ UNCHANGED packet
  <2>1. ~Moving(s) /\ Pending(s)' = Pending(s)
    BY <1>2 DEF Moving, Pending
  <2>2. PICK u \in Srcs : (\E out : More(u, out)) \/ (\E in : Sends(u, in)) \/ Drops(u)
    BY <1>2 DEF Renders
  <2>3. CASE u # s
    <3>1. input'[s] = input[s] /\ net'[s] = net[s]
      BY <2>2, <2>3 DEF More, Sends, Send, Drops, Typed
    <3> QED BY <2>1, <3>1
  <2>4. ASSUME u = s, NEW out, More(u, out)
        PROVE  Chain(v, Pending(s), net'[s], Kept(input'[s]))
    <3>1. net'[s] = net[s] /\ input'[s] = out /\ out.olds = input[s].olds
          /\ out.old = input[s].old
      BY <1>1, <2>4 DEF More, Grows, Typed
    <3> QED BY <3>1 DEF Kept
  <2>5. ASSUME u = s, NEW in, Sends(u, in)
        PROVE  Chain(v, Pending(s), net'[s], Kept(input'[s]))
    <3>1. /\ Consistent(in) /\ Kept(in) = Kept(input[s]) /\ input'[s] = Sent(in)
          /\ net'[s] = IF in.queue = << >> THEN net[s] ELSE Append(net[s], in.queue)
      BY <1>1, <2>5 DEF Sends, Send, Grows, Kept, Typed
    <3>2. /\ Kept(input'[s]) = Believed(in) /\ Believed(in) \in View /\ Kept(in) \in View
          /\ Leads(Kept(input[s]), in.queue, Believed(in)) /\ in.queue \in Seq(Events)
      BY <3>1, SentCleared, InputViews DEF Consistent, InputState
    <3>3. CASE in.queue = << >>
      <4>1. Believed(in) = Kept(in)
        BY <3>1, <3>2, <3>3, LeadsNowhere
      <4> QED BY <3>1, <3>2, <3>3, <4>1
    <3>4. CASE in.queue # << >>
      BY <1>1, <3>1, <3>2, <3>4, ChainSend
    <3> QED BY <3>3, <3>4
  <2>6. CASE u = s /\ Drops(u)
    <3>1. net'[s] = net[s] /\ Kept(input'[s]) = Kept(input[s])
      BY <1>1, <2>6, SentCleared DEF Drops, Typed
    <3> QED BY <2>1, <3>1
  <2> QED BY <2>1, <2>2, <2>3, <2>4, <2>5, <2>6
<1>3. ASSUME NEW u \in Srcs, Read(u)
      PROVE  /\ ~Moving(s)
             /\ Chain(v, Pending(s)', net'[s], Kept(input'[s]))
  <2>1. ~Moving(s) /\ Pending(s) = << >> /\ UNCHANGED input
    BY <1>3 DEF Read, Moving, Pending
  <2>2. CASE u = s
    <3>1. Pending(s)' = Head(net[s]) /\ net'[s] = Tail(net[s]) /\ net[s] # << >>
      BY <1>3, <2>2 DEF Read, Pending, Typed
    <3> QED BY <1>1, <2>1, <3>1, ChainRead
  <2>3. CASE u # s
    <3>1. Pending(s)' = << >> /\ net'[s] = net[s]
      BY <1>3, <2>3 DEF Read, Pending, Typed
    <3> QED BY <2>1, <3>1
  <2> QED BY <2>1, <2>2, <2>3
<1>4. CASE Translate
  <2>1. /\ packet.events # << >> /\ UNCHANGED << input, net >>
        /\ UNCHANGED packet \/ packet' = [packet EXCEPT !.events = Tail(@)]
    BY <1>4 DEF Translate
  <2>2. CASE UNCHANGED packet
    BY <2>1, <2>2 DEF Moving, Pending
  <2>3. CASE packet' = [packet EXCEPT !.events = Tail(@)] /\ packet' # packet
    <3>1. packet'.src = packet.src /\ packet'.events = Tail(packet.events)
      BY <2>3 DEF Typed
    <3>2. CASE packet.src = s
      <4>1. /\ Moving(s) /\ Pending(s) = packet.events
            /\ Pending(s)' = Tail(packet.events)
        BY <2>1, <2>3, <3>1, <3>2 DEF Moving, Pending
      <4> QED BY <1>1, <2>1, <4>1, ChainTranslate
    <3>3. CASE packet.src # s
      <4>1. ~Moving(s) /\ Pending(s) = << >> /\ Pending(s)' = << >>
        BY <3>1, <3>3 DEF Moving, Pending
      <4> QED BY <2>1, <4>1
    <3> QED BY <3>2, <3>3
  <2> QED BY <2>1, <2>2, <2>3
<1>5. CASE UNCHANGED vars
  BY <1>5 DEF vars, Moving, Pending
<1> QED BY <1>2, <1>3, <1>4, <1>5, RenderSteps

(***************************************************************************)
(* The table of the proxy.                                                 *)
(***************************************************************************)

\* The slots of s that have a slot of the guest.
Used(s) == {k \in SrcSlots : \E j \in GuestSlots : slots[j] = << s, k >>}

Injective == \A j, k \in GuestSlots : slots[j] = slots[k] /\ slots[j] # Free => j = k

\* The slot the next event is about, and the guest's slot for it.
Key   == LET ev == Head(packet.events)
         IN IF ev.code = "slot" THEN ev.val ELSE srcSlot[packet.src]
Place == First(Usable(packet.src, Key))

\* touch_translate, with a slot of the guest.
Translated ==
  /\ packet.events # << >> /\ Usable(packet.src, Key) # {}
  /\ srcSlot' = [srcSlot EXCEPT ![packet.src] = Key]
  /\ slots' = Taken(Head(packet.events), packet.src, Key, Place)
  /\ curSlot' = Place
  /\ Guest(Head(packet.events), GuestSlot(Head(packet.events), Place),
           << packet.src, Head(packet.events).id >>)
  /\ packet' = [packet EXCEPT !.events = Tail(@)]
  /\ UNCHANGED aborted

\* It finds one, or get_slot's assertion fails.
LEMMA TranslateSteps ==
  ASSUME Translate
  PROVE  \/ Translated
         \/ /\ Usable(packet.src, Key) = {} /\ packet.events # << >> /\ aborted' = TRUE
            /\ UNCHANGED << packet, slots, srcSlot, curSlot, guestVars >>
BY DEF Translate, Translated, Key, Place

\* The slot found is the one of the pair, or a free one for a pair without.
LEMMA PlaceProperties ==
  ASSUME Typed, packet.events # << >>, Usable(packet.src, Key) # {}
  PROVE  /\ packet.src \in Srcs /\ Head(packet.events) \in Events
         /\ Key \in SrcSlots /\ Place \in GuestSlots
         /\ \/ slots[Place] = << packet.src, Key >>
            \/ /\ slots[Place] = Free
               /\ \A j \in GuestSlots : slots[j] # << packet.src, Key >>
               /\ \A j \in GuestSlots : j < Place => slots[j] # Free
<1>1. packet.src \in Srcs /\ packet.events \in Seq(Events)
  BY DEF Typed
<1>2. Head(packet.events) \in Events
  BY <1>1, HeadTailProperties
<1>3. Key \in SrcSlots
  BY <1>1, <1>2, EventTyped DEF Key, Typed, TypeProxy
<1>4. Usable(packet.src, Key) \subseteq GuestSlots /\ GuestSlots \subseteq Nat
  BY SlotsTyped DEF Usable
<1>5. /\ Place \in Usable(packet.src, Key)
      /\ \A j \in Usable(packet.src, Key) : Place <= j
  BY <1>4, FirstProperties DEF Place
<1>6. CASE \E j \in GuestSlots : slots[j] = << packet.src, Key >>
  <2>1. Usable(packet.src, Key) = {j \in GuestSlots : slots[j] = << packet.src, Key >>}
    BY <1>6 DEF Usable
  <2> QED BY <1>1, <1>2, <1>3, <1>5, <2>1
<1>7. CASE \A j \in GuestSlots : slots[j] # << packet.src, Key >>
  <2>1. Usable(packet.src, Key) = {j \in GuestSlots : slots[j] = Free}
    BY <1>7 DEF Usable
  <2>2. ASSUME NEW j \in GuestSlots, j < Place, slots[j] = Free PROVE FALSE
    <3>1. j \in Nat /\ Place \in Nat /\ Place <= j
      BY <1>4, <1>5, <2>1, <2>2
    <3> QED BY <2>2, <3>1
  <2> QED BY <1>1, <1>2, <1>3, <1>5, <1>7, <2>1, <2>2
<1> QED BY <1>6, <1>7

\* A pair is not a free slot.
LEMMA PairIsNotFree == \A s, k : << s, k >> # Free
BY DEF Free

\* An event changes the table for the slot it is about.
LEMMA TableNext ==
  ASSUME Typed, Injective, Translated
  PROVE  /\ TypeProxy' /\ Injective'
         /\ \A s \in Srcs : s # packet.src =>
              Used(s)' = Used(s) /\ srcSlot'[s] = srcSlot[s]
         /\ \A s \in Srcs : s = packet.src =>
              /\ srcSlot'[s] = Key
              /\ LET ev == Head(packet.events)
                 IN Used(s)' = IF ev.code = "track" /\ ev.val = -1
                               THEN Used(s) \ {Key} ELSE Used(s) \cup {Key}
<1> PICK u \in Srcs : u = packet.src
  BY DEF Typed
<1> DEFINE ev == Head(packet.events)
           t  == IF ev.code = "track" /\ ev.val = -1 THEN Free ELSE << u, Key >>
<1>1. /\ u \in Srcs /\ ev \in Events /\ Key \in SrcSlots /\ Place \in GuestSlots
      /\ \/ slots[Place] = << u, Key >>
         \/ slots[Place] = Free /\ \A j \in GuestSlots : slots[j] # << u, Key >>
  BY PlaceProperties DEF Translated
<1>2. /\ slots' = [slots EXCEPT ![Place] = t] /\ srcSlot' = [srcSlot EXCEPT ![u] = Key]
      /\ curSlot' = Place /\ aborted' = aborted
  BY DEF Translated, Taken
<1>3. slots \in [GuestSlots -> (Srcs \X SrcSlots) \cup {Free}] /\ srcSlot \in [Srcs -> SrcSlots]
      /\ aborted \in BOOLEAN
  BY DEF Typed, TypeProxy
<1>4. t \in (Srcs \X SrcSlots) \cup {Free}
  BY <1>1
<1>5. t = Free \/ t = << u, Key >>
  OBVIOUS
<1>6. slots'[Place] = t /\ \A j \in GuestSlots : j # Place => slots'[j] = slots[j]
  BY <1>1, <1>2, <1>3
<1>7. TypeProxy'
  BY <1>1, <1>2, <1>3, <1>4 DEF TypeProxy
<1>8. \A j \in GuestSlots : slots[j] = << u, Key >> => j = Place
  BY <1>1, PairIsNotFree DEF Injective
<1>9. Injective'
  <2> SUFFICES ASSUME NEW j \in GuestSlots, NEW k \in GuestSlots,
                      slots'[j] = slots'[k], slots'[j] # Free
               PROVE  j = k
    BY DEF Injective
  <2> QED BY <1>5, <1>6, <1>8 DEF Injective
<1>10. ASSUME NEW s \in Srcs, s # u PROVE Used(s)' = Used(s) /\ srcSlot'[s] = srcSlot[s]
  <2>1. \A k \in SrcSlots : slots[Place] # << s, k >> /\ slots'[Place] # << s, k >>
    BY <1>1, <1>5, <1>6, <1>10, PairIsNotFree
  <2> QED BY <1>2, <1>3, <1>6, <1>10, <2>1 DEF Used
<1>11. ASSUME NEW k \in SrcSlots, k # Key PROVE k \in Used(u)' <=> k \in Used(u)
  <2>1. slots[Place] # << u, k >> /\ slots'[Place] # << u, k >>
    BY <1>1, <1>5, <1>6, <1>11, PairIsNotFree
  <2> QED BY <1>6, <2>1 DEF Used
<1>12. Key \in Used(u)' <=> ~(ev.code = "track" /\ ev.val = -1)
  <2>1. CASE ev.code = "track" /\ ev.val = -1
    <3>1. slots'[Place] = Free
      BY <1>6, <2>1
    <3>2. \A j \in GuestSlots : slots'[j] # << u, Key >>
      BY <1>6, <1>8, <3>1, PairIsNotFree
    <3> QED BY <2>1, <3>2 DEF Used
  <2>2. CASE ~(ev.code = "track" /\ ev.val = -1)
    <3>1. slots'[Place] = << u, Key >>
      BY <1>6, <2>2
    <3> QED BY <1>1, <2>2, <3>1 DEF Used
  <2> QED BY <2>1, <2>2
<1>13. Used(u) \subseteq SrcSlots /\ Used(u)' \subseteq SrcSlots
  BY DEF Used
<1>14. Used(u)' = IF ev.code = "track" /\ ev.val = -1 THEN Used(u) \ {Key}
                                                     ELSE Used(u) \cup {Key}
  BY <1>1, <1>11, <1>12, <1>13
<1>15. srcSlot'[u] = Key
  BY <1>1, <1>2, <1>3
<1> QED BY <1>7, <1>9, <1>10, <1>14, <1>15

\* A table for all slots of all renderers has one for each.
LEMMA TableRoom ==
  ASSUME Typed, Injective, packet.events # << >>,
         Cardinality(Srcs) * MaxSlots <= MaxGuest
  PROVE  Usable(packet.src, Key) # {}
<1> SUFFICES ASSUME Usable(packet.src, Key) = {} PROVE FALSE
  OBVIOUS
<1>1. packet.src \in Srcs /\ Key \in SrcSlots
  <2>1. packet.src \in Srcs /\ Head(packet.events) \in Events
    BY HeadTailProperties DEF Typed
  <2> QED BY <2>1, EventTyped DEF Key, Typed, TypeProxy
<1>2. /\ \A j \in GuestSlots : slots[j] # << packet.src, Key >>
      /\ \A j \in GuestSlots : slots[j] # Free
  BY DEF Usable
<1> DEFINE Pairs == Srcs \X SrcSlots
<1>3. slots \in Injection(GuestSlots, Pairs)
  <2>1. slots \in [GuestSlots -> Pairs]
    BY <1>2 DEF Typed, TypeProxy
  <2>2. \A j, k \in GuestSlots : slots[j] = slots[k] => j = k
    BY <1>2 DEF Injective
  <2> QED BY <2>1, <2>2 DEF Injection, IsInjective
<1>4. /\ IsFiniteSet(SrcSlots) /\ Cardinality(SrcSlots) = MaxSlots
      /\ Cardinality(GuestSlots) = MaxGuest
  <2>1. 0 \in Int /\ MaxSlots - 1 \in Int /\ MaxGuest - 1 \in Int
    BY SlotsAssumption
  <2>2. /\ IsFiniteSet(0 .. MaxSlots - 1)
        /\ Cardinality(0 .. MaxSlots - 1) =
             IF 0 > MaxSlots - 1 THEN 0 ELSE (MaxSlots - 1) - 0 + 1
        /\ Cardinality(0 .. MaxGuest - 1) =
             IF 0 > MaxGuest - 1 THEN 0 ELSE (MaxGuest - 1) - 0 + 1
    BY <2>1, FS_Interval
  <2> QED BY <2>2, SlotsAssumption DEF SrcSlots, GuestSlots
<1>5. IsFiniteSet(Pairs) /\ Cardinality(Pairs) = Cardinality(Srcs) * MaxSlots
  BY <1>4, SrcsAssumption, FS_Product
<1>6. Cardinality(Pairs) \in Nat
  BY <1>5, FS_CardinalityType
<1> HIDE DEF Pairs
<1>7. Cardinality(GuestSlots) <= Cardinality(Pairs)
  BY <1>3, <1>5, FS_Injection
<1>8. Cardinality(GuestSlots) = Cardinality(Pairs)
  BY <1>4, <1>5, <1>6, <1>7, SlotsAssumption
<1>9. slots \in Surjection(GuestSlots, Pairs)
  BY <1>3, <1>5, <1>8, FS_Injection
<1>10. << packet.src, Key >> \in Pairs
  BY <1>1 DEF Pairs
<1>11. \E j \in GuestSlots : slots[j] = << packet.src, Key >>
  BY <1>9, <1>10 DEF Surjection
<1> QED BY <1>2, <1>11

(***************************************************************************)
(* The invariant of the table: what the proxy has made of the packets of a *)
(* renderer is followed by the rest of them.                               *)
(***************************************************************************)
Matches(v, s) == v.used = Used(s) /\ v.cur = srcSlot[s]
Follows(v, s) == Chain(v, Pending(s), net[s], Kept(input[s]))

TableFollows == \A s \in Srcs : \E v \in View : Matches(v, s) /\ Follows(v, s)

TableInv == Typed /\ Queued /\ Injective /\ TableFollows /\ TableSuffices

\* No slot in use.
Nothing == [used |-> {}, held |-> [k \in SrcSlots |-> NoId], cur |-> 0]

\* Every source begins with that view.
LEMMA InitNothing ==
  ASSUME Init
  PROVE  /\ Typed /\ Queued /\ Nothing \in View
         /\ \A s \in Srcs : Matches(Nothing, s) /\ Follows(Nothing, s)
<1>1. 0 \in SrcSlots /\ 0 \in GuestSlots
  BY SlotsTyped
<1>2. Nothing \in View
  BY <1>1 DEF Nothing, View
<1> DEFINE in == [slots |-> [k \in SrcSlots |-> NoId], last |-> 0,
                  olds  |-> [k \in SrcSlots |-> NoId], old  |-> 0, queue |-> << >>]
<1>3. /\ in \in InputState /\ Kept(in) = Nothing /\ Believed(in) = Nothing
      /\ in.queue = << >>
  BY <1>1, EmptySeq DEF InputState, Kept, Believed, Nothing
<1>4. Consistent(in)
  BY <1>2, <1>3, LeadsNowhere DEF Consistent
<1>5. \A s \in Srcs : input[s] = in /\ net[s] = << >> /\ srcSlot[s] = 0
  BY DEF Init
<1>6. packet \in [src : Srcs, events : Seq(Events)] /\ packet.events = << >>
  <2>1. (CHOOSE s \in Srcs : TRUE) \in Srcs
    BY SrcsAssumption
  <2> QED BY <2>1, EmptySeq DEF Init
<1>7. Typed
  <2>1. TypeProxy
    BY <1>1 DEF Init, TypeProxy
  <2>2. input \in [Srcs -> InputState]
    BY <1>3 DEF Init
  <2>3. net \in [Srcs -> Seq(Seq(Events))]
    BY EmptySeq DEF Init
  <2> QED BY <1>6, <2>1, <2>2, <2>3 DEF Typed
<1> HIDE DEF in
<1>8. ASSUME NEW s \in Srcs PROVE Matches(Nothing, s) /\ Follows(Nothing, s)
  <2>1. Used(s) = {}
    BY PairIsNotFree DEF Init, Used
  <2>2. Pending(s) = << >>
    BY <1>6 DEF Pending
  <2>3. Chain(Nothing, << >>, << >>, Nothing)
    BY <1>2, ChainNowhere
  <2> QED BY <1>3, <1>5, <2>1, <2>2, <2>3 DEF Matches, Follows, Nothing
<1> QED BY <1>2, <1>4, <1>5, <1>7, <1>8 DEF Queued

\* The invariant holds in the beginning.
LEMMA TableInit == Init => TableInv
<1> SUFFICES ASSUME Init PROVE TableInv
  OBVIOUS
<1>1. Injective /\ TableSuffices
  BY DEF Init, Injective, TableSuffices
<1> QED BY <1>1, InitNothing DEF TableInv, TableFollows

\* Only touch_translate moves the view of a source.
LEMMA MovingTranslates ==
  ASSUME [Next]_vars
  PROVE  \/ Translated
         \/ /\ UNCHANGED << slots, srcSlot, curSlot, guestVars >>
            /\ \A s \in Srcs : ~Moving(s)
            /\ UNCHANGED aborted \/ (/\ packet.events # << >> /\ aborted' = TRUE
                                     /\ Usable(packet.src, Key) = {})
<1>1. CASE Renders /\ UNCHANGED << packet, proxyVars, guestVars >>
  BY <1>1 DEF Moving, proxyVars
<1>2. ASSUME NEW s \in Srcs, Read(s)
      PROVE  UNCHANGED << proxyVars, guestVars >> /\ \A u \in Srcs : ~Moving(u)
  BY <1>2 DEF Read, Moving
<1>3. CASE Translate
  BY <1>3, TranslateSteps DEF Moving
<1>4. CASE UNCHANGED vars
  BY <1>4 DEF vars, Moving, proxyVars
<1> QED BY <1>1, <1>2, <1>3, <1>4, RenderSteps DEF proxyVars

\* touch_translate moves on to the next event of the packet.
LEMMA TranslatedMoves ==
  ASSUME Typed, Translated, NEW s \in Srcs
  PROVE  Moving(s) <=> s = packet.src
<1>1. packet.events # << >> /\ packet' = [packet EXCEPT !.events = Tail(@)]
  BY DEF Translated
<1>2. packet.events \in Seq(Events)
  BY DEF Typed
<1>3. Len(Tail(packet.events)) = Len(packet.events) - 1 /\ Len(packet.events) \in Nat
  BY <1>1, <1>2, HeadTailProperties, LenProperties
<1>4. packet'.events = Tail(packet.events)
  BY <1>1 DEF Typed
<1>5. Len(packet'.events) # Len(packet.events)
  BY <1>3, <1>4
<1>6. packet' # packet
  BY <1>5
<1> QED BY <1>1, <1>6 DEF Moving

\* The table moves with the view of the packet's source.
LEMMA MovedMatches ==
  ASSUME Typed, Injective, Translated, NEW s \in Srcs, NEW v \in View, Matches(v, s),
         NEW w, w = IF Moving(s) THEN After(v, Head(packet.events)) ELSE v
  PROVE  /\ w.used = Used(s)' /\ w.cur = srcSlot'[s]
         /\ Moving(s) => Target(v, Head(packet.events)) = Key
<1>1. Moving(s) <=> s = packet.src
  BY TranslatedMoves
<1>2. CASE s # packet.src
  BY <1>1, <1>2, TableNext DEF Matches
<1>3. CASE s = packet.src
  <2>1. Target(v, Head(packet.events)) = Key
    BY <1>3 DEF Target, Key, Matches
  <2>2. LET ev == Head(packet.events)
        IN /\ Used(s)' = IF ev.code = "track" /\ ev.val = -1
                         THEN Used(s) \ {Key} ELSE Used(s) \cup {Key}
           /\ srcSlot'[s] = Key
    BY <1>3, TableNext
  <2>3. /\ After(v, Head(packet.events)).used = Used(s)'
        /\ After(v, Head(packet.events)).cur = srcSlot'[s]
    BY <2>1, <2>2 DEF After, Matches
  <2> QED BY <1>1, <1>3, <2>1, <2>3
<1> QED BY <1>2, <1>3

\* The view of a source after a step.
LEMMA ViewNext ==
  ASSUME Typed, NEW s \in Srcs, NEW v \in View
  PROVE  (IF Moving(s) THEN After(v, Head(packet.events)) ELSE v) \in View
<1>1. CASE Moving(s)
  <2>1. packet.events \in Seq(Events) /\ packet.events # << >>
    BY <1>1 DEF Typed, Moving
  <2>2. Head(packet.events) \in Events
    BY <2>1, HeadTailProperties
  <2> QED BY <1>1, <2>2, AfterTyped
<1> QED BY <1>1

\* Every step keeps the invariant of the table.
LEMMA TableStep == TableInv /\ [Next]_vars => TableInv'
<1> SUFFICES ASSUME TableInv, [Next]_vars PROVE TableInv'
  OBVIOUS
<1>1. Typed /\ Queued /\ Injective /\ TableFollows /\ TableSuffices
  BY DEF TableInv
<1>2. /\ input' \in [Srcs -> InputState] /\ net' \in [Srcs -> Seq(Seq(Events))]
      /\ packet' \in [src : Srcs, events : Seq(Events)]
      /\ Queued'
  BY <1>1, QueuedNext
<1>3. ASSUME Translated PROVE TypeProxy' /\ Injective' /\ TableSuffices'
  <2>1. TypeProxy' /\ Injective'
    BY <1>1, <1>3, TableNext
  <2>2. UNCHANGED aborted
    BY <1>3 DEF Translated
  <2>3. TableSuffices'
    BY <1>1, <2>2 DEF TableSuffices
  <2> QED BY <2>1, <2>3
<1>4. ASSUME UNCHANGED << slots, srcSlot, curSlot, guestVars >>,
             UNCHANGED aborted \/ (/\ packet.events # << >> /\ aborted' = TRUE
                                  /\ Usable(packet.src, Key) = {})
      PROVE  TypeProxy' /\ Injective' /\ TableSuffices'
  <2>1. TypeProxy' /\ Injective'
    BY <1>1, <1>4 DEF Typed, TypeProxy, Injective
  <2>2. TableSuffices'
    BY <1>1, <1>4, TableRoom DEF TableSuffices
  <2> QED BY <2>1, <2>2
<1>5. TypeProxy' /\ Injective' /\ TableSuffices'
  BY <1>3, <1>4, MovingTranslates
<1>6. ASSUME NEW s \in Srcs PROVE \E w \in View : (Matches(w, s) /\ Follows(w, s))'
  <2>1. PICK v \in View : Matches(v, s) /\ Follows(v, s)
    BY <1>1 DEF TableFollows
  <2>2. PICK w \in View : w = IF Moving(s) THEN After(v, Head(packet.events)) ELSE v
    BY <1>1, ViewNext
  <2>3. Chain(w, Pending(s)', net'[s], Kept(input'[s]))
    BY <1>1, <2>1, <2>2, ChainNext DEF Follows
  <2>4. w.used = Used(s)' /\ w.cur = srcSlot'[s]
    <3>1. CASE Translated
      BY <1>1, <2>1, <2>2, <3>1, MovedMatches
    <3>2. CASE UNCHANGED << slots, srcSlot >> /\ ~Moving(s)
      <4>1. w = v /\ Used(s)' = Used(s)
        BY <2>2, <3>2 DEF Used
      <4> QED BY <2>1, <3>2, <4>1 DEF Matches
    <3> QED BY <3>1, <3>2, MovingTranslates
  <2>5. Follows(w, s)' /\ Matches(w, s)'
    BY <2>3, <2>4 DEF Follows, Matches
  <2> QED BY <2>5
<1>7. TableFollows'
  BY <1>6 DEF TableFollows
<1> QED BY <1>2, <1>5, <1>7 DEF TableInv, Typed

\* When all packets are translated the table has what the source has sent.
LEMMA SettledMatches ==
  ASSUME Typed, NEW s \in Srcs, NEW v \in View, Settled(s), Matches(v, s), Follows(v, s)
  PROVE  v = Kept(input[s]) /\ Used(s) = {k \in SrcSlots : input[s].olds[k] # NoId}
<1>1. Pending(s) = << >> /\ net[s] = << >>
  BY DEF Settled, Pending
<1>2. Chain(v, << >>, << >>, Kept(input[s]))
  BY <1>1 DEF Follows
<1>3. Kept(input[s]) = v
  BY <1>2, ChainNowhere
<1> QED BY <1>3 DEF Matches, Kept

\* The invariant implies the property.
LEMMA TableInvSound == TableInv => TableSound
<1> SUFFICES ASSUME TableInv PROVE TableSound
  OBVIOUS
<1>1. Typed /\ Injective /\ TableFollows /\ TableSuffices
  BY DEF TableInv
<1>2. ASSUME NEW s \in Srcs, Settled(s)
      PROVE  { slots[k] : k \in GuestSlots } \cap ({s} \X SrcSlots)
               = { << s, k >> : k \in { j \in SrcSlots : input[s].olds[j] # NoId } }
  <2>1. PICK v \in View : Matches(v, s) /\ Follows(v, s)
    BY <1>1 DEF TableFollows
  <2>2. Used(s) = {k \in SrcSlots : input[s].olds[k] # NoId}
    BY <1>1, <1>2, <2>1, SettledMatches
  <2>3. { slots[k] : k \in GuestSlots } \cap ({s} \X SrcSlots) = { << s, k >> : k \in Used(s) }
    BY DEF Used
  <2> QED BY <2>2, <2>3
<1> QED BY <1>1, <1>2 DEF TableSound, TableExact, Injective

(***************************************************************************)
(* The table g->slots, at every step: a pair has one slot at most; when    *)
(* the packets of a renderer are translated its touches have a slot and    *)
(* nothing else of it has; get_slot's assertion holds if the guest's slots *)
(* suffice for all renderers.                                              *)
(***************************************************************************)
THEOREM TableCorrect == Spec => []TableSound
<1>1. Init => TableInv
  BY TableInit
<1>2. TableInv /\ [Next]_vars => TableInv'
  BY TableStep
<1>3. TableInv => TableSound
  BY TableInvSound
<1> QED BY <1>1, <1>2, <1>3, PTL DEF Spec

(***************************************************************************)
(* One renderer.  Its slots have the same numbers in the guest, because    *)
(* both sides give a new touch the first free one.                         *)
(***************************************************************************)
SameSlots(s) == \A j \in GuestSlots : slots[j] \in {Free, << s, j >>}

\* The guest has the touches of v in their slots, and positions in theirs.
Shows(v, s) ==
  /\ guest = [j \in GuestSlots |->
                IF j \in SrcSlots /\ v.held[j] # NoId THEN << s, v.held[j] >> ELSE None]
  /\ \A j \in GuestSlots : position[j] \in {None, guest[j]}

OneInv(s) ==
  /\ Typed /\ Queued /\ Injective /\ SameSlots(s) /\ gSlot = curSlot
  /\ position \in [GuestSlots -> Touches \cup {None}]
  /\ \E v \in View : Matches(v, s) /\ Follows(v, s) /\ Shows(v, s)

\* The invariant of one renderer holds in the beginning,
LEMMA OneInit ==
  ASSUME Init, NEW s \in Srcs
  PROVE  OneInv(s)
<1>1. /\ Typed /\ Queued /\ Nothing \in View
      /\ Matches(Nothing, s) /\ Follows(Nothing, s)
  BY InitNothing
<1>2. Injective /\ SameSlots(s) /\ gSlot = curSlot
  BY DEF Init, Injective, SameSlots
<1>3. position \in [GuestSlots -> Touches \cup {None}]
  BY DEF Init
<1>4. Shows(Nothing, s)
  BY DEF Init, Shows, Nothing
<1> QED BY <1>1, <1>2, <1>3, <1>4 DEF OneInv

\* The guest's slot is the one of the source.
LEMMA SamePlace ==
  ASSUME Typed, Translated, SameSlots(packet.src), NEW v \in View,
         Matches(v, packet.src), Fits(v, Head(packet.events)),
         MaxSlots <= MaxGuest
  PROVE  Place = Key
<1> PICK u \in Srcs : u = packet.src
  BY DEF Typed
<1>1. /\ Head(packet.events) \in Events /\ Key \in SrcSlots /\ Place \in GuestSlots
      /\ \/ slots[Place] = << u, Key >>
         \/ /\ slots[Place] = Free
            /\ \A j \in GuestSlots : slots[j] # << u, Key >>
            /\ \A j \in GuestSlots : j < Place => slots[j] # Free
  BY PlaceProperties DEF Translated
<1>2. \A j \in GuestSlots : slots[j] \in {Free, << u, j >>}
  BY DEF SameSlots
<1>3. SrcSlots \subseteq GuestSlots /\ GuestSlots \subseteq Nat
  BY SlotsAssumption DEF SrcSlots, GuestSlots
<1>4. CASE slots[Place] = << u, Key >>
  BY <1>1, <1>2, <1>4, PairIsNotFree
<1>5. CASE /\ slots[Place] = Free
           /\ \A j \in GuestSlots : slots[j] # << u, Key >>
           /\ \A j \in GuestSlots : j < Place => slots[j] # Free
  <2>1. Key \notin Used(u)
    BY <1>5 DEF Used
  <2>2. \A j \in Used(u) : slots[j] # Free
    <3> SUFFICES ASSUME NEW j \in Used(u) PROVE slots[j] # Free
      OBVIOUS
    <3>1. PICK i \in GuestSlots : slots[i] = << u, j >>
      BY DEF Used
    <3>2. i = j
      BY <1>2, <3>1, PairIsNotFree
    <3> QED BY <3>1, <3>2, PairIsNotFree
  <2>3. v.used = Used(u) /\ v.cur = srcSlot[u]
    BY DEF Matches
  <2>4. \A j \in SrcSlots : j < Key => j \in Used(u)
    <3>1. CASE Head(packet.events).code = "slot"
      BY <2>1, <2>3, <3>1 DEF Fits, Key
    <3>2. CASE Head(packet.events).code # "slot"
      BY <2>1, <2>3, <3>2 DEF Fits, Key
    <3> QED BY <3>1, <3>2
  <2>5. slots[Key] = Free
    BY <1>1, <1>2, <1>3, <1>5
  <2>6. ~(Key < Place)
    BY <1>1, <1>3, <1>5, <2>5
  <2>7. ~(Place < Key)
    <3> SUFFICES ASSUME Place < Key PROVE FALSE
      OBVIOUS
    <3>1. Place \in SrcSlots
      <4>1. Place \in Nat /\ Key \in 0 .. MaxSlots - 1 /\ MaxSlots \in Nat
        BY <1>1, <1>3, SlotsAssumption DEF SrcSlots
      <4>2. Place \in 0 .. MaxSlots - 1
        BY <4>1
      <4> QED BY <4>2 DEF SrcSlots
    <3> QED BY <1>5, <2>2, <2>4, <3>1
  <2> QED BY <1>1, <1>3, <2>6, <2>7
<1> QED BY <1>1, <1>4, <1>5

\* The guest follows the next event.
LEMMA ShowsNext ==
  ASSUME Typed, Translated, NEW u \in Srcs, u = packet.src, SameSlots(u),
         gSlot = curSlot, position \in [GuestSlots -> Touches \cup {None}],
         NEW v \in View, Matches(v, u), Shows(v, u),
         Fits(v, Head(packet.events)), MaxSlots <= MaxGuest,
         NEW w, w = After(v, Head(packet.events))
  PROVE  /\ SameSlots(u)' /\ gSlot' = curSlot'
         /\ position' \in [GuestSlots -> Touches \cup {None}]
         /\ guest' = [j \in GuestSlots |->
                        IF j \in SrcSlots /\ w.held[j] # NoId
                        THEN << u, w.held[j] >> ELSE None]
         /\ \A j \in GuestSlots : position'[j] \in {None, guest'[j]}
<1> DEFINE ev == Head(packet.events)
<1>1. /\ ev \in Events /\ Key \in SrcSlots /\ Place \in GuestSlots
      /\ Usable(packet.src, Key) # {} /\ packet.events # << >>
  BY PlaceProperties DEF Translated
<1>2. Place = Key
  BY SamePlace
<1>3. SrcSlots \subseteq GuestSlots /\ GuestSlots \subseteq Nat
  BY SlotsAssumption DEF SrcSlots, GuestSlots
<1>4. Target(v, ev) = Key
  BY DEF Target, Key, Matches
<1>5. GuestSlot(ev, Place) = Key
  BY <1>2 DEF GuestSlot, Key
<1>6. /\ gSlot' = Key /\ curSlot' = Key
      /\ slots' = [slots EXCEPT ![Key] = IF ev.code = "track" /\ ev.val = -1 THEN Free
                                         ELSE << u, Key >>]
      /\ guest' = IF ev.code # "track" THEN guest
                  ELSE [guest EXCEPT ![Key] = IF ev.val = -1 THEN None ELSE << u, ev.id >>]
      /\ position' = CASE ev.code = "track" -> [position EXCEPT ![Key] = None]
                       [] ev.code = "pos"   -> [position EXCEPT ![Key] = << u, ev.id >>]
                       [] OTHER             -> position
  BY <1>2, <1>5 DEF Translated, Guest, Taken
<1>7. /\ ev.code \in {"slot", "track", "pos"} /\ ev.id \in Ids /\ ev.id # NoId
      /\ << u, ev.id >> \in Touches
  BY <1>1, EventTyped, NoIdIsNone DEF Touches
<1>8. w.held = IF ev.code = "track"
               THEN [v.held EXCEPT ![Key] = IF ev.val = -1 THEN NoId ELSE ev.id]
               ELSE v.held
  BY <1>4 DEF After
<1>9. v.held \in [SrcSlots -> Ids \cup {NoId}]
  BY DEF View
<1>10. /\ guest = [j \in GuestSlots |->
                     IF j \in SrcSlots /\ v.held[j] # NoId THEN << u, v.held[j] >> ELSE None]
       /\ \A j \in GuestSlots : position[j] \in {None, guest[j]}
  BY DEF Shows
<1>11. ev.code = "pos" => v.held[Key] = ev.id
  BY <1>4 DEF Fits, Target
<1> HIDE DEF ev
<1>12. SameSlots(u)'
  BY <1>1, <1>3, <1>6 DEF SameSlots, Typed, TypeProxy
<1>13. position' \in [GuestSlots -> Touches \cup {None}]
  BY <1>1, <1>3, <1>6, <1>7
<1>14. guest' = [j \in GuestSlots |->
                   IF j \in SrcSlots /\ w.held[j] # NoId THEN << u, w.held[j] >> ELSE None]
  <2>1. CASE ev.code # "track"
    BY <1>6, <1>8, <1>10, <2>1
  <2>2. CASE ev.code = "track"
    <3> DEFINE t == IF ev.val = -1 THEN None ELSE << u, ev.id >>
    <3>1. guest' = [guest EXCEPT ![Key] = t] /\ DOMAIN guest = GuestSlots
      BY <1>6, <1>10, <2>2
    <3>2. ASSUME NEW j \in GuestSlots
          PROVE  guest'[j] = IF j \in SrcSlots /\ w.held[j] # NoId
                             THEN << u, w.held[j] >> ELSE None
      <4>1. CASE j = Key
        <5>1. w.held[j] = IF ev.val = -1 THEN NoId ELSE ev.id
          BY <1>1, <1>8, <1>9, <2>2, <4>1
        <5>2. guest'[j] = IF ev.val = -1 THEN None ELSE << u, ev.id >>
          BY <1>1, <1>3, <1>6, <1>10, <2>2, <4>1
        <5> QED BY <1>1, <1>7, <4>1, <5>1, <5>2
      <4>2. CASE j # Key
        <5>1. guest'[j] = guest[j] /\ (j \in SrcSlots => w.held[j] = v.held[j])
          BY <1>1, <1>6, <1>8, <1>9, <1>10, <2>2, <4>2
        <5> QED BY <1>10, <5>1
      <4> QED BY <4>1, <4>2
    <3> HIDE DEF t
    <3>3. guest' = [j \in GuestSlots |-> IF j = Key THEN t ELSE guest[j]]
      BY <3>1
    <3> QED BY <3>2, <3>3
  <2> QED BY <2>1, <2>2
<1>15. ASSUME NEW j \in GuestSlots PROVE position'[j] \in {None, guest'[j]}
  <2>1. CASE j # Key
    BY <1>6, <1>7, <1>10, <2>1
  <2>2. CASE j = Key /\ ev.code = "track"
    BY <1>6, <2>2
  <2>3. CASE j = Key /\ ev.code = "pos"
    <3>1. position'[j] = << u, ev.id >> /\ guest'[j] = guest[j]
      BY <1>6, <2>3
    <3>2. guest[j] = << u, ev.id >>
      BY <1>1, <1>7, <1>10, <1>11, <2>3
    <3> QED BY <3>1, <3>2
  <2>4. CASE ev.code = "slot"
    BY <1>6, <1>10, <2>4
  <2> QED BY <1>7, <2>1, <2>2, <2>3, <2>4
<1> QED BY <1>6, <1>12, <1>13, <1>14, <1>15

\* is kept by every step,
LEMMA OneStep ==
  ASSUME NEW s \in Srcs, Srcs = {s}, MaxSlots <= MaxGuest, OneInv(s), [Next]_vars
  PROVE  OneInv(s)'
<1>1. /\ Typed /\ Queued /\ Injective /\ SameSlots(s) /\ gSlot = curSlot
      /\ position \in [GuestSlots -> Touches \cup {None}]
  BY DEF OneInv
<1>2. PICK v \in View : Matches(v, s) /\ Follows(v, s) /\ Shows(v, s)
  BY DEF OneInv
<1>3. /\ input' \in [Srcs -> InputState] /\ net' \in [Srcs -> Seq(Seq(Events))]
      /\ packet' \in [src : Srcs, events : Seq(Events)]
      /\ Queued'
  BY <1>1, QueuedNext
<1>4. PICK w \in View : w = IF Moving(s) THEN After(v, Head(packet.events)) ELSE v
  BY <1>1, ViewNext
<1>5. /\ Moving(s) => Fits(v, Head(packet.events))
      /\ Chain(w, Pending(s)', net'[s], Kept(input'[s]))
  BY <1>1, <1>2, <1>4, ChainNext DEF Follows
<1>6. ASSUME Translated
      PROVE  /\ TypeProxy' /\ Injective' /\ SameSlots(s)' /\ gSlot' = curSlot'
             /\ position' \in [GuestSlots -> Touches \cup {None}]
             /\ w.used = Used(s)' /\ w.cur = srcSlot'[s] /\ Shows(w, s)'
  <2>1. packet.src = s
    BY <1>1 DEF Typed
  <2>2. w = After(v, Head(packet.events)) /\ Fits(v, Head(packet.events))
    BY <1>1, <1>4, <1>5, <1>6, <2>1, TranslatedMoves
  <2>3. TypeProxy' /\ Injective'
    BY <1>1, <1>6, TableNext
  <2>4. w.used = Used(s)' /\ w.cur = srcSlot'[s]
    BY <1>1, <1>2, <1>4, <1>6, MovedMatches
  <2>5. /\ SameSlots(s)' /\ gSlot' = curSlot'
        /\ position' \in [GuestSlots -> Touches \cup {None}]
        /\ guest' = [j \in GuestSlots |->
                       IF j \in SrcSlots /\ w.held[j] # NoId
                       THEN << s, w.held[j] >> ELSE None]
        /\ \A j \in GuestSlots : position'[j] \in {None, guest'[j]}
    BY <1>1, <1>2, <1>6, <2>1, <2>2, ShowsNext
  <2> QED BY <2>3, <2>4, <2>5 DEF Shows
<1>7. ASSUME UNCHANGED << slots, srcSlot, curSlot, guestVars >>, ~Moving(s),
             UNCHANGED aborted \/ aborted' = TRUE
      PROVE  /\ TypeProxy' /\ Injective' /\ SameSlots(s)' /\ gSlot' = curSlot'
             /\ position' \in [GuestSlots -> Touches \cup {None}]
             /\ w.used = Used(s)' /\ w.cur = srcSlot'[s] /\ Shows(w, s)'
  <2>1. w = v
    BY <1>4, <1>7
  <2>2. /\ UNCHANGED << slots, srcSlot, curSlot, gSlot, guest, position >>
    BY <1>7 DEF guestVars
  <2>3. TypeProxy' /\ Injective' /\ SameSlots(s)'
    BY <1>1, <1>7, <2>2 DEF Typed, TypeProxy, Injective, SameSlots
  <2>4. gSlot' = curSlot' /\ position' \in [GuestSlots -> Touches \cup {None}]
    BY <1>1, <2>2
  <2>5. w.used = Used(s)' /\ w.cur = srcSlot'[s] /\ Shows(w, s)'
    BY <1>2, <2>1, <2>2 DEF Used, Matches, Shows
  <2> QED BY <2>3, <2>4, <2>5
<1>8. /\ TypeProxy' /\ Injective' /\ SameSlots(s)' /\ gSlot' = curSlot'
      /\ position' \in [GuestSlots -> Touches \cup {None}]
      /\ w.used = Used(s)' /\ w.cur = srcSlot'[s] /\ Shows(w, s)'
  BY <1>6, <1>7, MovingTranslates
<1>9. (Matches(w, s) /\ Follows(w, s) /\ Shows(w, s))'
  BY <1>5, <1>8 DEF Matches, Follows
<1> QED BY <1>3, <1>8, <1>9 DEF OneInv, Typed

\* and implies the property.
LEMMA OneInvFollows ==
  ASSUME NEW s \in Srcs, Srcs = {s}, MaxSlots <= MaxGuest, OneInv(s)
  PROVE  TouchesFollow
<1>1. PICK v \in View : Matches(v, s) /\ Follows(v, s) /\ Shows(v, s)
  BY DEF OneInv
<1>2. PositionsLand
  BY <1>1 DEF PositionsLand, Shows
<1>3. ASSUME Settled(s)
      PROVE  { guest[k] : k \in GuestSlots } \cap ({s} \X Ids)
               = { << s, input[s].olds[k] >> : k \in SrcSlots } \cap ({s} \X Ids)
  <2>1. v.held = input[s].olds
    BY <1>1, <1>3, SettledMatches DEF OneInv, Kept
  <2>2. SrcSlots \subseteq GuestSlots
    BY SlotsAssumption DEF SrcSlots, GuestSlots
  <2>3. ASSUME NEW k \in GuestSlots, guest[k] \in {s} \X Ids
        PROVE  \E j \in SrcSlots : guest[k] = << s, input[s].olds[j] >>
    <3>1. k \in SrcSlots /\ v.held[k] # NoId
      BY <1>1, <2>3 DEF Shows, None
    <3> QED BY <1>1, <2>1, <3>1 DEF Shows
  <2>4. ASSUME NEW j \in SrcSlots, << s, input[s].olds[j] >> \in {s} \X Ids
        PROVE  \E k \in GuestSlots : guest[k] = << s, input[s].olds[j] >>
    <3>1. j \in GuestSlots /\ input[s].olds[j] \in Ids
      BY <2>2, <2>4
    <3>2. v.held[j] # NoId
      BY <2>1, <3>1, NoIdIsNone
    <3>3. guest[j] = << s, v.held[j] >>
      BY <1>1, <3>1, <3>2 DEF Shows
    <3> QED BY <2>1, <3>1, <3>3
  <2> QED BY <2>3, <2>4
<1>4. GuestFollows
  BY <1>3 DEF GuestFollows
<1> QED BY <1>2, <1>4 DEF TouchesFollow

(***************************************************************************)
(* With one renderer, whatever is pressed, moved, lifted or cancelled in   *)
(* whatever order, and whatever packets are still on their way.  Two       *)
(* renderers mix their slots up: GuestFollows is then violated.            *)
(***************************************************************************)
THEOREM TouchesCorrect ==
  ASSUME NEW s \in Srcs, Srcs = {s}, MaxSlots <= MaxGuest
  PROVE  Spec => []TouchesFollow
<1>1. Init => OneInv(s)
  BY OneInit
<1>2. OneInv(s) /\ [Next]_vars => OneInv(s)'
  BY OneStep
<1>3. OneInv(s) => TouchesFollow
  BY OneInvFollows
<1> QED BY <1>1, <1>2, <1>3, PTL DEF Spec

TypeInv == TableInv /\ inputs \in 0 .. MaxInputs /\ TypeGuest

\* A step keeps the types of the guest.
LEMMA TypeStep ==
  ASSUME MaxSlots <= MaxGuest, TypeInv, [Next]_vars
  PROVE  inputs' \in 0 .. MaxInputs /\ TypeGuest'
<1>1. TableInv /\ Typed /\ inputs \in 0 .. MaxInputs /\ TypeGuest
  BY DEF TypeInv, TableInv
<1>2. inputs' \in 0 .. MaxInputs
  <2>1. UNCHANGED inputs \/ (inputs < MaxInputs /\ inputs' = inputs + 1)
    BY DEF Next, Down, Motion, Up, Frame, Cancel, Input, Read, Translate, vars
  <2> QED BY <1>1, <2>1, BoundAssumption
<1>3. CASE Translated
  <2> PICK u \in Srcs : u = packet.src
    BY <1>1 DEF Typed
  <2> DEFINE ev == Head(packet.events)
  <2>1. ev \in Events /\ Place \in GuestSlots
    BY <1>1, <1>3, PlaceProperties DEF Translated
  <2>2. SrcSlots \subseteq GuestSlots
    BY SlotsAssumption DEF SrcSlots, GuestSlots
  <2>3. GuestSlot(ev, Place) \in GuestSlots
    BY <1>1, <2>1, <2>2, EventTyped DEF GuestSlot, TypeGuest
  <2>4. << u, ev.id >> \in Touches
    BY <2>1, EventTyped DEF Touches
  <2>5. Guest(ev, GuestSlot(ev, Place), << u, ev.id >>)
    BY <1>3 DEF Translated
  <2> HIDE DEF ev
  <2>6. TypeGuest'
    BY <1>1, <2>3, <2>4, <2>5 DEF Guest, TypeGuest
  <2> QED BY <1>2, <2>6
<1>4. CASE UNCHANGED << slots, srcSlot, curSlot, guestVars >>
  BY <1>1, <1>2, <1>4 DEF TypeGuest, guestVars
<1> QED BY <1>3, <1>4, MovingTranslates

(***************************************************************************)
(* The types, for any number of renderers.  A guest slot may get a number  *)
(* of the source (GuestSlot), so that those have to be slots of the guest. *)
(***************************************************************************)
THEOREM TypeCorrect ==
  ASSUME MaxSlots <= MaxGuest
  PROVE  Spec => []TypeOK
<1>1. Init => TypeInv
  <2> SUFFICES ASSUME Init PROVE TypeInv
    OBVIOUS
  <2>1. inputs \in 0 .. MaxInputs /\ TypeGuest
    BY BoundAssumption, SlotsTyped DEF Init, TypeGuest
  <2> QED BY <2>1, TableInit DEF TypeInv
<1>2. TypeInv /\ [Next]_vars => TypeInv'
  BY TypeStep, TableStep DEF TypeInv
<1>3. TypeInv => TypeOK
  BY DEF TypeInv, TableInv, Typed, TypeOK, TypeRender, InputState
<1> QED BY <1>1, <1>2, <1>3, PTL DEF Spec

(***************************************************************************)
(* Which surface is told.  The objects that have a focus stay in the list, *)
(* so the end of a touch or a press finds the surface of its beginning.    *)
(***************************************************************************)
LEMMA SameCardinality ==
  \A S : Focus!Cardinality(S) = Cardinality(S)
BY DEF Focus!Cardinality, Cardinality

\* An object and its surface are in the list.
PointsTo(o, s) == \E i \in DOMAIN list : list[i].address = o /\ list[i].surface = s

Window == [address : Objects, surface : Surfaces, box : Boxes, visible : BOOLEAN]

Tells == [fingers : SUBSET Fingers, olds : SUBSET Fingers, buttons : SUBSET Buttons]

FocusIn == \A o \in {touch_focused, pointer_focused, keyboard_focused} :
             o # Nobody => \E i \in DOMAIN list : list[i].address = o

\* The surface that was told of a button has the grab.
ButtonsInv ==
  /\ button_states = held
  /\ focus <=> held # {}
  /\ held = {} => pointer_focused = Nobody
  /\ \A s \in Surfaces : /\ told[s].buttons \subseteq held
                         /\ told[s].buttons # {} => s \in registered /\ PointsTo(pointer_focused, s)

\* A surface that was told of a finger has the focus of the touches, which ends
\* with the count, or its touch has strayed.
TouchesInv ==
  /\ IsFiniteSet(fingers)
  /\ Cardinality(fingers) <= touch_down_count
  /\ ~TouchOutside => /\ Cardinality(fingers) = touch_down_count
                      /\ touch_focused = Nobody <=> fingers = {}
  /\ \A s \in Surfaces :
       /\ IsFiniteSet(told[s].fingers) /\ told[s].olds \subseteq told[s].fingers
       /\ \A f \in told[s].fingers :
            << s, f >> \in strayed \/ (f \in fingers /\ s \in registered /\ PointsTo(touch_focused, s))

PointerInv == Backend = "wayland" /\ pointer # Nobody => pre_pointer_pos = pointer

\* Without a layout the list is that of the registered surfaces.
SurfacesInv ==
  ~UseLayout => /\ \A i \in DOMAIN list : list[i].surface \in registered
                /\ \A i, j \in DOMAIN list : list[i].surface = list[j].surface => i = j

FocusInv == Focus!TypeOK /\ FocusIn /\ ButtonsInv /\ TouchesInv /\ PointerInv /\ SurfacesInv

\* The list and its windows.
LEMMA ListTyped ==
  ASSUME Focus!TypeOK
  PROVE  /\ list \in Seq(Window) /\ Len(list) \in Nat /\ DOMAIN list = 1 .. Len(list)
         /\ \A i \in DOMAIN list : list[i] \in Window
         /\ \A i, j \in DOMAIN list : list[i].address = list[j].address => i = j
<1>1. list \in Seq(Window) /\ \A i, j \in DOMAIN list : list[i].address = list[j].address => i = j
  BY DEF Focus!TypeOK, Focus!Object, Window
<1>2. Len(list) \in Nat /\ DOMAIN list = 1 .. Len(list)
  BY <1>1, LenProperties
<1>3. \A i \in DOMAIN list : list[i] \in Window
  BY <1>1, <1>2, ElementOfSeq
<1> QED BY <1>1, <1>2, <1>3

\* An address leads to its window.
LEMMA TheWindow ==
  ASSUME Focus!TypeOK, NEW i \in DOMAIN list
  PROVE  Focus!The(list[i].address) = list[i]
<1>1. \A w \in {list[k] : k \in DOMAIN list} : w.address = list[i].address => w = list[i]
  BY ListTyped
<1> QED BY <1>1 DEF Focus!The

\* The surface behind an address, and what it was told.
LEMMA ClientProperties ==
  ASSUME Focus!TypeOK, NEW o, o # Nobody => \E i \in DOMAIN list : list[i].address = o,
         NEW s, s = Focus!get_rvgpu_client_fd(o)
  PROVE  /\ s # Nobody => /\ o # Nobody /\ s \in Surfaces /\ s \in registered /\ PointsTo(o, s)
                          /\ Focus!Told(o) = told[s]
         /\ s = Nobody => /\ Focus!Told(o) = [fingers |-> {}, olds |-> {}, buttons |-> {}]
                          /\ \A r \in registered : o # Nobody => ~PointsTo(o, r)
         /\ Nobody \notin Surfaces
<1>1. Nobody \notin Surfaces
  BY FocusAssumption DEF Focus!ConstantsAssumption
<1>2. CASE o = Nobody
  BY <1>1, <1>2 DEF Focus!get_rvgpu_client_fd, Focus!Told, Focus!Nothing
<1>3. CASE o # Nobody
  <2>1. PICK i \in DOMAIN list : list[i].address = o
    BY <1>3
  <2>2. Focus!The(o) = list[i] /\ list[i].surface \in Surfaces
    BY <2>1, TheWindow, ListTyped DEF Window
  <2>3. s = IF list[i].surface \notin registered THEN Nobody ELSE list[i].surface
    BY <1>3, <2>2 DEF Focus!get_rvgpu_client_fd
  <2>4. \A r : PointsTo(o, r) => r = list[i].surface
    BY <2>1, ListTyped DEF PointsTo
  <2>5. CASE list[i].surface \in registered
    BY <1>1, <1>3, <2>1, <2>2, <2>3, <2>5 DEF PointsTo, Focus!Told
  <2>6. CASE list[i].surface \notin registered
    BY <1>1, <1>3, <2>2, <2>3, <2>4, <2>6 DEF Focus!Told, Focus!Nothing
  <2> QED BY <2>5, <2>6
<1> QED BY <1>2, <1>3

\* Each surface is told of what is down: three sets.
LEMMA ToldTyped ==
  ASSUME Focus!TypeOK, NEW s \in Surfaces
  PROVE  /\ told[s] = [fingers |-> told[s].fingers, olds |-> told[s].olds, buttons |-> told[s].buttons]
         /\ told[s].fingers \subseteq Fingers /\ told[s].olds \subseteq Fingers
         /\ told[s].buttons \subseteq Buttons
BY DEF Focus!TypeOK

\* The greatest of some numbers.
LEMMA GreatestNumber ==
  ASSUME NEW n \in Nat, NEW S, S \subseteq 1 .. n, S # {}
  PROVE  \E x \in S : \A y \in S : x >= y
<1> DEFINE T == {k \in Nat : n - k \in S}
<1>1. T \subseteq Nat
  OBVIOUS
<1>2. T # {}
  <2>1. PICK x \in S : x \in 1 .. n
    OBVIOUS
  <2>2. n - x \in Nat /\ n - (n - x) = x
    BY <2>1
  <2> QED BY <2>1, <2>2
<1>3. First(T) \in T /\ \A j \in T : First(T) <= j
  <2> HIDE DEF T
  <2> QED BY <1>1, <1>2, FirstProperties
<1>4. n - First(T) \in S /\ First(T) \in Nat
  BY <1>3
<1>5. \A y \in S : n - First(T) >= y
  <2> SUFFICES ASSUME NEW y \in S PROVE n - First(T) >= y
    OBVIOUS
  <2>1. y \in 1 .. n /\ n - (n - y) = y /\ n - y \in Nat
    OBVIOUS
  <2>2. n - y \in T
    BY <2>1
  <2> QED BY <1>3, <1>4, <2>1, <2>2
<1> QED BY <1>4, <1>5

\* The search finds the last window that may have the position, if any has it.
LEMMA FoundProperties ==
  ASSUME Focus!TypeOK, NEW p, NEW o, o = Focus!get_focus_rvgpu_json_obj(p)
  PROVE  \/ o = Nobody /\ Focus!Found(p) = {}
         \/ \E i \in Focus!Found(p) : /\ i \in DOMAIN list /\ o = list[i].address /\ o # Nobody
                                      /\ \A j \in Focus!Found(p) : i >= j
<1>1. CASE Focus!Found(p) = {}
  BY <1>1 DEF Focus!get_focus_rvgpu_json_obj
<1>2. CASE Focus!Found(p) # {}
  <2>1. PICK S : S = Focus!Found(p)
    OBVIOUS
  <2>2. S \subseteq 1 .. Len(list) /\ S # {} /\ Len(list) \in Nat
    BY <1>2, <2>1, ListTyped DEF Focus!Found
  <2>3. \E x \in S : \A y \in S : x >= y
    BY <2>2, GreatestNumber
  <2>4. PICK i \in S : o = list[i].address /\ \A j \in S : i >= j
    BY <1>2, <2>1, <2>3 DEF Focus!get_focus_rvgpu_json_obj
  <2>5. i \in DOMAIN list /\ list[i].address \in Objects
    BY <2>1, <2>4, ListTyped DEF Focus!Found, Window
  <2>6. Nobody \notin Objects
    BY FocusAssumption DEF Focus!ConstantsAssumption
  <2> QED BY <2>1, <2>4, <2>5, <2>6
<1> QED BY <1>1, <1>2

\* An event changes what one surface was told, if there is one.
LEMMA SendProperties ==
  ASSUME Focus!TypeOK, NEW o, o # Nobody => \E i \in DOMAIN list : list[i].address = o,
         NEW e, NEW t, Focus!send_event(o, e, t),
         NEW s, s = Focus!get_rvgpu_client_fd(o)
  PROVE  /\ \A r \in Surfaces : told'[r] = IF r = s THEN t ELSE told[r]
         /\ t \in Tells =>
              told' \in [Surfaces -> Tells]
         /\ sent' = [event |-> e, to |-> s]
<1>1. told' = IF s = Nobody THEN told ELSE [told EXCEPT ![s] = t]
  BY DEF Focus!send_event
<1>2. told \in [Surfaces -> Tells]
  BY DEF Focus!TypeOK, Tells
<1>3. Nobody \notin Surfaces /\ (s # Nobody => s \in Surfaces)
  BY ClientProperties
<1>4. sent' = [event |-> e, to |-> s]
  BY DEF Focus!send_event
<1> QED BY <1>1, <1>2, <1>3, <1>4

\* An event of another kind changes nothing of it.
LEMMA PlainProperties ==
  ASSUME Focus!TypeOK, NEW o, o # Nobody => \E i \in DOMAIN list : list[i].address = o,
         NEW e, Focus!send_plain(o, e)
  PROVE  told' = told
<1>1. PICK s : s = Focus!get_rvgpu_client_fd(o)
  OBVIOUS
<1>2. told' = IF s = Nobody THEN told ELSE [told EXCEPT ![s] = Focus!Told(o)]
  BY <1>1 DEF Focus!send_plain, Focus!send_event
<1>3. told \in [Surfaces -> Tells]
  BY DEF Focus!TypeOK, Tells
<1>4. s # Nobody => s \in Surfaces /\ Focus!Told(o) = told[s]
  BY <1>1, ClientProperties
<1> QED BY <1>2, <1>3, <1>4

\* What a surface behind an object was told is typed, and was told to it.
LEMMA ToldProperties ==
  ASSUME Focus!TypeOK, NEW o, o # Nobody => \E i \in DOMAIN list : list[i].address = o
  PROVE  /\ Focus!Told(o) = [fingers |-> Focus!Told(o).fingers, olds |-> Focus!Told(o).olds,
                             buttons |-> Focus!Told(o).buttons]
         /\ Focus!Told(o).fingers \subseteq Fingers /\ Focus!Told(o).olds \subseteq Fingers
         /\ Focus!Told(o).buttons \subseteq Buttons
         /\ \A s \in Surfaces : s = Focus!get_rvgpu_client_fd(o) => Focus!Told(o) = told[s]
<1>1. PICK s : s = Focus!get_rvgpu_client_fd(o)
  OBVIOUS
<1>2. CASE s = Nobody
  <2>1. Focus!Told(o) = [fingers |-> {}, olds |-> {}, buttons |-> {}] /\ Nobody \notin Surfaces
    BY <1>1, <1>2, ClientProperties
  <2>2. PICK t : t = Focus!Told(o)
    OBVIOUS
  <2>3. /\ t = [fingers |-> t.fingers, olds |-> t.olds, buttons |-> t.buttons]
        /\ t.fingers = {} /\ t.olds = {} /\ t.buttons = {}
    BY <2>1, <2>2
  <2> QED BY <1>1, <1>2, <2>1, <2>2, <2>3
<1>3. CASE s # Nobody
  BY <1>1, <1>3, ClientProperties, ToldTyped
<1> QED BY <1>2, <1>3

\* No object has the address Nobody.
LEMMA NobodyShown ==
  ASSUME Focus!TypeOK, NEW s
  PROVE  ~PointsTo(Nobody, s)
<1>1. Nobody \notin Objects
  BY FocusAssumption DEF Focus!ConstantsAssumption
<1> QED BY <1>1, ListTyped DEF PointsTo, Window

\* Pointers, keys and motions leave what is down as it was.
LEMMA PlainStep ==
  ASSUME FocusInv, told' = told,
         UNCHANGED << list, registered, touch_focused, touch_down_count, pointer_focused, focus,
                      button_states, keyboard_focused, fingers, held, strayed >>,
         pre_pointer_pos' \in Positions, pointer' \in Positions \cup {Nobody}, PointerInv'
  PROVE  FocusInv'
<1>1. Focus!TypeOK'
  BY DEF FocusInv, Focus!TypeOK
<1>2. FocusIn'
  BY DEF FocusInv, FocusIn
<1>3. ButtonsInv'
  BY DEF FocusInv, ButtonsInv, PointsTo
<1>4. TouchesInv'
  BY DEF FocusInv, TouchesInv, PointsTo
<1>5. SurfacesInv'
  BY DEF FocusInv, SurfacesInv
<1> QED BY <1>1, <1>2, <1>3, <1>4, <1>5 DEF FocusInv

\* Only the surface that has the focus may have touches that have not strayed.
LEMMA OthersStrayed ==
  ASSUME FocusInv, NEW o, o = touch_focused, NEW s, s = Focus!get_rvgpu_client_fd(o),
         NEW r \in Surfaces, r # s, NEW f \in told[r].fingers
  PROVE  << r, f >> \in strayed
<1>a. Focus!TypeOK /\ FocusIn /\ TouchesInv
  BY DEF FocusInv
<1> SUFFICES ASSUME r \in registered, PointsTo(o, r) PROVE FALSE
  BY <1>a DEF TouchesInv
<1>1. o # Nobody /\ \E i \in DOMAIN list : list[i].address = o
  BY <1>a, NobodyShown DEF FocusIn
<1>2. s # Nobody /\ PointsTo(o, s)
  BY <1>a, <1>1, ClientProperties
<1> QED BY <1>a, <1>2, ListTyped DEF PointsTo

\* An event of touches: what it tells one surface. The invariant of the buttons
\* is not touched by it.
LEMMA TouchTold ==
  ASSUME FocusInv, NEW o, o # Nobody => \E i \in DOMAIN list : list[i].address = o,
         NEW s, s = Focus!get_rvgpu_client_fd(o),
         NEW F, NEW O, F \subseteq Fingers, O \subseteq F, NEW e,
         Focus!send_event(o, e, [fingers |-> F, olds |-> O, buttons |-> Focus!Told(o).buttons]),
         UNCHANGED << list, registered, pointer_focused, focus, button_states, held >>
  PROVE  /\ told' \in [Surfaces -> Tells] /\ ButtonsInv'
         /\ sent' = [event |-> e, to |-> s]
         /\ \A r \in Surfaces : /\ told'[r].buttons = told[r].buttons
                                /\ r = s => told'[r].fingers = F /\ told'[r].olds = O
                                /\ r # s => told'[r] = told[r]
<1>a. Focus!TypeOK /\ ButtonsInv
  BY DEF FocusInv
<1>1. PICK t : t = [fingers |-> F, olds |-> O, buttons |-> Focus!Told(o).buttons]
  OBVIOUS
<1>2. t.fingers = F /\ t.olds = O /\ t.buttons = Focus!Told(o).buttons
  BY <1>1
<1>3. t \in Tells
  BY <1>a, <1>1, ToldProperties DEF Tells
<1>4. /\ \A r \in Surfaces : told'[r] = IF r = s THEN t ELSE told[r]
      /\ told' \in [Surfaces -> Tells]
      /\ sent' = [event |-> e, to |-> s]
  BY <1>a, <1>1, <1>3, SendProperties
<1>5. \A r \in Surfaces : r = s => Focus!Told(o) = told[r]
  BY <1>a, ToldProperties
<1>6. \A r \in Surfaces : told'[r].buttons = told[r].buttons
  BY <1>2, <1>4, <1>5
<1>7. ButtonsInv'
  BY <1>a, <1>6 DEF ButtonsInv, PointsTo
<1> QED BY <1>2, <1>4, <1>6, <1>7

\* What a touch, its end, a frame and a cancel leave a surface with.
LEMMA TouchesTold ==
  ASSUME Focus!TypeOK, NEW o, o # Nobody => \E i \in DOMAIN list : list[i].address = o, NEW f
  PROVE  /\ Focus!Down(Focus!Told(o), f) = [fingers |-> Focus!Told(o).fingers \cup {f},
              olds |-> Focus!Told(o).olds, buttons |-> Focus!Told(o).buttons]
         /\ Focus!Up(Focus!Told(o), f) = [fingers |-> Focus!Told(o).fingers \ {f},
              olds |-> Focus!Told(o).fingers \ {f}, buttons |-> Focus!Told(o).buttons]
         /\ Focus!Frame(Focus!Told(o)) = [fingers |-> Focus!Told(o).fingers,
              olds |-> Focus!Told(o).fingers, buttons |-> Focus!Told(o).buttons]
         /\ Focus!Cancel(Focus!Told(o)) = [fingers |-> Focus!Told(o).olds,
              olds |-> Focus!Told(o).olds, buttons |-> Focus!Told(o).buttons]
<1>1. PICK t : t = Focus!Told(o)
  OBVIOUS
<1>2. t = [fingers |-> t.fingers, olds |-> t.olds, buttons |-> t.buttons]
  BY <1>1, ToldProperties
<1>3. /\ Focus!Down(t, f) = [fingers |-> t.fingers \cup {f}, olds |-> t.olds, buttons |-> t.buttons]
      /\ Focus!Frame(t) = [fingers |-> t.fingers, olds |-> t.fingers, buttons |-> t.buttons]
      /\ Focus!Cancel(t) = [fingers |-> t.olds, olds |-> t.olds, buttons |-> t.buttons]
  BY <1>2 DEF Focus!Down, Focus!Frame, Focus!Cancel
<1>4. Focus!Up(t, f) = [fingers |-> t.fingers \ {f}, olds |-> t.fingers \ {f}, buttons |-> t.buttons]
  <2>1. PICK y : y = [t EXCEPT !.fingers = t.fingers \ {f}]
    OBVIOUS
  <2>2. y = [fingers |-> t.fingers \ {f}, olds |-> t.olds, buttons |-> t.buttons]
    BY <1>2, <2>1
  <2>3. [y EXCEPT !.olds = t.fingers \ {f}]
          = [fingers |-> t.fingers \ {f}, olds |-> t.fingers \ {f}, buttons |-> t.buttons]
    BY <2>2
  <2>4. Focus!Up(t, f) = [y EXCEPT !.olds = t.fingers \ {f}]
    BY <1>2, <2>1 DEF Focus!Up
  <2> QED BY <2>3, <2>4
<1> QED BY <1>1, <1>3, <1>4

\* What the surface behind an object has down.
LEMMA ToldInv ==
  ASSUME FocusInv, NEW o, o # Nobody => \E i \in DOMAIN list : list[i].address = o
  PROVE  /\ IsFiniteSet(Focus!Told(o).fingers) /\ Focus!Told(o).fingers \subseteq Fingers
         /\ Focus!Told(o).olds \subseteq Focus!Told(o).fingers
<1>a. Focus!TypeOK /\ TouchesInv
  BY DEF FocusInv
<1>1. PICK s : s = Focus!get_rvgpu_client_fd(o)
  OBVIOUS
<1>2. CASE s = Nobody
  <2>1. Focus!Told(o) = [fingers |-> {}, olds |-> {}, buttons |-> {}]
    BY <1>a, <1>1, <1>2, ClientProperties
  <2>2. Focus!Told(o).fingers = {} /\ Focus!Told(o).olds = {}
    BY <2>1
  <2> QED BY <2>2, FS_EmptySet
<1>3. CASE s # Nobody
  <2>1. s \in Surfaces /\ Focus!Told(o) = told[s]
    BY <1>a, <1>1, <1>3, ClientProperties
  <2>2. told[s].fingers \subseteq Fingers
    BY <1>a, <2>1, ToldTyped
  <2> QED BY <1>a, <2>1, <2>2 DEF TouchesInv
<1> QED BY <1>2, <1>3

\* A touch begins. Those of the surface that had the focus stray.
LEMMA DownStep ==
  ASSUME FocusInv, NEW f \in Fingers \ fingers, NEW p \in Positions, Focus!TouchBegins(f, p),
         UNCHANGED << list, registered, pointer, held >>
  PROVE  FocusInv'
<1>a. Focus!TypeOK /\ FocusIn /\ ButtonsInv /\ TouchesInv /\ PointerInv /\ SurfacesInv
  BY DEF FocusInv
<1>1. PICK o : o = Focus!get_focus_rvgpu_json_obj(p)
  OBVIOUS
<1>2. PICK s : s = Focus!get_rvgpu_client_fd(o)
  OBVIOUS
<1>3. PICK q : q = touch_focused
  OBVIOUS
<1>4. PICK u : u = Focus!get_rvgpu_client_fd(q)
  OBVIOUS
<1>5. PICK D : D = Focus!Deserted(o) /\ D = IF u = Nobody \/ u = s THEN {} ELSE {u} \X told[u].fingers
  BY <1>2, <1>3, <1>4 DEF Focus!Deserted
<1>6. /\ TouchOutside \/ o # Nobody
      /\ fingers' = fingers \cup {f}
      /\ strayed' = (strayed \cup D) \ {<< s, f >>}
      /\ touch_focused' = o /\ keyboard_focused' = o /\ touch_down_count' = touch_down_count + 1
      /\ UNCHANGED << pointer_focused, focus, button_states, pre_pointer_pos >>
  BY <1>1, <1>2, <1>5 DEF Focus!TouchBegins, Focus!touch_down_cb
<1>7. o # Nobody => o \in Objects /\ \E i \in DOMAIN list : list[i].address = o
  <2>1. \/ o = Nobody
        \/ \E i \in Focus!Found(p) : i \in DOMAIN list /\ o = list[i].address
    BY <1>1, <1>a, FoundProperties
  <2> QED BY <1>a, <2>1, ListTyped DEF Window
<1>8. q # Nobody => \E i \in DOMAIN list : list[i].address = q
  BY <1>a, <1>3 DEF FocusIn
<1>9. PICK F, O : /\ F = Focus!Told(o).fingers \cup {f} /\ O = Focus!Told(o).olds
                  /\ IsFiniteSet(F) /\ F \subseteq Fingers /\ O \subseteq F
  <2>1. PICK T, O : /\ T = Focus!Told(o).fingers /\ O = Focus!Told(o).olds
                    /\ IsFiniteSet(T) /\ T \subseteq Fingers /\ O \subseteq T
    BY <1>7, ToldInv
  <2>2. IsFiniteSet(T \cup {f})
    BY <2>1, FS_AddElement
  <2> QED BY <2>1, <2>2
<1>10. Focus!send_event(o, "down", [fingers |-> F, olds |-> O, buttons |-> Focus!Told(o).buttons])
  BY <1>a, <1>1, <1>7, <1>9, TouchesTold DEF Focus!TouchBegins, Focus!touch_down_cb
<1>11. /\ told' \in [Surfaces -> Tells] /\ ButtonsInv'
       /\ \A r \in Surfaces : /\ r = s => told'[r].fingers = F /\ told'[r].olds = O
                              /\ r # s => told'[r] = told[r]
  BY <1>2, <1>6, <1>7, <1>9, <1>10, TouchTold
<1>12. D \subseteq Surfaces \X Fingers
  <2>1. u # Nobody => u \in Surfaces
    BY <1>a, <1>4, <1>8, ClientProperties
  <2>2. u # Nobody => told[u].fingers \subseteq Fingers
    BY <1>a, <2>1, ToldTyped
  <2> QED BY <1>5, <2>1, <2>2
<1>13. Focus!TypeOK'
  <2>1. touch_focused' \in Objects \cup {Nobody} /\ keyboard_focused' \in Objects \cup {Nobody}
    BY <1>6, <1>7
  <2> QED BY <1>a, <1>6, <1>11, <1>12, <2>1 DEF Focus!TypeOK, Tells
<1>14. FocusIn' /\ PointerInv' /\ SurfacesInv'
  BY <1>a, <1>6, <1>7 DEF FocusIn, PointerInv, SurfacesInv
<1>15. TouchesInv'
  <2>1. IsFiniteSet(fingers') /\ Cardinality(fingers') = Cardinality(fingers) + 1
        /\ Cardinality(fingers) \in Nat /\ (fingers = {} => Cardinality(fingers) = 0) /\ fingers' # {}
        /\ (fingers # {} => Cardinality(fingers) # 0)
    BY <1>a, <1>6, FS_AddElement, FS_EmptySet, FS_CardinalityType DEF TouchesInv
  <2>2. touch_down_count \in Nat /\ Cardinality(fingers) <= touch_down_count
    BY <1>a DEF Focus!TypeOK, TouchesInv
  <2>3. Cardinality(fingers') <= touch_down_count'
    BY <1>6, <2>1, <2>2
  <2>4. ~TouchOutside => /\ Cardinality(fingers') = touch_down_count'
                         /\ touch_focused' = Nobody <=> fingers' = {}
    BY <1>a, <1>6, <2>1, <2>2 DEF TouchesInv
  <2>5. ASSUME NEW r \in Surfaces
        PROVE  /\ IsFiniteSet(told'[r].fingers) /\ told'[r].olds \subseteq told'[r].fingers
               /\ \A g \in told'[r].fingers :
                    << r, g >> \in strayed' \/ (g \in fingers' /\ r \in registered /\ PointsTo(o, r))
    <3>1. CASE r = s
      <4>1. r \in registered /\ PointsTo(o, r) /\ Focus!Told(o) = told[r]
        BY <1>a, <1>2, <1>7, <2>5, <3>1, ClientProperties
      <4>2. ASSUME NEW g \in F
            PROVE  << r, g >> \in strayed' \/ g \in fingers'
        BY <1>a, <1>6, <1>9, <2>5, <4>1, <4>2 DEF TouchesInv
      <4> QED BY <1>9, <1>11, <3>1, <4>1, <4>2
    <3>2. CASE r # s
      <4>1. told'[r] = told[r] /\ IsFiniteSet(told[r].fingers) /\ told[r].olds \subseteq told[r].fingers
        BY <1>a, <1>11, <2>5, <3>2 DEF TouchesInv
      <4>2. ASSUME NEW g \in told[r].fingers
            PROVE  << r, g >> \in strayed'
        <5>1. CASE r = u
          <6>1. u # Nobody
            BY <1>a, <1>4, <1>8, <2>5, <5>1, ClientProperties
          <6>2. << r, g >> \in D
            BY <1>5, <3>2, <4>2, <5>1, <6>1
          <6> QED BY <1>6, <3>2, <6>2
        <5>2. CASE r # u
          <6>1. << r, g >> \in strayed
            BY <1>3, <1>4, <2>5, <4>2, <5>2, OthersStrayed
          <6> QED BY <1>6, <3>2, <6>1
        <5> QED BY <5>1, <5>2
      <4> QED BY <4>1, <4>2
    <3> QED BY <3>1, <3>2
  <2> QED BY <1>6, <2>1, <2>3, <2>4, <2>5 DEF TouchesInv, PointsTo
<1> QED BY <1>11, <1>13, <1>14, <1>15 DEF FocusInv

\* A touch ends: the window with the focus is told, which ends with the last one.
LEMMA UpStep ==
  ASSUME FocusInv, NEW f \in fingers, Focus!TouchEnds(f),
         UNCHANGED << list, registered, pointer, held >>
  PROVE  FocusInv'
<1>a. Focus!TypeOK /\ FocusIn /\ ButtonsInv /\ TouchesInv /\ PointerInv /\ SurfacesInv
  BY DEF FocusInv
<1>b. /\ IsFiniteSet(fingers') /\ Cardinality(fingers') = Cardinality(fingers) - 1
      /\ Cardinality(fingers) \in Nat /\ (Cardinality(fingers') = 0 => fingers' = {})
      /\ Cardinality(fingers') \in Nat /\ fingers' \subseteq Fingers
      /\ (fingers' = {} => Cardinality(fingers') = 0) /\ fingers' = fingers \ {f}
  <2>1. IsFiniteSet(fingers) /\ fingers \subseteq Fingers /\ fingers' = fingers \ {f}
    BY <1>a DEF TouchesInv, Focus!TypeOK, Focus!TouchEnds
  <2>2. IsFiniteSet(fingers') /\ Cardinality(fingers') = Cardinality(fingers) - 1
    BY <2>1, FS_RemoveElement
  <2>3. Cardinality(fingers) \in Nat /\ Cardinality(fingers') \in Nat
    BY <2>1, <2>2, FS_CardinalityType
  <2> QED BY <2>1, <2>2, <2>3, FS_EmptySet
<1>c. touch_down_count \in Nat /\ strayed \subseteq Surfaces \X Fingers
  BY <1>a DEF Focus!TypeOK
<1>3. PICK o : o = touch_focused
  OBVIOUS
<1>4. PICK s : s = Focus!get_rvgpu_client_fd(o)
  OBVIOUS
<1>5. strayed' = strayed \ {<< s, f >>} /\ Focus!touch_up_cb(f)
  BY <1>3, <1>4 DEF Focus!TouchEnds
<1>6. o # Nobody => o \in Objects /\ \E i \in DOMAIN list : list[i].address = o
  BY <1>a, <1>3 DEF FocusIn, Focus!TypeOK
<1>7. ASSUME NEW r \in Surfaces, r # s, NEW g \in told[r].fingers
      PROVE  << r, g >> \in strayed'
  <2>1. << r, g >> \in strayed
    BY <1>3, <1>4, <1>7, OthersStrayed
  <2> QED BY <1>5, <1>7, <2>1
<1>1. CASE touch_focused = Nobody
  <2>1. UNCHANGED << Focus!focusVars, told >>
    BY <1>1, <1>5 DEF Focus!touch_up_cb
  <2>2. UNCHANGED << touch_focused, touch_down_count, pointer_focused, focus, button_states,
                     keyboard_focused, pre_pointer_pos, told >>
    BY <2>1 DEF Focus!focusVars
  <2>3. TouchOutside
    BY <1>1, <1>a DEF TouchesInv
  <2>4. s \notin Surfaces
    BY <1>a, <1>1, <1>3, <1>4, ClientProperties
  <2>5. \A r \in Surfaces : /\ IsFiniteSet(told[r].fingers) /\ told[r].olds \subseteq told[r].fingers
                            /\ \A g \in told[r].fingers : << r, g >> \in strayed'
    BY <1>a, <1>7, <2>4 DEF TouchesInv
  <2>6. TouchesInv'
    <3>1. Cardinality(fingers') <= touch_down_count'
      BY <1>a, <1>b, <1>c, <2>2 DEF TouchesInv
    <3> QED BY <1>1, <1>b, <2>2, <2>3, <2>5, <3>1 DEF TouchesInv
  <2>7. Focus!TypeOK'
    BY <1>a, <1>b, <1>5, <2>2 DEF Focus!TypeOK
  <2>8. ButtonsInv' /\ FocusIn' /\ PointerInv' /\ SurfacesInv'
    BY <1>a, <2>2 DEF ButtonsInv, FocusIn, PointerInv, SurfacesInv, PointsTo
  <2> QED BY <2>6, <2>7, <2>8 DEF FocusInv
<1>2. CASE touch_focused # Nobody
  <2>1. PICK F : /\ F = Focus!Told(o).fingers \ {f}
                 /\ IsFiniteSet(F) /\ F \subseteq Fingers /\ F \subseteq F
    <3>1. PICK T : T = Focus!Told(o).fingers /\ IsFiniteSet(T) /\ T \subseteq Fingers
    BY <1>6, ToldInv
  <3>2. IsFiniteSet(T \ {f})
    BY <3>1, FS_Subset
  <3> QED BY <3>1, <3>2
  <2>2. Focus!send_event(o, "up", [fingers |-> F, olds |-> F, buttons |-> Focus!Told(o).buttons])
    BY <1>a, <1>2, <1>3, <1>5, <1>6, <2>1, TouchesTold DEF Focus!touch_up_cb
  <2>3. /\ touch_down_count' = touch_down_count - 1
        /\ touch_focused' = IF touch_down_count' = 0 THEN Nobody ELSE o
        /\ UNCHANGED << pointer_focused, keyboard_focused, focus, button_states, pre_pointer_pos >>
    BY <1>2, <1>3, <1>5 DEF Focus!touch_up_cb
  <2>4. /\ told' \in [Surfaces -> Tells] /\ ButtonsInv'
        /\ \A r \in Surfaces : /\ r = s => told'[r].fingers = F /\ told'[r].olds = F
                               /\ r # s => told'[r] = told[r]
    BY <1>4, <1>6, <2>1, <2>2, <2>3, TouchTold
  <2>5. Cardinality(fingers) <= touch_down_count
    BY <1>a, <1>2 DEF TouchesInv
  <2>6. touch_down_count' \in Nat
    BY <1>b, <1>c, <2>3, <2>5
  <2>7. touch_down_count' = 0 => fingers' = {}
    BY <1>b, <1>c, <2>3, <2>5
  <2>8. TouchesInv'
    <3>1. ASSUME NEW r \in Surfaces
          PROVE  /\ IsFiniteSet(told'[r].fingers) /\ told'[r].olds \subseteq told'[r].fingers
                 /\ \A g \in told'[r].fingers :
                      \/ << r, g >> \in strayed'
                      \/ g \in fingers' /\ r \in registered /\ PointsTo(o, r) /\ touch_focused' = o
      <4>1. CASE r = s
        <5>1. Focus!Told(o) = told[r]
          BY <1>a, <1>4, <1>6, <3>1, <4>1, ClientProperties
        <5>2. ASSUME NEW g \in F, << r, g >> \notin strayed'
              PROVE  g \in fingers' /\ r \in registered /\ PointsTo(o, r) /\ touch_focused' = o
          <6>1. g \in told[r].fingers /\ g # f
            BY <2>1, <5>1, <5>2
          <6>2. << r, g >> \notin strayed
            BY <1>5, <5>2, <6>1
          <6>3. g \in fingers /\ r \in registered /\ PointsTo(o, r)
            BY <1>a, <1>3, <3>1, <6>1, <6>2 DEF TouchesInv
          <6>4. g \in fingers' /\ touch_down_count' # 0
            BY <1>b, <2>7, <6>1, <6>3
          <6> QED BY <2>3, <6>3, <6>4
        <5> QED BY <2>1, <2>4, <4>1, <5>2
      <4>2. CASE r # s
        <5>1. told'[r] = told[r]
          BY <2>4, <3>1, <4>2
        <5> QED BY <1>a, <1>7, <3>1, <4>2, <5>1 DEF TouchesInv
      <4> QED BY <4>1, <4>2
    <3>2. Cardinality(fingers') <= touch_down_count'
      BY <1>b, <1>c, <2>3, <2>5
    <3>3. ~TouchOutside => /\ Cardinality(fingers') = touch_down_count'
                           /\ touch_focused' = Nobody <=> fingers' = {}
      <4>1. ~TouchOutside => Cardinality(fingers') = touch_down_count'
        BY <1>a, <1>b, <1>c, <2>3 DEF TouchesInv
      <4> QED BY <1>2, <1>3, <1>b, <2>3, <4>1
    <3> QED BY <1>b, <3>1, <3>2, <3>3 DEF TouchesInv, PointsTo
  <2>9. Focus!TypeOK'
    <3>1. touch_focused' \in Objects \cup {Nobody}
      BY <1>2, <1>3, <1>6, <2>3
    <3> QED BY <1>a, <1>b, <1>5, <2>3, <2>4, <2>6, <3>1 DEF Focus!TypeOK, Tells
  <2>10. FocusIn' /\ PointerInv' /\ SurfacesInv'
    BY <1>a, <1>3, <1>6, <2>3 DEF FocusIn, PointerInv, SurfacesInv
  <2> QED BY <2>4, <2>8, <2>9, <2>10 DEF FocusInv
<1> QED BY <1>1, <1>2

\* All touches are taken back; those that were sent stay, and have strayed.
LEMMA CancelStep ==
  ASSUME FocusInv, Focus!TouchesCancelled, UNCHANGED << list, registered, pointer, held >>
  PROVE  FocusInv'
<1>a. Focus!TypeOK /\ FocusIn /\ ButtonsInv /\ TouchesInv /\ PointerInv /\ SurfacesInv
  BY DEF FocusInv
<1>1. PICK o : o = touch_focused
  OBVIOUS
<1>2. o # Nobody => \E i \in DOMAIN list : list[i].address = o
  BY <1>a, <1>1 DEF FocusIn
<1>3. PICK s : s = Focus!get_rvgpu_client_fd(o)
  OBVIOUS
<1>4. PICK O : O = Focus!Told(o).olds /\ O \subseteq Fingers /\ O \subseteq O /\ IsFiniteSet(O)
  BY <1>2, ToldInv, FS_Subset
<1>5. /\ Focus!send_event(o, "cancel", [fingers |-> O, olds |-> O, buttons |-> Focus!Told(o).buttons])
      /\ UNCHANGED << touch_focused, touch_down_count, pointer_focused, focus, button_states,
                      keyboard_focused, pre_pointer_pos >>
      /\ TouchOutside /\ fingers' = {} /\ strayed' = strayed \cup {s} \X O
  BY <1>a, <1>1, <1>2, <1>3, <1>4, TouchesTold
  DEF Focus!TouchesCancelled, Focus!touch_cancel_cb, Focus!focusVars
<1>6. /\ told' \in [Surfaces -> Tells] /\ ButtonsInv'
      /\ \A r \in Surfaces : /\ r = s => told'[r].fingers = O /\ told'[r].olds = O
                             /\ r # s => told'[r] = told[r]
  BY <1>2, <1>3, <1>4, <1>5, TouchTold
<1>7. \A r \in Surfaces : /\ IsFiniteSet(told'[r].fingers) /\ told'[r].olds \subseteq told'[r].fingers
                          /\ \A g \in told'[r].fingers : << r, g >> \in strayed'
  <2> TAKE r \in Surfaces
  <2>1. CASE r = s
    BY <1>4, <1>5, <1>6, <2>1
  <2>2. CASE r # s
    <3>1. \A g \in told[r].fingers : << r, g >> \in strayed
      BY <1>1, <1>3, <2>2, OthersStrayed
    <3> QED BY <1>a, <1>5, <1>6, <2>2, <3>1 DEF TouchesInv
  <2> QED BY <2>1, <2>2
<1>8. TouchesInv'
  <2>1. touch_down_count \in Nat /\ IsFiniteSet(fingers') /\ Cardinality(fingers') = 0
    BY <1>a, <1>5, FS_EmptySet DEF Focus!TypeOK
  <2> QED BY <1>5, <1>7, <2>1 DEF TouchesInv
<1>9. Focus!TypeOK'
  <2>1. {s} \X O \subseteq Surfaces \X Fingers
    <3>1. CASE s = Nobody
      <4>1. Focus!Told(o) = [fingers |-> {}, olds |-> {}, buttons |-> {}]
        BY <1>a, <1>2, <1>3, <3>1, ClientProperties
      <4>2. O = {}
        BY <1>4, <4>1
      <4> QED BY <4>2
    <3>2. CASE s # Nobody
      BY <1>a, <1>2, <1>3, <1>4, <3>2, ClientProperties
    <3> QED BY <3>1, <3>2
  <2> QED BY <1>a, <1>5, <1>6, <2>1 DEF Focus!TypeOK, Tells
<1>10. FocusIn' /\ PointerInv' /\ SurfacesInv'
  BY <1>a, <1>5 DEF FocusIn, PointerInv, SurfacesInv
<1> QED BY <1>6, <1>8, <1>9, <1>10 DEF FocusInv

\* A frame: what is queued is sent.
LEMMA FrameStep ==
  ASSUME FocusInv, Focus!touch_frame_cb, UNCHANGED << list, registered, pointer, fingers, held, strayed >>
  PROVE  /\ FocusInv' /\ sent'.event = "touch frame"
         /\ \A r \in Surfaces : told'[r].fingers = told[r].fingers /\ told'[r].buttons = told[r].buttons
<1>a. Focus!TypeOK /\ FocusIn /\ ButtonsInv /\ TouchesInv /\ PointerInv /\ SurfacesInv
  BY DEF FocusInv
<1>1. PICK o : o = touch_focused
  OBVIOUS
<1>2. o # Nobody => \E i \in DOMAIN list : list[i].address = o
  BY <1>a, <1>1 DEF FocusIn
<1>3. PICK s : s = Focus!get_rvgpu_client_fd(o)
  OBVIOUS
<1>4. PICK F, O : F = Focus!Told(o).fingers /\ O = F /\ F \subseteq Fingers /\ O \subseteq F
  BY <1>2, ToldInv
<1>5. /\ Focus!send_event(o, "touch frame", [fingers |-> F, olds |-> O, buttons |-> Focus!Told(o).buttons])
      /\ UNCHANGED << touch_focused, touch_down_count, pointer_focused, focus, button_states,
                      keyboard_focused, pre_pointer_pos >>
  BY <1>a, <1>1, <1>2, <1>4, TouchesTold DEF Focus!touch_frame_cb, Focus!focusVars
<1>6. /\ told' \in [Surfaces -> Tells] /\ ButtonsInv'
      /\ \A r \in Surfaces : /\ told'[r].buttons = told[r].buttons
                             /\ r = s => told'[r].fingers = F /\ told'[r].olds = O
                             /\ r # s => told'[r] = told[r]
  <2>1. PICK e : e = "touch frame"
    OBVIOUS
  <2>2. Focus!send_event(o, e, [fingers |-> F, olds |-> O, buttons |-> Focus!Told(o).buttons])
    BY <1>5, <2>1
  <2>3. UNCHANGED << list, registered, pointer_focused, focus, button_states, held >>
    BY <1>5
  <2> QED BY <1>2, <1>3, <1>4, <2>2, <2>3, TouchTold
<1>7. \A r \in Surfaces : r = s => F = told[r].fingers /\ O = F
  BY <1>a, <1>2, <1>3, <1>4, ToldProperties
<1>8. \A r \in Surfaces : told'[r].fingers = told[r].fingers /\ told'[r].buttons = told[r].buttons
                          /\ told'[r].olds \subseteq told'[r].fingers
  BY <1>a, <1>6, <1>7 DEF TouchesInv
<1>9. TouchesInv'
  BY <1>a, <1>5, <1>8 DEF TouchesInv, PointsTo
<1>10. Focus!TypeOK'
  BY <1>a, <1>5, <1>6 DEF Focus!TypeOK, Tells
<1>11. FocusIn' /\ PointerInv' /\ SurfacesInv'
  BY <1>a, <1>5 DEF FocusIn, PointerInv, SurfacesInv
<1>12. sent'.event = "touch frame"
  <2>1. sent' = [event |-> "touch frame", to |-> s]
    BY <1>3, <1>5 DEF Focus!send_event
  <2> QED BY <2>1
<1> QED BY <1>6, <1>8, <1>9, <1>10, <1>11, <1>12 DEF FocusInv

\* A button is pressed or released: the first press takes the window under the
\* pointer, the last release gives it back.
LEMMA ButtonStep ==
  ASSUME FocusInv, NEW b \in Buttons, Focus!pointer_button_cb(b, b \notin held),
         held' = IF b \in held THEN held \ {b} ELSE held \cup {b},
         UNCHANGED << list, registered, pointer, fingers, strayed >>
  PROVE  FocusInv'
<1> DEFINE pressed == b \notin held
           bs(o) == IF pressed THEN Focus!Told(o).buttons \cup {b} ELSE Focus!Told(o).buttons \ {b}
           t(o) == [fingers |-> Focus!Told(o).fingers, olds |-> Focus!Told(o).olds, buttons |-> bs(o)]
<1>a. Focus!TypeOK /\ FocusIn /\ ButtonsInv /\ TouchesInv /\ PointerInv /\ SurfacesInv
  BY DEF FocusInv
<1>b. /\ button_states = held /\ held \subseteq Buttons /\ focus \in BOOLEAN
      /\ held' = IF pressed THEN button_states \cup {b} ELSE button_states \ {b}
      /\ pressed => held' # {}
      /\ ~pressed => held # {}
  BY <1>a DEF ButtonsInv, Focus!TypeOK
<1>c. focus <=> held # {}
  BY <1>a DEF ButtonsInv
<1>1. PICK o : o = IF held = {} THEN Focus!get_focus_rvgpu_json_obj(pre_pointer_pos) ELSE pointer_focused
  OBVIOUS
<1>2. PICK s : s = Focus!get_rvgpu_client_fd(o)
  OBVIOUS
<1>d. o # Nobody => o \in Objects /\ \E i \in DOMAIN list : list[i].address = o
  <2>1. CASE held = {}
    <3>1. \/ o = Nobody
          \/ \E i \in DOMAIN list : o = list[i].address
      BY <1>1, <1>a, <2>1, FoundProperties
    <3> QED BY <1>a, <3>1, ListTyped DEF Window
  <2>2. CASE held # {}
    <3>1. o = pointer_focused
      BY <1>1, <2>2
    <3> QED BY <1>a, <3>1 DEF FocusIn, Focus!TypeOK
  <2> QED BY <2>1, <2>2
<1>3. /\ Focus!send_event(o, "button", t(o))
      /\ button_states' = held'
      /\ pointer_focused' = IF held' = {} THEN Nobody ELSE o
      /\ keyboard_focused' \in {keyboard_focused, o}
      /\ UNCHANGED << touch_focused, touch_down_count, pre_pointer_pos >>
      /\ focus' = (held' # {})
  <2> DEFINE states == IF pressed THEN button_states \cup {b} ELSE button_states \ {b}
             first == ~focus /\ states # {}
             ends == (focus \/ first) /\ states = {}
  <2>1. states = held'
    BY <1>b
  <2>2. first <=> held = {}
    BY <1>b, <1>c, <2>1
  <2>3. ends <=> held' = {}
    BY <1>b, <1>c, <2>1, <2>2
  <2>4. focus \/ first
    BY <1>c, <2>2
  <2>5. o = IF first THEN Focus!get_focus_rvgpu_json_obj(pre_pointer_pos) ELSE pointer_focused
    BY <1>1, <2>2
  <2>6. /\ button_states' = states
        /\ keyboard_focused' = IF first THEN o ELSE keyboard_focused
        /\ Focus!send_event(o, "button",
             [Focus!Told(o) EXCEPT !.buttons = IF pressed THEN @ \cup {b} ELSE @ \ {b}])
        /\ pointer_focused' = IF ends THEN Nobody ELSE o
        /\ focus' = ((focus \/ first) /\ ~ends)
        /\ UNCHANGED << touch_focused, touch_down_count, pre_pointer_pos >>
    BY <2>5 DEF Focus!pointer_button_cb
  <2>7. [Focus!Told(o) EXCEPT !.buttons = IF pressed THEN @ \cup {b} ELSE @ \ {b}] = t(o)
    BY <1>a, <1>d, ToldProperties
  <2>8. Focus!send_event(o, "button", t(o))
    BY <2>6, <2>7
  <2>9. focus' = (held' # {})
    <3> HIDE DEF first, ends, states
    <3>1. focus' = ((focus \/ first) /\ ~ends)
      BY <2>6
    <3> QED BY ONLY <2>3, <2>4, <3>1
  <2> HIDE DEF first, ends, states, t
  <2> QED BY <2>1, <2>3, <2>6, <2>8, <2>9
<1>4. /\ \A r \in Surfaces : told'[r] = IF r = s THEN t(o) ELSE told[r]
      /\ told' \in [Surfaces -> Tells]
  <2>1. t(o) \in Tells
    BY <1>a, <1>d, ToldProperties DEF Tells
  <2> HIDE DEF t
  <2> QED BY <1>a, <1>d, <1>2, <1>3, <2>1, SendProperties
<1>5. \A r \in Surfaces :
        /\ told'[r].fingers = told[r].fingers /\ told'[r].olds = told[r].olds
        /\ r = s => told'[r].buttons = IF pressed THEN told[r].buttons \cup {b} ELSE told[r].buttons \ {b}
        /\ r # s => told'[r].buttons = told[r].buttons
  <2> TAKE r \in Surfaces
  <2>1. t(o).fingers = Focus!Told(o).fingers /\ t(o).olds = Focus!Told(o).olds /\ t(o).buttons = bs(o)
    OBVIOUS
  <2>2. r = s => Focus!Told(o) = told[r]
    BY <1>a, <1>d, <1>2, ToldProperties
  <2> HIDE DEF t
  <2>3. r = s => /\ told'[r].fingers = Focus!Told(o).fingers /\ told'[r].olds = Focus!Told(o).olds
                 /\ told'[r].buttons = bs(o)
    BY <1>4, <2>1
  <2> QED BY <1>4, <2>2, <2>3
<1>6. \A r \in Surfaces : told[r].buttons # {} =>
        r \in registered /\ PointsTo(o, r) /\ r = s
  <2> SUFFICES ASSUME NEW r \in Surfaces, told[r].buttons # {}
               PROVE  r \in registered /\ PointsTo(o, r) /\ r = s
    OBVIOUS
  <2>1. held # {} /\ r \in registered /\ PointsTo(pointer_focused, r)
    BY <1>a DEF ButtonsInv
  <2>2. o = pointer_focused /\ PointsTo(o, r) /\ o # Nobody
    BY <1>1, <1>a, <2>1, NobodyShown
  <2>3. s # Nobody => PointsTo(o, s)
    BY <1>a, <1>d, <1>2, ClientProperties
  <2>4. s # Nobody
    BY <1>a, <1>d, <1>2, <2>1, <2>2, ClientProperties
  <2> QED BY <1>a, <2>1, <2>2, <2>3, <2>4, ListTyped DEF PointsTo
<1>7. \A r \in Surfaces : told'[r].buttons \subseteq held'
  <2> TAKE r \in Surfaces
  <2>1. told[r].buttons \subseteq held
    BY <1>a DEF ButtonsInv
  <2>2. CASE r = s
    BY <1>5, <1>b, <2>1, <2>2
  <2>3. CASE r # s
    BY <1>5, <1>6, <2>3
  <2> QED BY <2>2, <2>3
<1>8. \A r \in Surfaces : told'[r].buttons # {} => r \in registered /\ PointsTo(o, r)
  <2> SUFFICES ASSUME NEW r \in Surfaces, told'[r].buttons # {} PROVE r \in registered /\ PointsTo(o, r)
    OBVIOUS
  <2>1. CASE r = s
    BY <1>a, <1>d, <1>2, <2>1, ClientProperties
  <2>2. CASE r # s
    BY <1>5, <1>6, <2>2
  <2> QED BY <2>1, <2>2
<1>9. ButtonsInv'
  <2>1. held' = {} => pointer_focused' = Nobody
    BY <1>3
  <2>2. \A r \in Surfaces : told'[r].buttons # {} =>
          r \in registered' /\ \E i \in DOMAIN list' : list'[i].address = pointer_focused' /\ list'[i].surface = r
    BY <1>3, <1>7, <1>8 DEF PointsTo
  <2>3. focus' <=> held' # {}
    BY <1>3
  <2> QED BY <1>3, <1>7, <2>1, <2>2, <2>3 DEF ButtonsInv, PointsTo
<1>10. Focus!TypeOK'
  <2>1. pointer_focused' \in Objects \cup {Nobody} /\ keyboard_focused' \in Objects \cup {Nobody}
    BY <1>a, <1>d, <1>3 DEF Focus!TypeOK
  <2>2. held' \subseteq Buttons /\ focus' \in BOOLEAN
    BY <1>b, <1>3
  <2> QED BY <1>a, <1>3, <1>4, <2>1, <2>2 DEF Focus!TypeOK, Tells
<1>11. TouchesInv'
  BY <1>a, <1>3, <1>5 DEF TouchesInv, PointsTo
<1>12. FocusIn' /\ PointerInv' /\ SurfacesInv'
  BY <1>a, <1>d, <1>3 DEF FocusIn, PointerInv, SurfacesInv
<1> QED BY <1>9, <1>10, <1>11, <1>12 DEF FocusInv

\* The list changes, but not where a focus points.
LEMMA ListStep ==
  ASSUME FocusInv, list' \in Seq(Window),
         \A i, j \in DOMAIN list' : list'[i].address = list'[j].address => i = j,
         \A i \in DOMAIN list : list[i].address \in {touch_focused, pointer_focused, keyboard_focused} =>
           \E k \in DOMAIN list' : list'[k].address = list[i].address /\ list'[k].surface = list[i].surface,
         registered' \subseteq Surfaces,
         told' \in [Surfaces -> Tells],
         \A r \in Surfaces : \/ told'[r].fingers = {} /\ told'[r].olds = {} /\ told'[r].buttons = {}
                             \/ /\ told'[r] = told[r] /\ (r \in registered => r \in registered')
                                /\ \A f : << r, f >> \in strayed => << r, f >> \in strayed',
         strayed' \subseteq Surfaces \X Fingers,
         UNCHANGED << Focus!focusVars, pointer, fingers, held >>, SurfacesInv'
  PROVE  FocusInv'
<1>a. Focus!TypeOK /\ FocusIn /\ ButtonsInv /\ TouchesInv /\ PointerInv /\ SurfacesInv
  BY DEF FocusInv
<1>b. UNCHANGED << touch_focused, touch_down_count, pointer_focused, focus, button_states,
                   keyboard_focused, pre_pointer_pos, pointer, fingers, held >>
  BY DEF Focus!focusVars
<1>1. Focus!TypeOK'
  BY <1>a, <1>b DEF Focus!TypeOK, Focus!Object, Window, Tells
<1>2. FocusIn'
  BY <1>a, <1>b DEF FocusIn
<1>3. \A o, r : o \in {touch_focused, pointer_focused, keyboard_focused} /\ PointsTo(o, r) =>
        \E k \in DOMAIN list' : list'[k].address = o /\ list'[k].surface = r
  BY DEF PointsTo
<1>4. ButtonsInv'
  <2>1. \A r \in Surfaces :
          /\ told'[r].buttons \subseteq held
          /\ told'[r].buttons # {} =>
               r \in registered' /\ \E k \in DOMAIN list' : list'[k].address = pointer_focused /\ list'[k].surface = r
    BY <1>a, <1>3 DEF ButtonsInv
  <2>2. button_states' = held' /\ (held' = {} => pointer_focused' = Nobody)
    BY <1>a, <1>b DEF ButtonsInv
  <2>3. focus' <=> held' # {}
    BY <1>a, <1>b DEF ButtonsInv
  <2> QED BY <1>b, <2>1, <2>2, <2>3 DEF ButtonsInv, PointsTo
<1>5. TouchesInv'
  <2>1. \A r \in Surfaces :
          /\ IsFiniteSet(told'[r].fingers) /\ told'[r].olds \subseteq told'[r].fingers
          /\ \A f \in told'[r].fingers :
               \/ << r, f >> \in strayed'
               \/ /\ f \in fingers /\ r \in registered'
                  /\ \E k \in DOMAIN list' : list'[k].address = touch_focused /\ list'[k].surface = r
    <3> TAKE r \in Surfaces
    <3>1. CASE told'[r].fingers = {} /\ told'[r].olds = {} /\ told'[r].buttons = {}
      BY <3>1, FS_EmptySet
    <3>2. CASE /\ told'[r] = told[r] /\ (r \in registered => r \in registered')
               /\ \A f : << r, f >> \in strayed => << r, f >> \in strayed'
      BY <1>a, <1>3, <3>2 DEF TouchesInv
    <3> QED BY <3>1, <3>2
  <2>2. /\ IsFiniteSet(fingers')
        /\ Cardinality(fingers') <= touch_down_count'
        /\ ~TouchOutside => /\ Cardinality(fingers') = touch_down_count'
                            /\ touch_focused' = Nobody <=> fingers' = {}
    BY <1>a, <1>b DEF TouchesInv
  <2> QED BY <1>b, <2>1, <2>2 DEF TouchesInv, PointsTo
<1>6. PointerInv'
  BY <1>a, <1>b DEF PointerInv
<1> QED BY <1>1, <1>2, <1>4, <1>5, <1>6 DEF FocusInv

\* A list without one of its objects.
LEMMA WithoutObject ==
  ASSUME Focus!TypeOK, NEW i \in DOMAIN list
  PROVE  /\ Focus!Without(i) \in Seq(Window)
         /\ Len(Focus!Without(i)) = Len(list) - 1
         /\ DOMAIN Focus!Without(i) = 1 .. Len(list) - 1
         /\ \A k \in 1 .. Len(list) - 1 :
              Focus!Without(i)[k] = IF k < i THEN list[k] ELSE list[k + 1]
<1> DEFINE a == SubSeq(list, 1, i - 1)
           b == SubSeq(list, i + 1, Len(list))
<1>1. Len(list) \in Nat /\ DOMAIN list = 1 .. Len(list) /\ i \in 1 .. Len(list)
      /\ \A k \in 1 .. Len(list) : list[k] \in Window
  BY ListTyped
<1>2. a \in Seq(Window) /\ Len(a) = i - 1 /\ \A k \in 1 .. i - 1 : a[k] = list[k]
  <2>1. 1 \in Int /\ i - 1 \in Int /\ \A k \in 1 .. i - 1 : list[k] \in Window
    BY <1>1
  <2>2. /\ SubSeq(list, 1, i - 1) \in Seq(Window)
        /\ Len(SubSeq(list, 1, i - 1)) = IF 1 <= i - 1 THEN (i - 1) - 1 + 1 ELSE 0
        /\ \A k \in 1 .. (i - 1) - 1 + 1 : SubSeq(list, 1, i - 1)[k] = list[1 + k - 1]
    BY <2>1, SubSeqProperties
  <2> HIDE DEF a
  <2>3. a = SubSeq(list, 1, i - 1)
    BY DEF a
  <2> QED BY <1>1, <2>2, <2>3
<1>3. b \in Seq(Window) /\ Len(b) = Len(list) - i /\ \A k \in 1 .. Len(list) - i : b[k] = list[i + k]
  <2>1. i + 1 \in Int /\ Len(list) \in Int /\ \A k \in i + 1 .. Len(list) : list[k] \in Window
    BY <1>1
  <2>2. /\ SubSeq(list, i + 1, Len(list)) \in Seq(Window)
        /\ Len(SubSeq(list, i + 1, Len(list))) = IF i + 1 <= Len(list) THEN Len(list) - (i + 1) + 1 ELSE 0
        /\ \A k \in 1 .. Len(list) - (i + 1) + 1 : SubSeq(list, i + 1, Len(list))[k] = list[(i + 1) + k - 1]
    <3>1. PICK m \in Int, n \in Int : m = i + 1 /\ n = Len(list)
      BY <2>1
    <3>2. /\ SubSeq(list, m, n) \in Seq(Window)
          /\ Len(SubSeq(list, m, n)) = IF m <= n THEN n - m + 1 ELSE 0
          /\ \A k \in 1 .. n - m + 1 : SubSeq(list, m, n)[k] = list[m + k - 1]
      BY <2>1, <3>1, SubSeqProperties
    <3> QED BY <3>1, <3>2
  <2> HIDE DEF b
  <2>3. b = SubSeq(list, i + 1, Len(list))
    BY DEF b
  <2> QED BY <1>1, <2>2, <2>3
<1>4. Focus!Without(i) = a \o b
  BY DEF Focus!Without
<1> HIDE DEF a, b
<1>5. /\ a \o b \in Seq(Window) /\ Len(a \o b) = Len(a) + Len(b)
      /\ \A k \in 1 .. Len(a) + Len(b) : (a \o b)[k] = IF k <= Len(a) THEN a[k] ELSE b[k - Len(a)]
  BY <1>2, <1>3, ConcatProperties
<1>6. Len(a) + Len(b) = Len(list) - 1
  BY <1>1, <1>2, <1>3
<1>7. DOMAIN (a \o b) = 1 .. Len(list) - 1
  BY <1>5, <1>6, LenProperties
<1>8. ASSUME NEW k \in 1 .. Len(list) - 1
      PROVE  (a \o b)[k] = IF k < i THEN list[k] ELSE list[k + 1]
  <2>1. CASE k < i
    BY <1>1, <1>2, <1>5, <1>6, <2>1
  <2>2. CASE ~(k < i)
    <3>1. k - (i - 1) \in 1 .. Len(list) - i /\ ~(k <= i - 1) /\ i + (k - (i - 1)) = k + 1
      BY <1>1, <2>2
    <3>2. (a \o b)[k] = IF k <= Len(a) THEN a[k] ELSE b[k - Len(a)]
      BY <1>5, <1>6
    <3>3. (a \o b)[k] = b[k - (i - 1)]
      BY <1>2, <3>1, <3>2
    <3>4. b[k - (i - 1)] = list[i + (k - (i - 1))]
      BY <1>3, <3>1
    <3>5. (a \o b)[k] = list[k + 1]
      BY <3>1, <3>3, <3>4
    <3> QED BY <2>2, <3>5
  <2> QED BY <2>1, <2>2
<1> QED BY <1>4, <1>5, <1>6, <1>7, <1>8

\* The objects that are not removed stay, each once.
LEMMA RemoveProperties ==
  ASSUME Focus!TypeOK, NEW i \in DOMAIN list, NEW l, l = Focus!Without(i)
  PROVE  /\ l \in Seq(Window)
         /\ \A j, k \in DOMAIN l : l[j].address = l[k].address => j = k
         /\ \A j \in DOMAIN list : j # i => \E k \in DOMAIN l : l[k] = list[j]
         /\ \A k \in DOMAIN l : \E j \in DOMAIN list : j # i /\ l[k] = list[j]
         /\ \A j, k \in DOMAIN l : l[j].surface = l[k].surface /\ j # k =>
              \E m, n \in DOMAIN list : m # n /\ list[m].surface = list[n].surface
<1>1. Len(list) \in Nat /\ DOMAIN list = 1 .. Len(list) /\ i \in 1 .. Len(list)
      /\ \A m, n \in DOMAIN list : list[m].address = list[n].address => m = n
  BY ListTyped
<1>2. /\ l \in Seq(Window) /\ DOMAIN l = 1 .. Len(list) - 1
      /\ \A k \in 1 .. Len(list) - 1 : l[k] = IF k < i THEN list[k] ELSE list[k + 1]
  BY WithoutObject
<1> DEFINE from(k) == IF k < i THEN k ELSE k + 1
<1>3. \A k \in DOMAIN l : from(k) \in DOMAIN list /\ from(k) # i /\ l[k] = list[from(k)]
  BY <1>1, <1>2
<1>4. \A j, k \in DOMAIN l : j # k => from(j) # from(k)
  BY <1>1, <1>2
<1>5. ASSUME NEW j \in DOMAIN list, j # i
      PROVE  \E k \in DOMAIN l : l[k] = list[j]
  <2>1. CASE j < i
    <3>1. j \in DOMAIN l /\ l[j] = list[j]
      BY <1>1, <1>2, <2>1
    <3> QED BY <3>1
  <2>2. CASE ~(j < i)
    <3>1. j - 1 \in DOMAIN l /\ l[j - 1] = list[j]
      BY <1>1, <1>2, <1>5, <2>2
    <3> QED BY <3>1
  <2> QED BY <2>1, <2>2
<1> HIDE DEF from
<1>6. \A j, k \in DOMAIN l : l[j].address = l[k].address => j = k
  BY <1>1, <1>3, <1>4
<1>7. \A k \in DOMAIN l : \E j \in DOMAIN list : j # i /\ l[k] = list[j]
  BY <1>3
<1>8. ASSUME NEW j \in DOMAIN l, NEW k \in DOMAIN l, l[j].surface = l[k].surface, j # k
      PROVE  \E m, n \in DOMAIN list : m # n /\ list[m].surface = list[n].surface
  <2>1. from(j) \in DOMAIN list /\ from(k) \in DOMAIN list /\ from(j) # from(k)
    BY <1>3, <1>4, <1>8
  <2>2. list[from(j)].surface = list[from(k)].surface
    BY <1>3, <1>8
  <2> QED BY <2>1, <2>2
<1> QED BY <1>2, <1>5, <1>6, <1>7, <1>8

\* A new object is put on top.
LEMMA AppendObject ==
  ASSUME Focus!TypeOK, NEW w \in Window, \A i \in DOMAIN list : list[i].address # w.address,
         NEW l, l = Append(list, w)
  PROVE  /\ l \in Seq(Window)
         /\ \A j, k \in DOMAIN l : l[j].address = l[k].address => j = k
         /\ DOMAIN list \subseteq DOMAIN l /\ \A i \in DOMAIN list : l[i] = list[i]
         /\ \A j \in DOMAIN l : j \notin DOMAIN list => j = Len(list) + 1 /\ l[j] = w
<1>1. /\ Len(list) \in Nat /\ DOMAIN list = 1 .. Len(list) /\ list \in Seq(Window)
      /\ \A i, j \in DOMAIN list : list[i].address = list[j].address => i = j
  BY ListTyped
<1>2. /\ l \in Seq(Window) /\ Len(l) = Len(list) + 1
      /\ \A i \in 1 .. Len(list) : l[i] = list[i]
      /\ l[Len(list) + 1] = w
  BY <1>1, AppendProperties
<1>3. DOMAIN l = 1 .. Len(list) + 1
  BY <1>2, LenProperties
<1> QED BY <1>1, <1>2, <1>3

\* An editor of the layout adds, removes, moves, shows and hides windows.
LEMMA EditStep ==
  ASSUME FocusInv, Focus!EditLayout
  PROVE  FocusInv'
<1>a. Focus!TypeOK /\ UseLayout /\ told \in [Surfaces -> Tells]
      /\ registered \subseteq Surfaces /\ strayed \subseteq Surfaces \X Fingers
  BY DEF FocusInv, Focus!TypeOK, Focus!EditLayout, Tells
<1>b. /\ Len(list) \in Nat /\ DOMAIN list = 1 .. Len(list) /\ list \in Seq(Window)
      /\ \A i \in DOMAIN list : list[i] \in Window
      /\ \A i, j \in DOMAIN list : list[i].address = list[j].address => i = j
  BY <1>a, ListTyped
<1>c. /\ UNCHANGED << registered, Focus!focusVars, pointer, fingers, held, told, strayed >>
      /\ SurfacesInv'
  BY <1>a DEF Focus!EditLayout, SurfacesInv
<1>1. ASSUME NEW a \in Focus!Free, NEW s \in Surfaces, NEW b \in Boxes,
             list' = Append(list, [address |-> a, surface |-> s, box |-> b, visible |-> TRUE])
      PROVE  FocusInv'
  <2>1. [address |-> a, surface |-> s, box |-> b, visible |-> TRUE] \in Window
    BY DEF Window, Focus!Free
  <2>2. \A i \in DOMAIN list : list[i].address # a
    BY DEF Focus!Free
  <2>3. PICK w : w = [address |-> a, surface |-> s, box |-> b, visible |-> TRUE]
    OBVIOUS
  <2>4. w \in Window /\ w.address = a
    BY <2>1, <2>3
  <2>5. /\ list' \in Seq(Window)
        /\ \A j, k \in DOMAIN list' : list'[j].address = list'[k].address => j = k
        /\ DOMAIN list \subseteq DOMAIN list' /\ \A i \in DOMAIN list : list'[i] = list[i]
    <3>1. PICK l : l = list' /\ l = Append(list, w)
      BY <1>1, <2>3
    <3>2. /\ l \in Seq(Window)
          /\ \A j, k \in DOMAIN l : l[j].address = l[k].address => j = k
          /\ DOMAIN list \subseteq DOMAIN l /\ \A i \in DOMAIN list : l[i] = list[i]
      BY <1>a, <2>2, <2>4, <3>1, AppendObject
    <3> QED BY <3>1, <3>2
  <2> QED BY <1>a, <1>b, <1>c, <2>5, ListStep
<1>2. ASSUME NEW i \in DOMAIN list, Focus!Kept(i), list' = Focus!Without(i)
      PROVE  FocusInv'
  <2>1. /\ list' \in Seq(Window)
        /\ \A j, k \in DOMAIN list' : list'[j].address = list'[k].address => j = k
        /\ \A j \in DOMAIN list : j # i => \E k \in DOMAIN list' : list'[k] = list[j]
    <3>1. PICK l : l = list' /\ l = Focus!Without(i)
      BY <1>2
    <3>2. /\ l \in Seq(Window)
          /\ \A j, k \in DOMAIN l : l[j].address = l[k].address => j = k
          /\ \A j \in DOMAIN list : j # i => \E k \in DOMAIN l : l[k] = list[j]
      BY <1>a, <3>1, RemoveProperties
    <3> QED BY <3>1, <3>2
  <2>2. \A j \in DOMAIN list : list[j].address \in {touch_focused, pointer_focused, keyboard_focused} =>
          \E k \in DOMAIN list' : list'[k].address = list[j].address /\ list'[k].surface = list[j].surface
    BY <1>2, <2>1 DEF Focus!Kept
  <2> QED BY <1>a, <1>c, <2>1, <2>2, ListStep
<1>3. ASSUME NEW i \in DOMAIN list, NEW b \in Boxes, NEW v \in BOOLEAN,
             list' = [list EXCEPT ![i].box = b, ![i].visible = v]
      PROVE  FocusInv'
  <2>1. PICK w : w = [address |-> list[i].address, surface |-> list[i].surface, box |-> b, visible |-> v]
    OBVIOUS
  <2>2. list[i] \in Window
    BY <1>b
  <2>3. w \in Window /\ w.address = list[i].address /\ w.surface = list[i].surface
    BY <2>1, <2>2 DEF Window
  <2>4. list' = [list EXCEPT ![i] = w]
    <3>1. [[list[i] EXCEPT !.box = b] EXCEPT !.visible = v] = w
      <4>1. PICK x : x = list[i]
        OBVIOUS
      <4>2. x = [address |-> x.address, surface |-> x.surface, box |-> x.box, visible |-> x.visible]
        BY <2>2, <4>1 DEF Window
      <4>3. [[x EXCEPT !.box = b] EXCEPT !.visible = v]
              = [address |-> x.address, surface |-> x.surface, box |-> b, visible |-> v]
        <5>1. PICK y : y = [x EXCEPT !.box = b]
          OBVIOUS
        <5>2. y = [address |-> x.address, surface |-> x.surface, box |-> b, visible |-> x.visible]
          BY <4>2, <5>1
        <5>3. [y EXCEPT !.visible = v] = [address |-> x.address, surface |-> x.surface, box |-> b, visible |-> v]
          BY <5>2
        <5> QED BY <5>1, <5>3
      <4> QED BY <2>1, <4>1, <4>3
    <3>2. list' = [list EXCEPT ![i] = [[list[i] EXCEPT !.box = b] EXCEPT !.visible = v]]
      BY <1>3, <1>b, <2>2 DEF Window
    <3> QED BY <3>1, <3>2
  <2>5. /\ list' \in Seq(Window) /\ DOMAIN list' = DOMAIN list
        /\ \A j \in DOMAIN list : list'[j] = IF j = i THEN w ELSE list[j]
    <3>1. [list EXCEPT ![i] = w] \in Seq(Window)
      BY <1>b, <2>3, ExceptSeq
    <3> QED BY <1>b, <2>4, <3>1
  <2>6. \A j \in DOMAIN list : list'[j].address = list[j].address /\ list'[j].surface = list[j].surface
    BY <2>3, <2>5
  <2>7. \A j, k \in DOMAIN list' : list'[j].address = list'[k].address => j = k
    BY <1>b, <2>5, <2>6
  <2>8. \A j \in DOMAIN list : \E k \in DOMAIN list' :
          list'[k].address = list[j].address /\ list'[k].surface = list[j].surface
    BY <2>5, <2>6
  <2> QED BY <1>a, <1>c, <2>5, <2>7, <2>8, ListStep
<1>4. \/ \E a \in Focus!Free, s \in Surfaces, b \in Boxes :
           list' = Append(list, [address |-> a, surface |-> s, box |-> b, visible |-> TRUE])
      \/ \E i \in DOMAIN list : Focus!Kept(i) /\ list' = Focus!Without(i)
      \/ \E i \in DOMAIN list, b \in Boxes, v \in BOOLEAN :
           list' = [list EXCEPT ![i].box = b, ![i].visible = v]
  BY DEF Focus!EditLayout
<1> QED BY <1>1, <1>2, <1>3, <1>4

\* A surface comes, and without a layout its object.
LEMMA RegisterStep ==
  ASSUME FocusInv, NEW s \in Surfaces, Focus!Register(s)
  PROVE  FocusInv'
<1>a. Focus!TypeOK /\ SurfacesInv /\ told \in [Surfaces -> Tells]
      /\ registered \subseteq Surfaces /\ strayed \subseteq Surfaces \X Fingers
  BY DEF FocusInv, Focus!TypeOK, Tells
<1>b. /\ Len(list) \in Nat /\ DOMAIN list = 1 .. Len(list) /\ list \in Seq(Window)
      /\ \A i \in DOMAIN list : list[i] \in Window
      /\ \A i, j \in DOMAIN list : list[i].address = list[j].address => i = j
  BY <1>a, ListTyped
<1>c. /\ UNCHANGED << Focus!focusVars, pointer, fingers, held, told, strayed >>
      /\ s \notin registered /\ registered' = registered \cup {s} /\ registered' \subseteq Surfaces
  BY <1>a DEF Focus!Register
<1>1. CASE UseLayout
  <2>1. list' = list
    BY <1>1 DEF Focus!Register
  <2>2. SurfacesInv'
    BY <1>1 DEF SurfacesInv
  <2> QED BY <1>a, <1>b, <1>c, <2>1, <2>2, ListStep
<1>2. CASE ~UseLayout
  <2>1. PICK a \in Focus!Free, b \in Boxes :
          list' = Append(list, [address |-> a, surface |-> s, box |-> b, visible |-> TRUE])
    BY <1>2 DEF Focus!Register
  <2>2. PICK w : w = [address |-> a, surface |-> s, box |-> b, visible |-> TRUE]
    OBVIOUS
  <2>3. w \in Window /\ w.address = a /\ w.surface = s
    BY <2>2 DEF Window, Focus!Free
  <2>4. \A i \in DOMAIN list : list[i].address # a
    BY DEF Focus!Free
  <2>5. /\ list' \in Seq(Window)
        /\ \A j, k \in DOMAIN list' : list'[j].address = list'[k].address => j = k
        /\ DOMAIN list \subseteq DOMAIN list' /\ \A i \in DOMAIN list : list'[i] = list[i]
        /\ \A j \in DOMAIN list' : j \notin DOMAIN list => j = Len(list) + 1 /\ list'[j] = w
    <3>1. PICK l : l = list' /\ l = Append(list, w)
      BY <2>1, <2>2
    <3> QED BY <1>a, <2>3, <2>4, <3>1, AppendObject
  <2>6. SurfacesInv'
    <3>1. /\ \A i \in DOMAIN list : list[i].surface \in registered
          /\ \A i, j \in DOMAIN list : list[i].surface = list[j].surface => i = j
      BY <1>2, <1>a DEF SurfacesInv
    <3>2. \A i \in DOMAIN list' : list'[i].surface \in registered'
      BY <1>c, <2>3, <2>5, <3>1
    <3>3. \A i, j \in DOMAIN list' : list'[i].surface = list'[j].surface => i = j
      BY <1>c, <2>3, <2>5, <3>1
    <3> QED BY <3>2, <3>3 DEF SurfacesInv
  <2> QED BY <1>a, <1>b, <1>c, <2>5, <2>6, ListStep
<1> QED BY <1>1, <1>2

\* A surface goes, and without a layout its object, unless it has a focus.
LEMMA UnregisterStep ==
  ASSUME FocusInv, NEW s \in Surfaces, Focus!Unregister(s)
  PROVE  FocusInv'
<1>a. Focus!TypeOK /\ SurfacesInv /\ told \in [Surfaces -> Tells]
      /\ registered \subseteq Surfaces /\ strayed \subseteq Surfaces \X Fingers
  BY DEF FocusInv, Focus!TypeOK, Tells
<1>b. /\ Len(list) \in Nat /\ DOMAIN list = 1 .. Len(list) /\ list \in Seq(Window)
      /\ \A i \in DOMAIN list : list[i] \in Window
      /\ \A i, j \in DOMAIN list : list[i].address = list[j].address => i = j
  BY <1>a, ListTyped
<1>c. /\ UNCHANGED << Focus!focusVars, pointer, fingers, held >>
      /\ registered' = registered \ {s} /\ registered' \subseteq Surfaces
      /\ told' = [told EXCEPT ![s] = [fingers |-> {}, olds |-> {}, buttons |-> {}]]
      /\ strayed' = {g \in strayed : g[1] # s}
  BY <1>a DEF Focus!Unregister, Focus!Nothing
<1>d. /\ told' \in [Surfaces -> Tells]
      /\ \A r \in Surfaces : \/ told'[r].fingers = {} /\ told'[r].olds = {} /\ told'[r].buttons = {}
                             \/ /\ told'[r] = told[r] /\ (r \in registered => r \in registered')
                                /\ \A f : << r, f >> \in strayed => << r, f >> \in strayed'
      /\ strayed' \subseteq Surfaces \X Fingers
  <2>1. [fingers |-> {}, olds |-> {}, buttons |-> {}] \in Tells
    BY DEF Tells
  <2> QED BY <1>a, <1>c, <2>1
<1>1. CASE UseLayout
  <2>1. list' = list
    BY <1>1 DEF Focus!Unregister
  <2>2. SurfacesInv'
    BY <1>1 DEF SurfacesInv
  <2> QED BY <1>a, <1>b, <1>c, <1>d, <2>1, <2>2, ListStep
<1>2. CASE ~UseLayout
  <2>1. PICK i \in DOMAIN list : list[i].surface = s /\ Focus!Kept(i) /\ list' = Focus!Without(i)
    BY <1>2 DEF Focus!Unregister
  <2>2. /\ list' \in Seq(Window)
        /\ \A j, k \in DOMAIN list' : list'[j].address = list'[k].address => j = k
        /\ \A j \in DOMAIN list : j # i => \E k \in DOMAIN list' : list'[k] = list[j]
        /\ \A k \in DOMAIN list' : \E j \in DOMAIN list : j # i /\ list'[k] = list[j]
        /\ \A j, k \in DOMAIN list' : list'[j].surface = list'[k].surface /\ j # k =>
             \E m, n \in DOMAIN list : m # n /\ list[m].surface = list[n].surface
    <3>1. PICK l : l = list' /\ l = Focus!Without(i)
      BY <2>1
    <3> QED BY <1>a, <3>1, RemoveProperties
  <2>3. \A j \in DOMAIN list : list[j].address \in {touch_focused, pointer_focused, keyboard_focused} =>
          \E k \in DOMAIN list' : list'[k].address = list[j].address /\ list'[k].surface = list[j].surface
    BY <2>1, <2>2 DEF Focus!Kept
  <2>4. SurfacesInv'
    <3>1. /\ \A j \in DOMAIN list : list[j].surface \in registered
          /\ \A j, k \in DOMAIN list : list[j].surface = list[k].surface => j = k
      BY <1>2, <1>a DEF SurfacesInv
    <3>2. \A k \in DOMAIN list' : list'[k].surface \in registered'
      BY <1>c, <2>1, <2>2, <3>1
    <3>3. \A j, k \in DOMAIN list' : list'[j].surface = list'[k].surface => j = k
      BY <2>2, <3>1
    <3> QED BY <3>2, <3>3 DEF SurfacesInv
  <2> QED BY <1>a, <1>c, <1>d, <2>2, <2>3, <2>4, ListStep
<1> QED BY <1>1, <1>2

\* The events of pointers and keys go to an object of the list, or nowhere.
LEMMA TargetListed ==
  ASSUME Focus!TypeOK, FocusIn, NEW p
  PROVE  /\ Focus!PointerTarget(p) # Nobody =>
              \E i \in DOMAIN list : list[i].address = Focus!PointerTarget(p)
         /\ keyboard_focused # Nobody => \E i \in DOMAIN list : list[i].address = keyboard_focused
         /\ touch_focused # Nobody => \E i \in DOMAIN list : list[i].address = touch_focused
<1>1. PICK o : o = Focus!get_focus_rvgpu_json_obj(p)
  OBVIOUS
<1>2. o # Nobody => \E i \in DOMAIN list : list[i].address = o
  BY <1>1, FoundProperties
<1>3. Focus!PointerTarget(p) \in {o, pointer_focused, Nobody}
  BY <1>1 DEF Focus!PointerTarget
<1> QED BY <1>2, <1>3 DEF FocusIn

\* The pointer moves, enters, leaves and scrolls, with wayland or without.
LEMMA WlPointerStep ==
  ASSUME FocusInv, Backend = "wayland", Focus!WlPointer
  PROVE  FocusInv' /\ told' = told
<1>a. Focus!TypeOK /\ FocusIn /\ PointerInv
  BY DEF FocusInv
<1>b. /\ Nobody \notin Positions /\ Mouse \subseteq Positions /\ pre_pointer_pos \in Positions
      /\ pointer \in Positions \cup {Nobody}
  BY <1>a, FocusAssumption DEF Focus!ConstantsAssumption, Focus!TypeOK
<1>c. UNCHANGED << list, registered, fingers, held, strayed >>
  BY DEF Focus!WlPointer
<1>d. UNCHANGED Focus!OtherThanPosition =>
        UNCHANGED << touch_focused, touch_down_count, pointer_focused, focus, button_states, keyboard_focused >>
  BY DEF Focus!OtherThanPosition
<1>e. \A p, e : Focus!send_plain(Focus!PointerTarget(p), e) => told' = told
  <2> TAKE p, e
  <2>1. PICK o : o = Focus!PointerTarget(p)
    OBVIOUS
  <2> QED BY <1>a, <2>1, TargetListed, PlainProperties
<1>1. ASSUME NEW p \in Positions, pointer' = p, Focus!pointer_inout_cb(p)
      PROVE  FocusInv' /\ told' = told
  <2>1. told' = told /\ pre_pointer_pos' = p /\ UNCHANGED Focus!OtherThanPosition
    BY <1>1, <1>b, <1>e DEF Focus!pointer_inout_cb
  <2> QED BY <1>1, <1>c, <1>d, <2>1, PlainStep DEF PointerInv
<1>2. ASSUME pointer' = Nobody, Focus!pointer_inout_cb(Nobody)
      PROVE  FocusInv' /\ told' = told
  <2>1. told' = told /\ pre_pointer_pos' = pre_pointer_pos /\ UNCHANGED Focus!OtherThanPosition
    BY <1>2 DEF Focus!pointer_inout_cb
  <2> QED BY <1>2, <1>b, <1>c, <1>d, <2>1, PlainStep DEF PointerInv
<1>3. ASSUME NEW p \in Positions, pointer' = p, Focus!pointer_motion_cb(p)
      PROVE  FocusInv' /\ told' = told
  <2>1. told' = told /\ pre_pointer_pos' = p /\ UNCHANGED Focus!OtherThanPosition
    BY <1>3, <1>e DEF Focus!pointer_motion_cb
  <2> QED BY <1>3, <1>c, <1>d, <2>1, PlainStep DEF PointerInv
<1>4. ASSUME UNCHANGED pointer, Focus!pointer_axis_cb
      PROVE  FocusInv' /\ told' = told
  <2>1. told' = told /\ UNCHANGED Focus!focusVars
    BY <1>4, <1>e DEF Focus!pointer_axis_cb
  <2> QED BY <1>4, <1>a, <1>b, <1>c, <2>1, PlainStep DEF PointerInv, Focus!focusVars
<1> QED BY <1>b, <1>1, <1>2, <1>3, <1>4 DEF Focus!WlPointer

LEMMA GbmPointerStep ==
  ASSUME FocusInv, Backend = "gbm", Focus!GbmPointer
  PROVE  FocusInv' /\ told' = told
<1>a. Focus!TypeOK /\ FocusIn /\ PointerInv /\ PointerInv'
  BY DEF FocusInv, PointerInv
<1>b. /\ pre_pointer_pos \in Positions /\ pointer \in Positions \cup {Nobody}
      /\ UNCHANGED << list, registered, fingers, held, strayed >> /\ Mouse \subseteq Positions
  BY <1>a, FocusAssumption DEF Focus!TypeOK, Focus!GbmPointer, Focus!ConstantsAssumption
<1>c. \A p, e : Focus!send_plain(Focus!PointerTarget(p), e) => told' = told
  <2> TAKE p, e
  <2>1. PICK o : o = Focus!PointerTarget(p)
    OBVIOUS
  <2> QED BY <1>a, <2>1, TargetListed, PlainProperties
<1>1. ASSUME NEW p \in Positions, pointer' \in Positions, Focus!pointer_motion_cb(p)
      PROVE  FocusInv' /\ told' = told
  <2>1. told' = told /\ pre_pointer_pos' = p /\ UNCHANGED Focus!OtherThanPosition
    BY <1>1, <1>c DEF Focus!pointer_motion_cb
  <2> QED BY <1>1, <1>a, <1>b, <2>1, PlainStep DEF Focus!OtherThanPosition
<1>2. ASSUME UNCHANGED pointer, Focus!pointer_axis_cb
      PROVE  FocusInv' /\ told' = told
  <2>1. told' = told /\ UNCHANGED Focus!focusVars
    BY <1>2, <1>c DEF Focus!pointer_axis_cb
  <2> QED BY <1>2, <1>a, <1>b, <2>1, PlainStep DEF Focus!focusVars
<1> QED BY <1>b, <1>1, <1>2 DEF Focus!GbmPointer

\* Keys and motions of touches tell no surface that anything is down.
LEMMA KeyStep ==
  ASSUME FocusInv, Focus!Key
  PROVE  FocusInv' /\ told' = told
<1>a. Focus!TypeOK /\ FocusIn /\ PointerInv
  BY DEF FocusInv
<1>b. /\ pre_pointer_pos \in Positions /\ pointer \in Positions \cup {Nobody}
      /\ UNCHANGED << list, registered, pointer, fingers, held, strayed >>
  BY <1>a DEF Focus!TypeOK, Focus!Key
<1>1. told' = told /\ UNCHANGED Focus!focusVars
  <2>1. PICK o : o = keyboard_focused
    OBVIOUS
  <2> QED BY <1>a, <2>1, TargetListed, PlainProperties DEF Focus!Key, Focus!keyboard_cb
<1> QED BY <1>a, <1>b, <1>1, PlainStep DEF PointerInv, Focus!focusVars

LEMMA TouchMotionStep ==
  ASSUME FocusInv, Focus!touch_motion_cb,
         UNCHANGED << list, registered, pointer, fingers, held, strayed >>
  PROVE  FocusInv' /\ told' = told
<1>a. Focus!TypeOK /\ FocusIn /\ PointerInv
  BY DEF FocusInv
<1>b. pre_pointer_pos \in Positions /\ pointer \in Positions \cup {Nobody}
  BY <1>a DEF Focus!TypeOK
<1>1. told' = told /\ UNCHANGED Focus!focusVars
  <2>1. PICK o : o = touch_focused
    OBVIOUS
  <2> QED BY <1>a, <2>1, TargetListed, PlainProperties DEF Focus!touch_motion_cb
<1> QED BY <1>a, <1>b, <1>1, PlainStep DEF PointerInv, Focus!focusVars

\* Touches begin, move, end and are cancelled.
LEMMA TouchStep ==
  ASSUME FocusInv, Focus!Touch
  PROVE  FocusInv'
<1>a. UNCHANGED << list, registered, pointer, held >>
  BY DEF Focus!Touch
<1>1. ASSUME NEW f \in Fingers \ fingers, NEW p \in Positions, Focus!TouchBegins(f, p)
      PROVE  FocusInv'
  BY <1>1, <1>a, DownStep
<1>2. ASSUME NEW f \in fingers, Focus!TouchEnds(f)
      PROVE  FocusInv'
  BY <1>2, <1>a, UpStep
<1>3. CASE (Focus!touch_motion_cb \/ Focus!touch_frame_cb) /\ UNCHANGED << fingers, strayed >>
  BY <1>3, <1>a, TouchMotionStep, FrameStep
<1>4. CASE Focus!TouchesCancelled
  BY <1>4, <1>a, CancelStep
<1> QED BY <1>1, <1>2, <1>3, <1>4 DEF Focus!Touch

\* The steps together, and the first state.
LEMMA ButtonKeeps ==
  ASSUME FocusInv, Focus!Button
  PROVE  FocusInv'
BY ButtonStep DEF Focus!Button

LEMMA FocusStep ==
  ASSUME FocusInv, [Focus!Next]_(Focus!vars)
  PROVE  FocusInv'
<1>1. CASE Focus!WaylandEvent
  BY <1>1, WlPointerStep, ButtonKeeps, KeyStep, TouchStep DEF Focus!WaylandEvent
<1>2. CASE Focus!rvgpu_gbm_input
  BY <1>2, GbmPointerStep, ButtonKeeps, KeyStep, TouchStep DEF Focus!rvgpu_gbm_input
<1>3. CASE Focus!EditLayout
  BY <1>3, EditStep
<1>4. ASSUME NEW s \in Surfaces, Focus!Register(s)
      PROVE  FocusInv'
  BY <1>4, RegisterStep
<1>5. ASSUME NEW s \in Surfaces, Focus!Unregister(s)
      PROVE  FocusInv'
  BY <1>5, UnregisterStep
<1>6. CASE UNCHANGED Focus!vars
  <2>1. told' = told /\ UNCHANGED << list, registered, touch_focused, touch_down_count, pointer_focused,
          focus, button_states, keyboard_focused, fingers, held, strayed, pre_pointer_pos, pointer >>
    BY <1>6 DEF Focus!vars, Focus!focusVars
  <2> QED BY <2>1, PlainStep DEF FocusInv, PointerInv, Focus!TypeOK
<1> QED BY <1>1, <1>2, <1>3, <1>4, <1>5, <1>6 DEF Focus!Next

LEMMA FocusInit == Focus!Init => FocusInv
<1> SUFFICES ASSUME Focus!Init PROVE FocusInv
  OBVIOUS
<1>1. <<0, 0>> \in Positions
  BY FocusAssumption DEF Focus!ConstantsAssumption
<1>2. Focus!TypeOK
  <2>1. list \in Seq(Focus!Object) /\ \A i, j \in DOMAIN list : list[i].address = list[j].address => i = j
    BY DEF Focus!Init
  <2>2. told \in [Surfaces -> Tells]
    BY DEF Focus!Init, Focus!Nothing, Tells
  <2>3. focus \in BOOLEAN /\ touch_down_count \in Nat
    BY DEF Focus!Init
  <2>4. /\ registered \subseteq Surfaces /\ fingers \subseteq Fingers /\ held \subseteq Buttons
        /\ strayed \subseteq Surfaces \X Fingers
        /\ button_states \subseteq Buttons /\ pointer = Nobody /\ pre_pointer_pos = <<0, 0>>
        /\ touch_focused = Nobody /\ pointer_focused = Nobody /\ keyboard_focused = Nobody
    BY DEF Focus!Init
  <2> QED BY <1>1, <2>1, <2>2, <2>3, <2>4 DEF Focus!TypeOK, Tells
<1>3. FocusIn /\ PointerInv
  BY DEF Focus!Init, FocusIn, PointerInv
<1>4. ButtonsInv
  BY DEF Focus!Init, ButtonsInv, Focus!Nothing
<1>5. TouchesInv
  <2>1. IsFiniteSet(fingers) /\ Cardinality(fingers) = 0 /\ fingers = {} /\ touch_down_count = 0
    BY FS_EmptySet DEF Focus!Init
  <2>2. \A s \in Surfaces : told[s].fingers = {} /\ told[s].olds = {} /\ IsFiniteSet(told[s].fingers)
    BY FS_EmptySet DEF Focus!Init, Focus!Nothing
  <2> QED BY <2>1, <2>2 DEF Focus!Init, TouchesInv
<1>6. SurfacesInv
  BY DEF Focus!Init, SurfacesInv
<1> QED BY <1>2, <1>3, <1>4, <1>5, <1>6 DEF FocusInv

\* No button stays down for a surface and one surface at a time has the buttons;
\* no finger stays down but one that has strayed, in one window or in several;
\* for every layout and any number of fingers: NoStuckInput.
THEOREM NoStuckCorrect == Focus!Spec => [](Focus!TypeOK /\ NoStuckInput)
<1>1. FocusInv => Focus!TypeOK /\ NoStuckInput
  <2> SUFFICES ASSUME FocusInv PROVE Focus!TypeOK /\ NoStuckInput
    OBVIOUS
  <2>1. Focus!TypeOK /\ ButtonsInv /\ TouchesInv
    BY DEF FocusInv
  <2>2. Focus!NoStuckButton
    BY <2>1 DEF Focus!NoStuckButton, ButtonsInv
  <2>3. Focus!OneGrab
    BY <2>1, ListTyped DEF Focus!OneGrab, ButtonsInv, PointsTo
  <2>4. Focus!NoStuckTouch
    BY <2>1 DEF Focus!NoStuckTouch, TouchesInv
  <2>5. ~TouchOutside => Focus!TouchFocusEnds
    BY <2>1 DEF Focus!TouchFocusEnds, TouchesInv
  <2> QED BY <2>1, <2>2, <2>3, <2>4, <2>5 DEF NoStuckInput
<1>2. FocusInv /\ [Focus!Next]_(Focus!vars) => FocusInv'
  BY FocusStep
<1> QED BY <1>1, <1>2, FocusInit, PTL DEF Focus!Spec

\* What the search finds is visible, registered and on top; when it finds
\* nothing, no registered surface is there.
LEMMA FoundOnTop ==
  ASSUME Focus!TypeOK, SurfacesInv, NEW p, NEW o, o = Focus!get_focus_rvgpu_json_obj(p),
         NEW s, s = Focus!get_rvgpu_client_fd(o)
  PROVE  /\ s # Nobody => /\ s \in Surfaces /\ Focus!OnTop(s, p)
                          /\ \E i \in DOMAIN list : list[i].surface = s /\ (UseLayout => list[i].visible)
         /\ s = Nobody => \A r \in registered : ~Focus!OnTop(r, p)
<1>1. CASE o = Nobody
  <2>1. Focus!Found(p) = {}
    <3>1. \/ o = Nobody /\ Focus!Found(p) = {}
          \/ o # Nobody
      BY FoundProperties
    <3> QED BY <1>1, <3>1
  <2>2. s = Nobody
    BY <1>1, ClientProperties
  <2>3. \A r \in registered : ~Focus!OnTop(r, p)
    BY <2>1 DEF Focus!OnTop, Focus!Found
  <2> QED BY <2>2, <2>3
<1>2. CASE o # Nobody
  <2>1. PICK i \in DOMAIN list : /\ i \in Focus!Found(p) /\ o = list[i].address
                                 /\ \A j \in Focus!Found(p) : i >= j
    <3>1. \/ o = Nobody
          \/ \E i \in Focus!Found(p) : /\ i \in DOMAIN list /\ o = list[i].address
                                       /\ \A j \in Focus!Found(p) : i >= j
      BY FoundProperties
    <3> QED BY <1>2, <3>1
  <2>2. list[i].surface \in registered /\ (UseLayout => list[i].visible)
        /\ Focus!check_in_square(p, list[i].box)
    BY <2>1 DEF Focus!Found, SurfacesInv
  <2>3. list[i].surface \in Surfaces /\ Nobody \notin Surfaces
    BY <2>1, ListTyped, FocusAssumption DEF Window, Focus!ConstantsAssumption
  <2>4. s = list[i].surface
    BY <1>2, <2>1, <2>2, TheWindow DEF Focus!get_rvgpu_client_fd
  <2>5. Focus!OnTop(s, p)
    <3>1. \A j \in DOMAIN list :
            j > i /\ list[j].surface \in registered /\ (UseLayout => list[j].visible)
              => ~Focus!check_in_square(p, list[j].box)
      <4> SUFFICES ASSUME NEW j \in DOMAIN list, j > i, list[j].surface \in registered,
                          UseLayout => list[j].visible, Focus!check_in_square(p, list[j].box)
                   PROVE  FALSE
        OBVIOUS
      <4>1. j \in Focus!Found(p)
        BY DEF Focus!Found
      <4>2. i \in Nat /\ j \in Nat
        BY <2>1, ListTyped
      <4> QED BY <2>1, <4>1, <4>2
    <3> QED BY <2>1, <2>2, <2>4, <3>1 DEF Focus!OnTop
  <2> QED BY <2>1, <2>2, <2>3, <2>4, <2>5
<1> QED BY <1>1, <1>2

\* A set has no fewer elements than a part of it.
LEMMA NotMore ==
  ASSUME NEW S, IsFiniteSet(S), NEW T, T \subseteq S
  PROVE  ~(Focus!Cardinality(T) > Focus!Cardinality(S))
<1>1. IsFiniteSet(T) /\ Cardinality(T) <= Cardinality(S)
  BY FS_Subset
<1>2. Cardinality(T) \in Nat /\ Cardinality(S) \in Nat
  BY <1>1, FS_CardinalityType
<1> QED BY <1>1, <1>2, SameCardinality

\* A step that takes touches and buttons away gives no hidden surface any.
LEMMA NothingGiven ==
  ASSUME FocusInv,
         \A r \in Surfaces : /\ told'[r].fingers \subseteq told[r].fingers
                             /\ held = {} => told'[r].buttons = {}
  PROVE  Focus!HiddenGetsNothing
<1> SUFFICES ASSUME NEW r \in Surfaces,
                    \/ Focus!Cardinality(told'[r].fingers) > Focus!Cardinality(told[r].fingers)
                    \/ told'[r].buttons # {} /\ held = {}
             PROVE  FALSE
  BY DEF Focus!HiddenGetsNothing
<1>1. IsFiniteSet(told[r].fingers)
  BY DEF FocusInv, TouchesInv
<1>2. ~(Focus!Cardinality(told'[r].fingers) > Focus!Cardinality(told[r].fingers))
  <2>1. PICK S, T : S = told[r].fingers /\ T = told'[r].fingers
    OBVIOUS
  <2> QED BY <1>1, <2>1, NotMore
<1> QED BY <1>2

\* A step that tells nothing new.
LEMMA NothingTold ==
  ASSUME FocusInv, told' = told
  PROVE  Focus!HiddenGetsNothing
BY NothingGiven DEF FocusInv, ButtonsInv

\* Only a press takes a button into the hand.
LEMMA NoPress ==
  ASSUME UNCHANGED held
  PROVE  Focus!PressLands
BY DEF Focus!PressLands

\* Other events than those of the pointer.
LEMMA NoHover ==
  ASSUME \/ sent' = sent
         \/ sent' = Nobody
         \/ sent'.event \in {"down", "up", "touch motion", "touch frame", "cancel", "button", "key"}
  PROVE  Focus!HoverLands
BY DEF Focus!HoverLands

\* An event of the pointer, at a position: to the window on top, or to the one
\* that has the grab.
LEMMA HoverRight ==
  ASSUME FocusInv, NEW e, Focus!send_plain(Focus!PointerTarget(pointer'), e)
  PROVE  Focus!HoverLands
<1>a. Focus!TypeOK /\ FocusIn /\ ButtonsInv /\ SurfacesInv
  BY DEF FocusInv
<1>1. PICK p : p = pointer'
  OBVIOUS
<1>2. PICK o : o = Focus!PointerTarget(p)
  OBVIOUS
<1>3. PICK s : s = Focus!get_rvgpu_client_fd(o)
  OBVIOUS
<1>4. sent' = [event |-> e, to |-> s]
  BY <1>1, <1>2, <1>3 DEF Focus!send_plain, Focus!send_event
<1>5. sent'.to = s
  BY <1>4
<1>6. CASE s = Nobody
  BY <1>5, <1>6 DEF Focus!HoverLands
<1>7. CASE s # Nobody
  <2>1. CASE held = {}
    <3>1. o = Focus!get_focus_rvgpu_json_obj(p)
      BY <1>2, <1>a, <2>1 DEF Focus!PointerTarget, ButtonsInv
    <3>2. Focus!OnTop(s, p)
      BY <1>a, <1>3, <1>7, <3>1, FoundOnTop
    <3> QED BY <1>1, <1>5, <2>1, <3>2 DEF Focus!HoverLands
  <2>2. CASE held # {}
    <3>1. pointer_focused # Nobody => o \in {pointer_focused, Nobody}
      BY <1>2 DEF Focus!PointerTarget
    <3>2. o # Nobody /\ s = Focus!The(o).surface
      BY <1>3, <1>7 DEF Focus!get_rvgpu_client_fd
    <3>3. pointer_focused # Nobody => Focus!The(pointer_focused).surface = s
      BY <3>1, <3>2
    <3> QED BY <1>5, <2>2, <3>3 DEF Focus!HoverLands
  <2> QED BY <2>1, <2>2
<1> QED BY <1>6, <1>7

\* The steps of the pointer and their events.
LEMMA WlPointerRight ==
  ASSUME FocusInv, Backend = "wayland", Focus!WlPointer
  PROVE  Focus!HoverLands /\ Focus!PressLands /\ Focus!HiddenGetsNothing
<1>a. Focus!PressLands /\ Focus!HiddenGetsNothing
  BY WlPointerStep, NothingTold, NoPress DEF Focus!WlPointer
<1>b. Nobody \notin Positions /\ Mouse \subseteq Positions
  BY FocusAssumption DEF Focus!ConstantsAssumption
<1>1. ASSUME NEW p \in Mouse, pointer' = p, Focus!pointer_inout_cb(p)
      PROVE  Focus!HoverLands
  <2>1. Focus!send_plain(Focus!PointerTarget(pointer'), "enter")
    BY <1>1, <1>b DEF Focus!pointer_inout_cb
  <2> QED BY <2>1, HoverRight
<1>2. ASSUME Focus!pointer_inout_cb(Nobody)
      PROVE  Focus!HoverLands
  BY <1>2, NoHover DEF Focus!pointer_inout_cb
<1>3. ASSUME NEW p \in Mouse, pointer' = p, Focus!pointer_motion_cb(p)
      PROVE  Focus!HoverLands
  <2>1. Focus!send_plain(Focus!PointerTarget(pointer'), "motion")
    BY <1>3 DEF Focus!pointer_motion_cb
  <2> QED BY <2>1, HoverRight
<1>4. ASSUME pointer # Nobody, UNCHANGED pointer, Focus!pointer_axis_cb
      PROVE  Focus!HoverLands
  <2>1. pre_pointer_pos = pointer'
    BY <1>4 DEF FocusInv, PointerInv
  <2>2. Focus!send_plain(Focus!PointerTarget(pointer'), "axis")
    BY <1>4, <2>1 DEF Focus!pointer_axis_cb
  <2> QED BY <2>2, HoverRight
<1>5. Focus!HoverLands
  BY <1>1, <1>2, <1>3, <1>4 DEF Focus!WlPointer
<1> QED BY <1>a, <1>5

\* A press goes to the visible window on top of the others.
LEMMA ButtonRight ==
  ASSUME FocusInv, Focus!Button
  PROVE  /\ Backend = "wayland" => Focus!HoverLands /\ Focus!PressLands
         /\ Focus!HiddenGetsNothing
<1>a. Focus!TypeOK /\ FocusIn /\ ButtonsInv /\ PointerInv /\ SurfacesInv
  BY DEF FocusInv
<1>1. PICK b \in Buttons : /\ Focus!pointer_button_cb(b, b \notin held)
                           /\ held' = IF b \in held THEN held \ {b} ELSE held \cup {b}
  BY DEF Focus!Button
<1>2. pointer # Nobody
  BY DEF Focus!Button
<1>3. PICK o : o = IF ~focus /\ (IF b \notin held THEN button_states \cup {b} ELSE button_states \ {b}) # {}
                   THEN Focus!get_focus_rvgpu_json_obj(pre_pointer_pos) ELSE pointer_focused
  OBVIOUS
<1>4. PICK s : s = Focus!get_rvgpu_client_fd(o)
  OBVIOUS
<1>5. PICK t : /\ Focus!send_event(o, "button", t)
               /\ t = [Focus!Told(o) EXCEPT !.buttons = IF b \notin held THEN @ \cup {b} ELSE @ \ {b}]
  BY <1>1, <1>3 DEF Focus!pointer_button_cb
<1>6. sent' = [event |-> "button", to |-> s]
  BY <1>4, <1>5 DEF Focus!send_event
<1>7. Focus!HoverLands
  <2>1. sent'.event = "button"
    BY <1>6
  <2> QED BY <2>1, NoHover
<1>8. held = {} => o = Focus!get_focus_rvgpu_json_obj(pre_pointer_pos)
  <2> SUFFICES ASSUME held = {} PROVE o = Focus!get_focus_rvgpu_json_obj(pre_pointer_pos)
    OBVIOUS
  <2>1. ~focus /\ button_states = held
    BY <1>a DEF ButtonsInv
  <2> QED BY <1>3, <2>1
<1>9. Backend = "wayland" => Focus!PressLands
  <2> SUFFICES ASSUME Backend = "wayland", held = {} PROVE Focus!PressLands
    BY DEF Focus!PressLands
  <2>1. PICK p : p = pointer /\ p = pre_pointer_pos
    BY <1>a, <1>2 DEF PointerInv
  <2>2. /\ s # Nobody => Focus!OnTop(s, p)
        /\ s = Nobody => \A r \in registered : ~Focus!OnTop(r, p)
    BY <1>a, <1>4, <1>8, <2>1, FoundOnTop
  <2>3. sent'.to = s
    BY <1>6
  <2> QED BY <2>1, <2>2, <2>3 DEF Focus!PressLands
<1>10. o # Nobody => \E i \in DOMAIN list : list[i].address = o
  <2>1. CASE held = {}
    <3>1. PICK p : p = pre_pointer_pos
      OBVIOUS
    <3>2. o = Focus!get_focus_rvgpu_json_obj(p)
      BY <1>8, <2>1, <3>1
    <3>3. \/ o = Nobody
          \/ \E i \in DOMAIN list : o = list[i].address
      BY <1>a, <3>2, FoundProperties
    <3> QED BY <3>3
  <2>2. CASE held # {}
    <3>1. focus
      BY <1>a, <2>2 DEF ButtonsInv
    <3>2. o = pointer_focused
      BY <1>3, <3>1
    <3> QED BY <1>a, <3>2 DEF FocusIn
  <2> QED BY <2>1, <2>2
<1>11. \A r \in Surfaces : told'[r] = IF r = s THEN t ELSE told[r]
  BY <1>a, <1>4, <1>5, <1>10, SendProperties
<1>12. \A r \in Surfaces : told'[r].fingers = told[r].fingers
  <2> TAKE r \in Surfaces
  <2>1. CASE r = s
    <3>1. PICK u : u = Focus!Told(o)
      OBVIOUS
    <3>2. u = [fingers |-> u.fingers, olds |-> u.olds, buttons |-> u.buttons] /\ u = told[r]
      BY <1>a, <1>4, <1>10, <2>1, <3>1, ToldProperties
    <3>3. t.fingers = u.fingers
      BY <1>5, <3>1, <3>2
    <3> QED BY <1>11, <2>1, <3>2, <3>3
  <2>2. CASE r # s
    BY <1>11, <2>2
  <2> QED BY <2>1, <2>2
<1>13. CASE held # {}
  <2>1. Focus!HiddenGetsNothing
    BY <1>12, <1>13, NothingGiven
  <2> QED BY <1>7, <1>9, <2>1
<1>14. CASE held = {}
  <2>1. \A r \in Surfaces : r # s => told'[r].buttons = {}
    BY <1>a, <1>11, <1>14 DEF ButtonsInv
  <2>2. s # Nobody => \E i \in DOMAIN list : list[i].surface = s /\ (UseLayout => list[i].visible)
    <3>1. PICK p : p = pre_pointer_pos
      OBVIOUS
    <3>2. o = Focus!get_focus_rvgpu_json_obj(p)
      BY <1>8, <1>14, <3>1
    <3> QED BY <1>a, <1>4, <3>2, FoundOnTop
  <2>3. Nobody \notin Surfaces
    BY FocusAssumption DEF Focus!ConstantsAssumption
  <2>4. ASSUME NEW r \in Surfaces,
               \/ Focus!Cardinality(told'[r].fingers) > Focus!Cardinality(told[r].fingers)
               \/ told'[r].buttons # {} /\ held = {}
        PROVE  \E i \in DOMAIN list : list[i].surface = r /\ (UseLayout => list[i].visible)
    <3>1. IsFiniteSet(told[r].fingers)
      BY DEF FocusInv, TouchesInv
    <3>2. ~(Focus!Cardinality(told'[r].fingers) > Focus!Cardinality(told[r].fingers))
      <4>1. PICK S : S = told[r].fingers
        OBVIOUS
      <4> QED BY <1>12, <3>1, <4>1, NotMore
    <3>3. r = s
      BY <2>1, <2>4, <3>2
    <3> QED BY <2>2, <2>3, <3>3
  <2>5. Focus!HiddenGetsNothing
    BY <2>4 DEF Focus!HiddenGetsNothing
  <2> QED BY <1>7, <1>9, <2>5
<1> QED BY <1>13, <1>14

\* A touch begins in a visible window; the other events give none.
LEMMA TouchRight ==
  ASSUME FocusInv, Focus!Touch
  PROVE  Focus!HoverLands /\ Focus!PressLands /\ Focus!HiddenGetsNothing
<1>a. Focus!TypeOK /\ FocusIn /\ ButtonsInv /\ TouchesInv /\ SurfacesInv
  BY DEF FocusInv
<1>b. Focus!PressLands
  BY NoPress DEF Focus!Touch
<1>c. \A o : o = touch_focused => (o # Nobody => \E i \in DOMAIN list : list[i].address = o)
  BY <1>a DEF FocusIn
<1>1. ASSUME NEW f \in Fingers \ fingers, NEW p \in Positions, Focus!TouchBegins(f, p)
      PROVE  Focus!HoverLands /\ Focus!HiddenGetsNothing
  <2>1. PICK o : o = Focus!get_focus_rvgpu_json_obj(p)
    OBVIOUS
  <2>2. PICK s : s = Focus!get_rvgpu_client_fd(o)
    OBVIOUS
  <2>3. PICK t : Focus!send_event(o, "down", t) /\ t = Focus!Down(Focus!Told(o), f)
    BY <1>1, <2>1 DEF Focus!TouchBegins, Focus!touch_down_cb
  <2>4. sent' = [event |-> "down", to |-> s]
    BY <2>2, <2>3 DEF Focus!send_event
  <2>5. Focus!HoverLands
    <3>1. sent'.event = "down"
      BY <2>4
    <3> QED BY <3>1, NoHover
  <2>6. o # Nobody => \E i \in DOMAIN list : list[i].address = o
    <3>1. \/ o = Nobody
          \/ \E i \in DOMAIN list : o = list[i].address
      BY <1>a, <2>1, FoundProperties
    <3> QED BY <3>1
  <2>7. \A r \in Surfaces : r # s => told'[r] = told[r]
    BY <1>a, <2>2, <2>3, <2>6, SendProperties
  <2>8. s # Nobody => \E i \in DOMAIN list : list[i].surface = s /\ (UseLayout => list[i].visible)
    BY <1>a, <2>1, <2>2, FoundOnTop
  <2>9. Nobody \notin Surfaces
    BY FocusAssumption DEF Focus!ConstantsAssumption
  <2>10. ASSUME NEW r \in Surfaces, r # s
         PROVE  /\ ~(Focus!Cardinality(told'[r].fingers) > Focus!Cardinality(told[r].fingers))
                /\ ~(told'[r].buttons # {} /\ held = {})
    <3>1. IsFiniteSet(told[r].fingers)
      BY <1>a DEF TouchesInv
    <3>2. ~(Focus!Cardinality(told'[r].fingers) > Focus!Cardinality(told[r].fingers))
      <4>1. PICK S : S = told[r].fingers
        OBVIOUS
      <4> QED BY <2>7, <2>10, <3>1, <4>1, NotMore
    <3> QED BY <1>a, <2>7, <2>10, <3>2 DEF ButtonsInv
  <2>11. Focus!HiddenGetsNothing
    BY <2>8, <2>9, <2>10 DEF Focus!HiddenGetsNothing
  <2> QED BY <2>5, <2>11
<1>2. ASSUME NEW f \in fingers, Focus!TouchEnds(f)
      PROVE  Focus!HoverLands /\ Focus!HiddenGetsNothing
  <2>1. CASE touch_focused = Nobody
    <3>1. sent' = Nobody /\ told' = told
      BY <1>2, <2>1 DEF Focus!TouchEnds, Focus!touch_up_cb
    <3> QED BY <3>1, NoHover, NothingTold
  <2>2. CASE touch_focused # Nobody
    <3>1. PICK o : o = touch_focused
      OBVIOUS
    <3>2. PICK s : s = Focus!get_rvgpu_client_fd(o)
      OBVIOUS
    <3>3. PICK t : Focus!send_event(o, "up", t) /\ t = Focus!Up(Focus!Told(o), f)
      BY <1>2, <2>2, <3>1 DEF Focus!TouchEnds, Focus!touch_up_cb
    <3>4. sent' = [event |-> "up", to |-> s]
      BY <3>2, <3>3 DEF Focus!send_event
    <3>5. Focus!HoverLands
      <4>1. sent'.event = "up"
        BY <3>4
      <4> QED BY <4>1, NoHover
    <3>6. \A r \in Surfaces : told'[r] = IF r = s THEN t ELSE told[r]
      BY <1>a, <1>c, <3>1, <3>2, <3>3, SendProperties
    <3>7. \A r \in Surfaces : told'[r].fingers \subseteq told[r].fingers /\ told'[r].buttons = told[r].buttons
      <4> TAKE r \in Surfaces
      <4>1. CASE r = s
        <5>1. PICK u : u = Focus!Told(o)
          OBVIOUS
        <5>2. u = told[r]
          BY <1>a, <1>c, <3>1, <3>2, <4>1, <5>1, ToldProperties
        <5>3. t = [fingers |-> u.fingers \ {f}, olds |-> u.fingers \ {f}, buttons |-> u.buttons]
          BY <1>a, <1>c, <3>1, <3>3, <5>1, TouchesTold
        <5>4. t.fingers = u.fingers \ {f} /\ t.buttons = u.buttons
          BY <5>3
        <5> QED BY <3>6, <4>1, <5>2, <5>4
      <4>2. CASE r # s
        BY <3>6, <4>2
      <4> QED BY <4>1, <4>2
    <3>8. Focus!HiddenGetsNothing
      BY <1>a, <3>7, NothingGiven DEF ButtonsInv
    <3> QED BY <3>5, <3>8
  <2> QED BY <2>1, <2>2
<1>3. ASSUME Focus!touch_motion_cb, UNCHANGED << fingers, strayed >>
      PROVE  Focus!HoverLands /\ Focus!HiddenGetsNothing
  <2>1. told' = told
    BY <1>3, TouchMotionStep DEF Focus!Touch
  <2>2. sent'.event = "touch motion"
    BY <1>3 DEF Focus!touch_motion_cb, Focus!send_plain, Focus!send_event
  <2> QED BY <2>1, <2>2, NoHover, NothingTold
<1>6. ASSUME Focus!touch_frame_cb, UNCHANGED << fingers, strayed >>
      PROVE  Focus!HoverLands /\ Focus!HiddenGetsNothing
  <2>1. /\ sent'.event = "touch frame"
        /\ \A r \in Surfaces : told'[r].fingers = told[r].fingers /\ told'[r].buttons = told[r].buttons
    BY <1>6, FrameStep DEF Focus!Touch
  <2>2. Focus!HiddenGetsNothing
    BY <1>a, <2>1, NothingGiven DEF ButtonsInv
  <2> QED BY <2>1, <2>2, NoHover
<1>4. ASSUME Focus!TouchesCancelled
      PROVE  Focus!HoverLands /\ Focus!HiddenGetsNothing
  <2>1. PICK o : o = touch_focused
    OBVIOUS
  <2>2. PICK s : s = Focus!get_rvgpu_client_fd(o)
    OBVIOUS
  <2>3. PICK t : Focus!send_event(o, "cancel", t) /\ t = Focus!Cancel(Focus!Told(o))
    BY <1>4, <2>1 DEF Focus!TouchesCancelled, Focus!touch_cancel_cb
  <2>4. sent'.event = "cancel"
    BY <2>2, <2>3 DEF Focus!send_event
  <2>5. \A r \in Surfaces : told'[r] = IF r = s THEN t ELSE told[r]
    BY <1>a, <1>c, <2>1, <2>2, <2>3, SendProperties
  <2>6. \A r \in Surfaces : told'[r].fingers \subseteq told[r].fingers /\ told'[r].buttons = told[r].buttons
    <3> TAKE r \in Surfaces
    <3>1. CASE r = s
      <4>1. PICK u : u = Focus!Told(o)
        OBVIOUS
      <4>2. u = told[r] /\ u.olds \subseteq u.fingers
        BY <1>a, <1>c, <2>1, <2>2, <3>1, <4>1, ToldProperties DEF TouchesInv
      <4>3. t = [fingers |-> u.olds, olds |-> u.olds, buttons |-> u.buttons]
        BY <1>a, <1>c, <2>1, <2>3, <4>1, TouchesTold
      <4>4. t.fingers = u.olds /\ t.buttons = u.buttons
        BY <4>3
      <4> QED BY <2>5, <3>1, <4>2, <4>4
    <3>2. CASE r # s
      BY <2>5, <3>2
    <3> QED BY <3>1, <3>2
  <2>7. Focus!HiddenGetsNothing
    BY <1>a, <2>6, NothingGiven DEF ButtonsInv
  <2> QED BY <2>4, <2>7, NoHover
<1>5. Focus!HoverLands /\ Focus!HiddenGetsNothing
  BY <1>1, <1>2, <1>3, <1>4, <1>6 DEF Focus!Touch
<1> QED BY <1>b, <1>5

\* Keys go where the focus is: nothing is promised of them.
LEMMA KeyRight ==
  ASSUME FocusInv, Focus!Key
  PROVE  Focus!HoverLands /\ Focus!PressLands /\ Focus!HiddenGetsNothing
<1>1. told' = told /\ UNCHANGED held
  BY KeyStep DEF Focus!Key
<1>2. sent'.event = "key"
  BY DEF Focus!Key, Focus!keyboard_cb, Focus!send_plain, Focus!send_event
<1> QED BY <1>1, <1>2, NoHover, NoPress, NothingTold

\* The lists change without an event.
LEMMA ListRight ==
  ASSUME FocusInv, Focus!EditLayout \/ \E s \in Surfaces : Focus!Register(s) \/ Focus!Unregister(s)
  PROVE  Focus!HoverLands /\ Focus!PressLands /\ Focus!HiddenGetsNothing
<1>1. sent' = sent /\ held' = held
  BY DEF Focus!EditLayout, Focus!Register, Focus!Unregister
<1>2. \A r \in Surfaces : told'[r] = told[r] \/ (told'[r].fingers = {} /\ told'[r].buttons = {})
  <2>1. CASE told' = told
    BY <2>1
  <2>2. CASE \E s \in Surfaces : told' = [told EXCEPT ![s] = Focus!Nothing]
    BY <2>2 DEF FocusInv, Focus!TypeOK, Focus!Nothing
  <2> QED BY <2>1, <2>2 DEF Focus!EditLayout, Focus!Register, Focus!Unregister
<1>3. Focus!HiddenGetsNothing
  BY <1>2, NothingGiven DEF FocusInv, ButtonsInv
<1> QED BY <1>1, <1>3, NoHover, NoPress

\* Presses, motions and scrolls reach the visible window on top or the one that
\* has the grab, and hidden windows get no touch and no press: RightSurface.
THEOREM RightCorrect == Focus!Spec => RightSurface
<1> DEFINE Right == /\ Backend = "wayland" => Focus!PressLands /\ Focus!HoverLands
                    /\ Focus!HiddenGetsNothing
<1>1. FocusInv /\ [Focus!Next]_(Focus!vars) => [Right]_(Focus!vars)
  <2> SUFFICES ASSUME FocusInv, Focus!Next PROVE Right
    OBVIOUS
  <2>1. CASE Focus!WaylandEvent
    BY <2>1, WlPointerRight, ButtonRight, KeyRight, TouchRight DEF Focus!WaylandEvent
  <2>2. CASE Focus!rvgpu_gbm_input
    <3>1. Backend # "wayland"
      BY <2>2 DEF Focus!rvgpu_gbm_input
    <3>2. CASE Focus!GbmPointer
      BY <2>2, <3>1, <3>2, GbmPointerStep, NothingTold DEF Focus!rvgpu_gbm_input
    <3> QED BY <2>2, <3>1, <3>2, ButtonRight, KeyRight, TouchRight DEF Focus!rvgpu_gbm_input
  <2>3. CASE Focus!EditLayout \/ \E s \in Surfaces : Focus!Register(s) \/ Focus!Unregister(s)
    BY <2>3, ListRight
  <2> QED BY <2>1, <2>2, <2>3 DEF Focus!Next
<1>2. FocusInv /\ [Focus!Next]_(Focus!vars) => FocusInv'
  BY FocusStep
<1> QED BY <1>1, <1>2, FocusInit, PTL DEF Focus!Spec, RightSurface
==============================================================================

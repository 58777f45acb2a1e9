----------------------------- MODULE TouchSlots -----------------------------
(***************************************************************************)
(* Touch events on their way from the screens of several renderers to the  *)
(* one touch screen of the guest, in the slots of the Linux multi-touch    *)
(* protocol B.                                                             *)
(*                                                                         *)
(*   render process   rvgpu_in_add_slot/move_slot/remove_slot/send/clear:  *)
(*                    gives every touch a slot of this source, collects    *)
(*                    events until the end of the frame                    *)
(*   proxy            input_device_serve, touch_translate, get_slot: gives *)
(*                    every (source, slot) pair a slot of the guest        *)
(*   guest            external: the kernel's reading of MT_SLOT and        *)
(*                    MT_TRACKING_ID                                       *)
(*                                                                         *)
(* A position is one event, and every motion changes it.  The window id is *)
(* always 0 at this commit, so ABS_MISC is never sent; BTN_TOUCH and SYN   *)
(* pass through unchanged and are left out.  Every event carries the touch *)
(* it is about, for the properties only.                                   *)
(***************************************************************************)
EXTENDS Integers, Sequences, FiniteSets

CONSTANTS
  Srcs,      \* renderers: index of the host in the proxy
  Ids,       \* touch ids of the window system
  MaxSlots,  \* slots of a render process (16)
  MaxGuest,  \* slots of the guest device, TOUCH_MAX_SLOTS (64)
  MaxInputs  \* bound: touch events of the window systems

NoId == -1

ASSUME SrcsAssumption  == Srcs # {} /\ Srcs \subseteq Nat /\ IsFiniteSet(Srcs)
ASSUME IdsAssumption   == Ids \subseteq Nat
ASSUME SlotsAssumption == MaxSlots \in Nat \ {0} /\ MaxGuest \in Nat \ {0}
ASSUME BoundAssumption == MaxInputs \in Nat

VARIABLES
  inputs,   \* touch events of the window systems so far
  input,    \* struct rvgpu_input_state of each render process
  net,      \* packets between a render process and the proxy
  packet,   \* the packet the proxy translates: [src, events]
  slots,    \* g->slots: the (src, slot) pair that has each guest slot
  srcSlot,  \* g->src_slots
  curSlot,  \* g->slot
  aborted,  \* the assertion of get_slot failed
  gSlot,    \* guest: slot of the last MT_SLOT event
  guest,    \* guest: the touch that holds each slot
  position  \* guest: the touch of the last position event in each slot

proxyVars == << slots, srcSlot, curSlot, aborted >>
guestVars == << gSlot, guest, position >>
vars == << inputs, input, net, packet, proxyVars, guestVars >>

SrcSlots   == 0 .. MaxSlots - 1
GuestSlots == 0 .. MaxGuest - 1
Touches    == Srcs \X Ids
None       == << >>
Free       == << >>

Ev(code, val, id) == [code |-> code, val |-> val, id |-> id]
Events == { Ev("slot", k, i) : k \in SrcSlots, i \in Ids }
          \cup { Ev(c, v, i) : c \in {"track", "pos"}, v \in {-1, 0}, i \in Ids }

TypeRender ==
  /\ inputs \in 0 .. MaxInputs
  /\ input \in [Srcs -> [slots : [SrcSlots -> Ids \cup {NoId}], last : SrcSlots,
                         olds  : [SrcSlots -> Ids \cup {NoId}], old  : SrcSlots,
                         queue : Seq(Events)]]
  /\ net \in [Srcs -> Seq(Seq(Events))]
  /\ packet.src \in Srcs /\ packet.events \in Seq(Events)

TypeProxy ==
  /\ slots \in [GuestSlots -> (Srcs \X SrcSlots) \cup {Free}]
  /\ srcSlot \in [Srcs -> SrcSlots]
  /\ curSlot \in GuestSlots
  /\ aborted \in BOOLEAN

TypeGuest ==
  /\ gSlot \in GuestSlots
  /\ guest \in [GuestSlots -> Touches \cup {None}]
  /\ position \in [GuestSlots -> Touches \cup {None}]

TypeOK == TypeRender /\ TypeProxy /\ TypeGuest

Init ==
  /\ inputs = 0
  /\ input = [s \in Srcs |-> [slots |-> [k \in SrcSlots |-> NoId], last |-> 0,
                              olds  |-> [k \in SrcSlots |-> NoId], old  |-> 0,
                              queue |-> << >>]]
  /\ net = [s \in Srcs |-> << >>]
  /\ packet = [src |-> CHOOSE s \in Srcs : TRUE, events |-> << >>]
  /\ slots = [k \in GuestSlots |-> Free]
  /\ srcSlot = [s \in Srcs |-> 0]
  /\ curSlot = 0 /\ aborted = FALSE
  /\ gSlot = 0
  /\ guest = [k \in GuestSlots |-> None]
  /\ position = [k \in GuestSlots |-> None]

(***************************************************************************)
(* The render process.                                                     *)
(***************************************************************************)

Holders(in, id) == { k \in SrcSlots : in.slots[k] = id }
First(S) == CHOOSE k \in S : \A j \in S : k <= j

(* An MT_SLOT event, unless the last one named the same slot.               *)
MoveTo(in, k, id) ==
  IF in.last = k THEN in
  ELSE [in EXCEPT !.queue = Append(@, Ev("slot", k, id)), !.last = k]

remove_slot(in, id) ==
  LET k == First(Holders(in, id)) IN
  IF Holders(in, id) = {} THEN in
  ELSE [MoveTo(in, k, id) EXCEPT !.queue = Append(@, Ev("track", -1, id)),
                                 !.slots[k] = NoId]

(* A touch that is still there under the same id is removed first; without  *)
(* a free slot the touch is forgotten.                                      *)
add_slot(in, id) ==
  LET r == remove_slot(in, id)
      k == First(Holders(r, NoId))
  IN IF Holders(r, NoId) = {} THEN r
     ELSE [r EXCEPT !.slots[k] = id, !.last = k,
                    !.queue = @ \o << Ev("slot", k, id), Ev("track", 0, id) >>]

move_slot(in, id) ==
  LET k == First(Holders(in, id)) IN
  IF Holders(in, id) = {} THEN in
  ELSE [MoveTo(in, k, id) EXCEPT !.queue = Append(@, Ev("pos", 0, id))]

Sent(in) == [in EXCEPT !.queue = << >>, !.olds = in.slots, !.old = in.last]

Cleared(in) == [in EXCEPT !.queue = << >>, !.slots = in.olds, !.last = in.old]

Send(s, in) ==
  /\ input' = [input EXCEPT ![s] = Sent(in)]
  /\ net' = IF in.queue = << >> THEN net
            ELSE [net EXCEPT ![s] = Append(@, in.queue)]

Input(s) ==
  /\ inputs < MaxInputs
  /\ inputs' = inputs + 1
  /\ UNCHANGED << packet, proxyVars, guestVars >>

Down(s, id) ==
  /\ Input(s)
  /\ input' = [input EXCEPT ![s] = move_slot(add_slot(@, id), id)]
  /\ UNCHANGED net

Motion(s, id) ==
  /\ Input(s)
  /\ input' = [input EXCEPT ![s] = move_slot(@, id)]
  /\ UNCHANGED net

\* Mutant: the end of a touch waits for the frame.
Up_Queued(s, id) ==
  /\ Input(s)
  /\ input' = [input EXCEPT ![s].slots = remove_slot(input[s], id).slots,
                            ![s].olds  = remove_slot(input[s], id).slots]
  /\ UNCHANGED net

(* The end of a touch is sent at once, with everything that waited.         *)
Up(s, id) == Input(s) /\ Send(s, remove_slot(input[s], id))

Frame(s) == Input(s) /\ Send(s, input[s])

(* The window system took the touches for a gesture of its own: what was    *)
(* not sent is dropped, touches that were sent stay.                        *)
Cancel(s) ==
  /\ Input(s)
  /\ input' = [input EXCEPT ![s] = Cleared(@)]
  /\ UNCHANGED net

(***************************************************************************)
(* The proxy, one packet after the other.                                  *)
(***************************************************************************)

Read(s) ==
  /\ packet.events = << >> /\ net[s] # << >> /\ ~aborted
  /\ packet' = [src |-> s, events |-> Head(net[s])]
  /\ net' = [net EXCEPT ![s] = Tail(@)]
  /\ UNCHANGED << inputs, input, proxyVars, guestVars >>

\* Mutant: a new slot for every event.
Usable_New(s, k) == { j \in GuestSlots : slots[j] = Free }

\* Mutant: looks for the slot without the source.
Usable_AnySource(s, k) ==
  LET mine == { j \in GuestSlots : slots[j] # Free /\ slots[j][2] = k }
  IN IF mine # {} THEN mine ELSE { j \in GuestSlots : slots[j] = Free }

(* get_slot takes the first of these: the slot of the pair, or a free one.  *)
Usable(s, k) ==
  LET mine == { j \in GuestSlots : slots[j] = << s, k >> }
  IN IF mine # {} THEN mine ELSE { j \in GuestSlots : slots[j] = Free }

(* What the guest makes of the events written for one event ev of touch t:  *)
(* MT_SLOT and then ev itself.                                              *)
Guest(ev, slot, t) ==
  /\ gSlot' = slot
  /\ guest' = IF ev.code # "track" THEN guest
              ELSE [guest EXCEPT ![slot] = IF ev.val = -1 THEN None ELSE t]
  /\ position' = CASE ev.code = "track" -> [position EXCEPT ![slot] = None]
                   [] ev.code = "pos"   -> [position EXCEPT ![slot] = t]
                   [] OTHER             -> position

\* Mutant: takes every event in the current slot for an MT_SLOT event.
GuestSlot_AnyCode(ev, slot) == IF slot # curSlot THEN slot ELSE ev.val

(* The slot number that reaches the guest with ev.  A new slot is written   *)
(* into the MT_SLOT event or inserted before another event; but an MT_SLOT  *)
(* event whose guest slot is the current one keeps the number it has in the *)
(* source.                                                                  *)
GuestSlot(ev, slot) ==
  IF slot # curSlot THEN slot
  ELSE IF ev.code = "slot" THEN ev.val ELSE gSlot

Taken(ev, s, k, slot) ==
  [slots EXCEPT ![slot] = IF ev.code = "track" /\ ev.val = -1 THEN Free
                          ELSE << s, k >>]

(* touch_translate for the next event of the packet.                        *)
Translate ==
  /\ packet.events # << >> /\ ~aborted
  /\ LET ev   == Head(packet.events)
         s    == packet.src
         k    == IF ev.code = "slot" THEN ev.val ELSE srcSlot[s]
         slot == First(Usable(s, k))
     IN IF Usable(s, k) # {}
        THEN /\ srcSlot' = [srcSlot EXCEPT ![s] = k]
             /\ slots' = Taken(ev, s, k, slot)
             /\ curSlot' = slot
             /\ Guest(ev, GuestSlot(ev, slot), << s, ev.id >>)
             /\ packet' = [packet EXCEPT !.events = Tail(@)]
             /\ UNCHANGED aborted
        ELSE /\ aborted' = TRUE
             /\ UNCHANGED << packet, slots, srcSlot, curSlot, guestVars >>
  /\ UNCHANGED << inputs, input, net >>

Next ==
  \/ \E s \in Srcs, id \in Ids : Down(s, id) \/ Motion(s, id) \/ Up(s, id)
  \/ \E s \in Srcs : Frame(s) \/ Cancel(s) \/ Read(s)
  \/ Translate

Spec == Init /\ [][Next]_vars

(***************************************************************************)
(* Properties.                                                             *)
(***************************************************************************)

(* All packets of source s were translated.                                 *)
Settled(s) == net[s] = << >> /\ ~(packet.src = s /\ packet.events # << >>)

(* The guest has exactly the touches that the render process believes to    *)
(* have sent (olds), whatever frames were cancelled or ids used again.      *)
GuestFollows ==
  \A s \in Srcs : Settled(s) =>
    { guest[k] : k \in GuestSlots } \cap ({s} \X Ids)
      = { << s, input[s].olds[k] >> : k \in SrcSlots } \cap ({s} \X Ids)

(* A position arrives in the slot of its own touch: no event is taken for   *)
(* another finger's.  It fails with two sources, whose slot numbers are     *)
(* mixed up by touch_translate.                                             *)
PositionsLand ==
  \A k \in GuestSlots : position[k] \in {None, guest[k]}

(* Together: a finger of the user is a finger of the guest, and moves it.   *)
TouchesFollow == GuestFollows /\ PositionsLand

(* A (source, slot) pair has at most one slot of the guest, and the table   *)
(* holds no pair without a touch, except while its packet is translated.    *)
TableExact ==
  /\ \A j, k \in GuestSlots : slots[j] = slots[k] /\ slots[j] # Free => j = k
  /\ \A s \in Srcs : Settled(s) =>
       { slots[k] : k \in GuestSlots } \cap ({s} \X SrcSlots)
         = { << s, k >> : k \in { j \in SrcSlots : input[s].olds[j] # NoId } }

(* get_slot's assertion holds as long as the sources have no more slots     *)
(* together than the guest device.                                          *)
TableSuffices == Cardinality(Srcs) * MaxSlots <= MaxGuest => ~aborted

(* Together: what get_slot and touch_translate make of g->slots.            *)
TableSound == TableExact /\ TableSuffices
=============================================================================

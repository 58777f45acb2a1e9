------------------------------ MODULE SwapSync ------------------------------
(***************************************************************************)
(* The buffers one render process shares with the compositor.              *)
(*                                                                         *)
(*   rvgpu_egl_draw        draws frames into a ring of buffers; makes one  *)
(*                         anew when the size has changed, waits (vsync)   *)
(*                         for its composit_status, fills it, sends DRAW   *)
(*   request_event_loop    makes buffers, in hardware if it can; takes a   *)
(*                         DRAW to the compositor, with a copy of the      *)
(*                         picture unless the buffer is a hardware buffer  *)
(*                         the compositor reads itself                     *)
(*   compositor_render     takes requests until none is left, acknowledges *)
(*                         skipped frames, composes, swaps, acknowledges   *)
(*   swap_completed_loop   resets composit_status                          *)
(*                                                                         *)
(* A picture is the number of its frame; 0 is one that is not complete.    *)
(***************************************************************************)
EXTENDS Integers, Sequences, SequencesExt, FiniteSets

CONSTANTS
  Buffers,    \* plane_buffer_count
  Hardware,   \* hardware_buffer_enabled: is a hardware buffer tried first?
  Vsync,      \* option -v of the renderer
  Sizes,      \* sizes the window may have
  MaxFrames,  \* bound: frames that are drawn
  MaxOthers   \* bound: requests of other surfaces, and changes of layout

ASSUME BuffersAssumption == Buffers \in Nat \ {0}
ASSUME ModesAssumption   == Hardware \in BOOLEAN /\ Vsync \in BOOLEAN
ASSUME BoundsAssumption  == MaxFrames \in Nat /\ MaxOthers \in Nat
ASSUME SizesAssumption   == Sizes # {} /\ Sizes \subseteq Nat \ {0}

Index == 0 .. Buffers - 1
Frame == 0 .. MaxFrames

VARIABLES
  pc,       \* rvgpu_egl_draw: "idle", "create", "wait", "write" or "send"
  idx,      \* shared_buffer_fd_index
  size,     \* width and height of each buffer, 0 before it is made
  status,   \* composit_status
  drawn,    \* the last frame whose DRAW was sent
  control,  \* control socket: CREATE_BUFFER and DRAW
  picture,  \* what each shared buffer holds
  texture,  \* what the compositor's own texture of it holds
  images,   \* the buffers request_event_loop has an EGL image of
  hard,     \* buf_types: those that are hardware buffers
  lastCount, \* last_frame_count: "zero" before the first swap, "now" if it is
            \* egl->frame_count, "old" if it is not
  dropped,  \* those a DRAW was dropped of
  requests, \* pipe to compositor_render
  others,   \* requests of other surfaces so far
  cpc,      \* compositor_render: "poll", "skip", "draw" or "ack"
  woken,    \* event_num > 0
  surface,  \* its entry in rvgpu_surface_list: last DRAW, << >> before
  updated,  \* updated_indexes
  acks,     \* sync socket: lists of indexes
  shown     \* the picture of the last swap

renderVars == << pc, idx, size, status, drawn >>
makeVars   == << images, hard, lastCount, dropped >>
bufferVars == << picture, texture, makeVars >>
compVars   == << cpc, woken, surface, updated, shown >>
vars == << renderVars, control, bufferVars, requests, others, compVars, acks >>

Draws == [idx : Index, frame : Frame, direct : BOOLEAN]

TypeOK ==
  /\ pc \in {"idle", "create", "wait", "write", "send"}
  /\ idx \in Index /\ drawn \in Frame /\ shown \in Frame
  /\ size \in [Index -> Sizes \cup {0}] /\ status \in [Index -> {0, 1}]
  /\ \A m \in Range(control) : m.type \in {"CREATE", "DRAW"} /\ m.idx \in Index
  /\ picture \in [Index -> Frame] /\ texture \in [Index -> Frame]
  /\ hard \subseteq images /\ images \subseteq Index /\ dropped \subseteq Index
  /\ images # {} => Hardware
  /\ lastCount \in {"zero", "old", "now"}
  /\ Range(requests) \subseteq Draws \cup {<< >>} /\ others \in 0 .. MaxOthers
  /\ cpc \in {"poll", "skip", "draw", "ack"} /\ woken \in BOOLEAN
  /\ surface \in Draws \cup {<< >>} /\ Range(updated) \subseteq Index
  /\ \A a \in Range(acks) : Range(a) \subseteq Index

Init ==
  /\ pc = "idle" /\ idx = 0 /\ size = [b \in Index |-> 0]
  /\ status = [b \in Index |-> 0] /\ drawn = 0 /\ control = << >>
  /\ picture = [b \in Index |-> 0] /\ texture = [b \in Index |-> 0]
  /\ images = {} /\ hard = {} /\ lastCount = "zero" /\ dropped = {}
  /\ requests = << >> /\ others = 0
  /\ cpc = "poll" /\ woken = FALSE /\ surface = << >> /\ updated = << >>
  /\ acks = << >> /\ shown = 0

(***************************************************************************)
(* The render process.                                                     *)
(***************************************************************************)

(* A buffer of the wrong size, or that is missing, is made anew, before the *)
(* wait.                                                                   *)
Begin(s) ==
  /\ pc = "idle" /\ drawn < MaxFrames
  /\ size' = [size EXCEPT ![idx] = s]
  /\ IF size[idx] = s
     THEN pc' = "wait" /\ UNCHANGED control
     ELSE /\ pc' = "create"
          /\ control' = Append(control, [type |-> "CREATE", idx |-> idx])
  /\ UNCHANGED << idx, status, drawn, bufferVars, requests, others, compVars, acks >>

\* Mutant: does not wait for the buffer.
Wait_Never ==
  /\ pc = "wait"
  /\ picture' = [picture EXCEPT ![idx] = 0]
  /\ pc' = "write"
  /\ UNCHANGED << idx, size, status, drawn, control, texture, makeVars, requests,
                  others, compVars, acks >>

(* The wait ends, and drawing begins.                                      *)
Wait ==
  /\ pc = "wait" /\ (Vsync => status[idx] # 1)
  /\ picture' = [picture EXCEPT ![idx] = 0]
  /\ pc' = "write"
  /\ UNCHANGED << idx, size, status, drawn, control, texture, makeVars, requests,
                  others, compVars, acks >>

(* The frame is complete, or its fence failed and it is given up.          *)
Finish ==
  /\ pc = "write"
  /\ \/ pc' = "send" /\ picture' = [picture EXCEPT ![idx] = drawn + 1]
     \/ pc' = "idle" /\ UNCHANGED picture
  /\ UNCHANGED << idx, size, status, drawn, control, texture, makeVars, requests,
                  others, compVars, acks >>

\* Mutant: no wrap around.
NextIndex_Unbounded == idx + 1

NextIndex == (idx + 1) % Buffers

Send ==
  /\ pc = "send"
  /\ status' = [status EXCEPT ![idx] = 1]
  /\ drawn' = drawn + 1
  /\ control' = Append(control, [type |-> "DRAW", idx |-> idx, frame |-> drawn + 1])
  /\ idx' = NextIndex
  /\ pc' = "idle"
  /\ UNCHANGED << size, bufferVars, requests, others, compVars, acks >>

(* swap_completed_loop.                                                    *)
Acked ==
  /\ acks # << >>
  /\ status' = [b \in Index |-> IF b \in Range(Head(acks)) THEN 0 ELSE status[b]]
  /\ acks' = Tail(acks)
  /\ UNCHANGED << pc, idx, size, drawn, control, bufferVars, requests, others, compVars >>

(***************************************************************************)
(* The request thread.                                                     *)
(***************************************************************************)

(* A hardware buffer, or one in shared memory where that fails. The old     *)
(* buffer is destroyed, and what reads the buffer reads the new one; an EGL *)
(* image stays listed.                                                     *)
NewBuffer(b, hw) ==
  /\ picture' = [picture EXCEPT ![b] = 0]
  /\ images' = IF hw THEN images \cup {b} ELSE images
  /\ hard' = IF hw THEN hard \cup {b} ELSE hard \ {b}

(* The render process waits for the reply; without a buffer in it the frame *)
(* is given up, and the next one asks again.                               *)
Create ==
  /\ control # << >> /\ Head(control).type = "CREATE"
  /\ control' = Tail(control)
  /\ \E hw \in BOOLEAN : (hw => Hardware) /\ NewBuffer(Head(control).idx, hw)
  /\ \/ pc' = "wait" /\ UNCHANGED size
     \/ pc' = "idle" /\ size' = [size EXCEPT ![idx] = 0]
  /\ UNCHANGED << idx, status, drawn, texture, lastCount, dropped, requests, others,
                  compVars, acks >>

(* A list of more than one EGL image, which begins with buffer 0, is read   *)
(* in place; a single one, or a software buffer, is copied.                *)
Direct(b) == b \in hard /\ \E i \in images : i > 0
Single(b) == b \in hard /\ ~Direct(b)

Copied(b) == IF Direct(b) THEN texture ELSE [texture EXCEPT ![b] = picture[b]]

(* The single image is copied once for each frame of the compositor.       *)
Repeated(b) == Single(b) /\ lastCount = "now"

Forward ==
  /\ control # << >> /\ Head(control).type = "DRAW" /\ ~Repeated(Head(control).idx)
  /\ LET m == Head(control)
     IN /\ texture' = Copied(m.idx)
        /\ requests' = Append(requests, [idx |-> m.idx, frame |-> m.frame,
                                         direct |-> Direct(m.idx)])
        /\ lastCount' = IF Single(m.idx) /\ lastCount = "old" THEN "now" ELSE lastCount
  /\ control' = Tail(control)
  /\ UNCHANGED << renderVars, picture, images, hard, dropped, others, compVars, acks >>

(* A DRAW that would be copied again goes no further, and nobody is told.   *)
Drop ==
  /\ control # << >> /\ Head(control).type = "DRAW" /\ Repeated(Head(control).idx)
  /\ dropped' = dropped \cup {Head(control).idx}
  /\ control' = Tail(control)
  /\ UNCHANGED << renderVars, picture, texture, images, hard, lastCount, requests,
                  others, compVars, acks >>

(* Another surface draws, or the layout changes.                           *)
Other ==
  /\ others < MaxOthers
  /\ others' = others + 1
  /\ requests' = Append(requests, << >>)
  /\ UNCHANGED << renderVars, control, bufferVars, compVars, acks >>

(***************************************************************************)
(* compositor_render.                                                      *)
(***************************************************************************)

\* Mutant: a DRAW is not counted in event_num.
Receive_NotCounted ==
  /\ cpc = "poll" /\ requests # << >>
  /\ requests' = Tail(requests)
  /\ woken' = (woken \/ Head(requests) = << >>)
  /\ IF Head(requests) = << >>
     THEN UNCHANGED << surface, updated >>
     ELSE /\ surface' = Head(requests)
          /\ updated' = Append(updated, Head(requests).idx)
  /\ UNCHANGED << renderVars, control, bufferVars, others, cpc, shown, acks >>

Receive ==
  /\ cpc = "poll" /\ requests # << >>
  /\ requests' = Tail(requests)
  /\ woken' = TRUE
  /\ IF Head(requests) = << >>
     THEN UNCHANGED << surface, updated >>
     ELSE /\ surface' = Head(requests)
          /\ updated' = Append(updated, Head(requests).idx)
  /\ UNCHANGED << renderVars, control, bufferVars, others, cpc, shown, acks >>

Drained ==
  /\ cpc = "poll" /\ requests = << >> /\ woken
  /\ cpc' = "skip"
  /\ UNCHANGED << renderVars, control, bufferVars, requests, others, woken, surface,
                  updated, shown, acks >>

\* Mutant: acknowledges the frame that is to be shown, too.
Skipped_All == updated

\* Mutant: skipped frames are not acknowledged.
Skipped_None == << >>

Skipped == IF Len(updated) > 1 THEN Front(updated) ELSE << >>

Skip ==
  /\ cpc = "skip"
  /\ acks' = IF Skipped = << >> THEN acks ELSE Append(acks, Skipped)
  /\ updated' = IF Len(updated) > 1 THEN << Last(updated) >> ELSE updated
  /\ cpc' = "draw"
  /\ UNCHANGED << renderVars, control, bufferVars, requests, others, woken, surface, shown >>

Picture == IF surface.direct THEN picture[surface.idx] ELSE texture[surface.idx]

(* Composition and swap, which is counted.                                 *)
Compose ==
  /\ cpc = "draw"
  /\ shown' = IF surface = << >> THEN shown ELSE Picture
  /\ lastCount' = "old"
  /\ cpc' = "ack"
  /\ UNCHANGED << renderVars, control, picture, texture, images, hard, dropped, requests,
                  others, woken, surface, updated, acks >>

Acknowledge ==
  /\ cpc = "ack"
  /\ acks' = IF updated = << >> THEN acks ELSE Append(acks, updated)
  /\ updated' = << >>
  /\ cpc' = "poll" /\ woken' = FALSE
  /\ UNCHANGED << renderVars, control, bufferVars, requests, others, surface, shown >>

Render     == (\E s \in Sizes : Begin(s)) \/ Wait \/ Finish \/ Send
Request    == Create \/ Forward \/ Drop
Compositor == Receive \/ Drained \/ Skip \/ Compose \/ Acknowledge

Next == Render \/ Request \/ Acked \/ Compositor \/ Other

Spec == Init /\ [][Next]_vars

(* All threads run.  The render process need not draw.                     *)
FairSpec == Spec /\ WF_vars(Request) /\ WF_vars(Compositor) /\ WF_vars(Acked)

(***************************************************************************)
(* Properties.                                                             *)
(***************************************************************************)

Outstanding ==
  { m.idx : m \in { x \in Range(control) : x.type = "DRAW" } }
  \cup { m.idx : m \in Range(requests) \ {<< >>} }
  \cup Range(updated) \cup UNION { Range(a) : a \in Range(acks) }

(* "Wait for the server's response confirming swap completion": a buffer   *)
(* that is free has no DRAW and no acknowledgement under way, so that the  *)
(* acknowledgement of an earlier frame never releases a later one.         *)
FreeIsFree == \A b \in Index : status[b] = 0 => b \notin Outstanding

(* The frame a swap is to acknowledge is complete in its buffer when it is *)
(* composed: the render process neither draws to it nor replaces it.       *)
FreshIntact ==
  cpc = "draw" /\ updated # << >> => Picture = surface.frame

BuffersKept == FreeIsFree /\ FreshIntact

(* While nothing else wakes the compositor, what it shows never goes back. *)
ShownForward == [][shown' >= shown]_shown

(* Every frame's buffer is given back, skipped or not.  It fails when a     *)
(* DRAW is dropped, which takes a hardware buffer beside software buffers.  *)
Released == \A b \in Index : status[b] = 1 ~> status[b] = 0

(* A frame after which nothing is drawn is shown in the end: no path drops *)
(* the last DRAW.                                                          *)
LastShown == \A f \in 1 .. MaxFrames : <>[](drawn = f /\ pc = "idle") => <>(shown = f)

Service == INSTANCE FrameService WITH
  released <- drawn - Cardinality({ b \in Index : status[b] = 1 })

(* The ring implements FrameService.                                       *)
ServiceSpec == Service!Spec
=============================================================================

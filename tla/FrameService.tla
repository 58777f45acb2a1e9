---------------------------- MODULE FrameService ----------------------------
(***************************************************************************)
(* What the buffers between a render process and the compositor promise:   *)
(* frames are drawn one after the other, at most Buffers of them ahead of  *)
(* the last one given back; what is shown never goes back to an earlier    *)
(* frame; and a frame is given back, in the order of drawing, when it or a *)
(* later one is what the compositor shows or shows next.                   *)
(***************************************************************************)
EXTENDS Naturals

CONSTANT Buffers

VARIABLES drawn, shown, released

Init == drawn = 0 /\ shown = 0 /\ released = 0

Draw ==
  /\ drawn - released < Buffers
  /\ drawn' = drawn + 1
  /\ UNCHANGED << shown, released >>

Show ==
  /\ shown' \in shown .. drawn
  /\ UNCHANGED << drawn, released >>

Release ==
  /\ released' \in released + 1 .. drawn
  /\ released' = drawn => shown = drawn
  /\ UNCHANGED << drawn, shown >>

Next == Draw \/ Show \/ Release

Spec == Init /\ [][Next]_<< drawn, shown, released >>
=============================================================================

------------------------------ MODULE InputPath ------------------------------
(***************************************************************************)
(* Input from a user to a guest.  The backends of the compositor give it   *)
(* to a surface (Focus); the render process of the surface sends touches   *)
(* on to the slots of the guest's screen (TouchSlots itself).  The two     *)
(* have no state in common: what passes between them is an event.          *)
(***************************************************************************)
EXTENDS TouchSlots

CONSTANTS
  Surfaces, Fingers, Buttons, Positions, Mouse, Boxes, Objects, Nobody,
  UseLayout, Backend, TouchOutside, MaxCount                      \* InputFocus

VARIABLES
  list, registered, touch_focused, touch_down_count, pointer_focused, focus,
  button_states, keyboard_focused, pre_pointer_pos, pointer, fingers, held, told, sent,
  strayed

Focus == INSTANCE InputFocus WITH None <- Nobody

ASSUME FocusAssumption == Focus!ConstantsAssumption

(* Nobody is left with a finger or a button down, whatever moved, was       *)
(* hidden or raised meanwhile, and wherever the touch or the click began,   *)
(* but with touches from which the focus was taken, or that were cancelled; *)
(* one surface at a time has the buttons; and the focus of the touches ends *)
(* with them, unless one was outside or cancelled.                          *)
NoStuckInput ==
  /\ Focus!NoStuckButton /\ Focus!OneGrab /\ Focus!NoStuckTouch
  /\ ~TouchOutside => Focus!TouchFocusEnds

(* Presses, motions and scrolls reach the surface the user means: the       *)
(* visible one on top, or the one that has the grab; not with GBM, where a  *)
(* distance is taken for a position.  Hidden ones get no new touch either.  *)
RightSurface ==
  [][/\ Backend = "wayland" => Focus!PressLands /\ Focus!HoverLands
     /\ Focus!HiddenGetsNothing]_(Focus!vars)
==============================================================================

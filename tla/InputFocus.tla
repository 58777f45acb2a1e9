----------------------------- MODULE InputFocus -----------------------------
(***************************************************************************)
(* Which surface of the compositor gets an input event: the callbacks of   *)
(* rvgpu-input.c, called by the event thread of a backend (wayland, or     *)
(* libinput with GBM), and the search for the window at a position in      *)
(* rvgpu-compositor.c. The events go to the process that renders the       *)
(* surface.                                                                *)
(*                                                                         *)
(* list is what the search looks through, the top last: the windows of     *)
(* the layout, or without a layout the registered surfaces themselves.     *)
(* The focus variables are pointers into it. The code keeps them when an   *)
(* object is freed; the model covers the editors of the list that free no  *)
(* object that has a focus. A callback is one step; ClientLife has the     *)
(* steps of a client that leaves.                                          *)
(***************************************************************************)
EXTENDS Naturals, Sequences, FiniteSets

CONSTANTS
  Surfaces, Fingers, Buttons,
  Positions,     \* of touches, and
  Mouse,         \* of the pointer: none without a mouse
  Boxes,         \* the places of a window: [x, y, w, h]
  Objects,       \* the addresses of the objects of the list
  None,
  UseLayout,     \* getRvgpuFocus: get_focus_rvgpu_layout or get_focus_rvgpu
  Backend,       \* "wayland" or "gbm"
  TouchOutside,  \* touches begin outside of every window, or are cancelled
  MaxCount       \* bound: no touch begins at this count

ConstantsAssumption ==
  /\ UseLayout \in BOOLEAN /\ TouchOutside \in BOOLEAN /\ Backend \in {"wayland", "gbm"}
  /\ \A b \in Boxes : b \in [{"x", "y", "w", "h"} -> Nat]
  /\ Positions \subseteq Nat \X Nat /\ <<0, 0>> \in Positions /\ Mouse \subseteq Positions
  /\ None \notin Surfaces \cup Objects \cup Positions

VARIABLES
  list,        \* objects [address, surface, box, visible]
  registered,  \* the surfaces of rvgpu_surface_list
  touch_focused, touch_down_count,
  pointer_focused, focus, button_states,
  keyboard_focused,
  pre_pointer_pos,
  pointer, fingers, held,  \* the user's: where the pointer is, what is down
  told,        \* what the process of a surface has down: touches in its slots, those
               \* the guest knows of (olds), and buttons
  sent,        \* the last event: [event, to], None when it reached nobody
  strayed      \* history: touches <<surface, finger>> whose end goes elsewhere, since
               \* the focus has left the surface or they were cancelled

focusVars == <<touch_focused, touch_down_count, pointer_focused, focus, button_states,
               keyboard_focused, pre_pointer_pos>>
vars == <<list, registered, focusVars, pointer, fingers, held, told, sent, strayed>>

Object == [address : Objects, surface : Surfaces, box : Boxes, visible : BOOLEAN]
Nothing == [fingers |-> {}, olds |-> {}, buttons |-> {}]

TypeOK ==
  /\ list \in Seq(Object) /\ registered \subseteq Surfaces
  /\ \A i, j \in DOMAIN list : list[i].address = list[j].address => i = j
  /\ {touch_focused, pointer_focused, keyboard_focused} \subseteq Objects \cup {None}
  /\ touch_down_count \in Nat /\ focus \in BOOLEAN /\ button_states \subseteq Buttons
  /\ pre_pointer_pos \in Positions /\ pointer \in Positions \cup {None}
  /\ fingers \subseteq Fingers /\ held \subseteq Buttons
  /\ told \in [Surfaces -> [fingers : SUBSET Fingers, olds : SUBSET Fingers, buttons : SUBSET Buttons]]
  /\ strayed \subseteq Surfaces \X Fingers

Init ==
  /\ list = <<>> /\ registered = {}
  /\ touch_focused = None /\ pointer_focused = None /\ keyboard_focused = None
  /\ touch_down_count = 0 /\ focus = FALSE /\ button_states = {}
  /\ pre_pointer_pos = <<0, 0>>
  /\ pointer = None /\ fingers = {} /\ held = {}
  /\ told = [s \in Surfaces |-> Nothing] /\ sent = None /\ strayed = {}
-------------------------------------------------------------------------------
\* The search.

check_in_square(p, b) == /\ b.x <= p[1] /\ p[1] <= b.x + b.w
                         /\ b.y <= p[2] /\ p[2] <= b.y + b.h

The(o) == CHOOSE w \in {list[i] : i \in DOMAIN list} : w.address = o

check_in_rvgpu_surface(o, p) == check_in_square(p, The(o).box)

\* Mutant: a hidden window is found.
Found_Hidden(p) ==
  {i \in DOMAIN list : list[i].surface \in registered /\ check_in_square(p, list[i].box)}

Found(p) ==
  {i \in DOMAIN list : /\ UseLayout => list[i].visible /\ list[i].surface \in registered
                       /\ check_in_square(p, list[i].box)}

\* Mutant: the list is searched from its beginning.
get_focus_rvgpu_json_obj_Bottom(p) ==
  IF Found(p) = {} THEN None
  ELSE list[CHOOSE i \in Found(p) : \A j \in Found(p) : i <= j].address

\* get_focus_rvgpu_layout, get_focus_rvgpu: the last that is found.
get_focus_rvgpu_json_obj(p) ==
  IF Found(p) = {} THEN None
  ELSE list[CHOOSE i \in Found(p) : \A j \in Found(p) : i >= j].address

\* The surface behind the socket: None for -1.
get_rvgpu_client_fd(o) ==
  IF o = None \/ The(o).surface \notin registered THEN None ELSE The(o).surface

\* What the surface of an object was told.
Told(o) ==
  LET s == get_rvgpu_client_fd(o)
  IN IF s = None THEN Nothing ELSE told[s]

\* An event is sent, which leaves the process of the surface with t.
send_event(o, event, t) ==
  LET s == get_rvgpu_client_fd(o)
  IN /\ sent' = [event |-> event, to |-> s]
     /\ told' = IF s = None THEN told ELSE [told EXCEPT ![s] = t]

\* The event leaves them as they were.
send_plain(o, event) == send_event(o, event, Told(o))
-------------------------------------------------------------------------------
\* The callbacks, with what rvgpu_input_event_loop of the process does: a touch
\* that begins is queued for the next frame, one that ends is sent at once with
\* what is queued, and a cancel takes back what is queued and no more.

Down(t, f) == [t EXCEPT !.fingers = @ \cup {f}]
Up(t, f)   == [t EXCEPT !.fingers = @ \ {f}, !.olds = t.fingers \ {f}]
Frame(t)   == [t EXCEPT !.olds = t.fingers]
Cancel(t)  == [t EXCEPT !.fingers = t.olds]

touch_down_cb(f, p) ==
  LET o == get_focus_rvgpu_json_obj(p)
  IN /\ send_event(o, "down", Down(Told(o), f))
     /\ touch_focused' = o /\ keyboard_focused' = o
     /\ touch_down_count' = touch_down_count + 1
     /\ UNCHANGED <<pointer_focused, focus, button_states, pre_pointer_pos>>

\* Mutant: the focus goes with the first finger that is lifted.
touch_up_cb_First(f) ==
  /\ send_event(touch_focused, "up", Up(Told(touch_focused), f))
  /\ touch_down_count' = IF touch_focused = None THEN touch_down_count ELSE touch_down_count - 1
  /\ touch_focused' = None
  /\ UNCHANGED <<pointer_focused, keyboard_focused, focus, button_states, pre_pointer_pos>>

\* Mutant: the focus stays.
touch_up_cb_Kept(f) ==
  /\ send_event(touch_focused, "up", Up(Told(touch_focused), f))
  /\ touch_down_count' = IF touch_focused = None THEN touch_down_count ELSE touch_down_count - 1
  /\ UNCHANGED <<touch_focused, pointer_focused, keyboard_focused, focus, button_states, pre_pointer_pos>>

touch_up_cb(f) ==
  IF touch_focused = None
  THEN sent' = None /\ UNCHANGED <<focusVars, told>>
  ELSE /\ send_event(touch_focused, "up", Up(Told(touch_focused), f))
       /\ touch_down_count' = touch_down_count - 1
       /\ touch_focused' = IF touch_down_count' = 0 THEN None ELSE touch_focused
       /\ UNCHANGED <<pointer_focused, keyboard_focused, focus, button_states, pre_pointer_pos>>

touch_motion_cb == send_plain(touch_focused, "touch motion") /\ UNCHANGED focusVars

touch_frame_cb ==
  send_event(touch_focused, "touch frame", Frame(Told(touch_focused))) /\ UNCHANGED focusVars

touch_cancel_cb ==
  send_event(touch_focused, "cancel", Cancel(Told(touch_focused))) /\ UNCHANGED focusVars

\* Mutant: the grab sends every motion to the window under the pointer.
PointerTarget_Hover(p) == get_focus_rvgpu_json_obj(p)

\* With a button down only the window it was pressed in gets motions, and
\* only those within it.
PointerTarget(p) ==
  IF pointer_focused = None THEN get_focus_rvgpu_json_obj(p)
  ELSE IF check_in_rvgpu_surface(pointer_focused, p) THEN pointer_focused ELSE None

OtherThanPosition == <<touch_focused, touch_down_count, pointer_focused, focus, button_states, keyboard_focused>>

\* Mutant: the position of an enter event is not kept.
pointer_inout_cb_Unkept(p) ==
  /\ IF p = None THEN sent' = None /\ UNCHANGED told ELSE send_plain(PointerTarget(p), "enter")
  /\ UNCHANGED <<pre_pointer_pos, OtherThanPosition>>

pointer_inout_cb(p) ==
  /\ IF p = None
     THEN sent' = None /\ UNCHANGED <<told, pre_pointer_pos>>
     ELSE send_plain(PointerTarget(p), "enter") /\ pre_pointer_pos' = p
  /\ UNCHANGED OtherThanPosition

pointer_motion_cb(p) ==
  /\ send_plain(PointerTarget(p), "motion")
  /\ pre_pointer_pos' = p
  /\ UNCHANGED OtherThanPosition

\* Mutant: every press looks for the window under the pointer.
pointer_button_cb_EachPress(b, pressed) ==
  LET states == IF pressed THEN button_states \cup {b} ELSE button_states \ {b}
      o == IF pressed THEN get_focus_rvgpu_json_obj(pre_pointer_pos) ELSE pointer_focused
  IN /\ button_states' = states /\ keyboard_focused' = o
     /\ send_event(o, "button", [Told(o) EXCEPT !.buttons = IF pressed THEN @ \cup {b} ELSE @ \ {b}])
     /\ pointer_focused' = IF states = {} THEN None ELSE o
     /\ focus' = (states # {})
     /\ UNCHANGED <<touch_focused, touch_down_count, pre_pointer_pos>>

\* Mutant: the grab ends before the release is sent.
pointer_button_cb_Early(b, pressed) ==
  LET states == IF pressed THEN button_states \cup {b} ELSE button_states \ {b}
      first == ~focus /\ states # {}
      o == IF first THEN get_focus_rvgpu_json_obj(pre_pointer_pos) ELSE pointer_focused
  IN /\ button_states' = states
     /\ pointer_focused' = IF states = {} THEN None ELSE o
     /\ keyboard_focused' = IF first THEN o ELSE keyboard_focused
     /\ focus' = (states # {})
     /\ send_event(pointer_focused', "button",
          [Told(pointer_focused') EXCEPT !.buttons = IF pressed THEN @ \cup {b} ELSE @ \ {b}])
     /\ UNCHANGED <<touch_focused, touch_down_count, pre_pointer_pos>>

pointer_button_cb(b, pressed) ==
  LET states == IF pressed THEN button_states \cup {b} ELSE button_states \ {b}
      first == ~focus /\ states # {}
      o == IF first THEN get_focus_rvgpu_json_obj(pre_pointer_pos) ELSE pointer_focused
      ends == (focus \/ first) /\ states = {}
  IN /\ button_states' = states
     /\ keyboard_focused' = IF first THEN o ELSE keyboard_focused
     /\ send_event(o, "button", [Told(o) EXCEPT !.buttons = IF pressed THEN @ \cup {b} ELSE @ \ {b}])
     /\ pointer_focused' = IF ends THEN None ELSE o
     /\ focus' = ((focus \/ first) /\ ~ends)
     /\ UNCHANGED <<touch_focused, touch_down_count, pre_pointer_pos>>

pointer_axis_cb == send_plain(PointerTarget(pre_pointer_pos), "axis") /\ UNCHANGED focusVars

keyboard_cb == send_plain(keyboard_focused, "key") /\ UNCHANGED focusVars
-------------------------------------------------------------------------------
\* The handlers of the backends, and what the user does before.

\* Wayland keeps the pointer in the window while a button is held.
WlPointer ==
  /\ \/ \E p \in Mouse : pointer = None /\ pointer' = p /\ pointer_inout_cb(p)
     \/ pointer # None /\ held = {} /\ pointer' = None /\ pointer_inout_cb(None)
     \/ \E p \in Mouse : pointer # None /\ pointer' = p /\ pointer_motion_cb(p)
     \/ pointer # None /\ pointer_axis_cb /\ UNCHANGED pointer
  /\ UNCHANGED <<list, registered, fingers, held, strayed>>

\* A relative device reports a distance, which goes to the same callback as
\* the position of an absolute one.
GbmPointer ==
  /\ \/ \E p, by \in Mouse : pointer' = p /\ pointer_motion_cb(by)  \* pointer_handle_motion
     \/ \E p \in Mouse : pointer' = p /\ pointer_motion_cb(p)       \* pointer_handle_motion_abs
     \/ pointer_axis_cb /\ UNCHANGED pointer
  /\ UNCHANGED <<list, registered, fingers, held, strayed>>

Button ==
  /\ pointer # None
  /\ \E b \in Buttons : /\ pointer_button_cb(b, b \notin held)
                        /\ held' = IF b \in held THEN held \ {b} ELSE held \cup {b}
  /\ UNCHANGED <<list, registered, pointer, fingers, strayed>>

Key == keyboard_cb /\ UNCHANGED <<list, registered, pointer, fingers, held, strayed>>

\* What a surface that loses the focus of the touches has down.
Deserted(o) ==
  LET s == get_rvgpu_client_fd(touch_focused)
  IN IF s \in {None, get_rvgpu_client_fd(o)} THEN {} ELSE {s} \X told[s].fingers

TouchBegins(f, p) ==
  LET o == get_focus_rvgpu_json_obj(p)
  IN /\ touch_down_count < MaxCount
     /\ TouchOutside \/ o # None
     /\ fingers' = fingers \cup {f} /\ touch_down_cb(f, p)
     /\ strayed' = (strayed \cup Deserted(o)) \ {<<get_rvgpu_client_fd(o), f>>}

TouchEnds(f) ==
  /\ fingers' = fingers \ {f} /\ touch_up_cb(f)
  /\ strayed' = strayed \ {<<get_rvgpu_client_fd(touch_focused), f>>}

TouchesCancelled ==
  /\ TouchOutside /\ fingers # {}
  /\ fingers' = {} /\ touch_cancel_cb
  /\ strayed' = strayed \cup {get_rvgpu_client_fd(touch_focused)} \X Told(touch_focused).olds

Touch ==
  /\ \/ \E f \in Fingers \ fingers, p \in Positions : TouchBegins(f, p)
     \/ \E f \in fingers : TouchEnds(f)
     \/ (touch_motion_cb \/ touch_frame_cb) /\ UNCHANGED <<fingers, strayed>>
     \/ TouchesCancelled
  /\ UNCHANGED <<list, registered, pointer, held>>

WaylandEvent == Backend = "wayland" /\ (WlPointer \/ Button \/ Key \/ Touch)

rvgpu_gbm_input == Backend = "gbm" /\ (GbmPointer \/ Button \/ Key \/ Touch)
-------------------------------------------------------------------------------
\* The compositor and the layout thread change the lists.

Free == Objects \ ({list[i].address : i \in DOMAIN list} \cup {touch_focused, pointer_focused, keyboard_focused})
Kept(i) == list[i].address \notin {touch_focused, pointer_focused, keyboard_focused}
Without(i) == SubSeq(list, 1, i - 1) \o SubSeq(list, i + 1, Len(list))

EditLayout ==
  /\ UseLayout
  /\ \/ \E a \in Free, s \in Surfaces, b \in Boxes :
          list' = Append(list, [address |-> a, surface |-> s, box |-> b, visible |-> TRUE])
     \/ \E i \in DOMAIN list : Kept(i) /\ list' = Without(i)
     \/ \E i \in DOMAIN list, b \in Boxes, v \in BOOLEAN :
          list' = [list EXCEPT ![i].box = b, ![i].visible = v]
  /\ UNCHANGED <<registered, focusVars, pointer, fingers, held, told, sent, strayed>>

\* RVGPU_ADD_EVENT_ID, and the first DRAW, which has the size.
Register(s) ==
  /\ s \notin registered
  /\ registered' = registered \cup {s}
  /\ IF UseLayout THEN UNCHANGED list
     ELSE \E a \in Free, b \in Boxes :
            list' = Append(list, [address |-> a, surface |-> s, box |-> b, visible |-> TRUE])
  /\ UNCHANGED <<focusVars, pointer, fingers, held, told, sent, strayed>>

\* RVGPU_REMOVE_EVENT_ID. What the process was told goes with it.
Unregister(s) ==
  /\ s \in registered
  /\ registered' = registered \ {s}
  /\ told' = [told EXCEPT ![s] = Nothing]
  /\ strayed' = {t \in strayed : t[1] # s}
  /\ IF UseLayout THEN UNCHANGED list
     ELSE \E i \in DOMAIN list : list[i].surface = s /\ Kept(i) /\ list' = Without(i)
  /\ UNCHANGED <<focusVars, pointer, fingers, held, sent>>

Next ==
  \/ WaylandEvent \/ rvgpu_gbm_input \/ EditLayout
  \/ \E s \in Surfaces : Register(s) \/ Unregister(s)

Spec == Init /\ [][Next]_vars
-------------------------------------------------------------------------------
\* No button stays pressed for a surface: when the user holds none, every
\* surface that was told of a press was told of its release, whatever moved,
\* was hidden or raised while the button was down.
NoStuckButton == held = {} => \A s \in Surfaces : told[s].buttons = {}

\* One surface at a time has the buttons: presses of a drag never go to a
\* second one.
OneGrab == \A s, t \in Surfaces : told[s].buttons # {} /\ told[t].buttons # {} => s = t

\* No touch stays down for a surface when its finger is lifted, whatever moved,
\* was hidden or raised meanwhile, also after touches outside of every window
\* (which are counted but not uncounted); unless a finger in another window has
\* taken the focus, or the touches were cancelled after they were sent.
NoStuckTouch ==
  \A s \in Surfaces : \A f \in told[s].fingers \cup told[s].olds :
    f \in fingers \/ <<s, f>> \in strayed

\* The touch focus ends with the last finger. It does not once a touch was
\* outside or was cancelled: their count is never taken back.
TouchFocusEnds == fingers = {} => touch_focused = None

OnTop(s, p) ==
  \E i \in DOMAIN list :
    /\ list[i].surface = s /\ check_in_square(p, list[i].box)
    /\ UseLayout => list[i].visible
    /\ \A j \in DOMAIN list :
         j > i /\ list[j].surface \in registered /\ (UseLayout => list[j].visible)
           => ~check_in_square(p, list[j].box)

\* The first press of a button goes to the surface the user sees under the
\* pointer, also when the pointer has just come back at another place.
PressLands ==
  held = {} /\ held' # {} =>
    /\ sent'.to # None => OnTop(sent'.to, pointer)
    /\ sent'.to = None => \A s \in registered : ~OnTop(s, pointer)

\* Motions and scrolls reach the surface under the pointer; while a button is
\* held, no other than the one it was pressed in.
HoverLands ==
  sent' # sent /\ sent' # None =>
    (sent'.event \in {"enter", "motion", "axis"} /\ sent'.to # None =>
       IF held = {} THEN OnTop(sent'.to, pointer')
       ELSE pointer_focused # None => The(pointer_focused).surface = sent'.to)

\* A hidden window gets no touch and no press, only the end of those it has.
HiddenGetsNothing ==
  \A s \in Surfaces :
    Cardinality(told'[s].fingers) > Cardinality(told[s].fingers) \/ (told'[s].buttons # {} /\ held = {}) =>
      \E i \in DOMAIN list : list[i].surface = s /\ (UseLayout => list[i].visible)
=============================================================================

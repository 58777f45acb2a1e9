---- MODULE MCInput ----
(* Input on its way to a guest, part by part; a behaviour moves one of them:  *)
(*   one      TouchSlots itself, touches of one render process                *)
(*   many     TouchSlots with two, whose slots have the same numbers          *)
(*   pointer  InputFocus, a mouse over the windows of a layout                *)
(*   touch    InputFocus, touches of the windows of a layout, of two at once  *)
(*   beside   InputFocus, touches and clicks beside the surfaces, and cancels *)
EXTENDS InputPath, TLC
CONSTANTS Pair
VARIABLES which,
  m_inputs, m_input, m_net, m_packet, m_slots, m_srcSlot, m_curSlot, m_aborted,
  m_gSlot, m_guest, m_position,
  t_list, t_registered, t_touch_focused, t_touch_down_count, t_pointer_focused, t_focus,
  t_button_states, t_keyboard_focused, t_pre_pointer_pos, t_pointer, t_fingers, t_held,
  t_told, t_sent, t_strayed

Many == INSTANCE TouchSlots WITH
  Srcs <- {0, 1}, Ids <- {7, 8}, MaxSlots <- 2, MaxGuest <- 4, MaxInputs <- 6,
  inputs <- m_inputs, input <- m_input, net <- m_net, packet <- m_packet,
  slots <- m_slots, srcSlot <- m_srcSlot, curSlot <- m_curSlot, aborted <- m_aborted,
  gSlot <- m_gSlot, guest <- m_guest, position <- m_position

\* Two windows beside each other that share an edge: a place in one of them, on
\* the edge, and outside.
MCBoxes == {[x |-> 0, y |-> 0, w |-> 1, h |-> 1], [x |-> 1, y |-> 0, w |-> 1, h |-> 1]}
Inside == {<<0, 0>>, <<1, 1>>}
Anywhere == Inside \cup {<<3, 0>>}

Touch == INSTANCE InputFocus WITH
  Fingers <- Pair, Buttons <- {}, Positions <- Inside, Mouse <- {}, None <- Nobody,
  Backend <- "gbm", MaxCount <- 2,
  list <- t_list, registered <- t_registered, touch_focused <- t_touch_focused,
  touch_down_count <- t_touch_down_count, pointer_focused <- t_pointer_focused,
  focus <- t_focus, button_states <- t_button_states,
  keyboard_focused <- t_keyboard_focused, pre_pointer_pos <- t_pre_pointer_pos,
  pointer <- t_pointer, fingers <- t_fingers, held <- t_held, told <- t_told, sent <- t_sent,
  strayed <- t_strayed
Beside == INSTANCE InputFocus WITH
  Fingers <- Pair, Buttons <- {CHOOSE b \in Buttons : TRUE}, Positions <- Anywhere,
  Mouse <- {<<0, 0>>}, None <- Nobody, UseLayout <- FALSE, Backend <- "gbm",
  TouchOutside <- TRUE, MaxCount <- 2,
  list <- t_list, registered <- t_registered, touch_focused <- t_touch_focused,
  touch_down_count <- t_touch_down_count, pointer_focused <- t_pointer_focused,
  focus <- t_focus, button_states <- t_button_states,
  keyboard_focused <- t_keyboard_focused, pre_pointer_pos <- t_pre_pointer_pos,
  pointer <- t_pointer, fingers <- t_fingers, held <- t_held, told <- t_told, sent <- t_sent,
  strayed <- t_strayed

ASSUME InstancesAssumption == Touch!ConstantsAssumption /\ Beside!ConstantsAssumption

manyVars == <<m_inputs, m_input, m_net, m_packet, m_slots, m_srcSlot, m_curSlot,
             m_aborted, m_gSlot, m_guest, m_position>>

focusVars == <<list, registered, touch_focused, touch_down_count, pointer_focused,
               focus, button_states, keyboard_focused, pre_pointer_pos, pointer,
               fingers, held, told, sent, strayed>>
touchVars == <<t_list, t_registered, t_touch_focused, t_touch_down_count,
               t_pointer_focused, t_focus, t_button_states, t_keyboard_focused,
               t_pre_pointer_pos, t_pointer, t_fingers, t_held, t_told, t_sent, t_strayed>>

MCInit ==
  /\ which \in {"many", "one", "pointer", "touch", "beside"}
  /\ Init /\ Many!Init /\ Focus!Init /\ Touch!Init

MCNext ==
  /\ UNCHANGED which
  /\ IF which = "one" THEN Next ELSE UNCHANGED vars
  /\ IF which = "many" THEN Many!Next ELSE UNCHANGED manyVars
  /\ IF which = "pointer" THEN Focus!Next ELSE UNCHANGED focusVars
  /\ CASE which = "touch" -> Touch!Next
       [] which = "beside" -> Beside!Next
       [] OTHER -> UNCHANGED touchVars

MCSpec == MCInit /\ [][MCNext]_<<which, vars, manyVars, focusVars, touchVars>>

\* Sound: the properties are about steps and states, and name no window,
\* finger, button or address.
MCSymmetry ==
  Permutations(Surfaces) \cup Permutations(Fingers) \cup Permutations(Pair) \cup Permutations(Objects)

\* Type invariant.
TypesOK ==
  /\ TypeOK /\ Many!TypeOK /\ Focus!TypeOK
  /\ IF which = "beside" THEN Beside!TypeOK ELSE Touch!TypeOK

\* Two sources that use the same slot numbers do not get each other's slots of
\* the guest, and find a free one each as long as there are enough for both; and
\* NoStuckInput for two fingers, without a layout, and with touches and clicks
\* that begin beside the surfaces.
AlsoSound ==
  /\ Many!TableSound
  /\ which = "touch" => Touch!NoStuckTouch /\ Touch!TouchFocusEnds
  /\ which = "beside" => Beside!NoStuckTouch /\ Beside!NoStuckButton
====

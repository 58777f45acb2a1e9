----------------------------- MODULE LayoutSync -----------------------------
(***************************************************************************)
(* The layout handshake of the compositor in rvgpu-renderer, started with  *)
(* -l.  A layout client sends a layout command and waits for               *)
(* "Layout complete".  Between the two                                     *)
(*                                                                         *)
(*   layout thread   layout_event_loop: edits the layout list, sends a     *)
(*                   LAYOUT event to the compositor and, with -L, waits    *)
(*                   until the compositor has put a frame on the screen    *)
(*   compositor      compositor_render: collects the events of all threads *)
(*                   from the request pipe, draws, swaps, and, with -L,    *)
(*                   tells the layout thread                               *)
(*   other threads   the registration thread and one request thread per    *)
(*                   surface (external here) send the other events         *)
(*                                                                         *)
(* The layout list is represented by the number of edits made to it, so    *)
(* "shows edit n" is "was drawn from a list with n edits".  The condition  *)
(* variable's critical sections are one action each: both sides hold       *)
(* layout_sync_mutex there, and pthread_cond_wait gives it up atomically.  *)
(***************************************************************************)
EXTENDS Integers, Sequences

CONSTANTS
  UseLayoutSync, \* option -L of rvgpu-renderer
  MaxEdits,      \* bound: layout commands the clients send
  MaxConns,      \* bound: connections the layout clients make
  MaxDraws,      \* bound: DRAW events of the request threads
  MaxSurfaces    \* bound: surfaces registered over the whole run

ASSUME SyncAssumption   == UseLayoutSync \in BOOLEAN
ASSUME BoundsAssumption == /\ MaxEdits \in Nat
                           /\ MaxConns \in Nat
                           /\ MaxDraws \in Nat
                           /\ MaxSurfaces \in Nat

VARIABLES
  \* the layout clients and the other threads
  conns,        \* connections made so far
  asked,        \* layout commands sent so far
  inbox,        \* the layout socket: commands not yet read
  draws,        \* DRAW events sent so far
  adds,         \* surfaces announced so far
  here,         \* surfaces announced and not yet taken back
  \* the layout thread
  lpc,          \* "poll", "recv", "edit", "notify", "mark", "check", "wait", "answer",
                \* "exit", or "killed" with the process
  connected,    \* rvgpu_layout_fd # -1
  list,         \* rvgpu_layout_list: number of edits made to it
  answers,      \* "Layout complete" messages written
  \* shared
  layoutStatus, \* layout_status
  req,          \* the request pipe
  eventfd,      \* is event_fd readable?
  \* the compositor
  cpc,          \* "poll", "render", "swap", "tell", "join", "done" or "killed"
  running,
  surfaces,     \* length of rvgpu_surface_list
  events,       \* event_num > 0
  layoutEvent,  \* layout_event
  drawn,        \* the edits behind the frame in the back buffer
  shown         \* the edits behind the frame on the screen

clientVars == << conns, asked, draws, adds, here >>
layoutVars == << lpc, connected, list, answers >>
frameVars  == << drawn, shown >>
compVars   == << cpc, running, surfaces, events, layoutEvent, drawn, shown >>
vars == << conns, asked, inbox, draws, adds, here, layoutVars,
           layoutStatus, req, eventfd, compVars >>

(* "edit" is a well-formed command of a known name, "other" any other       *)
(* message, "eof" the end of the client's connection.                       *)
Commands == {"edit", "other", "eof"}
Events   == {"add", "draw", "remove", "layout", "stop"}

TypeClients ==
  /\ conns \in 0 .. MaxConns /\ asked \in 0 .. MaxEdits
  /\ draws \in 0 .. MaxDraws /\ adds \in 0 .. MaxSurfaces /\ here \in 0 .. adds

TypePipes == inbox \in Seq(Commands) /\ req \in Seq(Events)

TypeLayout ==
  /\ lpc \in {"poll", "recv", "edit", "notify", "mark", "check", "wait", "answer",
             "exit", "killed"}
  /\ list \in 0 .. MaxEdits /\ answers \in 0 .. list
  /\ layoutStatus \in {"NOTHING", "UPDATING", "COMPLETED"}

TypeCompositor ==
  /\ cpc \in {"poll", "render", "swap", "tell", "join", "done", "killed"}
  /\ surfaces \in Nat
  /\ drawn \in 0 .. list /\ shown \in 0 .. drawn

TypeFlags ==
  /\ connected \in BOOLEAN /\ eventfd \in BOOLEAN /\ running \in BOOLEAN
  /\ events \in BOOLEAN /\ layoutEvent \in BOOLEAN

TypeOK == TypeClients /\ TypePipes /\ TypeLayout /\ TypeCompositor /\ TypeFlags

Init ==
  /\ conns = 0 /\ asked = 0 /\ inbox = << >>
  /\ draws = 0 /\ adds = 0 /\ here = 0
  /\ lpc = "poll" /\ connected = FALSE /\ list = 0 /\ answers = 0
  /\ layoutStatus = "NOTHING" /\ req = << >> /\ eventfd = FALSE
  /\ cpc = "poll" /\ running = TRUE /\ surfaces = 0
  /\ events = FALSE /\ layoutEvent = FALSE /\ drawn = 0 /\ shown = 0

(***************************************************************************)
(* Clients and the other threads.                                          *)
(***************************************************************************)

(* A layout client sends a message, or hangs up and reads nothing more.     *)
HungUp == \E i \in DOMAIN inbox : inbox[i] = "eof"

Ask(c) ==
  /\ connected /\ asked < MaxEdits /\ ~HungUp
  /\ asked' = asked + 1
  /\ inbox' = Append(inbox, c)
  /\ UNCHANGED << conns, draws, adds, here, layoutVars, layoutStatus, req,
                  eventfd, compVars >>

(* A request thread forwards an event of its surface: ADD first, then DRAWs,*)
(* REMOVE when its client goes away.                                        *)
Forward(e) ==
  /\ cpc # "killed"
  /\ CASE e = "add"    -> /\ adds < MaxSurfaces
                          /\ adds' = adds + 1 /\ here' = here + 1
                          /\ UNCHANGED draws
       [] e = "draw"   -> /\ here > 0 /\ draws < MaxDraws
                          /\ draws' = draws + 1
                          /\ UNCHANGED << adds, here >>
       [] e = "remove" -> /\ here > 0
                          /\ here' = here - 1
                          /\ UNCHANGED << draws, adds >>
  /\ req' = Append(req, e)
  /\ UNCHANGED << conns, asked, inbox, layoutVars, layoutStatus, eventfd, compVars >>

(* The registration thread passes on a "stop" and ends.  Surfaces that were *)
(* registered before it may still be announced after it.                    *)
StopSent == ~running \/ \E i \in DOMAIN req : req[i] = "stop"

Stop ==
  /\ ~StopSent /\ cpc # "killed"
  /\ req' = Append(req, "stop")
  /\ UNCHANGED << clientVars, inbox, layoutVars, layoutStatus, eventfd, compVars >>

(***************************************************************************)
(* The layout thread.  poll looks at event_fd before the sockets.          *)
(***************************************************************************)

(* When a client has hung up only rvgpu_layout_fd forgets it: its socket    *)
(* stays in the poll array, where it is always ready.                       *)
EndedPolled == conns > 0 /\ ~connected

(* The turn that accepts a client goes on to what poll said of the client   *)
(* before it, and if that was ready reads the new one, which has nothing to *)
(* read perhaps.                                                            *)
LAccept ==
  /\ lpc = "poll" /\ ~eventfd /\ conns < MaxConns
  /\ conns' = conns + 1
  /\ connected' = TRUE
  /\ inbox' = << >>          \* a new connection replaces the old one
  /\ lpc' \in {"recv", "poll"}
  /\ EndedPolled => lpc' = "recv"
  /\ ~EndedPolled /\ inbox = << >> => lpc' = "poll"
  /\ UNCHANGED << asked, draws, adds, here, list, answers, layoutStatus,
                  req, eventfd, compVars >>

\* In "recv" the thread is in a read of the client and does not look at event_fd.
CanReceive == (lpc = "poll" /\ ~eventfd) \/ lpc = "recv"

\* Mutant: reads the command again and again.
LReceive_Keeps ==
  /\ CanReceive /\ connected /\ inbox # << >>
  /\ lpc' = IF Head(inbox) = "edit" THEN "edit" ELSE "poll"
  /\ UNCHANGED << clientVars, inbox, connected, list, answers, layoutStatus,
                  req, eventfd, compVars >>

LReceive ==
  /\ CanReceive /\ connected /\ inbox # << >>
  /\ inbox' = Tail(inbox)
  /\ connected' = (Head(inbox) # "eof")
  /\ lpc' = IF Head(inbox) = "edit" THEN "edit" ELSE "poll"
  /\ UNCHANGED << clientVars, list, answers, layoutStatus, req, eventfd, compVars >>

(* The edit is made under layout_list_mutex.                                *)
LEdit ==
  /\ lpc = "edit"
  /\ list' = list + 1
  /\ lpc' = "notify"
  /\ UNCHANGED << clientVars, inbox, connected, answers, layoutStatus, req,
                  eventfd, compVars >>

\* Mutant: edits without telling the compositor.
LNotify_Silent ==
  /\ lpc = "notify"
  /\ lpc' = IF UseLayoutSync THEN "mark" ELSE "answer"
  /\ UNCHANGED << clientVars, inbox, connected, list, answers, layoutStatus,
                  req, eventfd, compVars >>

\* Mutant: waits for the compositor without -L.
LNotify_AlwaysWaits ==
  /\ lpc = "notify"
  /\ req' = Append(req, "layout")
  /\ lpc' = "mark"
  /\ UNCHANGED << clientVars, inbox, connected, list, answers, layoutStatus,
                  eventfd, compVars >>

LNotify ==
  /\ lpc = "notify"
  /\ req' = Append(req, "layout")
  /\ lpc' = IF UseLayoutSync THEN "mark" ELSE "answer"
  /\ UNCHANGED << clientVars, inbox, connected, list, answers, layoutStatus,
                  eventfd, compVars >>

\* Mutant: waits without setting LAYOUT_UPDATING first.
LMark_NoUpdating ==
  /\ lpc = "mark"
  /\ lpc' = "check"
  /\ UNCHANGED << clientVars, inbox, connected, list, answers, layoutStatus,
                  req, eventfd, compVars >>

(* layout_status is written before the mutex is taken.                      *)
LMark ==
  /\ lpc = "mark"
  /\ layoutStatus' = "UPDATING"
  /\ lpc' = "check"
  /\ UNCHANGED << clientVars, inbox, connected, list, answers, req, eventfd, compVars >>

LCheck ==
  /\ lpc = "check"
  /\ lpc' = IF layoutStatus = "COMPLETED" THEN "answer" ELSE "wait"
  /\ UNCHANGED << clientVars, inbox, connected, list, answers, layoutStatus,
                  req, eventfd, compVars >>

(* pthread_cond_wait may return without a signal.                           *)
LSpurious ==
  /\ lpc = "wait"
  /\ lpc' = "check"
  /\ UNCHANGED << clientVars, inbox, connected, list, answers, layoutStatus,
                  req, eventfd, compVars >>

(* A write to a client that has hung up raises SIGPIPE, which ends the      *)
(* process.                                                                 *)
LAnswer ==
  /\ lpc = "answer" /\ ~HungUp
  /\ answers' = answers + 1
  /\ lpc' = "poll"
  /\ UNCHANGED << clientVars, inbox, connected, list, layoutStatus, req,
                  eventfd, compVars >>

LKilled ==
  /\ lpc = "answer" /\ HungUp
  /\ lpc' = "killed" /\ cpc' = "killed"
  /\ UNCHANGED << clientVars, inbox, connected, list, answers, layoutStatus, req,
                  eventfd, running, surfaces, events, layoutEvent, frameVars >>

LExit ==
  /\ lpc = "poll" /\ eventfd
  /\ eventfd' = FALSE        \* the read takes the counter back to 0
  /\ lpc' = "exit"
  /\ UNCHANGED << clientVars, inbox, connected, list, answers, layoutStatus,
                  req, compVars >>

(***************************************************************************)
(* The compositor.  GoOn is the condition of both its loops.               *)
(***************************************************************************)

GoOn(r, s) == r \/ s > 0

\* Mutant: layout_event tells of the last event of the batch only.
CEvent_LastOnly ==
  /\ cpc = "poll" /\ req # << >>
  /\ LET e == Head(req) IN
       /\ surfaces' = CASE e = "add"    -> surfaces + 1
                        [] e = "remove" /\ surfaces > 0 -> surfaces - 1
                        [] OTHER        -> surfaces
       /\ layoutEvent' = (e = "layout")
       /\ running' = (running /\ e # "stop")
       /\ eventfd' = (eventfd \/ e = "stop")
       /\ cpc' = IF e # "stop" /\ GoOn(running', surfaces') THEN "poll" ELSE "render"
  /\ req' = Tail(req)
  /\ events' = TRUE
  /\ UNCHANGED << clientVars, inbox, layoutVars, layoutStatus, frameVars >>

\* Mutant: STOP does not reach event_fd.
CEvent_NoEventfd ==
  /\ cpc = "poll" /\ req # << >>
  /\ LET e == Head(req) IN
       /\ surfaces' = CASE e = "add"    -> surfaces + 1
                        [] e = "remove" /\ surfaces > 0 -> surfaces - 1
                        [] OTHER        -> surfaces
       /\ layoutEvent' = (layoutEvent \/ e = "layout")
       /\ running' = (running /\ e # "stop")
       /\ cpc' = IF e # "stop" /\ GoOn(running', surfaces') THEN "poll" ELSE "render"
  /\ req' = Tail(req)
  /\ events' = TRUE
  /\ UNCHANGED << clientVars, inbox, layoutVars, layoutStatus, eventfd, frameVars >>

(* One event from the request pipe; the loop ends by itself when nothing    *)
(* is left to do, and by a break after STOP.                                *)
CEvent ==
  /\ cpc = "poll" /\ req # << >>
  /\ LET e == Head(req) IN
       /\ surfaces' = CASE e = "add"    -> surfaces + 1
                        [] e = "remove" /\ surfaces > 0 -> surfaces - 1
                        [] OTHER        -> surfaces
       /\ layoutEvent' = (layoutEvent \/ e = "layout")
       /\ running' = (running /\ e # "stop")
       /\ eventfd' = (eventfd \/ e = "stop")
       /\ cpc' = IF e # "stop" /\ GoOn(running', surfaces') THEN "poll" ELSE "render"
  /\ req' = Tail(req)
  /\ events' = TRUE
  /\ UNCHANGED << clientVars, inbox, layoutVars, layoutStatus, frameVars >>

(* poll with timeout 0 finds the pipe empty after at least one event.       *)
CBatchEnds ==
  /\ cpc = "poll" /\ req = << >> /\ events
  /\ cpc' = "render"
  /\ UNCHANGED << clientVars, inbox, layoutVars, layoutStatus, req, eventfd,
                  running, surfaces, events, layoutEvent, frameVars >>

(* The layout list is drawn under layout_list_mutex.                        *)
CDraw ==
  /\ cpc = "render"
  /\ drawn' = list
  /\ cpc' = "swap"
  /\ UNCHANGED << clientVars, inbox, layoutVars, layoutStatus, req, eventfd,
                  running, surfaces, events, layoutEvent, shown >>

CSwap ==
  /\ cpc = "swap"
  /\ shown' = drawn
  /\ cpc' = "tell"
  /\ UNCHANGED << clientVars, inbox, layoutVars, layoutStatus, req, eventfd,
                  running, surfaces, events, layoutEvent, drawn >>

(* With -L, and if the batch held a LAYOUT event, complete and signal; then *)
(* the next batch begins.                                                   *)
Completes == UseLayoutSync /\ layoutEvent

\* Mutant: completes without signalling.
CTell_NoSignal ==
  /\ cpc = "tell"
  /\ layoutStatus' = IF Completes THEN "COMPLETED" ELSE layoutStatus
  /\ events' = FALSE
  /\ layoutEvent' = FALSE
  /\ cpc' = IF GoOn(running, surfaces) THEN "poll" ELSE "join"
  /\ UNCHANGED << clientVars, inbox, layoutVars, req, eventfd, running,
                  surfaces, frameVars >>

CTell ==
  /\ cpc = "tell"
  /\ layoutStatus' = IF Completes THEN "COMPLETED" ELSE layoutStatus
  /\ lpc' = IF Completes /\ lpc = "wait" THEN "check" ELSE lpc
  /\ events' = FALSE
  /\ layoutEvent' = FALSE
  /\ cpc' = IF GoOn(running, surfaces) THEN "poll" ELSE "join"
  /\ UNCHANGED << clientVars, inbox, connected, list, answers, req, eventfd,
                  running, surfaces, frameVars >>

(* pthread_join of the layout thread.                                       *)
CJoin ==
  /\ cpc = "join" /\ lpc = "exit"
  /\ cpc' = "done"
  /\ UNCHANGED << clientVars, inbox, layoutVars, layoutStatus, req, eventfd,
                  running, surfaces, events, layoutEvent, frameVars >>

LayoutThread == \/ LReceive \/ LEdit \/ LNotify \/ LMark \/ LCheck
                \/ LAnswer \/ LKilled \/ LExit
Compositor   == CEvent \/ CBatchEnds \/ CDraw \/ CSwap \/ CTell \/ CJoin

Next ==
  \/ \E c \in Commands : Ask(c)
  \/ \E e \in {"add", "draw", "remove"} : Forward(e)
  \/ Stop
  \/ LayoutThread \/ LAccept \/ LSpurious
  \/ Compositor

Spec == Init /\ [][Next]_vars

(* Both threads are scheduled; nothing is assumed of the clients, and the   *)
(* condition variable need not wake up by itself.                           *)
FairSpec == Spec /\ WF_vars(LayoutThread) /\ WF_vars(Compositor)

(***************************************************************************)
(* Properties.                                                             *)
(***************************************************************************)

(* With -L "Layout complete" is written only when the screen shows a frame  *)
(* drawn from the list the command left behind: a status left over from an  *)
(* earlier command, a frame drawn before the edit or a wakeup without a     *)
(* signal does not get the layout thread past layout_status.                *)
AnswerShown == UseLayoutSync /\ lpc = "answer" => shown = list

(* A LAYOUT event is in the pipe.                                           *)
InPipe == \E i \in DOMAIN req : req[i] = "layout"

(* An edit the screen does not show yet is on its way: the layout thread is *)
(* about to send its event, the event is in the pipe or in the batch that   *)
(* compositor_render is collecting or drawing.  Only a compositor that has  *)
(* left its main loop, or was killed, forgets one.                          *)
NoChangeForgotten ==
  shown # list => \/ lpc = "notify"
                  \/ InPipe
                  \/ layoutEvent
                  \/ cpc \in {"join", "done", "killed"}

(* Every edit comes to the screen without any other client's help: the      *)
(* LAYOUT event wakes a compositor that is blocked in poll without timeout. *)
LayoutShown ==
  \A n \in 1 .. MaxEdits :
    list >= n ~> shown >= n \/ cpc \in {"join", "done", "killed"}

(* A wait for a LAYOUT event that the compositor has read and not completed *)
(* ends: no wakeup is lost between the check and the wait.                  *)
WaitEnds ==
  lpc \in {"check", "wait"} /\ layoutStatus = "UPDATING" /\ layoutEvent
    ~> lpc = "answer"

(* Every layout command is answered, so that the client can send the next.  *)
(* It fails with -L: a compositor that completes the event before LMark     *)
(* loses its COMPLETED.                                                     *)
LayoutAnswered ==
  lpc = "edit" ~> lpc = "answer" \/ cpc \in {"join", "done"}

(* A compositor that has left its main loop ends: the layout thread learns  *)
(* of the STOP.  It fails with -L, where the layout thread may wait for a   *)
(* frame that a compositor in pthread_join no longer draws.                 *)
JoinEnds == cpc = "join" ~> cpc \in {"done", "killed"}

(* Without -L it fails only where the layout thread is left in a read of a  *)
(* client that neither sends nor hangs up.                                  *)
JoinEndsUnlessReading == []<>(lpc # "recv") => JoinEnds
=============================================================================

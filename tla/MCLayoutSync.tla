---- MODULE MCLayoutSync ----
(* LayoutSync itself, with -L; Plain, without; and the list the commands edit. *)
(* A behaviour moves one of them.                                              *)
EXTENDS LayoutSync
VARIABLES which, p_conns, p_asked, p_inbox, p_draws, p_adds, p_here, p_lpc,
          p_connected, p_list, p_answers, p_layoutStatus, p_req, p_eventfd, p_cpc,
          p_running, p_surfaces, p_events, p_layoutEvent, p_drawn, p_shown,
          layouts, areas, adding, pc, i, met, stencil, edit, edits, given, raced

Plain == INSTANCE LayoutSync WITH
  UseLayoutSync <- FALSE, conns <- p_conns, asked <- p_asked, inbox <- p_inbox,
  draws <- p_draws, adds <- p_adds, here <- p_here, lpc <- p_lpc,
  connected <- p_connected, list <- p_list, answers <- p_answers,
  layoutStatus <- p_layoutStatus, req <- p_req, eventfd <- p_eventfd, cpc <- p_cpc,
  running <- p_running, surfaces <- p_surfaces, events <- p_events,
  layoutEvent <- p_layoutEvent, drawn <- p_drawn, shown <- p_shown

Lists == INSTANCE LayoutList WITH
  Ids <- 1 .. 3, Surfaces <- {"surface"}, Areas <- {"in", "out"}, Valid <- {"in"},
  MaxEdits <- 2, MaxLength <- 2, MaxAreas <- 1, list <- layouts

plainVars == <<p_conns, p_asked, p_inbox, p_draws, p_adds, p_here, p_lpc,
               p_connected, p_list, p_answers, p_layoutStatus, p_req, p_eventfd, p_cpc,
               p_running, p_surfaces, p_events, p_layoutEvent, p_drawn, p_shown>>
listVars == <<layouts, areas, adding, pc, i, met, stencil, edit, edits, given, raced>>
mcvars == <<which, vars, plainVars, listVars>>

MCInit == which \in {"sync", "plain", "list"} /\ Init /\ Plain!Init /\ Lists!Init

MCNext ==
  \/ which = "sync" /\ Next /\ UNCHANGED <<which, plainVars, listVars>>
  \/ which = "plain" /\ Plain!Next /\ UNCHANGED <<which, vars, listVars>>
  \/ which = "list" /\ Lists!Next /\ UNCHANGED <<which, vars, plainVars>>

\* The fairness of LayoutSync's FairSpec, for the instance that moves.
MCSpec == /\ MCInit /\ [][MCNext]_mcvars
          /\ WF_vars(which = "sync" /\ LayoutThread)
          /\ WF_vars(which = "sync" /\ Compositor)
          /\ WF_plainVars(which = "plain" /\ Plain!LayoutThread)
          /\ WF_plainVars(which = "plain" /\ Plain!Compositor)

\* Without -L every edit comes to the screen without any other client's help,
\* every command is handled up to its answer, and a compositor that has left its
\* main loop ends, whatever connections come, are replaced and hang up meanwhile;
\* except that an answer to a client that has left kills the process, and that a
\* client whose connection is read before it is polled holds up the end until it
\* sends or leaves. With -L the last two fail.
PlainServed == Plain!LayoutShown /\ Plain!LayoutAnswered /\ Plain!JoinEndsUnlessReading

\* An id has one place on the list; what add_surface places before or after a
\* surface is next to it, also if it was on the list already, and leaves the
\* others in their order; a valid safety area stays, whatever is removed beside
\* it, unless it came while the main thread was removing one without the mutex.
ListEdited == /\ [](Lists!TypeOK /\ Lists!OnePlace /\ Lists!AreasKept)
              /\ Lists!Placed /\ Lists!OthersStay
====

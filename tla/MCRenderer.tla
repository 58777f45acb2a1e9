------------------------------ MODULE MCRenderer ------------------------------
(* The processes and threads of rvgpu-renderer, part by part; a behaviour moves *)
(* one of them:                                                                 *)
(*   ring    SwapSync itself, hardware buffers of one size                      *)
(*   soft    SwapSync, software buffers and a window that changes its size      *)
(*   syncs   GlSyncObjs, three contexts                                         *)
(*   accept  ProxyAccept, two proxies with one id and one that is given a number*)
(*   serve   ClientLife, two processes that have one surface one after another  *)
(*   stop    ClientLife, one that may crash and one that stops the compositor   *)
EXTENDS RendererProcesses, TLC
VARIABLES which,
  f_pc, f_idx, f_size, f_status, f_drawn, f_control, f_picture, f_texture, f_images,
  f_hard, f_lastCount, f_dropped, f_requests, f_others, f_cpc, f_woken, f_surface,
  f_updated, f_acks, f_shown,
  s_client, s_made, s_drawn, s_control, s_backlog, s_open, s_group, s_table, s_thread,
  s_fds, s_requests, s_mpc, s_woken, s_running, s_list

\* Two proxies with one id and one that is given a number.
MCIdOf == <<7, 7, 0>>

\* A process that draws, and one that stops the compositor.
MCSurfaceOf == <<"a", "stop">>

Soft == INSTANCE SwapSync WITH
  Hardware <- FALSE, Sizes <- {1, 2}, MaxFrames <- 4, MaxOthers <- 1,
  pc <- f_pc, idx <- f_idx, size <- f_size, status <- f_status, drawn <- f_drawn,
  control <- f_control, picture <- f_picture, texture <- f_texture, images <- f_images,
  hard <- f_hard, lastCount <- f_lastCount, dropped <- f_dropped,
  requests <- f_requests, others <- f_others, cpc <- f_cpc, woken <- f_woken,
  surface <- f_surface, updated <- f_updated, acks <- f_acks, shown <- f_shown

Serve == INSTANCE ClientLife WITH
  Clients <- 1 .. 2, NoClient <- 0, IdOf <- <<"a", "a">>, Stop <- "stop", Backlog <- 2,
  MaxDraws <- 2, OneAtATime <- TRUE, Crashes <- FALSE, ThreadFails <- TRUE,
  client <- s_client, made <- s_made, drawn <- s_drawn, control <- s_control,
  backlog <- s_backlog, open <- s_open, group <- s_group, table <- s_table,
  thread <- s_thread, fds <- s_fds, requests <- s_requests, mpc <- s_mpc,
  woken <- s_woken, running <- s_running, list <- s_list

ASSUME InstancesAssumption == Serve!ConstantsAssumption

softVars == <<f_pc, f_idx, f_size, f_status, f_drawn, f_control, f_picture, f_texture,
              f_images, f_hard, f_lastCount, f_dropped, f_requests, f_others, f_cpc,
              f_woken, f_surface, f_updated, f_acks, f_shown>>
syncVars == <<table, gsize, current_ctx, gl, alive, work, live, lacking, damaged>>
acceptVars == <<proxy, backlog, apc, newsock, rsocket, num_proxy, proxy_list, render,
                refused, mixed, reused>>
clientVars == <<client, made, cdrawn, ccontrol, conns, open, group, descriptors, thread,
                fds, crequests, mpc, cwoken, running, list>>
serveVars == <<s_client, s_made, s_drawn, s_control, s_backlog, s_open, s_group, s_table,
               s_thread, s_fds, s_requests, s_mpc, s_woken, s_running, s_list>>
mcvars == <<which, vars, softVars, syncVars, acceptVars, clientVars, serveVars>>

MCInit ==
  /\ which \in {"ring", "soft", "syncs", "accept", "serve", "stop"}
  /\ Init /\ Soft!Init /\ Syncs!Init /\ Accept!Init /\ Life!Init /\ Serve!Init

MCNext ==
  /\ UNCHANGED which
  /\ IF which = "ring" THEN Next ELSE UNCHANGED vars
  /\ IF which = "soft" THEN Soft!Next ELSE UNCHANGED softVars
  /\ IF which = "syncs" THEN Syncs!Next ELSE UNCHANGED syncVars
  /\ IF which = "accept" THEN Accept!Next ELSE UNCHANGED acceptVars
  /\ IF which = "serve" THEN Serve!Next ELSE UNCHANGED serveVars
  /\ IF which = "stop" THEN Life!Next ELSE UNCHANGED clientVars

\* The fairness of the parts' FairSpec, for the part that moves.
MCSpec ==
  /\ MCInit /\ [][MCNext]_mcvars
  /\ WF_softVars(which = "soft" /\ Soft!Request)
  /\ WF_softVars(which = "soft" /\ Soft!Compositor)
  /\ WF_softVars(which = "soft" /\ Soft!Acked)
  /\ WF_acceptVars(which = "accept" /\ Accept!Accept)
  /\ WF_acceptVars(which = "accept" /\ Accept!ReadId)
  /\ WF_acceptVars(which = "accept" /\ Accept!wait_for_child)
  /\ \A p \in 1 .. 3 : /\ WF_acceptVars(which = "accept" /\ Accept!SendId(p))
                       /\ WF_acceptVars(which = "accept" /\ Accept!Connect(p))
  /\ WF_clientVars(which = "stop" /\ Life!MainLoop)
  /\ WF_clientVars(which = "stop" /\ Life!Registration)
  /\ \A c \in 1 .. 2 : /\ WF_clientVars(which = "stop" /\ Life!RequestThread(c))
                       /\ WF_clientVars(which = "stop" /\ Life!Going(c))

\* Type invariant.
TypesOK == TypeOK /\ Soft!TypeOK /\ Syncs!TypeOK /\ Accept!TypeOK
           /\ Life!TypeOK /\ Serve!TypeOK

\* Every buffer is given back, whichever frames were skipped, and the last frame
\* is shown; a frame the compositor has copied is complete, also while the window
\* changes its size.
FramesReturned == []Soft!BuffersKept /\ Soft!Released /\ Soft!LastShown

\* Every proxy gets a render process or is refused, which happens only for the
\* reasons of RefusedForItsId. A client finds its own surface, also after another
\* with its id. What a client leaves behind
\* goes; a client that leaves ends; and so does the compositor after "stop", when
\* its clients have.
ComeAndGo ==
  /\ []Serve!OwnEntry /\ []Serve!DrawLands
  /\ [][Accept!RefusedForItsId]_acceptVars
  /\ which = "accept" => Accept!Answered
  /\ which = "stop" => Life!Forgotten
  /\ which = "stop" => Life!LeavingEnds
  /\ which = "stop" => Life!StopEnds

\* A client that leaves does not end the compositor. It fails: the frame that was
\* to be acknowledged to it raises SIGPIPE.
ClientLeaves == Serve!StaysUp
==============================================================================

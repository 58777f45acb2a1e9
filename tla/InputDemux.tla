----------------------------- MODULE InputDemux -----------------------------
(***************************************************************************)
(* Input packets from the renderers to the input thread of rvgpu-proxy.    *)
(* Every renderer writes packets of a header and its events to its command *)
(* socket; the relay moves them to one pipe per renderer in pieces.  The   *)
(* input thread reads a header, then its events, and for each of the two   *)
(* input_read polls all pipes and takes the first that is readable.        *)
(*                                                                         *)
(* A pipe is a sequence of units, each a header or an event of one packet; *)
(* contents of events are left out.                                        *)
(***************************************************************************)
EXTENDS Integers, Sequences

CONSTANTS
  N,          \* renderers (scanout_num)
  MaxEvents,  \* bound: events in a packet
  MaxPackets  \* bound: packets of each renderer

ConstantsAssumption ==
  N \in Nat \ {0} /\ MaxEvents \in Nat \ {0} /\ MaxPackets \in Nat

Hosts == 0 .. N - 1

VARIABLES
  sent,   \* packets each renderer has begun
  owed,   \* events of the last packet it has not sent yet
  pipe,   \* per renderer: units between the relay and the input thread
  pc,     \* "header", "recv", "events" or "recvall", "serve"
  src,    \* hdr.src: the renderer whose pipe the header came from
  from,   \* the renderer chosen by the last poll
  header, \* the unit taken for the header
  got,    \* the units taken for its events
  served  \* packets given to input_device_serve, per renderer

vars == << sent, owed, pipe, pc, src, from, header, got, served >>
threadVars == << pc, src, from, header, got, served >>

(* n events: a header; 0: an event.                                         *)
Unit == [host : Hosts, packet : 1 .. MaxPackets, evnum : 0 .. MaxEvents]

TypeOK ==
  /\ sent \in [Hosts -> 0 .. MaxPackets] /\ owed \in [Hosts -> 0 .. MaxEvents]
  /\ pipe \in [Hosts -> Seq(Unit)]
  /\ pc \in {"header", "recv", "events", "recvall", "serve"}
  /\ src \in Hosts /\ from \in Hosts
  /\ header \in Unit \cup {<< >>}
  /\ got \in Seq(Unit) /\ served \in [Hosts -> Nat]

Init ==
  /\ sent = [h \in Hosts |-> 0] /\ owed = [h \in Hosts |-> 0]
  /\ pipe = [h \in Hosts |-> << >>]
  /\ pc = "header" /\ src = 0 /\ from = 0
  /\ header = << >> /\ got = << >>
  /\ served = [h \in Hosts |-> 0]

(* rvgpu_in_send writes the header of a packet of n events, then the events;*)
(* they arrive one by one.                                                  *)
SendHeader(h, n) ==
  /\ owed[h] = 0 /\ sent[h] < MaxPackets
  /\ sent' = [sent EXCEPT ![h] = @ + 1]
  /\ owed' = [owed EXCEPT ![h] = n]
  /\ pipe' = [pipe EXCEPT ![h] =
                Append(@, [host |-> h, packet |-> sent'[h], evnum |-> n])]
  /\ UNCHANGED threadVars

SendEvent(h) ==
  /\ owed[h] > 0
  /\ owed' = [owed EXCEPT ![h] = @ - 1]
  /\ pipe' = [pipe EXCEPT ![h] =
                Append(@, [host |-> h, packet |-> sent[h], evnum |-> 0])]
  /\ UNCHANGED << sent, threadVars >>

(* input_wait: poll without timeout; then the first readable pipe.  The     *)
(* header's read notes the source.                                          *)
Poll ==
  /\ pc \in {"header", "events"}
  /\ \E h \in Hosts :
       /\ pipe[h] # << >>
       /\ \A g \in 0 .. h - 1 : pipe[g] = << >>
       /\ from' = h
       /\ src' = IF pc = "header" THEN h ELSE src
  /\ pc' = IF pc = "header" THEN "recv" ELSE "recvall"
  /\ UNCHANGED << sent, owed, pipe, header, got, served >>

RecvHeader ==
  /\ pc = "recv" /\ pipe[from] # << >>
  /\ header' = Head(pipe[from])
  /\ pipe' = [pipe EXCEPT ![from] = Tail(@)]
  /\ got' = << >>
  /\ pc' = "events"
  /\ UNCHANGED << sent, owed, src, from, served >>

\* Mutant: takes what is there for the whole packet.
RecvEvent_Short ==
  /\ pc = "recvall" /\ pipe[from] # << >>
  /\ got' = Append(got, Head(pipe[from]))
  /\ pipe' = [pipe EXCEPT ![from] = Tail(@)]
  /\ pc' = IF pipe'[from] = << >> \/ Len(got') = header.evnum THEN "serve" ELSE "recvall"
  /\ UNCHANGED << sent, owed, src, from, header, served >>

(* rvgpu_recv_all blocks on that pipe until the events are complete.        *)
RecvEvent ==
  /\ pc = "recvall" /\ pipe[from] # << >>
  /\ got' = Append(got, Head(pipe[from]))
  /\ pipe' = [pipe EXCEPT ![from] = Tail(@)]
  /\ pc' = IF Len(got') = header.evnum THEN "serve" ELSE "recvall"
  /\ UNCHANGED << sent, owed, src, from, header, served >>

\* Mutant: the thread ends after its first packet.
Serve_Once ==
  /\ pc = "serve" /\ served[src] = 0
  /\ served' = [served EXCEPT ![src] = @ + 1]
  /\ pc' = "header"
  /\ UNCHANGED << sent, owed, pipe, src, from, header, got >>

\* Mutant: serves a packet again when nothing new is there.
Serve_Again ==
  /\ pc = "serve"
  /\ served' = [served EXCEPT ![src] = @ + 1]
  /\ pc' = IF pipe[src] = << >> THEN "serve" ELSE "header"
  /\ UNCHANGED << sent, owed, pipe, src, from, header, got >>

Serve ==
  /\ pc = "serve"
  /\ served' = [served EXCEPT ![src] = @ + 1]
  /\ pc' = "header"
  /\ UNCHANGED << sent, owed, pipe, src, from, header, got >>

InputThread == Poll \/ RecvHeader \/ RecvEvent \/ Serve

Next ==
  \/ \E h \in Hosts : SendEvent(h) \/ \E n \in 1 .. MaxEvents : SendHeader(h, n)
  \/ InputThread

Spec == Init /\ [][Next]_vars

(* The input thread runs, and a renderer that has begun a packet writes the *)
(* rest of it.                                                              *)
Fairness == WF_vars(InputThread) /\ \A h \in Hosts : WF_vars(SendEvent(h))
FairSpec == Spec /\ Fairness

(***************************************************************************)
(* Properties.                                                             *)
(***************************************************************************)

(* What input_device_serve is given is one packet of the source it is given *)
(* for: its header and all of its events.  It fails with two renderers.     *)
PacketWhole ==
  pc = "serve" =>
    /\ header.evnum = Len(got)
    /\ header.host = src
    /\ \A i \in DOMAIN got :
         got[i] = [host |-> src, packet |-> header.packet, evnum |-> 0]

(* No packet is lost, served twice or overtaken by another of its renderer. *)
PacketsInOrder ==
  pc = "serve" => header.packet = served[src] + 1

(* Every packet is served in the end, whatever pieces it arrives in.        *)
PacketServed ==
  \A h \in Hosts, k \in 1 .. MaxPackets :
    sent[h] >= k ~> served[h] >= k
=============================================================================

----------------------------- MODULE FenceService -----------------------------
(***************************************************************************)
(* What the proxy promises the guest driver about its control queue,       *)
(* without threads, pipes or messages: requests are issued in order, each  *)
(* is completed at most once, and a fenced one only after the GPUs of all  *)
(* renderers have come past its fence.                                     *)
(***************************************************************************)
EXTENDS Integers, Sequences

CONSTANTS Hosts, Kinds, MaxCmd

VARIABLES
  issued,     \* the requests issued so far, by kind
  completed,  \* the requests that have been completed
  progress    \* the last fence each GPU has retired

svars == <<issued, completed, progress>>

IsFenced(c) == issued[c] \in {"fenced", "read"}

Init ==
  /\ issued = <<>>
  /\ completed = {}
  /\ progress = [h \in Hosts |-> 0]

Issue(k) ==
  /\ Len(issued) < MaxCmd
  /\ issued' = Append(issued, k)
  /\ UNCHANGED <<completed, progress>>

\* A GPU retires the fence of an issued request; fences retire in order.
Advance(h) ==
  /\ \E f \in 1 .. Len(issued) :
       /\ f > progress[h] /\ IsFenced(f)
       /\ progress' = [progress EXCEPT ![h] = f]
  /\ UNCHANGED <<issued, completed>>

\* A batch of requests is completed; completed requests stay completed.
Complete ==
  /\ \E S \in SUBSET (1 .. Len(issued) \ completed) :
       /\ \A c \in S : IsFenced(c) => \A h \in Hosts : c <= progress[h]
       /\ completed' = completed \cup S
  /\ UNCHANGED <<issued, progress>>

Next ==
  \/ \E k \in Kinds : Issue(k)
  \/ \E h \in Hosts : Advance(h)
  \/ Complete

Spec == Init /\ [][Next]_svars
=============================================================================

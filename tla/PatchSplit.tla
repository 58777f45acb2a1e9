------------------------------ MODULE PatchSplit ------------------------------
(***************************************************************************)
(* How rvgpu-proxy cuts a transfer to the host into patches. The backing   *)
(* of a resource is a list of pieces of guest memory; a transfer asks for  *)
(* "want" bytes from byte "from" on. The loop of gpu_device_send_data      *)
(* walks over the pieces and gathers up to IovMax - 1 of them in a patch,  *)
(* which is one header and then the bytes. To the renderer the backing is  *)
(* one block of the same total length; it copies each patch to its offset  *)
(* and takes a patch of length 0 for the end of the transfer.              *)
(*                                                                         *)
(* The pieces are given by their edges: piece i is the bytes of the        *)
(* backing from edge i on, up to edge i + 1. A piece may be empty.         *)
(***************************************************************************)
EXTENDS Integers, Sequences

CONSTANTS
  Edges,    \* the backings
  Requests, \* the values "from" and "want" may have
  IovMax    \* __IOV_MAX: pieces in a patch, the header's included

ASSUME EdgesAssumption ==
  \A e \in Edges : /\ e \in Seq(Nat) /\ Len(e) > 0 /\ e[1] = 0
                   /\ \A k, l \in 1 .. Len(e) : k <= l => e[k] <= e[l]
ASSUME RequestsAssumption == Requests \subseteq Nat
ASSUME IovAssumption == IovMax \in Nat /\ IovMax > 1

VARIABLES
  edge,       \* the backing
  from, want, \* the request
  i,          \* the piece the loop is at
  offset,     \* where it begins
  skip,       \* bytes still to leave out
  length,     \* bytes still to send
  hdr,        \* header of the patch being gathered
  niov,       \* its pieces, the header's included
  out,        \* headers of the patches written
  pc          \* "loop" or "done"

input == <<edge, from, want>>
vars == <<input, i, offset, skip, length, hdr, niov, out, pc>>

Total == edge[Len(edge)]
IovLen == edge[i + 1] - edge[i]
NoPatch == [offset |-> 0, len |-> 0]

Init ==
  /\ edge \in Edges /\ from \in Requests /\ want \in Requests
  /\ i = 1 /\ offset = 0 /\ skip = from /\ length = want
  /\ hdr = NoPatch /\ niov = 1 /\ out = <<>> /\ pc = "loop"

\* A piece before the request.
SkipPiece ==
  /\ pc = "loop" /\ i < Len(edge) /\ length > 0
  /\ skip >= IovLen
  /\ skip' = skip - IovLen
  /\ i' = i + 1 /\ offset' = offset + IovLen
  /\ UNCHANGED <<input, length, hdr, niov, out, pc>>

Smaller(a, b) == IF a < b THEN a ELSE b

\* The bytes of the request in a piece.
BytesOfPiece == Smaller(IovLen - skip, length)

\* Mutant: a patch that is full is written but not started anew.
AddPatch_NoInit(len) ==
  IF niov = IovMax
  THEN /\ out' = Append(out, hdr)
       /\ hdr' = [offset |-> hdr.offset, len |-> hdr.len + len]
       /\ niov' = 2
  ELSE /\ hdr' = IF niov = 1 THEN [offset |-> offset + skip, len |-> len]
                             ELSE [hdr EXCEPT !.len = @ + len]
       /\ niov' = niov + 1
       /\ UNCHANGED out

\* add_patch: a full patch is written and a new one is begun.
AddPatch(len) ==
  IF niov = IovMax
  THEN /\ out' = Append(out, hdr)
       /\ hdr' = [offset |-> offset + skip, len |-> len]
       /\ niov' = 2
  ELSE /\ hdr' = IF niov = 1 THEN [offset |-> offset + skip, len |-> len]
                             ELSE [hdr EXCEPT !.len = @ + len]
       /\ niov' = niov + 1
       /\ UNCHANGED out

\* Mutant: the rest of the pieces is skipped into as well.
TakePiece_KeepsSkip ==
  /\ pc = "loop" /\ i < Len(edge) /\ length > 0
  /\ skip < IovLen
  /\ AddPatch(BytesOfPiece)
  /\ length' = length - BytesOfPiece
  /\ i' = i + 1 /\ offset' = offset + IovLen
  /\ UNCHANGED <<input, skip, pc>>

\* A piece that has bytes of the request.
TakePiece ==
  /\ pc = "loop" /\ i < Len(edge) /\ length > 0
  /\ skip < IovLen
  /\ AddPatch(BytesOfPiece)
  /\ skip' = 0
  /\ length' = length - BytesOfPiece
  /\ i' = i + 1 /\ offset' = offset + IovLen
  /\ UNCHANGED <<input, pc>>

\* Mutant: write_patch does not look whether there is anything to write.
Finish_Always ==
  /\ pc = "loop" /\ (i = Len(edge) \/ length = 0)
  /\ out' = Append(out, hdr)
  /\ pc' = "done"
  /\ UNCHANGED <<input, i, offset, skip, length, hdr, niov>>

\* The last write_patch, which writes no patch without pieces.
Finish ==
  /\ pc = "loop" /\ (i = Len(edge) \/ length = 0)
  /\ out' = IF niov = 1 THEN out ELSE Append(out, hdr)
  /\ pc' = "done"
  /\ UNCHANGED <<input, i, offset, skip, length, hdr, niov>>

Next == SkipPiece \/ TakePiece \/ Finish

Spec == Init /\ [][Next]_vars

(***************************************************************************)
(* Properties.                                                             *)
(***************************************************************************)

Patch == [offset : Nat, len : Nat]

\* Type invariant.
TypeOK ==
  /\ edge \in Seq(Nat) /\ from \in Nat /\ want \in Nat
  /\ i \in 1 .. Len(edge) /\ offset \in Nat /\ skip \in Nat /\ length \in Nat
  /\ hdr \in Patch /\ niov \in 1 .. IovMax /\ out \in Seq(Patch)
  /\ pc \in {"loop", "done"}

End(p) == p.offset + p.len

\* What the renderer relies on (load_resource_patched): no patch has length 0,
\* which would end the transfer and leave the rest of it to be read as
\* commands, and none reaches beyond the backing ("Wrong patch format!").
PatchesReadable ==
  \A k \in 1 .. Len(out) : out[k].len > 0 /\ End(out[k]) <= Total

\* Patches follow each other without gap or overlap, from the first byte asked
\* for, however the request and the limit of IovMax cut the pieces.
PatchesContiguous ==
  \A k \in 1 .. Len(out) :
    out[k].offset = IF k = 1 THEN from ELSE End(out[k - 1])

\* Together: the renderer stores each byte where it belongs, and finds the end.
PatchesSound == PatchesReadable /\ PatchesContiguous

\* At the end exactly the bytes asked for have been sent, as far as the
\* backing has them (gpu_device_send_data).
AllSent ==
  pc = "done" =>
    IF out = <<>> THEN want = 0 \/ from >= Total
                  ELSE End(out[Len(out)]) = Smaller(from + want, Total)
=============================================================================

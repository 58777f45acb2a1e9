--------------------------- MODULE PatchSplitProofs ---------------------------
(***************************************************************************)
(* Proofs about the cutting of transfers into patches, for every backing,  *)
(* every request and every limit on the pieces of a patch.                 *)
(***************************************************************************)
EXTENDS PatchSplit, SequenceTheorems, TLAPS

(***************************************************************************)
(* The inductive invariant. Until the first byte is taken (Idle) the rest  *)
(* of skip leads to "from". Afterwards (Gathering) the patches in out and  *)
(* the one in hdr follow each other from "from" on, and what is gathered   *)
(* ends where the next piece begins, or the request is complete.           *)
(***************************************************************************)
Backing == edge \in Edges /\ offset = edge[i]

Idle == niov = 1 /\ out = <<>> /\ length = want /\ offset + skip = from

Gathering ==
  /\ niov > 1 /\ skip = 0 /\ want > 0
  /\ hdr.len > 0 /\ End(hdr) <= Total
  /\ End(hdr) = from + want - length
  /\ length > 0 => End(hdr) = offset
  /\ hdr.offset = IF out = <<>> THEN from ELSE End(out[Len(out)])

Loop == pc = "loop" => Idle \/ Gathering

IInv ==
  TypeOK /\ Backing /\ Loop /\ PatchesReadable /\ PatchesContiguous /\ AllSent

\* What EdgesAssumption says of the backing at hand: pieces have no negative
\* length, and none ends behind the end of the backing.
LEMMA BackingFacts ==
  ASSUME TypeOK, Backing
  PROVE  /\ Len(edge) \in Nat /\ Len(edge) > 0 /\ Total \in Nat /\ offset <= Total
         /\ i = Len(edge) => offset = Total
         /\ i < Len(edge) => /\ IovLen \in Nat /\ offset + IovLen = edge[i + 1]
                             /\ offset + IovLen <= Total
<1>1. /\ edge \in Seq(Nat) /\ Len(edge) \in Nat /\ Len(edge) > 0
      /\ \A k, l \in 1 .. Len(edge) : k <= l => edge[k] <= edge[l]
      /\ offset = edge[i] /\ i \in 1 .. Len(edge)
  BY EdgesAssumption, LenProperties DEF TypeOK, Backing
<1>2. \A k \in 1 .. Len(edge) : edge[k] \in Nat /\ edge[k] <= Total
  BY <1>1, ElementOfSeq DEF Total
<1>3. Total \in Nat /\ offset <= Total /\ (i = Len(edge) => offset = Total)
  BY <1>1, <1>2 DEF Total
<1>4. ASSUME i < Len(edge)
      PROVE  /\ IovLen \in Nat /\ offset + IovLen = edge[i + 1]
             /\ offset + IovLen <= Total
  <2>1. i + 1 \in 1 .. Len(edge) /\ edge[i] <= edge[i + 1]
    BY <1>1, <1>4
  <2> QED BY <1>1, <1>2, <2>1 DEF IovLen
<1> QED BY <1>1, <1>3, <1>4

LEMMA InvInit == Init => IInv
<1> SUFFICES ASSUME Init PROVE IInv
  OBVIOUS
<1>1. edge \in Seq(Nat) /\ Len(edge) \in Nat /\ Len(edge) > 0 /\ edge[1] = 0
  BY EdgesAssumption, LenProperties DEF Init
<1>2. TypeOK
  BY <1>1, EmptySeq, RequestsAssumption, IovAssumption DEF Init, TypeOK, NoPatch, Patch
<1>3. Backing /\ Loop
  BY <1>1, <1>2 DEF Init, Backing, Loop, Idle, TypeOK
<1>4. PatchesReadable /\ PatchesContiguous /\ AllSent
  BY DEF Init, PatchesReadable, PatchesContiguous, AllSent
<1> QED BY <1>2, <1>3, <1>4 DEF IInv

\* Leaving out a piece before the request.
LEMMA SkipStep ==
  ASSUME IInv, SkipPiece
  PROVE  IInv'
<1>1. /\ TypeOK /\ Backing /\ Loop /\ i < Len(edge) /\ length > 0 /\ skip >= IovLen
      /\ pc = "loop" /\ skip' = skip - IovLen /\ i' = i + 1 /\ offset' = offset + IovLen
      /\ UNCHANGED <<edge, from, want, length, hdr, niov, out, pc>>
  BY DEF IInv, SkipPiece, input
<1>2. /\ Len(edge) \in Nat /\ IovLen \in Nat /\ offset' = edge[i']
  BY <1>1, BackingFacts
<1>3. TypeOK'
  BY <1>1, <1>2 DEF TypeOK
<1>4. Backing'
  BY <1>1, <1>2 DEF Backing
<1>5. Loop'
  <2>1. CASE Idle
    BY <1>1, <1>2, <2>1 DEF Idle, Loop, TypeOK
  <2>2. CASE Gathering
    BY <1>1, <1>2, <2>2 DEF Gathering, Loop, TypeOK, Total, End
  <2> QED BY <1>1, <2>1, <2>2 DEF Loop
<1>6. PatchesReadable' /\ PatchesContiguous' /\ AllSent'
  BY <1>1 DEF IInv, PatchesReadable, PatchesContiguous, AllSent, Total
<1> QED BY <1>3, <1>4, <1>5, <1>6 DEF IInv

\* A patch that starts where the last one ended, not empty and inside the
\* backing, can be written.
LEMMA WritePatch ==
  ASSUME TypeOK, PatchesReadable, PatchesContiguous,
         out' = Append(out, hdr), UNCHANGED <<edge, from>>,
         hdr.len > 0, End(hdr) <= Total,
         hdr.offset = IF out = <<>> THEN from ELSE End(out[Len(out)])
  PROVE  /\ PatchesReadable' /\ PatchesContiguous'
         /\ out' \in Seq(Patch) /\ out' # <<>> /\ out'[Len(out')] = hdr
<1>1. /\ Len(out') = Len(out) + 1 /\ Len(out) \in Nat
      /\ \A k \in 1 .. Len(out) : out'[k] = out[k]
      /\ out'[Len(out) + 1] = hdr /\ out' \in Seq(Patch) /\ out' # <<>>
      /\ out = <<>> <=> Len(out) = 0
  <2>1. out \in Seq(Patch) /\ hdr \in Patch
    BY DEF TypeOK
  <2>2. Len(out) \in Nat /\ (out = <<>> <=> Len(out) = 0)
    BY <2>1, LenProperties, EmptySeq
  <2> QED BY <2>1, <2>2, AppendProperties
<1>2. Total' = Total
  BY DEF Total
<1>3. PatchesReadable'
  BY <1>1, <1>2 DEF PatchesReadable
<1>4. ASSUME NEW k \in 1 .. Len(out')
      PROVE  out'[k].offset = IF k = 1 THEN from ELSE End(out'[k - 1])
  <2>1. CASE k \in 1 .. Len(out)
    BY <1>1, <2>1 DEF PatchesContiguous
  <2>2. CASE k = Len(out) + 1
    BY <1>1, <2>2
  <2> QED BY <1>1, <2>1, <2>2
<1> QED BY <1>1, <1>3, <1>4 DEF PatchesContiguous

\* Taking the bytes of a piece, with or without writing a full patch first.
LEMMA TakeStep ==
  ASSUME IInv, TakePiece
  PROVE  IInv'
<1> DEFINE len == BytesOfPiece
           new == [offset |-> offset + skip, len |-> len]
<1>1. /\ TypeOK /\ Backing /\ Loop /\ PatchesReadable /\ PatchesContiguous
      /\ i < Len(edge) /\ length > 0 /\ skip < IovLen
      /\ pc = "loop" /\ pc' = "loop" /\ skip' = 0 /\ length' = length - len
      /\ i' = i + 1 /\ offset' = offset + IovLen
      /\ UNCHANGED <<edge, from, want>> /\ AddPatch(len)
  BY DEF IInv, TakePiece, input
<1>2. /\ Len(edge) \in Nat /\ IovLen \in Nat /\ offset' = edge[i']
      /\ offset' <= Total /\ Total' = Total /\ Total \in Nat
  BY <1>1, BackingFacts DEF Total
<1>3. /\ length \in Nat /\ skip \in Nat /\ offset \in Nat /\ from \in Nat /\ want \in Nat
      /\ hdr.offset \in Nat /\ hdr.len \in Nat /\ hdr \in Patch
      /\ niov \in 1 .. IovMax /\ out \in Seq(Patch)
  BY <1>1 DEF TypeOK, Patch
<1>4. /\ len \in Nat /\ len > 0 /\ len <= length /\ skip + len <= IovLen
      /\ len # length => skip + len = IovLen
  BY <1>1, <1>2, <1>3 DEF BytesOfPiece, Smaller
<1>5. /\ new \in Patch /\ End(new) = offset + skip + len /\ End(new) <= Total
      /\ new.offset = offset + skip /\ new.len = len
  <2> HIDE DEF len
  <2>1. new \in Patch /\ new.offset = offset + skip /\ new.len = len
    BY <1>3, <1>4 DEF Patch
  <2>2. End(new) = offset + skip + len
    BY <2>1 DEF End
  <2>3. offset + skip + len <= Total
    BY <1>1, <1>2, <1>3, <1>4
  <2> QED BY <2>1, <2>2, <2>3
<1>6. Backing'
  BY <1>1, <1>2 DEF Backing
<1> HIDE DEF len, new
\* The patch that is full is written, and the piece begins a new one.
<1>7. CASE niov = IovMax
  <2>1. /\ Gathering /\ out' = Append(out, hdr) /\ hdr' = new /\ niov' = 2
    BY <1>1, <1>7, IovAssumption DEF Loop, Idle, AddPatch, new
  <2>2. /\ PatchesReadable' /\ PatchesContiguous' /\ out' \in Seq(Patch)
        /\ out' # <<>> /\ out'[Len(out')] = hdr
    BY <1>1, <2>1, WritePatch DEF Gathering
  <2>3. End(hdr) = offset /\ skip = 0 /\ End(hdr) = from + want - length /\ want > 0
    BY <1>1, <2>1 DEF Gathering
  <2>4. End(hdr)' = End(new)
    BY <2>1 DEF End
  <2>5. End(new) = from + want - length + len
    BY <1>3, <1>4, <1>5, <2>3
  <2>6. length' > 0 => End(new) = offset'
    BY <1>1, <1>3, <1>4, <1>5, <2>3
  <2>7. hdr'.offset = End(out'[Len(out')])
    BY <1>3, <1>5, <2>1, <2>2, <2>3 DEF End
  <2>8. Gathering'
    <3>1. niov' > 1 /\ skip' = 0 /\ want' > 0
      BY <1>1, <2>1, <2>3
    <3>2. hdr'.len > 0 /\ End(hdr)' <= Total'
      BY <1>2, <1>4, <1>5, <2>1, <2>4
    <3>3. End(hdr)' = from' + want' - length'
      BY <1>1, <1>3, <1>4, <2>4, <2>5
    <3>4. hdr'.offset = IF out' = <<>> THEN from' ELSE End(out'[Len(out')])
      BY <2>2, <2>7
    <3> QED BY <2>4, <2>6, <3>1, <3>2, <3>3, <3>4 DEF Gathering
  <2>9. TypeOK'
    BY <1>1, <1>2, <1>3, <1>4, <1>5, <2>1, <2>2, IovAssumption DEF TypeOK
  <2> QED BY <1>1, <1>6, <2>2, <2>8, <2>9 DEF IInv, Loop, AllSent
\* The first piece of a patch, or one more.
<1>8. CASE niov # IovMax
  <2>1. /\ out' = out /\ niov' = niov + 1
        /\ hdr' = IF niov = 1 THEN new ELSE [hdr EXCEPT !.len = @ + len]
    BY <1>1, <1>8 DEF AddPatch, new
  <2>2. PatchesReadable' /\ PatchesContiguous'
    BY <1>1, <1>2, <2>1 DEF PatchesReadable, PatchesContiguous
  <2>3. Gathering' /\ hdr' \in Patch
    <3>1. CASE Idle
      <4>1. hdr' = new /\ new.offset = offset + skip /\ new.len = len
        BY <2>1, <3>1 DEF Idle, new
      <4>2. /\ niov = 1 /\ out = <<>> /\ length = want /\ offset + skip = from
        BY <3>1 DEF Idle
      <4>3. End(hdr)' = End(new)
        BY <4>1 DEF End
      <4>4. End(new) = from + want - length'
        BY <1>1, <1>3, <1>4, <1>5, <4>2
      <4>5. length' > 0 => End(new) = offset'
        BY <1>1, <1>3, <1>4, <1>5
      <4>6. niov' > 1 /\ skip' = 0 /\ want' > 0 /\ hdr'.len > 0
        BY <1>1, <1>3, <1>4, <2>1, <4>1, <4>2
      <4>7. hdr'.offset = from /\ out' = <<>>
        BY <2>1, <4>1, <4>2
      <4>8. Gathering'
        BY <1>1, <1>2, <1>5, <4>3, <4>4, <4>5, <4>6, <4>7 DEF Gathering
      <4> QED BY <1>5, <4>1, <4>8
    <3>2. CASE Gathering
      <4>1. /\ hdr' = [hdr EXCEPT !.len = @ + len] /\ hdr' \in Patch
            /\ hdr'.offset = hdr.offset /\ hdr'.len = hdr.len + len
        <5>1. niov # 1
          BY <1>3, <3>2 DEF Gathering
        <5>2. hdr' = [hdr EXCEPT !.len = @ + len]
          BY <2>1, <5>1
        <5>3. hdr \in [offset : Nat, len : Nat]
          BY <1>3 DEF Patch
        <5> QED BY <1>4, <5>2, <5>3 DEF Patch
      <4>2. /\ End(hdr) = offset /\ skip = 0 /\ want > 0 /\ hdr.len > 0 /\ niov > 1
            /\ End(hdr) = from + want - length
            /\ hdr.offset = IF out = <<>> THEN from ELSE End(out[Len(out)])
        BY <1>1, <3>2 DEF Gathering
      <4>3. End(hdr)' = End(hdr) + len
        <5>1. End(hdr)' = hdr'.offset + hdr'.len /\ End(hdr) = hdr.offset + hdr.len
          BY DEF End
        <5>2. hdr.offset \in Nat /\ hdr.len \in Nat /\ len \in Nat
          BY <1>3, <1>4
        <5> QED BY <4>1, <5>1, <5>2
      <4>4. End(hdr) + len = from + want - length'
        <5>1. length' = length - len /\ length \in Nat /\ len \in Nat
          BY <1>1, <1>3, <1>4
        <5> QED BY <1>3, <4>2, <5>1
      <4>5. End(hdr) + len <= Total
        BY <1>3, <1>5, <4>2
      <4>6. length' > 0 => End(hdr) + len = offset'
        <5>1. length' > 0 => len # length
          BY <1>1, <1>3, <1>4
        <5>2. offset' = offset + IovLen /\ (len # length => len = IovLen)
          BY <1>1, <1>2, <1>3, <1>4, <4>2
        <5> QED BY <4>2, <5>1, <5>2
      <4>7. niov' > 1 /\ hdr'.len > 0 /\ skip' = 0 /\ want' > 0
        <5>1. niov \in Nat /\ hdr.len \in Nat /\ len \in Nat
          BY <1>3, <1>4
        <5>2. skip' = 0 /\ want' = want /\ niov' = niov + 1
          BY <1>1, <2>1
        <5> QED BY <4>1, <4>2, <5>1, <5>2
      <4>8. /\ End(hdr)' <= Total' /\ End(hdr)' = from' + want' - length'
            /\ length' > 0 => End(hdr)' = offset'
        <5>1. Total' = Total /\ UNCHANGED <<from, want>>
          BY <1>1, <1>2
        <5> HIDE DEF End, Total
        <5> QED BY <4>3, <4>4, <4>5, <4>6, <5>1
      <4>9. hdr'.offset = IF out' = <<>> THEN from' ELSE End(out'[Len(out')])
        BY <1>1, <2>1, <4>1, <4>2 DEF End
      <4> QED BY <4>1, <4>7, <4>8, <4>9 DEF Gathering
    <3> QED BY <1>1, <3>1, <3>2 DEF Loop
  <2>4. TypeOK'
    <3>1. niov' \in 1 .. IovMax
      BY <1>3, <1>8, <2>1, IovAssumption
    <3>2. i' \in 1 .. Len(edge) /\ length' \in Nat /\ offset' \in Nat
      BY <1>1, <1>2, <1>3, <1>4 DEF TypeOK
    <3>3. /\ UNCHANGED <<edge, from, want, out>> /\ skip' = 0 /\ pc' = "loop"
          /\ hdr' \in Patch
      BY <1>1, <2>1, <2>3
    <3> QED BY <1>1, <3>1, <3>2, <3>3 DEF TypeOK
  <2> QED BY <1>1, <1>6, <2>2, <2>3, <2>4 DEF IInv, Loop, AllSent
<1> QED BY <1>7, <1>8

\* The end of the loop.
LEMMA FinishStep ==
  ASSUME IInv, Finish
  PROVE  IInv'
<1>1. /\ TypeOK /\ Backing /\ Loop /\ PatchesReadable /\ PatchesContiguous
      /\ i = Len(edge) \/ length = 0
      /\ pc = "loop" /\ pc' = "done"
      /\ out' = IF niov = 1 THEN out ELSE Append(out, hdr)
      /\ UNCHANGED <<edge, from, want, i, offset, skip, length, hdr, niov>>
  BY DEF IInv, Finish, input
<1>2. /\ Total \in Nat /\ offset <= Total /\ Total' = Total
      /\ i = Len(edge) => offset = Total
  BY <1>1, BackingFacts DEF Total
<1>3. /\ length \in Nat /\ skip \in Nat /\ offset \in Nat /\ from \in Nat /\ want \in Nat
  BY <1>1 DEF TypeOK
<1>4. CASE Idle
  <2>1. out' = out /\ out = <<>>
    BY <1>1, <1>4 DEF Idle
  <2>2. want = 0 \/ from >= Total
    BY <1>1, <1>2, <1>3, <1>4 DEF Idle
  <2> QED BY <1>1, <1>2, <2>1, <2>2
          DEF IInv, TypeOK, Backing, Loop, PatchesReadable, PatchesContiguous, AllSent
<1>5. CASE Gathering
  <2>1. /\ niov > 1 /\ hdr.len > 0 /\ End(hdr) <= Total
        /\ End(hdr) = from + want - length
        /\ length > 0 => End(hdr) = offset
        /\ hdr.offset = IF out = <<>> THEN from ELSE End(out[Len(out)])
        /\ niov \in Int
    BY <1>1, <1>5 DEF Gathering, TypeOK
  <2>2. out' = Append(out, hdr)
    BY <1>1, <2>1
  <2>3. /\ PatchesReadable' /\ PatchesContiguous' /\ out' \in Seq(Patch)
        /\ out' # <<>> /\ out'[Len(out')] = hdr
    BY <1>1, <2>1, <2>2, WritePatch
  <2>4. End(hdr) = Smaller(from + want, Total)
    BY <1>1, <1>2, <1>3, <2>1 DEF Smaller
  <2>5. AllSent'
    BY <1>1, <1>2, <2>3, <2>4 DEF AllSent
  <2>6. TypeOK' /\ Backing' /\ Loop'
    BY <1>1, <2>3 DEF TypeOK, Backing, Loop
  <2> QED BY <2>3, <2>5, <2>6 DEF IInv
<1> QED BY <1>1, <1>4, <1>5 DEF Loop

\* Every turn of the loop, the last patch and stuttering keep the invariant.
LEMMA CutStep == IInv /\ [Next]_vars => IInv'
<1> SUFFICES ASSUME IInv, [Next]_vars PROVE IInv'
  OBVIOUS
<1>1. CASE SkipPiece
  BY <1>1, SkipStep
<1>2. CASE TakePiece
  BY <1>2, TakeStep
<1>3. CASE Finish
  BY <1>3, FinishStep
<1>4. CASE UNCHANGED vars
  BY <1>4 DEF vars, input, IInv, TypeOK, Backing, Loop, Idle, Gathering, End,
              PatchesReadable, PatchesContiguous, AllSent, Total
<1> QED BY <1>1, <1>2, <1>3, <1>4 DEF Next

\* Every transfer is cut into patches the renderer can read, that follow each
\* other.
THEOREM CutCorrect == Spec => [](TypeOK /\ PatchesSound)
<1>1. IInv => TypeOK /\ PatchesSound
  BY DEF IInv, PatchesSound
<1> QED BY InvInit, CutStep, <1>1, PTL DEF Spec

\* The patches of a transfer carry exactly the bytes asked for.
THEOREM SentCorrect == Spec => []AllSent
<1>1. IInv => AllSent
  BY DEF IInv
<1> QED BY InvInit, CutStep, <1>1, PTL DEF Spec
=============================================================================

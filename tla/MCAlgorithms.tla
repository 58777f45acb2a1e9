---- MODULE MCAlgorithms ----
(* The two sequential algorithms, checked for all inputs of a small size: a   *)
(* behaviour either cuts a transfer into patches or draws one picture.        *)
EXTENDS PatchSplit
CONSTANTS MaxPieces, MaxLen
VARIABLES which, call, src, dst, uv, matrix, dpc

\* All backings of up to MaxPieces pieces of up to MaxLen bytes.
MCEdges ==
  UNION {{e \in [1 .. n + 1 -> 0 .. n * MaxLen] :
            e[1] = 0 /\ \A k \in 1 .. n : e[k + 1] - e[k] \in 0 .. MaxLen}
         : n \in 0 .. MaxPieces}

\* Rectangles that begin before, in and after the picture and the screen; the
\* six directions of the short cuts of matrix_rotate and two oblique axes.
Drawing == INSTANCE Render2D WITH
  Screens <- {<<4, 3>>}, Pictures <- {<<2, 3>>},
  Sources <- {<<x, y, w, h>> : x \in -2 .. 3, y \in {-1, 1}, w \in {0, 2, 4}, h \in {1, 3}},
  Targets <- {<<0, 0, 4, 3>>, <<-1, 1, 2, 3>>, <<5, 0, 1, 1>>, <<-2, -1, 1, 2>>},
  Turns <- 0 .. 3, Pivots <- {<<0, 0>>, <<1, 2>>},
  Axes <- {<<0, 0, 1, 1>>, <<0, 0, -1, 1>>, <<0, 1, 0, 1>>, <<0, -1, 0, 1>>,
           <<1, 0, 0, 1>>, <<-1, 0, 0, 1>>, <<2, -1, 2, 3>>, <<1, 2, -2, 3>>},
  Unit <- 9, pc <- dpc

ASSUME DrawingAssumption == Drawing!UnitAssumption

drawingVars == <<call, src, dst, uv, matrix, dpc>>
NoDrawing == /\ call = <<>> /\ src = <<>> /\ dst = <<>> /\ uv = <<>>
             /\ matrix = <<>> /\ dpc = "none"
NoTransfer == /\ edge = <<0>> /\ from = 0 /\ want = 0 /\ i = 1 /\ offset = 0 /\ skip = 0
              /\ length = 0 /\ hdr = NoPatch /\ niov = 1 /\ out = <<>> /\ pc = "done"

MCInit == \/ which = "transfer" /\ Init /\ NoDrawing
          \/ which = "drawing" /\ Drawing!Init /\ NoTransfer

MCNext == \/ which = "transfer" /\ Next /\ UNCHANGED <<which, drawingVars>>
          \/ which = "drawing" /\ Drawing!Next /\ UNCHANGED <<which, vars>>

MCSpec == MCInit /\ [][MCNext]_<<which, vars, drawingVars>>

\* Each corner of a picture is drawn at the pixel asked for, whichever branch
\* of matrix_rotate turned it; without layouts a texel appears at the pixel of
\* the same number ("directly, starting from the top-left corner, without
\* clipping or scaling", README.md); only texels of the picture are drawn, and a
\* layout that is left out has no pixel of the screen or no texel of the picture.
DrawnRight == /\ Drawing!CornersLand /\ Drawing!Unscaled
              /\ Drawing!TexelsInPicture /\ Drawing!SkippedUnseen
====

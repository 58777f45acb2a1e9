------------------------------- MODULE Render2D -------------------------------
(***************************************************************************)
(* How the compositor places a picture on the screen: the source rectangle *)
(* of a layout is clipped to the picture (compositor_render), and          *)
(* draw_2d_texture_in builds, one call after the other in one matrix of 16 *)
(* floats, the map from the unit square to the screen.                     *)
(*                                                                         *)
(* Arithmetic is exact: an entry of the matrix counts units of 1/Unit, the *)
(* first row of the projection is in units of 1/width of the screen and    *)
(* its second row in units of 1/height, texture coordinates count texels,  *)
(* and angles are quarter turns. The rounding of floats is left out.       *)
(***************************************************************************)
EXTENDS Integers, Sequences, FiniteSetsExt

CONSTANTS
  Screens,  \* sizes <<width, height>>
  Pictures, \* sizes <<img_w, img_h>>
  Sources,  \* rectangles <<x, y, w, h>> of pictures a layout asks for
  Targets,  \* rectangles of the screen a layout asks for
  Turns,    \* angles, in quarter turns
  Pivots,   \* points <<px, py>>
  Axes,     \* axes <<x, y, z, length>> of matrix_rotate
  Unit      \* a multiple of every length * length

UnitAssumption == Unit \in Nat \ {0} /\ \A a \in Axes : Unit % (a[4] * a[4]) = 0

Entries == 0 .. 15
Total(f) == FoldSet(LAMBDA k, sum : sum + f[k], 0, DOMAIN f)

matrix_identity == [k \in Entries |-> IF k % 5 = 0 THEN Unit ELSE 0]

matrix_translate(m, x, y, z) ==
  [k \in Entries |-> IF k < 12 THEN m[k]
                     ELSE m[k] + m[k - 12] * x + m[k - 8] * y + m[k - 4] * z]

\* Column a turns towards column b: cosA and sinA are c and s.
TurnColumns(m, a, b, c, s) ==
  [k \in Entries |-> CASE k \div 4 = a -> c * m[k] + s * m[k + 4 * (b - a)]
                       [] k \div 4 = b -> c * m[k] - s * m[k - 4 * (b - a)]
                       [] OTHER -> m[k]]
turn_x(m, c, s) == TurnColumns(m, 1, 2, c, s)
turn_y(m, c, s) == TurnColumns(m, 2, 0, c, s)
turn_z(m, c, s) == TurnColumns(m, 0, 1, c, s)

\* The rotation about an axis of any direction, in units of 1/length^2.
RotationAbout(axis, c, s) ==
  LET x == axis[1]  y == axis[2]  z == axis[3]
      d == axis[4] * axis[4] * c
      n == axis[4] * s
      r == 1 - c
  IN <<<<x * x * r + d, x * y * r - z * n, x * z * r + y * n>>,
       <<y * x * r + z * n, y * y * r + d, y * z * r - x * n>>,
       <<z * x * r - y * n, z * y * r + x * n, z * z * r + d>>>>

GeneralTurn(m, axis, c, s) ==
  LET R == RotationAbout(axis, c, s)
  IN [k \in Entries |->
        IF k >= 12 THEN m[k]
        ELSE Total([i \in 0 .. 2 |-> m[(k % 4) + 4 * i] * R[i + 1][k \div 4 + 1]])
               \div (axis[4] * axis[4])]

Cos(turn) == <<1, 0, -1, 0>>[turn + 1]
Sin(turn) == <<0, 1, 0, -1>>[turn + 1]
Sign(a) == IF a < 0 THEN -1 ELSE 1

\* Mutant: an axis that points backwards turns as the one that points forward.
matrix_rotate_NoSign(m, turn, axis) ==
  LET x == axis[1]  y == axis[2]  z == axis[3]
  IN CASE x = 0 /\ y = 0 /\ z # 0 -> turn_z(m, Cos(turn), Sin(turn))
       [] x = 0 /\ y # 0 /\ z = 0 -> turn_y(m, Cos(turn), Sin(turn))
       [] x # 0 /\ y = 0 /\ z = 0 -> turn_x(m, Cos(turn), Sin(turn))
       [] OTHER -> GeneralTurn(m, axis, Cos(turn), Sin(turn))

matrix_rotate(m, turn, axis) ==
  LET x == axis[1]  y == axis[2]  z == axis[3]
      c == Cos(turn)  s == Sin(turn)
  IN CASE x = 0 /\ y = 0 /\ z # 0 -> turn_z(m, c, Sign(z) * s)
       [] x = 0 /\ y # 0 /\ z = 0 -> turn_y(m, c, Sign(y) * s)
       [] x # 0 /\ y = 0 /\ z = 0 -> turn_x(m, c, Sign(x) * s)
       [] OTHER -> GeneralTurn(m, axis, c, s)

matrix_scale(m, x, y, z) == [k \in Entries |-> m[k] * <<x, y, z, 1>>[k \div 4 + 1]]

matrix_mult(m1, m2) ==
  [k \in Entries |-> Total([i \in 0 .. 3 |-> m1[(k % 4) + 4 * i] * m2[4 * (k \div 4) + i]])]

\* s_matprj.
set_2d_projection_matrix(w, h) ==
  [k \in Entries |-> CASE k = 0 -> 2 [] k = 5 -> -2 [] k = 12 -> -w
                       [] k = 13 -> h [] k = 15 -> 1 [] OTHER -> 0]

varray == <<<<0, 0>>, <<0, 1>>, <<1, 0>>, <<1, 1>>>>

\* The corners of the texture, mirrored as flip_mode says.
flip_texcoord(img, flip) ==
  [k \in 1 .. 4 |->
     <<IF "H" \in flip THEN img[1] - varray[k][1] * img[1] ELSE varray[k][1] * img[1],
       IF "V" \in flip THEN img[2] - varray[k][2] * img[2] ELSE varray[k][2] * img[2]>>]

user_texcoord(s) ==
  <<<<s[1], s[2]>>, <<s[1], s[2] + s[4]>>, <<s[1] + s[3], s[2]>>, <<s[1] + s[3], s[2] + s[4]>>>>

VARIABLES
  call,   \* who draws, the screen, the picture, and what it asks for
  src,    \* the part of the picture that is drawn
  dst,    \* x, y, w and h of texparam_t
  uv,     \* the texel of each vertex
  matrix,
  pc      \* the call draw_2d_texture_in makes next

vars == <<call, src, dst, uv, matrix, pc>>

\* A layout asks for a part of a picture; a surface without layouts is drawn
\* whole; draw_2d_texture may mirror; no caller sets rot, which "free" does.
Calls ==
  [by : {"layout", "initial"}, screen : Screens, img : Pictures, src : Sources,
   dst : Targets, turn : {0}, pivot : {<<0, 0>>}, axis : {<<0, 0, 1, 1>>}, flip : {{}}]
  \cup [by : {"direct", "texture", "free"}, screen : Screens, img : Pictures, src : {<<0, 0, 0, 0>>},
        dst : Targets, turn : Turns, pivot : Pivots, axis : Axes, flip : SUBSET {"H", "V"}]

Whole(img) == <<0, 0, img[1], img[2]>>
Unturned(c) == c.turn = 0 /\ c.pivot = <<0, 0>> /\ c.axis = <<0, 0, 1, 1>>

Init ==
  /\ call \in {c \in Calls : /\ c.by \in {"direct", "texture"} => Unturned(c)
                             /\ c.by \in {"direct", "free"} => c.flip = {}}
  /\ src = call.src /\ dst = call.dst
  /\ uv = varray /\ matrix = matrix_identity
  /\ pc = IF call.by = "layout" THEN "clip" ELSE "coords"

\* Mutant: a rectangle that begins outside counts as outside.
Outside_Begins(c) ==
  \E i \in {1, 2} : c.src[i] > c.img[i] \/ c.src[i] < 0 \/ c.dst[i] > c.screen[i] \/ c.dst[i] < 0

\* A layout that shows nothing of the picture or of the screen is left out.
Outside(c) ==
  \E i \in {1, 2} : \/ c.src[i] > c.img[i] \/ c.src[i] + c.src[i + 2] < 0
                    \/ c.dst[i] > c.screen[i] \/ c.dst[i] + c.dst[i + 2] < 0

ClipSide(x, w, img) ==
  LET x1 == IF x < 0 THEN 0 ELSE x
      w1 == IF x < 0 THEN w + x ELSE w
  IN <<x1, IF x1 + w1 > img THEN img - x1 ELSE w1>>

\* Mutant: only the far sides are clipped.
Clip_FarSides(s, img) ==
  [k \in 1 .. 4 |-> IF k > 2 /\ s[k - 2] + s[k] > img[k - 2] THEN img[k - 2] - s[k - 2] ELSE s[k]]

Clip(s, img) ==
  LET h == ClipSide(s[1], s[3], img[1])
      v == ClipSide(s[2], s[4], img[2])
  IN <<h[1], v[1], h[2], v[2]>>

ClipLayout ==
  /\ pc = "clip"
  /\ IF Outside(call) THEN pc' = "skipped" /\ UNCHANGED src
                      ELSE pc' = "coords" /\ src' = Clip(src, call.img)
  /\ UNCHANGED <<call, dst, uv, matrix>>

\* Mutant: the picture of a surface fills the screen.
DirectTarget_Stretched(c) == <<0, 0, c.screen[1], c.screen[2]>>

\* The arguments without layouts.
DirectTarget(c) == Whole(c.img)

\* The texture coordinates: those of the caller, or the whole texture.
Coordinates ==
  /\ pc = "coords"
  /\ LET part == IF call.by = "layout" THEN src ELSE Whole(call.img)
     IN /\ src' = part
        /\ uv' = IF call.by \in {"texture", "free"} THEN flip_texcoord(call.img, call.flip)
                 ELSE user_texcoord(part)
  /\ dst' = IF call.by = "direct" THEN DirectTarget(call) ELSE dst
  /\ pc' = "place"
  /\ UNCHANGED <<call, matrix>>

Place ==
  /\ pc = "place"
  /\ matrix' = matrix_translate(matrix_identity, dst[1], dst[2], 0)
  /\ pc' = IF call.turn = 0 THEN "scale" ELSE "turn"
  /\ UNCHANGED <<call, src, dst, uv>>

TurnRound ==
  /\ pc = "turn"
  /\ LET p == call.pivot
         there == matrix_translate(matrix, p[1], p[2], 0)
     IN matrix' = matrix_translate(matrix_rotate(there, call.turn, call.axis), -p[1], -p[2], 0)
  /\ pc' = "scale"
  /\ UNCHANGED <<call, src, dst, uv>>

ScaleUp ==
  /\ pc = "scale"
  /\ matrix' = matrix_scale(matrix, dst[3], dst[4], 1)
  /\ pc' = "project"
  /\ UNCHANGED <<call, src, dst, uv>>

Project ==
  /\ pc = "project"
  /\ matrix' = matrix_mult(set_2d_projection_matrix(call.screen[1], call.screen[2]), matrix)
  /\ pc' = "drawn"
  /\ UNCHANGED <<call, src, dst, uv>>

Next == ClipLayout \/ Coordinates \/ Place \/ TurnRound \/ ScaleUp \/ Project
Spec == Init /\ [][Next]_vars
-------------------------------------------------------------------------------
(* What the calls are for, said without matrices. *)

Cross(a, b) == <<a[2] * b[3] - a[3] * b[2], a[3] * b[1] - a[1] * b[3], a[1] * b[2] - a[2] * b[1]>>
Dot(a, b) == a[1] * b[1] + a[2] * b[2] + a[3] * b[3]

\* A point turned about the axis (the formula of Rodrigues), times Unit.
Turned(p) ==
  IF call.turn = 0 THEN [i \in 1 .. 3 |-> Unit * p[i]]
  ELSE LET a == call.axis
           l == a[4]
           c == Cos(call.turn)
           s == Sin(call.turn)
       IN [i \in 1 .. 3 |-> (Unit * (l * l * c * p[i] + l * s * Cross(a, p)[i]
                                       + (1 - c) * Dot(a, p) * a[i])) \div (l * l)]

\* Where corner v of the unit square must appear, in pixels times Unit.
Expected(v) ==
  LET arm == <<dst[3] * v[1] - call.pivot[1], dst[4] * v[2] - call.pivot[2], 0>>
      at == IF call.turn = 0 THEN <<dst[3] * v[1], dst[4] * v[2], 0>>
            ELSE <<call.pivot[1], call.pivot[2], 0>>
  IN [i \in 1 .. 2 |-> Unit * (dst[i] + at[i])
                         + IF call.turn = 0 THEN 0 ELSE Turned(arm)[i]]

\* What the matrix makes of the corner: the i-th clip coordinate.
Clipped(v, i) == matrix[i] * v[1] + matrix[4 + i] * v[2] + matrix[12 + i]

\* Each corner of the picture is drawn at the pixel asked for, whichever of
\* the branches of matrix_rotate turned it: in clip coordinates x runs from
\* the left side (-1) to the right, y from the bottom (-1) to the top, nothing
\* lies in front of the screen or behind it, and the divisor is 1.
\* Violated by: a sign, an index or an order of factors that is wrong in one
\* of the hand-unrolled products of rvgpu-render2d.c.
CornersLand ==
  pc = "drawn" =>
    \A k \in 1 .. 4 :
      LET v == varray[k]
          p == Expected(v)
      IN /\ Clipped(v, 0) = 2 * p[1] - Unit * call.screen[1]
         /\ Clipped(v, 1) = Unit * call.screen[2] - 2 * p[2]
         /\ Clipped(v, 2) = 0
         /\ Clipped(v, 3) = Unit

\* Only texels of the picture are drawn, however far outside the rectangle of
\* the layout lies, and a vertex gets the corner of the source that matches
\* its corner of the target (or the mirrored one): the two arrays of
\* coordinates are in the same order.
TexelsInPicture ==
  pc = "drawn" =>
    \A k \in 1 .. 4, i \in {1, 2} :
      LET side == IF <<"H", "V">>[i] \in call.flip THEN 1 - varray[k][i] ELSE varray[k][i]
      IN /\ uv[k][i] \in 0 .. call.img[i]
         /\ uv[k][i] = src[i] + side * src[i + 2]

\* Without layouts pictures are composed "directly, starting from the top-left
\* corner, without clipping or scaling" (README.md): a texel appears at the
\* pixel of the same number.
Unscaled ==
  pc = "drawn" /\ call.by = "direct" =>
    \A k \in 1 .. 4 :
      /\ Clipped(varray[k], 0) = Unit * (2 * uv[k][1] - call.screen[1])
      /\ Clipped(varray[k], 1) = Unit * (call.screen[2] - 2 * uv[k][2])

\* A layout that is left out shows nothing: no pixel of the screen and no texel
\* of the picture are inside its rectangles.
SkippedUnseen ==
  pc = "skipped" =>
    \E i \in {1, 2} :
      \/ \A p \in 0 .. call.screen[i] - 1 : ~(call.dst[i] <= p /\ p < call.dst[i] + call.dst[i + 2])
      \/ \A t \in 0 .. call.img[i] - 1 : ~(call.src[i] <= t /\ t < call.src[i] + call.src[i + 2])
===============================================================================

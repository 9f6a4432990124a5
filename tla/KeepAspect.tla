------------------------------ MODULE KeepAspect ------------------------------
(***************************************************************************)
(* The arithmetic of scaleKeepAspect (Sources/Preprocessor.cpp): the size  *)
(* a picture gets inside its canvas, and the row and column of the canvas  *)
(* that each of its rows and columns is copied to, computed with doubles.  *)
(*                                                                         *)
(* A double is a whole number of units, One of them to a pixel.  Rounded   *)
(* gives every double a quotient may be rounded to: no further than Err    *)
(* from it, and not beyond a multiple of half a pixel, all of which are    *)
(* doubles themselves (rounding is monotonic).  What holds for all of      *)
(* these holds for round to nearest.  For sizes up to Longest a double of  *)
(* 53 bits is at most Longest / 2^53 pixels off, so the assumption below   *)
(* is met up to 131072 pixels a side.                                      *)
(*                                                                         *)
(* The body of the loop over (x, y) computes oy from y alone and ox from x *)
(* alone: here the columns are placed first (axis 1) and then the rows     *)
(* (axis 2).                                                               *)
(***************************************************************************)
EXTENDS Integers

CONSTANTS
  Longest,  \* the largest side of a picture or canvas
  Half,     \* units in half a pixel
  Err       \* how many units rounding may be off

ASSUME LongestAssumption == Longest \in Nat \ {0}
ASSUME UnitAssumption ==
  /\ Half \in Nat \ {0} /\ Err \in Nat
  /\ Longest * ((Longest + 1) * Err) < Half

One == 2 * Half

VARIABLES
  pc,       \* "start", "scale", "place", "done", "resized", "undefined"
  picture,  \* <<image.width, image.height>>
  canvas,   \* <<width, height>>
  scale,
  fit,      \* <<ow * scale, oh * scale>>
  axis,     \* what is being placed
  line,     \* x or y
  place,    \* ox or oy of the line placed last
  before,   \* the one before
  first     \* that of line 0

sizes == <<picture, canvas>>
loop  == <<axis, line, place, before, first>>
vars  == <<pc, sizes, scale, fit, loop>>

Halves == (-4 * Longest)..(4 * Longest)

\* The doubles a / b may become, b > 0.
Rounded(a, b) ==
  { r \in (a \div b - Err)..(a \div b + Err + 1) :
      /\ (r - Err) * b <= a /\ a <= (r + Err) * b
      /\ \A k \in Halves : /\ k * Half * b <= a => k * Half <= r
                           /\ a <= k * Half * b => r <= k * Half }

\* To the nearest pixel.
MutTrunc(r) == (r + Half) \div One

\* static_cast<int>.
Trunc(r) == IF r >= 0 THEN r \div One ELSE -((-r) \div One)

Fit == <<Trunc(fit[1]), Trunc(fit[2])>>

Wide == picture[1] * canvas[2] > canvas[1] * picture[2]

Scales == IF Wide THEN Rounded(canvas[1] * One, picture[1])
          ELSE Rounded(canvas[2] * One, picture[2])

\* One margin for all that is left over.
MutMargins(a) == Rounded(canvas[a] * One - fit[a], 1)
\* h / 2.0 - oh * scale / 2.0; the halves are exact.
Margins(a) == Rounded(canvas[a] * One - fit[a], 2)

\* The line scaled once more.
MutPlaces(margin, l) == { Trunc(r) : r \in Rounded(margin + l * scale, 1) }
Places(margin, l) == { Trunc(r) : r \in Rounded(margin + l * One, 1) }

-----------------------------------------------------------------------------
Side == 1..Longest

Init ==
  /\ pc = "start"
  /\ picture \in Side \X Side /\ canvas \in Side \X Side
  /\ scale = 0 /\ fit = <<0, 0>>
  /\ axis = 1 /\ line = 0 /\ place = 0 /\ before = 0 /\ first = 0

\* The quotients are equal as doubles when they are equal.
SameAspect == picture[1] * canvas[2] = canvas[1] * picture[2]

Resize ==
  /\ pc = "start" /\ SameAspect
  /\ pc' = "resized"
  /\ UNCHANGED <<sizes, scale, fit, loop>>

Choose ==
  /\ pc = "start" /\ ~SameAspect
  /\ scale' \in Scales
  /\ pc' = "scale"
  /\ UNCHANGED <<sizes, fit, loop>>

Scale ==
  /\ pc = "scale"
  /\ fit' \in Rounded(picture[1] * scale, 1) \X Rounded(picture[2] * scale, 1)
  /\ pc' = IF Trunc(fit'[1]) = 0 \/ Trunc(fit'[2]) = 0 THEN "undefined" ELSE "place"
  /\ UNCHANGED <<sizes, scale, loop>>

\* Line line of the axis is copied; with the margin computed anew each time.
PlaceLine ==
  /\ pc = "place" /\ line < Fit[axis]
  /\ \E margin \in Margins(axis) : place' \in Places(margin, line)
  /\ before' = place
  /\ first' = IF line = 0 THEN place' ELSE first
  /\ line' = line + 1
  /\ UNCHANGED <<pc, sizes, scale, fit, axis>>

NextAxis ==
  /\ pc = "place" /\ line = Fit[axis]
  /\ IF axis = 1 THEN axis' = 2 /\ line' = 0 /\ pc' = pc
     ELSE pc' = "done" /\ UNCHANGED <<axis, line>>
  /\ UNCHANGED <<sizes, scale, fit, place, before, first>>

Next == Resize \/ Choose \/ Scale \/ PlaceLine \/ NextAxis

Spec == Init /\ [][Next]_vars

-----------------------------------------------------------------------------
(* Every row and column is copied to one of the canvas: the buffer of      *)
(* width * height pixels is not left, however the doubles are rounded.     *)
(* They stay in their order, and of two neighbours on the picture no more  *)
(* than one line of the canvas lies between them.  That they do not fall   *)
(* on the same line is not promised: rounding can put two on one.          *)
OnCanvas ==
  pc = "place" =>
    /\ line > 0 => place \in 0..(canvas[axis] - 1)
    /\ line > 1 => place \in before..(before + 2)

(* The picture is in the middle: what is left free before its first line   *)
(* and after its last differ by no more than two.                          *)
Centred ==
  pc = "place" /\ line > 0 /\ line = Fit[axis] =>
    first - (canvas[axis] - 1 - place) \in -2..2

P == INSTANCE Preprocessor

(* The size the picture gets is one of those Preprocessor allows for the   *)
(* cut to an int of the exact product: doubles make it smaller by one at   *)
(* most, never larger.                                                     *)
FitIsTruncated ==
  pc \in {"place", "undefined"} =>
    Fit \in P!Fitted([width |-> picture[1], height |-> picture[2]], canvas[1], canvas[2])
=============================================================================

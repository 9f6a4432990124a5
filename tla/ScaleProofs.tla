----------------------------- MODULE ScaleProofs ------------------------------
(***************************************************************************)
(* Proofs about scaling a picture: the arithmetic of scaleKeepAspect, for  *)
(* every size up to Longest and every way the doubles may be rounded, and  *)
(* the lines stb_image_resize takes from its source and gives to its       *)
(* result, for every pair of sizes that meets PrecisionAssumption: only    *)
(* for those does FloorOf say how the floats of the code are rounded.      *)
(***************************************************************************)
EXTENDS KeepAspect, ResizeRing, Sequences, TLAPS

-----------------------------------------------------------------------------
(* Whole numbers.                                                          *)

LEMMA UnitFacts ==
  /\ Longest \in Nat \ {0} /\ Half \in Nat \ {0} /\ Err \in Nat
  /\ One = 2 * Half /\ One \in Nat \ {0}
BY LongestAssumption, UnitAssumption DEF One

LEMMA ProductGrows ==
  ASSUME NEW a \in Int, NEW b \in Int, NEW k \in Nat, a <= b
  PROVE  k * a <= k * b /\ a * k <= b * k
OBVIOUS

LEMMA ProductCancels ==
  ASSUME NEW a \in Int, NEW b \in Int, NEW k \in Nat \ {0}, k * a < k * b
  PROVE  a < b
<1>1. ASSUME b <= a PROVE FALSE
  <2>1. k * b <= k * a
    BY <1>1, ProductGrows
  <2> QED
    BY <2>1
<1> QED
  BY <1>1

LEMMA DivisionFacts ==
  ASSUME NEW a \in Int, NEW b \in Nat \ {0}
  PROVE  /\ a \div b \in Int
         /\ b * (a \div b) <= a
         /\ a < b * (a \div b + 1)
OBVIOUS

\* The error a product of two sides may have is less than half a pixel.
LEMMA ErrorBound ==
  ASSUME NEW p \in Side, NEW m \in Side
  PROVE  p * ((m + 1) * Err) \in Nat /\ p * ((m + 1) * Err) < Half
<1>1. /\ p \in Nat /\ m \in Nat /\ p <= Longest /\ m + 1 <= Longest + 1
      /\ Longest * ((Longest + 1) * Err) < Half
  BY UnitFacts, UnitAssumption DEF Side
<1> DEFINE d == (m + 1) * Err
           e == (Longest + 1) * Err
<1>2. d \in Nat /\ e \in Nat /\ d <= e
  BY <1>1, UnitFacts, ProductGrows
<1> HIDE DEF d, e
<1>3. p * d <= p * e /\ p * e <= Longest * e /\ p * d \in Nat /\ p * e \in Nat
        /\ Longest * e \in Nat
  BY <1>1, <1>2, UnitFacts, ProductGrows
<1>4. Longest * e < Half
  BY <1>1 DEF e
<1>5. p * d < Half
  BY <1>3, <1>4, UnitFacts
<1> QED
  BY <1>3, <1>5 DEF d

LEMMA RoundedFacts ==
  ASSUME NEW a \in Int, NEW b \in Nat \ {0}, NEW r \in Rounded(a, b)
  PROVE  /\ r \in Int
         /\ (r - Err) * b <= a /\ a <= (r + Err) * b
         /\ \A k \in Halves : /\ k * Half * b <= a => k * Half <= r
                              /\ a <= k * Half * b => r <= k * Half
<1>1. a \div b \in Int
  BY DivisionFacts
<1> QED
  BY <1>1, UnitFacts DEF Rounded

-----------------------------------------------------------------------------
(* The size.  A side of p pixels becomes c, and with the same scale one of *)
(* m becomes m * c / p, in units.                                          *)

LEMMA FitError ==
  ASSUME NEW p \in Side, NEW c \in Side, NEW m \in Side,
         NEW s \in Rounded(c * One, p), NEW f \in Rounded(m * s, 1)
  PROVE  /\ f \in Int
         /\ p * f <= m * c * One + p * ((m + 1) * Err)
         /\ m * c * One - p * ((m + 1) * Err) <= p * f
<1>1. p \in Nat \ {0} /\ c \in Nat \ {0} /\ m \in Nat \ {0} /\ One \in Nat /\ Err \in Nat
  BY UnitFacts DEF Side
<1>2. c * One \in Int /\ 1 \in Nat \ {0}
  BY <1>1
<1>3. s \in Int /\ (s - Err) * p <= c * One /\ c * One <= (s + Err) * p
  BY <1>1, <1>2, RoundedFacts
<1>4. m * s \in Int
  BY <1>1, <1>3
<1>5. f \in Int /\ f - Err <= m * s /\ m * s <= f + Err
  <2>1. f \in Int /\ (f - Err) * 1 <= m * s /\ m * s <= (f + Err) * 1
    BY <1>2, <1>4, RoundedFacts
  <2> QED
    BY <2>1, <1>1
<1>6. p * (f - Err) <= p * (m * s) /\ p * (m * s) <= p * (f + Err)
  BY <1>1, <1>4, <1>5, ProductGrows
<1>7. m * ((s - Err) * p) <= m * (c * One) /\ m * (c * One) <= m * ((s + Err) * p)
  BY <1>1, <1>3, ProductGrows
<1>8. /\ p * (f - Err) = p * f - p * Err /\ p * (f + Err) = p * f + p * Err
      /\ m * ((s - Err) * p) = p * (m * s) - p * (m * Err)
      /\ m * ((s + Err) * p) = p * (m * s) + p * (m * Err)
      /\ m * (c * One) = m * c * One
      /\ p * ((m + 1) * Err) = p * (m * Err) + p * Err
  BY <1>1, <1>3, <1>5
<1> QED
  BY <1>1, <1>3, <1>5, <1>6, <1>7, <1>8

LEMMA FitFacts ==
  ASSUME NEW p \in Side, NEW c \in Side, NEW m \in Side,
         NEW s \in Rounded(c * One, p), NEW f \in Rounded(m * s, 1)
  PROVE  /\ f \in Nat /\ Trunc(f) \in Nat
         /\ Trunc(f) * One <= f /\ f < (Trunc(f) + 1) * One
         /\ Trunc(f) * p <= m * c /\ m * c <= (Trunc(f) + 1) * p
<1> DEFINE x == m * c
           g == p * ((m + 1) * Err)
           v == Trunc(f)
<1>1. p \in Nat \ {0} /\ x \in Nat \ {0} /\ One \in Nat \ {0}
  BY UnitFacts DEF Side
<1>2. g \in Nat /\ g < One
  BY ErrorBound, UnitFacts
<1>3. f \in Int /\ p * f <= x * One + g /\ x * One - g <= p * f
  BY FitError
<1> HIDE DEF x, g
<1>4. f \in Nat
  <2>1. x * One >= One
    BY <1>1
  <2>2. p * 0 < p * f
    BY <1>1, <1>2, <1>3, <2>1
  <2> QED
    BY <1>1, <1>3, <2>2, ProductCancels
<1>5. v = f \div One
  BY <1>4 DEF Trunc
<1>6. v \in Nat /\ One * v <= f /\ f < One * (v + 1)
  BY <1>1, <1>4, <1>5, DivisionFacts
<1> HIDE DEF v
<1>7. v * p <= x
  <2>1. p * (One * v) <= p * f
    BY <1>1, <1>3, <1>6, ProductGrows
  <2>2. p * (One * v) = One * (v * p) /\ x * One + One = One * (x + 1)
    BY <1>1, <1>6
  <2>3. One * (v * p) < One * (x + 1)
    BY <1>1, <1>2, <1>3, <1>6, <2>1, <2>2
  <2>4. v * p < x + 1
    BY <1>1, <1>6, <2>3, ProductCancels
  <2> QED
    BY <1>1, <1>6, <2>4
<1>8. x <= (v + 1) * p
  <2>1. p * f <= p * (One * (v + 1))
    BY <1>1, <1>3, <1>6, ProductGrows
  <2>2. p * (One * (v + 1)) = One * ((v + 1) * p)
    BY <1>1, <1>6
  <2>3. One * x < One * ((v + 1) * p + 1)
    BY <1>1, <1>2, <1>3, <1>6, <2>1, <2>2
  <2>4. x < (v + 1) * p + 1
    BY <1>1, <1>6, <2>3, ProductCancels
  <2> QED
    BY <1>1, <1>6, <2>4
<1>9. v * One <= f /\ f < (v + 1) * One
  BY <1>1, <1>6
<1> QED
  BY <1>4, <1>6, <1>7, <1>8, <1>9 DEF x, v

-----------------------------------------------------------------------------
(* The places.  A picture of n lines on a side of c leaves c - n, and less *)
(* than one more for what is cut off: the place of a line lies between two *)
(* multiples of half a pixel, which rounding does not pass.                *)

LEMMA PlaceFacts ==
  ASSUME NEW c \in Side, NEW n \in 1..c, NEW f \in Nat,
         n * One <= f, f < (n + 1) * One, NEW l \in 0..(n - 1),
         NEW margin \in Rounded(c * One - f, 2),
         NEW r \in Rounded(margin + l * One, 1)
  PROVE  /\ Trunc(r) \in 0..(c - 1)
         /\ c - n - 2 + 2 * l <= 2 * Trunc(r)
         /\ 2 * Trunc(r) <= c - n + 2 * l
<1> DEFINE low  == c - n - 1
           high == c - n
           q    == Trunc(r)
<1>1. /\ c \in Nat /\ n \in Nat \ {0} /\ l \in Nat /\ n <= c /\ l <= n - 1 /\ c <= Longest
      /\ Longest \in Nat /\ Half \in Nat \ {0} /\ One = 2 * Half /\ One \in Nat \ {0}
  BY UnitFacts DEF Side
<1>2. /\ low \in Int /\ high \in Int /\ low + 2 * l \in Int /\ high + 2 * l \in Int
      /\ low \in Halves /\ high \in Halves
      /\ low + 2 * l \in Halves /\ high + 2 * l \in Halves
      /\ low + 2 * l >= -1 /\ high + 2 * l = low + 2 * l + 1 /\ high + 2 * l <= 2 * c - 2
  BY <1>1 DEF Halves
<1>3. low * Half * 2 <= c * One - f /\ c * One - f <= high * Half * 2
  <2>1. low * Half * 2 = c * One - (n + 1) * One /\ high * Half * 2 = c * One - n * One
    BY <1>1
  <2> HIDE DEF low, high
  <2>2. c * One \in Nat /\ n * One \in Nat /\ (n + 1) * One \in Nat
    BY <1>1
  <2> QED
    BY <2>1, <2>2
<1>4. c * One - f \in Int /\ 2 \in Nat \ {0} /\ 1 \in Nat \ {0}
  BY <1>1
<1>5. margin \in Int /\ low * Half <= margin /\ margin <= high * Half
  <2> HIDE DEF low, high
  <2> QED
    BY <1>2, <1>3, <1>4, RoundedFacts
<1>6. margin + l * One \in Int
  BY <1>1, <1>5
<1>7. /\ (low + 2 * l) * Half * 1 <= margin + l * One
      /\ margin + l * One <= (high + 2 * l) * Half * 1
  <2> HIDE DEF low, high
  <2>1. /\ (low + 2 * l) * Half * 1 = low * Half + l * One
        /\ (high + 2 * l) * Half * 1 = high * Half + l * One
    BY <1>1, <1>2
  <2>2. low * Half \in Int /\ high * Half \in Int /\ l * One \in Int
    BY <1>1, <1>2
  <2> QED
    BY <1>5, <2>1, <2>2
<1> DEFINE a == low + 2 * l
           b == high + 2 * l
<1>8. r \in Int /\ a * Half <= r /\ r <= b * Half
  <2>1. a \in Halves /\ b \in Halves /\ a * Half * 1 <= margin + l * One
        /\ margin + l * One <= b * Half * 1
    BY <1>2, <1>7
  <2> HIDE DEF low, high, a, b
  <2> QED
    BY <1>4, <1>6, <2>1, RoundedFacts
<1>9. a \in Int /\ b = a + 1 /\ a >= -1 /\ b <= 2 * c - 2 /\ a = c - n - 1 + 2 * l
  BY <1>1, <1>2
<1> HIDE DEF a, b, low, high
<1>10. q \in Nat /\ a - 1 <= 2 * q /\ 2 * q <= b
  <2>1. CASE r >= 0
    <3>1. q = r \div One
      BY <2>1 DEF Trunc
    <3>2. r \in Int /\ r >= 0
      BY <1>8, <2>1
    <3> HIDE DEF q
    <3>3. q \in Int /\ One * q <= r /\ r < One * (q + 1)
      BY <1>1, <3>2, <3>1, DivisionFacts
    <3>4. q \in Nat
      <4>1. One * 0 < One * (q + 1)
        BY <1>1, <3>2, <3>3
      <4>2. 0 < q + 1
        BY <1>1, <3>3, <4>1, ProductCancels
      <4> QED
        BY <3>3, <4>2
    <3>5. q \in Nat /\ One * q <= r /\ r < One * (q + 1)
      BY <3>3, <3>4
    <3>6. One * q = Half * (2 * q) /\ One * (q + 1) = Half * (2 * q + 2)
      BY <1>1, <3>5
    <3>7. Half * (2 * q) < Half * (b + 1) /\ Half * a < Half * (2 * q + 2)
      <4>1. Half * (b + 1) = b * Half + Half /\ Half * a = a * Half
        BY <1>1, <1>9
      <4>2. b * Half \in Int /\ a * Half \in Int
        BY <1>1, <1>9
      <4> QED
        BY <1>1, <1>8, <3>5, <3>6, <4>1, <4>2
    <3>8. 2 * q < b + 1 /\ a < 2 * q + 2
      BY <1>1, <1>9, <3>5, <3>7, ProductCancels
    <3> QED
      BY <1>9, <3>5, <3>8
  <2>2. CASE r < 0
    <3>1. a = -1
      <4>1. a * Half < 0 * Half
        BY <1>1, <1>8, <1>9, <2>2
      <4>2. Half * a < Half * 0
        BY <4>1, <1>1, <1>9
      <4> QED
        BY <4>2, <1>1, <1>9, ProductCancels
    <3>2. -r \in Nat /\ -r <= Half
      BY <1>1, <1>8, <2>2, <3>1
    <3>3. (-r) \div One = 0
      BY <1>1, <3>2
    <3>4. q = 0
      BY <2>2, <3>3, <1>8 DEF Trunc
    <3> HIDE DEF q
    <3> QED
      BY <1>9, <3>1, <3>4
  <2> QED
    BY <1>8, <2>1, <2>2
<1> HIDE DEF q
<1>11. q \in 0..(c - 1) /\ c - n - 2 + 2 * l <= 2 * q /\ 2 * q <= c - n + 2 * l
  BY <1>1, <1>9, <1>10
<1> QED
  BY <1>11 DEF q

-----------------------------------------------------------------------------
(* The invariant.                                                          *)

FitOk(a) ==
  /\ fit[a] \in Nat /\ Fit[a] \in Nat /\ Fit[a] <= canvas[a]
  /\ Fit[a] * One <= fit[a] /\ fit[a] < (Fit[a] + 1) * One

\* Where line l may be.
Near(q, l) ==
  /\ q \in 0..(canvas[axis] - 1)
  /\ canvas[axis] - Fit[axis] - 2 + 2 * l <= 2 * q
  /\ 2 * q <= canvas[axis] - Fit[axis] + 2 * l

Inv ==
  /\ picture \in Side \X Side /\ canvas \in Side \X Side
  /\ pc \in {"start", "scale"} => axis = 1 /\ line = 0
  /\ pc = "scale" => ~SameAspect /\ scale \in Scales
  /\ pc \in {"place", "undefined"} => FitOk(1) /\ FitOk(2) /\ FitIsTruncated
  /\ pc = "place" =>
       /\ axis \in {1, 2} /\ line \in 0..Fit[axis]
       /\ line > 0 => Near(first, 0) /\ Near(place, line - 1)
       /\ line > 1 => Near(before, line - 2)

LEMMA SideFacts ==
  ASSUME picture \in Side \X Side, canvas \in Side \X Side
  PROVE  /\ picture[1] \in Side /\ picture[2] \in Side
         /\ canvas[1] \in Side /\ canvas[2] \in Side
         /\ \A s \in Side : s \in Nat \ {0}
BY UnitFacts DEF Side

\* What Preprocessor allows for the product of two sides over a third.
LEMMA TruncatedFacts ==
  ASSUME NEW a \in Nat, NEW b \in Nat \ {0}, NEW v \in Nat, v * b <= a, a <= (v + 1) * b
  PROVE  v \in P!Truncated(a, b)
<1> DEFINE d == a \div b
<1>1. d \in Int /\ b * d <= a /\ a < b * (d + 1)
  BY DivisionFacts
<1> HIDE DEF d
<1>2. v < d + 1
  <2>1. b * v < b * (d + 1)
    BY <1>1
  <2> QED
    BY <1>1, <2>1, ProductCancels
<1>3. d < v + 2
  <2>1. b * d <= (v + 1) * b /\ (v + 1) * b < b * (v + 2)
    BY <1>1
  <2>2. b * d < b * (v + 2)
    BY <1>1, <2>1
  <2> QED
    BY <1>1, <2>2, ProductCancels
<1>4. v = d \/ v = d - 1
  BY <1>1, <1>2, <1>3
<1> QED
  BY <1>4 DEF P!Truncated, d

LEMMA ScaleStep ==
  ASSUME Inv, Scale
  PROVE  Inv'
<1> DEFINE f1 == fit'[1]
           f2 == fit'[2]
<1>1. /\ picture \in Side \X Side /\ canvas \in Side \X Side
      /\ ~SameAspect /\ scale \in Scales
  BY DEF Inv, Scale
<1>2. /\ picture[1] \in Side /\ picture[2] \in Side
      /\ canvas[1] \in Side /\ canvas[2] \in Side
      /\ \A s \in Side : s \in Nat \ {0}
  BY <1>1, SideFacts
<1>3. /\ f1 \in Rounded(picture[1] * scale, 1) /\ f2 \in Rounded(picture[2] * scale, 1)
      /\ UNCHANGED <<picture, canvas, axis, line, place, before, first>>
      /\ pc' \in {"place", "undefined"}
  BY DEF Scale, sizes, loop
<1> HIDE DEF f1, f2
<1> DEFINE v1 == Trunc(f1)
           v2 == Trunc(f2)
<1>4. /\ f1 \in Nat /\ v1 \in Nat /\ v1 * One <= f1 /\ f1 < (v1 + 1) * One
      /\ f2 \in Nat /\ v2 \in Nat /\ v2 * One <= f2 /\ f2 < (v2 + 1) * One
  <2>1. CASE Wide
    <3>1. scale \in Rounded(canvas[1] * One, picture[1])
      BY <1>1, <2>1 DEF Scales
    <3> QED
      BY <1>2, <1>3, <3>1, FitFacts
  <2>2. CASE ~Wide
    <3>1. scale \in Rounded(canvas[2] * One, picture[2])
      BY <1>1, <2>2 DEF Scales
    <3> QED
      BY <1>2, <1>3, <3>1, FitFacts
  <2> QED
    BY <2>1, <2>2
<1>5. /\ v1 <= canvas[1] /\ v2 <= canvas[2]
      /\ <<v1, v2>> \in P!Fitted([width |-> picture[1], height |-> picture[2]],
                                canvas[1], canvas[2])
  <2>1. CASE Wide
    <3> DEFINE p == picture[1]
               c == canvas[1]
               m == picture[2]
               d == canvas[2]
    <3>1. scale \in Rounded(c * One, p) /\ p * d > c * m
      BY <1>1, <2>1 DEF Scales, Wide
    <3>2. /\ v1 * p <= p * c /\ p * c <= (v1 + 1) * p
          /\ v2 * p <= m * c /\ m * c <= (v2 + 1) * p
      BY <1>2, <1>3, <3>1, FitFacts
    <3>3. p \in Nat \ {0} /\ c \in Nat \ {0} /\ m \in Nat \ {0} /\ d \in Nat \ {0}
      BY <1>2
    <3> HIDE DEF p, c, m, d, v1, v2
    <3>4. v1 < c + 1 /\ v2 < d
      <4>1. p * v1 < p * (c + 1)
        BY <1>4, <3>2, <3>3
      <4>2. p * v2 < p * d
        BY <1>4, <3>1, <3>2, <3>3
      <4> QED
        BY <1>4, <3>3, <4>1, <4>2, ProductCancels
    <3>5. v1 \in P!Truncated(p * c, p) /\ v2 \in P!Truncated(m * c, p)
      BY <1>4, <3>2, <3>3, TruncatedFacts
    <3>6. <<v1, v2>> \in P!Fitted([width |-> p, height |-> m], c, d)
      BY <3>1, <3>3, <3>5 DEF P!Fitted
    <3> QED
      BY <1>4, <3>3, <3>4, <3>6 DEF p, c, m, d
  <2>2. CASE ~Wide
    <3> DEFINE p == picture[2]
               c == canvas[2]
               m == picture[1]
               d == canvas[1]
    <3>1. scale \in Rounded(c * One, p) /\ ~(m * c > d * p) /\ m * c # d * p
      BY <1>1, <2>2 DEF Scales, Wide, SameAspect
    <3>2. /\ v2 * p <= p * c /\ p * c <= (v2 + 1) * p
          /\ v1 * p <= m * c /\ m * c <= (v1 + 1) * p
      BY <1>2, <1>3, <3>1, FitFacts
    <3>3. p \in Nat \ {0} /\ c \in Nat \ {0} /\ m \in Nat \ {0} /\ d \in Nat \ {0}
      BY <1>2
    <3> HIDE DEF p, c, m, d, v1, v2
    <3>4. v2 < c + 1 /\ v1 < d
      <4>1. p * v2 < p * (c + 1)
        BY <1>4, <3>2, <3>3
      <4>2. p * v1 < p * d
        BY <1>4, <3>1, <3>2, <3>3
      <4> QED
        BY <1>4, <3>3, <4>1, <4>2, ProductCancels
    <3>5. v2 \in P!Truncated(p * c, p) /\ v1 \in P!Truncated(m * c, p)
      BY <1>4, <3>2, <3>3, TruncatedFacts
    <3>6. <<v1, v2>> \in P!Fitted([width |-> m, height |-> p], d, c)
      BY <3>1, <3>3, <3>5 DEF P!Fitted
    <3> QED
      BY <1>4, <3>3, <3>4, <3>6 DEF p, c, m, d
  <2> QED
    BY <2>1, <2>2
<1>6. Fit' = <<v1, v2>>
  BY DEF Fit, f1, f2
<1> HIDE DEF v1, v2
<1>7. /\ fit'[1] = f1 /\ fit'[2] = f2 /\ Fit'[1] = v1 /\ Fit'[2] = v2
      /\ canvas' = canvas /\ picture' = picture
  BY <1>3, <1>6 DEF f1, f2
<1>8. FitOk(1)' /\ FitOk(2)'
  BY <1>4, <1>5, <1>7 DEF FitOk
<1>9. FitIsTruncated'
  BY <1>5, <1>6, <1>7 DEF FitIsTruncated
<1>10. axis' = 1 /\ line' = 0 /\ 0 \in 0..Fit'[1]
  BY <1>3, <1>4, <1>7 DEF Inv, Scale
<1> QED
  BY <1>1, <1>3, <1>7, <1>8, <1>9, <1>10 DEF Inv

\* Nothing of the size changes while lines are placed.
LEMMA SizeStays ==
  ASSUME UNCHANGED <<picture, canvas, fit>>,
         pc' \in {"place", "undefined"} => pc \in {"place", "undefined"},
         FitOk(1), FitOk(2), FitIsTruncated
  PROVE  FitOk(1)' /\ FitOk(2)' /\ FitIsTruncated' /\ Fit' = Fit
<1>1. picture' = picture /\ canvas' = canvas /\ fit' = fit
  OBVIOUS
<1>2. Fit' = Fit
  BY <1>1 DEF Fit
<1>3. FitOk(1)' /\ FitOk(2)'
  BY <1>1, <1>2 DEF FitOk
<1>4. FitIsTruncated'
  BY <1>1, <1>2 DEF FitIsTruncated
<1> QED
  BY <1>2, <1>3, <1>4

LEMMA PlaceStep ==
  ASSUME Inv, PlaceLine
  PROVE  Inv'
<1> DEFINE c == canvas[axis]
           n == Fit[axis]
           f == fit[axis]
<1>1. /\ pc = "place" /\ pc' = "place" /\ line < n /\ line' = line + 1
      /\ before' = place /\ first' = (IF line = 0 THEN place' ELSE first)
      /\ picture' = picture /\ canvas' = canvas /\ fit' = fit /\ axis' = axis
  BY DEF PlaceLine, sizes
<1>2. /\ picture \in Side \X Side /\ canvas \in Side \X Side
      /\ FitOk(1) /\ FitOk(2) /\ FitIsTruncated
      /\ axis \in {1, 2} /\ line \in 0..n
      /\ line > 0 => Near(first, 0) /\ Near(place, line - 1)
  BY <1>1 DEF Inv
<1>3. FitOk(1)' /\ FitOk(2)' /\ FitIsTruncated' /\ Fit' = Fit
  BY <1>1, <1>2, SizeStays
<1>4. /\ c \in Side /\ c \in Nat /\ n \in Nat /\ n <= c /\ f \in Nat
      /\ n * One <= f /\ f < (n + 1) * One
  BY <1>2, SideFacts DEF FitOk
<1>5. PICK margin \in Rounded(c * One - f, 2) :
        \E r \in Rounded(margin + line * One, 1) : place' = Trunc(r)
  BY DEF PlaceLine, Margins, Places
<1>6. PICK r \in Rounded(margin + line * One, 1) : place' = Trunc(r)
  BY <1>5
<1> HIDE DEF c, n, f
<1>7. line \in 0..(n - 1) /\ n \in 1..c /\ line \in Nat /\ line' \in 0..n
  BY <1>1, <1>2, <1>4
<1>8. /\ Trunc(r) \in 0..(c - 1)
      /\ c - n - 2 + 2 * line <= 2 * Trunc(r)
      /\ 2 * Trunc(r) <= c - n + 2 * line
  BY <1>4, <1>7, PlaceFacts
<1>9. /\ place' \in 0..(c - 1)
      /\ c - n - 2 + 2 * line <= 2 * place' /\ 2 * place' <= c - n + 2 * line
  BY <1>6, <1>8
<1>10. /\ c = canvas[axis] /\ n = Fit[axis]
       /\ canvas'[axis'] = c /\ Fit'[axis'] = n
  BY <1>1, <1>3 DEF c, n
<1>11. /\ place' \in 0..(canvas'[axis'] - 1)
       /\ canvas'[axis'] - Fit'[axis'] - 2 + 2 * (line' - 1) <= 2 * place'
       /\ 2 * place' <= canvas'[axis'] - Fit'[axis'] + 2 * (line' - 1)
  <2>1. line' - 1 = line
    BY <1>1, <1>7
  <2> QED
    BY <1>9, <1>10, <2>1
<1>12. Near(place, line - 1)'
  BY <1>11 DEF Near
<1>13. Near(first, 0)'
  <2>1. CASE line = 0
    <3>1. first' = place' /\ line' - 1 = 0
      BY <1>1, <2>1
    <3> QED
      BY <1>11, <3>1 DEF Near
  <2>2. CASE line # 0
    <3>1. first' = first /\ Near(first, 0)
      BY <1>1, <1>2, <1>7, <2>2
    <3> QED
      BY <1>10, <3>1 DEF Near
  <2> QED
    BY <2>1, <2>2
<1>14. (line > 1 => Near(before, line - 2))'
  <2> SUFFICES ASSUME line' > 1
               PROVE  Near(before, line - 2)'
    OBVIOUS
  <2>1. line > 0 /\ line' - 2 = line - 1
    BY <1>1, <1>7
  <2>2. Near(place, line - 1) /\ before' = place
    BY <1>1, <1>2, <2>1
  <2> QED
    BY <1>10, <2>1, <2>2 DEF Near
<1>15. /\ picture' \in Side \X Side /\ canvas' \in Side \X Side
       /\ pc' = "place" /\ axis' \in {1, 2} /\ line' \in 0..Fit'[axis']
  BY <1>1, <1>2, <1>7, <1>10
<1> QED
  BY <1>3, <1>12, <1>13, <1>14, <1>15 DEF Inv

LEMMA NextAxisStep ==
  ASSUME Inv, NextAxis
  PROVE  Inv'
<1>1. /\ pc = "place" /\ picture' = picture /\ canvas' = canvas /\ fit' = fit
      /\ \/ pc' = "place" /\ axis' = 2 /\ line' = 0
         \/ pc' = "done"
  BY DEF NextAxis, sizes
<1>2. /\ picture \in Side \X Side /\ canvas \in Side \X Side
      /\ FitOk(1) /\ FitOk(2) /\ FitIsTruncated
  BY <1>1 DEF Inv
<1>3. FitOk(1)' /\ FitOk(2)' /\ FitIsTruncated'
  BY <1>1, <1>2, SizeStays
<1>4. 0 \in 0..Fit'[2]
  BY <1>3 DEF FitOk
<1> QED
  BY <1>1, <1>2, <1>3, <1>4 DEF Inv

LEMMA Initially == Init => Inv
BY DEF Init, Inv

LEMMA Inductive == Inv /\ [Next]_vars => Inv'
<1> SUFFICES ASSUME Inv, [Next]_vars
             PROVE  Inv'
  OBVIOUS
<1>1. CASE Resize
  BY <1>1 DEF Inv, Resize, sizes
<1>2. CASE Choose
  <2>1. /\ pc' = "scale" /\ picture' = picture /\ canvas' = canvas /\ ~SameAspect
        /\ pc = "start" /\ axis' = axis /\ line' = line /\ scale' \in Scales
    BY <1>2 DEF Choose, sizes, loop
  <2>2. ~SameAspect' /\ scale' \in Scales'
    BY <2>1 DEF SameAspect, Scales, Wide
  <2> QED
    BY <2>1, <2>2 DEF Inv
<1>3. CASE Scale
  BY <1>3, ScaleStep
<1>4. CASE PlaceLine
  BY <1>4, PlaceStep
<1>5. CASE NextAxis
  BY <1>5, NextAxisStep
<1>6. CASE UNCHANGED vars
  BY <1>6 DEF vars, sizes, loop, Inv, SameAspect, Scales, Wide, FitOk, Fit, Near, FitIsTruncated
<1> QED
  BY <1>1, <1>2, <1>3, <1>4, <1>5, <1>6 DEF Next

THEOREM Invariance == Spec => []Inv
<1> QED
  BY Initially, Inductive, PTL DEF Spec

-----------------------------------------------------------------------------
(* The results.                                                            *)

(* Wherever rounding takes it, a row or column is copied to one of the     *)
(* canvas (oy * width + ox is inside the buffer), and no more than one is  *)
(* passed over between neighbours.                                         *)
THEOREM AlwaysOnCanvas == Spec => []OnCanvas
<1>1. Inv => OnCanvas
  <2> SUFFICES ASSUME Inv, pc = "place"
               PROVE  /\ line > 0 => place \in 0..(canvas[axis] - 1)
                      /\ line > 1 => place \in before..(before + 2)
    BY DEF OnCanvas
  <2> DEFINE c == canvas[axis]
             n == Fit[axis]
  <2>1. /\ c \in Nat /\ n \in Nat /\ line \in 0..n
        /\ line > 0 => Near(place, line - 1)
        /\ line > 1 => Near(before, line - 2)
    BY SideFacts DEF Inv, FitOk
  <2>2. line > 0 => /\ place \in 0..(c - 1)
                    /\ c - n - 2 + 2 * (line - 1) <= 2 * place
                    /\ 2 * place <= c - n + 2 * (line - 1)
    BY <2>1 DEF Near
  <2>3. line > 1 => /\ before \in 0..(c - 1)
                    /\ c - n - 2 + 2 * (line - 2) <= 2 * before
                    /\ 2 * before <= c - n + 2 * (line - 2)
    BY <2>1 DEF Near
  <2> HIDE DEF c, n
  <2>4. line > 1 => place \in before..(before + 2)
    BY <2>1, <2>2, <2>3
  <2> QED
    BY <2>2, <2>4 DEF c
<1> QED
  BY <1>1, Invariance, PTL

(* The picture is in the middle of the canvas, up to two lines.            *)
THEOREM AlwaysCentred == Spec => []Centred
<1>1. Inv => Centred
  <2> SUFFICES ASSUME Inv, pc = "place", line > 0, line = Fit[axis]
               PROVE  first - (canvas[axis] - 1 - place) \in -2..2
    BY DEF Centred
  <2> DEFINE c == canvas[axis]
             n == Fit[axis]
  <2>1. c \in Nat /\ n \in Nat /\ line = n /\ Near(place, line - 1) /\ Near(first, 0)
    BY SideFacts DEF Inv, FitOk
  <2>2. /\ place \in 0..(c - 1)
        /\ c - n - 2 + 2 * (n - 1) <= 2 * place
        /\ 2 * place <= c - n + 2 * (n - 1)
    BY <2>1 DEF Near
  <2>3. /\ first \in 0..(c - 1)
        /\ c - n - 2 <= 2 * first
        /\ 2 * first <= c - n
    BY <2>1 DEF Near
  <2> HIDE DEF c, n
  <2>4. first - (c - 1 - place) \in -2..2
    BY <2>1, <2>2, <2>3
  <2> QED
    BY <2>4 DEF c
<1> QED
  BY <1>1, Invariance, PTL

(* The size is the exact product cut to an int, or one less: what the      *)
(* module of the program takes for granted.                                *)
THEOREM FitIsAlwaysTruncated == Spec => []FitIsTruncated
<1>1. Inv => FitIsTruncated
  BY DEF Inv, FitIsTruncated
<1> QED
  BY <1>1, Invariance, PTL

-----------------------------------------------------------------------------
(* Numbers.                                                                *)

LEMMA FactorCancels ==
  ASSUME NEW d \in Nat \ {0}, NEW a \in Int, NEW b \in Int
  PROVE  /\ d * a < d * b => a < b
         /\ d * a <= d * b => a <= b
         /\ d * a \in Int /\ d * (a + 1) = d * a + d /\ d * (a - 1) = d * a - d
<1>1. d * a \in Int /\ d * b \in Int /\ d * (a + 1) = d * a + d /\ d * (a - 1) = d * a - d
  OBVIOUS
<1>2. ASSUME b <= a PROVE d * b <= d * a
  BY <1>2
<1>3. ASSUME b < a PROVE d * b < d * a
  BY <1>3
<1>4. ASSUME d * a < d * b PROVE a < b
  <2>1. ~(b <= a)
    BY <1>1, <1>2, <1>4
  <2> QED
    BY <2>1
<1>5. ASSUME d * a <= d * b PROVE a <= b
  <2>1. ~(b < a)
    BY <1>1, <1>3, <1>5
  <2> QED
    BY <2>1
<1> QED
  BY <1>1, <1>4, <1>5

\* However the float came out, the multiple of b below a is found, or the one
\* before when a is a multiple itself.
LEMMA FloorIs ==
  ASSUME NEW a \in Int, NEW b \in Nat \ {0}, NEW k \in FloorOf(a, b)
  PROVE  k \in Int /\ b * k <= a /\ a <= b * k + b
<1>1. PICK q, m : q = a \div b /\ m = a % b
  OBVIOUS
<1>2. q \in Int /\ m \in 0..(b - 1) /\ a = b * q + m
  BY <1>1
<1>3. k = q \/ (m = 0 /\ k = q - 1)
  BY <1>1 DEF FloorOf
<1>4. b * (q - 1) = b * q - b /\ b * q \in Int
  BY <1>2, FactorCancels
<1> QED
  BY <1>2, <1>3, <1>4

LEMMA CeilIs ==
  ASSUME NEW a \in Nat \ {0}, NEW b \in Nat \ {0}, NEW k \in CeilOf(a, b)
  PROVE  k \in Nat \ {0} /\ a <= b * k
<1>1. PICK q : q = (-a) \div b
  OBVIOUS
<1>2. q \in Int /\ b * q <= -a
  BY <1>1
<1>3. k = -q \/ k = -q + 1
  BY <1>1 DEF CeilOf, Ceil
<1>4. b * (-q) = -(b * q) /\ b * (-q + 1) = b * (-q) + b /\ b * q \in Int
  BY <1>2
<1>5. a <= b * k /\ k \in Int
  BY <1>2, <1>3, <1>4
<1>6. b * 0 < b * k
  BY <1>5
<1>7. 0 < k
  BY <1>5, <1>6, FactorCancels
<1> QED
  BY <1>5, <1>7

\* The request does not change.
RequestInv ==
  /\ input_h \in Nat \ {0} /\ output_h \in Nat \ {0} /\ kind \in {"cubic", "box"}
  /\ filter_pixel_width
       \in CeilOf(support, IF use_upsampling THEN large ELSE small)

LEMMA RequestFacts ==
  ASSUME RequestInv
  PROVE  /\ small \in Nat \ {0} /\ large \in Nat \ {0} /\ small <= large
         /\ use_upsampling => small < large /\ small = input_h
              /\ large = output_h
         /\ ~use_upsampling => small = output_h /\ large = input_h
         /\ support \in Nat \ {0} /\ small + large <= support
         /\ support = 4 * large \/ support = small + large
         /\ filter_pixel_width \in Nat \ {0}
         /\ use_upsampling => support <= large * filter_pixel_width
         /\ ~use_upsampling => support <= small * filter_pixel_width
         /\ num_entries \in Nat \ {0} /\ num_entries = filter_pixel_width + 1
         /\ pixel_margin \in Nat \ {0} /\ filter_pixel_width <= 2 * pixel_margin + 1
<1>1. /\ small \in Nat \ {0} /\ large \in Nat \ {0} /\ small <= large
      /\ use_upsampling => small < large /\ small = input_h
           /\ large = output_h
      /\ ~use_upsampling => small = output_h /\ large = input_h
  BY DEF RequestInv, small, large, use_upsampling
<1>2. /\ support \in Nat \ {0} /\ small + large <= support
      /\ support = 4 * large \/ support = small + large
  BY <1>1 DEF RequestInv, support
<1>3. PICK u : u = IF use_upsampling THEN large ELSE small
  OBVIOUS
<1>4. u \in Nat \ {0} /\ u <= large /\ filter_pixel_width \in CeilOf(support, u)
  BY <1>1, <1>3 DEF RequestInv
<1>5. filter_pixel_width \in Nat \ {0} /\ support <= u * filter_pixel_width
  BY <1>2, <1>4, CeilIs
<1>6. filter_pixel_width >= 2
  <2>1. u * 1 < u * filter_pixel_width
    BY <1>1, <1>2, <1>4, <1>5
  <2> QED
    BY <1>4, <1>5, <2>1, FactorCancels
<1>7. pixel_margin \in Nat \ {0} /\ filter_pixel_width <= 2 * pixel_margin + 1
  BY <1>5, <1>6 DEF pixel_margin
<1> QED
  BY <1>1, <1>2, <1>3, <1>5, <1>7 DEF num_entries

-----------------------------------------------------------------------------
(* Ranges.                                                                 *)

\* The range of line n, from a to b, up to what rounding may do.
IsRange(n, a, b) ==
  /\ a \in Int /\ b \in Int
  /\ 2 * large * a <= Centre(n) - support + large
  /\ Centre(n) - support + large <= 2 * large * a + 2 * large
  /\ 2 * large * b <= Centre(n) + support - large
  /\ Centre(n) + support - large <= 2 * large * b + 2 * large

LEMMA RangeIs ==
  ASSUME RequestInv, NEW n \in Int, NEW a \in FirstPixel(n), NEW b \in LastPixel(n)
  PROVE  IsRange(n, a, b)
<1>1. 2 * large \in Nat \ {0} /\ large \in Int /\ support \in Int
        /\ Centre(n) \in Int
  BY RequestFacts DEF Centre
<1>2. Centre(n) - support + large \in Int
        /\ Centre(n) + support - large \in Int
  BY <1>1
<1>3. /\ a \in Int /\ 2 * large * a <= Centre(n) - support + large
      /\ Centre(n) - support + large <= 2 * large * a + 2 * large
  BY <1>1, <1>2, FloorIs DEF FirstPixel
<1>4. /\ b \in Int /\ 2 * large * b <= Centre(n) + support - large
      /\ Centre(n) + support - large <= 2 * large * b + 2 * large
  BY <1>1, <1>2, FloorIs DEF LastPixel
<1> QED
  BY <1>3, <1>4 DEF IsRange

\* It is not empty, and there are entries for all of it.
LEMMA RangeFits ==
  ASSUME RequestInv, NEW n \in Int, NEW a, NEW b, IsRange(n, a, b)
  PROVE  a <= b /\ b - a <= num_entries - 1
<1>1. PICK S, L, s, C, d, A, B, F : S = small /\ L = large /\ s = support
             /\ C = Centre(n)
        /\ d = 2 * L /\ A = d * a /\ B = d * b /\ F = filter_pixel_width
  OBVIOUS
<1>2. /\ S \in Nat \ {0} /\ L \in Nat \ {0} /\ s \in Nat /\ S + L <= s /\ d \in Nat \ {0}
      /\ F \in Nat \ {0} /\ s <= L * F /\ num_entries = F + 1
  <2>1. small * filter_pixel_width <= large * filter_pixel_width
    BY RequestFacts
  <2>2. support <= large * filter_pixel_width
    BY <2>1, RequestFacts
  <2> QED
    BY <1>1, <2>2, RequestFacts
<1>3. a \in Int /\ b \in Int /\ A \in Int /\ B \in Int /\ C \in Int
  BY <1>1, <1>2 DEF IsRange, Centre
<1>4. A <= C - s + L /\ C - s + L <= A + d /\ B <= C + s - L /\ C + s - L <= B + d
  BY <1>1 DEF IsRange
<1>5. a <= b
  <2>1. A < B + d
    BY ONLY <1>1, <1>2, <1>3, <1>4
  <2>2. d * a < d * (b + 1)
    BY <1>1, <1>2, <1>3, <2>1, FactorCancels
  <2>3. a < b + 1
    BY <1>2, <1>3, <2>2, FactorCancels
  <2> QED
    BY <1>3, <2>3
<1>6. b - a <= F
  <2>1. B - A <= 2 * s
    BY ONLY <1>1, <1>2, <1>3, <1>4
  <2>2. L * (b - a) * 2 = B - A /\ L * (b - a) \in Int /\ L * F \in Int
    BY <1>1, <1>2, <1>3
  <2>3. L * (b - a) <= L * F
    BY <1>2, <2>1, <2>2
  <2>4. b - a \in Int
    BY <1>3
  <2> QED
    BY <1>2, <2>3, <2>4, FactorCancels
<1> QED
  BY <1>2, <1>3, <1>5, <1>6

\* The next line's begins and ends no earlier, and leaves out no line between.
LEMMA RangesInOrder ==
  ASSUME RequestInv, NEW n \in Int, NEW a, NEW b, IsRange(n, a, b),
         NEW a2, NEW b2, IsRange(n + 1, a2, b2)
  PROVE  a <= a2 /\ b <= b2 /\ a2 <= b + 1
<1>1. PICK S, L, s, C, d, A, B, A2, B2 :
        /\ S = small /\ L = large /\ s = support /\ C = Centre(n) /\ d = 2 * L
        /\ A = d * a /\ B = d * b /\ A2 = d * a2 /\ B2 = d * b2
  OBVIOUS
<1>2. S \in Nat \ {0} /\ L \in Nat \ {0} /\ s \in Nat /\ S + L <= s /\ d \in Nat \ {0}
  BY <1>1, RequestFacts
<1>3. /\ a \in Int /\ b \in Int /\ a2 \in Int /\ b2 \in Int
      /\ A \in Int /\ B \in Int /\ A2 \in Int /\ B2 \in Int /\ C \in Int
  BY <1>1, <1>2 DEF IsRange, Centre
<1>4. Centre(n + 1) = C + 2 * S
  BY <1>1, <1>2 DEF Centre
<1>5. /\ A <= C - s + L /\ C - s + L <= A + d /\ B <= C + s - L /\ C + s - L <= B + d
      /\ A2 <= C + 2 * S - s + L /\ C + 2 * S - s + L <= A2 + d
      /\ B2 <= C + 2 * S + s - L /\ C + 2 * S + s - L <= B2 + d
  <2>1. A <= C - s + L /\ C - s + L <= A + d /\ B <= C + s - L /\ C + s - L <= B + d
    BY <1>1 DEF IsRange
  <2>2. PICK C2 : C2 = Centre(n + 1)
    OBVIOUS
  <2>3. A2 <= C2 - s + L /\ C2 - s + L <= A2 + d /\ B2 <= C2 + s - L /\ C2 + s - L <= B2 + d
    BY <1>1, <2>2 DEF IsRange
  <2> QED
    <3>1. C2 = C + 2 * S
      BY <1>4, <2>2
    <3> QED
      BY ONLY <1>2, <1>3, <2>1, <2>3, <3>1
<1>6. A < A2 + d /\ B < B2 + d /\ A2 <= B + d
  BY ONLY <1>1, <1>2, <1>3, <1>5
<1>7. d * a < d * (a2 + 1) /\ d * b < d * (b2 + 1) /\ d * a2 <= d * (b + 1)
  BY <1>1, <1>2, <1>3, <1>6, FactorCancels
<1>8. a < a2 + 1 /\ b < b2 + 1 /\ a2 <= b + 1
  BY <1>2, <1>3, <1>7, FactorCancels
<1> QED
  BY <1>3, <1>8

\* What weighs lies within.
LEMMA WeighsWithin ==
  ASSUME RequestInv, NEW n \in Int, NEW a, NEW b, IsRange(n, a, b), NEW k \in Int, Weighs(n, k)
  PROVE  k \in a..b
<1>1. PICK L, s, C, d, A, B, K :
        /\ L = large /\ s = support /\ C = Centre(n) /\ d = 2 * L
        /\ A = d * a /\ B = d * b /\ K = d * k
  OBVIOUS
<1>2. L \in Nat \ {0} /\ s \in Nat /\ d \in Nat \ {0}
  BY <1>1, RequestFacts
<1>3. a \in Int /\ b \in Int /\ A \in Int /\ B \in Int /\ K \in Int /\ C \in Int
  BY <1>1, <1>2, RequestFacts DEF IsRange, Centre
<1>4. A <= C - s + L /\ C + s - L <= B + d
  BY <1>1 DEF IsRange
<1>5. -s < C - (K + L) /\ C - (K + L) < s
  <2>1. (2 * k + 1) * L = K + L
    BY <1>1, <1>2
  <2> QED
    BY <1>1, <2>1 DEF Weighs, Distance
<1>6. A < K + d /\ K < B + d
  BY ONLY <1>1, <1>2, <1>3, <1>4, <1>5
<1>7. d * a < d * (k + 1) /\ d * k < d * (b + 1)
  BY <1>1, <1>2, <1>3, <1>6, FactorCancels
<1>8. a < k + 1 /\ k < b + 1
  BY <1>2, <1>3, <1>7, FactorCancels
<1> QED
  BY <1>3, <1>8

\* A distance, without brackets.
LEMMA DistanceIs ==
  ASSUME RequestInv, NEW n \in Int, NEW k \in Int
  PROVE  /\ small * n \in Int /\ large * k \in Int
         /\ Centre(n) = 2 * (small * n) + small
         /\ Distance(n, k) = 2 * (small * n) + small - 2 * (large * k) - large
<1>1. PICK S, L : S = small /\ L = large
  OBVIOUS
<1>2. S \in Nat /\ L \in Nat
  BY <1>1, RequestFacts
<1>3. /\ S * n \in Int /\ L * k \in Int /\ (2 * n + 1) * S = 2 * (S * n) + S
      /\ (2 * k + 1) * L = 2 * (L * k) + L
  BY <1>2
<1> QED
  BY <1>1, <1>2, <1>3 DEF Centre, Distance

\* What no line looks back to, no later one does.
LEMMA PastIsOver ==
  ASSUME RequestInv, NEW n \in Int, NEW a, NEW b, IsRange(n, a, b),
         NEW k \in Int, k < a, NEW m \in Int, n <= m
  PROVE  ~Weighs(m, k)
<1>1. PICK S, L, s, Sn, Sm, Lk, La :
        /\ S = small /\ L = large /\ s = support
        /\ Sn = S * n /\ Sm = S * m /\ Lk = L * k /\ La = L * a
  OBVIOUS
<1>2. S \in Nat \ {0} /\ L \in Nat \ {0} /\ s \in Nat /\ a \in Int
  BY <1>1, RequestFacts DEF IsRange
<1>3. Sn \in Int /\ Sm \in Int /\ Lk \in Int /\ La \in Int /\ 2 * L * a = 2 * La
  BY <1>1, <1>2
<1>4. Sn <= Sm /\ Lk <= La - L
  <2>1. S * n <= S * m
    BY <1>2
  <2>2. L * k <= L * (a - 1) /\ L * (a - 1) = L * a - L
    BY <1>2
  <2> QED
    BY <1>1, <2>1, <2>2
<1>5. 2 * La <= 2 * Sn + S - s + L
  <2>1. 2 * L * a <= Centre(n) - s + L
    BY <1>1 DEF IsRange
  <2>2. Centre(n) = 2 * Sn + S
    BY <1>1, DistanceIs
  <2> QED
    BY ONLY <1>2, <1>3, <2>1, <2>2
<1>6. 2 * Sm + S - 2 * Lk - L >= s
  BY ONLY <1>2, <1>3, <1>4, <1>5
<1>7. Distance(m, k) = 2 * Sm + S - 2 * Lk - L
  BY <1>1, DistanceIs
<1> QED
  BY <1>1, <1>2, <1>3, <1>6, <1>7 DEF Weighs

\* Downsampled, no line before the first one that is read has a part in the result.
LEMMA NothingBefore ==
  ASSUME RequestInv, ~use_upsampling, NEW k \in Nat, NEW m \in Int, m < -pixel_margin
  PROVE  ~Weighs(m, k)
<1>1. PICK S, L, s, p, F, Sm, Lk, Sp, SF :
        /\ S = small /\ L = large /\ s = support /\ p = pixel_margin
        /\ F = filter_pixel_width
        /\ Sm = S * m /\ Lk = L * k /\ Sp = S * p /\ SF = S * F
  OBVIOUS
<1>2. /\ S \in Nat \ {0} /\ L \in Nat \ {0} /\ s \in Nat /\ p \in Nat /\ F \in Nat
      /\ s <= SF /\ F <= 2 * p + 1
  BY <1>1, RequestFacts
<1>3. Sm \in Int /\ Lk \in Nat /\ Sp \in Int /\ SF \in Int
  BY <1>1, <1>2
<1>4. Sm <= -Sp - S /\ SF <= 2 * Sp + S
  <2>1. m <= -p - 1
    BY <1>1, <1>2
  <2>2. S * m <= S * (-p - 1) /\ S * (-p - 1) = -(S * p) - S
    BY <1>2, <2>1
  <2>3. S * F <= S * (2 * p + 1) /\ S * (2 * p + 1) = 2 * (S * p) + S
    BY <1>2
  <2> QED
    BY <1>1, <2>2, <2>3
<1>5. 2 * Sm + S - 2 * Lk - L <= -s
  BY ONLY <1>2, <1>3, <1>4
<1>6. Distance(m, k) = 2 * Sm + S - 2 * Lk - L
  BY <1>1, DistanceIs
<1> QED
  BY <1>1, <1>2, <1>3, <1>5, <1>6 DEF Weighs

\* Nor has one after the last.
LEMMA NothingAfter ==
  ASSUME RequestInv, ~use_upsampling, NEW k \in Int, k < output_h,
         NEW m \in Int, m >= input_h + pixel_margin
  PROVE  ~Weighs(m, k)
<1>1. PICK S, L, s, p, F, Sm, Lk, Sp, SF, SL :
        /\ S = small /\ L = large /\ s = support /\ p = pixel_margin
        /\ F = filter_pixel_width
        /\ Sm = S * m /\ Lk = L * k /\ Sp = S * p /\ SF = S * F /\ SL = S * L
  OBVIOUS
<1>2. /\ S \in Nat \ {0} /\ L \in Nat \ {0} /\ s \in Nat /\ p \in Nat /\ F \in Nat
      /\ s <= SF /\ F <= 2 * p + 1 /\ k < S /\ m >= L + p
  BY <1>1, RequestFacts
<1>3. Sm \in Int /\ Lk \in Int /\ Sp \in Int /\ SF \in Int /\ SL \in Int
  BY <1>1, <1>2
<1>4. Sm >= SL + Sp /\ SF <= 2 * Sp + S /\ Lk <= SL - L
  <2>1. S * (L + p) <= S * m /\ S * (L + p) = S * L + S * p
    BY <1>2
  <2>2. S * F <= S * (2 * p + 1) /\ S * (2 * p + 1) = 2 * (S * p) + S
    BY <1>2
  <2>3. L * k <= L * (S - 1) /\ L * (S - 1) = S * L - L
    BY <1>2
  <2> QED
    BY <1>1, <2>1, <2>2, <2>3
<1>5. 2 * Sm + S - 2 * Lk - L >= s
  BY ONLY <1>2, <1>3, <1>4
<1>6. Distance(m, k) = 2 * Sm + S - 2 * Lk - L
  BY <1>1, DistanceIs
<1> QED
  BY <1>1, <1>2, <1>3, <1>5, <1>6 DEF Weighs

\* The first line that is read begins before the result does, the last one ends
\* with it or after it.
LEMMA ReadFromEndToEnd ==
  ASSUME RequestInv, ~use_upsampling, NEW n \in Int, NEW a, NEW b, IsRange(n, a, b)
  PROVE  /\ n = -pixel_margin => a < 0
         /\ n = input_h + pixel_margin - 1 => b >= output_h
<1>1. PICK S, L, s, p, Sn, Sp, SL, La, Lb :
        /\ S = small /\ L = large /\ s = support /\ p = pixel_margin
        /\ Sn = S * n /\ Sp = S * p /\ SL = S * L /\ La = L * a /\ Lb = L * b
  OBVIOUS
<1>2. /\ S \in Nat \ {0} /\ L \in Nat \ {0} /\ s \in Nat /\ p \in Nat \ {0} /\ S + L <= s
      /\ a \in Int /\ b \in Int /\ S = output_h /\ L = input_h
  BY <1>1, RequestFacts DEF IsRange
<1>3. /\ Sn \in Int /\ Sp \in Int /\ SL \in Int /\ La \in Int /\ Lb \in Int
      /\ 2 * L * a = 2 * La /\ 2 * L * b = 2 * Lb
  BY <1>1, <1>2
<1>4. Sp >= S
  BY <1>1, <1>2
<1>5. 2 * La <= 2 * Sn + S - s + L /\ 2 * Sn + S + s - L <= 2 * Lb + 2 * L
  <2>1. 2 * L * a <= Centre(n) - s + L /\ Centre(n) + s - L <= 2 * L * b + 2 * L
    BY <1>1 DEF IsRange
  <2>2. Centre(n) = 2 * Sn + S
    BY <1>1, DistanceIs
  <2> QED
    BY ONLY <1>2, <1>3, <2>1, <2>2
<1>6. ASSUME n = -pixel_margin PROVE a < 0
  <2>1. Sn = -Sp
    BY <1>1, <1>2, <1>6
  <2>2. L * a < L * 0
    BY <1>1, <1>2, <1>3, <1>4, <1>5, <2>1
  <2> QED
    BY <1>2, <2>2, FactorCancels
<1>7. ASSUME n = input_h + pixel_margin - 1 PROVE b >= output_h
  <2>1. Sn = SL + Sp - S
    <3>1. n = L + p - 1
      BY <1>1, <1>2, <1>7
    <3>2. S * (L + p - 1) = S * L + S * p - S
      BY <1>2
    <3> QED
      BY <1>1, <3>1, <3>2
  <2>2. SL < Lb + L
    BY <1>2, <1>3, <1>4, <1>5, <2>1
  <2>3. L * S < L * (b + 1)
    BY <1>1, <1>2, <1>3, <2>2
  <2> QED
    BY <1>2, <2>3, FactorCancels
<1> QED
  BY <1>6, <1>7

\* The lines a line weighs on, and those that weigh on it, are near.
LEMMA WeighsNear ==
  ASSUME RequestInv, NEW n \in Int, NEW k \in Int, Weighs(n, k)
  PROVE  /\ use_upsampling /\ 0 <= n /\ n < output_h =>
              k \in -(2 * support)..(2 * support)
         /\ ~use_upsampling /\ 0 <= k /\ k < output_h =>
              n \in -(2 * support)..(2 * support)
<1>1. PICK S, L, s, Sn, Lk, SL :
        /\ S = small /\ L = large /\ s = support /\ Sn = S * n /\ Lk = L * k
        /\ SL = S * L
  OBVIOUS
<1>2. S \in Nat \ {0} /\ L \in Nat \ {0} /\ s \in Nat \ {0} /\ S + L <= s /\ S <= L
  BY <1>1, RequestFacts
<1>3. Sn \in Int /\ Lk \in Int /\ SL \in Int /\ s \in Int /\ S * s \in Int /\ L * s \in Int
  BY <1>1, <1>2
<1>4. -s < 2 * Sn + S - 2 * Lk - L /\ 2 * Sn + S - 2 * Lk - L < s
  BY <1>1, DistanceIs DEF Weighs
<1>5. S * s >= s /\ L * s >= s /\ SL <= S * s /\ SL <= L * s
  <2>1. 1 * s <= S * s /\ 1 * s <= L * s
    BY <1>2
  <2>2. S * L <= S * s
    BY <1>2
  <2>3. L * S <= L * s /\ L * S = S * L
    BY <1>2
  <2> QED
    BY <1>1, <1>2, <2>1, <2>2, <2>3
<1>6. ASSUME use_upsampling, 0 <= n, n < output_h
      PROVE  k \in -(2 * support)..(2 * support)
  <2>1. 0 <= Sn /\ Sn <= SL - S
    <3>1. n <= L - 1
      BY <1>1, <1>2, <1>6, RequestFacts
    <3>2. S * n <= S * (L - 1) /\ S * (L - 1) = S * L - S /\ 0 <= S * n
      BY <1>2, <1>6, <3>1
    <3> QED
      BY <1>1, <1>3, <3>2
  <2>2. -(2 * (L * s)) < Lk /\ Lk < 2 * (L * s)
    BY ONLY <1>2, <1>3, <1>4, <1>5, <2>1
  <2>3. L * (-(2 * s)) < L * k /\ L * k < L * (2 * s)
    <3>1. L * (-(2 * s)) = -(2 * (L * s)) /\ L * (2 * s) = 2 * (L * s)
      BY <1>2
    <3> QED
      BY <1>1, <2>2, <3>1
  <2>4. -(2 * s) < k /\ k < 2 * s
    BY <1>2, <2>3, FactorCancels
  <2> QED
    BY <1>1, <1>2, <2>4
<1>7. ASSUME ~use_upsampling, 0 <= k, k < output_h
      PROVE  n \in -(2 * support)..(2 * support)
  <2>1. 0 <= Lk /\ Lk <= SL - L
    <3>1. k <= S - 1
      BY <1>1, <1>2, <1>7, RequestFacts
    <3>2. L * k <= L * (S - 1) /\ L * (S - 1) = S * L - L /\ 0 <= L * k
      BY <1>2, <1>7, <3>1
    <3> QED
      BY <1>1, <1>3, <3>2
  <2>2. -(2 * (S * s)) < Sn /\ Sn < 2 * (S * s)
    BY ONLY <1>2, <1>3, <1>4, <1>5, <2>1
  <2>3. S * (-(2 * s)) < S * n /\ S * n < S * (2 * s)
    <3>1. S * (-(2 * s)) = -(2 * (S * s)) /\ S * (2 * s) = 2 * (S * s)
      BY <1>2
    <3> QED
      BY <1>1, <2>2, <3>1
  <2>4. -(2 * s) < n /\ n < 2 * s
    BY <1>2, <2>3, FactorCancels
  <2> QED
    BY <1>1, <1>2, <2>4
<1> QED
  BY <1>6, <1>7

\* Upsampled, no line is made of what lies outside the margin.
LEMMA WithinMargin ==
  ASSUME RequestInv, use_upsampling, NEW n \in 0..(output_h - 1),
         NEW a, NEW b, IsRange(n, a, b)
  PROVE  a >= -pixel_margin /\ b < input_h + pixel_margin
<1>1. PICK S, L, s, p, F, Sn, SL, La, Lb, Lp :
        /\ S = small /\ L = large /\ s = support /\ p = pixel_margin
        /\ F = filter_pixel_width
        /\ Sn = S * n /\ SL = S * L /\ La = L * a /\ Lb = L * b /\ Lp = L * p
  OBVIOUS
<1>2. /\ S \in Nat \ {0} /\ L \in Nat \ {0} /\ s \in Nat /\ p \in Nat \ {0} /\ S < L
      /\ a \in Int /\ b \in Int /\ S = input_h /\ L = output_h /\ F \in Nat /\ F <= 2 * p + 1
      /\ s <= L * F
  BY <1>1, RequestFacts DEF IsRange
<1>3. /\ Sn \in Int /\ SL \in Int /\ La \in Int /\ Lb \in Int /\ Lp \in Int
      /\ 2 * L * a = 2 * La /\ 2 * L * b = 2 * Lb
  BY <1>1, <1>2
<1>4. (s = S + L /\ Lp >= L) \/ (s = 4 * L /\ Lp >= 2 * L)
  <2>1. Lp >= L
    BY <1>1, <1>2
  <2>2. CASE s = S + L
    BY <2>1, <2>2
  <2>3. CASE s = 4 * L
    <3>1. L * 4 <= L * F
      BY <1>2, <2>3
    <3>2. 4 <= F
      BY <1>2, <3>1, FactorCancels
    <3>3. p >= 2
      BY <1>2, <3>2
    <3>4. L * 2 <= L * p
      BY <1>2, <3>3
    <3> QED
      BY <1>1, <1>2, <2>3, <3>4
  <2> QED
    BY <1>1, <2>2, <2>3, RequestFacts
<1>5. 2 * Sn + S - s + L <= 2 * La + 2 * L /\ 2 * Lb <= 2 * Sn + S + s - L
  <2>1. Centre(n) - s + L <= 2 * L * a + 2 * L /\ 2 * L * b <= Centre(n) + s - L
    BY <1>1 DEF IsRange
  <2>2. Centre(n) = 2 * Sn + S
    BY <1>1, DistanceIs
  <2>3. s \in Int
    BY <1>2, <1>4
  <2> QED
    BY ONLY <1>2, <1>3, <2>1, <2>2, <2>3
<1>6. 0 <= Sn /\ Sn <= SL - S
  <2>1. n \in Int /\ 0 <= n /\ n <= L - 1
    BY <1>1, <1>2
  <2>2. S * n <= S * (L - 1) /\ S * (L - 1) = S * L - S /\ 0 <= S * n
    BY <1>2, <2>1
  <2> QED
    BY <1>1, <1>3, <2>2
<1>7. La > -Lp - L /\ Lb < SL + Lp
  BY ONLY <1>2, <1>3, <1>4, <1>5, <1>6
<1>8. L * (-p - 1) < L * a /\ L * b < L * (S + p)
  <2>1. L * (-p - 1) = -(L * p) - L /\ L * (S + p) = S * L + L * p
    BY <1>2
  <2> QED
    BY <1>1, <1>7, <2>1
<1>9. -p - 1 < a /\ b < S + p
  BY <1>2, <1>8, FactorCancels
<1> QED
  BY <1>1, <1>2, <1>9

-----------------------------------------------------------------------------
(* The ring.                                                               *)

\* The index of line n in a ring of R entries that has line f at b.
At(n, b, f, R) == (b + (n - f)) % R

LEMMA ModFacts ==
  ASSUME NEW R \in Nat \ {0}, NEW a \in Int
  PROVE  /\ a % R \in 0..(R - 1)
         /\ a \in 0..(R - 1) => a % R = a
         /\ \A j \in Int : (a + R * j) % R = a % R
<1>1. a % R \in 0..(R - 1) /\ (a \in 0..(R - 1) => a % R = a)
  OBVIOUS
<1>2. ASSUME NEW j \in Int PROVE (a + R * j) % R = a % R
  <2>1. PICK q, m, q2, m2 : /\ q = a \div R /\ m = a % R
                            /\ q2 = (a + R * j) \div R /\ m2 = (a + R * j) % R
    OBVIOUS
  <2>2. /\ q \in Int /\ m \in 0..(R - 1) /\ a = R * q + m
        /\ q2 \in Int /\ m2 \in 0..(R - 1) /\ a + R * j = R * q2 + m2
    BY <2>1
  <2>3. PICK d : d = q2 - q - j
    OBVIOUS
  <2>4. d \in Int /\ R * d = R * q2 - R * q - R * j /\ R * q \in Int /\ R * q2 \in Int
          /\ R * j \in Int
    BY <2>2, <2>3
  <2>5. R * d = m - m2
    BY <2>2, <2>4
  <2>6. R * d < R * 1 /\ R * (-1) < R * d
    BY <2>2, <2>5
  <2>7. d < 1 /\ -1 < d
    BY <2>4, <2>6, FactorCancels
  <2>8. d = 0
    BY <2>4, <2>7
  <2> QED
    BY <2>1, <2>2, <2>5, <2>8
<1> QED
  BY <1>1, <1>2

\* It is one of the ring, b itself for line f, and another for another line that
\* is in the ring.
LEMMA AtFacts ==
  ASSUME NEW R \in Nat \ {0}, NEW b \in 0..(R - 1), NEW f \in Int, NEW n \in Int
  PROVE  /\ At(n, b, f, R) \in 0..(R - 1)
         /\ At(f, b, f, R) = b
         /\ \A m \in Int : /\ f <= n /\ n < f + R /\ f <= m /\ m < f + R
                           /\ At(m, b, f, R) = At(n, b, f, R)
                           => m = n
<1>1. At(n, b, f, R) \in 0..(R - 1) /\ At(f, b, f, R) = b
  <2>1. b + (n - f) \in Int /\ b + (f - f) = b /\ b \in Int
    OBVIOUS
  <2> QED
    BY <2>1, ModFacts DEF At
<1>2. ASSUME NEW m \in Int, f <= n, n < f + R, f <= m, m < f + R,
             At(m, b, f, R) = At(n, b, f, R)
      PROVE  m = n
  <2>1. PICK q, r, q2, r2 :
          /\ q = (b + (n - f)) \div R /\ r = (b + (n - f)) % R
          /\ q2 = (b + (m - f)) \div R /\ r2 = (b + (m - f)) % R
    OBVIOUS
  <2>2. /\ q \in Int /\ b + (n - f) = R * q + r /\ q2 \in Int /\ b + (m - f) = R * q2 + r2
        /\ r = r2 /\ r \in Int
    BY <1>2, <2>1 DEF At
  <2>3. R * (q - q2) = n - m /\ q - q2 \in Int
    <3>1. R * (q - q2) = R * q - R * q2 /\ R * q \in Int /\ R * q2 \in Int
      BY <2>2
    <3> QED
      BY <2>2, <3>1
  <2>4. R * (q - q2) < R * 1 /\ R * (-1) < R * (q - q2)
    BY <1>2, <2>3
  <2>5. q - q2 < 1 /\ -1 < q - q2
    BY <2>3, <2>4, FactorCancels
  <2>6. q - q2 = 0
    BY <2>3, <2>5
  <2> QED
    BY <2>3, <2>6
<1> QED
  BY <1>1, <1>2

\* And the same when line f is left out.
LEMMA AtNext ==
  ASSUME NEW R \in Nat \ {0}, NEW b \in 0..(R - 1), NEW f \in Int, NEW n \in Int
  PROVE  At(n, (b + 1) % R, f + 1, R) = At(n, b, f, R)
<1>1. PICK q, r : q = (b + 1) \div R /\ r = (b + 1) % R
  OBVIOUS
<1>2. q \in Int /\ r \in Int /\ b + 1 = R * q + r /\ R * (-q) = -(R * q) /\ R * q \in Int
  BY <1>1
<1>3. r + (n - (f + 1)) = (b + (n - f)) + R * (-q)
  BY <1>2
<1>4. b + (n - f) \in Int /\ -q \in Int
  BY <1>2
<1>5. ((b + (n - f)) + R * (-q)) % R = (b + (n - f)) % R
  BY <1>4, ModFacts
<1> QED
  BY <1>1, <1>3, <1>5 DEF At

-----------------------------------------------------------------------------
(* The invariant: where the loop is, what is in the ring, and how the two  *)
(* belong together.                                                        *)

Begin  == IF use_upsampling THEN 0 ELSE -pixel_margin
Filled == begin_index >= 0
Entry(n) == ring_buffer[IndexOf(n)]

\* first and last are the range of y, or between two lines that of the line before.
RangeInv ==
  /\ phase \in {"range", "drop", "resample", "done"}
  /\ y \in Begin..EndOfLoop
  /\ phase \in {"drop", "resample"} => y < EndOfLoop /\ IsRange(y, first_pixel, last_pixel)
  /\ phase = "done" => y = EndOfLoop
  /\ phase \in {"range", "done"} =>
       \/ IsRange(y - 1, first_pixel, last_pixel)
       \/ y = Begin /\ ~Filled /\ first_pixel = 0 /\ last_pixel = 0
  /\ ~use_upsampling /\ phase \in {"drop", "resample"} =>
       last_pixel >= 0 /\ first_pixel < output_h

RingInv ==
  /\ DOMAIN ring_buffer = 0..(num_entries - 1)
  /\ begin_index \in -1..(num_entries - 1)
  /\ first_scanline \in Int /\ last_scanline \in Int
  /\ Filled => last_scanline - first_scanline \in 0..(num_entries - 1)

\* The ring never holds a line after the range, nor, until the loop has ended,
\* only lines after its begin.
OrderInv ==
  /\ Filled /\ phase # "done" => last_scanline <= last_pixel
  /\ Filled /\ (phase = "drop" \/ (phase = "range" /\ y < EndOfLoop)) =>
       first_scanline <= first_pixel
  /\ phase = "resample" => Filled /\ first_scanline = first_pixel /\ last_scanline = last_pixel

RoomInv == RequestInv /\ RangeInv /\ RingInv /\ OrderInv

\* The parts of a line of the result that come from lines before m.
Upto(n, m) == { k \in -(2 * support)..(2 * support) : k < m /\ Weighs(k, n) }

LEMMA Same ==
  ASSUME request' = request
  PROVE  /\ input_h' = input_h /\ output_h' = output_h /\ kind' = kind
         /\ filter_pixel_width' = filter_pixel_width
         /\ use_upsampling' <=> use_upsampling
         /\ small' = small /\ large' = large /\ support' = support
         /\ num_entries' = num_entries /\ pixel_margin' = pixel_margin
         /\ EndOfLoop' = EndOfLoop /\ Begin' = Begin
         /\ RequestInv' <=> RequestInv
         /\ \A n, a, b : IsRange(n, a, b)' <=> IsRange(n, a, b)
         /\ \A n, k : Weighs(n, k)' <=> Weighs(n, k)
         /\ \A n, m : Upto(n, m)' = Upto(n, m)
         /\ \A k : Whole(k)' = Whole(k) /\ Parts(k)' = Parts(k)
              /\ edge_wrap(k)' = edge_wrap(k)
<1>1. /\ input_h' = input_h /\ output_h' = output_h /\ kind' = kind
      /\ filter_pixel_width' = filter_pixel_width
  BY DEF request
<1>2. use_upsampling' <=> use_upsampling
  BY <1>1 DEF use_upsampling
<1>3. small' = small /\ large' = large
  BY <1>1, <1>2 DEF small, large
<1>4. support' = support
  BY <1>1, <1>3 DEF support
<1>5. num_entries' = num_entries /\ pixel_margin' = pixel_margin
  BY <1>1 DEF num_entries, pixel_margin
<1>6. EndOfLoop' = EndOfLoop /\ Begin' = Begin
  BY <1>1, <1>2, <1>5 DEF EndOfLoop, Begin
<1>7. \A n, a, b : IsRange(n, a, b)' <=> IsRange(n, a, b)
  BY <1>3, <1>4 DEF IsRange, Centre
<1>8. \A n, k : Weighs(n, k)' <=> Weighs(n, k)
  BY <1>3, <1>4 DEF Weighs, Distance, Centre
<1>9. \A n, m : Upto(n, m)' = Upto(n, m)
  BY <1>4, <1>8 DEF Upto
<1>10. \A k : Parts(k)' = Parts(k) /\ edge_wrap(k)' = edge_wrap(k)
  BY <1>1, <1>4, <1>8 DEF Parts, edge_wrap
<1>11. \A k : Whole(k)' = Whole(k)
  BY <1>2, <1>4, <1>8, <1>10 DEF Whole
<1>12. RequestInv' <=> RequestInv
  BY <1>1, <1>2, <1>3, <1>4 DEF RequestInv
<1> QED
  BY <1>1, <1>2, <1>3, <1>4, <1>5, <1>6, <1>7, <1>8, <1>9, <1>10, <1>11, <1>12

LEMMA RequestStays ==
  ASSUME [RingNext]_ring_vars
  PROVE  request' = request
BY DEF RingNext, SampleRange, DropUnneeded, Load, ResampleUpsample,
       ResampleDownsample, Flush,
       Drop, ring_vars

LEMMA InitRoomInv ==
  ASSUME RingInit
  PROVE  RoomInv
<1>1. RequestInv
  BY ResizeAssumption DEF RingInit, RequestInv
<1>2. num_entries \in Nat \ {0} /\ pixel_margin \in Nat /\ input_h \in Nat \ {0}
        /\ output_h \in Nat \ {0}
  BY <1>1, RequestFacts DEF RequestInv
<1>3. RangeInv
  BY <1>2 DEF RingInit, RangeInv, Begin, EndOfLoop, Filled
<1>4. RingInv /\ OrderInv
  BY <1>2 DEF RingInit, RingInv, OrderInv, Filled
<1> QED
  BY <1>1, <1>3, <1>4 DEF RoomInv

\* What the ring is like without its first line.
LEMMA DropFacts ==
  ASSUME RequestInv, RingInv, Filled, Drop
  PROVE  /\ RingInv'
         /\ out' = IF Emitted(first_scanline)
                   THEN [out EXCEPT ![first_scanline] = Append(@, Entry(first_scanline))]
                   ELSE out
         /\ first_scanline = last_scanline => ~Filled'
         /\ first_scanline # last_scanline =>
              /\ Filled' /\ first_scanline < last_scanline
              /\ first_scanline' = first_scanline + 1 /\ last_scanline' = last_scanline
              /\ \A n \in first_scanline'..last_scanline' : Entry(n)' = Entry(n)
<1>1. PICK R, b, f : R = num_entries /\ b = begin_index /\ f = first_scanline
  OBVIOUS
<1>2. R \in Nat \ {0} /\ b \in 0..(R - 1) /\ f \in Int /\ request' = request
  BY <1>1, RequestFacts DEF RingInv, Filled, Drop
<1>3. /\ IndexOf(f) = b /\ NextIndex \in 0..(R - 1) /\ num_entries' = R
      /\ ring_buffer' = ring_buffer
  <2>1. IndexOf(f) = At(f, b, f, R)
    BY <1>1 DEF IndexOf, At
  <2>2. (b + 1) % R \in 0..(R - 1)
    BY <1>2, ModFacts
  <2>3. At(f, b, f, R) = b
    BY <1>2, AtFacts
  <2>4. NextIndex = (b + 1) % R /\ num_entries' = R /\ ring_buffer' = ring_buffer
    BY <1>1, <1>2, Same DEF NextIndex, Drop
  <2> QED
    BY <2>1, <2>2, <2>3, <2>4
<1>4. out' = IF Emitted(first_scanline)
             THEN [out EXCEPT ![first_scanline] = Append(@, Entry(first_scanline))]
             ELSE out
  BY <1>1, <1>3 DEF Drop, Entry
<1>5. ASSUME first_scanline = last_scanline PROVE ~Filled' /\ RingInv'
  <2>1. begin_index' = -1 /\ first_scanline' = 0 /\ last_scanline' = 0
    BY <1>5 DEF Drop
  <2> QED
    BY <1>1, <1>2, <1>3, <2>1 DEF RingInv, Filled
<1>6. ASSUME first_scanline # last_scanline
      PROVE  /\ Filled' /\ RingInv' /\ first_scanline < last_scanline
             /\ first_scanline' = first_scanline + 1 /\ last_scanline' = last_scanline
             /\ \A n \in first_scanline'..last_scanline' : Entry(n)' = Entry(n)
  <2>1. first_scanline' = f + 1 /\ last_scanline' = last_scanline /\ begin_index' = (b + 1) % R
    BY <1>1, <1>6 DEF Drop, NextIndex
  <2>2. Filled' /\ RingInv' /\ first_scanline < last_scanline
    BY <1>1, <1>2, <1>3, <1>6, <2>1 DEF RingInv, Filled, NextIndex
  <2>3. ASSUME NEW n \in first_scanline'..last_scanline' PROVE Entry(n)' = Entry(n)
    <3>1. n \in Int
      BY <1>2, <2>1 DEF RingInv
    <3>2. IndexOf(n)' = At(n, (b + 1) % R, f + 1, R)
      BY <1>3, <2>1 DEF IndexOf, At
    <3>3. IndexOf(n) = At(n, b, f, R)
      BY <1>1 DEF IndexOf, At
    <3>4. At(n, (b + 1) % R, f + 1, R) = At(n, b, f, R)
      BY <1>2, <3>1, AtNext
    <3> QED
      BY <1>3, <3>2, <3>3, <3>4 DEF Entry
  <2> QED
    BY <1>1, <2>1, <2>2, <2>3
<1> QED
  BY <1>4, <1>5, <1>6

\* And with one more.
LEMMA AddFacts ==
  ASSUME RequestInv, RingInv, request' = request,
         NEW n \in Int, NEW content, AddEntry(n, content),
         Filled => n = last_scanline + 1 /\ n - first_scanline <= num_entries - 1
  PROVE  /\ RingInv' /\ Filled' /\ last_scanline' = n
         /\ first_scanline' = IF Filled THEN first_scanline ELSE n
         /\ \A m \in first_scanline'..n : Entry(m)' = IF m = n THEN content ELSE Entry(m)
<1>1. PICK R : R = num_entries
  OBVIOUS
<1>2. /\ R \in Nat \ {0} /\ num_entries' = R /\ last_scanline' = n /\ first_scanline \in Int
      /\ last_scanline \in Int /\ DOMAIN ring_buffer = 0..(R - 1)
  BY <1>1, RequestFacts, Same DEF RingInv, AddEntry
<1>3. CASE ~Filled
  <2>1. /\ begin_index' = 0 /\ first_scanline' = n
        /\ ring_buffer' = [ring_buffer EXCEPT ![0] = content]
    BY <1>3 DEF AddEntry, Filled, RingInv
  <2>2. RingInv' /\ Filled'
    BY <1>2, <2>1 DEF RingInv, Filled
  <2>3. ASSUME NEW m \in first_scanline'..n PROVE m = n /\ Entry(m)' = content
    <3>1. m = n
      BY <2>1
    <3>2. IndexOf(m)' = 0
      <4>1. 0 + (n - n) = 0
        OBVIOUS
      <4>2. 0 % R = 0
        BY <1>2, ModFacts
      <4> QED
        BY <1>2, <2>1, <3>1, <4>1, <4>2 DEF IndexOf
    <3> QED
      BY <1>2, <2>1, <3>1, <3>2 DEF Entry
  <2> QED
    BY <1>2, <1>3, <2>1, <2>2, <2>3
<1>4. CASE Filled
  <2>1. PICK b, f : b = begin_index /\ f = first_scanline
    OBVIOUS
  <2>2. /\ begin_index' = b /\ first_scanline' = f /\ b \in 0..(R - 1) /\ f \in Int
        /\ ring_buffer' = [ring_buffer EXCEPT ![At(n, b, f, R)] = content]
        /\ f <= n /\ n < f + R
    BY <1>1, <1>2, <1>4, <2>1 DEF AddEntry, Filled, RingInv, IndexOf, At
  <2>3. At(n, b, f, R) \in 0..(R - 1)
    BY <1>2, <2>2, AtFacts
  <2>4. RingInv' /\ Filled'
    BY <1>2, <2>2, <2>3 DEF RingInv, Filled
  <2>5. ASSUME NEW m \in first_scanline'..n
        PROVE  Entry(m)' = IF m = n THEN content ELSE Entry(m)
    <3>1. m \in Int /\ f <= m /\ m < f + R
      BY <1>2, <2>2
    <3>2. IndexOf(m)' = At(m, b, f, R) /\ IndexOf(m) = At(m, b, f, R)
      BY <1>1, <1>2, <2>1, <2>2 DEF IndexOf, At
    <3>3. At(m, b, f, R) \in 0..(R - 1) /\ (At(m, b, f, R) = At(n, b, f, R) => m = n)
      BY <1>2, <2>2, <3>1, AtFacts
    <3> QED
      BY <1>2, <2>2, <2>3, <3>2, <3>3 DEF Entry
  <2> QED
    BY <1>2, <1>4, <2>1, <2>2, <2>4, <2>5
<1> QED
  BY <1>3, <1>4

LEMMA LoopFacts ==
  ASSUME RequestInv, RangeInv
  PROVE  /\ Begin \in Int /\ EndOfLoop \in Int /\ Begin < EndOfLoop /\ y \in Int
         /\ first_pixel \in Int /\ last_pixel \in Int
         /\ use_upsampling => Begin = 0 /\ EndOfLoop = output_h
         /\ ~use_upsampling => Begin = -pixel_margin
              /\ EndOfLoop = input_h + pixel_margin
<1>1. input_h \in Nat \ {0} /\ output_h \in Nat \ {0} /\ pixel_margin \in Nat \ {0}
  BY RequestFacts DEF RequestInv
<1>2. Begin \in Int /\ EndOfLoop \in Int /\ Begin < EndOfLoop /\ y \in Int
  BY <1>1 DEF Begin, EndOfLoop, RangeInv
<1>3. first_pixel \in Int /\ last_pixel \in Int
  BY DEF RangeInv, IsRange
<1> QED
  BY <1>2, <1>3 DEF Begin, EndOfLoop

\* From one line to the next.
LEMMA SampleRangeOrder ==
  ASSUME RequestInv, RangeInv, SampleRange
  PROVE  /\ IsRange(y, first_pixel', last_pixel')
         /\ \/ first_pixel <= first_pixel' /\ last_pixel <= last_pixel'
                 /\ first_pixel' <= last_pixel + 1 /\ IsRange(y - 1, first_pixel, last_pixel)
            \/ y = Begin /\ ~Filled
<1>1. IsRange(y, first_pixel', last_pixel')
  BY LoopFacts, RangeIs DEF SampleRange
<1>2. ASSUME IsRange(y - 1, first_pixel, last_pixel)
      PROVE  first_pixel <= first_pixel' /\ last_pixel <= last_pixel'
               /\ first_pixel' <= last_pixel + 1
  <2>1. PICK n : n = y - 1
    OBVIOUS
  <2>2. n \in Int /\ n + 1 = y
    BY <2>1, LoopFacts
  <2>3. IsRange(n, first_pixel, last_pixel) /\ IsRange(n + 1, first_pixel', last_pixel')
    BY <1>1, <1>2, <2>1, <2>2
  <2> QED
    BY <2>2, <2>3, RangesInOrder
<1>3. IsRange(y - 1, first_pixel, last_pixel) \/ (y = Begin /\ ~Filled)
  BY DEF SampleRange, RangeInv
<1> QED
  BY <1>1, <1>2, <1>3

LEMMA RoomSampleRange ==
  ASSUME RoomInv, SampleRange
  PROVE  RoomInv'
<1>1. RequestInv /\ RangeInv /\ RingInv /\ OrderInv
  BY DEF RoomInv
<1>2. request' = request /\ ring' = ring
  BY DEF SampleRange
<1>3. /\ RequestInv' /\ num_entries' = num_entries /\ output_h' = output_h
      /\ EndOfLoop' = EndOfLoop /\ Begin' = Begin
      /\ (use_upsampling' <=> use_upsampling)
      /\ \A n, a, b : IsRange(n, a, b)' <=> IsRange(n, a, b)
  BY <1>1, <1>2, Same
<1>4. /\ (Filled' <=> Filled) /\ ring_buffer' = ring_buffer /\ begin_index' = begin_index
      /\ first_scanline' = first_scanline /\ last_scanline' = last_scanline
  BY <1>2 DEF ring, Filled
<1>5. RingInv'
  BY <1>1, <1>3, <1>4 DEF RingInv
<1>6. IsRange(y, first_pixel', last_pixel')
  BY <1>1, SampleRangeOrder
<1>7. /\ first_pixel' \in Int /\ last_pixel' \in Int /\ y \in Int /\ y < EndOfLoop
      /\ EndOfLoop \in Int
      /\ Begin \in Int /\ Begin <= y /\ output_h \in Int /\ first_pixel \in Int
      /\ last_pixel \in Int
  BY <1>1, <1>6, LoopFacts DEF IsRange, SampleRange, RequestInv, RangeInv
<1>8. RangeInv'
  <2>1. CASE ~use_upsampling /\ (last_pixel' < 0 \/ first_pixel' >= output_h)
    <3>1. phase' = "range" /\ y' = y + 1
      BY <2>1 DEF SampleRange
    <3>2. y' - 1 = y /\ y' \in Begin..EndOfLoop
      BY <1>7, <3>1
    <3> QED
      BY <1>3, <1>6, <3>1, <3>2 DEF RangeInv
  <2>2. CASE ~(~use_upsampling /\ (last_pixel' < 0 \/ first_pixel' >= output_h))
    <3>1. phase' = "drop" /\ y' = y
      BY <2>2 DEF SampleRange
    <3> QED
      BY <1>3, <1>6, <1>7, <2>2, <3>1 DEF RangeInv
  <2> QED
    BY <2>1, <2>2
<1>9. OrderInv'
  <2>1. phase = "range" /\ phase' # "resample"
    BY DEF SampleRange
  <2>2. Filled => first_pixel <= first_pixel' /\ last_pixel <= last_pixel'
    BY <1>1, SampleRangeOrder
  <2> QED
    BY <1>1, <1>4, <1>7, <2>1, <2>2 DEF OrderInv, RingInv
<1> QED
  BY <1>3, <1>5, <1>8, <1>9 DEF RoomInv

LEMMA RoomDrop ==
  ASSUME RoomInv, DropUnneeded
  PROVE  RoomInv'
<1>1. RequestInv /\ RangeInv /\ RingInv /\ OrderInv
  BY DEF RoomInv
<1>2. /\ request' = request /\ y' = y /\ first_pixel' = first_pixel
      /\ last_pixel' = last_pixel /\ phase = "drop" /\ phase' = "drop"
      /\ Drop /\ Filled /\ first_scanline < first_pixel
  <2>1. first_scanline \in Int /\ first_pixel \in Int /\ begin_index \in Int
    BY <1>1, LoopFacts, RequestFacts DEF RingInv
  <2> QED
    BY <2>1 DEF DropUnneeded, Drop, Needed, Filled, range
<1>3. /\ RequestInv' /\ output_h' = output_h
      /\ EndOfLoop' = EndOfLoop /\ Begin' = Begin
      /\ (use_upsampling' <=> use_upsampling)
      /\ \A n, a, b : IsRange(n, a, b)' <=> IsRange(n, a, b)
  BY <1>1, <1>2, Same
<1>4. RingInv'
  BY <1>1, <1>2, DropFacts
<1>5. RangeInv'
  BY <1>1, <1>2, <1>3 DEF RangeInv
<1>6. OrderInv'
  <2>1. first_scanline \in Int /\ first_pixel \in Int
    BY <1>1, LoopFacts DEF RingInv
  <2>2. Filled' => first_scanline' = first_scanline + 1 /\ last_scanline' = last_scanline
    BY <1>1, <1>2, DropFacts
  <2> QED
    BY <1>1, <1>2, <2>1, <2>2 DEF OrderInv
<1> QED
  BY <1>3, <1>4, <1>5, <1>6 DEF RoomInv

\* What a turn of the loop that fills the ring does.
LEMMA LoadCases ==
  ASSUME RoomInv, Load
  PROVE  /\ request' = request /\ y' = y /\ first_pixel' = first_pixel
         /\ last_pixel' = last_pixel /\ out' = out
         /\ phase = "drop"
         /\ \/ ~Filled /\ phase' = "drop"
               /\ AddEntry(first_pixel,
                             IF use_upsampling THEN {edge_wrap(first_pixel)} ELSE {})
            \/ Filled /\ phase' = "drop" /\ first_scanline = first_pixel
                 /\ last_scanline < last_pixel
               /\ AddEntry(last_scanline + 1,
                           IF use_upsampling THEN {edge_wrap(last_scanline + 1)} ELSE {})
            \/ Filled /\ phase' = "resample" /\ ring' = ring
               /\ first_scanline = first_pixel /\ last_scanline = last_pixel
<1>1. RequestInv /\ RangeInv /\ RingInv /\ OrderInv
  BY DEF RoomInv
<1>2. /\ first_scanline \in Int /\ first_pixel \in Int /\ last_pixel \in Int
      /\ last_scanline \in Int
      /\ begin_index \in Int
  BY <1>1, LoopFacts, RequestFacts DEF RingInv
<1>3. /\ request' = request /\ y' = y /\ first_pixel' = first_pixel
      /\ last_pixel' = last_pixel /\ out' = out /\ phase = "drop"
      /\ Needed(first_pixel)
  BY DEF Load, range
<1>4. CASE ~Filled
  <2>1. begin_index < 0
    BY <1>2, <1>4 DEF Filled
  <2>2. /\ phase' = "drop"
        /\ AddEntry(first_pixel,
                         IF use_upsampling THEN {edge_wrap(first_pixel)} ELSE {})
    BY <2>1 DEF Load
  <2> QED
    BY <1>3, <1>4, <2>2
<1>5. CASE Filled
  <2>1. first_scanline = first_pixel /\ last_scanline <= last_pixel /\ ~(begin_index < 0)
    BY <1>1, <1>2, <1>3, <1>5 DEF OrderInv, Needed, Filled
  <2>2. CASE last_pixel > last_scanline
    <3>1. phase' = "drop"
          /\ AddEntry(last_scanline + 1,
                      IF use_upsampling THEN {edge_wrap(last_scanline + 1)} ELSE {})
      BY <2>1, <2>2 DEF Load
    <3> QED
      BY <1>2, <1>3, <1>5, <2>1, <2>2, <3>1
  <2>3. CASE ~(last_pixel > last_scanline)
    <3>1. phase' = "resample" /\ ring' = ring
      BY <2>1, <2>3 DEF Load
    <3> QED
      BY <1>2, <1>3, <1>5, <2>1, <2>3, <3>1
  <2> QED
    BY <2>2, <2>3
<1> QED
  BY <1>4, <1>5

LEMMA RoomLoad ==
  ASSUME RoomInv, Load
  PROVE  RoomInv'
<1>1. RequestInv /\ RangeInv /\ RingInv /\ OrderInv
  BY DEF RoomInv
<1>2. /\ request' = request /\ y' = y /\ first_pixel' = first_pixel
      /\ last_pixel' = last_pixel /\ phase = "drop"
      /\ first_scanline \in Int /\ first_pixel \in Int /\ last_pixel \in Int
      /\ last_scanline \in Int
      /\ num_entries \in Int
  BY <1>1, LoadCases, LoopFacts, RequestFacts DEF RingInv
<1>3. /\ RequestInv' /\ output_h' = output_h /\ num_entries' = num_entries
      /\ EndOfLoop' = EndOfLoop /\ Begin' = Begin
      /\ (use_upsampling' <=> use_upsampling)
      /\ \A n, a, b : IsRange(n, a, b)' <=> IsRange(n, a, b)
  BY <1>1, <1>2, Same
<1>4. first_pixel <= last_pixel /\ last_pixel - first_pixel <= num_entries - 1
  <2>1. IsRange(y, first_pixel, last_pixel) /\ y \in Int
    BY <1>1, <1>2, LoopFacts DEF RangeInv
  <2> QED
    BY <1>1, <2>1, RangeFits
<1>5. phase' \in {"drop", "resample"}
  BY LoadCases
<1>6. RangeInv'
  BY <1>1, <1>2, <1>3, <1>5 DEF RangeInv
<1>7. RingInv' /\ OrderInv'
  <2>1. ASSUME ~Filled, phase' = "drop",
               AddEntry(first_pixel,
                             IF use_upsampling THEN {edge_wrap(first_pixel)} ELSE {})
        PROVE  RingInv' /\ OrderInv'
    <3>1. RingInv' /\ Filled' /\ last_scanline' = first_pixel /\ first_scanline' = first_pixel
      BY <1>1, <1>2, <2>1, AddFacts
    <3> QED
      BY <1>2, <1>4, <2>1, <3>1 DEF OrderInv
  <2>2. ASSUME Filled, phase' = "drop", first_scanline = first_pixel, last_scanline < last_pixel,
               AddEntry(last_scanline + 1,
                        IF use_upsampling THEN {edge_wrap(last_scanline + 1)} ELSE {})
        PROVE  RingInv' /\ OrderInv'
    <3>1. PICK n : n = last_scanline + 1
      OBVIOUS
    <3>2. n \in Int /\ n <= last_pixel /\ n - first_scanline <= num_entries - 1
      BY <1>2, <1>4, <2>2, <3>1
    <3>3. AddEntry(n, IF use_upsampling THEN {edge_wrap(n)} ELSE {})
      BY <2>2, <3>1
    <3>4. RingInv' /\ Filled' /\ last_scanline' = n /\ first_scanline' = first_scanline
      BY <1>1, <1>2, <2>2, <3>1, <3>2, <3>3, AddFacts
    <3> QED
      BY <1>2, <1>4, <2>2, <3>2, <3>4 DEF OrderInv
  <2>3. ASSUME Filled, phase' = "resample", ring' = ring,
               first_scanline = first_pixel, last_scanline = last_pixel
        PROVE  RingInv' /\ OrderInv'
    BY <1>1, <1>2, <1>3, <2>3 DEF RingInv, OrderInv, Filled, ring
  <2> QED
    BY <2>1, <2>2, <2>3, LoadCases
<1> QED
  BY <1>3, <1>6, <1>7 DEF RoomInv

LEMMA RoomResample ==
  ASSUME RoomInv, ResampleUpsample \/ ResampleDownsample
  PROVE  RoomInv'
<1>1. RequestInv /\ RangeInv /\ RingInv /\ OrderInv
  BY DEF RoomInv
<1>2. /\ request' = request /\ y' = y + 1 /\ first_pixel' = first_pixel
      /\ last_pixel' = last_pixel
      /\ phase = "resample" /\ phase' = "range" /\ begin_index' = begin_index
      /\ first_scanline' = first_scanline /\ last_scanline' = last_scanline
      /\ DOMAIN ring_buffer' = DOMAIN ring_buffer
  BY DEF ResampleUpsample, ResampleDownsample, range, ring
<1>3. /\ RequestInv' /\ output_h' = output_h /\ num_entries' = num_entries
      /\ EndOfLoop' = EndOfLoop /\ Begin' = Begin
      /\ \A n, a, b : IsRange(n, a, b)' <=> IsRange(n, a, b)
  BY <1>1, <1>2, Same
<1>4. RangeInv'
  <2>1. y' - 1 = y /\ y' \in Begin..EndOfLoop /\ IsRange(y, first_pixel, last_pixel)
    BY <1>1, <1>2, LoopFacts DEF RangeInv
  <2> QED
    BY <1>2, <1>3, <2>1 DEF RangeInv
<1>5. RingInv' /\ OrderInv'
  <2>1. first_pixel \in Int /\ last_pixel \in Int
    BY <1>1, LoopFacts
  <2> QED
    BY <1>1, <1>2, <1>3, <2>1 DEF RingInv, OrderInv, Filled
<1> QED
  BY <1>3, <1>4, <1>5 DEF RoomInv

LEMMA RoomFlush ==
  ASSUME RoomInv, Flush
  PROVE  RoomInv'
<1>1. RequestInv /\ RangeInv /\ RingInv /\ OrderInv
  BY DEF RoomInv
<1>2. /\ request' = request /\ y' = y /\ first_pixel' = first_pixel
      /\ last_pixel' = last_pixel /\ phase = "range"
      /\ y = EndOfLoop /\ y # Begin
  BY <1>1, LoopFacts DEF Flush, Drop, range, RangeInv
<1>3. /\ RequestInv' /\ output_h' = output_h /\ num_entries' = num_entries
      /\ EndOfLoop' = EndOfLoop /\ Begin' = Begin
      /\ \A n, a, b : IsRange(n, a, b)' <=> IsRange(n, a, b)
  BY <1>1, <1>2, Same
<1>4. phase' \in {"range", "done"}
  BY DEF Flush
<1>5. RangeInv'
  BY <1>1, <1>2, <1>3, <1>4 DEF RangeInv
<1>6. RingInv' /\ OrderInv'
  <2>1. ASSUME use_upsampling \/ Needed(Rest) PROVE RingInv' /\ OrderInv'
    <3>1. ring' = ring
      BY <2>1 DEF Flush
    <3> QED
      BY <1>1, <1>2, <1>3, <1>4, <3>1, LoopFacts DEF RingInv, OrderInv, Filled, ring
  <2>2. ASSUME ~(use_upsampling \/ Needed(Rest)) PROVE RingInv' /\ OrderInv'
    <3>1. Drop /\ phase' = "range"
      BY <1>2, <2>2 DEF Flush
    <3>2. Filled /\ first_scanline \in Int /\ last_scanline \in Int
      BY <1>1, <2>2, RequestFacts DEF Needed, Filled, RingInv
    <3>3. RingInv' /\ (Filled' => last_scanline' = last_scanline)
      BY <1>1, <3>1, <3>2, DropFacts
    <3> QED
      BY <1>1, <1>2, <1>3, <3>1, <3>2, <3>3, LoopFacts DEF OrderInv
  <2> QED
    BY <2>1, <2>2
<1> QED
  BY <1>3, <1>5, <1>6 DEF RoomInv

LEMMA RoomUnchanged ==
  ASSUME RoomInv, UNCHANGED ring_vars
  PROVE  RoomInv'
<1>1. /\ request' = request /\ ring' = ring /\ phase' = phase /\ y' = y
      /\ range' = range
      /\ first_pixel' = first_pixel /\ last_pixel' = last_pixel
  BY DEF ring_vars, range
<1>2. /\ (RequestInv' <=> RequestInv) /\ output_h' = output_h
           /\ num_entries' = num_entries
      /\ EndOfLoop' = EndOfLoop /\ Begin' = Begin
      /\ (use_upsampling' <=> use_upsampling)
      /\ \A n, a, b : IsRange(n, a, b)' <=> IsRange(n, a, b)
  BY <1>1, Same
<1>3. RingInv' /\ OrderInv'
  BY <1>1, <1>2 DEF RoomInv, RingInv, OrderInv, Filled, ring
<1>4. RangeInv'
  BY <1>1, <1>2 DEF RoomInv, RangeInv, Filled, ring
<1> QED
  BY <1>2, <1>3, <1>4 DEF RoomInv

LEMMA RoomKept ==
  ASSUME RoomInv, [RingNext]_ring_vars
  PROVE  RoomInv'
<1>1. CASE SampleRange
  BY <1>1, RoomSampleRange
<1>2. CASE DropUnneeded
  BY <1>2, RoomDrop
<1>3. CASE Load
  BY <1>3, RoomLoad
<1>4. CASE ResampleUpsample
  BY <1>4, RoomResample
<1>5. CASE ResampleDownsample
  BY <1>5, RoomResample
<1>6. CASE Flush
  BY <1>6, RoomFlush
<1>7. CASE UNCHANGED ring_vars
  BY <1>7, RoomUnchanged
<1> QED
  BY <1>1, <1>2, <1>3, <1>4, <1>5, <1>6, <1>7 DEF RingNext

\* The entries suffice, for sizes within PrecisionAssumption: a range is never
\* longer than the ring, and the ring never laps itself (the STBIR_ASSERTs of the vertical loops and of
\* stbir__add_empty_ring_buffer_entry).
THEOREM RingAlwaysHasRoom == RingSpec => []RingHasRoom
<1>1. RoomInv => RingHasRoom
  <2> SUFFICES ASSUME RoomInv PROVE RingHasRoom
    OBVIOUS
  <2>1. RequestInv /\ RangeInv /\ RingInv /\ OrderInv
    BY DEF RoomInv
  <2>2. num_entries \in Nat \ {0} /\ first_pixel \in Int /\ last_pixel \in Int
    BY <2>1, RequestFacts, LoopFacts
  <2>3. phase # "range" => last_pixel - first_pixel + 1 <= num_entries
    <3>1. PICK n : n \in Int /\ (phase # "range" => IsRange(n, first_pixel, last_pixel))
      <4>1. y \in Int /\ y - 1 \in Int
        BY <2>1, LoopFacts
      <4>2. phase = "done" => IsRange(y - 1, first_pixel, last_pixel)
        BY <2>1, LoopFacts DEF RangeInv
      <4>3. phase \in {"drop", "resample"} => IsRange(y, first_pixel, last_pixel)
        BY <2>1 DEF RangeInv
      <4> QED
        BY <2>1, <4>1, <4>2, <4>3 DEF RangeInv
    <3>2. phase # "range" => last_pixel - first_pixel <= num_entries - 1
      BY <2>1, <3>1, RangeFits
    <3> QED
      BY <2>2, <3>2
  <2>4. Filled => /\ last_scanline - first_scanline \in 0..(num_entries - 1)
                  /\ begin_index < num_entries
    BY <2>1, <2>2 DEF RingInv
  <2> QED
    BY <2>3, <2>4 DEF RingHasRoom, Filled
<1> QED
  BY <1>1, InitRoomInv, RoomKept, PTL DEF RingSpec

\* No line that is upsampled reads outside the margins of the decode buffer, for
\* sizes within PrecisionAssumption (the STBIR_ASSERTs of stbir__resample_horizontal_upsample).
THEOREM AlwaysInMargin == RingSpec => []InMargin
<1>1. RoomInv => InMargin
  <2> SUFFICES ASSUME RoomInv, phase # "range", use_upsampling
               PROVE  first_pixel >= -pixel_margin /\ last_pixel < input_h + pixel_margin
    BY DEF InMargin
  <2>1. RequestInv /\ RangeInv /\ output_h \in Nat
    BY DEF RoomInv, RequestInv
  <2>2. y \in Int /\ Begin = 0 /\ EndOfLoop = output_h /\ y \in Begin..EndOfLoop
    BY <2>1, LoopFacts DEF RangeInv
  <2>3. PICK n : n \in 0..(output_h - 1) /\ IsRange(n, first_pixel, last_pixel)
    <3>1. CASE phase = "done"
      BY <2>1, <2>2, <3>1, LoopFacts DEF RangeInv
    <3>2. CASE phase \in {"drop", "resample"}
      BY <2>1, <2>2, <3>2 DEF RangeInv
    <3> QED
      BY <2>1, <3>1, <3>2 DEF RangeInv
  <2> QED
    BY <2>1, <2>3, WithinMargin
<1> QED
  BY <1>1, InitRoomInv, RoomKept, PTL DEF RingSpec

-----------------------------------------------------------------------------
(* What was written to the result.                                         *)

Picture == 0..(output_h - 1)

\* Upsampled: the ring holds the lines of the source, and the lines of the result
\* are made one after the other, each of all its parts.
UpInv ==
  use_upsampling =>
    /\ DOMAIN out = Picture
    /\ Filled => \A n \in first_scanline..last_scanline : Entry(n) = {edge_wrap(n)}
    /\ \A k \in Picture : out[k] = IF k < y THEN <<Whole(k)>> ELSE <<>>

\* Line k of the result, downsampled, has left the ring.
Gone(k) ==
  IF Filled THEN k < first_scanline
  ELSE IF phase = "drop" THEN k < first_pixel
  ELSE y = EndOfLoop

\* Line n has not come to it yet.
Fresh(n) ==
  IF Filled THEN n > last_scanline
  ELSE IF phase = "drop" THEN n >= first_pixel
  ELSE y < EndOfLoop

\* Between two lines of the source the ring ends with the range; or it ends with
\* the picture, for good; or it is still empty; or it is empty again.
DownPhase ==
  /\ phase = "range" =>
       \/ Filled /\ y < EndOfLoop /\ last_scanline = last_pixel /\ last_pixel >= 0
       \/ Filled /\ last_scanline >= output_h - 1 /\ (y = EndOfLoop \/ first_pixel >= output_h)
       \/ ~Filled /\ y < EndOfLoop /\ (last_pixel < 0 \/ y = Begin)
       \/ ~Filled /\ y = EndOfLoop
  /\ phase = "drop" /\ Filled => last_scanline >= first_pixel - 1

DownRing ==
  /\ Filled => \A n \in Picture : n \in first_scanline..last_scanline => Entry(n) = Upto(n, y)
  /\ \A n \in Picture : Fresh(n) => Upto(n, y) = {}

DownOut ==
  /\ DOMAIN out = Picture
  /\ \A k \in Picture : out[k] = IF Gone(k) THEN <<Parts(k)>> ELSE <<>>
  /\ phase = "done" => \A k \in Picture : Gone(k)

DownInv == ~use_upsampling => DownPhase /\ DownRing /\ DownOut

LEMMA EntrySame ==
  ASSUME request' = request, ring_buffer' = ring_buffer, begin_index' = begin_index,
         first_scanline' = first_scanline, last_scanline' = last_scanline
  PROVE  (Filled' <=> Filled) /\ \A n : Entry(n)' = Entry(n)
<1>1. num_entries' = num_entries
  BY Same
<1> QED
  BY <1>1 DEF Filled, Entry, IndexOf

LEMMA RingSame ==
  ASSUME request' = request, ring' = ring
  PROVE  /\ (Filled' <=> Filled) /\ \A n : Entry(n)' = Entry(n)
         /\ first_scanline' = first_scanline /\ last_scanline' = last_scanline
BY EntrySame DEF ring

\* A line that is made of what the range and the kernel say is made of all.
LEMMA MadeOfAll ==
  ASSUME RequestInv, use_upsampling, NEW n \in Picture, NEW a, NEW b, IsRange(n, a, b)
  PROVE  { k \in a..b : Weighs(n, k) }
           = { k \in -(2 * support)..(2 * support) : Weighs(n, k) }
<1>1. n \in Int /\ 0 <= n /\ n < output_h /\ support \in Int
  BY RequestFacts DEF Picture, RequestInv
<1>2. a \in Int /\ b \in Int
  BY DEF IsRange
<1>3. ASSUME NEW k \in a..b, Weighs(n, k)
      PROVE  k \in -(2 * support)..(2 * support)
  <2>1. k \in Int
    BY <1>2
  <2> QED
    BY <1>1, <1>3, <2>1, WeighsNear
<1>4. ASSUME NEW k \in -(2 * support)..(2 * support), Weighs(n, k) PROVE k \in a..b
  <2>1. k \in Int
    BY <1>1
  <2> QED
    BY <1>1, <1>4, <2>1, WeighsWithin
<1> QED
  BY <1>3, <1>4

LEMMA InitUp ==
  ASSUME RingInit
  PROVE  UpInv
<1>1. \A k \in 0..(output_h - 1) : ~(k < 0)
  OBVIOUS
<1> QED
  BY <1>1 DEF RingInit, UpInv, Filled, Picture

LEMMA UpKept ==
  ASSUME RoomInv, UpInv, [RingNext]_ring_vars
  PROVE  UpInv'
<1> SUFFICES ASSUME use_upsampling PROVE UpInv'
  <2>1. use_upsampling' <=> use_upsampling
    BY RequestStays, Same
  <2> QED
    BY <2>1 DEF UpInv
<1>1. RequestInv /\ RangeInv /\ RingInv /\ OrderInv
  BY DEF RoomInv
<1>2. /\ request' = request /\ Picture' = Picture
      /\ (use_upsampling' <=> use_upsampling) /\ output_h' = output_h
      /\ \A k : Whole(k)' = Whole(k) /\ edge_wrap(k)' = edge_wrap(k)
  <2>1. request' = request
    BY RequestStays
  <2> QED
    BY <2>1, Same DEF Picture
<1>3. /\ DOMAIN out = Picture
      /\ Filled => \A n \in first_scanline..last_scanline : Entry(n) = {edge_wrap(n)}
      /\ \A k \in Picture : out[k] = IF k < y THEN <<Whole(k)>> ELSE <<>>
  BY DEF UpInv
<1>4. first_scanline \in Int /\ last_scanline \in Int /\ y \in Int /\ output_h \in Nat
  BY <1>1, LoopFacts DEF RingInv, RequestInv
<1>5. ASSUME ring' = ring, y' = y, out' = out PROVE UpInv'
  BY <1>2, <1>3, <1>5, RingSame DEF UpInv
<1>6. CASE SampleRange
  <2>1. ring' = ring /\ y' = y /\ out' = out
    BY <1>6 DEF SampleRange
  <2> QED
    BY <1>5, <2>1
<1>7. CASE DropUnneeded
  <2>1. Drop /\ Filled /\ y' = y
    <3>1. begin_index \in Int
      BY <1>1, RequestFacts DEF RingInv
    <3> QED
      BY <1>7, <3>1 DEF DropUnneeded, Drop, Needed, Filled
  <2>2. out' = out
    BY <1>1, <2>1, DropFacts DEF Emitted
  <2>3. Filled' => \A n \in first_scanline'..last_scanline' : Entry(n)' = {edge_wrap(n)}
    <3> SUFFICES ASSUME Filled', NEW n \in first_scanline'..last_scanline'
                 PROVE  Entry(n)' = {edge_wrap(n)}
      OBVIOUS
    <3>1. first_scanline' = first_scanline + 1 /\ last_scanline' = last_scanline
      BY <1>1, <2>1, DropFacts
    <3>2. Entry(n)' = Entry(n)
      BY <1>1, <2>1, DropFacts
    <3>3. n \in first_scanline..last_scanline
      BY <1>4, <3>1
    <3> QED
      BY <1>3, <2>1, <3>2, <3>3
  <2> QED
    BY <1>2, <1>3, <2>1, <2>2, <2>3 DEF UpInv
<1>8. CASE Load
  <2>1. y' = y /\ out' = out
    BY <1>8, LoadCases
  <2>2. CASE ring' = ring
    BY <1>5, <2>1, <2>2
  <2>3. ASSUME NEW n \in Int, AddEntry(n, {edge_wrap(n)}),
               Filled => n = last_scanline + 1 /\ n - first_scanline <= num_entries - 1
        PROVE  UpInv'
    <3>1. /\ last_scanline' = n /\ first_scanline' = (IF Filled THEN first_scanline ELSE n)
          /\ \A m \in first_scanline'..n : Entry(m)' =
               IF m = n THEN {edge_wrap(n)} ELSE Entry(m)
      BY <1>1, <1>2, <2>3, AddFacts
    <3>2. ASSUME NEW m \in first_scanline'..last_scanline' PROVE Entry(m)' = {edge_wrap(m)}
      <4>1. CASE m = n
        BY <3>1, <3>2, <4>1
      <4>2. CASE m # n
        <5>1. Filled /\ m \in first_scanline..last_scanline
          BY <1>4, <2>3, <3>1, <3>2, <4>2
        <5> QED
          BY <1>3, <3>1, <3>2, <4>2, <5>1
      <4> QED
        BY <4>1, <4>2
    <3> QED
      BY <1>2, <1>3, <2>1, <3>2 DEF UpInv
  <2>4. first_pixel \in Int /\ last_pixel \in Int
          /\ last_pixel - first_pixel <= num_entries - 1
    <3>1. IsRange(y, first_pixel, last_pixel) /\ y \in Int
      BY <1>1, <1>8, LoopFacts, LoadCases DEF RangeInv
    <3> QED
      BY <1>1, <3>1, RangeFits, LoopFacts
  <2>5. ASSUME ~Filled, AddEntry(first_pixel, {edge_wrap(first_pixel)}) PROVE UpInv'
    BY <2>3, <2>4, <2>5
  <2>6. ASSUME Filled, first_scanline = first_pixel, last_scanline < last_pixel,
               AddEntry(last_scanline + 1, {edge_wrap(last_scanline + 1)})
        PROVE  UpInv'
    <3>1. PICK n : n = last_scanline + 1
      OBVIOUS
    <3>2. n \in Int /\ n - first_scanline <= num_entries - 1
      <4>1. num_entries \in Int
        BY <1>1, RequestFacts
      <4> QED
        BY <1>4, <2>4, <2>6, <3>1, <4>1
    <3> QED
      BY <2>3, <2>6, <3>1, <3>2
  <2> QED
    BY <1>8, <2>2, <2>5, <2>6, LoadCases
<1>9. CASE ResampleUpsample
  <2>1. /\ phase = "resample" /\ y' = y + 1 /\ ring' = ring
        /\ out' = [out EXCEPT ![y] =
             Append(@, [k \in Contributors |-> ring_buffer[IndexOf(k)]])]
    BY <1>9 DEF ResampleUpsample
  <2>2. /\ y \in Picture /\ IsRange(y, first_pixel, last_pixel)
        /\ Filled /\ first_scanline = first_pixel /\ last_scanline = last_pixel
    BY <1>1, <1>4, <2>1, LoopFacts DEF RangeInv, OrderInv, Picture
  <2>3. Contributors = { k \in -(2 * support)..(2 * support) : Weighs(y, k) }
    BY <1>1, <2>2, MadeOfAll DEF Contributors
  <2>4. [k \in Contributors |-> ring_buffer[IndexOf(k)]] = Whole(y)
    <3>1. \A k \in Contributors : ring_buffer[IndexOf(k)] = {edge_wrap(k)}
      BY <1>3, <2>2 DEF Entry, Contributors
    <3> QED
      BY <2>3, <3>1 DEF Whole
  <2>5. out[y] = <<>>
    BY <1>3, <1>4, <2>2
  <2>6. Append(<<>>, Whole(y)) = <<Whole(y)>>
    OBVIOUS
  <2>7. out' = [out EXCEPT ![y] = <<Whole(y)>>]
    BY <2>1, <2>4, <2>5, <2>6
  <2>8. ASSUME NEW k \in Picture PROVE out'[k] = IF k < y' THEN <<Whole(k)>> ELSE <<>>
    <3>1. k \in Int /\ (k = y \/ (k < y' <=> k < y))
      BY <1>4, <2>1 DEF Picture
    <3>2. k = y => k < y'
      BY <1>4, <2>1
    <3> QED
      BY <1>3, <2>7, <3>1, <3>2
  <2>9. DOMAIN out' = Picture
    BY <1>3, <2>7
  <2> QED
    BY <1>2, <1>3, <2>1, <2>8, <2>9, RingSame DEF UpInv
<1>10. CASE ResampleDownsample
  BY <1>10 DEF ResampleDownsample
<1>11. CASE Flush
  <2>1. ring' = ring /\ y' = y /\ out' = out
    BY <1>11 DEF Flush
  <2> QED
    BY <1>5, <2>1
<1>12. CASE UNCHANGED ring_vars
  BY <1>5, <1>12 DEF ring_vars
<1> QED
  BY <1>6, <1>7, <1>8, <1>9, <1>10, <1>11, <1>12 DEF RingNext

LEMMA UptoNext ==
  ASSUME RequestInv, NEW n \in Int, NEW m \in Int
  PROVE  /\ ~Weighs(m, n) => Upto(n, m + 1) = Upto(n, m)
         /\ Weighs(m, n) /\ ~use_upsampling /\ n \in Picture =>
              Upto(n, m + 1) = Upto(n, m) \union {m}
         /\ (\A k \in Int : k >= m => ~Weighs(k, n)) => Upto(n, m) = Parts(n)
<1>1. PICK D : D = -(2 * support)..(2 * support)
  OBVIOUS
<1>2. D \subseteq Int
  BY <1>1, RequestFacts
<1>3. Upto(n, m) = { k \in D : k < m /\ Weighs(k, n) }
  BY <1>1 DEF Upto
<1>4. Upto(n, m + 1) = { k \in D : (k < m \/ k = m) /\ Weighs(k, n) }
  <2>1. \A k \in D : k < m + 1 <=> (k < m \/ k = m)
    BY <1>2
  <2>2. Upto(n, m + 1) = { k \in D : k < m + 1 /\ Weighs(k, n) }
    BY <1>1 DEF Upto
  <2> QED
    BY <2>1, <2>2
<1>5. ~Weighs(m, n) => Upto(n, m + 1) = Upto(n, m)
  BY <1>3, <1>4
<1>6. ASSUME Weighs(m, n), ~use_upsampling, n \in Picture
      PROVE  Upto(n, m + 1) = Upto(n, m) \union {m}
  <2>1. 0 <= n /\ n < output_h
    BY <1>6 DEF Picture, RequestInv
  <2>2. m \in D
    BY <1>1, <1>6, <2>1, WeighsNear
  <2> QED
    BY <1>3, <1>4, <1>6, <2>2
<1>7. ASSUME \A k \in Int : k >= m => ~Weighs(k, n) PROVE Upto(n, m) = Parts(n)
  <2>1. \A k \in D : Weighs(k, n) => k < m
    BY <1>2, <1>7
  <2>2. Parts(n) = { k \in D : Weighs(k, n) }
    BY <1>1 DEF Parts
  <2> QED
    BY <1>3, <2>1, <2>2
<1> QED
  BY <1>5, <1>6, <1>7

LEMMA InitDown ==
  ASSUME RingInit
  PROVE  DownInv
<1> SUFFICES ASSUME ~use_upsampling PROVE DownPhase /\ DownRing /\ DownOut
  BY DEF DownInv
<1>1. RequestInv /\ RangeInv
  BY InitRoomInv DEF RoomInv
<1>2. phase = "range" /\ ~Filled /\ y = Begin /\ y < EndOfLoop /\ y # EndOfLoop
  BY <1>1, LoopFacts DEF RingInit, Filled, Begin
<1>3. DownPhase
  BY <1>2 DEF DownPhase
<1>4. ASSUME NEW n \in Picture PROVE Upto(n, y) = {}
  <2>1. n \in Nat /\ y = -pixel_margin
    BY <1>1, <1>2 DEF Picture, RequestInv, Begin
  <2>2. \A k \in -(2 * support)..(2 * support) : k \in Int
    BY <1>1, RequestFacts
  <2>3. \A k \in Int : k < -pixel_margin => ~Weighs(k, n)
    BY <1>1, <2>1, NothingBefore
  <2> QED
    BY <2>1, <2>2, <2>3 DEF Upto
<1>5. DownRing
  BY <1>2, <1>4 DEF DownRing
<1>6. DownOut
  BY <1>2 DEF DownOut, RingInit, Gone, Picture
<1> QED
  BY <1>3, <1>5, <1>6

\* Where the next range can be, seen from the phase.
LEMMA SampleRangePhase ==
  ASSUME RoomInv, ~use_upsampling, DownPhase, SampleRange
  PROVE  /\ first_pixel' \in Int /\ last_pixel' \in Int /\ first_pixel' <= last_pixel'
         /\ Filled => /\ last_scanline >= first_pixel' - 1 \/ first_pixel' >= output_h
                      /\ last_pixel' < 0 \/ first_pixel' >= output_h =>
                           last_scanline >= output_h - 1 /\ first_pixel' >= output_h
         /\ ~Filled => /\ first_pixel' <= 0
                       /\ last_pixel' < 0 => y + 1 < EndOfLoop
<1>1. RequestInv /\ RangeInv /\ RingInv /\ OrderInv
  BY DEF RoomInv
<1>2. /\ Begin = -pixel_margin /\ EndOfLoop = input_h + pixel_margin
      /\ y \in Int /\ first_pixel \in Int /\ last_pixel \in Int
      /\ input_h \in Int /\ pixel_margin \in Int /\ output_h \in Nat \ {0}
      /\ first_scanline \in Int /\ last_scanline \in Int
  BY <1>1, LoopFacts, RequestFacts DEF RequestInv, RingInv
<1>3. IsRange(y, first_pixel', last_pixel') /\ phase = "range" /\ y < EndOfLoop
  BY <1>1, SampleRangeOrder DEF SampleRange
<1>4. first_pixel' \in Int /\ last_pixel' \in Int /\ first_pixel' <= last_pixel'
  BY <1>1, <1>2, <1>3, RangeFits DEF IsRange
<1>5. \/ first_pixel <= first_pixel' /\ last_pixel <= last_pixel' /\ first_pixel' <= last_pixel + 1
      \/ y = Begin /\ ~Filled
  BY <1>1, SampleRangeOrder
<1>6. y = Begin => first_pixel' < 0
  BY <1>1, <1>2, <1>3, ReadFromEndToEnd
<1>7. y = EndOfLoop - 1 => last_pixel' >= output_h
  <2>1. y = EndOfLoop - 1 => y = input_h + pixel_margin - 1
    BY <1>2
  <2> QED
    BY <1>1, <1>2, <1>3, <2>1, ReadFromEndToEnd
<1>8. ASSUME Filled
      PROVE  /\ last_scanline >= first_pixel' - 1 \/ first_pixel' >= output_h
             /\ last_pixel' < 0 \/ first_pixel' >= output_h =>
                  last_scanline >= output_h - 1 /\ first_pixel' >= output_h
  <2>1. \/ last_scanline = last_pixel /\ last_pixel >= 0
        \/ last_scanline >= output_h - 1 /\ first_pixel >= output_h
    BY <1>2, <1>3, <1>8 DEF DownPhase
  <2>2. first_pixel <= first_pixel' /\ last_pixel <= last_pixel' /\ first_pixel' <= last_pixel + 1
    BY <1>5, <1>8
  <2>3. CASE last_scanline = last_pixel /\ last_pixel >= 0
    <3>1. last_scanline \in Int /\ last_pixel \in Int /\ output_h \in Int
      BY <1>2
    <3>2. ~(last_pixel' < 0)
      BY ONLY <1>4, <2>2, <2>3, <3>1
    <3>3. PICK a : a = first_pixel'
      OBVIOUS
    <3>4. a \in Int /\ a <= last_pixel + 1
      BY <1>4, <2>2, <3>3
    <3>5. last_scanline >= a - 1 /\ (a >= output_h => last_scanline >= output_h - 1)
      BY ONLY <2>3, <3>1, <3>4
    <3>6. /\ last_scanline >= first_pixel' - 1
          /\ first_pixel' >= output_h => last_scanline >= output_h - 1
      BY <3>3, <3>5
    <3> QED
      BY <3>2, <3>6
  <2>4. CASE last_scanline >= output_h - 1 /\ first_pixel >= output_h
    <3>1. first_pixel' >= output_h
      BY <1>2, <1>4, <2>2, <2>4
    <3> QED
      BY <2>4, <3>1
  <2> QED
    BY <2>1, <2>3, <2>4
<1>9. ASSUME ~Filled PROVE first_pixel' <= 0 /\ (last_pixel' < 0 => y + 1 < EndOfLoop)
  <2>1. last_pixel < 0 \/ y = Begin
    BY <1>2, <1>3, <1>9 DEF DownPhase
  <2> QED
    BY <1>2, <1>3, <1>4, <1>5, <1>6, <1>7, <2>1
<1> QED
  BY <1>4, <1>8, <1>9

LEMMA DownSampleRange ==
  ASSUME RoomInv, ~use_upsampling, DownPhase, DownRing, DownOut, SampleRange
  PROVE  DownPhase' /\ DownRing' /\ DownOut'
<1>1. RequestInv /\ RangeInv /\ RingInv /\ OrderInv
  BY DEF RoomInv
<1>2. /\ phase = "range" /\ y < EndOfLoop /\ request' = request
      /\ ring' = ring /\ out' = out
      /\ IsRange(y, first_pixel', last_pixel')
  BY <1>1, SampleRangeOrder DEF SampleRange
<1>3. /\ (Filled' <=> Filled) /\ \A n : Entry(n)' = Entry(n)
      /\ first_scanline' = first_scanline /\ last_scanline' = last_scanline
  BY <1>2, RingSame
<1>4. /\ EndOfLoop' = EndOfLoop /\ Begin' = Begin /\ output_h' = output_h
      /\ Picture' = Picture
      /\ (\A n, m : Upto(n, m)' = Upto(n, m)) /\ \A k : Parts(k)' = Parts(k)
  BY <1>2, Same DEF Picture
<1>5. /\ y \in Int /\ EndOfLoop \in Int /\ output_h \in Nat \ {0}
      /\ first_scanline \in Int /\ last_scanline \in Int /\ first_pixel' \in Int
      /\ last_pixel' \in Int
  BY <1>1, LoopFacts, SampleRangePhase DEF RequestInv, RingInv
<1>6. \A n \in Picture : n \in Int /\ 0 <= n /\ n < output_h
  BY <1>5 DEF Picture
<1>7. CASE last_pixel' < 0 \/ first_pixel' >= output_h
  <2>1. phase' = "range" /\ y' = y + 1
    BY <1>7 DEF SampleRange
  <2>2. \A n \in Picture : Upto(n, y') = Upto(n, y)
    <3> SUFFICES ASSUME NEW n \in Picture PROVE ~Weighs(y, n)
      BY <1>1, <1>5, <1>6, <2>1, UptoNext
    <3>1. n \in Int /\ n \notin first_pixel'..last_pixel'
      BY <1>5, <1>6, <1>7
    <3> QED
      BY <1>1, <1>2, <1>5, <3>1, WeighsWithin
  <2>3. Filled => last_scanline >= output_h - 1 /\ first_pixel' >= output_h
    BY <1>7, SampleRangePhase
  <2>4. ~Filled => last_pixel' < 0 /\ y' < EndOfLoop /\ y' # EndOfLoop
    <3>1. ~Filled => last_pixel' < 0
      BY <1>5, <1>7, SampleRangePhase
    <3> QED
      BY <1>5, <2>1, <3>1, SampleRangePhase
  <2>5. DownPhase'
    BY <1>3, <1>4, <2>1, <2>3, <2>4 DEF DownPhase
  <2>6. \A n : (Fresh(n)' => Fresh(n)) /\ (Gone(n)' <=> Gone(n))
    BY <1>2, <1>3, <1>4, <1>5, <2>1, <2>4 DEF Fresh, Gone
  <2>7. DownRing'
    BY <1>3, <1>4, <2>2, <2>6 DEF DownRing
  <2>8. DownOut'
    BY <1>2, <1>4, <2>1, <2>6 DEF DownOut
  <2> QED
    BY <2>5, <2>7, <2>8
<1>8. CASE ~(last_pixel' < 0 \/ first_pixel' >= output_h)
  <2>1. phase' = "drop" /\ y' = y
    BY <1>8 DEF SampleRange
  <2>2. DownPhase'
    <3>1. Filled => last_scanline >= first_pixel' - 1
      BY <1>8, SampleRangePhase
    <3> QED
      BY <1>3, <2>1, <3>1 DEF DownPhase
  <2>3. ~Filled => first_pixel' <= 0
    BY SampleRangePhase
  <2>4. \A n \in Picture : (Fresh(n)' => Fresh(n)) /\ (Gone(n)' <=> Gone(n))
    BY <1>2, <1>3, <1>5, <1>6, <2>1, <2>3 DEF Fresh, Gone
  <2>5. DownRing'
    BY <1>3, <1>4, <2>1, <2>4 DEF DownRing
  <2>6. DownOut'
    BY <1>2, <1>4, <2>1, <2>4 DEF DownOut
  <2> QED
    BY <2>2, <2>5, <2>6
<1> QED
  BY <1>7, <1>8

\* A line leaves the ring complete.
LEMMA DownLeaves ==
  ASSUME RoomInv, ~use_upsampling, DownRing, DownOut, Drop, Filled, y' = y,
         \A k \in Picture : k <= first_scanline => Upto(k, y) = Parts(k),
         first_scanline = last_scanline =>
           \A k \in Picture : (Gone(k)' <=> k <= first_scanline) /\ (Fresh(k)' => k > last_scanline)
  PROVE  /\ DownRing' /\ DOMAIN out' = Picture'
         /\ \A k \in Picture' : out'[k] = IF Gone(k)' THEN <<Parts(k)'>> ELSE <<>>
<1>1. RequestInv /\ RangeInv /\ RingInv /\ OrderInv
  BY DEF RoomInv
<1>2. /\ request' = request /\ Picture' = Picture
      /\ (\A n, m : Upto(n, m)' = Upto(n, m)) /\ \A k : Parts(k)' = Parts(k)
  <2>1. request' = request
    BY DEF Drop
  <2> QED
    BY <2>1, Same DEF Picture
<1>3. /\ first_scanline \in Int /\ last_scanline \in Int /\ first_scanline <= last_scanline
      /\ \A n \in Picture : n \in Int
  BY <1>1, RequestFacts DEF RingInv, Picture, RequestInv
<1>4. \A k \in Picture : (Gone(k)' <=> k <= first_scanline) /\ (Fresh(k)' => k > last_scanline)
  <2> SUFFICES ASSUME first_scanline # last_scanline, NEW k \in Picture
               PROVE  (Gone(k)' <=> k <= first_scanline) /\ (Fresh(k)' => k > last_scanline)
    OBVIOUS
  <2>1. Filled' /\ first_scanline' = first_scanline + 1 /\ last_scanline' = last_scanline
    BY <1>1, DropFacts
  <2>2. (Gone(k)' <=> k < first_scanline + 1) /\ (Fresh(k)' => k > last_scanline)
    BY <2>1 DEF Gone, Fresh
  <2>3. k < first_scanline + 1 <=> k <= first_scanline
    BY <1>3
  <2> QED
    BY <2>2, <2>3
<1>5. DownRing'
  <2>1. ASSUME Filled', NEW n \in Picture, n \in first_scanline'..last_scanline'
        PROVE  Entry(n)' = Upto(n, y)
    <3>1. /\ first_scanline' = first_scanline + 1 /\ last_scanline' = last_scanline
          /\ Entry(n)' = Entry(n)
      BY <1>1, <2>1, DropFacts
    <3>2. n \in first_scanline..last_scanline
      BY <1>3, <2>1, <3>1
    <3> QED
      BY <2>1, <3>1, <3>2 DEF DownRing
  <2>2. ASSUME NEW n \in Picture, Fresh(n)' PROVE Upto(n, y) = {}
    <3>1. n > last_scanline
      BY <1>4, <2>2
    <3> QED
      BY <3>1 DEF DownRing, Fresh
  <2> QED
    BY <1>2, <2>1, <2>2 DEF DownRing
<1>6. DOMAIN out' = Picture
  BY <1>1, DropFacts DEF DownOut
<1>7. ASSUME NEW k \in Picture PROVE out'[k] = IF Gone(k)' THEN <<Parts(k)>> ELSE <<>>
  <2>1. out[k] = IF k < first_scanline THEN <<Parts(k)>> ELSE <<>>
    BY DEF DownOut, Gone
  <2>2. CASE k = first_scanline
    <3>1. Emitted(first_scanline)
      BY <1>1, <2>2 DEF Emitted, Picture, RequestInv
    <3>2. out' = [out EXCEPT ![first_scanline] = Append(@, Entry(first_scanline))]
      BY <1>1, <3>1, DropFacts
    <3>3. Entry(k) = Parts(k)
      <4>1. k \in first_scanline..last_scanline
        BY <1>3, <2>2
      <4> QED
        BY <1>3, <2>2, <4>1 DEF DownRing
    <3>4. out[k] = <<>> /\ Append(<<>>, Parts(k)) = <<Parts(k)>>
      BY <1>3, <2>1, <2>2
    <3>5. out'[k] = <<Parts(k)>>
      BY <2>2, <3>2, <3>3, <3>4 DEF DownOut
    <3> QED
      BY <1>3, <1>4, <2>2, <3>5
  <2>3. CASE k # first_scanline
    <3>1. out'[k] = out[k]
      BY <1>1, <2>3, DropFacts DEF DownOut
    <3>2. Gone(k)' <=> k < first_scanline
      BY <1>3, <1>4, <2>3
    <3> QED
      BY <2>1, <3>1, <3>2
  <2> QED
    BY <2>2, <2>3
<1> QED
  BY <1>2, <1>5, <1>6, <1>7

LEMMA DownDrop ==
  ASSUME RoomInv, ~use_upsampling, DownPhase, DownRing, DownOut, DropUnneeded
  PROVE  DownPhase' /\ DownRing' /\ DownOut'
<1>1. RequestInv /\ RangeInv /\ RingInv /\ OrderInv
  BY DEF RoomInv
<1>2. /\ first_scanline \in Int /\ first_pixel \in Int /\ last_scanline \in Int /\ y \in Int
      /\ \A n \in Picture : n \in Int
  BY <1>1, LoopFacts, RequestFacts DEF RingInv, Picture, RequestInv
<1>3. /\ y' = y /\ first_pixel' = first_pixel /\ phase = "drop" /\ phase' = "drop" /\ Drop
      /\ Filled /\ first_scanline < first_pixel
  <2>1. begin_index \in Int
    BY <1>1, RequestFacts DEF RingInv
  <2> QED
    BY <1>2, <2>1 DEF DropUnneeded, Drop, Needed, Filled, range
<1>4. \A k \in Picture : k <= first_scanline => Upto(k, y) = Parts(k)
  <2> SUFFICES ASSUME NEW k \in Picture, k <= first_scanline PROVE Upto(k, y) = Parts(k)
    OBVIOUS
  <2>1. IsRange(y, first_pixel, last_pixel)
    BY <1>1, <1>3 DEF RangeInv
  <2>2. k < first_pixel
    BY <1>2, <1>3
  <2>3. \A m \in Int : m >= y => ~Weighs(m, k)
    BY <1>1, <1>2, <2>1, <2>2, PastIsOver
  <2> QED
    BY <1>1, <1>2, <2>3, UptoNext
<1>5. last_scanline >= first_pixel - 1
  BY <1>3 DEF DownPhase
<1>6. first_scanline = last_scanline =>
        \A k \in Picture : (Gone(k)' <=> k <= first_scanline) /\ (Fresh(k)' => k > last_scanline)
  <2> SUFFICES ASSUME first_scanline = last_scanline, NEW k \in Picture
               PROVE  (Gone(k)' <=> k <= first_scanline) /\ (Fresh(k)' => k > last_scanline)
    OBVIOUS
  <2>1. ~Filled'
    BY <1>1, <1>3, DropFacts
  <2>2. (Gone(k)' <=> k < first_pixel) /\ (Fresh(k)' <=> k >= first_pixel)
    BY <1>3, <2>1 DEF Gone, Fresh
  <2> QED
    BY <1>2, <1>3, <1>5, <2>2
<1>7. /\ DownRing' /\ DOMAIN out' = Picture'
      /\ \A k \in Picture' : out'[k] = IF Gone(k)' THEN <<Parts(k)'>> ELSE <<>>
  BY <1>3, <1>4, <1>6, DownLeaves
<1>8. DownPhase'
  <2>1. Filled' => last_scanline' = last_scanline
    BY <1>1, <1>3, DropFacts
  <2> QED
    BY <1>3, <1>5, <2>1 DEF DownPhase
<1>9. DownOut'
  BY <1>3, <1>7 DEF DownOut
<1> QED
  BY <1>7, <1>8, <1>9

\* A fresh line enters the ring empty.
LEMMA DownEnters ==
  ASSUME RoomInv, ~use_upsampling, DownRing, DownOut,
         phase = "drop", phase' = "drop", y' = y,
         first_pixel' = first_pixel, out' = out, request' = request,
         NEW n \in Int, AddEntry(n, {}),
         Filled => n = last_scanline + 1 /\ n - first_scanline <= num_entries - 1,
         ~Filled => n = first_pixel
  PROVE  DownRing' /\ DownOut' /\ last_scanline' = n
<1>1. RequestInv /\ RangeInv /\ RingInv /\ OrderInv
  BY DEF RoomInv
<1>2. /\ Filled' /\ last_scanline' = n
      /\ first_scanline' = (IF Filled THEN first_scanline ELSE n)
      /\ \A m \in first_scanline'..n : Entry(m)' = IF m = n THEN {} ELSE Entry(m)
  BY <1>1, AddFacts
<1>3. /\ Picture' = Picture
      /\ (\A k, m : Upto(k, m)' = Upto(k, m)) /\ \A k : Parts(k)' = Parts(k)
  BY Same DEF Picture
<1>4. /\ first_scanline \in Int /\ last_scanline \in Int /\ first_pixel \in Int
      /\ \A k \in Picture : k \in Int
  BY <1>1, LoopFacts DEF RingInv, Picture, RequestInv
<1>5. \A k \in Picture : Gone(k)' <=> Gone(k)
  BY <1>2, <1>4 DEF Gone
<1>6. \A k \in Picture : (k >= n => Fresh(k)) /\ (Fresh(k)' => k > n)
  BY <1>2, <1>4 DEF Fresh
<1>7. ASSUME NEW k \in Picture, k \in first_scanline'..last_scanline' PROVE Entry(k)' = Upto(k, y)
  <2>1. CASE k = n
    <3>1. Upto(k, y) = {}
      BY <1>6, <2>1 DEF DownRing
    <3> QED
      BY <1>2, <1>7, <2>1, <3>1
  <2>2. CASE k # n
    <3>1. Filled /\ k \in first_scanline..last_scanline
      BY <1>2, <1>4, <1>7, <2>2
    <3> QED
      BY <1>2, <1>7, <2>2, <3>1 DEF DownRing
  <2> QED
    BY <2>1, <2>2
<1>8. ASSUME NEW k \in Picture, Fresh(k)' PROVE Upto(k, y) = {}
  <2>1. Fresh(k)
    BY <1>4, <1>6, <1>8
  <2> QED
    BY <2>1 DEF DownRing
<1>9. DownRing'
  BY <1>3, <1>7, <1>8 DEF DownRing
<1>10. DownOut'
  BY <1>3, <1>5 DEF DownOut
<1> QED
  BY <1>2, <1>9, <1>10

LEMMA DownLoad ==
  ASSUME RoomInv, ~use_upsampling, DownPhase, DownRing, DownOut, Load
  PROVE  DownPhase' /\ DownRing' /\ DownOut'
<1>1. RequestInv /\ RangeInv /\ RingInv /\ OrderInv
  BY DEF RoomInv
<1>2. /\ request' = request /\ y' = y /\ first_pixel' = first_pixel
      /\ last_pixel' = last_pixel /\ out' = out /\ phase = "drop"
      /\ first_scanline \in Int /\ first_pixel \in Int /\ last_pixel \in Int
      /\ last_scanline \in Int /\ y \in Int
  BY <1>1, LoadCases, LoopFacts DEF RingInv
<1>3. last_pixel - first_pixel <= num_entries - 1 /\ num_entries \in Int
  <2>1. IsRange(y, first_pixel, last_pixel)
    BY <1>1, <1>2 DEF RangeInv
  <2> QED
    BY <1>1, <1>2, <2>1, RangeFits, RequestFacts
<1>4. ASSUME ~Filled, phase' = "drop", AddEntry(first_pixel, {})
      PROVE  DownPhase' /\ DownRing' /\ DownOut'
  <2>1. DownRing' /\ DownOut' /\ last_scanline' = first_pixel
    BY <1>2, <1>4, DownEnters
  <2> QED
    BY <1>2, <1>4, <2>1 DEF DownPhase
<1>5. ASSUME Filled, phase' = "drop", first_scanline = first_pixel, last_scanline < last_pixel,
             AddEntry(last_scanline + 1, {})
      PROVE  DownPhase' /\ DownRing' /\ DownOut'
  <2>1. PICK n : n = last_scanline + 1
    OBVIOUS
  <2>2. n \in Int /\ n - first_scanline <= num_entries - 1 /\ AddEntry(n, {})
    BY <1>2, <1>3, <1>5, <2>1
  <2>3. DownRing' /\ DownOut' /\ last_scanline' = n
    BY <1>2, <1>5, <2>1, <2>2, DownEnters
  <2>4. n >= first_pixel - 1
    BY <1>1, <1>2, <1>5, <2>1 DEF DownPhase
  <2> QED
    BY <1>2, <1>5, <2>3, <2>4 DEF DownPhase
<1>6. ASSUME Filled, phase' = "resample", ring' = ring
      PROVE  DownPhase' /\ DownRing' /\ DownOut'
  <2>1. /\ Filled' /\ (\A n : Entry(n)' = Entry(n))
        /\ first_scanline' = first_scanline /\ last_scanline' = last_scanline
    BY <1>2, <1>6, RingSame
  <2>2. /\ Picture' = Picture
        /\ (\A k, m : Upto(k, m)' = Upto(k, m)) /\ \A k : Parts(k)' = Parts(k)
    BY <1>2, Same DEF Picture
  <2>3. \A k : (Gone(k)' <=> Gone(k)) /\ (Fresh(k)' <=> Fresh(k))
    BY <1>6, <2>1 DEF Gone, Fresh
  <2>4. DownRing' /\ DownPhase'
    BY <1>2, <1>6, <2>1, <2>2, <2>3 DEF DownRing, DownPhase
  <2>5. DownOut'
    BY <1>2, <1>6, <2>2, <2>3 DEF DownOut
  <2> QED
    BY <2>4, <2>5
<1> QED
  BY <1>4, <1>5, <1>6, LoadCases

LEMMA DownResample ==
  ASSUME RoomInv, ~use_upsampling, DownPhase, DownRing, DownOut, ResampleDownsample
  PROVE  DownPhase' /\ DownRing' /\ DownOut'
<1>1. RequestInv /\ RangeInv /\ RingInv /\ OrderInv
  BY DEF RoomInv
<1>2. /\ phase = "resample" /\ phase' = "range" /\ y' = y + 1 /\ first_pixel' = first_pixel
      /\ last_pixel' = last_pixel
      /\ begin_index' = begin_index /\ first_scanline' = first_scanline
      /\ last_scanline' = last_scanline /\ out' = out /\ request' = request
  BY DEF ResampleDownsample, range
<1>3. /\ y \in Int /\ y < EndOfLoop /\ EndOfLoop \in Int
      /\ IsRange(y, first_pixel, last_pixel)
      /\ EndOfLoop = input_h + pixel_margin /\ input_h \in Int
      /\ pixel_margin \in Int
      /\ Filled /\ first_scanline = first_pixel /\ last_scanline = last_pixel /\ last_pixel >= 0
      /\ first_pixel \in Int /\ last_pixel \in Int /\ output_h \in Int
      /\ \A n \in Picture : n \in Int /\ 0 <= n /\ n < output_h
  BY <1>1, <1>2, LoopFacts, RequestFacts DEF RangeInv, OrderInv, Picture, RequestInv
<1>4. PICK R, b : R = num_entries /\ b = begin_index
  OBVIOUS
<1>5. /\ R \in Nat \ {0} /\ b \in 0..(R - 1) /\ last_pixel - first_pixel <= R - 1
      /\ DOMAIN ring_buffer = 0..(R - 1)
  BY <1>1, <1>3, <1>4, RequestFacts, RangeFits DEF RingInv, Filled
<1>6. /\ Picture' = Picture /\ EndOfLoop' = EndOfLoop /\ output_h' = output_h
      /\ num_entries' = R /\ Filled'
      /\ (\A k, m : Upto(k, m)' = Upto(k, m)) /\ \A k : Parts(k)' = Parts(k)
  BY <1>2, <1>3, <1>4, Same DEF Picture, Filled
<1>7. \A n : IndexOf(n) = At(n, b, first_pixel, R)
        /\ IndexOf(n)' = At(n, b, first_pixel, R)
  BY <1>2, <1>3, <1>4, <1>6 DEF IndexOf, At
<1>8. Inside = { k \in first_pixel..last_pixel : Weighs(y, k) /\ k \in Picture }
  BY <1>3 DEF Inside, Contributors, Picture
<1>9. ASSUME NEW n \in Picture, n \in first_pixel..last_pixel
      PROVE  Entry(n)' = IF Weighs(y, n) THEN Entry(n) \union {y} ELSE Entry(n)
  <2>1. n \in Int /\ first_pixel <= n /\ n < first_pixel + R
    BY <1>3, <1>5, <1>9
  <2>2. At(n, b, first_pixel, R) \in 0..(R - 1)
    BY <1>3, <1>5, <2>1, AtFacts
  <2>3. IndexOf(n) \in { IndexOf(k) : k \in Inside } <=> Weighs(y, n)
    <3>1. ASSUME Weighs(y, n) PROVE n \in Inside
      BY <1>8, <1>9, <3>1
    <3>2. ASSUME NEW k \in Inside, IndexOf(k) = IndexOf(n) PROVE Weighs(y, n)
      <4>1. k \in first_pixel..last_pixel /\ Weighs(y, k)
        BY <1>8
      <4>2. k \in Int /\ first_pixel <= k /\ k < first_pixel + R
        BY <1>3, <1>5, <4>1
      <4>3. At(k, b, first_pixel, R) = At(n, b, first_pixel, R)
        BY <1>7, <3>2
      <4>4. k = n
        BY <1>3, <1>5, <2>1, <4>2, <4>3, AtFacts
      <4> QED
        BY <4>1, <4>4
    <3> QED
      BY <3>1, <3>2
  <2>4. ring_buffer' = [i \in DOMAIN ring_buffer |->
          IF i \in { IndexOf(k) : k \in Inside }
          THEN ring_buffer[i] \union {y} ELSE ring_buffer[i]]
    BY DEF ResampleDownsample
  <2>5. IndexOf(n) \in DOMAIN ring_buffer /\ IndexOf(n)' = IndexOf(n)
    BY <1>5, <1>7, <2>2
  <2> QED
    BY <2>3, <2>4, <2>5 DEF Entry
<1>10. \A n \in Picture : ~Weighs(y, n) => Upto(n, y') = Upto(n, y)
  BY <1>1, <1>2, <1>3, UptoNext
<1>11. \A n \in Picture : Weighs(y, n) => Upto(n, y') = Upto(n, y) \union {y}
  BY <1>1, <1>2, <1>3, UptoNext
<1>12. \A n \in Picture : n \in first_pixel..last_pixel => Entry(n)' = Upto(n, y')
  <2> SUFFICES ASSUME NEW n \in Picture, n \in first_pixel..last_pixel PROVE Entry(n)' = Upto(n, y')
    OBVIOUS
  <2>1. Entry(n) = Upto(n, y)
    BY <1>3 DEF DownRing
  <2>2. CASE Weighs(y, n)
    BY <1>9, <1>11, <2>1, <2>2
  <2>3. CASE ~Weighs(y, n)
    BY <1>9, <1>10, <2>1, <2>3
  <2> QED
    BY <2>2, <2>3
<1>13. \A n \in Picture : Fresh(n)' => Upto(n, y') = {}
  <2> SUFFICES ASSUME NEW n \in Picture, Fresh(n)' PROVE Upto(n, y') = {}
    OBVIOUS
  <2>1. n > last_pixel /\ Fresh(n)
    BY <1>2, <1>3, <1>6 DEF Fresh
  <2>2. n \in Int /\ n \notin first_pixel..last_pixel
    BY <1>3, <2>1
  <2>3. ~Weighs(y, n)
    BY <1>1, <1>3, <2>2, WeighsWithin
  <2> QED
    BY <1>10, <2>1, <2>3 DEF DownRing
<1>14. DownRing'
  BY <1>2, <1>3, <1>6, <1>12, <1>13 DEF DownRing
<1>15. DownOut'
  <2>1. \A k \in Picture : Gone(k)' <=> Gone(k)
    BY <1>2, <1>3, <1>6 DEF Gone
  <2> QED
    BY <1>2, <1>6, <2>1 DEF DownOut
<1>16. DownPhase'
  <2>1. CASE y + 1 < EndOfLoop
    BY <1>2, <1>3, <1>6, <2>1 DEF DownPhase
  <2>2. CASE ~(y + 1 < EndOfLoop)
    <3>1. y + 1 = EndOfLoop /\ y = input_h + pixel_margin - 1
      BY <1>3, <2>2
    <3>2. last_pixel >= output_h
      BY <1>1, <1>3, <3>1, ReadFromEndToEnd
    <3>3. last_scanline >= output_h - 1
      BY <1>3, <3>2
    <3> QED
      BY <1>2, <1>6, <3>1, <3>3 DEF DownPhase
  <2> QED
    BY <2>1, <2>2
<1> QED
  BY <1>14, <1>15, <1>16

LEMMA DownFlush ==
  ASSUME RoomInv, ~use_upsampling, DownPhase, DownRing, DownOut, Flush
  PROVE  DownPhase' /\ DownRing' /\ DownOut'
<1>1. RequestInv /\ RangeInv /\ RingInv /\ OrderInv
  BY DEF RoomInv
<1>2. /\ request' = request /\ y' = y /\ first_pixel' = first_pixel
      /\ last_pixel' = last_pixel /\ phase = "range"
      /\ y = EndOfLoop /\ ~(y < EndOfLoop)
  BY <1>1, LoopFacts DEF Flush, Drop, range, RangeInv
<1>3. /\ first_scanline \in Int /\ last_scanline \in Int /\ begin_index \in Int /\ output_h \in Int
      /\ y \in Int /\ \A n \in Picture : n \in Int /\ n < output_h
  BY <1>1, RequestFacts, LoopFacts DEF RingInv, Picture, RequestInv
<1>4. /\ Picture' = Picture /\ EndOfLoop' = EndOfLoop /\ output_h' = output_h
      /\ (\A k, m : Upto(k, m)' = Upto(k, m)) /\ \A k : Parts(k)' = Parts(k)
  BY <1>2, Same DEF Picture
<1>5. CASE Needed(Rest)
  <2>1. ring' = ring /\ out' = out /\ phase' = "done"
    BY <1>5 DEF Flush
  <2>2. /\ (Filled' <=> Filled) /\ (\A n : Entry(n)' = Entry(n))
        /\ first_scanline' = first_scanline /\ last_scanline' = last_scanline
    BY <1>2, <2>1, RingSame
  <2>3. \A k : (Gone(k)' <=> Gone(k)) /\ (Fresh(k)' <=> Fresh(k))
    BY <1>2, <1>4, <2>1, <2>2 DEF Gone, Fresh
  <2>4. \A k \in Picture : Gone(k)
    <3>1. CASE Filled
      <4>1. output_h <= first_scanline
        BY <1>3, <1>5, <3>1 DEF Needed, Rest, Filled
      <4> QED
        BY <1>3, <3>1, <4>1 DEF Gone
    <3>2. CASE ~Filled
      BY <1>2, <3>2 DEF Gone
    <3> QED
      BY <3>1, <3>2
  <2>5. DownPhase' /\ DownRing'
    BY <1>2, <1>4, <2>1, <2>2, <2>3 DEF DownPhase, DownRing
  <2>6. DownOut'
    BY <1>4, <2>1, <2>3, <2>4 DEF DownOut
  <2> QED
    BY <2>5, <2>6
<1>6. CASE ~Needed(Rest)
  <2>1. Drop /\ phase' = "range"
    BY <1>2, <1>6 DEF Flush
  <2>2. Filled /\ first_scanline < output_h
    BY <1>3, <1>6 DEF Needed, Rest, Filled
  <2>3. last_scanline >= output_h - 1
    BY <1>2, <2>2 DEF DownPhase
  <2>4. \A k \in Picture : k <= first_scanline => Upto(k, y) = Parts(k)
    <3> SUFFICES ASSUME NEW k \in Picture PROVE Upto(k, y) = Parts(k)
      OBVIOUS
    <3>1. EndOfLoop = input_h + pixel_margin
      BY <1>1, LoopFacts
    <3>2. \A m \in Int : m >= y => ~Weighs(m, k)
      BY <1>1, <1>2, <1>3, <3>1, NothingAfter
    <3> QED
      BY <1>1, <1>3, <3>2, UptoNext
  <2>5. first_scanline = last_scanline =>
          \A k \in Picture : (Gone(k)' <=> k <= first_scanline) /\ (Fresh(k)' => k > last_scanline)
    <3> SUFFICES ASSUME first_scanline = last_scanline, NEW k \in Picture
                 PROVE  (Gone(k)' <=> k <= first_scanline) /\ (Fresh(k)' => k > last_scanline)
      OBVIOUS
    <3>1. ~Filled'
      BY <1>1, <2>1, <2>2, DropFacts
    <3>2. Gone(k)' /\ ~Fresh(k)'
      BY <1>2, <1>4, <2>1, <3>1 DEF Gone, Fresh
    <3>3. k <= first_scanline
      BY <1>3, <2>3
    <3> QED
      BY <3>2, <3>3
  <2>6. /\ DownRing' /\ DOMAIN out' = Picture'
        /\ \A k \in Picture' : out'[k] = IF Gone(k)' THEN <<Parts(k)'>> ELSE <<>>
    BY <1>2, <2>1, <2>2, <2>4, <2>5, DownLeaves
  <2>7. DownPhase'
    <3>1. Filled' => last_scanline' = last_scanline
      BY <1>1, <2>1, <2>2, DropFacts
    <3> QED
      BY <1>2, <1>4, <2>1, <2>3, <3>1 DEF DownPhase
  <2>8. DownOut'
    BY <2>1, <2>6 DEF DownOut
  <2> QED
    BY <2>6, <2>7, <2>8
<1> QED
  BY <1>5, <1>6

LEMMA DownKept ==
  ASSUME RoomInv, DownInv, [RingNext]_ring_vars
  PROVE  DownInv'
<1> SUFFICES ASSUME ~use_upsampling PROVE DownPhase' /\ DownRing' /\ DownOut'
  <2>1. use_upsampling' <=> use_upsampling
    BY RequestStays, Same
  <2> QED
    BY <2>1 DEF DownInv
<1>1. DownPhase /\ DownRing /\ DownOut
  BY DEF DownInv
<1>2. CASE SampleRange
  BY <1>1, <1>2, DownSampleRange
<1>3. CASE DropUnneeded
  BY <1>1, <1>3, DownDrop
<1>4. CASE Load
  BY <1>1, <1>4, DownLoad
<1>5. CASE ResampleUpsample
  BY <1>5 DEF ResampleUpsample
<1>6. CASE ResampleDownsample
  BY <1>1, <1>6, DownResample
<1>7. CASE Flush
  BY <1>1, <1>7, DownFlush
<1>8. CASE UNCHANGED ring_vars
  <2>1. /\ request' = request /\ ring' = ring /\ phase' = phase
        /\ y' = y /\ out' = out
        /\ first_pixel' = first_pixel /\ last_pixel' = last_pixel
    BY <1>8 DEF ring_vars, range
  <2>2. /\ (Filled' <=> Filled) /\ (\A n : Entry(n)' = Entry(n))
        /\ first_scanline' = first_scanline /\ last_scanline' = last_scanline
    BY <2>1, RingSame
  <2>3. /\ Picture' = Picture /\ EndOfLoop' = EndOfLoop /\ Begin' = Begin
        /\ output_h' = output_h
        /\ (\A k, m : Upto(k, m)' = Upto(k, m)) /\ \A k : Parts(k)' = Parts(k)
    BY <2>1, Same DEF Picture
  <2>4. \A k : (Gone(k)' <=> Gone(k)) /\ (Fresh(k)' <=> Fresh(k))
    BY <2>1, <2>2, <2>3 DEF Gone, Fresh
  <2>5. DownPhase' /\ DownRing'
    BY <1>1, <2>1, <2>2, <2>3, <2>4 DEF DownPhase, DownRing
  <2>6. DownOut'
    BY <1>1, <2>1, <2>3, <2>4 DEF DownOut
  <2> QED
    BY <2>5, <2>6
<1> QED
  BY <1>2, <1>3, <1>4, <1>5, <1>6, <1>7, <1>8 DEF RingNext

\* For every pair of sizes within PrecisionAssumption, and however the floats of
\* its ties are rounded: a line of the result is written once, and with everything
\* the kernel gives it.  No line of the source that has a part in it was left out
\* at the ends of the loop, came after it was written, or was overwritten in the
\* ring.
THEOREM LinesAreAlwaysWhole == RingSpec => []LinesAreWhole
<1>1. RoomInv /\ UpInv /\ DownInv => LinesAreWhole
  <2> SUFFICES ASSUME RoomInv, UpInv, DownInv, NEW k \in DOMAIN out,
                      out[k] # <<>> \/ phase = "done"
               PROVE  out[k] = <<Whole(k)>>
    BY DEF LinesAreWhole
  <2>1. CASE use_upsampling
    <3>1. k \in Picture /\ out[k] = IF k < y THEN <<Whole(k)>> ELSE <<>>
      BY <2>1 DEF UpInv
    <3>2. phase = "done" => k < y
      <4>1. phase = "done" => y = output_h
        BY <2>1, LoopFacts DEF RoomInv, RangeInv
      <4>2. output_h \in Int
        BY DEF RoomInv, RequestInv
      <4> QED
        BY <3>1, <4>1, <4>2 DEF Picture
    <3> QED
      BY <3>1, <3>2
  <2>2. CASE ~use_upsampling
    <3>1. k \in Picture /\ Whole(k) = Parts(k)
      BY <2>2 DEF DownInv, DownOut, Whole
    <3>2. out[k] = (IF Gone(k) THEN <<Parts(k)>> ELSE <<>>) /\ (phase = "done" => Gone(k))
      BY <2>2, <3>1 DEF DownInv, DownOut
    <3> QED
      BY <3>1, <3>2
  <2> QED
    BY <2>1, <2>2
<1>2. RingInit => RoomInv /\ UpInv /\ DownInv
  BY InitRoomInv, InitUp, InitDown
<1>3. RoomInv /\ UpInv /\ DownInv /\ [RingNext]_ring_vars => (RoomInv /\ UpInv /\ DownInv)'
  BY RoomKept, UpKept, DownKept
<1> QED
  BY <1>1, <1>2, <1>3, PTL DEF RingSpec

===============================================================================

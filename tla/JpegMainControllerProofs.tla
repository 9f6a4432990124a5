----------------------- MODULE JpegMainControllerProofs -----------------------
(***************************************************************************)
(* Proofs about libjpeg's main controller and upsampler, for pictures of   *)
(* every height and every set-up of the decoder FramesAssumption allows.   *)
(***************************************************************************)
EXTENDS JpegMainController, SequenceTheorems, TLAPS

-----------------------------------------------------------------------------
(* Lines in row groups of max_v, row groups in rows of MCUs of M.          *)

\* Lines in a row of MCUs, and the rows of MCUs there are.
PerIMCU == max_v * M
Total == total_iMCU_rows

LEMMA FrameFacts ==
  ASSUME frame \in Frames
  PROVE  /\ M \in Nat /\ M >= 2 /\ Context \in BOOLEAN
         /\ max_v \in 1..4 /\ 1 \in Comps
         /\ \A c \in Comps : v_samp[c] \in {1, 2, 3, 4} /\ max_v \in {v_samp[c], 2 * v_samp[c]}
         /\ PerIMCU \in Nat /\ PerIMCU >= 2
<1>1. M \in Nat /\ M >= 2 /\ Context \in BOOLEAN /\ v_samp \in Seq(Nat)
  BY FramesAssumption DEF M, Context, v_samp
<1>2. PICK max \in 1..4 :
        /\ \A c \in Comps : max \in {v_samp[c], 2 * v_samp[c]}
        /\ \E c \in Comps : v_samp[c] = max
  BY FramesAssumption DEF v_samp, Comps
<1>3. \A c \in Comps : v_samp[c] \in Nat
  BY <1>1 DEF Comps
<1>4. \A c \in Comps : v_samp[c] <= max
  BY <1>2, <1>3
<1>5. max \in { v_samp[c] : c \in Comps } /\ \A c \in Comps : v_samp[c] <= max
  BY <1>2, <1>4
<1>6. max_v \in { v_samp[c] : c \in Comps } /\ \A c \in Comps : v_samp[c] <= max_v
  BY <1>5 DEF max_v
<1>7. max_v = max
  <2>1. PICK d \in Comps : v_samp[d] = max_v
    BY <1>6
  <2>2. PICK e \in Comps : v_samp[e] = max
    BY <1>2
  <2>3. max_v <= max /\ max <= max_v /\ max_v \in Nat
    BY <1>3, <1>4, <1>6, <2>1, <2>2
  <2> QED
    BY <2>3
<1>8. 1 \in Comps
  <2>1. Comps # {}
    BY <1>2
  <2> QED
    BY <1>1, <2>1 DEF Comps
<1>9. max_v \in 1..4 /\ \A c \in Comps : max_v \in {v_samp[c], 2 * v_samp[c]}
  BY <1>2, <1>7
<1>10. \A c \in Comps : v_samp[c] \in {1, 2, 3, 4}
  BY <1>3, <1>9
<1>11. PerIMCU \in Nat /\ PerIMCU >= 2
  BY <1>1, <1>9 DEF PerIMCU
<1> QED
  BY <1>1, <1>8, <1>9, <1>10, <1>11

LEMMA DivFacts ==
  ASSUME NEW n \in Nat, NEW d \in Nat \ {0}
  PROVE  /\ n \div d \in Nat /\ n % d \in 0..(d - 1) /\ n = d * (n \div d) + (n % d)
OBVIOUS

LEMMA DivUnique ==
  ASSUME NEW n \in Nat, NEW d \in Nat \ {0}, NEW q \in Nat, NEW r \in 0..(d - 1), n = q * d + r
  PROVE  n \div d = q /\ n % d = r
<1> DEFINE a == n \div d
           b == n % d
<1>1. a \in Nat /\ b \in 0..(d - 1) /\ n = d * a + b
  BY DivFacts
<1> HIDE DEF a, b
<1>2. d * (a - q) = r - b
  BY <1>1
<1>3. ASSUME a > q PROVE FALSE
  <2>1. d * (a - q) >= d
    BY <1>1, <1>3
  <2> QED
    BY <1>1, <1>2, <2>1
<1>4. ASSUME a < q PROVE FALSE
  <2>1. d * (q - a) >= d /\ d * (q - a) = b - r
    BY <1>1, <1>2, <1>4
  <2> QED
    BY <1>1, <2>1
<1>5. a = q
  BY <1>1, <1>3, <1>4
<1>6. b = r
  BY <1>1, <1>5
<1> QED
  BY <1>5, <1>6 DEF a, b

\* jdiv_round_up is the least number of parts of this size.
LEMMA RoundUp ==
  ASSUME NEW n \in Nat \ {0}, NEW d \in Nat \ {0}
  PROVE  /\ jdiv_round_up(n, d) \in Nat \ {0}
         /\ (jdiv_round_up(n, d) - 1) * d < n /\ n <= jdiv_round_up(n, d) * d
         /\ \A k \in Nat : k * d < n => k < jdiv_round_up(n, d)
         /\ \A k \in Nat : n <= k * d => jdiv_round_up(n, d) <= k
<1> DEFINE t == jdiv_round_up(n, d)
           m == n + d - 1
<1>1. m \in Nat /\ t = m \div d
  BY DEF jdiv_round_up
<1>2. t \in Nat /\ m % d \in 0..(d - 1) /\ m = d * t + (m % d)
  BY <1>1, DivFacts
<1>3. t # 0
  BY <1>2
<1>4. (t - 1) * d = d * t - d /\ t * d = d * t
  BY <1>2
<1>5. (t - 1) * d < n /\ n <= t * d
  BY <1>2, <1>4
<1>6. ASSUME NEW k \in Nat, k * d < n PROVE k < t
  <2>1. k * d < t * d
    BY <1>2, <1>5, <1>6
  <2> HIDE DEF t
  <2>2. ~(k >= t)
    <3>1. k >= t => k * d >= t * d
      BY <1>2
    <3> QED
      BY <1>2, <2>1, <3>1
  <2> QED
    BY <1>2, <2>2
<1>7. ASSUME NEW k \in Nat, n <= k * d PROVE t <= k
  <2>1. (t - 1) * d < k * d
    BY <1>2, <1>5, <1>7
  <2> HIDE DEF t
  <2>2. ~(t - 1 >= k)
    <3>1. t - 1 >= k => (t - 1) * d >= k * d
      BY <1>2
    <3>2. (t - 1) * d \in Int /\ k * d \in Int
      BY <1>2
    <3> QED
      BY <2>1, <3>1, <3>2
  <2> QED
    BY <1>2, <2>2
<1> QED
  BY <1>2, <1>3, <1>5, <1>6, <1>7

LEMMA TotalFacts ==
  ASSUME frame \in Frames, Height \in Nat \ {0}
  PROVE  /\ Total \in Nat \ {0}
         /\ (Total - 1) * PerIMCU < Height /\ Height <= Total * PerIMCU
         /\ \A k \in Nat : k * PerIMCU < Height => k < Total
<1>1. Total = jdiv_round_up(Height, PerIMCU)
  BY DEF Total, total_iMCU_rows, IMCURows, PerIMCU
<1> QED
  BY <1>1, FrameFacts, RoundUp

\* Line y is the j-th of row group g of the n-th row of MCUs, counted from 0.
LEMMA Position ==
  ASSUME frame \in Frames, NEW n \in Nat, NEW g \in 0..(M - 1), NEW j \in 0..(max_v - 1),
         NEW y \in Nat, y = n * PerIMCU + g * max_v + j
  PROVE  /\ y \div PerIMCU = n
         /\ Early(y, PerIMCU, max_v) <=> g < M - 1
<1>1. M \in Nat /\ M >= 2 /\ max_v \in 1..4 /\ PerIMCU \in Nat \ {0} /\ PerIMCU = max_v * M
  BY FrameFacts DEF PerIMCU
<1>2. g * max_v + j \in 0..(PerIMCU - 1)
  <2>1. g * max_v <= (M - 1) * max_v /\ (M - 1) * max_v = PerIMCU - max_v
    BY <1>1
  <2> QED
    BY <1>1, <2>1
<1>3. y \div PerIMCU = n /\ y % PerIMCU = g * max_v + j
  BY <1>1, <1>2, DivUnique
<1>4. (g * max_v + j) \div max_v = g
  BY <1>1, DivUnique
<1>5. PerIMCU \div max_v = M
  <2>1. PerIMCU = M * max_v + 0 /\ 0 \in 0..(max_v - 1)
    BY <1>1
  <2> QED
    BY <1>1, <2>1, DivUnique
<1> QED
  BY <1>3, <1>4, <1>5 DEF Early

-----------------------------------------------------------------------------
(* The bottom of the picture.                                              *)

LEMMA RoundUpUnique ==
  ASSUME NEW n \in Nat \ {0}, NEW d \in Nat \ {0}, NEW t \in Nat \ {0},
         (t - 1) * d < n, n <= t * d
  PROVE  jdiv_round_up(n, d) = t
<1>1. t - 1 \in Nat
  OBVIOUS
<1>2. t - 1 < jdiv_round_up(n, d) /\ jdiv_round_up(n, d) <= t /\ jdiv_round_up(n, d) \in Nat
  BY <1>1, RoundUp
<1> QED
  BY <1>2

LEMMA RestFacts ==
  ASSUME NEW n \in Nat \ {0}, NEW size \in Nat \ {0}
  PROVE  /\ Rest(n, size) \in 1..size
         /\ n = (jdiv_round_up(n, size) - 1) * size + Rest(n, size)
<1> DEFINE q == n \div size
           r == n % size
<1>0. q \in Nat /\ r \in 0..(size - 1) /\ n = size * q + r
  BY DivFacts
<1>2. Rest(n, size) = IF r = 0 THEN size ELSE r
  BY DEF Rest
<1> HIDE DEF q, r
<1>1. q \in Nat /\ r \in 0..(size - 1) /\ n = q * size + r
  BY <1>0
<1>3. CASE r = 0
  <2>1. q \in Nat \ {0} /\ (q - 1) * size < n /\ n <= q * size
    BY <1>1, <1>3
  <2>2. jdiv_round_up(n, size) = q
    BY <2>1, RoundUpUnique
  <2> QED
    BY <1>1, <1>2, <1>3, <2>1, <2>2
<1>4. CASE r # 0
  <2>1. q + 1 \in Nat \ {0} /\ ((q + 1) - 1) * size < n /\ n <= (q + 1) * size
    BY <1>1, <1>4
  <2>2. jdiv_round_up(n, size) = q + 1
    BY <2>1, RoundUpUnique
  <2>3. Rest(n, size) = r /\ (q + 1) - 1 = q /\ r \in 1..size
    BY <1>1, <1>2, <1>4
  <2> QED
    BY <1>1, <2>2, <2>3
<1> QED
  BY <1>3, <1>4

\* A component has the lines of the picture, or half of them rounded up; they
\* end in the same row of MCUs.
LEMMA DownsampledFacts ==
  ASSUME frame \in Frames, Height \in Nat \ {0}, NEW c \in Comps
  PROVE  /\ downsampled_height(c) \in Nat \ {0}
         /\ v_samp[c] = max_v => downsampled_height(c) = Height
         /\ v_samp[c] # max_v => 2 * downsampled_height(c) \in {Height, Height + 1}
         /\ jdiv_round_up(downsampled_height(c), v_samp[c] * M) = Total
<1> DEFINE g == v_samp[c]
           h == downsampled_height(c)
<1>1. /\ g \in {1, 2, 3, 4} /\ max_v \in 1..4 /\ max_v \in {g, 2 * g} /\ M \in Nat /\ M >= 2
      /\ Total \in Nat \ {0}
  BY FrameFacts, TotalFacts
<1>2. h = (Height * g + max_v - 1) \div max_v
  BY DEF downsampled_height, jdiv_round_up
<1>3. (Total - 1) * PerIMCU < Height /\ Height <= Total * PerIMCU /\ PerIMCU = max_v * M
  BY TotalFacts DEF PerIMCU
<1> HIDE DEF g, h
<1>4. CASE g = max_v
  <2>1. h = Height
    <3>1. Height * g + max_v - 1 = Height * max_v + (max_v - 1) /\ max_v - 1 \in 0..(max_v - 1)
          /\ Height * g + max_v - 1 \in Nat
      BY <1>1, <1>4
    <3> QED
      BY <1>1, <1>2, <3>1, DivUnique
  <2>2. g * M = PerIMCU /\ g * M \in Nat \ {0}
    BY <1>1, <1>3, <1>4
  <2>3. jdiv_round_up(h, g * M) = Total
    BY <1>1, <1>3, <2>1, <2>2, RoundUpUnique
  <2> QED
    BY <1>4, <2>1, <2>3 DEF g, h
<1>5. CASE g # max_v
  <2>1. max_v = 2 * g /\ g \in {1, 2}
    BY <1>1, <1>5
  <2>2. 2 * h \in {Height, Height + 1} /\ h \in Nat \ {0}
    BY <1>2, <2>1
  <2>3. g * M \in Nat \ {0} /\ (Total - 1) * (g * M) < h /\ h <= Total * (g * M)
    <3> DEFINE a == (Total - 1) * (g * M)
               b == Total * (g * M)
    <3>1. a \in Int /\ b \in Int /\ 2 * a = (Total - 1) * PerIMCU /\ 2 * b = Total * PerIMCU
      BY <1>1, <1>3, <2>1
    <3>2. g * M \in Nat \ {0}
      BY <1>1
    <3> HIDE DEF a, b
    <3>3. a < h /\ h <= b
      BY <1>3, <2>2, <3>1
    <3> QED
      BY <3>2, <3>3 DEF a, b
  <2>4. jdiv_round_up(h, g * M) = Total
    BY <1>1, <2>2, <2>3, RoundUpUnique
  <2> QED
    BY <1>5, <2>2, <2>4 DEF g, h
<1> QED
  BY <1>4, <1>5

LEMMA RowsLeft ==
  ASSUME frame \in Frames, Height \in Nat \ {0}, NEW c \in Comps
  PROVE  /\ rows_left(c) \in 1..(v_samp[c] * M)
         /\ downsampled_height(c) = (Total - 1) * (v_samp[c] * M) + rows_left(c)
<1>1. v_samp[c] * M \in Nat \ {0}
  BY FrameFacts
<1> QED
  BY <1>1, DownsampledFacts, RestFacts DEF rows_left

\* set_bottom_pointers gives as many row groups as the lines need.
LEMMA BottomGroups ==
  ASSUME frame \in Frames, Height \in Nat \ {0}
  PROVE  /\ bottom_groups \in 1..M
         /\ Height <= (Total - 1) * PerIMCU + bottom_groups * max_v
<1> DEFINE g == v_samp[1]
           l == rows_left(1)
           h == downsampled_height(1)
           b == bottom_groups
<1>1. /\ g \in {1, 2, 3, 4} /\ max_v \in {g, 2 * g} /\ M \in Nat /\ M >= 2 /\ max_v \in 1..4
      /\ Total \in Nat \ {0} /\ 1 \in Comps /\ PerIMCU = max_v * M
  BY FrameFacts, TotalFacts DEF PerIMCU
<1>2. /\ l \in 1..(g * M) /\ h = (Total - 1) * (g * M) + l
      /\ g = max_v => h = Height
      /\ g # max_v => 2 * h \in {Height, Height + 1}
  BY <1>1, RowsLeft, DownsampledFacts
<1>3. b = (l - 1) \div g + 1
  BY DEF bottom_groups
<1> HIDE DEF g, l, h, b
<1>4. b \in 1..M /\ l <= b * g
  BY <1>1, <1>2, <1>3
<1>5. CASE g = max_v
  <2>1. (Total - 1) * (g * M) = (Total - 1) * PerIMCU /\ (Total - 1) * PerIMCU \in Int
    BY <1>1, <1>5
  <2> QED
    BY <1>1, <1>2, <1>4, <1>5, <2>1 DEF b
<1>6. CASE g # max_v
  <2>1. max_v = 2 * g
    BY <1>1, <1>6
  <2>2. 2 * ((Total - 1) * (g * M)) = (Total - 1) * PerIMCU /\ (Total - 1) * PerIMCU \in Int
    BY <1>1, <2>1
  <2>3. b * max_v = 2 * (b * g)
    BY <1>1, <1>4, <2>1
  <2>4. Height <= 2 * h /\ 2 * h = (Total - 1) * PerIMCU + 2 * l
    BY <1>1, <1>2, <1>6, <2>2
  <2>5. b * g \in Int /\ 2 * l <= b * max_v
    BY <1>1, <1>2, <1>4, <2>3
  <2> QED
    BY <1>1, <1>2, <1>4, <2>2, <2>3, <2>4, <2>5 DEF b
<1> QED
  BY <1>5, <1>6

-----------------------------------------------------------------------------
(* Where the lines have got to.  The rows of MCUs read and the counters of *)
(* the context state machine determine it.                                 *)

\* Lines that were taken out of color_buf while there are more in it.
Taken == IF next_row_out < max_v THEN next_row_out ELSE 0

\* The first line of the row of MCUs read last.
Top == (input_iMCU_row - 1) * PerIMCU

SimplePlace ==
  IF buffer_full
  THEN /\ rowgroup_ctr \in 0..(M - 1)
       /\ output_scanline = Top + rowgroup_ctr * max_v + Taken
       /\ call = "idle" => output_scanline > Top
  ELSE /\ rowgroup_ctr = 0 /\ next_row_out = max_v
       /\ output_scanline = input_iMCU_row * PerIMCU

\* A row of MCUs is set up; its row groups but the last, or those there are at
\* the bottom, come out; the last one waits for the next row of MCUs.
PreparePlace ==
  /\ next_row_out = max_v
  /\ IF buffer_full THEN output_scanline = Top
     ELSE input_iMCU_row = 0 /\ output_scanline = 0
ProcessPlace ==
  /\ buffer_full
  /\ rowgroups_avail = IF input_iMCU_row = Total THEN bottom_groups ELSE M - 1
  /\ rowgroup_ctr \in 0..(rowgroups_avail - 1)
  /\ output_scanline = Top + rowgroup_ctr * max_v + Taken
  /\ call = "idle" => output_scanline > Top
PostponedPlace ==
  /\ rowgroup_ctr = M + 1 /\ rowgroups_avail = M + 2
  /\ IF buffer_full
     THEN /\ input_iMCU_row >= 2
          /\ output_scanline = Top - PerIMCU + (M - 1) * max_v + Taken
          /\ call = "idle" => Taken > 0
     ELSE /\ next_row_out = max_v /\ input_iMCU_row >= 1
          /\ IF input_iMCU_row = Total THEN output_scanline = Height
             ELSE output_scanline = Top + (M - 1) * max_v

ContextPlace ==
  /\ context_state = "prepare" => PreparePlace
  /\ context_state = "process" => ProcessPlace
  /\ context_state = "postponed" => PostponedPlace

ControlInv ==
  /\ frame \in Frames /\ Height \in Nat \ {0}
  /\ call \in {"idle", "fill", "run"} /\ context_state \in {"prepare", "process", "postponed"}
  /\ buffer_full \in BOOLEAN /\ next_row_out \in 1..max_v
  /\ output_scanline \in 0..Height /\ rows_to_go = Height - output_scanline
  /\ input_iMCU_row \in 0..Total /\ iMCU_row_ctr = input_iMCU_row
  /\ buffer_full => input_iMCU_row >= 1
  /\ call # "idle" => output_scanline < Height /\ out_row_ctr = 0
  /\ call = "fill" => ~buffer_full
  /\ call = "run" => buffer_full
  /\ IF Context THEN ContextPlace ELSE SimplePlace

LEMMA ControlInit == Init => ControlInv
<1> SUFFICES ASSUME Init PROVE ControlInv
  OBVIOUS
<1>1. frame \in Frames /\ Height \in Nat \ {0}
  BY FramesAssumption DEF Init
<1>2. max_v \in 1..4 /\ Total \in Nat /\ PerIMCU \in Nat
  BY <1>1, FrameFacts, TotalFacts
<1>3. 0 * PerIMCU = 0
  BY <1>2
<1>4. /\ call = "idle" /\ output_scanline = 0 /\ input_iMCU_row = 0 /\ iMCU_row_ctr = 0
      /\ buffer_full = FALSE /\ context_state = "prepare" /\ rowgroup_ctr = 0
      /\ next_row_out = max_v /\ rows_to_go = Height
  BY DEF Init, ToGo
<1>5. SimplePlace /\ ContextPlace
  BY <1>3, <1>4 DEF ContextPlace, PreparePlace, SimplePlace
<1>6. max_v \in 1..max_v /\ 0 \in 0..Height /\ Height = Height - 0 /\ 0 \in 0..Total
  BY <1>1, <1>2
<1> QED
  BY <1>1, <1>4, <1>5, <1>6 DEF ControlInv

LEMMA ControlFacts ==
  ASSUME ControlInv
  PROVE  /\ M \in Nat /\ M >= 2 /\ Context \in BOOLEAN /\ max_v \in 1..4
         /\ PerIMCU \in Nat /\ PerIMCU = max_v * M /\ PerIMCU >= 2
         /\ Total \in Nat \ {0} /\ Height \in Nat \ {0}
         /\ (Total - 1) * PerIMCU < Height /\ Height <= Total * PerIMCU
         /\ \A k \in Nat : k * PerIMCU < Height => k < Total
         /\ bottom_groups \in 1..M
         /\ Height <= (Total - 1) * PerIMCU + bottom_groups * max_v
         /\ input_iMCU_row \in Nat /\ Top \in Int /\ input_iMCU_row * PerIMCU = Top + PerIMCU
         /\ (input_iMCU_row >= 1 => Top >= 0)
<1>1. PerIMCU = max_v * M
  BY DEF PerIMCU
<1>2. /\ frame \in Frames /\ Height \in Nat \ {0} /\ input_iMCU_row \in 0..Total
      /\ Total \in Nat \ {0}
  BY TotalFacts DEF ControlInv
<1>3. input_iMCU_row \in Nat /\ PerIMCU \in Nat
  BY <1>2, FrameFacts
<1>4. Top \in Int /\ input_iMCU_row * PerIMCU = Top + PerIMCU
  BY <1>3 DEF Top
<1>5. input_iMCU_row >= 1 => Top >= 0
  BY <1>3 DEF Top
<1> QED
  BY <1>1, <1>2, <1>3, <1>4, <1>5, FrameFacts, TotalFacts, BottomGroups

\* What PostProcess does in a call for one line: one line, the next of
\* color_buf.
LEMMA OneLine ==
  ASSUME ControlInv, call = "run", PostProcess
  PROVE  /\ out_row_ctr' = 1 /\ rows_to_go' = rows_to_go - 1
         /\ next_row_out' = Taken + 1 /\ next_row_out' \in 1..max_v
         /\ Taken \in 0..(max_v - 1)
         /\ output_scanline < Height
<1>1. /\ output_scanline \in 0..Height /\ rows_to_go = Height - output_scanline
      /\ output_scanline < Height /\ out_row_ctr = 0 /\ Height \in Nat
      /\ next_row_out \in 1..max_v /\ max_v \in 1..4
  BY FrameFacts DEF ControlInv
<1>2. Taken \in 0..(max_v - 1)
  BY <1>1 DEF Taken
<1>3. Emits(Taken) = 1
  BY <1>1, <1>2 DEF Emits, Min2
<1>4. /\ out_row_ctr' = out_row_ctr + Emits(Taken) /\ rows_to_go' = rows_to_go - Emits(Taken)
      /\ next_row_out' = Taken + Emits(Taken)
  BY <1>1 DEF PostProcess, Taken
<1> QED
  BY <1>1, <1>2, <1>3, <1>4

LEMMA FrameSame ==
  ASSUME frame' = frame, Height' = Height
  PROVE  /\ M' = M /\ v_samp' = v_samp /\ Context' = Context /\ Comps' = Comps
         /\ max_v' = max_v /\ PerIMCU' = PerIMCU /\ Total' = Total
         /\ bottom_groups' = bottom_groups
         /\ \A c : rows_left(c)' = rows_left(c)
         /\ \A c : downsampled_height(c)' = downsampled_height(c)
<1>1. M' = M /\ v_samp' = v_samp /\ Context' = Context
  BY DEF M, v_samp, Context
<1>2. Comps' = Comps
  BY <1>1 DEF Comps
<1>3. max_v' = max_v
  BY <1>1, <1>2 DEF max_v
<1>4. \A c : downsampled_height(c)' = downsampled_height(c)
  BY <1>1, <1>3 DEF downsampled_height
<1>5. \A c : rows_left(c)' = rows_left(c)
  BY <1>1, <1>4 DEF rows_left
<1>6. bottom_groups' = bottom_groups
  BY <1>1, <1>5 DEF bottom_groups
<1>7. PerIMCU' = PerIMCU /\ Total' = Total
  BY <1>1, <1>3 DEF PerIMCU, Total, total_iMCU_rows
<1> QED
  BY <1>1, <1>2, <1>3, <1>4, <1>5, <1>6, <1>7

\* What a step that reads and emits nothing leaves as it was.
LEMMA PlaceSame ==
  ASSUME frame' = frame, Height' = Height,
         UNCHANGED <<next_row_out, input_iMCU_row>>
  PROVE  Taken' = Taken /\ Top' = Top
<1>1. max_v' = max_v /\ PerIMCU' = PerIMCU
  BY FrameSame
<1> QED
  BY <1>1 DEF Taken, Top

LEMMA CallControl ==
  ASSUME ControlInv, Call
  PROVE  ControlInv'
<1>1. /\ call = "idle" /\ output_scanline < Height
      /\ call' = IF buffer_full THEN "run" ELSE "fill"
      /\ out_row_ctr' = 0
      /\ UNCHANGED <<frame, Height, output_scanline, input_iMCU_row, context_state, buffer_full,
                     rowgroup_ctr, rowgroups_avail, iMCU_row_ctr, next_row_out, rows_to_go>>
  BY DEF Call, caller, groups
<1>2. Taken' = Taken /\ Top' = Top
  BY <1>1, PlaceSame
<1>3. /\ M' = M /\ Context' = Context /\ max_v' = max_v /\ PerIMCU' = PerIMCU /\ Total' = Total
      /\ bottom_groups' = bottom_groups
  BY <1>1, FrameSame
<1>4. call' # "idle"
  BY <1>1
<1>5. Context => ContextPlace'
  <2> SUFFICES ASSUME Context PROVE ContextPlace'
    OBVIOUS
  <2>1. PreparePlace => PreparePlace'
    BY <1>1, <1>2, <1>3 DEF PreparePlace
  <2>2. ProcessPlace => ProcessPlace'
    BY <1>1, <1>2, <1>3, <1>4 DEF ProcessPlace
  <2>3. PostponedPlace => PostponedPlace'
    BY <1>1, <1>2, <1>3, <1>4 DEF PostponedPlace
  <2> QED
    BY <1>1, <2>1, <2>2, <2>3 DEF ControlInv, ContextPlace
<1>6. ~Context => SimplePlace'
  BY <1>1, <1>2, <1>3, <1>4 DEF ControlInv, SimplePlace
<1>7. ControlInv
  OBVIOUS
<1> QED
  BY <1>1, <1>3, <1>5, <1>6 DEF ControlInv

LEMMA FillControl ==
  ASSUME ControlInv, DecompressData
  PROVE  ControlInv' /\ input_iMCU_row < Total
<1>1. /\ call = "fill" /\ call' = "run" /\ buffer_full' = TRUE
      /\ input_iMCU_row' = input_iMCU_row + 1 /\ iMCU_row_ctr' = iMCU_row_ctr + 1
      /\ UNCHANGED <<frame, Height, output_scanline, context_state, rowgroup_ctr,
                     rowgroups_avail, next_row_out, rows_to_go, out_row_ctr>>
  BY DEF DecompressData, caller, groups, upsample
<1>2. /\ M' = M /\ Context' = Context /\ max_v' = max_v /\ PerIMCU' = PerIMCU /\ Total' = Total
      /\ bottom_groups' = bottom_groups
  BY <1>1, FrameSame
<1>3. /\ M \in Nat /\ M >= 2 /\ max_v \in 1..4 /\ PerIMCU \in Nat /\ PerIMCU = max_v * M
      /\ input_iMCU_row \in Nat /\ Top \in Int /\ input_iMCU_row * PerIMCU = Top + PerIMCU
      /\ Total \in Nat
      /\ \A k \in Nat : k * PerIMCU < Height => k < Total
  BY ControlFacts
<1>4. Top' = Top + PerIMCU /\ Top' = input_iMCU_row * PerIMCU
  BY <1>1, <1>2, <1>3 DEF Top
<1>5. Taken' = Taken
  BY <1>1, <1>2 DEF Taken
<1>6. /\ ~buffer_full /\ output_scanline < Height /\ output_scanline \in Nat
      /\ input_iMCU_row <= Total
  BY <1>1 DEF ControlInv
<1>7. CASE Context
  <2>1. CASE context_state = "prepare"
    <3>1. input_iMCU_row = 0 /\ output_scanline = 0 /\ next_row_out = max_v
      BY <1>6, <1>7, <2>1 DEF ControlInv, ContextPlace, PreparePlace
    <3>2. Top' = 0
      BY <1>3, <1>4, <3>1
    <3>3. PreparePlace'
      BY <1>1, <1>2, <3>1, <3>2 DEF PreparePlace
    <3>4. input_iMCU_row < Total
      BY <1>3, <3>1, ControlFacts
    <3> QED
      BY <1>1, <1>2, <1>3, <1>6, <1>7, <2>1, <3>3, <3>4 DEF ControlInv, ContextPlace
  <2>2. CASE context_state = "process"
    BY <1>6, <1>7, <2>2 DEF ControlInv, ContextPlace, ProcessPlace
  <2>3. CASE context_state = "postponed"
    <3>1. /\ rowgroup_ctr = M + 1 /\ rowgroups_avail = M + 2 /\ next_row_out = max_v
          /\ input_iMCU_row >= 1 /\ input_iMCU_row # Total
          /\ output_scanline = Top + (M - 1) * max_v
      BY <1>6, <1>7, <2>3 DEF ControlInv, ContextPlace, PostponedPlace
    <3>2. input_iMCU_row < Total
      BY <1>3, <1>6, <3>1
    <3>3. Taken = 0
      BY <1>3, <3>1 DEF Taken
    <3>4. Top' - PerIMCU = Top /\ (M - 1) * max_v \in Int
      BY <1>3, <1>4
    <3>5. output_scanline' = Top' - PerIMCU' + (M' - 1) * max_v' + Taken'
      BY <1>1, <1>2, <1>3, <1>5, <3>1, <3>3, <3>4
    <3>6. PostponedPlace'
      BY <1>1, <1>2, <1>3, <3>1, <3>5 DEF PostponedPlace
    <3> QED
      BY <1>1, <1>2, <1>3, <1>6, <1>7, <2>3, <3>2, <3>6 DEF ControlInv, ContextPlace
  <2> QED
    BY <2>1, <2>2, <2>3 DEF ControlInv
<1>8. CASE ~Context
  <2>1. rowgroup_ctr = 0 /\ next_row_out = max_v /\ output_scanline = input_iMCU_row * PerIMCU
    BY <1>6, <1>8 DEF ControlInv, SimplePlace
  <2>2. input_iMCU_row < Total
    BY <1>3, <1>6, <2>1
  <2>3. Taken = 0
    BY <1>3, <2>1 DEF Taken
  <2>4. 0 * max_v = 0 /\ 0 \in 0..(M - 1)
    BY <1>3
  <2>5. SimplePlace'
    BY <1>1, <1>2, <1>3, <1>4, <1>5, <2>1, <2>3, <2>4 DEF SimplePlace
  <2> QED
    BY <1>1, <1>2, <1>3, <1>6, <1>8, <2>2, <2>5 DEF ControlInv
<1> QED
  BY <1>7, <1>8

\* After a line either color_buf has more or its row group is consumed.
LEMMA LineTaken ==
  ASSUME ControlInv, call = "run", PostProcess, frame' = frame, Height' = Height
  PROVE  \/ Taken' = Taken + 1 /\ Consumed = rowgroup_ctr
         \/ /\ Taken' = 0 /\ Taken + 1 = max_v /\ next_row_out' = max_v
            /\ Consumed = rowgroup_ctr + 1
<1>1. /\ next_row_out' = Taken + 1 /\ next_row_out' \in 1..max_v /\ Taken \in 0..(max_v - 1)
      /\ max_v \in 1..4 /\ max_v' = max_v
  BY OneLine, FrameSame, ControlFacts
<1> QED
  BY <1>1 DEF Taken, Consumed

\* What every return of process_data leaves behind.
LEMMA LineControl ==
  ASSUME ControlInv, call = "run", PostProcess, Return,
         UNCHANGED <<frame, Height, input_iMCU_row, iMCU_row_ctr>>,
         buffer_full' \in BOOLEAN, context_state' \in {"prepare", "process", "postponed"},
         IF Context THEN ContextPlace' ELSE SimplePlace'
  PROVE  ControlInv'
<1>1. /\ out_row_ctr' = 1 /\ rows_to_go' = rows_to_go - 1 /\ next_row_out' \in 1..max_v
      /\ output_scanline < Height
  BY OneLine
<1>2. call' = "idle" /\ output_scanline' = output_scanline + 1
  BY <1>1 DEF Return
<1>3. max_v' = max_v /\ Total' = Total /\ Context' = Context
  BY FrameSame
<1>4. /\ output_scanline \in 0..Height /\ rows_to_go = Height - output_scanline
      /\ Height \in Nat /\ input_iMCU_row >= 1
  BY DEF ControlInv
<1>5. output_scanline' \in 0..Height /\ rows_to_go' = Height - output_scanline'
  BY <1>1, <1>2, <1>4
<1> QED
  BY <1>1, <1>2, <1>3, <1>4, <1>5 DEF ControlInv

LEMMA SimpleControl ==
  ASSUME ControlInv, SimpleMain
  PROVE  ControlInv'
<1>1. /\ call = "run" /\ ~Context /\ PostProcess /\ Return
      /\ IF Consumed < M THEN buffer_full' = TRUE /\ rowgroup_ctr' = Consumed
         ELSE buffer_full' = FALSE /\ rowgroup_ctr' = 0
      /\ UNCHANGED <<frame, Height, input_iMCU_row, iMCU_row_ctr, context_state>>
  BY DEF SimpleMain, ControlInv
<1>2. /\ M' = M /\ Context' = Context /\ max_v' = max_v /\ PerIMCU' = PerIMCU /\ Total' = Total
  BY <1>1, FrameSame
<1>3. /\ M \in Nat /\ M >= 2 /\ max_v \in 1..4 /\ PerIMCU \in Nat /\ PerIMCU = max_v * M
      /\ Top \in Int /\ input_iMCU_row * PerIMCU = Top + PerIMCU /\ Top' = Top
  BY <1>1, <1>2, ControlFacts DEF Top
<1>4. /\ Taken \in 0..(max_v - 1)
      /\ output_scanline' = output_scanline + 1 /\ call' = "idle"
  BY <1>1, OneLine DEF Return
<1>5. /\ rowgroup_ctr \in 0..(M - 1) /\ output_scanline = Top + rowgroup_ctr * max_v + Taken
  BY <1>1 DEF ControlInv, SimplePlace
<1>6. rowgroup_ctr * max_v \in Nat
  BY <1>3, <1>5
<1>7. SimplePlace'
  <2>1. CASE Taken' = Taken + 1 /\ Consumed = rowgroup_ctr
    <3>1. /\ buffer_full' = TRUE /\ rowgroup_ctr' = rowgroup_ctr
          /\ output_scanline' = Top + rowgroup_ctr * max_v + Taken'
          /\ output_scanline' > Top
      BY <1>1, <1>3, <1>4, <1>5, <1>6, <2>1
    <3> QED
      BY <1>2, <1>3, <1>5, <3>1 DEF SimplePlace
  <2>2. CASE /\ Taken' = 0 /\ Taken + 1 = max_v /\ next_row_out' = max_v
             /\ Consumed = rowgroup_ctr + 1
    <3>1. (rowgroup_ctr + 1) * max_v = rowgroup_ctr * max_v + max_v
      BY <1>3, <1>5
    <3>2. output_scanline' = Top + (rowgroup_ctr + 1) * max_v
      BY <1>3, <1>4, <1>5, <1>6, <2>2, <3>1
    <3>3. CASE rowgroup_ctr + 1 < M
      <4>1. /\ buffer_full' = TRUE /\ rowgroup_ctr' = rowgroup_ctr + 1 /\ rowgroup_ctr' \in 0..(M - 1)
            /\ output_scanline' = Top' + rowgroup_ctr' * max_v' + Taken'
            /\ output_scanline' > Top'
        BY <1>1, <1>2, <1>3, <1>5, <1>6, <2>2, <3>1, <3>2, <3>3
      <4> QED
        BY <1>2, <4>1 DEF SimplePlace
    <3>4. CASE rowgroup_ctr + 1 = M
      <4>1. buffer_full' = FALSE /\ rowgroup_ctr' = 0 /\ next_row_out' = max_v'
        BY <1>1, <1>2, <1>3, <2>2, <3>4
      <4>2. output_scanline' = input_iMCU_row' * PerIMCU'
        BY <1>1, <1>2, <1>3, <3>2, <3>4
      <4> QED
        BY <4>1, <4>2 DEF SimplePlace
    <3> QED
      BY <1>3, <1>5, <3>3, <3>4
  <2> QED
    BY <1>1, <2>1, <2>2, LineTaken
<1>8. buffer_full' \in BOOLEAN
  BY <1>1
<1>9. context_state' \in {"prepare", "process", "postponed"}
  BY <1>1 DEF ControlInv
<1> QED
  BY <1>1, <1>7, <1>8, <1>9, LineControl

\* The last row group of the row of MCUs before.
LEMMA PostponedControl ==
  ASSUME ControlInv, PostponedRow
  PROVE  ControlInv' /\ Return
<1>1. /\ call = "run" /\ Context /\ context_state = "postponed" /\ PostProcess
      /\ rowgroup_ctr' = Consumed
      /\ context_state' = IF Consumed < rowgroups_avail THEN "postponed" ELSE "prepare"
      /\ UNCHANGED <<frame, Height, input_iMCU_row, iMCU_row_ctr, buffer_full, rowgroups_avail>>
  BY DEF PostponedRow
<1>2. Return
  <2>1. out_row_ctr' >= 1
    BY <1>1, OneLine
  <2> QED
    BY <2>1 DEF PostponedRow
<1>3. /\ M' = M /\ Context' = Context /\ max_v' = max_v /\ PerIMCU' = PerIMCU /\ Total' = Total
  BY <1>1, FrameSame
<1>4. /\ M \in Nat /\ M >= 2 /\ max_v \in 1..4 /\ PerIMCU \in Nat /\ PerIMCU = max_v * M
      /\ Top \in Int /\ Top' = Top /\ input_iMCU_row \in Nat
  BY <1>1, <1>3, ControlFacts DEF Top
<1>5. /\ Taken \in 0..(max_v - 1)
      /\ output_scanline' = output_scanline + 1 /\ call' = "idle"
  BY <1>1, <1>2, OneLine DEF Return
<1>6. /\ buffer_full /\ rowgroup_ctr = M + 1 /\ rowgroups_avail = M + 2 /\ input_iMCU_row >= 2
      /\ output_scanline = Top - PerIMCU + (M - 1) * max_v + Taken
  BY <1>1 DEF ControlInv, ContextPlace, PostponedPlace
<1>7. (M - 1) * max_v \in Int /\ PerIMCU = (M - 1) * max_v + max_v
  BY <1>4
<1>8. ContextPlace'
  <2>1. CASE Taken' = Taken + 1 /\ Consumed = rowgroup_ctr
    <3>1. context_state' = "postponed" /\ rowgroup_ctr' = M + 1
      BY <1>1, <1>4, <1>6, <2>1
    <3>2. output_scanline' = Top' - PerIMCU' + (M' - 1) * max_v' + Taken' /\ Taken' > 0
      BY <1>3, <1>4, <1>5, <1>6, <1>7, <2>1
    <3>3. PostponedPlace'
      BY <1>1, <1>3, <1>6, <3>1, <3>2 DEF PostponedPlace
    <3> QED
      BY <3>1, <3>3 DEF ContextPlace
  <2>2. CASE /\ Taken' = 0 /\ Taken + 1 = max_v /\ next_row_out' = max_v
             /\ Consumed = rowgroup_ctr + 1
    <3>1. context_state' = "prepare"
      BY <1>1, <1>4, <1>6, <2>2
    <3>2. output_scanline' = Top'
      BY <1>4, <1>5, <1>6, <1>7, <2>2
    <3>3. PreparePlace'
      BY <1>1, <1>3, <1>6, <2>2, <3>2 DEF PreparePlace
    <3> QED
      BY <3>1, <3>3 DEF ContextPlace
  <2> QED
    BY <1>1, <2>1, <2>2, LineTaken
<1>9. buffer_full' \in BOOLEAN /\ context_state' \in {"prepare", "process", "postponed"}
  BY <1>1 DEF ControlInv
<1> QED
  BY <1>1, <1>2, <1>8, <1>9, LineControl

LEMMA PrepareControl ==
  ASSUME ControlInv, PrepareForIMCU
  PROVE  ControlInv'
<1>1. /\ call = "run" /\ Context /\ context_state = "prepare"
      /\ rowgroup_ctr' = 0 /\ context_state' = "process"
      /\ rowgroups_avail' = IF AtBottom THEN bottom_groups ELSE M - 1
      /\ UNCHANGED <<call, frame, Height, output_scanline, input_iMCU_row, buffer_full,
                     iMCU_row_ctr, next_row_out, rows_to_go, out_row_ctr>>
  BY DEF PrepareForIMCU, caller, upsample
<1>2. /\ M' = M /\ Context' = Context /\ max_v' = max_v /\ PerIMCU' = PerIMCU /\ Total' = Total
      /\ bottom_groups' = bottom_groups
  BY <1>1, FrameSame
<1>3. Taken' = Taken /\ Top' = Top
  BY <1>1, PlaceSame
<1>4. /\ M \in Nat /\ M >= 2 /\ max_v \in 1..4 /\ bottom_groups \in 1..M /\ Top \in Int
  BY ControlFacts
<1>5. buffer_full /\ next_row_out = max_v /\ output_scanline = Top
  BY <1>1 DEF ControlInv, ContextPlace, PreparePlace
<1>6. AtBottom <=> input_iMCU_row = Total
  BY DEF AtBottom, ControlInv, Total
<1>7. 0 \in 0..(rowgroups_avail' - 1)
  BY <1>1, <1>4
<1>8. output_scanline = Top + 0 * max_v + 0 /\ Taken = 0
  BY <1>4, <1>5 DEF Taken
<1>9. ProcessPlace'
  BY <1>1, <1>2, <1>3, <1>5, <1>6, <1>7, <1>8 DEF ProcessPlace
<1> QED
  BY <1>1, <1>2, <1>9 DEF ControlInv, ContextPlace

LEMMA ProcessControl ==
  ASSUME ControlInv, ProcessIMCU
  PROVE  ControlInv'
<1>1. /\ call = "run" /\ Context /\ context_state = "process" /\ PostProcess /\ Return
      /\ UNCHANGED <<frame, Height, input_iMCU_row, iMCU_row_ctr>>
  BY DEF ProcessIMCU
<1>2. /\ M' = M /\ Context' = Context /\ max_v' = max_v /\ PerIMCU' = PerIMCU /\ Total' = Total
      /\ bottom_groups' = bottom_groups
  BY <1>1, FrameSame
<1>3. /\ M \in Nat /\ M >= 2 /\ max_v \in 1..4 /\ PerIMCU \in Nat /\ PerIMCU = max_v * M
      /\ Top \in Int /\ Top' = Top /\ input_iMCU_row \in Nat /\ bottom_groups \in 1..M
      /\ Height \in Nat /\ Total \in Nat
      /\ Height <= (Total - 1) * PerIMCU + bottom_groups * max_v
  BY <1>1, <1>2, ControlFacts DEF Top
<1>4. /\ Taken \in 0..(max_v - 1) /\ output_scanline < Height
      /\ output_scanline' = output_scanline + 1 /\ call' = "idle"
  BY <1>1, OneLine DEF Return
<1>5. /\ buffer_full
      /\ rowgroups_avail = IF input_iMCU_row = Total THEN bottom_groups ELSE M - 1
      /\ rowgroup_ctr \in 0..(rowgroups_avail - 1)
      /\ output_scanline = Top + rowgroup_ctr * max_v + Taken
      /\ input_iMCU_row >= 1
  BY <1>1 DEF ControlInv, ContextPlace, ProcessPlace
<1>6. /\ rowgroups_avail \in 1..M /\ rowgroup_ctr \in Nat /\ rowgroup_ctr * max_v \in Nat
      /\ (rowgroup_ctr + 1) * max_v = rowgroup_ctr * max_v + max_v
  BY <1>3, <1>5
<1>7. \/ Taken' = Taken + 1 /\ Consumed = rowgroup_ctr
      \/ /\ Taken' = 0 /\ Taken + 1 = max_v /\ next_row_out' = max_v
         /\ Consumed = rowgroup_ctr + 1
  BY <1>1, LineTaken
<1>8. CASE Consumed < rowgroups_avail
  <2>1. /\ rowgroup_ctr' = Consumed
        /\ UNCHANGED <<buffer_full, rowgroups_avail, context_state>>
    BY <1>8 DEF ProcessIMCU
  <2>2. /\ output_scanline' = Top + Consumed * max_v + Taken' /\ output_scanline' > Top
        /\ Consumed \in 0..(rowgroups_avail - 1)
    BY <1>3, <1>4, <1>5, <1>6, <1>7, <1>8
  <2>3. ProcessPlace'
    BY <1>1, <1>2, <1>3, <1>5, <2>1, <2>2 DEF ProcessPlace
  <2>4. ContextPlace'
    BY <1>1, <2>1, <2>3 DEF ContextPlace
  <2>5. buffer_full' \in BOOLEAN /\ context_state' \in {"prepare", "process", "postponed"}
    BY <2>1 DEF ControlInv
  <2> QED
    BY <1>1, <2>4, <2>5, LineControl
<1>9. CASE ~(Consumed < rowgroups_avail)
  <2>1. /\ buffer_full' = FALSE /\ context_state' = "postponed"
        /\ rowgroup_ctr' = M + 1 /\ rowgroups_avail' = M + 2
    BY <1>3, <1>9 DEF ProcessIMCU, Postponed
  <2>2. /\ rowgroup_ctr + 1 = rowgroups_avail /\ next_row_out' = max_v /\ Taken + 1 = max_v
    BY <1>5, <1>6, <1>7, <1>9
  <2>3. output_scanline' = Top + rowgroups_avail * max_v
    BY <1>3, <1>4, <1>5, <1>6, <2>2
  <2>4. CASE input_iMCU_row = Total
    <3>1. Top = (Total - 1) * PerIMCU /\ output_scanline' = Top + bottom_groups * max_v
      BY <1>5, <2>3, <2>4 DEF Top
    <3>2. output_scanline' <= Height /\ output_scanline' \in Int
      BY <1>3, <1>4, <1>5, <1>6
    <3>3. output_scanline' = Height
      BY <1>3, <3>1, <3>2
    <3>4. PostponedPlace'
      BY <1>1, <1>2, <1>5, <2>1, <2>2, <2>4, <3>3 DEF PostponedPlace
    <3>5. ContextPlace'
      BY <2>1, <3>4 DEF ContextPlace
    <3> QED
      BY <1>1, <2>1, <3>5, LineControl
  <2>5. CASE input_iMCU_row # Total
    <3>1. output_scanline' = Top' + (M' - 1) * max_v'
      BY <1>2, <1>3, <1>5, <2>3, <2>5
    <3>2. PostponedPlace'
      BY <1>1, <1>2, <1>5, <2>1, <2>2, <2>5, <3>1 DEF PostponedPlace
    <3>3. ContextPlace'
      BY <2>1, <3>2 DEF ContextPlace
    <3> QED
      BY <1>1, <2>1, <3>3, LineControl
  <2> QED
    BY <2>4, <2>5
<1> QED
  BY <1>8, <1>9

LEMMA ControlStep ==
  ASSUME ControlInv, [Next]_vars
  PROVE  ControlInv'
<1>1. CASE UNCHANGED vars
  <2>1. UNCHANGED <<frame, Height, call, context_state, buffer_full, next_row_out,
                    output_scanline, rows_to_go, input_iMCU_row, iMCU_row_ctr, out_row_ctr,
                    rowgroup_ctr, rowgroups_avail>>
    BY <1>1 DEF vars, caller, groups, upsample
  <2>2. Taken' = Taken /\ Top' = Top
    BY <2>1, PlaceSame
  <2>3. /\ M' = M /\ Context' = Context /\ max_v' = max_v /\ PerIMCU' = PerIMCU
        /\ Total' = Total /\ bottom_groups' = bottom_groups
    BY <2>1, FrameSame
  <2>4. SimplePlace => SimplePlace'
    BY <2>1, <2>2, <2>3 DEF SimplePlace
  <2>5. ContextPlace => ContextPlace'
    <3>1. PreparePlace => PreparePlace'
      BY <2>1, <2>2, <2>3 DEF PreparePlace
    <3>2. ProcessPlace => ProcessPlace'
      BY <2>1, <2>2, <2>3 DEF ProcessPlace
    <3>3. PostponedPlace => PostponedPlace'
      BY <2>1, <2>2, <2>3 DEF PostponedPlace
    <3> QED
      BY <2>1, <3>1, <3>2, <3>3 DEF ContextPlace
  <2> QED
    BY <2>1, <2>3, <2>4, <2>5 DEF ControlInv
<1> QED
  BY <1>1, CallControl, FillControl, SimpleControl, PostponedControl, PrepareControl,
     ProcessControl DEF Next

LEMMA ControlHolds == Spec => []ControlInv
BY ControlInit, ControlStep, PTL DEF Spec

(* The coefficient controller is asked for no more rows of MCUs than the   *)
(* picture has, whatever its height: a line that is still to come lies in  *)
(* one that was not read, or was read already.                             *)
THEOREM OnlyThePictureIsRead == Spec => []ReadsThePictureOnly
<1>1. ControlInv => ReadsThePictureOnly
  <2> SUFFICES ASSUME ControlInv PROVE ReadsThePictureOnly
    OBVIOUS
  <2>1. input_iMCU_row \in 0..Total /\ Total \in Nat
    BY ControlFacts DEF ControlInv
  <2> QED
    BY <2>1 DEF ReadsThePictureOnly, Total
<1> QED
  BY <1>1, ControlHolds, PTL

(* Each call for one line delivers one, so that readJPEG need not look at  *)
(* what jpeg_read_scanlines returns.                                       *)
THEOREM AlwaysOneLinePerCall == Spec => OneLinePerCall
<1> DEFINE OneLineStep == call' = "idle" /\ call # "idle" => output_scanline' = output_scanline + 1
<1>1. ControlInv /\ [Next]_vars => [OneLineStep]_vars
  <2> SUFFICES ASSUME ControlInv, Next, call' = "idle", call # "idle"
               PROVE  output_scanline' = output_scanline + 1
    OBVIOUS
  <2>1. ASSUME call = "run", PostProcess, Return PROVE output_scanline' = output_scanline + 1
    BY <2>1, OneLine DEF Return
  <2>2. CASE SimpleMain
    BY <2>1, <2>2 DEF SimpleMain
  <2>3. CASE PostponedRow
    BY <2>1, <2>3, PostponedControl DEF PostponedRow
  <2>4. CASE ProcessIMCU
    BY <2>1, <2>4 DEF ProcessIMCU
  <2>5. CASE Call \/ DecompressData \/ PrepareForIMCU
    BY <2>5 DEF Call, DecompressData, PrepareForIMCU
  <2> QED
    BY <2>2, <2>3, <2>4, <2>5 DEF Next
<1>2. [][OneLineStep]_vars => OneLinePerCall
  BY DEF OneLinePerCall
<1> QED
  BY <1>1, <1>2, ControlHolds, PTL DEF Spec

(* After each call exactly the rows of MCUs have been read that            *)
(* JpegRows.RowsNeeded says, which JpegReader takes for granted.           *)
THEOREM AlwaysReadsAsNeeded == Spec => []ReadsAsNeeded
<1>1. ControlInv => ReadsAsNeeded
  <2> SUFFICES ASSUME ControlInv, call = "idle", output_scanline > 0
               PROVE  input_iMCU_row = RowsNeeded(Height, PerIMCU, max_v, Context,
                                                  output_scanline - 1)
    BY DEF ReadsAsNeeded, PerIMCU
  <2> DEFINE y == output_scanline - 1
             early == Early(y, PerIMCU, max_v)
             I == input_iMCU_row
  <2>1. /\ M \in Nat /\ M >= 2 /\ Context \in BOOLEAN /\ max_v \in 1..4
        /\ PerIMCU \in Nat /\ PerIMCU = max_v * M /\ PerIMCU >= 2
        /\ Total \in Nat \ {0} /\ Height \in Nat \ {0} /\ bottom_groups \in 1..M
        /\ (Total - 1) * PerIMCU < Height /\ Height <= Total * PerIMCU
        /\ I \in Nat /\ Top \in Int /\ I * PerIMCU = Top + PerIMCU
        /\ I >= 1 => Top >= 0
    BY ControlFacts
  <2>2. frame \in Frames /\ y \in Nat /\ I <= Total /\ output_scanline <= Height
        /\ next_row_out \in 1..max_v
    BY <2>1 DEF ControlInv
  <2>3. Taken \in 0..(max_v - 1)
    BY <2>1, <2>2 DEF Taken
  <2> DEFINE At(n, g, k) == y = n * PerIMCU + g * max_v + k
             Far(n, g) == \/ I = Total /\ n + 1 = I
                          \/ n + 1 = I /\ (Context => g < M - 1)
                          \/ n + 2 = I /\ Context /\ g = M - 1
  <2>4. ASSUME NEW n \in Nat, NEW g \in 0..(M - 1), NEW k \in 0..(max_v - 1),
               At(n, g, k), Far(n, g)
        PROVE  I = RowsNeeded(Height, PerIMCU, max_v, Context, y)
    <3>1. y \div PerIMCU = n /\ (early <=> g < M - 1)
      BY <2>2, <2>4, Position
    <3>2. RowsNeeded(Height, PerIMCU, max_v, Context, y)
            = Min2(Total, n + (IF Context /\ ~early THEN 2 ELSE 1))
      BY <3>1 DEF RowsNeeded, Total, total_iMCU_rows, PerIMCU
    <3>3. I = Min2(Total, n + (IF Context /\ ~early THEN 2 ELSE 1))
      BY <2>1, <2>2, <2>4, <3>1 DEF Min2
    <3> QED
      BY <3>2, <3>3
  <2> HIDE DEF At, Far
  <2>5. ASSUME buffer_full, NEW g \in 0..(M - 1), output_scanline = Top + g * max_v + Taken,
               output_scanline > Top, Context => g < M - 1 \/ I = Total
        PROVE  I = RowsNeeded(Height, PerIMCU, max_v, Context, y)
    <3>1. PICK n \in Nat : n + 1 = I /\ Top = n * PerIMCU
      BY <2>1, <2>5 DEF ControlInv, Top
    <3>2. CASE Taken > 0
      <4>1. PICK k \in 0..(max_v - 1) : k + 1 = Taken
        BY <2>1, <2>3, <3>2
      <4>2. y = n * PerIMCU + g * max_v + k
        BY <2>1, <2>5, <3>1, <4>1
      <4>3. At(n, g, k) /\ Far(n, g)
        BY <2>5, <3>1, <4>2 DEF At, Far
      <4> QED
        BY <2>4, <4>3
    <3>3. CASE Taken = 0
      <4>1. PICK h \in 0..(M - 1) : h + 1 = g /\ h < M - 1 /\ g * max_v = h * max_v + max_v
        <5>1. g # 0
          BY <2>1, <2>5, <3>3
        <5> QED
          BY <2>1, <5>1
      <4>2. PICK k \in 0..(max_v - 1) : k + 1 = max_v
        BY <2>1
      <4>3. y = n * PerIMCU + h * max_v + k
        BY <2>1, <2>5, <3>1, <3>3, <4>1, <4>2
      <4>4. At(n, h, k) /\ Far(n, h)
        BY <2>5, <3>1, <4>1, <4>3 DEF At, Far
      <4> QED
        BY <2>4, <4>4
    <3> QED
      BY <2>3, <3>2, <3>3
  \* The last line of a row of MCUs was the one before.
  <2> DEFINE After(n) == output_scanline = (n + 1) * PerIMCU
  <2>6. ASSUME NEW n \in Nat, After(n),
               (n + 1 = I /\ ~Context) \/ (n + 2 = I /\ Context)
        PROVE  I = RowsNeeded(Height, PerIMCU, max_v, Context, y)
    <3>1. PICK g \in 0..(M - 1), k \in 0..(max_v - 1) : g + 1 = M /\ k + 1 = max_v
      BY <2>1
    <3>2. y = n * PerIMCU + g * max_v + k
      BY <2>1, <2>6, <3>1
    <3>3. At(n, g, k) /\ Far(n, g)
      BY <2>1, <2>6, <3>1, <3>2 DEF At, Far
    <3> QED
      BY <2>4, <3>3
  <2> HIDE DEF After
  <2>7. CASE ~Context
    <3>1. CASE buffer_full
      BY <2>5, <2>7, <3>1 DEF ControlInv, SimplePlace
    <3>2. CASE ~buffer_full
      <4>1. output_scanline = I * PerIMCU
        BY <2>7, <3>2 DEF ControlInv, SimplePlace
      <4>2. I # 0
        BY <2>1, <4>1
      <4>3. PICK n \in Nat : n + 1 = I
        BY <2>1, <4>2
      <4>4. After(n)
        BY <4>1, <4>3 DEF After
      <4>5. (n + 1 = I /\ ~Context) \/ (n + 2 = I /\ Context)
        BY <2>7, <4>3
      <4> QED
        BY <2>6, <4>4, <4>5
    <3> QED
      BY <3>1, <3>2
  <2>8. CASE Context
    <3>1. CASE context_state = "prepare"
      <4>1. buffer_full /\ output_scanline = Top
        BY <2>8, <3>1 DEF ControlInv, ContextPlace, PreparePlace
      <4>2. I >= 1 /\ Top = (I - 1) * PerIMCU
        BY <4>1 DEF ControlInv, Top
      <4>3. I # 1
        BY <2>1, <4>1, <4>2
      <4>4. PICK n \in Nat : n + 2 = I /\ n + 1 = I - 1
        BY <2>1, <4>2, <4>3
      <4>5. After(n)
        BY <4>1, <4>2, <4>4 DEF After
      <4> QED
        BY <2>6, <2>8, <4>4, <4>5
    <3>2. CASE context_state = "process"
      <4>1. /\ buffer_full /\ output_scanline > Top
            /\ rowgroups_avail = IF I = Total THEN bottom_groups ELSE M - 1
            /\ rowgroup_ctr \in 0..(rowgroups_avail - 1)
            /\ output_scanline = Top + rowgroup_ctr * max_v + Taken
        BY <2>8, <3>2 DEF ControlInv, ContextPlace, ProcessPlace
      <4>2. rowgroup_ctr \in 0..(M - 1) /\ (rowgroup_ctr < M - 1 \/ I = Total)
        BY <2>1, <4>1
      <4> QED
        BY <2>5, <4>1, <4>2
    <3>3. CASE context_state = "postponed"
      <4>1. CASE buffer_full
        <5>1. /\ I >= 2 /\ Taken > 0
              /\ output_scanline = Top - PerIMCU + (M - 1) * max_v + Taken
          BY <2>8, <3>3, <4>1 DEF ControlInv, ContextPlace, PostponedPlace
        <5>2. PICK n \in Nat : n + 2 = I /\ Top - PerIMCU = n * PerIMCU
          BY <2>1, <5>1
        <5>3. PICK g \in 0..(M - 1), k \in 0..(max_v - 1) : g = M - 1 /\ k + 1 = Taken
          BY <2>1, <2>3, <5>1
        <5>4. y = n * PerIMCU + g * max_v + k
          BY <2>1, <2>3, <5>1, <5>2, <5>3
        <5>5. At(n, g, k) /\ Far(n, g)
          BY <2>8, <5>2, <5>3, <5>4 DEF At, Far
        <5> QED
          BY <2>4, <5>5
      <4>2. CASE ~buffer_full /\ I # Total
        <5>1. I >= 1 /\ output_scanline = Top + (M - 1) * max_v /\ Top = (I - 1) * PerIMCU
          BY <2>8, <3>3, <4>2 DEF ControlInv, ContextPlace, PostponedPlace, Top
        <5>2. PICK n \in Nat, g \in 0..(M - 1), k \in 0..(max_v - 1) :
                /\ n + 1 = I /\ g + 2 = M /\ k + 1 = max_v
                /\ Top = n * PerIMCU /\ (M - 1) * max_v = g * max_v + max_v
          BY <2>1, <5>1
        <5>3. y = n * PerIMCU + g * max_v + k /\ g < M - 1
          BY <2>1, <5>1, <5>2
        <5>4. At(n, g, k) /\ Far(n, g)
          BY <5>2, <5>3 DEF At, Far
        <5> QED
          BY <2>4, <5>4
      <4>3. CASE ~buffer_full /\ I = Total
        <5>1. y = Height - 1 /\ Top = (Total - 1) * PerIMCU
          BY <2>8, <3>3, <4>3 DEF ControlInv, ContextPlace, PostponedPlace, Top
        <5>2. y >= Top /\ y < Top + PerIMCU
          BY <2>1, <4>3, <5>1
        <5>3. PICK r \in 0..(PerIMCU - 1) : y = Top + r
          BY <2>1, <2>2, <5>2
        <5> DEFINE g == r \div max_v
                   k == r % max_v
        <5>4. k \in 0..(max_v - 1) /\ g \in Nat /\ r = max_v * g + k
          BY <2>1, DivFacts
        <5> HIDE DEF g, k
        <5>5. g \in 0..(M - 1)
          BY <2>1, <5>3, <5>4
        <5>6. PICK n \in Nat : n + 1 = Total /\ Top = n * PerIMCU
          BY <2>1, <5>1
        <5>7. r = g * max_v + k /\ g * max_v \in Nat /\ n * PerIMCU \in Nat
          BY <2>1, <5>4, <5>6
        <5>8. y = n * PerIMCU + g * max_v + k
          BY <5>3, <5>4, <5>6, <5>7
        <5>9. At(n, g, k) /\ Far(n, g)
          BY <4>3, <5>6, <5>8 DEF At, Far
        <5> QED
          BY <2>4, <5>4, <5>5, <5>9
      <4> QED
        BY <4>1, <4>2, <4>3
    <3> QED
      BY <3>1, <3>2, <3>3 DEF ControlInv
  <2> QED
    BY <2>7, <2>8
<1> QED
  BY <1>1, ControlHolds, PTL

-----------------------------------------------------------------------------
(* What the pointers point to.  With two lists over one workspace a row    *)
(* group is never copied: the last two of a row of MCUs are, in the other  *)
(* list, the two below its own row of MCUs, where decompress_data does not *)
(* write.                                                                  *)

\* Rows of a component in a row of MCUs, and in the workspace.
Rows(c) == v_samp[c] * M
Room(c) == v_samp[c] * (M + 2)

\* List w as it was made.
Slot(w, c, i) == IF w = 0 THEN i ELSE Second(c, i)

\* The rows above and below a list are its own last and first.
Wrapped == input_iMCU_row >= 2 \/ (input_iMCU_row = 1 /\ context_state = "postponed")
AsMade(w, c) == \A i \in 0..(Room(c) - 1) : xbuffer[w][c][i] = Slot(w, c, i)
Around(w, c) == xbuffer[w][c][-1] = Slot(w, c, Room(c) - 1) /\ xbuffer[w][c][Room(c)] = Slot(w, c, 0)

AtTheBottom == Context /\ context_state = "process" /\ input_iMCU_row = Total

PointerInv ==
  /\ whichptr \in 0..1 /\ DOMAIN xbuffer = 0..1
  /\ ~Context => whichptr = 0
  /\ ~AtTheBottom => \A w \in 0..1, c \in Comps : AsMade(w, c)
  /\ (Context /\ ~AtTheBottom /\ Wrapped) => \A w \in 0..1, c \in Comps : Around(w, c)
  /\ (Context /\ ~Wrapped) => whichptr = 0
  /\ (Context /\ ~AtTheBottom /\ ~Wrapped) => \A c \in Comps : xbuffer[0][c][-1] = 0

\* Rows of the picture in the row of MCUs read last.
Real(c) == IF input_iMCU_row < Total THEN Rows(c) ELSE rows_left(c)

Own(c) == \A i \in 0..(Real(c) - 1) :
            Sample(whichptr, c, i) = (input_iMCU_row - 1) * Rows(c) + i
Above(c) == Sample(whichptr, c, -1) = Clamp(c, (input_iMCU_row - 1) * Rows(c) - 1)
Below(c) == Sample(whichptr, c, rows_left(c)) = downsampled_height(c) - 1
\* The last row groups of the row of MCUs n.
Kept(c, n, last) == \A i \in Rows(c)..last : Sample(whichptr, c, i) = n * Rows(c) + (i - 2 * v_samp[c])

ContentInv == \A c \in Comps :
  /\ DOMAIN buffer[c] = 0..(Room(c) - 1)
  /\ buffer_full => Own(c)
  /\ (buffer_full /\ Context) => Above(c)
  /\ (buffer_full /\ AtTheBottom) => Below(c)
  /\ (buffer_full /\ Context /\ context_state = "postponed") => Kept(c, input_iMCU_row - 2, Room(c))
  /\ (~buffer_full /\ Context /\ context_state = "postponed") => Kept(c, input_iMCU_row - 1, Room(c) - 1)

\* What is left in color_buf are the lines to come.
ColorInv == \A c \in Comps, k \in Taken..(max_v - 1) :
  (next_row_out < max_v /\ output_scanline + (k - Taken) < Height) =>
    Emitted(color_buf, c, k) = Expected(c, output_scanline + (k - Taken))

DataInv == output_scanline < Height => (PointerInv /\ ContentInv /\ ColorInv)

OutInv ==
  /\ out \in Seq([Comps -> Int \X Int])
  /\ Len(out) = output_scanline
  /\ \A y \in 0..(output_scanline - 1), c \in Comps : out[y + 1][c] = Expected(c, y)

LEMMA CompFacts ==
  ASSUME frame \in Frames, Height \in Nat \ {0}, NEW c \in Comps
  PROVE  /\ v_samp[c] \in 1..4 /\ M \in Nat /\ M >= 2 /\ max_v \in 1..4
         /\ max_v \in {v_samp[c], 2 * v_samp[c]}
         /\ Rows(c) \in Nat /\ Rows(c) = v_samp[c] * M /\ Rows(c) >= 2 * v_samp[c]
         /\ Room(c) = Rows(c) + 2 * v_samp[c]
         /\ rows_left(c) \in 1..Rows(c) /\ Total \in Nat \ {0}
         /\ downsampled_height(c) = (Total - 1) * Rows(c) + rows_left(c)
         /\ downsampled_height(c) \in Nat \ {0}
         /\ Real(c) \in 1..Rows(c)
<1>1. /\ v_samp[c] \in 1..4 /\ M \in Nat /\ M >= 2 /\ max_v \in 1..4
      /\ max_v \in {v_samp[c], 2 * v_samp[c]} /\ Total \in Nat \ {0}
  BY FrameFacts, TotalFacts
<1>2. /\ Rows(c) \in Nat /\ Rows(c) = v_samp[c] * M /\ Rows(c) >= 2 * v_samp[c]
      /\ Room(c) = Rows(c) + 2 * v_samp[c]
  BY <1>1 DEF Rows, Room
<1>3. rows_left(c) \in 1..Rows(c) /\ downsampled_height(c) = (Total - 1) * Rows(c) + rows_left(c)
  BY RowsLeft DEF Rows
<1>4. downsampled_height(c) \in Nat \ {0}
  BY DownsampledFacts
<1>5. Real(c) \in 1..Rows(c)
  BY <1>1, <1>2, <1>3 DEF Real
<1> QED
  BY <1>1, <1>2, <1>3, <1>4, <1>5

\* A list has each row of the workspace once, and the two lists differ in the
\* order of the last four row groups.
LEMMA SlotFacts ==
  ASSUME frame \in Frames, Height \in Nat \ {0}, NEW c \in Comps, NEW w \in 0..1
  PROVE  /\ \A i \in 0..(Room(c) - 1) : Slot(w, c, i) \in 0..(Room(c) - 1)
         /\ \A i, j \in 0..(Room(c) - 1) : Slot(w, c, i) = Slot(w, c, j) => i = j
         /\ \A i \in Rows(c)..(Room(c) - 1) : Slot(1 - w, c, i) = Slot(w, c, i - 2 * v_samp[c])
<1> DEFINE g == v_samp[c]
           S == Rows(c)
<1>1. g \in 1..4 /\ S \in Nat /\ S >= 2 * g /\ Room(c) = S + 2 * g
  BY CompFacts
<1>2. g * (M - 2) = S - 2 * g /\ g * M = S /\ g * (M + 2) = S + 2 * g
  <2>1. M \in Nat /\ M >= 2 /\ S = g * M
    BY CompFacts
  <2> HIDE DEF g, S
  <2> QED
    BY <1>1, <2>1
<1>3. \A i \in 0..(S + 2 * g - 1) :
        Swapped(c, i) = IF i < S - 2 * g THEN i ELSE IF i < S THEN i + 2 * g ELSE i - 2 * g
  BY <1>1, <1>2 DEF Swapped
<1> HIDE DEF g, S
<1>4. \A i \in 0..(S + 2 * g - 1) :
        Slot(w, c, i) = IF w = 0 \/ i < S - 2 * g THEN i
                        ELSE IF i < S THEN i + 2 * g ELSE i - 2 * g
  BY <1>1, <1>3 DEF Slot, Second
<1>5. \A i \in 0..(S + 2 * g - 1) : Slot(w, c, i) \in 0..(S + 2 * g - 1)
  BY <1>1, <1>4
<1>6. ASSUME NEW i \in 0..(S + 2 * g - 1), NEW j \in 0..(S + 2 * g - 1),
             Slot(w, c, i) = Slot(w, c, j)
      PROVE  i = j
  BY <1>1, <1>4, <1>6
<1>7. ASSUME NEW i \in S..(S + 2 * g - 1) PROVE Slot(1 - w, c, i) = Slot(w, c, i - 2 * g)
  <2>1. i \in 0..(S + 2 * g - 1) /\ i - 2 * g \in 0..(S + 2 * g - 1) /\ ~(i < S)
        /\ i - 2 * g < S /\ ~(i - 2 * g < S - 2 * g) /\ (i - 2 * g) + 2 * g = i
    BY <1>1
  <2>2. CASE w = 0
    <3>1. Slot(1 - w, c, i) = i - 2 * g
      <4>1. 1 - w # 0
        BY <2>2
      <4>2. Slot(1 - w, c, i) = Swapped(c, i)
        BY <4>1 DEF Slot, Second
      <4> QED
        BY <1>1, <1>3, <2>1, <4>2
    <3>2. Slot(w, c, i - 2 * g) = i - 2 * g
      BY <2>2 DEF Slot
    <3> QED
      BY <3>1, <3>2
  <2>3. CASE w = 1
    <3>1. Slot(1 - w, c, i) = i
      BY <2>3 DEF Slot
    <3>2. Slot(w, c, i - 2 * g) = i
      BY <1>4, <2>1, <2>3
    <3> QED
      BY <3>1, <3>2
  <2> QED
    BY <2>2, <2>3
<1> QED
  BY <1>1, <1>5, <1>6, <1>7 DEF g, S

\* The block rows that are decoded have all rows of the picture.
LEMMA BlockRowsFacts ==
  ASSUME frame \in Frames, Height \in Nat \ {0}, NEW c \in Comps, input_iMCU_row \in 0..(Total - 1)
  PROVE  /\ BlockRows(c) * M \in 0..Rows(c)
         /\ input_iMCU_row < Total - 1 => BlockRows(c) * M = Rows(c)
         /\ input_iMCU_row = Total - 1 => rows_left(c) <= BlockRows(c) * M
<1> DEFINE g == v_samp[c]
           S == Rows(c)
           h == downsampled_height(c)
           b == jdiv_round_up(Height * g, max_v * M)
<1>1. /\ g \in 1..4 /\ M \in Nat \ {0} /\ max_v \in 1..4 /\ S \in Nat \ {0} /\ S = g * M
      /\ Total \in Nat \ {0}
      /\ h \in Nat \ {0} /\ h = (Total - 1) * S + rows_left(c) /\ rows_left(c) \in 1..S
  BY CompFacts
<1>2. CASE input_iMCU_row < Total - 1
  <2>1. BlockRows(c) = g
    BY <1>2 DEF BlockRows, Total
  <2> QED
    BY <1>1, <1>2, <2>1
<1>3. CASE input_iMCU_row = Total - 1
  <2>1. BlockRows(c) = Rest(b, g)
    BY <1>1, <1>3 DEF BlockRows, Total
  <2>2. Height * g \in Nat \ {0} /\ max_v * M \in Nat \ {0} /\ h = jdiv_round_up(Height * g, max_v)
    BY <1>1 DEF downsampled_height
  <2>3. /\ b \in Nat \ {0} /\ (b - 1) * (max_v * M) < Height * g /\ Height * g <= b * (max_v * M)
    BY <2>2, RoundUp
  <2> HIDE DEF g, S, h, b
  <2>4. b * M \in Nat /\ (b - 1) * M \in Nat
        /\ (b * M) * max_v = b * (max_v * M) /\ ((b - 1) * M) * max_v = (b - 1) * (max_v * M)
    BY <1>1, <2>3
  <2>5. h <= b * M
    BY <1>1, <2>2, <2>3, <2>4, RoundUp
  <2>6. (b - 1) * M < h
    BY <1>1, <2>2, <2>3, <2>4, RoundUp
  <2>7. (Total - 1) * g < b
    <3>1. ((Total - 1) * g) * M = (Total - 1) * S /\ (Total - 1) * g \in Nat /\ (Total - 1) * S \in Nat
      BY <1>1
    <3>2. ((Total - 1) * g) * M < b * M
      BY <1>1, <2>4, <2>5, <3>1
    <3> QED
      BY <1>1, <2>3, <3>1, <3>2
  <2>8. b <= Total * g
    <3>1. (Total * g) * M = Total * S /\ Total * g \in Nat /\ Total * S = (Total - 1) * S + S
          /\ (Total - 1) * S \in Nat
      BY <1>1
    <3>2. (b - 1) * M < (Total * g) * M
      BY <1>1, <2>4, <2>6, <3>1
    <3> QED
      BY <1>1, <2>3, <3>1, <3>2
  <2>9. jdiv_round_up(b, g) = Total
    BY <1>1, <2>3, <2>7, <2>8, RoundUpUnique
  <2>10. Rest(b, g) \in 1..g /\ b = (Total - 1) * g + Rest(b, g)
    BY <1>1, <2>3, <2>9, RestFacts
  <2> DEFINE r == Rest(b, g)
  <2> HIDE DEF r
  <2>11. r \in 1..g /\ b = (Total - 1) * g + r
    BY <2>10 DEF r
  <2>12. /\ b * M = (Total - 1) * S + r * M /\ r * M \in Nat /\ r * M <= S
         /\ (Total - 1) * S \in Nat
    BY <1>1, <2>11
  <2>13. rows_left(c) <= r * M
    BY <1>1, <2>5, <2>12
  <2> QED
    BY <1>1, <1>3, <2>1, <2>12, <2>13 DEF r, S
<1> QED
  BY <1>1, <1>2, <1>3

LEMMA DataInit == Init => DataInv /\ OutInv
<1> SUFFICES ASSUME Init PROVE DataInv /\ OutInv
  OBVIOUS
<1>1. frame \in Frames /\ Height \in Nat \ {0}
  BY FramesAssumption DEF Init
<1>2. /\ whichptr = 0 /\ xbuffer = make_funny_pointers /\ input_iMCU_row = 0 /\ buffer_full = FALSE
      /\ context_state = "prepare" /\ next_row_out = max_v /\ out = <<>> /\ output_scanline = 0
      /\ buffer = [c \in Comps |-> [i \in 0..(v_samp[c] * (M + 2) - 1) |-> NONE]]
  BY DEF Init
<1>3. ~Wrapped /\ ~AtTheBottom /\ max_v \in 1..4
  BY <1>1, <1>2, FrameFacts DEF Wrapped, AtTheBottom
<1>4. ASSUME NEW c \in Comps
      PROVE  /\ xbuffer[0][c][-1] = 0 /\ AsMade(0, c) /\ AsMade(1, c)
             /\ DOMAIN buffer[c] = 0..(Room(c) - 1)
  <2> DEFINE g == v_samp[c]
             L == Room(c)
  <2>1. g \in 1..4 /\ L \in Nat /\ L = g * (M + 2) /\ g * (M + 3) = L + g
    <3>1. g \in 1..4 /\ M \in Nat /\ L = g * (M + 2)
      BY <1>1, CompFacts DEF Room
    <3> QED
      BY <3>1
  <2>2. Range4(c) = (-g)..(L + g - 1)
    BY <2>1 DEF Range4
  <2>3. \A i \in (-g)..(L + g - 1) :
          /\ xbuffer[0][c][i] = IF i < 0 THEN 0 ELSE IF i >= L THEN NONE ELSE i
          /\ xbuffer[1][c][i] = IF i < 0 THEN NONE ELSE IF i >= L THEN NONE ELSE Second(c, i)
    BY <1>2, <2>1, <2>2 DEF make_funny_pointers
  <2> HIDE DEF g, L
  <2>4. xbuffer[0][c][-1] = 0
    BY <2>1, <2>3
  <2>5. \A i \in 0..(L - 1) : xbuffer[0][c][i] = i /\ xbuffer[1][c][i] = Second(c, i)
    BY <2>1, <2>3
  <2>6. AsMade(0, c) /\ AsMade(1, c)
    BY <2>5 DEF AsMade, Slot, L
  <2>7. DOMAIN buffer[c] = 0..(Room(c) - 1)
    BY <1>2 DEF Room
  <2> QED
    BY <2>4, <2>6, <2>7
<1>5. PointerInv
  <2>1. DOMAIN xbuffer = 0..1
    BY <1>2 DEF make_funny_pointers
  <2> QED
    BY <1>2, <1>3, <1>4, <2>1 DEF PointerInv
<1>6. ContentInv
  BY <1>2, <1>4 DEF ContentInv
<1>7. ColorInv
  BY <1>2, <1>3 DEF ColorInv
<1>8. OutInv
  BY <1>2 DEF OutInv
<1> QED
  BY <1>5, <1>6, <1>7, <1>8 DEF DataInv

-----------------------------------------------------------------------------
(* What changes of the data in each step.                                  *)

LEMMA NamesSame ==
  ASSUME frame' = frame, Height' = Height
  PROVE  /\ \A c : Rows(c)' = Rows(c) /\ Room(c)' = Room(c)
         /\ \A w, c, i : Slot(w, c, i)' = Slot(w, c, i)
         /\ \A c, r : Clamp(c, r)' = Clamp(c, r)
         /\ \A c, y : Expected(c, y)' = Expected(c, y)
<1>1. /\ M' = M /\ v_samp' = v_samp /\ Context' = Context /\ max_v' = max_v
      /\ \A c : downsampled_height(c)' = downsampled_height(c)
  BY FrameSame
<1>2. \A c : Rows(c)' = Rows(c) /\ Room(c)' = Room(c)
  BY <1>1 DEF Rows, Room
<1>3. \A w, c, i : Slot(w, c, i)' = Slot(w, c, i)
  BY <1>1 DEF Slot, Second, Swapped
<1>4. \A c, r : Clamp(c, r)' = Clamp(c, r)
  BY <1>1 DEF Clamp
<1>5. \A c, y : Expected(c, y)' = Expected(c, y)
  BY <1>1, <1>4 DEF Expected
<1> QED
  BY <1>2, <1>3, <1>4, <1>5

LEMMA PointersStay ==
  ASSUME PointerInv, UNCHANGED <<frame, Height, xbuffer, whichptr>>,
         AtTheBottom' <=> AtTheBottom, Wrapped' <=> Wrapped
  PROVE  PointerInv'
<1>1. /\ Comps' = Comps /\ Context' = Context
      /\ \A c : Room(c)' = Room(c)
      /\ \A w, c, i : Slot(w, c, i)' = Slot(w, c, i)
  BY FrameSame, NamesSame
<1>2. \A w, c : (AsMade(w, c)' <=> AsMade(w, c)) /\ (Around(w, c)' <=> Around(w, c))
  BY <1>1 DEF AsMade, Around
<1> QED
  BY <1>1, <1>2 DEF PointerInv

LEMMA SamplesStay ==
  ASSUME UNCHANGED <<frame, Height, buffer, xbuffer, whichptr, input_iMCU_row>>
  PROVE  /\ \A w, c, i : Sample(w, c, i)' = Sample(w, c, i)
         /\ \A c : /\ Own(c)' <=> Own(c)
                   /\ Above(c)' <=> Above(c)
                   /\ Below(c)' <=> Below(c)
         /\ \A c, n, last : Kept(c, n, last)' <=> Kept(c, n, last)
         /\ \A c, buf, k : Emitted(buf, c, k)' = Emitted(buf, c, k)
<1>1. /\ Total' = Total /\ v_samp' = v_samp /\ max_v' = max_v
      /\ \A c : Rows(c)' = Rows(c) /\ rows_left(c)' = rows_left(c)
                /\ downsampled_height(c)' = downsampled_height(c)
      /\ \A c, r : Clamp(c, r)' = Clamp(c, r)
  BY FrameSame, NamesSame
<1>2. \A w, c, i : Sample(w, c, i)' = Sample(w, c, i)
  BY DEF Sample
<1>3. \A c : Real(c)' = Real(c)
  BY <1>1 DEF Real
<1>4. \A c : Own(c)' <=> Own(c)
  BY <1>1, <1>2, <1>3 DEF Own
<1>5. \A c : (Above(c)' <=> Above(c)) /\ (Below(c)' <=> Below(c))
  BY <1>1, <1>2 DEF Above, Below
<1>6. \A c, n, last : Kept(c, n, last)' <=> Kept(c, n, last)
  BY <1>1, <1>2 DEF Kept
<1>7. \A c, buf, k : Emitted(buf, c, k)' = Emitted(buf, c, k)
  BY <1>1, <1>2 DEF Emitted
<1> QED
  BY <1>2, <1>4, <1>5, <1>6, <1>7

\* Nothing but a call begins, or nothing at all happens.
LEMMA DataSame ==
  ASSUME DataInv,
         UNCHANGED <<frame, Height, buffer, xbuffer, whichptr, input_iMCU_row, context_state,
                     buffer_full, output_scanline, next_row_out, color_buf>>
  PROVE  DataInv'
<1>1. /\ Context' = Context /\ Total' = Total /\ Comps' = Comps /\ max_v' = max_v
      /\ Taken' = Taken
      /\ \A c : Rows(c)' = Rows(c) /\ Room(c)' = Room(c)
      /\ \A c, y : Expected(c, y)' = Expected(c, y)
  BY FrameSame, NamesSame, PlaceSame
<1>2. (AtTheBottom' <=> AtTheBottom) /\ (Wrapped' <=> Wrapped)
  BY <1>1 DEF AtTheBottom, Wrapped
<1>3. PointerInv => PointerInv'
  BY <1>2, PointersStay
<1>4. ContentInv => ContentInv'
  BY <1>1, <1>2, SamplesStay DEF ContentInv
<1>5. ColorInv => ColorInv'
  BY <1>1, SamplesStay DEF ColorInv
<1> QED
  BY <1>3, <1>4, <1>5 DEF DataInv

\* Decoding into the rows of a list writes those rows and no others.
LEMMA FillWrites ==
  ASSUME ControlInv, DecompressData, PointerInv, ContentInv, ~AtTheBottom, NEW c \in Comps
  PROVE  /\ DOMAIN buffer'[c] = DOMAIN buffer[c]
         /\ \A i \in 0..(BlockRows(c) * M - 1) :
              buffer'[c][Slot(whichptr, c, i)] = input_iMCU_row * Rows(c) + i
         /\ \A i \in Rows(c)..(Room(c) - 1) :
              buffer'[c][Slot(whichptr, c, i)] = buffer[c][Slot(whichptr, c, i)]
<1> DEFINE N == BlockRows(c) * M
           S == Rows(c)
           L == Room(c)
           slot(i) == Slot(whichptr, c, i)
<1>1. /\ frame \in Frames /\ Height \in Nat \ {0} /\ input_iMCU_row \in 0..(Total - 1)
      /\ input_iMCU_row \in Nat /\ v_samp[c] \in Nat /\ M \in Nat
  <2>1. frame \in Frames /\ Height \in Nat \ {0} /\ input_iMCU_row \in 0..Total /\ input_iMCU_row < Total
    BY FillControl DEF ControlInv
  <2> QED
    BY <2>1, CompFacts
<1>2. /\ N \in 0..S /\ S \in Nat /\ L \in Nat /\ S <= L /\ whichptr \in 0..1
      /\ input_iMCU_row * v_samp[c] * M = input_iMCU_row * S
  <2>1. S = v_samp[c] * M /\ S \in Nat
    BY <1>1, CompFacts
  <2>2. L \in Nat /\ S <= L
    BY <1>1, CompFacts
  <2> HIDE DEF S, L
  <2>3. input_iMCU_row * v_samp[c] * M = input_iMCU_row * S
    BY <1>1, <2>1
  <2> QED
    BY <1>1, <2>1, <2>2, <2>3, BlockRowsFacts DEF PointerInv, S
<1>3. /\ \A i \in 0..(L - 1) : xbuffer[whichptr][c][i] = slot(i) /\ slot(i) \in 0..(L - 1)
      /\ \A i, j \in 0..(L - 1) : slot(i) = slot(j) => i = j
  BY <1>1, <1>2, SlotFacts DEF PointerInv, AsMade
<1>4. DOMAIN buffer[c] = 0..(L - 1)
  BY DEF ContentInv
<1> DEFINE here(p) == { i \in 0..(N - 1) : xbuffer[whichptr][c][i] = p }
<1>5. buffer'[c] = [p \in DOMAIN buffer[c] |->
                      IF here(p) = {} THEN buffer[c][p]
                      ELSE input_iMCU_row * v_samp[c] * M + (CHOOSE i \in here(p) : TRUE)]
  BY DEF DecompressData
<1> HIDE DEF N, S, L, slot
<1>6. ASSUME NEW i \in 0..(N - 1)
      PROVE  buffer'[c][slot(i)] = input_iMCU_row * S + i
  <2>1. i \in 0..(L - 1)
    BY <1>2, <1>6
  <2>2. \A j \in 0..(N - 1) : j \in 0..(L - 1)
    BY <1>2
  <2>3. here(slot(i)) = {i}
    BY <1>3, <1>6, <2>1, <2>2
  <2>4. slot(i) \in DOMAIN buffer[c] /\ here(slot(i)) # {} /\ (CHOOSE j \in here(slot(i)) : TRUE) = i
    BY <1>3, <1>4, <2>1, <2>3
  <2> HIDE DEF here
  <2> QED
    BY <1>2, <1>5, <2>4
<1>7. ASSUME NEW i \in S..(L - 1)
      PROVE  buffer'[c][slot(i)] = buffer[c][slot(i)]
  <2>1. i \in 0..(L - 1) /\ \A j \in 0..(N - 1) : j \in 0..(L - 1) /\ j # i
    BY <1>2, <1>7
  <2>2. here(slot(i)) = {}
    BY <1>3, <2>1
  <2>3. slot(i) \in DOMAIN buffer[c]
    BY <1>3, <1>4, <2>1
  <2> HIDE DEF here
  <2> QED
    BY <1>5, <2>2, <2>3
<1>8. DOMAIN buffer'[c] = DOMAIN buffer[c]
  BY <1>5
<1> QED
  BY <1>6, <1>7, <1>8 DEF N, S, L, slot

LEMMA FillData ==
  ASSUME ControlInv, DataInv, DecompressData
  PROVE  DataInv'
<1>1. /\ call = "fill" /\ buffer_full' = TRUE /\ input_iMCU_row' = input_iMCU_row + 1
      /\ UNCHANGED <<frame, Height, output_scanline, xbuffer, whichptr, context_state,
                     next_row_out, color_buf>>
  BY DEF DecompressData, caller, lists, upsample
<1>2. /\ ~buffer_full /\ output_scanline < Height /\ frame \in Frames /\ Height \in Nat \ {0}
      /\ input_iMCU_row \in 0..(Total - 1) /\ input_iMCU_row \in Nat /\ Total \in Nat
      /\ Context \in BOOLEAN
  <2>1. /\ ~buffer_full /\ output_scanline < Height /\ frame \in Frames /\ Height \in Nat \ {0}
        /\ input_iMCU_row \in 0..Total /\ input_iMCU_row < Total
    BY <1>1, FillControl DEF ControlInv
  <2> QED
    BY <2>1, ControlFacts
<1>3. PointerInv /\ ContentInv /\ ColorInv
  BY <1>2 DEF DataInv
<1>4. /\ Context' = Context /\ Total' = Total /\ Comps' = Comps /\ max_v' = max_v
      /\ v_samp' = v_samp
      /\ \A c : Rows(c)' = Rows(c) /\ Room(c)' = Room(c) /\ rows_left(c)' = rows_left(c)
      /\ \A c, r : Clamp(c, r)' = Clamp(c, r)
  BY <1>1, FrameSame, NamesSame
<1>5. /\ Context => context_state # "process"
      /\ (Context /\ context_state # "postponed") => input_iMCU_row = 0
      /\ (Context /\ context_state = "postponed") => input_iMCU_row >= 1
      /\ next_row_out = max_v
  BY <1>2 DEF ControlInv, ContextPlace, PreparePlace, ProcessPlace, PostponedPlace, SimplePlace
<1>6. ~AtTheBottom /\ ~AtTheBottom'
  BY <1>1, <1>4, <1>5 DEF AtTheBottom
<1>7. Context => (Wrapped' <=> Wrapped)
  BY <1>1, <1>2, <1>5 DEF Wrapped
<1>8. PointerInv'
  <2>1. \A w, c : (AsMade(w, c)' <=> AsMade(w, c)) /\ (Around(w, c)' <=> Around(w, c))
    <3>1. \A w, c, i : Slot(w, c, i)' = Slot(w, c, i)
      BY <1>1, NamesSame
    <3> QED
      BY <1>1, <1>4, <3>1 DEF AsMade, Around
  <2> QED
    BY <1>1, <1>3, <1>4, <1>6, <1>7, <2>1 DEF PointerInv
<1>9. ASSUME NEW c \in Comps
      PROVE  /\ DOMAIN buffer'[c] = 0..(Room(c) - 1)
             /\ Own(c)'
             /\ Context => Above(c)'
             /\ (Context /\ context_state = "postponed") => Kept(c, input_iMCU_row - 2, Room(c))'
  <2>0. PICK g, S, L, I, W, R, B :
          /\ g = v_samp[c] /\ S = Rows(c) /\ L = Room(c) /\ I = input_iMCU_row /\ W = whichptr
          /\ R = Real(c)' /\ B = BlockRows(c) * M
    OBVIOUS
  <2>1. /\ g \in 1..4 /\ S \in Nat /\ S >= 2 * g /\ L = S + 2 * g
        /\ rows_left(c) \in 1..S
        /\ downsampled_height(c) = (Total - 1) * S + rows_left(c)
        /\ I \in Nat /\ I * S \in Nat
    <3>1. S \in Nat /\ I \in Nat
      BY <1>2, <2>0, CompFacts
    <3> QED
      BY <1>2, <2>0, <3>1, CompFacts
  <2>2. /\ DOMAIN buffer'[c] = DOMAIN buffer[c]
        /\ \A i \in 0..(B - 1) : buffer'[c][Slot(W, c, i)] = I * S + i
        /\ \A i \in S..(L - 1) : buffer'[c][Slot(W, c, i)] = buffer[c][Slot(W, c, i)]
    BY <1>3, <1>6, <2>0, FillWrites
  <2>3. DOMAIN buffer[c] = 0..(L - 1)
    BY <1>3, <2>0 DEF ContentInv
  <2>4. /\ W \in 0..1
        /\ \A i \in 0..(L - 1) : xbuffer[W][c][i] = Slot(W, c, i)
    BY <1>3, <1>6, <2>0 DEF PointerInv, AsMade
  <2>5. \A w, i : Sample(w, c, i)' = buffer'[c][xbuffer[w][c][i]]
    BY <1>1 DEF Sample
  <2>6. B \in 0..S /\ R \in 1..S /\ R <= B
    <3>1. R = IF I + 1 < Total THEN S ELSE rows_left(c)
      BY <1>1, <1>4, <2>0 DEF Real
    <3>2. /\ B \in 0..S
          /\ I < Total - 1 => B = S
          /\ I = Total - 1 => rows_left(c) <= B
      BY <1>2, <2>0, BlockRowsFacts
    <3>3. I \in 0..(Total - 1)
      BY <1>2, <2>0
    <3> QED
      BY <1>2, <2>1, <3>1, <3>2, <3>3
  <2>8. \A i \in 0..(R - 1) : Sample(W, c, i)' = I * S + i
    <3>1. \A i \in 0..(R - 1) : i \in 0..(B - 1) /\ i \in 0..(L - 1)
      BY <2>1, <2>6
    <3> QED
      BY <2>2, <2>4, <2>5, <3>1
  <2>9. Own(c)'
    <3>1. (input_iMCU_row' - 1) * Rows(c)' = I * S
      BY <1>1, <1>2, <1>4, <2>0, <2>1
    <3> QED
      BY <1>1, <2>0, <2>8, <3>1 DEF Own
  <2>10. Sample(W, c, 0)' = I * S /\ buffer'[c][Slot(W, c, 0)] = I * S
    <3>1. 0 \in 0..(R - 1) /\ 0 \in 0..(B - 1)
      BY <2>1, <2>6
    <3> QED
      BY <2>1, <2>2, <2>8, <3>1
  <2>11. CASE Context /\ context_state = "postponed"
    <3>1. \A i \in S..(L - 1) : Sample(W, c, i) = (I - 1) * S + (i - 2 * g)
      BY <1>2, <1>3, <2>0, <2>11 DEF ContentInv, Kept
    <3>2. \A i \in S..(L - 1) : Sample(W, c, i)' = (I - 1) * S + (i - 2 * g)
      <4>1. \A i \in S..(L - 1) : i \in 0..(L - 1)
        BY <2>1
      <4> QED
        BY <2>2, <2>4, <2>5, <3>1, <4>1 DEF Sample
    <3>3. /\ xbuffer[W][c][-1] = Slot(W, c, L - 1) /\ xbuffer[W][c][L] = Slot(W, c, 0)
      <4>1. Wrapped
        BY <1>2, <1>5, <2>11 DEF Wrapped
      <4> QED
        BY <1>3, <1>6, <2>0, <2>4, <2>11, <4>1 DEF PointerInv, Around
    <3>4. (I - 1) * S + S = I * S /\ (I - 1) * S \in Int
      BY <2>1
    <3>5. Sample(W, c, L)' = (I - 1) * S + (L - 2 * g)
      <4>1. Sample(W, c, L)' = I * S
        BY <2>5, <2>10, <3>3
      <4>2. L - 2 * g = S
        BY <2>1
      <4> QED
        BY <3>4, <4>1, <4>2
    <3>6. Sample(W, c, -1)' = I * S - 1
      <4>1. L - 1 \in S..(L - 1) /\ L - 1 \in 0..(L - 1)
        BY <2>1
      <4>2. Sample(W, c, -1)' = Sample(W, c, L - 1)'
        BY <2>4, <2>5, <3>3, <4>1
      <4>3. Sample(W, c, L - 1)' = (I - 1) * S + ((L - 1) - 2 * g)
        BY <3>2, <4>1
      <4> QED
        BY <2>1, <3>4, <4>2, <4>3
    <3>7. Kept(c, input_iMCU_row - 2, Room(c))'
      <4>1. \A i \in S..L : Sample(W, c, i)' = (I - 1) * S + (i - 2 * g)
        <5>1. \A i \in S..L : i \in S..(L - 1) \/ i = L
          BY <2>1
        <5> QED
          BY <3>2, <3>5, <5>1
      <4>2. input_iMCU_row' - 2 = I - 1
        BY <1>1, <2>0, <2>1
      <4> QED
        BY <1>1, <1>4, <2>0, <4>1, <4>2 DEF Kept
    <3>8. Above(c)'
      <4>1. Clamp(c, I * S - 1) = I * S - 1
        <5>1. I * S - 1 >= 0 /\ I * S <= (Total - 1) * S /\ (Total - 1) * S \in Int
          <6>1. I >= 1 /\ I <= Total - 1 /\ I \in Nat /\ Total \in Nat
            BY <1>2, <1>5, <2>0, <2>11
          <6> QED
            BY <2>1, <6>1
        <5> QED
          BY <2>1, <5>1 DEF Clamp
      <4>2. (input_iMCU_row' - 1) * Rows(c)' - 1 = I * S - 1
        BY <1>1, <1>2, <1>4, <2>0, <2>1
      <4> QED
        BY <1>1, <1>4, <2>0, <3>6, <4>1, <4>2 DEF Above
    <3> QED
      BY <2>0, <2>2, <2>3, <2>9, <3>7, <3>8
  <2>12. CASE Context /\ context_state # "postponed"
    <3>1. I = 0 /\ ~Wrapped
      BY <1>5, <2>0, <2>12 DEF Wrapped
    <3>2. W = 0 /\ xbuffer[0][c][-1] = 0 /\ Slot(W, c, 0) = 0
      BY <1>3, <1>6, <2>0, <2>12, <3>1 DEF PointerInv, Slot
    <3>3. Sample(W, c, -1)' = 0
      BY <2>1, <2>5, <2>10, <3>1, <3>2
    <3>4. Above(c)'
      <4>1. (input_iMCU_row' - 1) * Rows(c)' - 1 = -1
        BY <1>1, <1>2, <1>4, <2>0, <2>1, <3>1
      <4>2. Clamp(c, -1) = 0
        BY DEF Clamp
      <4> QED
        BY <1>1, <1>4, <2>0, <3>3, <4>1, <4>2 DEF Above
    <3> QED
      BY <2>0, <2>2, <2>3, <2>9, <2>12, <3>4
  <2>13. CASE ~Context
    BY <2>0, <2>2, <2>3, <2>9, <2>13
  <2> QED
    BY <1>2, <2>11, <2>12, <2>13
<1>10. ContentInv'
  BY <1>1, <1>4, <1>6, <1>9 DEF ContentInv
<1>11. ColorInv'
  <2>1. ~(next_row_out' < max_v')
    BY <1>1, <1>2, <1>4, <1>5, FrameFacts
  <2> QED
    BY <2>1 DEF ColorInv
<1> QED
  BY <1>8, <1>10, <1>11 DEF DataInv

\* The last row of MCUs ends in copies of its last row.
LEMMA PrepareData ==
  ASSUME ControlInv, DataInv, PrepareForIMCU
  PROVE  DataInv'
<1>1. /\ call = "run" /\ Context /\ context_state = "prepare" /\ context_state' = "process"
      /\ xbuffer' = IF AtBottom THEN set_bottom_pointers(xbuffer) ELSE xbuffer
      /\ UNCHANGED <<frame, Height, output_scanline, input_iMCU_row, buffer, whichptr, buffer_full,
                     next_row_out, color_buf>>
  BY DEF PrepareForIMCU, caller, upsample
<1>2. /\ buffer_full /\ output_scanline < Height /\ frame \in Frames /\ Height \in Nat \ {0}
      /\ next_row_out = max_v
  BY <1>1 DEF ControlInv, ContextPlace, PreparePlace
<1>3. PointerInv /\ ContentInv
  BY <1>2 DEF DataInv
<1>4. /\ Context' = Context /\ Total' = Total /\ Comps' = Comps /\ max_v' = max_v
      /\ \A c : Rows(c)' = Rows(c) /\ Room(c)' = Room(c) /\ rows_left(c)' = rows_left(c)
                /\ downsampled_height(c)' = downsampled_height(c)
      /\ \A c, r : Clamp(c, r)' = Clamp(c, r)
  BY <1>1, FrameSame, NamesSame
<1>5. /\ ~AtTheBottom /\ (AtTheBottom' <=> AtBottom) /\ (Wrapped' <=> Wrapped)
      /\ (AtBottom <=> input_iMCU_row = Total)
  <2>1. AtBottom <=> input_iMCU_row = Total
    BY DEF AtBottom, ControlInv, Total
  <2> QED
    BY <1>1, <1>4, <2>1 DEF AtTheBottom, Wrapped
<1>6. ColorInv'
  <2>1. ~(next_row_out' < max_v')
    BY <1>1, <1>2, <1>4, FrameFacts
  <2> QED
    BY <2>1 DEF ColorInv
<1>7. \A c \in Comps : /\ DOMAIN buffer[c] = 0..(Room(c) - 1)
                       /\ Own(c) /\ Above(c)
  BY <1>1, <1>2, <1>3 DEF ContentInv
<1>8. CASE ~AtBottom
  <2>1. xbuffer' = xbuffer /\ ~AtTheBottom'
    BY <1>1, <1>5, <1>8
  <2>2. PointerInv'
    BY <1>1, <1>3, <1>5, <2>1, PointersStay
  <2>3. \A c \in Comps : Own(c)' /\ Above(c)'
    BY <1>1, <1>7, <2>1, SamplesStay
  <2>4. ContentInv'
    BY <1>1, <1>4, <1>7, <2>1, <2>3 DEF ContentInv
  <2> QED
    BY <1>6, <2>2, <2>4 DEF DataInv
<1>9. CASE AtBottom
  <2>1. xbuffer' = set_bottom_pointers(xbuffer) /\ AtTheBottom' /\ input_iMCU_row = Total
    BY <1>1, <1>5, <1>9
  <2>2. DOMAIN xbuffer = 0..1 /\ whichptr \in 0..1 /\ (~Wrapped => whichptr = 0)
    BY <1>1, <1>3 DEF PointerInv
  <2>3. PointerInv'
    <3>1. DOMAIN xbuffer' = 0..1
      BY <2>1, <2>2 DEF set_bottom_pointers
    <3> QED
      BY <1>1, <1>4, <1>5, <2>1, <2>2, <3>1 DEF PointerInv
  <2>4. ASSUME NEW c \in Comps
        PROVE  Own(c)' /\ Above(c)' /\ Below(c)'
    <3>0. PICK g, S, I, W, l, h :
            /\ g = v_samp[c] /\ S = Rows(c) /\ I = input_iMCU_row /\ W = whichptr
            /\ l = rows_left(c) /\ h = downsampled_height(c)
      OBVIOUS
    <3>1. /\ g \in 1..4 /\ S \in Nat /\ S = g * M /\ M \in Nat /\ S >= 2 * g /\ l \in 1..S
          /\ h = (I - 1) * S + l /\ I \in Nat \ {0} /\ h \in Nat
      BY <1>2, <2>1, <3>0, CompFacts
    <3>2. Real(c) = l /\ Real(c)' = l
      BY <1>1, <1>4, <2>1, <3>0, <3>1 DEF Real
    <3>3. \A i \in (-1)..(S + g - 1) :
            xbuffer'[W][c][i] = IF i \in l..(l + 2 * g - 1) THEN xbuffer[W][c][l - 1]
                                ELSE xbuffer[W][c][i]
      <4>1. Range4(c) = (-g)..(g * (M + 3) - 1)
        BY <3>0 DEF Range4
      <4>2. g * (M + 3) = S + 3 * g
        BY <3>1
      <4>3. \A i \in (-1)..(S + g - 1) : i \in Range4(c)
        BY <3>1, <4>1, <4>2
      <4>4. xbuffer'[W] = [d \in Comps |-> [i \in Range4(d) |->
                             IF i \in rows_left(d)..(rows_left(d) + 2 * v_samp[d] - 1)
                             THEN xbuffer[W][d][rows_left(d) - 1] ELSE xbuffer[W][d][i]]]
        BY <2>1, <2>2, <3>0 DEF set_bottom_pointers
      <4> QED
        BY <3>0, <4>3, <4>4
    <3>4. \A w, i : Sample(w, c, i)' = buffer[c][xbuffer'[w][c][i]]
      BY <1>1 DEF Sample
    <3>5. \A i \in 0..(l - 1) : Sample(W, c, i) = (I - 1) * S + i
      BY <1>7, <3>0, <3>2 DEF Own
    <3>6. \A i \in (-1)..(l - 1) : Sample(W, c, i)' = Sample(W, c, i)
      <4>1. \A i \in (-1)..(l - 1) : i \in (-1)..(S + g - 1) /\ ~(i \in l..(l + 2 * g - 1))
        BY <3>1
      <4> QED
        BY <3>3, <3>4, <4>1 DEF Sample
    <3>7. Own(c)'
      <4>1. \A i \in 0..(l - 1) : Sample(W, c, i)' = (I - 1) * S + i
        <5>1. \A i \in 0..(l - 1) : i \in (-1)..(l - 1)
          BY <3>1
        <5> QED
          BY <3>5, <3>6, <5>1
      <4> QED
        BY <1>1, <1>4, <3>0, <3>2, <4>1 DEF Own
    <3>8. Above(c)'
      <4>1. -1 \in (-1)..(l - 1)
        BY <3>1
      <4>2. Sample(W, c, -1)' = Clamp(c, (I - 1) * S - 1)
        BY <1>7, <3>0, <3>6, <4>1 DEF Above
      <4> QED
        BY <1>1, <1>4, <3>0, <4>2 DEF Above
    <3>9. Below(c)'
      <4>1. l \in (-1)..(S + g - 1) /\ l \in l..(l + 2 * g - 1) /\ l - 1 \in 0..(l - 1)
        BY <3>1
      <4>2. Sample(W, c, l)' = Sample(W, c, l - 1)
        BY <3>3, <3>4, <4>1 DEF Sample
      <4>3. Sample(W, c, l - 1) = h - 1
        <5>1. Sample(W, c, l - 1) = (I - 1) * S + (l - 1)
          BY <3>5, <4>1
        <5>2. (I - 1) * S \in Int
          BY <3>1
        <5> QED
          BY <3>1, <5>1, <5>2
      <4> QED
        BY <1>1, <1>4, <3>0, <4>2, <4>3 DEF Below
    <3> QED
      BY <3>7, <3>8, <3>9
  <2>5. ContentInv'
    BY <1>1, <1>2, <1>4, <1>7, <2>4 DEF ContentInv
  <2> QED
    BY <1>6, <2>3, <2>5 DEF DataInv
<1> QED
  BY <1>8, <1>9

\* A row group that starts with the line to come: row i of the list in use is
\* row D + i of the component.
LEMMA GroupIsRight ==
  ASSUME frame \in Frames, Height \in Nat \ {0}, output_scanline \in Nat, NEW c \in Comps,
         NEW a \in Nat, a = rowgroup_ctr * v_samp[c], rowgroup_ctr \in Nat, NEW D \in Int,
         output_scanline = (IF v_samp[c] = max_v THEN 1 ELSE 2) * (D + a),
         \A i \in a..(a + v_samp[c] - 1) :
            D + i < downsampled_height(c) => Sample(whichptr, c, i) = D + i,
         Context => \A i \in (a - 1)..(a + v_samp[c]) :
            D + i <= downsampled_height(c) => Sample(whichptr, c, i) = Clamp(c, D + i),
         NEW k \in 0..(max_v - 1), output_scanline + k < Height
  PROVE  Emitted([d \in Comps |-> Upsampled(d, rowgroup_ctr)], c, k)
           = Expected(c, output_scanline + k)
<1> DEFINE buf == [d \in Comps |-> Upsampled(d, rowgroup_ctr)]
<1>0. PICK g, h, W : g = v_samp[c] /\ h = downsampled_height(c) /\ W = whichptr
  OBVIOUS
<1>1. g \in 1..4 /\ max_v \in 1..4 /\ max_v \in {g, 2 * g} /\ h \in Nat /\ Context \in BOOLEAN
  BY <1>0, CompFacts, FrameFacts
<1>2. (g = max_v => h = Height) /\ (g # max_v => 2 * h \in {Height, Height + 1})
  BY <1>0, DownsampledFacts
<1>3. CASE g = max_v
  <2>1. buf[c] = <<W, rowgroup_ctr * max_v>> /\ rowgroup_ctr * max_v = a
    BY <1>0, <1>3 DEF Upsampled
  <2>2. Emitted(buf, c, k) = <<Sample(W, c, a + k), Sample(W, c, a + k)>>
    BY <1>0, <1>3, <2>1 DEF Emitted
  <2>3. a + k \in a..(a + g - 1) /\ D + (a + k) = output_scanline + k /\ D + (a + k) < h
    BY <1>0, <1>1, <1>2, <1>3
  <2>4. Sample(W, c, a + k) = output_scanline + k
    BY <1>0, <2>3
  <2> QED
    BY <1>0, <1>3, <2>2, <2>4 DEF Expected
<1>4. CASE g # max_v
  <2>1. PICK r \in 0..(g - 1), e \in 0..1 : k = 2 * r + e /\ k \div 2 = r /\ k % 2 = e
    <3>1. max_v = 2 * g
      BY <1>1, <1>4
    <3>2. k \div 2 \in 0..(g - 1) /\ k % 2 \in 0..1 /\ k = 2 * (k \div 2) + (k % 2)
      BY <1>1, <3>1
    <3> QED
      BY <3>2
  <2>2. PICK y \in Nat : y = output_scanline + k
    OBVIOUS
  <2>3. y = 2 * (D + a + r) + e /\ D + a \in Int /\ D + a >= 0
    BY <1>0, <1>4, <2>1, <2>2
  <2>4. y \div 2 = D + (a + r) /\ y % 2 = e
    BY <2>1, <2>3
  <2>5. D + (a + r) < h /\ a + r \in a..(a + g - 1)
    BY <1>1, <1>2, <1>4, <2>1, <2>2, <2>3
  <2>6. Sample(W, c, a + r) = D + (a + r)
    BY <1>0, <2>5
  <2> DEFINE next == IF ~Context THEN a + r ELSE IF e = 0 THEN (a + r) - 1 ELSE (a + r) + 1
  <2>7. Emitted(buf, c, k) = <<Sample(W, c, a + r), Sample(W, c, next)>>
    <3>1. Emitted(buf, c, k) = Upsampled(c, rowgroup_ctr)[k]
      BY <1>0, <1>4 DEF Emitted
    <3>2. Upsampled(c, rowgroup_ctr)[k] = <<Sample(W, c, a + r), Sample(W, c, next)>>
      BY <1>0, <1>4, <2>1 DEF Upsampled
    <3> QED
      BY <3>1, <3>2
  <2>8. CASE ~Context
    <3>1. Expected(c, y) = <<D + (a + r), D + (a + r)>>
      BY <1>0, <1>4, <2>4, <2>8 DEF Expected
    <3> QED
      BY <2>2, <2>6, <2>7, <2>8, <3>1
  <2>9. CASE Context
    <3>1. PICK n \in Int : n = next /\ n \in (a - 1)..(a + g) /\ D + n <= h
                           /\ D + n = IF e = 0 THEN (D + (a + r)) - 1 ELSE (D + (a + r)) + 1
      <4>1. CASE e = 0
        <5>1. /\ (a + r) - 1 \in (a - 1)..(a + g) /\ D + ((a + r) - 1) <= h
              /\ D + ((a + r) - 1) = (D + (a + r)) - 1 /\ next = (a + r) - 1
          BY <1>1, <2>1, <2>5, <2>9, <4>1
        <5> QED
          BY <4>1, <5>1
      <4>2. CASE e = 1
        <5>1. /\ (a + r) + 1 \in (a - 1)..(a + g) /\ D + ((a + r) + 1) <= h
              /\ D + ((a + r) + 1) = (D + (a + r)) + 1 /\ next = (a + r) + 1
          BY <1>1, <2>1, <2>5, <2>9, <4>2
        <5> QED
          BY <4>2, <5>1
      <4> QED
        BY <2>1, <4>1, <4>2
    <3>2. Sample(W, c, n) = Clamp(c, D + n)
      BY <1>0, <2>9, <3>1
    <3>3. Expected(c, y) = <<D + (a + r), Clamp(c, D + n)>>
      BY <1>0, <1>4, <2>4, <2>9, <3>1 DEF Expected
    <3> QED
      BY <2>2, <2>6, <2>7, <3>1, <3>2, <3>3
  <2> QED
    BY <1>1, <2>8, <2>9
<1> QED
  BY <1>3, <1>4

\* Where the row group at hand lies, without context.
LEMMA SimpleGroup ==
  ASSUME ControlInv, DataInv, call = "run", ~Context, next_row_out = max_v,
         NEW c \in Comps, NEW k \in 0..(max_v - 1), output_scanline + k < Height
  PROVE  Emitted([d \in Comps |-> Upsampled(d, rowgroup_ctr)], c, k)
           = Expected(c, output_scanline + k)
<1>0. PICK g, S, I, h, x : g = v_samp[c] /\ S = Rows(c) /\ I = input_iMCU_row
                           /\ h = downsampled_height(c) /\ x = rowgroup_ctr
  OBVIOUS
<1>1. /\ frame \in Frames /\ Height \in Nat \ {0} /\ buffer_full /\ output_scanline < Height
      /\ output_scanline \in Nat /\ I \in 1..Total /\ Total \in Nat \ {0}
  BY <1>0, ControlFacts DEF ControlInv
<1>2. x \in 0..(M - 1) /\ output_scanline = Top + x * max_v + 0
  <2>1. Taken = 0
    BY ControlFacts DEF Taken
  <2> QED
    BY <1>0, <1>1, <2>1 DEF ControlInv, SimplePlace
<1>3. /\ g \in 1..4 /\ max_v \in {g, 2 * g} /\ M \in Nat /\ S \in Nat /\ S = g * M
      /\ rows_left(c) \in 1..S /\ h = (Total - 1) * S + rows_left(c) /\ PerIMCU = max_v * M
      /\ max_v \in 1..4
  BY <1>0, <1>1, CompFacts, ControlFacts
<1>4. Own(c)
  BY <1>1 DEF DataInv, ContentInv
<1>5. PICK D \in Int, a \in Nat : D = (I - 1) * S /\ a = x * g
  BY <1>1, <1>2, <1>3
<1>6. a + g <= S
  <2>1. a + g = (x + 1) * g /\ x + 1 <= M
    BY <1>2, <1>3, <1>5
  <2> QED
    BY <1>2, <1>3, <2>1
<1>7. output_scanline = (IF v_samp[c] = max_v THEN 1 ELSE 2) * (D + a)
  <2>1. CASE g = max_v
    BY <1>0, <1>1, <1>2, <1>3, <1>5, <2>1 DEF Top
  <2>2. CASE g # max_v
    <3>1. max_v = 2 * g
      BY <1>3, <2>2
    <3>2. (I - 1) * PerIMCU = 2 * D
      BY <1>1, <1>3, <1>5, <3>1
    <3>3. x * max_v = 2 * a
      BY <1>2, <1>3, <1>5, <3>1
    <3> QED
      BY <1>0, <1>1, <1>2, <1>3, <1>5, <2>2, <3>2, <3>3 DEF Top
  <2> QED
    BY <2>1, <2>2
<1>8. ASSUME NEW i \in a..(a + g - 1), D + i < h
      PROVE  Sample(whichptr, c, i) = D + i
  <2>1. i \in 0..(Real(c) - 1)
    <3>1. CASE I < Total
      BY <1>0, <1>1, <1>3, <1>5, <1>6, <1>8, <3>1 DEF Real
    <3>2. CASE I = Total
      BY <1>0, <1>1, <1>3, <1>5, <1>6, <1>8, <3>2 DEF Real
    <3> QED
      BY <1>1, <3>1, <3>2
  <2> QED
    BY <1>0, <1>4, <1>5, <2>1 DEF Own
<1>9. rowgroup_ctr \in Nat /\ a = rowgroup_ctr * v_samp[c]
  BY <1>0, <1>2, <1>3, <1>5
<1>10. \A i \in a..(a + v_samp[c] - 1) :
          D + i < downsampled_height(c) => Sample(whichptr, c, i) = D + i
  BY <1>0, <1>8
<1> QED
  BY <1>1, <1>7, <1>9, <1>10, GroupIsRight

\* With it, of the row of MCUs read last.
LEMMA ProcessGroup ==
  ASSUME ControlInv, DataInv, call = "run", Context, context_state = "process",
         next_row_out = max_v,
         NEW c \in Comps, NEW k \in 0..(max_v - 1), output_scanline + k < Height
  PROVE  Emitted([d \in Comps |-> Upsampled(d, rowgroup_ctr)], c, k)
           = Expected(c, output_scanline + k)
<1>0. PICK g, S, I, h, x, l :
        /\ g = v_samp[c] /\ S = Rows(c) /\ I = input_iMCU_row
        /\ h = downsampled_height(c) /\ x = rowgroup_ctr /\ l = rows_left(c)
  OBVIOUS
<1>1. /\ frame \in Frames /\ Height \in Nat \ {0} /\ buffer_full /\ output_scanline < Height
      /\ output_scanline \in Nat /\ I \in 1..Total /\ Total \in Nat \ {0} /\ bottom_groups \in 1..M
  BY <1>0, ControlFacts DEF ControlInv
<1>2. /\ x \in 0..((IF I = Total THEN bottom_groups ELSE M - 1) - 1)
      /\ output_scanline = Top + x * max_v + 0
  <2>1. Taken = 0
    BY ControlFacts DEF Taken
  <2> QED
    BY <1>0, <1>1, <2>1 DEF ControlInv, ContextPlace, ProcessPlace
<1>3. /\ g \in 1..4 /\ max_v \in {g, 2 * g} /\ M \in Nat /\ M >= 2 /\ S \in Nat /\ S = g * M
      /\ l \in 1..S /\ h = (Total - 1) * S + l /\ h \in Nat \ {0} /\ PerIMCU = max_v * M
      /\ max_v \in 1..4
  BY <1>0, <1>1, CompFacts, ControlFacts
<1>4. Own(c) /\ Above(c) /\ (I = Total => Below(c))
  BY <1>0, <1>1 DEF DataInv, ContentInv, AtTheBottom
<1>5. x \in 0..(M - 1) /\ (I # Total => x + 1 <= M - 1) /\ x \in Nat
  BY <1>1, <1>2, <1>3
<1>6. PICK D \in Int, a \in Nat : D = (I - 1) * S /\ a = x * g
  BY <1>1, <1>3, <1>5
<1>7. D >= 0 /\ (I # Total => D + S <= (Total - 1) * S) /\ (I = Total => D = (Total - 1) * S)
      /\ (Total - 1) * S \in Nat
  <2>1. I # Total => I * S <= (Total - 1) * S
    BY <1>1, <1>3
  <2>2. D + S = I * S
    BY <1>1, <1>3, <1>6
  <2> QED
    BY <1>1, <1>3, <1>6, <2>1, <2>2
<1>8. I # Total => a + g < S
  <2>1. a + g = (x + 1) * g
    BY <1>3, <1>5, <1>6
  <2>2. I # Total => (x + 1) * g <= (M - 1) * g
    BY <1>3, <1>5
  <2>3. (M - 1) * g = S - g
    BY <1>3
  <2> QED
    BY <1>3, <2>1, <2>2, <2>3
<1>9. output_scanline = (IF v_samp[c] = max_v THEN 1 ELSE 2) * (D + a)
  <2>1. CASE g = max_v
    BY <1>0, <1>1, <1>2, <1>3, <1>5, <1>6, <2>1 DEF Top
  <2>2. CASE g # max_v
    <3>1. max_v = 2 * g
      BY <1>3, <2>2
    <3>2. (I - 1) * PerIMCU = 2 * D
      BY <1>1, <1>3, <1>6, <3>1
    <3>3. x * max_v = 2 * a
      BY <1>5, <1>3, <1>6, <3>1
    <3>4. output_scanline = 2 * D + 2 * a
      BY <1>0, <1>1, <1>2, <3>2, <3>3 DEF Top
    <3> QED
      BY <1>0, <1>6, <2>2, <3>4
  <2> QED
    BY <2>1, <2>2
\* Rows of the picture, by their numbers.
<1>10. ASSUME NEW i \in Nat, D + i < h, i <= a + g
       PROVE  Sample(whichptr, c, i) = D + i
  <2>1. i \in 0..(Real(c) - 1)
    <3>1. CASE I # Total
      BY <1>0, <1>1, <1>3, <1>6, <1>8, <1>10, <3>1 DEF Real
    <3>2. CASE I = Total
      BY <1>0, <1>1, <1>3, <1>6, <1>7, <1>10, <3>2 DEF Real
    <3> QED
      BY <3>1, <3>2
  <2> QED
    BY <1>0, <1>4, <1>6, <2>1 DEF Own
<1>11. \A i \in a..(a + g - 1) : D + i < h => Sample(whichptr, c, i) = D + i
  <2>1. \A i \in a..(a + g - 1) : i \in Nat /\ i <= a + g
    BY <1>3, <1>6
  <2> QED
    BY <1>10, <2>1
<1>12. ASSUME NEW i \in (a - 1)..(a + g), D + i <= h
       PROVE  Sample(whichptr, c, i) = Clamp(c, D + i)
  <2>1. CASE i < 0
    <3>1. i = -1 /\ D + i = D - 1
      BY <1>3, <1>6, <1>12, <2>1
    <3> QED
      BY <1>0, <1>4, <1>6, <3>1 DEF Above
  <2>2. CASE i >= 0 /\ D + i < h
    <3>1. Clamp(c, D + i) = D + i
      BY <1>0, <1>3, <1>7, <2>2 DEF Clamp
    <3> QED
      BY <1>3, <1>6, <1>10, <1>12, <2>2, <3>1
  <2>3. CASE i >= 0 /\ D + i = h
    <3>1. I = Total /\ i = l
      BY <1>3, <1>6, <1>7, <1>8, <1>12, <2>3
    <3>2. Clamp(c, D + i) = h - 1
      BY <1>0, <1>3, <2>3 DEF Clamp
    <3> QED
      BY <1>0, <1>4, <3>1, <3>2 DEF Below
  <2> QED
    BY <1>3, <1>6, <1>12, <2>1, <2>2, <2>3
<1>13. rowgroup_ctr \in Nat /\ a = rowgroup_ctr * v_samp[c]
  BY <1>0, <1>5, <1>6
<1>14. /\ \A i \in a..(a + v_samp[c] - 1) :
             D + i < downsampled_height(c) => Sample(whichptr, c, i) = D + i
       /\ \A i \in (a - 1)..(a + v_samp[c]) :
             D + i <= downsampled_height(c) => Sample(whichptr, c, i) = Clamp(c, D + i)
  BY <1>0, <1>11, <1>12
<1> QED
  BY <1>1, <1>9, <1>13, <1>14, GroupIsRight

\* The last one of the row of MCUs before, which waited for this one.
LEMMA PostponedGroup ==
  ASSUME ControlInv, DataInv, call = "run", Context, context_state = "postponed",
         next_row_out = max_v,
         NEW c \in Comps, NEW k \in 0..(max_v - 1), output_scanline + k < Height
  PROVE  Emitted([d \in Comps |-> Upsampled(d, rowgroup_ctr)], c, k)
           = Expected(c, output_scanline + k)
<1>0. PICK g, S, I, h, x :
        /\ g = v_samp[c] /\ S = Rows(c) /\ I = input_iMCU_row
        /\ h = downsampled_height(c) /\ x = rowgroup_ctr
  OBVIOUS
<1>1. /\ frame \in Frames /\ Height \in Nat \ {0} /\ buffer_full /\ output_scanline < Height
      /\ output_scanline \in Nat /\ I \in 1..Total /\ Total \in Nat \ {0}
  BY <1>0, ControlFacts DEF ControlInv
<1>2. I >= 2 /\ x = M + 1 /\ output_scanline = Top - PerIMCU + (M - 1) * max_v + 0
  <2>1. Taken = 0
    BY ControlFacts DEF Taken
  <2> QED
    BY <1>0, <1>1, <2>1 DEF ControlInv, ContextPlace, PostponedPlace
<1>3. /\ g \in 1..4 /\ max_v \in {g, 2 * g} /\ M \in Nat /\ M >= 2 /\ S \in Nat /\ S = g * M
      /\ S >= 2 * g /\ Room(c) = S + 2 * g
      /\ rows_left(c) \in 1..S /\ h = (Total - 1) * S + rows_left(c) /\ PerIMCU = max_v * M
      /\ max_v \in 1..4
  BY <1>0, <1>1, CompFacts, ControlFacts
<1>4. \A i \in S..(S + 2 * g) : Sample(whichptr, c, i) = (I - 2) * S + (i - 2 * g)
  BY <1>0, <1>1, <1>3 DEF DataInv, ContentInv, Kept
<1>5. PICK E \in Nat : E = (I - 2) * S /\ E + S = (I - 1) * S /\ E + S < h
  <2>1. (I - 2) * S \in Nat /\ (I - 2) * S + S = (I - 1) * S
    BY <1>1, <1>2, <1>3
  <2>2. (I - 1) * S <= (Total - 1) * S /\ (Total - 1) * S \in Nat
    BY <1>1, <1>3
  <2> QED
    BY <1>3, <2>1, <2>2
<1>6. PICK D \in Int, a \in Nat : D = E - 2 * g /\ a = x * g /\ a = S + g
  BY <1>2, <1>3, <1>5
<1>7. output_scanline = (IF v_samp[c] = max_v THEN 1 ELSE 2) * (D + a)
  <2>1. output_scanline = (I - 1) * PerIMCU - max_v
    BY <1>0, <1>1, <1>2, <1>3 DEF Top
  <2>2. CASE g = max_v
    BY <1>0, <1>1, <1>3, <1>5, <1>6, <2>1, <2>2
  <2>3. CASE g # max_v
    <3>1. max_v = 2 * g
      BY <1>3, <2>3
    <3>2. (I - 1) * PerIMCU = 2 * (E + S)
      BY <1>1, <1>3, <1>5, <3>1
    <3> QED
      BY <1>0, <1>1, <1>3, <1>5, <1>6, <2>1, <2>3, <3>1, <3>2
  <2> QED
    BY <2>2, <2>3
<1>8. \A i \in (a - 1)..(a + g) : Sample(whichptr, c, i) = D + i /\ Clamp(c, D + i) = D + i
  <2> SUFFICES ASSUME NEW i \in (a - 1)..(a + g)
               PROVE  Sample(whichptr, c, i) = D + i /\ Clamp(c, D + i) = D + i
    OBVIOUS
  <2>1. i \in S..(S + 2 * g)
    BY <1>3, <1>6
  <2>2. Sample(whichptr, c, i) = E + (i - 2 * g) /\ E + (i - 2 * g) = D + i
    BY <1>3, <1>4, <1>5, <1>6, <2>1
  <2>3. PICK r \in Int : r = D + i /\ ~(r < 0) /\ ~(r >= h)
    BY <1>3, <1>5, <1>6, <2>1
  <2>4. Clamp(c, r) = r
    BY <1>0, <2>3 DEF Clamp
  <2> QED
    BY <2>2, <2>3, <2>4
<1>9. \A i \in a..(a + g - 1) : Sample(whichptr, c, i) = D + i
  <2>1. \A i \in a..(a + g - 1) : i \in (a - 1)..(a + g)
    BY <1>3, <1>6
  <2> QED
    BY <1>8, <2>1
<1>10. x \in Nat
  BY <1>2, <1>3
<1>11. \A i \in (a - 1)..(a + g) : Sample(whichptr, c, i) = Clamp(c, D + i)
  BY <1>8
<1>12. rowgroup_ctr \in Nat /\ a = rowgroup_ctr * v_samp[c]
  BY <1>0, <1>6, <1>10
<1>13. /\ \A i \in a..(a + v_samp[c] - 1) :
             D + i < downsampled_height(c) => Sample(whichptr, c, i) = D + i
       /\ \A i \in (a - 1)..(a + v_samp[c]) :
             D + i <= downsampled_height(c) => Sample(whichptr, c, i) = Clamp(c, D + i)
  BY <1>0, <1>9, <1>11
<1> QED
  BY <1>1, <1>7, <1>12, <1>13, GroupIsRight

-----------------------------------------------------------------------------
(* The lines that come out.                                                *)

\* Whatever is in color_buf after PostProcess found it empty or not.
LEMMA BufferIsRight ==
  ASSUME ControlInv, DataInv, call = "run", PostProcess,
         Context => context_state \in {"process", "postponed"},
         NEW c \in Comps, NEW k \in Taken..(max_v - 1), output_scanline + (k - Taken) < Height
  PROVE  Emitted(color_buf', c, k) = Expected(c, output_scanline + (k - Taken))
<1>1. /\ next_row_out \in 1..max_v /\ max_v \in 1..4 /\ Context \in BOOLEAN
      /\ output_scanline < Height /\ output_scanline \in Nat
  BY ControlFacts DEF ControlInv
<1>2. CASE next_row_out < max_v
  <2>1. color_buf' = color_buf
    BY <1>1, <1>2 DEF PostProcess
  <2>2. ColorInv
    BY <1>1 DEF DataInv
  <2> QED
    BY <1>2, <2>1, <2>2 DEF ColorInv
<1>3. CASE next_row_out = max_v
  <2>1. color_buf' = [d \in Comps |-> Upsampled(d, rowgroup_ctr)]
    BY <1>1, <1>3 DEF PostProcess
  <2>2. Taken = 0 /\ k \in 0..(max_v - 1)
        /\ output_scanline + (k - Taken) = output_scanline + k
    BY <1>1, <1>3 DEF Taken
  <2>3. output_scanline + k < Height
    BY <2>2
  <2>4. Emitted([d \in Comps |-> Upsampled(d, rowgroup_ctr)], c, k)
          = Expected(c, output_scanline + k)
    <3>1. CASE ~Context
      BY <1>3, <2>2, <2>3, <3>1, SimpleGroup
    <3>2. CASE Context /\ context_state = "process"
      BY <1>3, <2>2, <2>3, <3>2, ProcessGroup
    <3>3. CASE Context /\ context_state = "postponed"
      BY <1>3, <2>2, <2>3, <3>3, PostponedGroup
    <3> QED
      BY <1>1, <3>1, <3>2, <3>3
  <2> QED
    BY <2>1, <2>2, <2>4
<1> QED
  BY <1>1, <1>2, <1>3

LEMMA OutStep ==
  ASSUME ControlInv, DataInv, OutInv, call = "run", PostProcess, Return,
         UNCHANGED <<frame, Height>>,
         Context => context_state \in {"process", "postponed"}
  PROVE  OutInv'
<1>1. /\ out_row_ctr' = 1 /\ Taken \in 0..(max_v - 1) /\ output_scanline < Height
      /\ output_scanline \in Nat /\ max_v \in 1..4 /\ next_row_out \in 1..max_v
  BY OneLine, ControlFacts DEF ControlInv
<1>2. output_scanline' = output_scanline + 1
  BY <1>1 DEF Return
<1> DEFINE Line == [Comps -> Int \X Int]
           more == [j \in 1..1 |-> [c \in Comps |-> Emitted(color_buf', c, Taken + j - 1)]]
<1>3. out' = out \o more
  <2>1. Emits(Taken) = 1
    <3>1. rows_to_go = Height - output_scanline /\ out_row_ctr = 0 /\ Height \in Nat
      BY <1>1 DEF ControlInv
    <3> QED
      BY <1>1, <3>1 DEF Emits, Min2
  <2>2. Taken = IF next_row_out >= max_v THEN 0 ELSE next_row_out
    BY <1>1 DEF Taken
  <2>3. out' = out \o [j \in 1..Emits(Taken) |->
                        [c \in Comps |-> Emitted(color_buf', c, Taken + j - 1)]]
    BY <2>2, Zenon DEF PostProcess
  <2> QED
    BY <2>1, <2>3
<1>4. \A c \in Comps : Emitted(color_buf', c, Taken) = Expected(c, output_scanline)
  <2>1. Taken \in Taken..(max_v - 1) /\ output_scanline + (Taken - Taken) = output_scanline
    BY <1>1
  <2> QED
    BY <1>1, <2>1, BufferIsRight
<1>5. \A c \in Comps : more[1][c] = Expected(c, output_scanline)
  <2>1. Taken + 1 - 1 = Taken
    BY <1>1
  <2> QED
    BY <1>4, <2>1
<1>6. \A c \in Comps : Expected(c, output_scanline) \in Int \X Int
  <2> SUFFICES ASSUME NEW c \in Comps PROVE Expected(c, output_scanline) \in Int \X Int
    OBVIOUS
  <2>1. downsampled_height(c) \in Nat
    BY CompFacts DEF ControlInv
  <2>2. \A r \in Int : Clamp(c, r) \in Int
    BY <2>1 DEF Clamp
  <2>3. PICK r \in Int : r = output_scanline \div 2
    BY <1>1
  <2> QED
    BY <1>1, <2>2, <2>3 DEF Expected
<1>7. more \in Seq(Line) /\ Len(more) = 1
  <2>1. more[1] \in Line
    <3>1. more[1] = [c \in Comps |-> Emitted(color_buf', c, Taken + 1 - 1)]
      OBVIOUS
    <3>2. \A c \in Comps : more[1][c] \in Int \X Int
      BY <1>5, <1>6
    <3> QED
      BY <3>1, <3>2
  <2>2. more \in [1..1 -> Line]
    BY <2>1
  <2> HIDE DEF more, Line
  <2>3. more \in Seq(Line)
    <3>1. Seq(Line) = UNION {[1..n -> Line] : n \in Nat}
      BY SeqDef
    <3>2. [1..1 -> Line] \in {[1..n -> Line] : n \in Nat}
      OBVIOUS
    <3> QED
      BY <2>2, <3>1, <3>2, Zenon
  <2>4. DOMAIN more = 1..1 /\ DOMAIN more = 1..Len(more) /\ Len(more) \in Nat
    BY <2>2, <2>3, LenProperties
  <2> QED
    BY <2>3, <2>4
<1>8. out \in Seq(Line) /\ Len(out) = output_scanline
      /\ \A y \in 0..(output_scanline - 1), c \in Comps : out[y + 1][c] = Expected(c, y)
  BY DEF OutInv
<1> HIDE DEF more, Line
<1>9. /\ out' \in Seq(Line) /\ Len(out') = output_scanline + 1
      /\ \A i \in 1..(output_scanline + 1) :
            out'[i] = IF i <= output_scanline THEN out[i] ELSE more[i - output_scanline]
  <2>1. output_scanline + Len(more) = output_scanline + 1
    BY <1>7
  <2> QED
    BY <1>3, <1>7, <1>8, <2>1, ConcatProperties, SMTT(30)
<1>10. \A y \in 0..output_scanline, c \in Comps : out'[y + 1][c] = Expected(c, y)
  <2> SUFFICES ASSUME NEW y \in 0..output_scanline, NEW c \in Comps
               PROVE  out'[y + 1][c] = Expected(c, y)
    OBVIOUS
  <2>1. CASE y < output_scanline
    <3>1. y \in 0..(output_scanline - 1) /\ y + 1 \in 1..(output_scanline + 1)
          /\ y + 1 <= output_scanline
      BY <1>1, <2>1
    <3> QED
      BY <1>8, <1>9, <3>1
  <2>2. CASE y = output_scanline
    <3>1. y + 1 \in 1..(output_scanline + 1) /\ ~(y + 1 <= output_scanline)
          /\ (y + 1) - output_scanline = 1
      BY <1>1, <2>2
    <3> QED
      BY <1>5, <1>9, <2>2, <3>1
  <2> QED
    BY <1>1, <2>1, <2>2
<1>11. Comps' = Comps /\ \A c, y : Expected(c, y)' = Expected(c, y)
  BY FrameSame, NamesSame
<1>12. output_scanline' - 1 = output_scanline
  BY <1>1, <1>2
<1> QED
  BY <1>2, <1>9, <1>10, <1>11, <1>12 DEF OutInv, Line

\* While color_buf has more lines, it has the right ones.
LEMMA ColorStep ==
  ASSUME ControlInv, DataInv, call = "run", PostProcess, Return,
         UNCHANGED <<frame, Height>>,
         Context => context_state \in {"process", "postponed"},
         Taken' = Taken + 1 => UNCHANGED <<buffer, xbuffer, whichptr, input_iMCU_row>>
  PROVE  ColorInv'
<1>1. /\ out_row_ctr' = 1 /\ Taken \in 0..(max_v - 1) /\ output_scanline < Height
      /\ output_scanline \in Nat /\ max_v \in 1..4 /\ max_v' = max_v /\ Comps' = Comps
      /\ \A c, y : Expected(c, y)' = Expected(c, y)
  BY OneLine, ControlFacts, FrameSame, NamesSame DEF ControlInv
<1>2. output_scanline' = output_scanline + 1
  BY <1>1 DEF Return
<1>3. \/ Taken' = Taken + 1
      \/ next_row_out' = max_v
  BY LineTaken
<1>4. CASE next_row_out' = max_v
  <2>1. ~(next_row_out' < max_v')
    BY <1>1, <1>4
  <2> QED
    BY <2>1 DEF ColorInv
<1>5. CASE Taken' = Taken + 1
  <2>1. \A c, buf, k : Emitted(buf, c, k)' = Emitted(buf, c, k)
    BY <1>5, SamplesStay
  <2> SUFFICES ASSUME NEW c \in Comps, NEW k \in Taken'..(max_v - 1),
                      output_scanline' + (k - Taken') < Height
               PROVE  Emitted(color_buf, c, k)' = Expected(c, output_scanline + 1 + (k - Taken'))
    BY <1>1, <1>2 DEF ColorInv
  <2>2. /\ k \in Taken..(max_v - 1)
        /\ output_scanline + 1 + (k - Taken') = output_scanline + (k - Taken)
        /\ output_scanline + (k - Taken) < Height
    BY <1>1, <1>2, <1>5
  <2>3. Emitted(color_buf', c, k) = Expected(c, output_scanline + (k - Taken))
    BY <2>2, BufferIsRight
  <2>4. Emitted(color_buf, c, k)' = Emitted(color_buf', c, k)
    BY <1>1, <1>5, <2>1, SamplesStay DEF Emitted
  <2> QED
    BY <2>2, <2>3, <2>4
<1> QED
  BY <1>3, <1>4, <1>5

LEMMA SimpleData ==
  ASSUME ControlInv, DataInv, OutInv, SimpleMain
  PROVE  DataInv' /\ OutInv'
<1>1. /\ call = "run" /\ ~Context /\ PostProcess /\ Return
      /\ UNCHANGED <<frame, Height, input_iMCU_row, buffer, xbuffer, whichptr, context_state>>
      /\ buffer_full' => buffer_full
  BY DEF SimpleMain, lists, ControlInv
<1>2. PointerInv /\ ContentInv
  <2>1. output_scanline < Height
    BY <1>1 DEF ControlInv
  <2> QED
    BY <2>1 DEF DataInv
<1>3. ~Context' /\ ~AtTheBottom /\ ~AtTheBottom' /\ Comps' = Comps
      /\ \A c : Room(c)' = Room(c)
  BY <1>1, FrameSame, NamesSame DEF AtTheBottom
<1>4. Wrapped' <=> Wrapped
  BY <1>1 DEF Wrapped
<1>5. PointerInv'
  BY <1>1, <1>2, <1>3, <1>4, PointersStay
<1>6. ContentInv'
  BY <1>1, <1>2, <1>3, SamplesStay DEF ContentInv
<1>7. ColorInv' /\ OutInv'
  BY <1>1, ColorStep, OutStep
<1> QED
  BY <1>5, <1>6, <1>7 DEF DataInv

LEMMA PostponedData ==
  ASSUME ControlInv, DataInv, OutInv, PostponedRow
  PROVE  DataInv' /\ OutInv'
<1>1. /\ call = "run" /\ Context /\ context_state = "postponed" /\ PostProcess /\ Return
      /\ context_state' \in {"postponed", "prepare"}
      /\ UNCHANGED <<frame, Height, input_iMCU_row, buffer, xbuffer, whichptr, buffer_full>>
  BY PostponedControl DEF PostponedRow, lists
<1>2. PointerInv /\ ContentInv /\ input_iMCU_row >= 2 /\ buffer_full
  <2>1. output_scanline < Height
    BY <1>1 DEF ControlInv
  <2>2. input_iMCU_row >= 2 /\ buffer_full
    BY <1>1 DEF ControlInv, ContextPlace, PostponedPlace
  <2> QED
    BY <2>1, <2>2 DEF DataInv
<1>3. Context' = Context /\ ~AtTheBottom /\ ~AtTheBottom' /\ Comps' = Comps
      /\ \A c : Room(c)' = Room(c)
  BY <1>1, FrameSame, NamesSame DEF AtTheBottom
<1>4. Wrapped' <=> Wrapped
  BY <1>1, <1>2 DEF Wrapped
<1>5. PointerInv'
  BY <1>1, <1>2, <1>3, <1>4, PointersStay
<1>6. ContentInv'
  <2>1. ASSUME NEW c \in Comps
        PROVE  /\ DOMAIN buffer'[c] = 0..(Room(c)' - 1)
               /\ Own(c)' /\ Above(c)' /\ Kept(c, input_iMCU_row - 2, Room(c))'
    <3>1. /\ DOMAIN buffer[c] = 0..(Room(c) - 1)
          /\ Own(c) /\ Above(c) /\ Kept(c, input_iMCU_row - 2, Room(c))
      BY <1>1, <1>2 DEF ContentInv
    <3>2. Kept(c, input_iMCU_row - 2, Room(c))'
      <4>1. /\ Rows(c)' = Rows(c) /\ v_samp' = v_samp
            /\ \A w, i : Sample(w, c, i)' = Sample(w, c, i)
        BY <1>1, FrameSame, NamesSame, SamplesStay
      <4> QED
        BY <1>1, <1>3, <3>1, <4>1 DEF Kept
    <3> QED
      BY <1>1, <1>3, <3>1, <3>2, SamplesStay
  <2> QED
    BY <1>1, <1>2, <1>3, <2>1 DEF ContentInv
<1>7. ColorInv' /\ OutInv'
  BY <1>1, ColorStep, OutStep
<1> QED
  BY <1>5, <1>6, <1>7 DEF DataInv

\* The lists change places when the last but one row group is out.
LEMMA ProcessData ==
  ASSUME ControlInv, DataInv, OutInv, ProcessIMCU
  PROVE  DataInv' /\ OutInv'
<1>1. /\ call = "run" /\ Context /\ context_state = "process" /\ PostProcess /\ Return
      /\ UNCHANGED <<frame, Height, input_iMCU_row, buffer, iMCU_row_ctr>>
  BY DEF ProcessIMCU
<1>2. /\ PointerInv /\ ContentInv /\ buffer_full /\ frame \in Frames /\ Height \in Nat \ {0}
      /\ input_iMCU_row \in 1..Total /\ iMCU_row_ctr = input_iMCU_row /\ Total \in Nat
      /\ rowgroups_avail = (IF input_iMCU_row = Total THEN bottom_groups ELSE M - 1)
      /\ rowgroup_ctr \in 0..(rowgroups_avail - 1)
      /\ M \in Nat /\ bottom_groups \in 1..M
  <2>1. /\ output_scanline < Height /\ input_iMCU_row \in 0..Total /\ iMCU_row_ctr = input_iMCU_row
        /\ frame \in Frames /\ Height \in Nat \ {0} /\ buffer_full /\ input_iMCU_row >= 1
    BY <1>1 DEF ControlInv
  <2>2. /\ rowgroups_avail = (IF input_iMCU_row = Total THEN bottom_groups ELSE M - 1)
        /\ rowgroup_ctr \in 0..(rowgroups_avail - 1)
    BY <1>1 DEF ControlInv, ContextPlace, ProcessPlace
  <2> QED
    BY <2>1, <2>2, ControlFacts DEF DataInv
<1>3. /\ Context' = Context /\ Comps' = Comps /\ Total' = Total /\ v_samp' = v_samp
      /\ \A c : Rows(c)' = Rows(c) /\ Room(c)' = Room(c)
      /\ \A w, c, i : Slot(w, c, i)' = Slot(w, c, i)
  BY <1>1, FrameSame, NamesSame
<1>4. rowgroup_ctr < rowgroups_avail
  BY <1>2
<1>5. Taken' = Taken + 1 => Consumed < rowgroups_avail
  <2>1. Taken \in Nat
    BY <1>1, OneLine, ControlFacts
  <2>2. \/ Taken' = Taken + 1 /\ Consumed = rowgroup_ctr
        \/ Taken' = 0
    BY <1>1, LineTaken
  <2> QED
    BY <1>4, <2>1, <2>2
<1>6. ColorInv' /\ OutInv'
  <2>1. Taken' = Taken + 1 => UNCHANGED <<buffer, xbuffer, whichptr, input_iMCU_row>>
    BY <1>1, <1>5 DEF ProcessIMCU, lists
  <2> QED
    BY <1>1, <2>1, ColorStep, OutStep
<1>7. CASE Consumed < rowgroups_avail
  <2>1. UNCHANGED <<xbuffer, whichptr, buffer_full, context_state>>
    BY <1>7 DEF ProcessIMCU, lists
  <2>2. (AtTheBottom' <=> AtTheBottom) /\ (Wrapped' <=> Wrapped)
    BY <1>1, <1>3, <2>1 DEF AtTheBottom, Wrapped
  <2>3. PointerInv'
    BY <1>1, <1>2, <2>1, <2>2, PointersStay
  <2>4. ContentInv'
    BY <1>1, <1>2, <1>3, <2>1, <2>2, SamplesStay DEF ContentInv
  <2> QED
    BY <1>6, <2>3, <2>4 DEF DataInv
<1>8. CASE ~(Consumed < rowgroups_avail)
  <2>1. /\ xbuffer' = IF iMCU_row_ctr = 1 THEN set_wraparound_pointers(xbuffer) ELSE xbuffer
        /\ whichptr' = 1 - whichptr /\ buffer_full' = FALSE /\ context_state' = "postponed"
    BY <1>8 DEF ProcessIMCU
  <2>2. CASE input_iMCU_row = Total
    <3>1. ControlInv'
      BY ProcessControl
    <3>2. output_scanline' = Height'
      BY <1>1, <1>3, <2>1, <2>2, <3>1 DEF ControlInv, ContextPlace, PostponedPlace
    <3>3. ~(output_scanline' < Height')
      BY <1>1, <1>2, <3>2
    <3> QED
      BY <1>6, <3>3 DEF DataInv
  <2>3. CASE input_iMCU_row # Total
    <3>1. ~AtTheBottom /\ ~AtTheBottom' /\ Wrapped' /\ (input_iMCU_row = 1 \/ Wrapped)
      BY <1>1, <1>2, <1>3, <2>1, <2>3 DEF AtTheBottom, Wrapped
    <3>2. /\ whichptr \in 0..1 /\ whichptr' \in 0..1 /\ DOMAIN xbuffer = 0..1
          /\ \A w \in 0..1, c \in Comps : AsMade(w, c)
      BY <1>2, <2>1, <3>1 DEF PointerInv
    <3>3. ASSUME NEW w \in 0..1, NEW c \in Comps
          PROVE  AsMade(w, c)' /\ Around(w, c)'
      <4>1. CASE input_iMCU_row = 1
        <5>0. PICK g, L : g = v_samp[c] /\ L = Room(c)
          OBVIOUS
        <5>1. /\ g \in 1..4 /\ L \in Nat /\ L >= 2 /\ L = g * (M + 2) /\ g * (M + 3) = L + g
          <6>1. g \in 1..4 /\ L = g * (M + 2)
            BY <1>2, <5>0, CompFacts DEF Room
          <6>2. g * (M + 2) \in Nat /\ g * (M + 2) >= 2 /\ g * (M + 3) = g * (M + 2) + g
            BY <1>2, <6>1
          <6> QED
            BY <6>1, <6>2
        <5>2. \A i \in (-1)..L :
                xbuffer'[w][c][i] = IF i < 0 THEN xbuffer[w][c][L + i]
                                    ELSE IF i >= L THEN xbuffer[w][c][i - L] ELSE xbuffer[w][c][i]
          <6>1. \A i \in (-1)..L : i \in Range4(c)
            BY <5>0, <5>1 DEF Range4
          <6>2. xbuffer' = set_wraparound_pointers(xbuffer)
            BY <1>2, <2>1, <4>1
          <6>3. L = v_samp[c] * (M + 2)
            BY <5>0, <5>1
          <6> QED
            BY <6>1, <6>2, <6>3 DEF set_wraparound_pointers
        <5>3. \A i \in 0..(L - 1) : xbuffer[w][c][i] = Slot(w, c, i)
          BY <3>2, <5>0 DEF AsMade
        <5>4. \A i \in 0..(L - 1) : xbuffer'[w][c][i] = Slot(w, c, i)
          <6>1. \A i \in 0..(L - 1) : i \in (-1)..L /\ ~(i < 0) /\ ~(i >= L)
            BY <5>1
          <6> QED
            BY <5>2, <5>3, <6>1
        <5>5. xbuffer'[w][c][-1] = Slot(w, c, L - 1)
          <6>1. -1 \in (-1)..L /\ L + (-1) = L - 1 /\ L - 1 \in 0..(L - 1)
            BY <5>1
          <6> QED
            BY <5>2, <5>3, <6>1
        <5>6. xbuffer'[w][c][L] = Slot(w, c, 0)
          <6>1. L \in (-1)..L /\ L - L = 0 /\ 0 \in 0..(L - 1)
            BY <5>1
          <6> QED
            BY <5>2, <5>3, <6>1
        <5> QED
          BY <1>3, <5>0, <5>4, <5>5, <5>6 DEF AsMade, Around
      <4>2. CASE input_iMCU_row # 1
        <5>1. xbuffer' = xbuffer /\ Wrapped
          BY <1>2, <2>1, <3>1, <4>2
        <5>2. AsMade(w, c) /\ Around(w, c)
          BY <1>1, <1>2, <3>1, <3>2, <5>1 DEF PointerInv
        <5> QED
          BY <1>3, <5>1, <5>2 DEF AsMade, Around
      <4> QED
        BY <4>1, <4>2
    <3>4. DOMAIN xbuffer' = 0..1
      BY <2>1, <3>2 DEF set_wraparound_pointers
    <3>5. PointerInv'
      BY <1>1, <1>3, <3>1, <3>2, <3>3, <3>4 DEF PointerInv
    <3>6. ASSUME NEW c \in Comps
          PROVE  Kept(c, input_iMCU_row - 1, Room(c) - 1)' /\ DOMAIN buffer'[c] = 0..(Room(c)' - 1)
      <4>0. PICK g, S, I, w, v : /\ g = v_samp[c] /\ S = Rows(c) /\ I = input_iMCU_row
                                 /\ w = whichptr /\ v = 1 - w
        OBVIOUS
      <4>1. /\ g \in 1..4 /\ S \in Nat /\ S >= 2 * g /\ Room(c) = S + 2 * g
        BY <1>2, <4>0, CompFacts
      <4>2. \A i \in 0..(S - 1) : Sample(w, c, i) = (I - 1) * S + i
        <5>1. Own(c) /\ Real(c) = S
          BY <1>2, <2>3, <4>0 DEF ContentInv, Real
        <5> QED
          BY <4>0, <5>1 DEF Own
      <4>3. /\ w \in 0..1 /\ v \in 0..1 /\ whichptr' = v
            /\ \A i \in S..(S + 2 * g - 1) : Slot(v, c, i) = Slot(w, c, i - 2 * g)
        BY <1>2, <2>1, <3>2, <4>0, <4>1, SlotFacts
      <4>4. ASSUME NEW i \in S..(S + 2 * g - 1)
            PROVE  Sample(v, c, i)' = (I - 1) * S + (i - 2 * g)
        <5>1. PICK j \in 0..(S - 1) : j = i - 2 * g
          BY <4>1
        <5>2. i \in 0..(Room(c) - 1) /\ j \in 0..(Room(c) - 1)
          BY <4>1
        <5>3. xbuffer'[v][c][i] = Slot(v, c, i)
          BY <1>3, <3>3, <4>3, <5>2 DEF AsMade
        <5>4. xbuffer[w][c][j] = Slot(w, c, j)
          BY <3>2, <4>3, <5>2 DEF AsMade
        <5>5. xbuffer'[v][c][i] = xbuffer[w][c][j]
          BY <4>3, <5>1, <5>3, <5>4
        <5>6. Sample(v, c, i)' = Sample(w, c, j)
          BY <1>1, <5>5 DEF Sample
        <5> QED
          BY <4>2, <5>1, <5>6
      <4>5. DOMAIN buffer'[c] = 0..(Room(c)' - 1)
        BY <1>1, <1>2, <1>3 DEF ContentInv
      <4>6. Kept(c, input_iMCU_row - 1, Room(c) - 1)'
        <5>1. Room(c)' - 1 = S + 2 * g - 1
          BY <1>3, <4>1
        <5> QED
          BY <1>1, <1>3, <4>0, <4>3, <4>4, <5>1 DEF Kept
      <4> QED
        BY <4>5, <4>6
    <3>7. ContentInv'
      BY <1>3, <2>1, <3>6 DEF ContentInv
    <3> QED
      BY <1>6, <3>5, <3>7 DEF DataInv
  <2> QED
    BY <2>2, <2>3
<1> QED
  BY <1>7, <1>8

LEMMA DataStep ==
  ASSUME ControlInv, DataInv, OutInv, [Next]_vars
  PROVE  DataInv' /\ OutInv'
<1>1. ASSUME UNCHANGED <<frame, Height, output_scanline, out>>
      PROVE  OutInv'
  <2>1. Comps' = Comps /\ \A c, y : Expected(c, y)' = Expected(c, y)
    BY <1>1, FrameSame, NamesSame
  <2> QED
    BY <1>1, <2>1 DEF OutInv
<1>2. CASE Call \/ UNCHANGED vars
  <2>1. UNCHANGED <<frame, Height, buffer, xbuffer, whichptr, input_iMCU_row, context_state,
                    buffer_full, output_scanline, next_row_out, color_buf, out>>
    BY <1>2 DEF Call, vars, caller, lists, groups, upsample
  <2> QED
    BY <1>1, <2>1, DataSame
<1>3. CASE DecompressData
  <2>1. UNCHANGED <<frame, Height, output_scanline, out>>
    BY <1>3 DEF DecompressData, caller, upsample
  <2> QED
    BY <1>1, <1>3, <2>1, FillData
<1>4. CASE PrepareForIMCU
  <2>1. UNCHANGED <<frame, Height, output_scanline, out>>
    BY <1>4 DEF PrepareForIMCU, caller, upsample
  <2> QED
    BY <1>1, <1>4, <2>1, PrepareData
<1>5. CASE SimpleMain \/ PostponedRow \/ ProcessIMCU
  BY <1>5, SimpleData, PostponedData, ProcessData
<1> QED
  BY <1>2, <1>3, <1>4, <1>5 DEF Next

(* Every line is made of the rows that belong to it, for every height and  *)
(* set-up: what the swapped list keeps of a row of MCUs is there until the *)
(* lines that look at it are out, and below the picture are copies of its  *)
(* last row.                                                               *)
THEOREM LinesAreAlwaysRight == Spec => []LinesAreRight
<1>1. Init => DataInv /\ OutInv
  BY DataInit
<1>2. ControlInv /\ DataInv /\ OutInv /\ [Next]_vars => DataInv' /\ OutInv'
  BY DataStep
<1>3. ControlInv /\ OutInv => LinesAreRight
  <2> SUFFICES ASSUME ControlInv, OutInv PROVE LinesAreRight
    OBVIOUS
  <2>1. output_scanline \in Nat
    BY ControlFacts DEF ControlInv
  <2> QED
    BY <2>1 DEF LinesAreRight, OutInv
<1> QED
  BY <1>1, <1>2, <1>3, ControlHolds, PTL DEF Spec

=============================================================================

-------------------------- MODULE JpegMainController --------------------------
(***************************************************************************)
(* libjpeg's way from rows of MCUs to scanlines, for a caller that asks    *)
(* for one line at a time as readJPEG does: the main buffer controller     *)
(* with its two lists of pointers into one workspace (jdmainct.c), and the *)
(* upsampler, which doubles a component's rows and looks at the row above  *)
(* or below for it (jdsample.c).                                           *)
(*                                                                         *)
(* A sample row is its number in its component, so that what the upsampler *)
(* reads says where it came from; NONE is workspace never written.         *)
(***************************************************************************)
EXTENDS JpegRows, Sequences

CONSTANTS
  Frames,  \* what the decoder may be set up for: [M, v_samp, context, heights]
  NONE

\* min_DCT_scaled_size, the row groups in a row of MCUs; v_samp_factor of each
\* component; need_context_rows; and the heights a picture may have.
ASSUME FramesAssumption == \A f \in Frames :
  /\ f.M \in Nat /\ f.M >= 2 /\ f.heights \subseteq Nat \ {0}
  /\ f.v_samp \in Seq(Nat) /\ f.context \in BOOLEAN
  /\ \E max \in 1..4 :
       /\ \A c \in DOMAIN f.v_samp : max \in {f.v_samp[c], 2 * f.v_samp[c]}
       /\ \E c \in DOMAIN f.v_samp : f.v_samp[c] = max

VARIABLES
  frame,
  Height,          \* output_height
  call,            \* "idle" between calls of jpeg_read_scanlines, "fill", "run"
  output_scanline,
  out,             \* what was delivered: per line and component <<row, other row>>
  input_iMCU_row,  \* rows of MCUs decoded
  buffer,          \* the workspace
  xbuffer,         \* the pointer lists 0 and 1
  whichptr, context_state, buffer_full,
  rowgroup_ctr, rowgroups_avail, iMCU_row_ctr,
  color_buf, next_row_out, rows_to_go, out_row_ctr

caller   == <<frame, Height, output_scanline>>
lists    == <<xbuffer, whichptr>>
groups   == <<rowgroup_ctr, rowgroups_avail>>
upsample == <<color_buf, next_row_out, rows_to_go, out_row_ctr, out>>
vars == <<call, caller, input_iMCU_row, buffer, lists, context_state, buffer_full,
          groups, iMCU_row_ctr, upsample>>

M       == frame.M
v_samp  == frame.v_samp
Context == frame.context
Comps   == DOMAIN v_samp
max_v   == CHOOSE v \in { v_samp[c] : c \in Comps } : \A c \in Comps : v_samp[c] <= v

total_iMCU_rows == IMCURows(Height, max_v * M)
downsampled_height(c) == jdiv_round_up(Height * v_samp[c], max_v)

\* Of the last row of MCUs, or of any whose part is whole.
Rest(n, size) == IF n % size = 0 THEN size ELSE n % size

-----------------------------------------------------------------------------
(* The pointer lists: M + 2 row groups and one more on both sides.         *)

Range4(c) == (-v_samp[c])..(v_samp[c] * (M + 3) - 1)

\* The second list has its last four row groups in swapped order.
Swapped(c, i) ==
  LET g == v_samp[c]
  IN  CASE i \in (g * (M - 2))..(g * M - 1) -> i + 2 * g
        [] i \in (g * M)..(g * (M + 2) - 1) -> i - 2 * g
        [] OTHER -> i

Second(c, i) == Swapped(c, i)

make_funny_pointers ==
  [w \in 0..1 |-> [c \in Comps |-> [i \in Range4(c) |->
     IF i < 0 THEN (IF w = 0 THEN 0 ELSE NONE)
     ELSE IF i >= v_samp[c] * (M + 2) THEN NONE
     ELSE IF w = 0 THEN i ELSE Second(c, i)]]]

set_wraparound_pointers(x) ==
  [w \in 0..1 |-> [c \in Comps |-> [i \in Range4(c) |->
     IF i < 0 THEN x[w][c][v_samp[c] * (M + 2) + i]
     ELSE IF i >= v_samp[c] * (M + 2) THEN x[w][c][i - v_samp[c] * (M + 2)]
     ELSE x[w][c][i]]]]

rows_left(c) == Rest(downsampled_height(c), v_samp[c] * M)

set_bottom_pointers(x) ==
  [x EXCEPT ![whichptr] = [c \in Comps |-> [i \in Range4(c) |->
     IF i \in rows_left(c)..(rows_left(c) + 2 * v_samp[c] - 1)
     THEN x[whichptr][c][rows_left(c) - 1] ELSE x[whichptr][c][i]]]]

\* Of component 1; it is the same for each.
bottom_groups == (rows_left(1) - 1) \div v_samp[1] + 1

-----------------------------------------------------------------------------
\* start_pass_upsample: the lines to come.
ToGo == Height

Init ==
  /\ frame \in Frames /\ Height \in frame.heights
  /\ call = "idle" /\ output_scanline = 0 /\ out = <<>> /\ input_iMCU_row = 0
  /\ buffer = [c \in Comps |-> [i \in 0..(v_samp[c] * (M + 2) - 1) |-> NONE]]
  /\ xbuffer = make_funny_pointers
  /\ whichptr = 0 /\ context_state = "prepare" /\ buffer_full = FALSE
  /\ rowgroup_ctr = 0 /\ rowgroups_avail = 0 /\ iMCU_row_ctr = 0
  /\ color_buf = [c \in Comps |-> NONE]
  /\ next_row_out = max_v /\ rows_to_go = ToGo /\ out_row_ctr = 0

\* jpeg_read_scanlines for one line, up to process_data.
Call ==
  /\ call = "idle" /\ output_scanline < Height
  /\ call' = IF buffer_full THEN "run" ELSE "fill"
  /\ out_row_ctr' = 0
  /\ UNCHANGED <<caller, input_iMCU_row, buffer, lists, context_state, buffer_full, groups,
                 iMCU_row_ctr, color_buf, next_row_out, rows_to_go, out>>

\* Block rows of component c that are decoded in the row of MCUs at hand; those
\* below the picture are not.
BlockRows(c) ==
  IF input_iMCU_row < total_iMCU_rows - 1 THEN v_samp[c]
  ELSE Rest(jdiv_round_up(Height * v_samp[c], max_v * M), v_samp[c])

\* coef->decompress_data into the rows of a list.
DecompressData ==
  /\ call = "fill" /\ call' = "run"
  /\ buffer' = [c \in Comps |-> [p \in DOMAIN buffer[c] |->
       LET here == { i \in 0..(BlockRows(c) * M - 1) : xbuffer[whichptr][c][i] = p }
       IN  IF here = {} THEN buffer[c][p]
           ELSE input_iMCU_row * v_samp[c] * M + (CHOOSE i \in here : TRUE)]]
  /\ input_iMCU_row' = input_iMCU_row + 1
  /\ buffer_full' = TRUE /\ iMCU_row_ctr' = iMCU_row_ctr + 1
  /\ UNCHANGED <<caller, lists, context_state, groups, upsample>>

-----------------------------------------------------------------------------
(* sep_upsample on the row group rowgroup_ctr of the list in use.          *)

Sample(w, c, i) == buffer[c][xbuffer[w][c][i]]

\* A full-size component is not copied: color_buf points into the list.  One of
\* half the rows is doubled (h2v2_fancy_upsample, or h2v2_upsample without
\* context): the nearest row, and the next nearest.
Upsampled(c, ctr) ==
  IF v_samp[c] = max_v THEN <<whichptr, ctr * max_v>>
  ELSE [k \in 0..(max_v - 1) |->
          LET r == ctr * v_samp[c] + k \div 2
              next == IF ~Context THEN r ELSE IF k % 2 = 0 THEN r - 1 ELSE r + 1
          IN  <<Sample(whichptr, c, r), Sample(whichptr, c, next)>>]

Emitted(buf, c, k) ==
  IF v_samp[c] = max_v
  THEN LET s == Sample(buf[c][1], c, buf[c][2] + k) IN <<s, s>>
  ELSE buf[c][k]

\* All of color_buf, whatever the caller takes.
MutEmits(k) == Min2(max_v - k, rows_to_go)
\* How many rows are converted: what is in color_buf, what the picture still
\* needs, what the caller takes.
Emits(k) == Min2(Min2(max_v - k, rows_to_go), 1 - out_row_ctr)

PostProcess ==
  LET empty == next_row_out >= max_v
      k == IF empty THEN 0 ELSE next_row_out
      n == Emits(k)
  IN  /\ color_buf' = IF empty THEN [c \in Comps |-> Upsampled(c, rowgroup_ctr)] ELSE color_buf
      /\ out' = out \o [j \in 1..n |-> [c \in Comps |-> Emitted(color_buf', c, k + j - 1)]]
      /\ out_row_ctr' = out_row_ctr + n
      /\ rows_to_go' = rows_to_go - n
      /\ next_row_out' = k + n

\* The counter after it: a row group is consumed when color_buf is empty.
Consumed == IF next_row_out' >= max_v THEN rowgroup_ctr + 1 ELSE rowgroup_ctr

\* process_data returns, and jpeg_read_scanlines with it.
Return == call' = "idle" /\ output_scanline' = output_scanline + out_row_ctr'
Stay   == UNCHANGED <<call, output_scanline>>

-----------------------------------------------------------------------------
(* process_data_simple_main.                                               *)

SimpleMain ==
  /\ call = "run" /\ ~Context
  /\ PostProcess
  /\ IF Consumed < M THEN rowgroup_ctr' = Consumed /\ UNCHANGED buffer_full
     ELSE rowgroup_ctr' = 0 /\ buffer_full' = FALSE
  /\ Return
  /\ UNCHANGED <<frame, Height, input_iMCU_row, buffer, lists, context_state, rowgroups_avail,
                 iMCU_row_ctr>>

-----------------------------------------------------------------------------
(* process_data_context_main, one action per case of its switch.           *)

PostponedRow ==
  /\ call = "run" /\ Context /\ context_state = "postponed"
  /\ PostProcess
  /\ rowgroup_ctr' = Consumed
  /\ context_state' = IF Consumed < rowgroups_avail THEN "postponed" ELSE "prepare"
  /\ IF Consumed < rowgroups_avail \/ out_row_ctr' >= 1 THEN Return ELSE Stay
  /\ UNCHANGED <<frame, Height, input_iMCU_row, buffer, lists, buffer_full, rowgroups_avail,
                 iMCU_row_ctr>>

\* The bottom is never looked for.
MutAtBottom == FALSE
AtBottom == iMCU_row_ctr = total_iMCU_rows

PrepareForIMCU ==
  /\ call = "run" /\ Context /\ context_state = "prepare"
  /\ rowgroup_ctr' = 0 /\ context_state' = "process"
  /\ rowgroups_avail' = IF AtBottom THEN bottom_groups ELSE M - 1
  /\ xbuffer' = IF AtBottom THEN set_bottom_pointers(xbuffer) ELSE xbuffer
  /\ UNCHANGED <<call, caller, input_iMCU_row, buffer, whichptr, buffer_full,
                 iMCU_row_ctr, upsample>>

\* The postponed row group is M + 1 of the other list.
MutPostponed == M
Postponed == M + 1

ProcessIMCU ==
  /\ call = "run" /\ Context /\ context_state = "process"
  /\ PostProcess
  /\ IF Consumed < rowgroups_avail
     THEN /\ rowgroup_ctr' = Consumed
          /\ UNCHANGED <<lists, buffer_full, rowgroups_avail, context_state>>
     ELSE /\ xbuffer' = IF iMCU_row_ctr = 1 THEN set_wraparound_pointers(xbuffer)
                        ELSE xbuffer
          /\ whichptr' = 1 - whichptr /\ buffer_full' = FALSE
          /\ rowgroup_ctr' = Postponed /\ rowgroups_avail' = Postponed + 1
          /\ context_state' = "postponed"
  /\ Return
  /\ UNCHANGED <<frame, Height, input_iMCU_row, buffer, iMCU_row_ctr>>

Next ==
  \/ Call \/ DecompressData \/ SimpleMain
  \/ PostponedRow \/ PrepareForIMCU \/ ProcessIMCU

Spec == Init /\ [][Next]_vars

-----------------------------------------------------------------------------
(* Properties.                                                             *)

Clamp(c, r) == IF r < 0 THEN 0
               ELSE IF r >= downsampled_height(c) THEN downsampled_height(c) - 1 ELSE r

\* Line y of the picture from component c: the row it lies in, and the row on
\* its other side, the first and last doubled at the edges ("the required
\* context rows are manufactured by duplicating the first or last real sample
\* row", jdmainct.c).
Expected(c, y) ==
  IF v_samp[c] = max_v THEN <<y, y>>
  ELSE LET r == y \div 2
       IN  <<r, IF ~Context THEN r ELSE Clamp(c, IF y % 2 = 0 THEN r - 1 ELSE r + 1)>>

\* Every line delivered is the next one of the picture, made of the rows of
\* each component that belong to it: none that was overwritten by the next row
\* of MCUs, none from below the picture.
LinesAreRight ==
  /\ output_scanline <= Len(out)
  /\ \A y \in 0..(Len(out) - 1), c \in Comps : out[y + 1][c] = Expected(c, y)

\* No more is asked of the coefficient controller than the picture has: it
\* would decode, or wait for, a row of MCUs that is not there.
ReadsThePictureOnly == input_iMCU_row <= total_iMCU_rows

\* Each call for one line gives one line: readJPEG does not look at how many
\* it got ("we could get away with this because we asked for only one line at
\* a time", example.c).
OneLinePerCall ==
  [][call' = "idle" /\ call # "idle" => output_scanline' = output_scanline + 1]_vars

\* The number of rows of MCUs read is what JpegReader takes it to be.
ReadsAsNeeded ==
  call = "idle" /\ output_scanline > 0 => input_iMCU_row =
    RowsNeeded(Height, max_v * M, max_v, Context, output_scanline - 1)
=============================================================================

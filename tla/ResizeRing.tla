------------------------------ MODULE ResizeRing ------------------------------
(***************************************************************************)
(* stb_image_resize as scale (Sources/Preprocessor.cpp) calls it, in one   *)
(* dimension: which lines of the source have a part in which lines of the  *)
(* result, and the ring buffer that carries the lines the vertical loops   *)
(* still need.  What a line holds is left out, and so are the coefficients *)
(* but for their being 0.                                                  *)
(*                                                                         *)
(* The code computes in float, of 24 bits.  A place of a range is less     *)
(* than the smaller size and four, and comes of four roundings, so its     *)
(* error is below 2^-22 times that.  A place that is no integer is one     *)
(* part in twice the larger size away from one at least.  PrecisionAssum-  *)
(* ption keeps the error below that distance: such a place is rounded down *)
(* as it should, and one that is an integer may come out a little smaller  *)
(* or larger.  Beyond it the code may cut any range short, and nothing is  *)
(* said of it here.                                                        *)
(***************************************************************************)
EXTENDS Integers, Sequences

CONSTANTS
  Sizes,   \* <<input_h, output_h>>
  Kinds    \* "cubic": filters of support 2; "box": STBIR_FILTER_BOX, a trapezoid

ASSUME ResizeAssumption ==
  Sizes \subseteq (Nat \ {0}) \X (Nat \ {0}) /\ Kinds \subseteq {"cubic", "box"}

\* 2^22.  Met by all sizes up to 1400, or by 60000 and 30.
Precision == 4194304
ASSUME PrecisionAssumption ==
  \A size \in Sizes : 2 * size[1] * (size[2] + 4) < Precision
                    /\ 2 * size[2] * (size[1] + 4) < Precision

VARIABLES
  input_h, output_h, kind,
  filter_pixel_width,
  phase, y,
  first_pixel, last_pixel,   \* the range of the line y
  ring_buffer,      \* [index -> what the entry holds]
  begin_index, first_scanline, last_scanline,
  out               \* what was written to each line of the result, in order

request   == <<input_h, output_h, kind, filter_pixel_width>>
range     == <<first_pixel, last_pixel>>
ring      == <<ring_buffer, begin_index, first_scanline, last_scanline>>
ring_vars == <<request, phase, y, range, ring, out>>

-----------------------------------------------------------------------------
(* Ranges.  An upsampled line is made of source lines around its centre, a *)
(* line of the source that is downsampled goes to lines of the result      *)
(* around its centre: small is the size that is stepped through with its   *)
(* own lines' distance, large the other's.                                 *)

use_upsampling == output_h > input_h
small == IF use_upsampling THEN input_h ELSE output_h
large == IF use_upsampling THEN output_h ELSE input_h

\* The filter's support, and the quotients below, in parts of 2 * large.
support == IF kind = "cubic" THEN 4 * large ELSE small + large

Ceil(a, b) == -((-a) \div b)

\* floor and ceil of a quotient of floats.
FloorOf(a, b) == { a \div b } \union IF a % b = 0 THEN { a \div b - 1 } ELSE {}
CeilOf(a, b)  == { Ceil(a, b) } \union IF a % b = 0 THEN { a \div b + 1 } ELSE {}

Centre(n) == (2 * n + 1) * small

\* stbir__calculate_sample_range_upsample and _downsample.
FirstPixel(n) == FloorOf(Centre(n) - support + large, 2 * large)
LastPixel(n)  == FloorOf(Centre(n) + support - large, 2 * large)

Distance(n, k) == Centre(n) - (2 * k + 1) * large
\* The kernel is 0 from the support on.  One that floats make 0 just within it
\* counts as a part all the same.
Weighs(n, k) == -support < Distance(n, k) /\ Distance(n, k) < support

\* Half of the lines that are not the one at hand.
MutPixelMargin == (filter_pixel_width - 1) \div 2
pixel_margin == filter_pixel_width \div 2

\* No extra entry, and no rounding up.
MutNumEntries == filter_pixel_width - 1
num_entries == filter_pixel_width + 1

RingInit ==
  /\ \E size \in Sizes : input_h = size[1] /\ output_h = size[2]
  /\ kind \in Kinds
  /\ filter_pixel_width \in CeilOf(support, IF use_upsampling THEN large ELSE small)
  /\ phase = "range" /\ y = (IF use_upsampling THEN 0 ELSE -pixel_margin)
  /\ first_pixel = 0 /\ last_pixel = 0
  /\ ring_buffer = [i \in 0..(num_entries - 1) |-> {}]
  /\ begin_index = -1 /\ first_scanline = 0 /\ last_scanline = 0
  /\ out = [k \in 0..(output_h - 1) |-> <<>>]

-----------------------------------------------------------------------------
(* The ring buffer.                                                        *)

IndexOf(n) == (begin_index + (n - first_scanline)) % num_entries

\* stbir__add_empty_ring_buffer_entry
AddEntry(n, content) ==
  /\ last_scanline' = n
  /\ IF begin_index < 0
     THEN /\ begin_index' = 0 /\ first_scanline' = n
          /\ ring_buffer' = [ring_buffer EXCEPT ![0] = content]
     ELSE /\ ring_buffer' = [ring_buffer EXCEPT ![IndexOf(n)] = content]
          /\ UNCHANGED <<begin_index, first_scanline>>

NextIndex == (begin_index + 1) % num_entries

\* A line that is left out of the ring buffer has got all its parts.
Emitted(n) == ~use_upsampling /\ 0 <= n /\ n < output_h

\* One turn of the loops that get rid of what lies before a line.
Drop ==
  /\ out' = IF Emitted(first_scanline)
            THEN [out EXCEPT ![first_scanline] = Append(@, ring_buffer[begin_index])]
            ELSE out
  /\ IF first_scanline = last_scanline
     THEN begin_index' = -1 /\ first_scanline' = 0 /\ last_scanline' = 0
     ELSE /\ first_scanline' = first_scanline + 1
          /\ begin_index' = NextIndex
          /\ UNCHANGED last_scanline
  /\ UNCHANGED <<request, y, range, ring_buffer>>

Needed(n) == begin_index < 0 \/ n <= first_scanline

-----------------------------------------------------------------------------
(* The loops over y.                                                       *)

EndOfLoop == IF use_upsampling THEN output_h ELSE input_h + pixel_margin

SampleRange ==
  /\ phase = "range" /\ y < EndOfLoop
  /\ first_pixel' \in FirstPixel(y) /\ last_pixel' \in LastPixel(y)
  /\ IF ~use_upsampling /\ (last_pixel' < 0 \/ first_pixel' >= output_h)
     THEN y' = y + 1 /\ UNCHANGED phase
     ELSE phase' = "drop" /\ UNCHANGED y
  /\ UNCHANGED <<request, ring, out>>

DropUnneeded ==
  /\ phase = "drop" /\ ~Needed(first_pixel)
  /\ Drop /\ UNCHANGED phase

\* edge_vertical is STBIR_EDGE_CLAMP.
edge_wrap(n) == IF n < 0 THEN 0 ELSE IF n >= input_h THEN input_h - 1 ELSE n

\* An upsampled entry is a line of the source, a downsampled one gathers parts.
Load ==
  /\ phase = "drop" /\ Needed(first_pixel)
  /\ LET n == IF begin_index < 0 THEN first_pixel ELSE last_scanline + 1
     IN  IF begin_index < 0 \/ last_pixel > last_scanline
         THEN /\ AddEntry(n, IF use_upsampling THEN {edge_wrap(n)} ELSE {})
              /\ UNCHANGED phase
         ELSE phase' = "resample" /\ UNCHANGED ring
  /\ UNCHANGED <<request, y, range, out>>

\* The contributors of y after those that weigh nothing were skipped.
Contributors == { k \in first_pixel..last_pixel : Weighs(y, k) }

ResampleUpsample ==
  /\ phase = "resample" /\ use_upsampling
  /\ out' = [out EXCEPT ![y] = Append(@, [k \in Contributors |-> ring_buffer[IndexOf(k)]])]
  /\ y' = y + 1 /\ phase' = "range"
  /\ UNCHANGED <<request, range, ring>>

\* Cut to the picture in the normalisation.
Inside == { k \in Contributors : 0 <= k /\ k < output_h }

ResampleDownsample ==
  /\ phase = "resample" /\ ~use_upsampling
  /\ LET entries == { IndexOf(k) : k \in Inside }
     IN  ring_buffer' = [i \in DOMAIN ring_buffer |->
           IF i \in entries THEN ring_buffer[i] \union {y} ELSE ring_buffer[i]]
  /\ y' = y + 1 /\ phase' = "range"
  /\ UNCHANGED <<request, range, begin_index, first_scanline, last_scanline, out>>

\* What is left in the ring buffer after the last line is kept back.
MutRest == 0
Rest == output_h

Flush ==
  /\ phase = "range" /\ y >= EndOfLoop
  /\ IF use_upsampling \/ Needed(Rest)
     THEN phase' = "done" /\ UNCHANGED <<request, y, range, ring, out>>
     ELSE Drop /\ UNCHANGED phase

RingNext ==
  SampleRange \/ DropUnneeded \/ Load \/ ResampleUpsample \/ ResampleDownsample \/ Flush

RingSpec == RingInit /\ [][RingNext]_ring_vars

-----------------------------------------------------------------------------
(* Properties.                                                             *)

\* The entries there are suffice: neither does the range of a line exceed them
\* (STBIR_ASSERT of both loops), nor is the first one taken for a new last one
\* (STBIR_ASSERT of stbir__add_empty_ring_buffer_entry), nor is one used that is
\* behind the end of the buffer.
RingHasRoom ==
  /\ phase # "range" => last_pixel - first_pixel + 1 <= num_entries
  /\ begin_index >= 0 =>
       last_scanline - first_scanline \in 0..(num_entries - 1) /\ begin_index < num_entries

\* All lines of the source, clamped to it, that a line of the result is made
\* of, were there no limit on how far the code looks.
Parts(k) == { n \in -(2 * support)..(2 * support) : Weighs(n, k) }
Whole(k) ==
  IF use_upsampling
  THEN [n \in { j \in -(2 * support)..(2 * support) : Weighs(k, j) } |-> {edge_wrap(n)}]
  ELSE Parts(k)

\* A line of the result is written once, when all its parts are in it: none
\* comes later, none was overwritten in the ring buffer, and the loop began
\* and ended far enough outside the source.
LinesAreWhole ==
  \A k \in DOMAIN out :
    out[k] # <<>> \/ phase = "done" => out[k] = << Whole(k) >>

\* The decode buffer is as much longer than a line, on both sides, as what is
\* read of it in the horizontal pass, which has the same ranges
\* (STBIR_ASSERTs of stbir__resample_horizontal_upsample).
InMargin ==
  phase # "range" /\ use_upsampling =>
    first_pixel >= -pixel_margin /\ last_pixel < input_h + pixel_margin
=============================================================================

------------------------- MODULE MCJpegMainController -------------------------
(* JpegMainController for TLC. *)
EXTENDS JpegMainController

\* 4:2:0, where luminance has twice the rows of the others, with and without
\* smooth upsampling; the least number of row groups it works with, and three of
\* four and two rows, where every part of the pointer lists overlaps; and no
\* upsampling of rows.  Each to several rows of MCUs and every part of one.
MCFrames ==
  { [M |-> 8, v_samp |-> <<2, 1>>, context |-> c, heights |-> 1..66] : c \in BOOLEAN }
    \union { [M |-> 3, v_samp |-> <<4, 2>>, context |-> TRUE, heights |-> 1..40],
             [M |-> 2, v_samp |-> <<2, 1>>, context |-> TRUE, heights |-> 1..20],
             [M |-> 8, v_samp |-> <<1, 1>>, context |-> FALSE, heights |-> 1..25] }
=============================================================================

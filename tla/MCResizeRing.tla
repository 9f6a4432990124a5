---------------------------- MODULE MCResizeRing ----------------------------
(* Sizes for ResizeRing. *)
EXTENDS ResizeRing

\* From and to every size up to 9, which has ties and periods of many kinds,
\* and some resizings of greater ratio.
AllSizes == ((1..9) \X (1..9)) \union {<<1, 20>>, <<3, 28>>, <<16, 3>>, <<17, 2>>, <<13, 12>>}
=============================================================================

----------------------------- MODULE MCJpegReader -----------------------------
(***************************************************************************)
(* Files for JpegReader: proper ones of each kind, all that come from      *)
(* cutting one off, and all that have one piece left out, doubled or       *)
(* replaced by a bad one; and files with restart markers that lost         *)
(* segments.                                                               *)
(***************************************************************************)
EXTENDS JpegReader, SequencesExt

Baseline == <<"SOI", "tables", "SOF", "SOS", "data", "data", "EOI">>
Parts    == <<"SOI", "SOF", "tables", "SOSpart", "data", "data", "SOSpart", "data",
              "data", "tables", "SOSpart", "data", "data", "EOI">>
Progress == <<"SOI", "tables", "SOFprog", "SOS", "data", "data", "SOSpart", "DRI1",
              "data", "RST0", "data", "EOI">>
Cmyk     == <<"SOI", "tables", "SOFcmyk", "SOS", "data", "junk", "data", "EOI", "data">>
TwoScans == <<"SOI", "tables", "SOF", "SOS", "data", "data", "SOS", "data", "EOI">>
Grey     == <<"SOI", "tables", "SOFgrey", "SOS", "data", "data", "EOI">>

Cut(f) == { SubSeq(f, 1, k) : k \in 0..Len(f) }
Spoilt(f) ==
  UNION { { SubSeq(f, 1, k - 1) \o SubSeq(f, k + 1, Len(f)),
            SubSeq(f, 1, k) \o SubSeq(f, k, Len(f)),
            SubSeq(f, 1, k - 1) \o <<"bad">> \o SubSeq(f, k + 1, Len(f)),
            SubSeq(f, 1, k - 1) \o <<"reserved">> \o SubSeq(f, k + 1, Len(f)) } : k \in DOMAIN f }
Variants(f) == Cut(f) \union Spoilt(f)

\* A file with n restart markers, an interval apart, without the segments of some.
Restarting(interval, n, lost) ==
  LET data == [ j \in 1..interval |-> "data" ]
  IN  <<"SOI", "tables", "SOF", IF interval = 1 THEN "DRI1" ELSE "DRI2", "SOS">> \o data
        \o FlattenSeq([ s \in 1..n |-> IF s \in lost THEN <<>> ELSE <<Rst(s - 1)>> \o data ])
        \o <<"EOI">>
\* Not more than two in a row are lost.
Losses(n) == { lost \in SUBSET (1..n) : \A s \in lost : ~ {s + 1, s + 2} \subseteq lost }

MCFiles ==
  UNION { Variants(f) : f \in {Baseline, Parts, Progress, Cmyk, TwoScans, Grey,
                               Restarting(1, 9, {}), Restarting(2, 4, {3})} }
    \union { Restarting(1, 9, lost) : lost \in Losses(9) }
    \union { Restarting(2, 4, lost) : lost \in Losses(4) }

\* Two rows of MCUs, the second one not full; lines that wait for the next row
\* of MCUs among them.  Ten, for more than eight restart markers.
MCShapes == { [height |-> 3, iMCU |-> 2, group |-> 1, context |-> FALSE],
              [height |-> 7, iMCU |-> 4, group |-> 2, context |-> TRUE],
              [height |-> 19, iMCU |-> 2, group |-> 1, context |-> FALSE] }
=============================================================================

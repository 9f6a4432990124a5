------------------------------- MODULE MCHdrRle -------------------------------
(***************************************************************************)
(* Pictures and files for HdrRle.  With Top = 4 a run ends at 3 and a dump *)
(* at 4, so that each has to be continued within a scanline of ten.        *)
(***************************************************************************)
EXTENDS HdrRle, SequencesExt

Two == {0, 2}

Inverted(s) == [n \in DOMAIN s |-> 2 - s[n]]
\* One channel is free, the others follow from it.
Scanline(s) == [k \in Channels |-> CASE k = 0 -> s
                                     [] k = 1 -> Reverse(s)
                                     [] k = 2 -> Inverted(s)
                                     [] k = 3 -> Inverted(Reverse(s))]

OfWidth(w) == [1..w -> Two]
Seconds == { t \in OfWidth(6) : t[1] = t[3] /\ t[2] = 0 /\ t[6] = 0 }
MCPictures ==
  { <<Scanline(s)>> : s \in UNION { OfWidth(w) : w \in {1, 5, 6, 7, 10} } }
    \union { <<Scanline(s), Scanline(Reverse(t))>> : s \in OfWidth(6), t \in Seconds }
    \union { <<Scanline(s), Scanline(s)>> : s \in OfWidth(5) }

\* Any bytes after a header, of one scanline with the least width.
OtherFiles ==
  { [width |-> 6, height |-> 1, bytes |-> <<2, 2, 0, 6>> \o b] :
      b \in UNION { [1..n -> 1..7] : n \in 0..5 } }
    \union { [width |-> 6, height |-> 2, bytes |-> h \o [n \in 1..44 |-> 2]] :
               h \in [1..4 -> {0, 2, 6}] }
NoPictures == {}

\* Files that end early.
CutFiles ==
  { [width |-> 6, height |-> 1,
     bytes |-> SubSeq(<<2, 2, 0, 6, 4, 0, 2, 0, 2, 2, 0, 2, 6, 0, 6, 2>>, 1, n)] : n \in 0..16 }
=============================================================================

----------------------------- MODULE MCKraffiti -----------------------------
(* Kraffiti for TLC. *)
EXTENDS Kraffiti

\* A square, one wide and one high rectangle that differ in more than the
\* order of their sides, and a sliver.
MCSourceSizes == {<<2, 2>>, <<3, 2>>, <<2, 5>>, <<33, 1>>}

\* One size, both, neither; 0; the aspect of a source and others.
MCRequests == {<<-1, -1>>, <<4, -1>>, <<-1, 3>>, <<6, 4>>, <<2, 2>>, <<0, 3>>}

\* Nothing, growing with a half left over, shrinking to less than a pixel, a
\* negative number.
MCScales == {<<1, 1>>, <<3, 2>>, <<1, 4>>, <<-1, 1>>}

MCGarbage == {<<0, 0>>, <<3, 1>>, <<1, 3>>}

\* small only where it matters, donothing alone.
Passes == {"background", "keepaspect", "poweroftwo", "transparent", "prealpha"}
MCFlags ==
  (SUBSET Passes)
    \union {{"small"}, {"small", "keepaspect"}, {"nearest"}, {"nearest", "keepaspect"},
            {"donothing"}}
=============================================================================

------------------------------- MODULE MCLz4x -------------------------------
(***************************************************************************)
(* A small instance of Lz4x, of its refinement and of the round trip.  The *)
(* format's own numbers stay as they are, so a match needs twelve bytes    *)
(* after its start: an input is a free prefix and a tail that lets it      *)
(* matter.  A block of 288 bytes is long enough for counts past 255.       *)
(***************************************************************************)
EXTENDS Lz4xFormat, Lz4xRefinement

\* Different words share a hash, so the chains hold false candidates.
MCHash(w) == (w[1] + w[2] + 2 * w[3] + w[4]) % HASH_SIZE

Repeat(b, k) == [i \in 1..k |-> b]
Cycle(k, len) == [i \in 1..len |-> i % k]
Bits(k) == { v \in [1..k -> {0, 1}] : v[1] = 0 }

\* One block: every prefix of eight bits, repeated in part, then zeros or a
\* mixture, so that matches of every short distance compete.
WindowInputs ==
  { u \o SubSeq(u, 1, 6) \o t :
      u \in Bits(8),
      t \in { Repeat(0, 12), <<0, 1, 0, 1, 0, 1, 1, 0, 0, 1, 0, 1>> } }

\* Two blocks and a part of a third: a block starts with what those before it
\* left in tail, and a boundary cuts a repetition in two.
BlockInputs ==
  { Cycle(9, 244) \o Repeat(1, 12) \o u \o Repeat(0, 9) \o u \o v \o u
      \o Repeat(0, 12) \o Cycle(9, 228) \o Repeat(0, 12) \o v \o u
      \o Repeat(1, 5) \o u \o u \o v \o Cycle(2, 10) \o u :
      u \in Bits(5), v \in { <<0, 1, 1, 0>>, <<0, 0, 1, 0>> } }

\* No input, inputs too short to hold a match, and some that are searched.
ShortInputs ==
  UNION { [1..k -> {0, 1}] : k \in 0..6 } \union { Cycle(3, k) : k \in 7..25 }

\* Counts past 15 and past 255: literals only (a cycle longer than the
\* window never matches), one long match, and both in one code; two full
\* blocks and a part of a third that hold literals only.
LongInputs ==
  { Cycle(9, k) : k \in {15, 19, 30, 269, 270, 288, 576, 600} } \union
  { Repeat(0, k) : k \in {18, 24, 25, 40, 279, 280} } \union
  { Cycle(9, k) \o Repeat(0, 290) : k \in {14, 15, 16, 275} }

MCInputs == WindowInputs \union BlockInputs \union ShortInputs \union LongInputs
=============================================================================

-------------------------------- MODULE Lz77 --------------------------------
(***************************************************************************)
(* What a compressor of the LZ4 kind promises, whatever way it searches    *)
(* for matches: it writes codes, in blocks, and a decoder that carries out *)
(* each code as it comes has, after every one of them, a prefix of the     *)
(* source, and all of it at the end.                                       *)
(*                                                                         *)
(* What a code means is what decompress does with it (Libraries/lz4x):     *)
(* append its literals, then len bytes, each a copy of the one dist before *)
(* it, which the copy itself may have just produced.                       *)
(***************************************************************************)
EXTENDS Integers, Sequences

CONSTANTS
  Inputs,  \* the possible sources, sequences of bytes
  Reach    \* a distance is below Reach

VARIABLES
  source,   \* what is to be encoded
  plain,    \* what the decoder has after the codes written so far
  base,     \* how much of it is from earlier blocks
  codes,    \* the codes of the current block
  blocks,   \* the finished blocks
  finished  \* nothing more is to come

vars == <<source, plain, base, codes, blocks, finished>>

Init ==
  /\ source \in Inputs
  /\ plain = <<>> /\ base = 0 /\ codes = <<>> /\ blocks = <<>>
  /\ finished = FALSE

(* after is what the decoder has once it has carried out c with before in  *)
(* hand.  A copy reaches back no further than the start of its block.      *)
Decodes(before, c, after) ==
  LET start == Len(before) + Len(c.lits)
  IN /\ Len(after) = start + c.len
     /\ SubSeq(after, 1, start) = before \o c.lits
     /\ c.len > 0 => c.dist \in 1..(Reach - 1) /\ start - c.dist >= base
     /\ \A i \in (start + 1)..Len(after) : after[i] = after[i - c.dist]

StartBlock ==
  /\ ~finished /\ base' = Len(plain) /\ codes' = <<>>
  /\ UNCHANGED <<source, plain, blocks, finished>>

\* The copy ends at k and the literals at m, both counted in the source.
WriteCode ==
  /\ ~finished /\ codes' # codes
  /\ \E k \in {Len(plain')} : plain' = SubSeq(source, 1, k) /\
       \E m \in Len(plain)..k, d \in 0..(Reach - 1) :
         LET c == [lits |-> SubSeq(source, Len(plain) + 1, m), dist |-> d, len |-> k - m]
         IN codes' = Append(codes, c) /\ Decodes(plain, c, plain')
  /\ UNCHANGED <<source, base, blocks, finished>>

\* The decoder looks for the end of a block after literals only.
EndBlock ==
  /\ ~finished
  /\ codes # <<>> /\ codes[Len(codes)].len = 0
  /\ blocks' = Append(blocks, codes)
  /\ UNCHANGED <<source, plain, base, codes, finished>>

Finish ==
  /\ ~finished /\ finished' = TRUE
  /\ plain = source
  /\ UNCHANGED <<source, plain, base, codes, blocks>>

Next == StartBlock \/ WriteCode \/ EndBlock \/ Finish

Spec == Init /\ [][Next]_vars
=============================================================================

----------------------------- MODULE OutputFile -----------------------------
(***************************************************************************)
(* A file that Icons.cpp writes through stdio: opened with "wb", written   *)
(* with fputc, fputs and libpng, moved in with fseek.                      *)
(*                                                                         *)
(* Of the bytes only two things are kept: the four-byte numbers that say   *)
(* where something is or how long it is (words), and the extents of the    *)
(* images (pieces).  Writing over a word or a piece, in whole or in part,  *)
(* destroys it.                                                            *)
(***************************************************************************)
EXTENDS Integers

CONSTANT PngSizes  \* the number of bytes png_image_write_to_stdio may write

\* None when it fails at once, fewer than a whole image when it fails half
\* way: its result is not looked at.  Files stay below 2^31 bytes, so that
\* static_cast<int>(ftell(file)) is what ftell returns.
ASSUME PngSizesAssumption == PngSizes \subseteq Nat

EmptyFile == [pos |-> 0, end |-> 0, words |-> {}, pieces |-> {}]

Beside(at, len, f, k) == at + len <= f.pos \/ at >= f.pos + k

Larger(a, b) == IF a > b THEN a ELSE b

\* k bytes that are neither a word nor a piece.
Put(f, k) ==
  [pos    |-> f.pos + k,
   end    |-> Larger(f.end, f.pos + k),
   words  |-> { w \in f.words : Beside(w.at, 4, f, k) },
   pieces |-> { x \in f.pieces : Beside(x.at, x.len, f, k) }]

\* order is "LE" or "BE".
PutWord(f, order, v) ==
  LET word == [at |-> f.pos, order |-> order, value |-> v]
      g    == Put(f, 4)
  IN [g EXCEPT !.words = @ \union {word}]

\* The bytes of image id.
PutPiece(f, id, k) ==
  LET g == Put(f, k) IN [g EXCEPT !.pieces = @ \union {[id |-> id, at |-> f.pos, len |-> k]}]

ftell(f) == f.pos

fseek(f, at) == [f EXCEPT !.pos = at]

\* What a reader of the file finds.
Says(f, at, order, v) == [at |-> at, order |-> order, value |-> v] \in f.words
=============================================================================

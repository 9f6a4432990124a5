--------------------------- MODULE Lz4xRefinement ---------------------------
(***************************************************************************)
(* compress keeps the promise of Lz77.  The decoder's output after a code  *)
(* is the part of the source that ends at pp; once the literals that end a *)
(* block are flushed it is all that has been read.                         *)
(***************************************************************************)
EXTENDS Lz4x

Covered == IF pc \in {"write", "read", "done"} THEN inputIndex ELSE blockStart + pp

Promise == INSTANCE Lz77 WITH
             Reach    <- WINDOW_SIZE,
             plain    <- SubSeq(source, 1, Covered),
             base     <- blockStart,
             blocks   <- output,
             finished <- (pc = "done")

(* Every code compress emits, decoded after those before it, yields the    *)
(* next part of the source; distances stay below WINDOW_SIZE, so they fit  *)
(* STORE_16, and inside the block; every block ends in literals; nothing   *)
(* is missing when compress returns.                                       *)
KeepsPromise == Promise!Spec
=============================================================================

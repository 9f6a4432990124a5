----------------------------- MODULE IconsProofs -----------------------------
(***************************************************************************)
(* Proofs about the files of Icons, for every number of bytes libpng may   *)
(* write into them.                                                        *)
(***************************************************************************)
EXTENDS Icons, TLAPS

IsFile(f) ==
  /\ f = [pos |-> f.pos, end |-> f.end, words |-> f.words, pieces |-> f.pieces]
  /\ f.pos \in Nat /\ f.end \in Nat

-----------------------------------------------------------------------------
(* What the writes to a file do, as facts to be cited.                     *)

LEMMA PutFacts ==
  ASSUME NEW f, NEW k \in Nat, IsFile(f)
  PROVE  /\ IsFile(Put(f, k))
         /\ Put(f, k).pos = f.pos + k
         /\ Put(f, k).end = Larger(f.end, f.pos + k)
         /\ Put(f, k).pieces \subseteq f.pieces
         /\ \A at, order, v : Says(f, at, order, v) /\ Beside(at, 4, f, k)
              => Says(Put(f, k), at, order, v)
         /\ \A x \in f.pieces : Beside(x.at, x.len, f, k) => x \in Put(f, k).pieces
<1>1. f.pos + k \in Nat /\ Larger(f.end, f.pos + k) \in Nat
  BY DEF IsFile, Larger
<1> QED
  BY <1>1 DEF Put, Says, IsFile

LEMMA ExceptFacts ==
  ASSUME NEW f, NEW x, IsFile(f)
  PROVE  /\ [f EXCEPT !.words = @ \union x] =
              [pos |-> f.pos, end |-> f.end, words |-> f.words \union x, pieces |-> f.pieces]
         /\ [f EXCEPT !.pieces = @ \union x] =
              [pos |-> f.pos, end |-> f.end, words |-> f.words, pieces |-> f.pieces \union x]
BY DEF IsFile

LEMMA PutWordFacts ==
  ASSUME NEW f, NEW order, NEW v, IsFile(f)
  PROVE  /\ IsFile(PutWord(f, order, v))
         /\ PutWord(f, order, v).pos = f.pos + 4
         /\ PutWord(f, order, v).end = Larger(f.end, f.pos + 4)
         /\ PutWord(f, order, v).pieces \subseteq f.pieces
         /\ Says(PutWord(f, order, v), f.pos, order, v)
         /\ \A at, o, w : Says(f, at, o, w) /\ Beside(at, 4, f, 4)
              => Says(PutWord(f, order, v), at, o, w)
         /\ \A x \in f.pieces : Beside(x.at, x.len, f, 4) => x \in PutWord(f, order, v).pieces
<1> DEFINE g == Put(f, 4)
<1> DEFINE word == [at |-> f.pos, order |-> order, value |-> v]
<1>1. 4 \in Nat
  OBVIOUS
<1>2. PutWord(f, order, v) = [g EXCEPT !.words = @ \union {word}]
  BY DEF PutWord
<1>3. IsFile(g)
  BY <1>1, PutFacts
<1>4. PutWord(f, order, v) =
        [pos |-> g.pos, end |-> g.end, words |-> g.words \union {word}, pieces |-> g.pieces]
  <2> HIDE DEF g, word
  <2> QED
    BY <1>2, <1>3, ExceptFacts
<1> HIDE DEF g
<1>5. IsFile(PutWord(f, order, v))
  BY <1>3, <1>4 DEF IsFile
<1> QED
  BY <1>1, <1>4, <1>5, PutFacts DEF Says, g

LEMMA PutPieceFacts ==
  ASSUME NEW f, NEW id, NEW k \in Nat, IsFile(f)
  PROVE  /\ IsFile(PutPiece(f, id, k))
         /\ PutPiece(f, id, k).pos = f.pos + k
         /\ PutPiece(f, id, k).end = Larger(f.end, f.pos + k)
         /\ PutPiece(f, id, k).pieces \subseteq
              f.pieces \union {[id |-> id, at |-> f.pos, len |-> k]}
         /\ [id |-> id, at |-> f.pos, len |-> k] \in PutPiece(f, id, k).pieces
         /\ \A at, o, w : Says(f, at, o, w) /\ Beside(at, 4, f, k)
              => Says(PutPiece(f, id, k), at, o, w)
         /\ \A x \in f.pieces : Beside(x.at, x.len, f, k) => x \in PutPiece(f, id, k).pieces
<1> DEFINE g == Put(f, k)
<1> DEFINE piece == [id |-> id, at |-> f.pos, len |-> k]
<1>1. PutPiece(f, id, k) = [g EXCEPT !.pieces = @ \union {piece}]
  BY DEF PutPiece
<1>2. IsFile(g)
  BY PutFacts
<1>3. PutPiece(f, id, k) =
        [pos |-> g.pos, end |-> g.end, words |-> g.words, pieces |-> g.pieces \union {piece}]
  <2> HIDE DEF g, piece
  <2> QED
    BY <1>1, <1>2, ExceptFacts
<1> HIDE DEF g
<1>4. IsFile(PutPiece(f, id, k))
  BY <1>2, <1>3 DEF IsFile
<1> QED
  BY <1>3, <1>4, PutFacts DEF Says, g

\* A word put in at a place before the end, over bytes that no image has.
LEMMA PatchFacts ==
  ASSUME NEW f, NEW at \in Nat, NEW order, NEW v, IsFile(f), at + 4 <= f.end
  PROVE  /\ IsFile(PutWord(fseek(f, at), order, v))
         /\ PutWord(fseek(f, at), order, v).end = f.end
         /\ PutWord(fseek(f, at), order, v).pieces \subseteq f.pieces
         /\ Says(PutWord(fseek(f, at), order, v), at, order, v)
         /\ \A b, o, w : Says(f, b, o, w) /\ (b + 4 <= at \/ b >= at + 4)
              => Says(PutWord(fseek(f, at), order, v), b, o, w)
         /\ \A x \in f.pieces : x.at + x.len <= at \/ x.at >= at + 4
              => x \in PutWord(fseek(f, at), order, v).pieces
<1> DEFINE g == fseek(f, at)
<1>1. /\ g.pos = at /\ g.end = f.end /\ g.words = f.words /\ g.pieces = f.pieces
      /\ IsFile(g)
  BY DEF fseek, IsFile
<1> HIDE DEF g
<1>2. Larger(g.end, g.pos + 4) = f.end
  BY <1>1 DEF Larger, IsFile
<1>3. \A b, k : Beside(b, k, g, 4) <=> (b + k <= at \/ b >= at + 4)
  BY <1>1 DEF Beside
<1>4. \A b, o, w : Says(g, b, o, w) <=> Says(f, b, o, w)
  BY <1>1 DEF Says
<1>5. /\ IsFile(PutWord(g, order, v))
      /\ PutWord(g, order, v).end = f.end
      /\ PutWord(g, order, v).pieces \subseteq f.pieces
      /\ Says(PutWord(g, order, v), at, order, v)
  BY <1>1, <1>2, PutWordFacts
<1>6. \A b, o, w : Says(g, b, o, w) /\ Beside(b, 4, g, 4) => Says(PutWord(g, order, v), b, o, w)
  BY <1>1, PutWordFacts
<1>7. \A x \in g.pieces : Beside(x.at, x.len, g, 4) => x \in PutWord(g, order, v).pieces
  BY <1>1, PutWordFacts
<1> QED
  BY <1>1, <1>3, <1>4, <1>5, <1>6, <1>7 DEF g

(* The same for what is added at the end, where nothing is written over.   *)

Ends(f, e) ==
  /\ IsFile(f) /\ f.pos = e /\ f.end = e
  /\ \A x \in f.pieces : x.at \in Nat /\ x.len \in Nat /\ x.at + x.len <= e

LEMMA AddFacts ==
  ASSUME NEW f, NEW e \in Nat, NEW k \in Nat, Ends(f, e)
  PROVE  /\ Ends(Put(f, k), e + k)
         /\ Put(f, k).pieces = f.pieces
         /\ \A b \in Nat : \A o, w : Says(f, b, o, w) /\ b + 4 <= e => Says(Put(f, k), b, o, w)
<1>1. Larger(f.end, f.pos + k) = e + k
  BY DEF Ends, Larger
<1>2. /\ \A x \in f.pieces : Beside(x.at, x.len, f, k)
      /\ \A b \in Nat : b + 4 <= e => Beside(b, 4, f, k)
  BY DEF Ends, Beside
<1>3. IsFile(f)
  BY DEF Ends
<1>4. \A b \in Nat : \A o, w : Says(f, b, o, w) /\ b + 4 <= e => Says(Put(f, k), b, o, w)
  BY <1>2, <1>3, PutFacts
<1>5. Put(f, k).pieces = f.pieces
  BY <1>2 DEF Put
<1> QED
  BY <1>1, <1>3, <1>4, <1>5, PutFacts DEF Ends

LEMMA AddWordFacts ==
  ASSUME NEW f, NEW e \in Nat, NEW order, NEW v, Ends(f, e)
  PROVE  /\ Ends(PutWord(f, order, v), e + 4)
         /\ PutWord(f, order, v).pieces = f.pieces
         /\ Says(PutWord(f, order, v), e, order, v)
         /\ \A b \in Nat : \A o, w : Says(f, b, o, w) /\ b + 4 <= e
              => Says(PutWord(f, order, v), b, o, w)
<1>1. Larger(f.end, f.pos + 4) = e + 4
  BY DEF Ends, Larger
<1>2. /\ \A x \in f.pieces : Beside(x.at, x.len, f, 4)
      /\ \A b \in Nat : b + 4 <= e => Beside(b, 4, f, 4)
  BY DEF Ends, Beside
<1>3. PutWord(f, order, v).pieces = f.pieces
  <2>1. IsFile(f)
    BY DEF Ends
  <2>2. /\ PutWord(f, order, v).pieces \subseteq f.pieces
        /\ \A x \in f.pieces : Beside(x.at, x.len, f, 4) => x \in PutWord(f, order, v).pieces
    BY <2>1, PutWordFacts
  <2> QED
    BY <1>2, <2>2
<1>4. \A b \in Nat : \A o, w : Says(f, b, o, w) /\ b + 4 <= e => Says(PutWord(f, order, v), b, o, w)
  <2>1. IsFile(f)
    BY DEF Ends
  <2>2. \A b, o, w : Says(f, b, o, w) /\ Beside(b, 4, f, 4) => Says(PutWord(f, order, v), b, o, w)
    BY <2>1, PutWordFacts
  <2> QED
    BY <1>2, <2>2
<1> QED
  BY <1>1, <1>3, <1>4, PutWordFacts DEF Ends

LEMMA AddPieceFacts ==
  ASSUME NEW f, NEW e \in Nat, NEW id, NEW k \in Nat, Ends(f, e)
  PROVE  /\ Ends(PutPiece(f, id, k), e + k)
         /\ PutPiece(f, id, k).pieces = f.pieces \union {[id |-> id, at |-> e, len |-> k]}
         /\ \A b \in Nat : \A o, w : Says(f, b, o, w) /\ b + 4 <= e
              => Says(PutPiece(f, id, k), b, o, w)
<1>1. Larger(f.end, f.pos + k) = e + k
  BY DEF Ends, Larger
<1>2. /\ \A x \in f.pieces : Beside(x.at, x.len, f, k)
      /\ \A b \in Nat : b + 4 <= e => Beside(b, 4, f, k)
  BY DEF Ends, Beside
<1> DEFINE piece == [id |-> id, at |-> e, len |-> k]
<1>3. PutPiece(f, id, k).pieces = f.pieces \union {piece}
  BY <1>2, PutPieceFacts DEF Ends
<1>4. \A x \in f.pieces \union {piece} : x.at \in Nat /\ x.len \in Nat /\ x.at + x.len <= e + k
  BY DEF Ends
<1>5. \A b \in Nat : \A o, w : Says(f, b, o, w) /\ b + 4 <= e => Says(PutPiece(f, id, k), b, o, w)
  <2>1. IsFile(f)
    BY DEF Ends
  <2>2. \A b, o, w : Says(f, b, o, w) /\ Beside(b, 4, f, k) => Says(PutPiece(f, id, k), b, o, w)
    BY <2>1, PutPieceFacts
  <2> QED
    BY <1>2, <2>2
<1> QED
  BY <1>1, <1>3, <1>4, <1>5, PutPieceFacts DEF Ends

-----------------------------------------------------------------------------
(* The .icns file.                                                         *)

Piece(id, at, len) == [id |-> id, at |-> at, len |-> len]

P08 == Piece("ic08", 16, icon08size - 8)
P09 == Piece("ic09", icon08size + 16, icon09size - 8)
P10 == Piece("ic10", icon08size + icon09size + 16, icon10size - 8)

\* A chunk has a header of eight bytes.
Chunk(size) == size \in Nat /\ size >= 8

Whole ==
  /\ IsFile(file) /\ Chunk(icon08size) /\ Chunk(icon09size) /\ Chunk(icon10size)
  /\ file.pieces = {P08, P09, P10}
  /\ file.end = icon08size + icon09size + icon10size + 8

\* What is known of the file where macIcon stands; once it is measured, with
\* the words put in so far.
IcnsInv ==
  /\ pc \in {"open", "crashed", "preamble"} => file = EmptyFile
  /\ pc = "png08" => Ends(file, 16) /\ file.pieces = {}
  /\ pc = "ic09" => \E k \in Nat :
       Ends(file, 16 + k) /\ file.pieces = {Piece("ic08", 16, k)}
  /\ pc = "png09" =>
       Chunk(icon08size) /\ Ends(file, icon08size + 16) /\ file.pieces = {P08}
  /\ pc = "ic10" => Chunk(icon08size) /\ \E k \in Nat :
       /\ Ends(file, icon08size + 16 + k)
       /\ file.pieces = {P08, Piece("ic09", icon08size + 16, k)}
  /\ pc = "png10" =>
       /\ Chunk(icon08size) /\ Chunk(icon09size)
       /\ Ends(file, icon08size + icon09size + 16) /\ file.pieces = {P08, P09}
  /\ pc = "measure" => Chunk(icon08size) /\ Chunk(icon09size) /\ \E k \in Nat :
       /\ Ends(file, icon08size + icon09size + 16 + k)
       /\ file.pieces = {P08, P09, Piece("ic10", icon08size + icon09size + 16, k)}
  /\ pc \in {"total", "patch08", "patch09", "patch10", "close", "closed"} => Whole
  /\ pc = "total" => file.pos = file.end
  /\ pc \in {"patch08", "patch09", "patch10", "close", "closed"} => Says(file, 4, "BE", file.end)
  /\ pc \in {"patch09", "patch10", "close", "closed"} => Says(file, 12, "BE", icon08size)
  /\ pc \in {"patch10", "close", "closed"} => Says(file, icon08size + 12, "BE", icon09size)
  /\ pc \in {"close", "closed"} =>
       Says(file, icon08size + icon09size + 12, "BE", icon10size)

(* Icns's instance of OutputFile is this one.                              *)
LEMMA IcnsFile ==
  /\ \A f, k : Icns!Put(f, k) = Put(f, k)
  /\ \A f, o, v : Icns!PutWord(f, o, v) = PutWord(f, o, v)
  /\ \A f, id, k : Icns!PutPiece(f, id, k) = PutPiece(f, id, k)
  /\ \A f, at : Icns!fseek(f, at) = fseek(f, at)
  /\ \A f : Icns!ftell(f) = f.pos
  /\ \A f, at, o, v : Icns!Says(f, at, o, v) <=> Says(f, at, o, v)
  /\ Icns!EmptyFile = EmptyFile
<1>1. \A f, k : Icns!Put(f, k) = Put(f, k)
  BY DEF Icns!Put, Put, Icns!Larger, Larger, Icns!Beside, Beside
<1>2. \A f, o, v : Icns!PutWord(f, o, v) = PutWord(f, o, v)
  BY <1>1 DEF Icns!PutWord, PutWord
<1>3. \A f, id, k : Icns!PutPiece(f, id, k) = PutPiece(f, id, k)
  BY <1>1 DEF Icns!PutPiece, PutPiece
<1>4. \A f, at : Icns!fseek(f, at) = fseek(f, at)
  BY DEF Icns!fseek, fseek
<1>5. \A f : Icns!ftell(f) = f.pos
  BY DEF Icns!ftell
<1>6. \A f, at, o, v : Icns!Says(f, at, o, v) <=> Says(f, at, o, v)
  BY DEF Icns!Says, Says
<1>7. Icns!EmptyFile = EmptyFile
  BY DEF Icns!EmptyFile, EmptyFile
<1> QED
  BY <1>1, <1>2, <1>3, <1>4, <1>5, <1>6, <1>7

LEMMA EmptyFacts == Ends(EmptyFile, 0) /\ EmptyFile.pieces = {}
BY DEF EmptyFile, Ends, IsFile

LEMMA AddChunkFacts ==
  ASSUME NEW f, NEW e \in Nat, Ends(f, e)
  PROVE  Ends(Icns!PutChunk(f), e + 8) /\ Icns!PutChunk(f).pieces = f.pieces
<1> DEFINE g == Put(f, 4)
           h == PutWord(g, "BE", Icns!Dashes)
<1>1. Ends(g, e + 4) /\ g.pieces = f.pieces
  BY AddFacts
<1>2. Icns!PutChunk(f) = h
  BY IcnsFile DEF Icns!PutChunk
<1> HIDE DEF g
<1>3. Ends(h, e + 4 + 4) /\ h.pieces = g.pieces
  BY <1>1, AddWordFacts
<1>4. e + 4 + 4 = e + 8
  OBVIOUS
<1> QED
  BY <1>1, <1>2, <1>3, <1>4

LEMMA IcnsPreamble ==
  ASSUME IcnsInv, Icns!Preamble
  PROVE  IcnsInv'
<1>1. Ends(file, 0) /\ file.pieces = {}
  BY EmptyFacts DEF IcnsInv, Icns!Preamble
<1>2. Ends(Icns!PutChunk(file), 8) /\ Icns!PutChunk(file).pieces = {}
  BY <1>1, AddChunkFacts
<1>3. Ends(Icns!PutChunk(Icns!PutChunk(file)), 16) /\ Icns!PutChunk(Icns!PutChunk(file)).pieces = {}
  BY <1>2, AddChunkFacts
<1>4. Ends(file', 16) /\ file'.pieces = {} /\ pc' = "png08"
  BY <1>3 DEF Icns!Preamble
<1> QED
  BY <1>4 DEF IcnsInv

LEMMA IcnsPNG08 ==
  ASSUME IcnsInv, Icns!PNG08
  PROVE  IcnsInv'
<1>1. Ends(file, 16) /\ file.pieces = {}
  BY DEF IcnsInv, Icns!PNG08, Icns!WritePNG
<1>2. PICK k \in PngSizes : file' = PutPiece(file, "ic08", k)
  BY IcnsFile DEF Icns!PNG08, Icns!WritePNG
<1>3. k \in Nat /\ pc' = "ic09"
  BY PngSizesAssumption DEF Icns!PNG08, Icns!WritePNG
<1>4. Ends(file', 16 + k) /\ file'.pieces = {Piece("ic08", 16, k)}
  BY <1>1, <1>2, <1>3, AddPieceFacts DEF Piece
<1> QED
  BY <1>3, <1>4 DEF IcnsInv

LEMMA IcnsChunk09 ==
  ASSUME IcnsInv, Icns!Chunk09
  PROVE  IcnsInv'
<1>1. PICK k \in Nat : Ends(file, 16 + k) /\ file.pieces = {Piece("ic08", 16, k)}
  BY DEF IcnsInv, Icns!Chunk09
<1>2. pc' = "png09" /\ icon08size' = 8 + k
  BY <1>1, IcnsFile DEF Icns!Chunk09, Icns!Measured08, Ends, IsFile
<1>3. Ends(file', 16 + k + 8) /\ file'.pieces = file.pieces
  <2>1. 16 + k \in Nat
    OBVIOUS
  <2> QED
    BY <1>1, <2>1, AddChunkFacts DEF Icns!Chunk09
<1>4. Ends(file', icon08size' + 16) /\ Chunk(icon08size')
  <2>1. icon08size' + 16 = 16 + k + 8 /\ Chunk(icon08size')
    BY <1>2 DEF Chunk
  <2> QED
    BY <1>3, <2>1
<1>5. P08' = Piece("ic08", 16, k)
  BY <1>2 DEF P08
<1> QED
  BY <1>1, <1>2, <1>3, <1>4, <1>5 DEF IcnsInv

LEMMA IcnsPNG09 ==
  ASSUME IcnsInv, Icns!PNG09
  PROVE  IcnsInv'
<1>1. Chunk(icon08size) /\ Ends(file, icon08size + 16) /\ file.pieces = {P08}
  BY DEF IcnsInv, Icns!PNG09, Icns!WritePNG
<1>2. PICK k \in PngSizes : file' = PutPiece(file, "ic09", k)
  BY IcnsFile DEF Icns!PNG09, Icns!WritePNG
<1>3. k \in Nat /\ pc' = "ic10" /\ icon08size' = icon08size
  BY PngSizesAssumption DEF Icns!PNG09, Icns!WritePNG, Icns!sizes
<1>4. icon08size + 16 \in Nat
  BY <1>1 DEF Chunk
<1>5. /\ Ends(file', icon08size + 16 + k)
      /\ file'.pieces = {P08, Piece("ic09", icon08size + 16, k)}
  BY <1>1, <1>2, <1>3, <1>4, AddPieceFacts DEF Piece
<1>6. P08' = P08
  BY <1>3 DEF P08
<1> QED
  BY <1>1, <1>3, <1>5, <1>6 DEF IcnsInv

LEMMA IcnsChunk10 ==
  ASSUME IcnsInv, Icns!Chunk10
  PROVE  IcnsInv'
<1>1. PICK k \in Nat :
        /\ Ends(file, icon08size + 16 + k)
        /\ file.pieces = {P08, Piece("ic09", icon08size + 16, k)}
  BY DEF IcnsInv, Icns!Chunk10
<1>2. Chunk(icon08size)
  BY DEF IcnsInv, Icns!Chunk10
<1>3. pc' = "png10" /\ icon08size' = icon08size
  BY DEF Icns!Chunk10
<1>4. icon09size' = k + 8
  <2>1. icon09size' = file.pos - icon08size - 8 /\ file.pos = icon08size + 16 + k
    BY <1>1, IcnsFile DEF Icns!Chunk10, Icns!Measured09, Ends
  <2> QED
    BY ONLY <2>1, <1>2, k \in Nat DEF Chunk
<1>5. Ends(file', icon08size + 16 + k + 8) /\ file'.pieces = file.pieces
  <2>1. icon08size + 16 + k \in Nat
    BY <1>2 DEF Chunk
  <2> QED
    BY <1>1, <2>1, AddChunkFacts DEF Icns!Chunk10
<1>6. /\ Chunk(icon08size') /\ Chunk(icon09size')
      /\ Ends(file', icon08size' + icon09size' + 16)
  <2>1. icon08size + 16 + k + 8 = icon08size' + icon09size' + 16
    BY <1>2, <1>3, <1>4 DEF Chunk
  <2> QED
    BY <1>2, <1>3, <1>4, <1>5, <2>1 DEF Chunk
<1>7. P08' = P08 /\ P09' = Piece("ic09", icon08size + 16, k)
  BY <1>3, <1>4 DEF P08, P09
<1> QED
  BY <1>1, <1>3, <1>5, <1>6, <1>7 DEF IcnsInv

LEMMA IcnsPNG10 ==
  ASSUME IcnsInv, Icns!PNG10
  PROVE  IcnsInv'
<1>1. /\ Chunk(icon08size) /\ Chunk(icon09size)
      /\ Ends(file, icon08size + icon09size + 16) /\ file.pieces = {P08, P09}
  BY DEF IcnsInv, Icns!PNG10, Icns!WritePNG
<1>2. PICK k \in PngSizes : file' = PutPiece(file, "ic10", k)
  BY IcnsFile DEF Icns!PNG10, Icns!WritePNG
<1>3. /\ k \in Nat /\ pc' = "measure"
      /\ icon08size' = icon08size /\ icon09size' = icon09size
  BY PngSizesAssumption DEF Icns!PNG10, Icns!WritePNG, Icns!sizes
<1>4. icon08size + icon09size + 16 \in Nat
  BY <1>1 DEF Chunk
<1>5. /\ Ends(file', icon08size + icon09size + 16 + k)
      /\ file'.pieces = {P08, P09, Piece("ic10", icon08size + icon09size + 16, k)}
  BY <1>1, <1>2, <1>3, <1>4, AddPieceFacts DEF Piece
<1>6. P08' = P08 /\ P09' = P09
  BY <1>3 DEF P08, P09
<1> QED
  BY <1>1, <1>3, <1>5, <1>6 DEF IcnsInv

LEMMA IcnsMeasure10 ==
  ASSUME IcnsInv, Icns!Measure10
  PROVE  IcnsInv'
<1>1. PICK k \in Nat :
        /\ Ends(file, icon08size + icon09size + 16 + k)
        /\ file.pieces = {P08, P09, Piece("ic10", icon08size + icon09size + 16, k)}
  BY DEF IcnsInv, Icns!Measure10
<1>2. Chunk(icon08size) /\ Chunk(icon09size)
  BY DEF IcnsInv, Icns!Measure10
<1>3. pc' = "total" /\ icon08size' = icon08size /\ icon09size' = icon09size /\ file' = file
  BY DEF Icns!Measure10
<1>4. icon10size' = k + 8 /\ Chunk(icon10size')
  <2>1. /\ icon10size' = file.pos - icon09size - icon08size - 8
        /\ file.pos = icon08size + icon09size + 16 + k
    BY <1>1, IcnsFile DEF Icns!Measure10, Icns!Measured10, Ends
  <2> QED
    BY ONLY <2>1, <1>2, k \in Nat DEF Chunk
<1>5. file.pos = file.end /\ IsFile(file) /\ file.end = icon08size + icon09size + icon10size' + 8
  <2>1. icon08size + icon09size + 16 + k = icon08size + icon09size + icon10size' + 8
    BY <1>2, <1>4 DEF Chunk
  <2> QED
    BY <1>1, <2>1 DEF Ends
<1>6. P08' = P08 /\ P09' = P09 /\ P10' = Piece("ic10", icon08size + icon09size + 16, k)
  BY <1>3, <1>4 DEF P08, P09, P10
<1>7. Whole'
  BY <1>1, <1>2, <1>3, <1>4, <1>5, <1>6 DEF Whole
<1> QED
  BY <1>3, <1>5, <1>7 DEF IcnsInv

\* A length put in where no image is.
LEMMA WholePatched ==
  ASSUME Whole, NEW at \in Nat, NEW v,
         file' = Icns!PatchWord(file, at, v),
         UNCHANGED <<icon08size, icon09size, icon10size>>,
         \/ at + 4 <= 16
         \/ at = icon08size + 12
         \/ at = icon08size + icon09size + 12
  PROVE  /\ Whole' /\ file'.end = file.end
         /\ Says(file', at, "BE", v)
         /\ \A b, o, w : Says(file, b, o, w) /\ (b + 4 <= at \/ b >= at + 4)
              => Says(file', b, o, w)
         /\ file.pieces \subseteq file'.pieces
<1> DEFINE g == PutWord(fseek(file, at), "BE", v)
<1>1. file' = g
  BY IcnsFile DEF Icns!PatchWord
<1>2. IsFile(file) /\ at + 4 <= file.end
  BY DEF Whole, Chunk
<1>3. \A x \in file.pieces : x.at + x.len <= at \/ x.at >= at + 4
  BY DEF Whole, Chunk, P08, P09, P10, Piece
<1>4. /\ IsFile(g) /\ g.end = file.end /\ g.pieces \subseteq file.pieces
      /\ Says(g, at, "BE", v)
      /\ \A b, o, w : Says(file, b, o, w) /\ (b + 4 <= at \/ b >= at + 4) => Says(g, b, o, w)
      /\ \A x \in file.pieces : x.at + x.len <= at \/ x.at >= at + 4 => x \in g.pieces
  BY <1>2, PatchFacts
<1> HIDE DEF g
<1>5. g.pieces = file.pieces
  BY <1>3, <1>4
<1>6. P08' = P08 /\ P09' = P09 /\ P10' = P10
  BY DEF P08, P09, P10
<1>7. Whole'
  BY <1>1, <1>4, <1>5, <1>6 DEF Whole
<1> QED
  BY <1>1, <1>4, <1>5, <1>7

LEMMA IcnsPatchTotal ==
  ASSUME IcnsInv, Icns!PatchTotal
  PROVE  IcnsInv' /\ file.pieces \subseteq file'.pieces
<1>1. Whole /\ file.pos = file.end
  BY DEF IcnsInv, Icns!PatchTotal
<1>2. /\ pc' = "patch08" /\ file' = Icns!PatchWord(file, 4, file.end)
      /\ UNCHANGED <<icon08size, icon09size, icon10size>>
  BY <1>1, IcnsFile DEF Icns!PatchTotal, Icns!sizes
<1> DEFINE end == file.end
<1>3. /\ Whole' /\ file'.end = end /\ Says(file', 4, "BE", end)
      /\ file.pieces \subseteq file'.pieces
  <2>1. 4 \in Nat /\ 4 + 4 <= 16
    OBVIOUS
  <2> HIDE DEF end
  <2> QED
    BY <1>1, <1>2, <2>1, WholePatched DEF end
<1> QED
  BY <1>2, <1>3 DEF IcnsInv

LEMMA IcnsPatch08 ==
  ASSUME IcnsInv, Icns!Patch08
  PROVE  IcnsInv' /\ file.pieces \subseteq file'.pieces
<1>1. Whole /\ Says(file, 4, "BE", file.end)
  BY DEF IcnsInv, Icns!Patch08
<1>2. /\ pc' = "patch09" /\ file' = Icns!PatchWord(file, 12, icon08size)
      /\ UNCHANGED <<icon08size, icon09size, icon10size>>
  BY DEF Icns!Patch08, Icns!sizes, Icns!Patch08At
<1>3. /\ Whole' /\ file'.end = file.end /\ Says(file', 12, "BE", icon08size)
      /\ file.pieces \subseteq file'.pieces
      /\ \A b, o, w : Says(file, b, o, w) /\ (b + 4 <= 12 \/ b >= 16) => Says(file', b, o, w)
  BY <1>1, <1>2, WholePatched
<1>4. Says(file', 4, "BE", file'.end)
  BY <1>1, <1>3
<1> QED
  BY <1>2, <1>3, <1>4 DEF IcnsInv

LEMMA IcnsPatch09 ==
  ASSUME IcnsInv, Icns!Patch09
  PROVE  IcnsInv' /\ file.pieces \subseteq file'.pieces
<1>1. Whole /\ Says(file, 4, "BE", file.end) /\ Says(file, 12, "BE", icon08size)
  BY DEF IcnsInv, Icns!Patch09
<1> DEFINE at == icon08size + 12
<1>2. at \in Nat /\ at >= 16
  BY <1>1 DEF Whole, Chunk
<1>3. /\ pc' = "patch10" /\ file' = Icns!PatchWord(file, at, icon09size)
      /\ UNCHANGED <<icon08size, icon09size, icon10size>>
  <2>1. icon08size + 8 + 4 = at
    BY <1>1 DEF Whole, Chunk
  <2> QED
    BY <2>1 DEF Icns!Patch09, Icns!sizes, Icns!Patch09At
<1>4. /\ Whole' /\ file'.end = file.end /\ Says(file', at, "BE", icon09size)
      /\ file.pieces \subseteq file'.pieces
      /\ \A b, o, w : Says(file, b, o, w) /\ (b + 4 <= at \/ b >= at + 4) => Says(file', b, o, w)
  BY <1>1, <1>2, <1>3, WholePatched
<1>5. Says(file', 4, "BE", file'.end) /\ Says(file', 12, "BE", icon08size)
  <2>1. 4 + 4 <= at /\ 12 + 4 <= at
    BY <1>2
  <2> HIDE DEF at
  <2> QED
    BY <1>1, <1>4, <2>1
<1> QED
  BY <1>3, <1>4, <1>5 DEF IcnsInv

LEMMA IcnsPatch10 ==
  ASSUME IcnsInv, Icns!Patch10
  PROVE  IcnsInv' /\ file.pieces \subseteq file'.pieces
<1>1. /\ Whole /\ Says(file, 4, "BE", file.end) /\ Says(file, 12, "BE", icon08size)
      /\ Says(file, icon08size + 12, "BE", icon09size)
  BY DEF IcnsInv, Icns!Patch10
<1> DEFINE at == icon08size + icon09size + 12
           second == icon08size + 12
<1>2. at \in Nat /\ second \in Nat /\ second >= 16 /\ second + 4 <= at
  BY <1>1 DEF Whole, Chunk
<1>3. /\ pc' = "close" /\ file' = Icns!PatchWord(file, at, icon10size)
      /\ UNCHANGED <<icon08size, icon09size, icon10size>>
  <2>1. icon08size + icon09size + 8 + 4 = at
    BY <1>1 DEF Whole, Chunk
  <2> QED
    BY <2>1 DEF Icns!Patch10, Icns!sizes, Icns!Patch10At
<1>4. /\ Whole' /\ file'.end = file.end /\ Says(file', at, "BE", icon10size)
      /\ file.pieces \subseteq file'.pieces
      /\ \A b, o, w : Says(file, b, o, w) /\ (b + 4 <= at \/ b >= at + 4) => Says(file', b, o, w)
  BY <1>1, <1>2, <1>3, WholePatched
<1>5. /\ Says(file', 4, "BE", file'.end) /\ Says(file', 12, "BE", icon08size)
      /\ Says(file', second, "BE", icon09size)
  <2>1. 4 + 4 <= at /\ 12 + 4 <= at /\ Says(file, second, "BE", icon09size)
    BY <1>1, <1>2
  <2> HIDE DEF at, second
  <2> QED
    BY <1>1, <1>2, <1>4, <2>1
<1> QED
  BY <1>3, <1>4, <1>5 DEF IcnsInv

LEMMA IcnsStep ==
  ASSUME IcnsInv, Icns!Next
  PROVE  IcnsInv'
<1>1. ASSUME Icns!Open PROVE IcnsInv'
  BY <1>1 DEF IcnsInv, Icns!Open, Icns!sizes
<1>2. ASSUME Icns!OpenFails PROVE IcnsInv'
  BY <1>2 DEF IcnsInv, Icns!OpenFails, Icns!sizes
<1>3. ASSUME Icns!Close PROVE IcnsInv'
  <2>1. P08' = P08 /\ P09' = P09 /\ P10' = P10
    BY <1>3 DEF Icns!Close, Icns!sizes, P08, P09, P10
  <2>2. Whole' = Whole
    BY <1>3, <2>1 DEF Icns!Close, Icns!sizes, Whole
  <2> QED
    BY <1>3, <2>2 DEF IcnsInv, Icns!Close, Icns!sizes
<1> QED
  BY <1>1, <1>2, <1>3, IcnsPreamble, IcnsPNG08, IcnsChunk09, IcnsPNG09, IcnsChunk10,
     IcnsPNG10, IcnsMeasure10, IcnsPatchTotal, IcnsPatch08, IcnsPatch09, IcnsPatch10
     DEF Icns!Next

LEMMA IcnsHolds == Spec => [](format = "icns" => IcnsInv)
<1> DEFINE Inv == format = "icns" => IcnsInv
<1>1. Init => Inv
  BY IcnsFile DEF Init, Icns!Init, IcnsInv
<1>2. Inv /\ [Next]_vars => Inv'
  <2> SUFFICES ASSUME Inv, [Next]_vars, format' = "icns" PROVE IcnsInv'
    OBVIOUS
  <2>1. CASE WriteIcns
    BY <2>1, IcnsStep DEF WriteIcns
  <2>2. CASE UNCHANGED vars
    <3>1. P08' = P08 /\ P09' = P09 /\ P10' = P10
      BY <2>2 DEF vars, icns, P08, P09, P10
    <3>2. Whole' = Whole
      BY <2>2, <3>1 DEF vars, icns, Whole
    <3>3. format' = format
      BY <2>2 DEF vars
    <3> QED
      BY <2>2, <3>1, <3>2, <3>3 DEF IcnsInv, vars, icns
  <2> QED
    BY <2>1, <2>2 DEF Next, WriteIco, WriteBmp
<1> QED
  BY <1>1, <1>2, PTL DEF Spec

(* In every finished .icns file, however many bytes libpng wrote for each  *)
(* image, the lengths that macIcon patched in lead a reader from chunk to  *)
(* chunk and to the end.                                                   *)
THEOREM ChunksAlwaysTileTheFile == Spec => []ChunksTileTheFile
<1>1. (format = "icns" => IcnsInv) => ChunksTileTheFile
  <2> SUFFICES ASSUME IcnsInv, pc = "closed" PROVE Icns!ChunksTileTheFile
    BY DEF ChunksTileTheFile, Icns!ChunksTileTheFile
  <2>1. /\ Whole /\ Says(file, 4, "BE", file.end) /\ Says(file, 12, "BE", icon08size)
        /\ Says(file, icon08size + 12, "BE", icon09size)
        /\ Says(file, icon08size + icon09size + 12, "BE", icon10size)
    BY DEF IcnsInv
  <2>2. /\ icon08size \in Nat /\ icon09size \in Nat /\ icon10size \in Nat
        /\ file.end = icon08size + icon09size + icon10size + 8
        /\ P08 \in file.pieces /\ P09 \in file.pieces /\ P10 \in file.pieces
    BY <2>1 DEF Whole, Chunk
  <2>3. /\ P08.id = "ic08" /\ P08.at = 16 /\ P08.len = icon08size - 8
        /\ P09.id = "ic09" /\ P09.at = icon08size + 16 /\ P09.len = icon09size - 8
        /\ P10.id = "ic10" /\ P10.at = icon08size + icon09size + 16
        /\ P10.len = icon10size - 8
    BY DEF P08, P09, P10, Piece
  <2> DEFINE second == 8 + 8 + P08.len
             third  == second + 8 + P09.len
  <2>4. /\ 8 + P08.len = icon08size /\ second + 8 = P09.at /\ second + 4 = icon08size + 12
        /\ 8 + P09.len = icon09size /\ third + 8 = P10.at
        /\ third + 4 = icon08size + icon09size + 12
        /\ 8 + P10.len = icon10size /\ third + 8 + P10.len = file.end
    BY <2>2, <2>3
  <2> HIDE DEF P08, P09, P10
  <2> QED
    BY <2>1, <2>2, <2>3, <2>4, IcnsFile DEF Icns!ChunksTileTheFile
<1> QED
  BY <1>1, IcnsHolds, PTL

-----------------------------------------------------------------------------
(* The .ico file.                                                          *)

(* Ico's  instance of OutputFile is this one.                              *)
LEMMA IcoFile ==
  /\ \A f, k : Ico!Put(f, k) = Put(f, k)
  /\ \A f, o, v : Ico!PutWord(f, o, v) = PutWord(f, o, v)
  /\ \A f, id, k : Ico!PutPiece(f, id, k) = PutPiece(f, id, k)
  /\ \A f, at : Ico!fseek(f, at) = fseek(f, at)
  /\ \A f : Ico!ftell(f) = f.pos
  /\ \A f, at, o, v : Ico!Says(f, at, o, v) <=> Says(f, at, o, v)
  /\ Ico!EmptyFile = EmptyFile
<1>1. \A f, k : Ico!Put(f, k) = Put(f, k)
  BY DEF Ico!Put, Put, Ico!Larger, Larger, Ico!Beside, Beside
<1>2. \A f, o, v : Ico!PutWord(f, o, v) = PutWord(f, o, v)
  BY <1>1 DEF Ico!PutWord, PutWord
<1>3. \A f, id, k : Ico!PutPiece(f, id, k) = PutPiece(f, id, k)
  BY <1>1 DEF Ico!PutPiece, PutPiece
<1>4. \A f, at : Ico!fseek(f, at) = fseek(f, at)
  BY DEF Ico!fseek, fseek
<1>5. \A f : Ico!ftell(f) = f.pos
  BY DEF Ico!ftell
<1>6. \A f, at, o, v : Ico!Says(f, at, o, v) <=> Says(f, at, o, v)
  BY DEF Ico!Says, Says
<1>7. Ico!EmptyFile = EmptyFile
  BY DEF Ico!EmptyFile, EmptyFile
<1> QED
  BY <1>1, <1>2, <1>3, <1>4, <1>5, <1>6, <1>7

\* The bytes of image k, and its place after a directory of eight entries.
Bytes(k)  == Ico!getBMPSize(Ico!Sides[k])
Offset(k) == << 134, 1198, 2838, 5182, 9318, 15758, 25014, 41438 >>[k]

LEMMA Table ==
  /\ \A k \in 1..8 : Bytes(k) \in Nat /\ Offset(k) \in Nat /\ Offset(k) >= 134
  /\ \A k \in 1..7 : Offset(k + 1) = Offset(k) + Bytes(k)
  /\ Offset(1) = 134 /\ Offset(8) = 41438
<1>1. /\ Bytes(1) = 1064 /\ Bytes(2) = 1640 /\ Bytes(3) = 2344 /\ Bytes(4) = 4136
      /\ Bytes(5) = 6440 /\ Bytes(6) = 9256 /\ Bytes(7) = 16424 /\ Bytes(8) = 262184
  BY DEF Bytes, Ico!getBMPSize, Ico!Sides, Ico!bmpHeaderSize
<1>2. /\ Offset(1) = 134 /\ Offset(2) = 1198 /\ Offset(3) = 2838 /\ Offset(4) = 5182
      /\ Offset(5) = 9318 /\ Offset(6) = 15758 /\ Offset(7) = 25014 /\ Offset(8) = 41438
  BY DEF Offset
<1>3. \A k \in 1..8 : k \in {1, 2, 3, 4, 5, 6, 7, 8}
  OBVIOUS
<1>4. ASSUME NEW k \in 1..8 PROVE Bytes(k) \in Nat /\ Offset(k) \in Nat /\ Offset(k) >= 134
  BY <1>1, <1>2, <1>3
<1>5. ASSUME NEW k \in 1..7 PROVE Offset(k + 1) = Offset(k) + Bytes(k)
  <2>1. k \in {1, 2, 3, 4, 5, 6, 7}
    OBVIOUS
  <2> QED
    BY <1>1, <1>2, <2>1
<1> QED
  BY <1>2, <1>4, <1>5

\* What the entry for image k says: its size and its offset.
Entry(k, size) ==
  /\ Says(file, Ico!EntryAt(k) + 8, "LE", size)
  /\ Says(file, Ico!EntryAt(k) + 12, "LE", Offset(k))

\* Where the directory ends.
Front == 6 + 16 * Ico!Images
\* Where image k is.
Place(k) == Front + (Offset(k) - 134)

Bitmaps(m) == { Piece(k, Place(k), Bytes(k)) : k \in 1..m }

\* A finished file of eight images.
Eight(size) ==
  /\ ~small /\ IsFile(file) /\ file.end = 41438 + size
  /\ file.pieces = Bitmaps(7) \union {Piece(8, 41438, size)}
  /\ \A k \in 1..7 : Entry(k, Bytes(k))

IcoInv ==
  /\ small \in BOOLEAN /\ written \in 0..Ico!Images
  /\ pc \in {"open", "crashed", "header"} => file = EmptyFile /\ written = 0
  /\ pc = "entries" =>
       /\ Ends(file, 6 + 16 * written) /\ file.pieces = {}
       /\ iconOffset = Offset(IF written < 8 THEN written + 1 ELSE 8)
       /\ \A k \in 1..written : Entry(k, Bytes(k))
  /\ pc = "images" =>
       /\ written < 8 /\ Ends(file, Place(written + 1)) /\ file.pieces = Bitmaps(written)
       /\ ~small => iconOffset = Offset(8)
       /\ \A k \in 1..Ico!Images : Entry(k, Bytes(k))
  /\ pc = "patch" => \E size \in Nat :
       /\ Eight(size) /\ file.pos = file.end /\ iconOffset = Offset(8)
       /\ Entry(8, Bytes(8))
  /\ pc = "close" => \E size \in Nat : Eight(size) /\ Entry(8, size)
  /\ pc = "closed" =>
       \/ \E size \in Nat : Eight(size) /\ Entry(8, size)
       \/ /\ small /\ Ends(file, Place(7)) /\ file.pieces = Bitmaps(6)
          /\ \A k \in 1..6 : Entry(k, Bytes(k))

LEMMA ImagesType ==
  /\ Ico!Images = IF small THEN 6 ELSE 8
  /\ Ico!Images \in {6, 8}
  /\ Front \in Nat /\ Front <= 134
  /\ \A k \in 1..8 : Place(k) \in Nat /\ Place(k) >= Front
  /\ \A k \in 1..7 : Place(k + 1) = Place(k) + Bytes(k)
  /\ Place(1) = Front
<1>1. Ico!Images = (IF small THEN 6 ELSE 8) /\ Ico!Images \in {6, 8}
  BY DEF Ico!Images
<1>2. Front \in Nat /\ Front <= 134
  BY <1>1 DEF Front
<1> QED
  BY <1>1, <1>2, Table DEF Place

LEMMA IcoHeader ==
  ASSUME IcoInv, Ico!WriteHeader
  PROVE  IcoInv'
<1>1. file = EmptyFile /\ written = 0
  BY DEF IcoInv, Ico!WriteHeader
<1>2. /\ file' = Put(file, 6) /\ iconOffset' = 134 /\ pc' = "entries"
      /\ small' = small /\ written' = written
  BY IcoFile DEF Ico!WriteHeader, Ico!iconHeaderSize, Ico!FirstOffset, Ico!iconDirEntrySize
<1>3. Ends(file', 6) /\ file'.pieces = {}
  <2>1. Ends(Put(EmptyFile, 6), 0 + 6) /\ Put(EmptyFile, 6).pieces = {}
    BY EmptyFacts, AddFacts
  <2>2. 0 + 6 = 6
    OBVIOUS
  <2> QED
    BY <1>1, <1>2, <2>1, <2>2
<1>4. 6 + 16 * written' = 6 /\ Offset(IF written' < 8 THEN written' + 1 ELSE 8) = 134
      /\ 1..written' = {}
  BY <1>1, <1>2, Table
<1> QED
  BY <1>2, <1>3, <1>4 DEF IcoInv, Ico!Images

LEMMA IcoEntry ==
  ASSUME IcoInv, Ico!WriteEntry
  PROVE  IcoInv'
<1> DEFINE w == written + 1
           e == 6 + 16 * written
           f1 == Put(file, 8)
           f2 == PutWord(f1, "LE", Bytes(w))
           f3 == PutWord(f2, "LE", Offset(w))
<1>1. /\ Ends(file, e) /\ file.pieces = {} /\ iconOffset = Offset(w)
      /\ \A k \in 1..written : Entry(k, Bytes(k))
      /\ written \in 0..Ico!Images /\ written < Ico!Images /\ Ico!Images \in {6, 8}
      /\ small \in BOOLEAN
  BY ImagesType DEF IcoInv, Ico!WriteEntry
<1>2. w \in 1..8 /\ e \in Nat /\ written \in Nat
  BY <1>1
<1>3. /\ pc' = "entries" /\ small' = small /\ written' = w
      /\ iconOffset' = Ico!OffsetAfter(iconOffset, w)
  BY DEF Ico!WriteEntry
<1>4. file' = f3
  <2>1. file' = Ico!writeIconDirEntry(file, Ico!Sides[w], Offset(w))
    BY <1>1 DEF Ico!WriteEntry
  <2> QED
    BY <2>1, IcoFile DEF Ico!writeIconDirEntry, Bytes, Ico!getBMPSize, Ico!bmpHeaderSize
<1>5. /\ Ends(f1, e + 8) /\ f1.pieces = {}
      /\ \A b \in Nat : \A o, v : Says(file, b, o, v) /\ b + 4 <= e => Says(f1, b, o, v)
  <2> HIDE DEF e
  <2> QED
    BY <1>1, <1>2, AddFacts
<1> HIDE DEF f1
<1>6. /\ Ends(f2, e + 12) /\ f2.pieces = {} /\ Says(f2, e + 8, "LE", Bytes(w))
      /\ \A b \in Nat : \A o, v : Says(f1, b, o, v) /\ b + 4 <= e + 8 => Says(f2, b, o, v)
  <2>1. e + 8 \in Nat /\ e + 8 + 4 = e + 12
    BY <1>2
  <2> HIDE DEF e
  <2> QED
    BY <1>5, <2>1, AddWordFacts
<1> HIDE DEF f2
<1>7. /\ Ends(f3, e + 16) /\ f3.pieces = {} /\ Says(f3, e + 12, "LE", Offset(w))
      /\ \A b \in Nat : \A o, v : Says(f2, b, o, v) /\ b + 4 <= e + 12 => Says(f3, b, o, v)
  <2>1. e + 12 \in Nat /\ e + 12 + 4 = e + 16
    BY <1>2
  <2> HIDE DEF e
  <2> QED
    BY <1>6, <2>1, AddWordFacts
<1> HIDE DEF f3
<1>8. \A b \in Nat : \A o, v : Says(file, b, o, v) /\ b + 4 <= e => Says(f3, b, o, v)
  <2>1. \A b \in Nat : b + 4 <= e => b + 4 <= e + 8 /\ b + 4 <= e + 12
    BY <1>2
  <2> HIDE DEF e
  <2> QED
    BY <1>5, <1>6, <1>7, <2>1
<1>9. ASSUME NEW k \in 1..w PROVE Entry(k, Bytes(k))'
  <2>1. CASE k = w
    <3>1. Ico!EntryAt(w) + 8 = e + 8 /\ Ico!EntryAt(w) + 12 = e + 12
      BY <1>2 DEF Ico!EntryAt, Ico!iconHeaderSize, Ico!iconDirEntrySize
    <3>2. Says(f3, e + 8, "LE", Bytes(w))
      <4>1. e + 8 \in Nat /\ e + 8 + 4 <= e + 12
        BY <1>2
      <4> HIDE DEF e
      <4> QED
        BY <1>6, <1>7, <4>1
    <3> QED
      BY <2>1, <3>1, <3>2, <1>4, <1>7 DEF Entry
  <2>2. CASE k # w
    <3>1. k \in 1..written
      BY <2>2, <1>2
    <3>2. /\ Ico!EntryAt(k) + 8 \in Nat /\ Ico!EntryAt(k) + 12 \in Nat
          /\ Ico!EntryAt(k) + 8 + 4 <= e /\ Ico!EntryAt(k) + 12 + 4 <= e
      BY <3>1, <1>2 DEF Ico!EntryAt, Ico!iconHeaderSize, Ico!iconDirEntrySize
    <3>3. Entry(k, Bytes(k))
      BY <3>1, <1>1
    <3> HIDE DEF e
    <3> QED
      BY <3>2, <3>3, <1>4, <1>8 DEF Entry
  <2> QED
    BY <2>1, <2>2
<1>10. iconOffset' = Offset(IF w < 8 THEN w + 1 ELSE 8)
  <2>1. CASE w < 8
    <3>1. Offset(w + 1) = Offset(w) + Bytes(w)
      BY <1>2, <2>1, Table
    <3> QED
      BY <3>1, <2>1, <1>1, <1>3 DEF Ico!OffsetAfter, Bytes
  <2>2. CASE w = 8
    BY <2>2, <1>1, <1>3 DEF Ico!OffsetAfter
  <2> QED
    BY <2>1, <2>2, <1>2
<1>11. Ends(file', 6 + 16 * written') /\ file'.pieces = {} /\ written' \in 0..Ico!Images
  <2>1. 6 + 16 * w = e + 16 /\ w \in 0..Ico!Images
    BY <1>1, <1>2
  <2> QED
    BY <2>1, <1>3, <1>4, <1>7
<1>12. Ico!Images' = Ico!Images
  BY <1>3 DEF Ico!Images
<1> HIDE DEF w
<1> QED
  BY <1>1, <1>3, <1>9, <1>10, <1>11, <1>12 DEF IcoInv

LEMMA IcoEndDirectory ==
  ASSUME IcoInv, Ico!EndDirectory
  PROVE  IcoInv'
<1>1. /\ Ends(file, 6 + 16 * Ico!Images) /\ file.pieces = {}
      /\ iconOffset = Offset(IF Ico!Images < 8 THEN Ico!Images + 1 ELSE 8)
      /\ \A k \in 1..Ico!Images : Entry(k, Bytes(k))
      /\ small \in BOOLEAN
  BY DEF IcoInv, Ico!EndDirectory
<1>2. /\ pc' = "images" /\ written' = 0 /\ small' = small /\ file' = file
      /\ iconOffset' = iconOffset
  BY DEF Ico!EndDirectory
<1>3. /\ Ico!Images' = Ico!Images /\ Place(1)' = 6 + 16 * Ico!Images
      /\ Ico!Images = IF small THEN 6 ELSE 8
  BY <1>2, ImagesType DEF Ico!Images, Place, Front, Offset
<1>4. Bitmaps(0)' = {}
  BY DEF Bitmaps
<1>5. ~small => iconOffset = Offset(8)
  BY <1>1, <1>3
<1>6. \A k \in 1..Ico!Images : Entry(k, Bytes(k))'
  BY <1>1, <1>2 DEF Entry
<1>7. 0 + 1 = 1 /\ 0 \in 0..Ico!Images
  BY <1>3
<1> QED
  BY <1>1, <1>2, <1>3, <1>4, <1>5, <1>6, <1>7 DEF IcoInv

\* The directory lies before what is added.
LEMMA EntryKept ==
  ASSUME NEW k \in 1..8, NEW size, NEW e \in Nat, Entry(k, size), 6 + 16 * k <= e,
         \A b \in Nat : \A o, v : Says(file, b, o, v) /\ b + 4 <= e => Says(file', b, o, v)
  PROVE  Entry(k, size)'
<1>1. /\ Ico!EntryAt(k) + 8 \in Nat /\ Ico!EntryAt(k) + 12 \in Nat
      /\ Ico!EntryAt(k) + 8 + 4 <= e /\ Ico!EntryAt(k) + 12 + 4 <= e
  BY DEF Ico!EntryAt, Ico!iconHeaderSize, Ico!iconDirEntrySize
<1> QED
  BY <1>1 DEF Entry

LEMMA IcoBMP ==
  ASSUME IcoInv, Ico!WriteBMP
  PROVE  IcoInv' /\ file.pieces \subseteq file'.pieces
<1>0. /\ written \in 0..Ico!Images /\ written < Ico!Images /\ written < 7 /\ small \in BOOLEAN
  BY DEF IcoInv, Ico!WriteBMP
<1> PICK w \in 1..7 : w = written + 1
  BY <1>0, ImagesType
<1> DEFINE e == Place(w)
<1>1. /\ Ends(file, e) /\ file.pieces = Bitmaps(written)
      /\ ~small => iconOffset = Offset(8)
      /\ \A k \in 1..Ico!Images : Entry(k, Bytes(k))
  BY DEF IcoInv, Ico!WriteBMP
<1>2. /\ w \in 1..8 /\ w < 8 /\ e \in Nat /\ Bytes(w) \in Nat
      /\ Place(w + 1) = e + Bytes(w) /\ e >= Front
  <2>1. w \in 1..8 /\ w < 8
    OBVIOUS
  <2> QED
    BY <2>1, ImagesType, Table
<1>3. /\ pc' = "images" /\ small' = small /\ written' = w /\ iconOffset' = iconOffset
      /\ file' = PutPiece(file, w, Bytes(w))
  BY IcoFile DEF Ico!WriteBMP, Bytes
<1>4. /\ Ends(file', e + Bytes(w))
      /\ file'.pieces = file.pieces \union {Piece(w, e, Bytes(w))}
      /\ \A b \in Nat : \A o, v : Says(file, b, o, v) /\ b + 4 <= e => Says(file', b, o, v)
  <2> DEFINE k == Bytes(w)
  <2>1. e \in Nat /\ k \in Nat /\ Ends(file, e) /\ file' = PutPiece(file, w, k)
    BY <1>1, <1>2, <1>3
  <2> HIDE DEF e, k
  <2>2. /\ Ends(PutPiece(file, w, k), e + k)
        /\ PutPiece(file, w, k).pieces = file.pieces \union {Piece(w, e, k)}
        /\ \A b \in Nat : \A o, v : Says(file, b, o, v) /\ b + 4 <= e
             => Says(PutPiece(file, w, k), b, o, v)
    BY <2>1, AddPieceFacts DEF Piece
  <2> QED
    BY <2>1, <2>2 DEF k
<1>5. Ico!Images' = Ico!Images /\ \A k : Place(k)' = Place(k)
  BY <1>3 DEF Ico!Images, Place, Front
<1>6. file'.pieces = Bitmaps(w)'
  <2>1. 1..w = 1..written \union {w}
    BY <1>0
  <2>2. Bitmaps(w) = Bitmaps(written) \union {Piece(w, Place(w), Bytes(w))}
    BY <2>1 DEF Bitmaps
  <2>3. Bitmaps(w)' = Bitmaps(w)
    BY <1>5 DEF Bitmaps
  <2> QED
    BY <1>1, <1>4, <2>2, <2>3
<1>7. ASSUME NEW k \in 1..Ico!Images PROVE Entry(k, Bytes(k))'
  <2>1. k \in 1..8 /\ 6 + 16 * k <= e
    BY <1>0, <1>2, ImagesType DEF Front
  <2>2. Entry(k, Bytes(k))
    BY <1>1
  <2> HIDE DEF e
  <2> QED
    BY <2>1, <2>2, <1>2, <1>4, EntryKept
<1>8. w \in 0..Ico!Images
  BY <1>0, ImagesType
<1>9. Ends(file', Place(w + 1)')
  BY <1>2, <1>4, <1>5
<1>10. Bitmaps(written)' = Bitmaps(w)' /\ Place(written + 1)' = Place(w + 1)'
  BY <1>3
<1>11. /\ Ends(file', Place(written + 1)') /\ file'.pieces = Bitmaps(written)'
       /\ ~small' => iconOffset' = Offset(8)
       /\ \A k \in 1..Ico!Images' : Entry(k, Bytes(k))'
       /\ small' \in BOOLEAN /\ written' \in 0..Ico!Images' /\ written' < 8
  BY <1>0, <1>1, <1>3, <1>5, <1>6, <1>7, <1>8, <1>9, <1>10
<1>12. file.pieces \subseteq file'.pieces
  BY <1>4
<1> HIDE DEF e
<1> QED
  BY <1>3, <1>11, <1>12 DEF IcoInv

LEMMA IcoPNG ==
  ASSUME IcoInv, Ico!WritePNG
  PROVE  IcoInv' /\ file.pieces \subseteq file'.pieces
<1>1. /\ Ends(file, Place(8)) /\ file.pieces = Bitmaps(7)
      /\ ~small => iconOffset = Offset(8)
      /\ \A k \in 1..Ico!Images : Entry(k, Bytes(k))
      /\ 7 \in 0..Ico!Images /\ small \in BOOLEAN
  <2>1. written = 7 /\ pc = "images" /\ 7 + 1 = 8
    BY DEF Ico!WritePNG
  <2> QED
    BY <2>1 DEF IcoInv
<1>2. ~small /\ Ico!Images = 8 /\ Place(8) = 41438 /\ Offset(8) = 41438
  <2>1. ~small /\ Ico!Images = 8
    BY <1>1, ImagesType
  <2> QED
    BY <2>1, Table DEF Place, Front
<1>3. PICK size \in PngSizes : file' = PutPiece(file, 8, size)
  BY IcoFile DEF Ico!WritePNG
<1>4. /\ size \in Nat /\ pc' = "patch" /\ small' = small /\ written' = 8
      /\ iconOffset' = iconOffset
  BY PngSizesAssumption DEF Ico!WritePNG
<1>5. /\ Ends(file', 41438 + size)
      /\ file'.pieces = Bitmaps(7) \union {Piece(8, 41438, size)}
      /\ \A b \in Nat : \A o, v : Says(file, b, o, v) /\ b + 4 <= 41438 => Says(file', b, o, v)
  <2>1. Ends(file, 41438) /\ 41438 \in Nat
    BY <1>1, <1>2
  <2> QED
    BY <1>1, <1>3, <1>4, <2>1, AddPieceFacts DEF Piece
<1>6. Ico!Images' = Ico!Images /\ Bitmaps(7)' = Bitmaps(7)
  BY <1>4 DEF Ico!Images, Bitmaps, Place, Front
<1>7. \A k \in 1..8 : Entry(k, Bytes(k))'
  <2> SUFFICES ASSUME NEW k \in 1..8 PROVE Entry(k, Bytes(k))'
    OBVIOUS
  <2>1. 6 + 16 * k <= 41438 /\ 41438 \in Nat
    OBVIOUS
  <2>2. Entry(k, Bytes(k))
    BY <1>1, <1>2
  <2> QED
    BY <2>1, <2>2, <1>5, EntryKept
<1>8. Eight(size)' /\ Entry(8, Bytes(8))'
  <2>1. 8 \in 1..8 /\ \A k \in 1..7 : k \in 1..8
    OBVIOUS
  <2> QED
    BY <1>2, <1>4, <1>5, <1>6, <1>7, <2>1 DEF Eight, Ends
<1>9. 8 \in 0..Ico!Images'
  BY <1>2, <1>6
<1>10. file'.pos = file'.end
  BY <1>5 DEF Ends
<1> QED
  BY <1>1, <1>2, <1>4, <1>5, <1>8, <1>9, <1>10 DEF IcoInv

LEMMA IcoPatch ==
  ASSUME IcoInv, Ico!PatchSize
  PROVE  IcoInv' /\ file.pieces \subseteq file'.pieces
<1>1. PICK size \in Nat :
        /\ Eight(size) /\ file.pos = file.end /\ iconOffset = Offset(8)
        /\ Entry(8, Bytes(8))
  BY DEF IcoInv, Ico!PatchSize
<1> DEFINE g == PutWord(fseek(file, 126), "LE", size)
<1>2. /\ pc' = "close" /\ small' = small /\ written' = written /\ iconOffset' = iconOffset
      /\ small \in BOOLEAN /\ written \in 0..Ico!Images
  BY DEF Ico!PatchSize, IcoInv
<1>3. file' = g
  <2>1. file.pos - iconOffset = size
    BY <1>1, Table DEF Eight
  <2>2. Ico!PatchAt = 126
    BY DEF Ico!PatchAt, Ico!iconHeaderSize, Ico!iconDirEntrySize
  <2> QED
    BY <2>1, <2>2, IcoFile DEF Ico!PatchSize
<1>4. \A x \in file.pieces : x.at >= 126 + 4
  <2>1. \A k \in 1..7 : Place(k) >= 130
    <3>1. ~small
      BY <1>1 DEF Eight
    <3> QED
      BY <3>1, Table, ImagesType DEF Place, Front
  <2>2. \A x \in Bitmaps(7) : x.at >= 130
    BY <2>1 DEF Bitmaps, Piece
  <2> QED
    BY <1>1, <2>2 DEF Eight, Piece
<1>5. /\ IsFile(g) /\ g.end = file.end /\ g.pieces = file.pieces
      /\ Says(g, 126, "LE", size)
      /\ \A b, o, v : Says(file, b, o, v) /\ (b + 4 <= 126 \/ b >= 130) => Says(g, b, o, v)
  <2>1. 126 \in Nat /\ 126 + 4 <= file.end /\ IsFile(file) /\ 126 + 4 = 130
    BY <1>1 DEF Eight
  <2>2. /\ IsFile(g) /\ g.end = file.end /\ g.pieces \subseteq file.pieces
        /\ Says(g, 126, "LE", size)
        /\ \A b, o, v : Says(file, b, o, v) /\ (b + 4 <= 126 \/ b >= 126 + 4) => Says(g, b, o, v)
        /\ \A x \in file.pieces : x.at + x.len <= 126 \/ x.at >= 126 + 4 => x \in g.pieces
    BY <2>1, PatchFacts
  <2> HIDE DEF g
  <2> QED
    BY <1>4, <2>1, <2>2
<1> HIDE DEF g
<1>6. \A k \in 1..7 : Entry(k, Bytes(k))'
  <2> SUFFICES ASSUME NEW k \in 1..7 PROVE Entry(k, Bytes(k))'
    OBVIOUS
  <2>1. /\ Ico!EntryAt(k) + 8 + 4 <= 126
        /\ Ico!EntryAt(k) + 12 + 4 <= 126
    BY DEF Ico!EntryAt, Ico!iconHeaderSize, Ico!iconDirEntrySize
  <2>2. Entry(k, Bytes(k))
    BY <1>1 DEF Eight
  <2> QED
    BY <2>1, <2>2, <1>3, <1>5 DEF Entry
<1>7. Entry(8, size)'
  <2>1. Ico!EntryAt(8) + 8 = 126 /\ Ico!EntryAt(8) + 12 = 130
    BY DEF Ico!EntryAt, Ico!iconHeaderSize, Ico!iconDirEntrySize
  <2>2. Says(file, 130, "LE", Offset(8))
    BY <1>1, <2>1 DEF Entry
  <2> QED
    BY <2>1, <2>2, <1>3, <1>5 DEF Entry
<1>8. Ico!Images' = Ico!Images /\ Bitmaps(7)' = Bitmaps(7)
  BY <1>2 DEF Ico!Images, Bitmaps, Place, Front
<1>9. Eight(size)'
  BY <1>1, <1>2, <1>3, <1>5, <1>6, <1>8 DEF Eight
<1> QED
  BY <1>1, <1>2, <1>3, <1>5, <1>7, <1>8, <1>9 DEF IcoInv

LEMMA IcoSame ==
  ASSUME IcoInv, UNCHANGED <<small, file>>
  PROVE  /\ Ico!Images' = Ico!Images /\ \A m : Bitmaps(m)' = Bitmaps(m)
         /\ \A k : Place(k)' = Place(k)
         /\ \A k, size : Entry(k, size)' = Entry(k, size)
         /\ \A size : Eight(size)' = Eight(size)
<1>1. Ico!Images' = Ico!Images /\ \A k : Place(k)' = Place(k)
  BY DEF Ico!Images, Place, Front
<1>2. \A k, size : Entry(k, size)' = Entry(k, size)
  BY DEF Entry
<1>3. \A m : Bitmaps(m)' = Bitmaps(m)
  BY <1>1 DEF Bitmaps
<1> QED
  BY <1>1, <1>2, <1>3 DEF Eight

LEMMA IcoClose ==
  ASSUME IcoInv, Ico!Close
  PROVE  IcoInv'
<1>1. pc' = "closed" /\ UNCHANGED <<small, file, iconOffset, written>>
  BY DEF Ico!Close
<1>2. CASE pc = "close"
  BY <1>1, <1>2, IcoSame DEF IcoInv
<1>3. CASE pc = "images" /\ small /\ written = Ico!Images
  <2>1. Ico!Images = 6 /\ 6 + 1 = 7
    BY <1>3 DEF Ico!Images
  <2>2. /\ Ends(file, Place(7)) /\ file.pieces = Bitmaps(6)
        /\ \A k \in 1..6 : Entry(k, Bytes(k))
    BY <1>3, <2>1 DEF IcoInv
  <2> QED
    BY <1>1, <1>3, <2>2, IcoSame DEF IcoInv
<1> QED
  BY <1>2, <1>3 DEF Ico!Close

LEMMA IcoStep ==
  ASSUME IcoInv, Ico!Next
  PROVE  IcoInv'
<1>1. ASSUME Ico!Open \/ Ico!OpenFails PROVE IcoInv'
  BY <1>1, IcoSame DEF IcoInv, Ico!Open, Ico!OpenFails
<1> QED
  BY <1>1, IcoHeader, IcoEntry, IcoEndDirectory, IcoBMP, IcoPNG, IcoPatch, IcoClose DEF Ico!Next

LEMMA IcoHolds == Spec => [](format = "ico" => IcoInv)
<1> DEFINE Inv == format = "ico" => IcoInv
<1>1. Init => Inv
  <2> SUFFICES ASSUME Init, format = "ico" PROVE IcoInv
    OBVIOUS
  <2>1. /\ pc = "open" /\ small \in BOOLEAN /\ file = EmptyFile /\ written = 0
    BY IcoFile DEF Init, Ico!Init
  <2> QED
    BY <2>1, ImagesType DEF IcoInv
<1>2. Inv /\ [Next]_vars => Inv'
  <2> SUFFICES ASSUME Inv, [Next]_vars, format' = "ico" PROVE IcoInv'
    OBVIOUS
  <2>1. CASE WriteIco
    BY <2>1, IcoStep DEF WriteIco
  <2>2. CASE UNCHANGED vars
    <3>1. UNCHANGED <<format, pc, small, file, iconOffset, written>> /\ IcoInv
      BY <2>2 DEF vars, ico
    <3> QED
      BY <3>1, IcoSame DEF IcoInv
  <2> QED
    BY <2>1, <2>2 DEF Next, WriteIcns, WriteBmp
<1> QED
  BY <1>1, <1>2, PTL DEF Spec

(* In every finished .ico file every entry gives the size of its image,    *)
(* that of the PNG as libpng wrote it; with eight images, the place too,   *)
(* and the last of them ends with the file.                                *)
THEOREM DirectoryIsAlwaysTrue == Spec => []DirectoryIsTrue
<1>1. ASSUME NEW size \in Nat, Eight(size), Entry(8, size), pc = "closed"
      PROVE  Ico!EntriesGiveSizes /\ Ico!EntriesPointAtImages
  <2>1. /\ Ico!Images = 8 /\ file.end = 41438 + size /\ Offset(8) = 41438
        /\ \A k \in 1..8 : Place(k) = Offset(k)
    <3>1. ~small
      BY <1>1 DEF Eight
    <3>2. Ico!Images = 8 /\ Front = 134
      BY <3>1 DEF Ico!Images, Front
    <3> QED
      BY <3>2, <1>1, Table DEF Eight, Place
  <2>2. ASSUME NEW k \in 1..8
        PROVE  \E x \in file.pieces :
                 /\ x.id = k /\ Says(file, Ico!EntryAt(k) + 8, "LE", x.len)
                 /\ Says(file, Ico!EntryAt(k) + 12, "LE", x.at)
                 /\ k = 8 => x.at + x.len = file.end
    <3>1. CASE k = 8
      <4> DEFINE x == Piece(8, 41438, size)
      <4>1. x.id = 8 /\ x.at = 41438 /\ x.len = size
        BY DEF Piece
      <4>2. x \in file.pieces
        BY <1>1 DEF Eight
      <4> HIDE DEF x
      <4>3. Says(file, Ico!EntryAt(8) + 8, "LE", size) /\ Says(file, Ico!EntryAt(8) + 12, "LE", 41438)
        BY <1>1, <2>1 DEF Entry
      <4> QED
        BY <3>1, <4>1, <4>2, <4>3, <2>1
    <3>2. CASE k \in 1..7
      <4> DEFINE x == Piece(k, Place(k), Bytes(k))
      <4>1. x.id = k /\ x.at = Offset(k) /\ x.len = Bytes(k)
        BY <2>1 DEF Piece
      <4>2. x \in file.pieces
        BY <1>1, <3>2 DEF Eight, Bitmaps
      <4>3. k # 8
        BY <3>2
      <4> HIDE DEF x
      <4>4. Entry(k, Bytes(k))
        BY <1>1, <3>2 DEF Eight
      <4> QED
        BY <4>1, <4>2, <4>3, <4>4 DEF Entry
    <3> QED
      BY <3>1, <3>2
  <2> QED
    BY <2>1, <2>2, IcoFile DEF Ico!EntriesGiveSizes, Ico!EntriesPointAtImages
<1>2. ASSUME small, file.pieces = Bitmaps(6), \A k \in 1..6 : Entry(k, Bytes(k))
      PROVE  Ico!EntriesGiveSizes
  <2>1. Ico!Images = 6
    BY <1>2 DEF Ico!Images
  <2>2. ASSUME NEW k \in 1..6
        PROVE  \E x \in file.pieces : x.id = k /\ Says(file, Ico!EntryAt(k) + 8, "LE", x.len)
    <3> DEFINE x == Piece(k, Place(k), Bytes(k))
    <3>1. x.id = k /\ x.len = Bytes(k)
      BY DEF Piece
    <3>2. x \in file.pieces
      BY <1>2 DEF Bitmaps
    <3> HIDE DEF x
    <3> QED
      BY <1>2, <3>1, <3>2 DEF Entry
  <2> QED
    BY <2>1, <2>2, IcoFile DEF Ico!EntriesGiveSizes
<1>3. (format = "ico" => IcoInv) => DirectoryIsTrue
  <2> SUFFICES ASSUME IcoInv
               PROVE  Ico!EntriesGiveSizes /\ (~small => Ico!EntriesPointAtImages)
    BY DEF DirectoryIsTrue
  <2>1. CASE pc # "closed"
    BY <2>1 DEF Ico!EntriesGiveSizes, Ico!EntriesPointAtImages
  <2>2. CASE pc = "closed"
    <3>1. \/ \E size \in Nat : Eight(size) /\ Entry(8, size)
          \/ /\ small /\ file.pieces = Bitmaps(6)
             /\ \A k \in 1..6 : Entry(k, Bytes(k))
      BY <2>2 DEF IcoInv
    <3> QED
      BY <1>1, <1>2, <2>2, <3>1
  <2> QED
    BY <2>1, <2>2
<1> QED
  BY <1>3, IcoHolds, PTL

-----------------------------------------------------------------------------
(* No image is lost from a file.                                           *)

LEMMA IcoKeeps ==
  ASSUME IcoInv, Ico!Next
  PROVE  file.pieces \subseteq file'.pieces
<1>1. CASE Ico!WriteHeader \/ Ico!WriteEntry
  <2>1. file.pieces = {}
    BY <1>1, EmptyFacts DEF IcoInv, Ico!WriteHeader, Ico!WriteEntry
  <2> QED
    BY <2>1
<1>2. CASE Ico!Open \/ Ico!OpenFails \/ Ico!EndDirectory \/ Ico!Close
  <2>1. file' = file
    BY <1>2 DEF Ico!Open, Ico!OpenFails, Ico!EndDirectory, Ico!Close
  <2> QED
    BY <2>1
<1> QED
  BY <1>1, <1>2, IcoBMP, IcoPNG, IcoPatch DEF Ico!Next

LEMMA IcnsKeeps ==
  ASSUME IcnsInv, Icns!Next
  PROVE  file.pieces \subseteq file'.pieces
<1>1. CASE Icns!Preamble
  <2>1. file.pieces = {}
    BY <1>1, EmptyFacts DEF IcnsInv, Icns!Preamble
  <2> QED
    BY <2>1
<1>2. ASSUME NEW e \in Nat, NEW id, NEW here, NEW next,
             Ends(file, e), Icns!WritePNG(id, here, next)
      PROVE  file.pieces \subseteq file'.pieces
  <2>1. PICK k \in PngSizes : file' = PutPiece(file, id, k)
    BY <1>2, IcnsFile DEF Icns!WritePNG
  <2>2. k \in Nat
    BY PngSizesAssumption
  <2> QED
    BY <1>2, <2>1, <2>2, AddPieceFacts
<1>3. CASE Icns!PNG08
  <2>1. Ends(file, 16) /\ 16 \in Nat
    BY <1>3 DEF IcnsInv, Icns!PNG08, Icns!WritePNG
  <2> QED
    BY <2>1, <1>2, <1>3 DEF Icns!PNG08
<1>4. CASE Icns!PNG09
  <2>1. Ends(file, icon08size + 16) /\ icon08size + 16 \in Nat
    BY <1>4 DEF IcnsInv, Icns!PNG09, Icns!WritePNG, Chunk
  <2> QED
    BY <2>1, <1>2, <1>4 DEF Icns!PNG09
<1>5. CASE Icns!PNG10
  <2>1. Ends(file, icon08size + icon09size + 16) /\ icon08size + icon09size + 16 \in Nat
    BY <1>5 DEF IcnsInv, Icns!PNG10, Icns!WritePNG, Chunk
  <2> QED
    BY <2>1, <1>2, <1>5 DEF Icns!PNG10
<1>6. CASE Icns!Chunk09
  <2>1. PICK k \in Nat : Ends(file, 16 + k)
    BY <1>6 DEF IcnsInv, Icns!Chunk09
  <2>2. 16 + k \in Nat
    OBVIOUS
  <2> QED
    BY <1>6, <2>1, <2>2, AddChunkFacts DEF Icns!Chunk09
<1>7. CASE Icns!Chunk10
  <2>1. PICK k \in Nat : Ends(file, icon08size + 16 + k)
    BY <1>7 DEF IcnsInv, Icns!Chunk10
  <2>2. icon08size + 16 + k \in Nat
    BY <1>7 DEF IcnsInv, Icns!Chunk10, Chunk
  <2> QED
    BY <1>7, <2>1, <2>2, AddChunkFacts DEF Icns!Chunk10
<1>8. CASE Icns!Open \/ Icns!OpenFails \/ Icns!Measure10 \/ Icns!Close
  <2>1. file' = file
    BY <1>8 DEF Icns!Open, Icns!OpenFails, Icns!Measure10, Icns!Close
  <2> QED
    BY <2>1
<1> QED
  BY <1>1, <1>3, <1>4, <1>5, <1>6, <1>7, <1>8,
     IcnsPatchTotal, IcnsPatch08, IcnsPatch09, IcnsPatch10 DEF Icns!Next

(* BMP's instance of OutputFile is this one.                               *)
LEMMA BmpFile ==
  /\ \A f, k : BMP!Put(f, k) = Put(f, k)
  /\ \A f, v : BMP!PutLE(f, v) = PutWord(f, "LE", v)
  /\ \A f, id, k : BMP!PutPiece(f, id, k) = PutPiece(f, id, k)
  /\ BMP!EmptyFile = EmptyFile
<1>1. \A f, k : BMP!Put(f, k) = Put(f, k)
  BY DEF BMP!Put, Put, BMP!Larger, Larger, BMP!Beside, Beside
<1>2. \A f, v : BMP!PutLE(f, v) = PutWord(f, "LE", v)
  BY <1>1 DEF BMP!PutLE, BMP!PutWord, PutWord
<1>3. \A f, id, k : BMP!PutPiece(f, id, k) = PutPiece(f, id, k)
  BY <1>1 DEF BMP!PutPiece, PutPiece
<1>4. BMP!EmptyFile = EmptyFile
  BY DEF BMP!EmptyFile, EmptyFile
<1> QED
  BY <1>1, <1>2, <1>3, <1>4

\* Where row i of the picture begins: the last row is the first in the file.
RowAt(i) == 54 + (height - 1 - i) * (3 * width)

\* What a reader of a .bmp file goes by.
BmpHeader(f) ==
  /\ Says(f, 10, "LE", 54) /\ Says(f, 14, "LE", 40)
  /\ Says(f, 18, "LE", width) /\ Says(f, 22, "LE", height)
  /\ Says(f, 34, "LE", width * height * 3)

\* The rows below y are in the file, behind the headers and without a gap.
BmpInv ==
  /\ width \in Nat \ {0} /\ height \in Nat \ {0} /\ y \in -1..(height - 1)
  /\ pc = "header" => file = EmptyFile /\ y = height - 1
  /\ pc # "header" =>
       /\ Ends(file, RowAt(y)) /\ BmpHeader(file)
       /\ \A i \in (y + 1)..(height - 1) :
            [id |-> i, at |-> RowAt(i), len |-> 3 * width] \in file.pieces
  /\ pc \in {"header", "rows", "closed"}
  /\ pc = "closed" => y = -1

\* The headers take 54 bytes.
LEMMA BmpHeaders ==
  ASSUME NEW u, NEW v
  PROVE  LET f3 == PutWord(PutWord(PutWord(Put(EmptyFile, 2), "LE", u), "LE", 0), "LE", 54)
             f6 == PutWord(PutWord(PutWord(f3, "LE", 40), "LE", width), "LE", height)
             f == Put(PutWord(PutWord(Put(f6, 4), "LE", 0), "LE", v), 16)
         IN  /\ Ends(f, 54)
             /\ Says(f, 10, "LE", 54) /\ Says(f, 14, "LE", 40)
             /\ Says(f, 18, "LE", width) /\ Says(f, 22, "LE", height)
             /\ Says(f, 34, "LE", v)
<1> DEFINE f0 == Put(EmptyFile, 2)
           f1 == PutWord(f0, "LE", u)
           f2 == PutWord(f1, "LE", 0)
           f3 == PutWord(f2, "LE", 54)
           f4 == PutWord(f3, "LE", 40)
           f5 == PutWord(f4, "LE", width)
           f6 == PutWord(f5, "LE", height)
           f7 == Put(f6, 4)
           f8 == PutWord(f7, "LE", 0)
           f9 == PutWord(f8, "LE", v)
           f == Put(f9, 16)
<1>1. Ends(f2, 10)
  <2>1. Ends(EmptyFile, 0)
    BY EmptyFacts
  <2>2. Ends(f0, 0 + 2)
    BY <2>1, AddFacts
  <2>3. Ends(f1, 2 + 4)
    <3> HIDE DEF f0
    <3> QED
      BY <2>2, AddWordFacts
  <2> HIDE DEF f1
  <2> QED
    BY <2>3, AddWordFacts
<1> HIDE DEF f2
<1>2. Ends(f3, 14) /\ Says(f3, 10, "LE", 54)
  BY <1>1, AddWordFacts
<1> HIDE DEF f3
<1>3. Ends(f4, 18) /\ Says(f4, 10, "LE", 54) /\ Says(f4, 14, "LE", 40)
  BY <1>2, AddWordFacts
<1> HIDE DEF f4
<1>4. /\ Ends(f5, 22) /\ Says(f5, 10, "LE", 54) /\ Says(f5, 14, "LE", 40)
      /\ Says(f5, 18, "LE", width)
  BY <1>3, AddWordFacts
<1> HIDE DEF f5
<1>5. /\ Ends(f6, 26) /\ Says(f6, 10, "LE", 54) /\ Says(f6, 14, "LE", 40)
      /\ Says(f6, 18, "LE", width) /\ Says(f6, 22, "LE", height)
  BY <1>4, AddWordFacts
<1> HIDE DEF f6
<1>6. /\ Ends(f7, 30) /\ Says(f7, 10, "LE", 54) /\ Says(f7, 14, "LE", 40)
      /\ Says(f7, 18, "LE", width) /\ Says(f7, 22, "LE", height)
  <2>1. /\ Ends(f7, 26 + 4)
        /\ \A b \in Nat : \A o, w : Says(f6, b, o, w) /\ b + 4 <= 26 => Says(f7, b, o, w)
    <3>1. 26 \in Nat /\ 4 \in Nat
      OBVIOUS
    <3> QED
      BY <1>5, <3>1, AddFacts
  <2> QED
    BY <1>5, <2>1
<1> HIDE DEF f7
<1>7. /\ Ends(f8, 34) /\ Says(f8, 10, "LE", 54) /\ Says(f8, 14, "LE", 40)
      /\ Says(f8, 18, "LE", width) /\ Says(f8, 22, "LE", height)
  BY <1>6, AddWordFacts
<1> HIDE DEF f8
<1>8. /\ Ends(f9, 38) /\ Says(f9, 10, "LE", 54) /\ Says(f9, 14, "LE", 40)
      /\ Says(f9, 18, "LE", width) /\ Says(f9, 22, "LE", height) /\ Says(f9, 34, "LE", v)
  BY <1>7, AddWordFacts
<1> HIDE DEF f9
<1>9. /\ Ends(f, 54) /\ Says(f, 10, "LE", 54) /\ Says(f, 14, "LE", 40)
      /\ Says(f, 18, "LE", width) /\ Says(f, 22, "LE", height) /\ Says(f, 34, "LE", v)
  <2>1. /\ Ends(f, 38 + 16)
        /\ \A b \in Nat : \A o, w : Says(f9, b, o, w) /\ b + 4 <= 38 => Says(f, b, o, w)
    <3>1. 38 \in Nat /\ 16 \in Nat
      OBVIOUS
    <3> QED
      BY <1>8, <3>1, AddFacts
  <2> HIDE DEF f
  <2> QED
    BY <1>8, <2>1
<1> QED
  BY <1>9 DEF f, f9, f8, f7, f6, f5, f4, f3, f2

LEMMA RowAtFacts ==
  ASSUME width \in Nat, height \in Nat, NEW i \in Int, i < height
  PROVE  /\ RowAt(i) \in Nat /\ 3 * width \in Nat
         /\ RowAt(i - 1) = RowAt(i) + 3 * width
         /\ RowAt(height - 1) = 54
<1> DEFINE k == height - 1 - i
           w == 3 * width
<1>1. k \in Nat /\ w \in Nat /\ height - 1 - (i - 1) = k + 1 /\ height - 1 - (height - 1) = 0
  OBVIOUS
<1>2. k * w \in Nat /\ (k + 1) * w = k * w + w /\ 0 * w = 0
  <2> HIDE DEF k, w
  <2> QED
    BY <1>1
<1> QED
  BY <1>1, <1>2 DEF RowAt

LEMMA BmpStep ==
  ASSUME BmpInv, BMP!Next
  PROVE  BmpInv' /\ file.pieces \subseteq file'.pieces
<1>1. CASE BMP!writeBMPFileHeader
  <2>1. /\ file = EmptyFile /\ y = height - 1 /\ pc' = "rows"
        /\ UNCHANGED <<width, height, y>>
        /\ file' = BMP!InfoHeader(BMP!FileHeader(file))
    BY <1>1 DEF BmpInv, BMP!writeBMPFileHeader
  <2>2. Ends(file', 54) /\ BmpHeader(file')
    <3> DEFINE u == BMP!bmpHeaderSize + 4 + 2 + 4 * width * height
               v == width * height * 3
    <3>1. BMP!FileHeader(file) =
            PutWord(PutWord(PutWord(Put(EmptyFile, 2), "LE", u), "LE", 0), "LE", 54)
      BY <2>1, BmpFile DEF BMP!FileHeader
    <3> HIDE DEF u, v
    <3>2. \A g : BMP!InfoHeader(g) =
            Put(PutWord(PutWord(Put(PutWord(PutWord(PutWord(g, "LE", 40), "LE", width),
                        "LE", height), 4), "LE", 0), "LE", v), 16)
      BY BmpFile DEF BMP!InfoHeader, BMP!bmpHeaderSize, v
    <3>3. Ends(file', 54) /\ Says(file', 10, "LE", 54) /\ Says(file', 14, "LE", 40)
          /\ Says(file', 18, "LE", width) /\ Says(file', 22, "LE", height)
          /\ Says(file', 34, "LE", v)
      BY <2>1, <3>1, <3>2, BmpHeaders
    <3> QED
      BY <3>3 DEF BmpHeader, v
  <2>3. RowAt(y) = 54
    BY <2>1, RowAtFacts DEF BmpInv
  <2>4. RowAt(y)' = 54 /\ BmpHeader(file)'
    BY <2>1, <2>2, <2>3 DEF RowAt, BmpHeader
  <2>5. (y + 1)..(height - 1) = {}
    BY <2>1 DEF BmpInv
  <2>6. file.pieces = {}
    BY <2>1, EmptyFacts
  <2> QED
    BY <2>1, <2>2, <2>4, <2>5, <2>6 DEF BmpInv
<1>2. CASE BMP!WriteRow
  <2> DEFINE row == [id |-> y, at |-> RowAt(y), len |-> 3 * width]
             e == RowAt(y)
  <2>1. /\ pc = "rows" /\ y >= 0 /\ y' = y - 1 /\ UNCHANGED <<pc, width, height>>
        /\ file' = PutPiece(file, y, 3 * width)
    BY <1>2, BmpFile DEF BMP!WriteRow, BMP!RowOf
  <2>2. /\ Ends(file, e) /\ BmpHeader(file) /\ width \in Nat \ {0} /\ height \in Nat \ {0}
        /\ y \in 0..(height - 1)
        /\ \A i \in (y + 1)..(height - 1) :
             [id |-> i, at |-> RowAt(i), len |-> 3 * width] \in file.pieces
    BY <2>1 DEF BmpInv
  <2>3. e \in Nat /\ e >= 54 /\ 3 * width \in Nat /\ RowAt(y - 1) = e + 3 * width
    <3>1. e \in Nat /\ 3 * width \in Nat /\ RowAt(y - 1) = e + 3 * width
      BY <2>2, RowAtFacts
    <3>2. e >= 54
      <4>1. height - 1 - y \in Nat /\ 3 * width \in Nat
        BY <2>2
      <4>2. (height - 1 - y) * (3 * width) \in Nat
        BY <4>1
      <4> QED
        BY <4>2 DEF RowAt
    <3> QED
      BY <3>1, <3>2
  <2> HIDE DEF e
  <2>4. /\ Ends(file', e + 3 * width) /\ file.pieces \subseteq file'.pieces
        /\ [id |-> y, at |-> e, len |-> 3 * width] \in file'.pieces
        /\ \A b \in Nat : \A o, w : Says(file, b, o, w) /\ b + 4 <= e => Says(file', b, o, w)
    BY <2>1, <2>2, <2>3, AddPieceFacts
  <2>5. /\ Says(file', 10, "LE", 54) /\ Says(file', 14, "LE", 40)
        /\ Says(file', 18, "LE", width) /\ Says(file', 22, "LE", height)
        /\ Says(file', 34, "LE", width * height * 3)
    BY <2>2, <2>3, <2>4 DEF BmpHeader
  <2>6. BmpHeader(file)' /\ \A i : RowAt(i)' = RowAt(i)
    BY <2>1, <2>5 DEF BmpHeader, RowAt
  <2>7. RowAt(y)' = e + 3 * width
    BY <2>1, <2>3 DEF RowAt
  <2>8. \A i \in (y' + 1)..(height - 1) :
          [id |-> i, at |-> RowAt(i), len |-> 3 * width] \in file'.pieces
    <3> TAKE i \in (y' + 1)..(height - 1)
    <3>1. CASE i = y
      BY <2>4, <3>1 DEF e
    <3>2. CASE i # y
      <4>1. i \in (y + 1)..(height - 1)
        BY <2>1, <2>2, <3>2
      <4> QED
        BY <2>2, <2>4, <4>1
    <3> QED
      BY <3>1, <3>2
  <2>9. y' \in -1..(height' - 1)
    BY <2>1, <2>2
  <2> QED
    BY <2>1, <2>2, <2>4, <2>6, <2>7, <2>8, <2>9 DEF BmpInv
<1>3. CASE BMP!Close
  <2>1. pc = "rows" /\ pc' = "closed" /\ y < 0 /\ UNCHANGED <<width, height, y, file>>
    BY <1>3 DEF BMP!Close
  <2>2. y = -1
    BY <2>1 DEF BmpInv
  <2> QED
    BY <2>1, <2>2 DEF BmpInv, RowAt, BmpHeader
<1> QED
  BY <1>1, <1>2, <1>3 DEF BMP!Next

LEMMA BmpHolds == Spec => [](format = "bmp" => BmpInv)
<1> DEFINE Inv == format = "bmp" => BmpInv
<1>1. Init => Inv
  <2> SUFFICES ASSUME Init, format = "bmp" PROVE BmpInv
    OBVIOUS
  <2>1. /\ pc = "header" /\ width \in Widths /\ height \in Heights /\ y = height - 1
        /\ file = EmptyFile
    BY BmpFile DEF Init, BMP!Init
  <2>2. width \in Nat \ {0} /\ height \in Nat \ {0}
    BY <2>1, BmpSizesAssumption
  <2> QED
    BY <2>1, <2>2 DEF BmpInv
<1>2. Inv /\ [Next]_vars => Inv'
  <2> SUFFICES ASSUME Inv, [Next]_vars, format' = "bmp" PROVE BmpInv'
    OBVIOUS
  <2>1. CASE WriteBmp
    BY <2>1, BmpStep DEF WriteBmp
  <2>2. CASE UNCHANGED vars
    <3>1. /\ UNCHANGED <<width, height, y, file, pc, format>>
          /\ \A i : RowAt(i)' = RowAt(i)
      BY <2>2 DEF vars, bmp, RowAt
    <3>2. BmpInv
      BY <3>1
    <3>3. RowAt(y)' = RowAt(y) /\ BmpHeader(file)' = BmpHeader(file)
      BY <3>1 DEF RowAt, BmpHeader
    <3> QED
      BY <3>1, <3>2, <3>3 DEF BmpInv
  <2> QED
    BY <2>1, <2>2 DEF Next, WriteIco, WriteIcns
<1> QED
  BY <1>1, <1>2, PTL DEF Spec

(* A .bmp file gives the size of its pixels as they are written, and a     *)
(* reader for which rows take a multiple of four bytes finds every row of  *)
(* a picture whose rows do, for pictures of every size.                    *)
THEOREM BmpAlwaysReadsBack == Spec => []BmpReadsBack
<1>1. (format = "bmp" => BmpInv) => BmpReadsBack
  <2> SUFFICES ASSUME BmpInv, pc = "closed"
               PROVE  /\ BMP!DataSizeIsAnnounced
                      /\ BMP!row_width = 3 * width => BMP!RowsReadBack
    BY DEF BmpReadsBack, BMP!DataSizeIsAnnounced, BMP!RowsReadBack
  <2>1. /\ width \in Nat \ {0} /\ height \in Nat \ {0} /\ y = -1
        /\ Ends(file, RowAt(-1)) /\ BmpHeader(file)
        /\ \A i \in 0..(height - 1) :
             [id |-> i, at |-> RowAt(i), len |-> 3 * width] \in file.pieces
    BY DEF BmpInv
  <2>2. \A at, v : BMP!Says(file, at, "LE", v) <=> Says(file, at, "LE", v)
    BY DEF BMP!Says, Says
  <2>3. RowAt(-1) = 54 + width * height * 3 /\ width * height * 3 \in Nat
    <3>1. height - 1 - (-1) = height /\ width * height \in Nat
      BY <2>1
    <3>2. height * (3 * width) = width * height * 3
      BY <2>1
    <3> QED
      BY <3>1, <3>2 DEF RowAt
  <2>4. file.end = 54 + width * height * 3
    BY <2>1, <2>3 DEF Ends
  <2>5. 54 \in 0..file.end /\ file.end - 54 = width * height * 3
    BY <2>3, <2>4
  <2>6. BMP!DataSizeIsAnnounced
    BY <2>1, <2>2, <2>5 DEF BMP!DataSizeIsAnnounced, BmpHeader
  <2>7. ASSUME BMP!row_width = 3 * width PROVE BMP!RowsReadBack
    <3>1. \A i : 54 + (height - 1 - i) * BMP!row_width = RowAt(i)
      BY <2>7 DEF RowAt
    <3> QED
      BY <2>1, <2>2, <2>5, <3>1 DEF BMP!RowsReadBack, BmpHeader, BMP!bmpHeaderSize
  <2> QED
    BY <2>6, <2>7
<1> QED
  BY <1>1, BmpHolds, PTL

(* An image that is in a file of any of the three formats stays where it   *)
(* is, whatever is written or patched in after it.                         *)
THEOREM ImagesAlwaysStay == Spec => ImagesStay
<1> DEFINE Inv == /\ format = "ico" => IcoInv
                  /\ format = "icns" => IcnsInv
                  /\ format = "bmp" => BmpInv
           Kept == file.pieces \subseteq file'.pieces
<1>1. Inv /\ [Next]_vars => [Kept]_vars
  <2> SUFFICES ASSUME Inv, Next PROVE Kept
    OBVIOUS
  <2>1. CASE WriteIco
    BY <2>1, IcoKeeps DEF WriteIco
  <2>2. CASE WriteIcns
    BY <2>2, IcnsKeeps DEF WriteIcns
  <2>3. CASE WriteBmp
    BY <2>3, BmpStep DEF WriteBmp
  <2> QED
    BY <2>1, <2>2, <2>3 DEF Next
<1>2. Spec => []Inv
  BY IcoHolds, IcnsHolds, BmpHolds, PTL
<1>3. [][Kept]_vars => ImagesStay
  BY DEF ImagesStay
<1> QED
  BY <1>1, <1>2, <1>3, PTL DEF Spec

=============================================================================

--------------------------------- MODULE Bmp ---------------------------------
(***************************************************************************)
(* writeBMP of Sources/Icons.cpp, as main calls it: a .bmp file of 24 bits *)
(* a pixel, its two headers first and then the rows, the last row of the   *)
(* picture first.                                                          *)
(*                                                                         *)
(* The repository has a reader of such files, libjpeg/rdbmp.c, which this  *)
(* program does not call; the properties are stated with what it expects.  *)
(***************************************************************************)
EXTENDS OutputFile

CONSTANTS Widths, Heights  \* of the images written; not 0

VARIABLES
  pc,      \* "header", "rows", "closed"
  width, height,
  y,       \* the row to be written next
  file

vars == <<pc, width, height, y, file>>

bmpHeaderSize == 40

PutLE(f, v) == PutWord(f, "LE", v)

\* "BM", the size of the file, four bytes unused, the place of the pixels.
FileHeader(f) ==
  PutLE(PutLE(PutLE(Put(f, 2), bmpHeaderSize + 4 + 2 + 4 * width * height), 0), 54)

\* Planes and bits are four bytes, resolution and palette sixteen.
InfoHeader(f) ==
  Put(PutLE(PutLE(Put(PutLE(PutLE(PutLE(f, bmpHeaderSize), width), height), 4), 0),
            width * height * 3), 16)

Init ==
  /\ pc = "header"
  /\ width \in Widths /\ height \in Heights
  /\ y = height - 1 /\ file = EmptyFile

writeBMPFileHeader ==
  /\ pc = "header"
  /\ file' = InfoHeader(FileHeader(file))
  /\ pc' = "rows"
  /\ UNCHANGED <<width, height, y>>

\* The order of the picture.
MutRowOf(i) == height - 1 - i
RowOf(i) == i

WriteRow ==
  /\ pc = "rows" /\ y >= 0
  /\ file' = PutPiece(file, RowOf(y), 3 * width)
  /\ y' = y - 1
  /\ UNCHANGED <<pc, width, height>>

Close ==
  /\ pc = "rows" /\ y < 0
  /\ pc' = "closed"
  /\ UNCHANGED <<width, height, y, file>>

Next == writeBMPFileHeader \/ WriteRow \/ Close

Spec == Init /\ [][Next]_vars

-----------------------------------------------------------------------------
\* rdbmp.c: the bytes of a row in the file.
row_width == ((3 * width + 3) \div 4) * 4

(* A reader like rdbmp.c, which takes the size from the info header and    *)
(* goes to the place of the pixels by the file header, finds every row of  *)
(* the picture where it looks for it, the last row first.                  *)
RowsReadBack ==
  pc = "closed" =>
    /\ Says(file, 14, "LE", bmpHeaderSize)
    /\ Says(file, 18, "LE", width) /\ Says(file, 22, "LE", height)
    /\ \E start \in 0..file.end :
         /\ Says(file, 10, "LE", start)
         /\ \A i \in 0..(height - 1) :
              [id |-> i, at |-> start + (height - 1 - i) * row_width, len |-> 3 * width]
                \in file.pieces

(* The size of the raw data in the info header (the comment on that line   *)
(* of writeBMPFileHeader) is what stands between the headers and the end.  *)
DataSizeIsAnnounced ==
  pc = "closed" =>
    \E start \in 0..file.end :
      Says(file, 10, "LE", start) /\ Says(file, 34, "LE", file.end - start)
=============================================================================

------------------------------- MODULE MacIcon -------------------------------
(***************************************************************************)
(* macIcon of Sources/Icons.cpp: an .icns file of three chunks, each a     *)
(* type, a length and a PNG.                                               *)
(*                                                                         *)
(* No length is known when its place is passed: "----" is written there.   *)
(* The lengths are taken from ftell on the way and put in with fseek at    *)
(* the end, at places that depend on the lengths before them.              *)
(***************************************************************************)
EXTENDS OutputFile

VARIABLES
  pc,    \* "open", "preamble", "png08", "ic09", "png09", "ic10", "png10", "measure",
         \* "total", "patch08", "patch09", "patch10", "close", "closed", "crashed"
  file,
  icon08size, icon09size, icon10size

sizes == <<icon08size, icon09size, icon10size>>
vars  == <<pc, file, sizes>>

\* Four characters, where a length is to come.
Dashes == -1

\* A chunk's type and the place for its length.
PutChunk(f) == PutWord(Put(f, 4), "BE", Dashes)

PatchWord(f, at, v) == PutWord(fseek(f, at), "BE", v)

Measured08 == ftell(file) - 8

Measured09 == ftell(file) - icon08size - 8

\* The second chunk left out of what comes before the third.
Mut10Size == ftell(file) - icon08size - 8
Measured10 == ftell(file) - icon09size - icon08size - 8

Patch08At == 12
Patch09At == icon08size + 8 + 4

Patch10At == icon08size + icon09size + 8 + 4

-----------------------------------------------------------------------------
Init ==
  /\ pc = "open" /\ file = EmptyFile
  \* Not initialised by the code, and not read before they are set.
  /\ icon08size = 0 /\ icon09size = 0 /\ icon10size = 0

Open ==
  /\ pc = "open"
  /\ pc' = "preamble"
  /\ UNCHANGED <<file, sizes>>

\* fopen returns NULL and fputs is given it.
OpenFails ==
  /\ pc = "open"
  /\ pc' = "crashed"
  /\ UNCHANGED <<file, sizes>>

\* "icns----ic08----"
Preamble ==
  /\ pc = "preamble"
  /\ file' = PutChunk(PutChunk(file))
  /\ pc' = "png08"
  /\ UNCHANGED sizes

WritePNG(id, here, next) ==
  /\ pc = here
  /\ \E k \in PngSizes : file' = PutPiece(file, id, k)
  /\ pc' = next
  /\ UNCHANGED sizes

PNG08 == WritePNG("ic08", "png08", "ic09")
PNG09 == WritePNG("ic09", "png09", "ic10")
PNG10 == WritePNG("ic10", "png10", "measure")

\* "ic09----"
Chunk09 ==
  /\ pc = "ic09"
  /\ icon08size' = Measured08
  /\ file' = PutChunk(file)
  /\ pc' = "png09"
  /\ UNCHANGED <<icon09size, icon10size>>

\* "ic10----"
Chunk10 ==
  /\ pc = "ic10"
  /\ icon09size' = Measured09
  /\ file' = PutChunk(file)
  /\ pc' = "png10"
  /\ UNCHANGED <<icon08size, icon10size>>

Measure10 ==
  /\ pc = "measure"
  /\ icon10size' = Measured10
  /\ pc' = "total"
  /\ UNCHANGED <<file, icon08size, icon09size>>

PatchTotal ==
  /\ pc = "total"
  /\ file' = PatchWord(file, 4, ftell(file))
  /\ pc' = "patch08"
  /\ UNCHANGED sizes

Patch08 ==
  /\ pc = "patch08"
  /\ file' = PatchWord(file, Patch08At, icon08size)
  /\ pc' = "patch09"
  /\ UNCHANGED sizes

Patch09 ==
  /\ pc = "patch09"
  /\ file' = PatchWord(file, Patch09At, icon09size)
  /\ pc' = "patch10"
  /\ UNCHANGED sizes

Patch10 ==
  /\ pc = "patch10"
  /\ file' = PatchWord(file, Patch10At, icon10size)
  /\ pc' = "close"
  /\ UNCHANGED sizes

Close ==
  /\ pc = "close"
  /\ pc' = "closed"
  /\ UNCHANGED <<file, sizes>>

Next ==
  \/ Open \/ OpenFails \/ Preamble
  \/ PNG08 \/ Chunk09 \/ PNG09 \/ Chunk10 \/ PNG10 \/ Measure10
  \/ PatchTotal \/ Patch08 \/ Patch09 \/ Patch10 \/ Close

Spec == Init /\ [][Next]_vars

-----------------------------------------------------------------------------
(* A reader that starts at the first chunk and goes on by the lengths it   *)
(* finds reaches each of the three images and then the end of the file,    *)
(* which is the length the file gives of itself.                           *)
ChunksTileTheFile ==
  pc = "closed" =>
    \E x \in file.pieces, y \in file.pieces, z \in file.pieces :
      LET second == 8 + 8 + x.len
          third  == second + 8 + y.len
      IN /\ x.id = "ic08" /\ x.at = 16         /\ Says(file, 12, "BE", 8 + x.len)
         /\ y.id = "ic09" /\ y.at = second + 8 /\ Says(file, second + 4, "BE", 8 + y.len)
         /\ z.id = "ic10" /\ z.at = third + 8  /\ Says(file, third + 4, "BE", 8 + z.len)
         /\ third + 8 + z.len = file.end
         /\ Says(file, 4, "BE", file.end)
=============================================================================

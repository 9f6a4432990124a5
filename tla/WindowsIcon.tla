----------------------------- MODULE WindowsIcon -----------------------------
(***************************************************************************)
(* windowsIcon of Sources/Icons.cpp: a .ico file of six or eight images.   *)
(*                                                                         *)
(* The directory comes first, and gives the offset and the size of every   *)
(* image.  They are computed before any image is written; only the size of *)
(* the last image, a PNG, is put right afterwards, with fseek.             *)
(***************************************************************************)
EXTENDS OutputFile, Sequences

VARIABLES
  pc,          \* "open", "header", "entries", "images", "patch", "close", "closed", "crashed"
  small,
  file,
  iconOffset,  \* where the next image is going to be
  written      \* entries written so far, then images written so far

vars == <<pc, small, file, iconOffset, written>>

iconHeaderSize   == 6
iconDirEntrySize == 16
bmpHeaderSize    == 40

\* The images, square, in the order of the file.
Sides == <<16, 20, 24, 32, 40, 48, 64, 256>>

Images == IF small THEN 6 ELSE 8

\* What writeBMPIcon writes: a header and the pixels.
getBMPSize(side) == side * side * 4 + bmpHeaderSize

\* The place of entry k, counted from 1.
EntryAt(k) == iconHeaderSize + iconDirEntrySize * (k - 1)

\* The offset of the first image: after a directory of eight entries.
FirstOffset == iconHeaderSize + iconDirEntrySize * 8

\* The offset moved on by the size of the image that comes next.
MutOffsetAfter(offset, k) == IF k < 8 THEN offset + getBMPSize(Sides[k + 1]) ELSE offset
OffsetAfter(offset, k) == IF k < 8 THEN offset + getBMPSize(Sides[k]) ELSE offset

\* The size patched into the entry after the last.
MutPatchAt == iconHeaderSize + iconDirEntrySize * 8 + 8
PatchAt == iconHeaderSize + iconDirEntrySize * 7 + 8

writeIconDirEntry(f, side, offset) ==
  PutWord(PutWord(Put(f, 8), "LE", side * side * 4 + 40), "LE", offset)

-----------------------------------------------------------------------------
Init ==
  /\ pc = "open" /\ small \in BOOLEAN
  /\ file = EmptyFile /\ iconOffset = 0 /\ written = 0

Open ==
  /\ pc = "open"
  /\ pc' = "header"
  /\ UNCHANGED <<small, file, iconOffset, written>>

\* fopen returns NULL and the first fputc is given it.
OpenFails ==
  /\ pc = "open"
  /\ pc' = "crashed"
  /\ UNCHANGED <<small, file, iconOffset, written>>

WriteHeader ==
  /\ pc = "header"
  /\ file' = Put(file, iconHeaderSize)
  /\ iconOffset' = FirstOffset
  /\ pc' = "entries"
  /\ UNCHANGED <<small, written>>

WriteEntry ==
  /\ pc = "entries" /\ written < Images
  /\ file' = writeIconDirEntry(file, Sides[written + 1], iconOffset)
  /\ iconOffset' = OffsetAfter(iconOffset, written + 1)
  /\ written' = written + 1
  /\ UNCHANGED <<pc, small>>

EndDirectory ==
  /\ pc = "entries" /\ written = Images
  /\ written' = 0
  /\ pc' = "images"
  /\ UNCHANGED <<small, file, iconOffset>>

\* scaleKeepAspect returns an image of the size it is asked for.
WriteBMP ==
  /\ pc = "images" /\ written < Images /\ written < 7
  /\ file' = PutPiece(file, written + 1, getBMPSize(Sides[written + 1]))
  /\ written' = written + 1
  /\ UNCHANGED <<pc, small, iconOffset>>

WritePNG ==
  /\ pc = "images" /\ written = 7
  /\ \E size \in PngSizes : file' = PutPiece(file, 8, size)
  /\ written' = 8
  /\ pc' = "patch"
  /\ UNCHANGED <<small, iconOffset>>

PatchSize ==
  /\ pc = "patch"
  /\ file' = PutWord(fseek(file, PatchAt), "LE", ftell(file) - iconOffset)
  /\ pc' = "close"
  /\ UNCHANGED <<small, iconOffset, written>>

Close ==
  /\ pc = "close" \/ (pc = "images" /\ small /\ written = Images)
  /\ pc' = "closed"
  /\ UNCHANGED <<small, file, iconOffset, written>>

Next ==
  \/ Open \/ OpenFails \/ WriteHeader \/ WriteEntry \/ EndDirectory
  \/ WriteBMP \/ WritePNG \/ PatchSize \/ Close

Spec == Init /\ [][Next]_vars

-----------------------------------------------------------------------------
(* Every entry of a finished file gives the place of its image, counted    *)
(* from the beginning of the file (writeIconDirEntry's last line), and the *)
(* last image ends where the file ends.  It takes the offsets computed     *)
(* beforehand to agree with what is written later.                         *)
EntriesPointAtImages ==
  pc = "closed" =>
    \A k \in 1..Images : \E x \in file.pieces :
      /\ x.id = k
      /\ Says(file, EntryAt(k) + 12, "LE", x.at)
      /\ k = Images => x.at + x.len = file.end

(* Every entry of a finished file gives the size of its image, that of the *)
(* PNG too, which is written as one more bitmap's and patched.             *)
EntriesGiveSizes ==
  pc = "closed" =>
    \A k \in 1..Images : \E x \in file.pieces :
      x.id = k /\ Says(file, EntryAt(k) + 8, "LE", x.len)

(* No write damages an image that is already in the file, the late one of  *)
(* the size of the PNG included.                                           *)
ImagesStay == [][file.pieces \subseteq file'.pieces]_vars
=============================================================================

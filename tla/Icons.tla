-------------------------------- MODULE Icons --------------------------------
(***************************************************************************)
(* The files that Sources/Icons.cpp writes by itself: main calls           *)
(* windowsIcon, macIcon or writeBMP, by the name of the format, and none   *)
(* of them comes back to main before its file is closed.                   *)
(***************************************************************************)
EXTENDS OutputFile

CONSTANTS Widths, Heights  \* of the images written as .bmp

ASSUME BmpSizesAssumption == Widths \subseteq Nat \ {0} /\ Heights \subseteq Nat \ {0}

VARIABLES
  format,                              \* "ico", "icns", "bmp"
  pc, file,
  small, iconOffset, written,          \* of windowsIcon
  icon08size, icon09size, icon10size,  \* of macIcon
  width, height, y                     \* of writeBMP

ico  == <<small, iconOffset, written>>
icns == <<icon08size, icon09size, icon10size>>
bmp  == <<width, height, y>>
vars == <<format, pc, file, ico, icns, bmp>>

Ico  == INSTANCE WindowsIcon
Icns == INSTANCE MacIcon
BMP  == INSTANCE Bmp

NoIco  == small = FALSE /\ iconOffset = 0 /\ written = 0
NoIcns == icon08size = 0 /\ icon09size = 0 /\ icon10size = 0
NoBmp  == width = 1 /\ height = 1 /\ y = 0

Init ==
  \/ format = "ico"  /\ Ico!Init  /\ NoIcns /\ NoBmp
  \/ format = "icns" /\ Icns!Init /\ NoIco  /\ NoBmp
  \/ format = "bmp"  /\ BMP!Init  /\ NoIco  /\ NoIcns

WriteIco  == format = "ico"  /\ Ico!Next  /\ UNCHANGED <<format, icns, bmp>>
WriteIcns == format = "icns" /\ Icns!Next /\ UNCHANGED <<format, ico, bmp>>
WriteBmp  == format = "bmp"  /\ BMP!Next  /\ UNCHANGED <<format, ico, icns>>

Next == WriteIco \/ WriteIcns \/ WriteBmp

Spec == Init /\ [][Next]_vars

-----------------------------------------------------------------------------
(* The properties of the three modules, each of its own format.            *)

(* Every entry of an .ico file gives the size of its image, that of the    *)
(* PNG too, which is patched in; and if there are eight of them the place. *)
DirectoryIsTrue ==
  format = "ico" => Ico!EntriesGiveSizes /\ (~small => Ico!EntriesPointAtImages)

(* "Specifies the offset of BMP or PNG data from the beginning of the      *)
(* ICO/CUR file" (Icons.cpp): so does every entry of every .ico file.      *)
EntriesPointAtImages == format = "ico" => Ico!EntriesPointAtImages

(* A reader that follows the lengths of an .icns file finds its chunks.    *)
ChunksTileTheFile == format = "icns" => Icns!ChunksTileTheFile

(* A .bmp file gives the size of its pixels as they are written, and its   *)
(* rows are found by a reader where a row takes a multiple of four bytes:  *)
(* writeBMP adds none to it.                                               *)
BmpReadsBack ==
  format = "bmp" =>
    BMP!DataSizeIsAnnounced /\ (BMP!row_width = 3 * width => BMP!RowsReadBack)

(* Images once in a file stay: neither a later image nor a number patched  *)
(* in hits one.                                                            *)
ImagesStay == [][file.pieces \subseteq file'.pieces]_vars
=============================================================================

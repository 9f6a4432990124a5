-------------------------------- MODULE HdrRle --------------------------------
(***************************************************************************)
(* The pixels of a .hdr file: stbiw__write_hdr_scanline                    *)
(* (Sources/stb_image_write.h), which writeHDR comes to, and the loop of   *)
(* stbi__hdr_load (Sources/stb_image.h), which readHDR comes to.           *)
(*                                                                         *)
(* A pixel is four bytes, RGBE.  How floats become those, and the header   *)
(* in text, are left out.  The file that is read is the one just written,  *)
(* or any other.                                                           *)
(***************************************************************************)
EXTENDS Integers, Sequences

CONSTANTS
  Top,       \* 128: what a count is above when it is that of a run
  MinWidth,  \* 8
  Pictures,  \* what may be written: sequences of scanlines
  Files,     \* what else may be read, with the size given in its header:
             \* [width, height, bytes]
  NONE       \* a byte never set

Channels == 0..3
Byte == 0..(2 * Top - 1)

\* A scanline has the bytes of each channel.
ASSUME RleAssumption ==
  /\ Top \in Nat /\ Top >= 2 /\ MinWidth \in Nat \ {0}
  /\ \A p \in Pictures : /\ p \in Seq([Channels -> Seq(Byte)]) /\ Len(p) > 0
       /\ \A k \in DOMAIN p, d \in Channels : Len(p[k][d]) = Len(p[1][0]) /\ Len(p[k][d]) > 0
  /\ \A f \in Files : f.width \in Nat /\ f.height \in Nat /\ f.bytes \in Seq(Byte)

VARIABLES
  pc,               \* "scanline", "search", "dump", "run" of the writer;
                    \* "row", "count", "flat" of the reader; "loaded", "failed"
  picture,          \* what is written, <<>> when only read
  width, height,
  j,                \* the scanline
  c,                \* the channel: c of the writer, k of the reader
  x, r,             \* the writer's place in it, and the end of what it writes next
  bytes,            \* the file
  at,               \* how much of it was read
  i,                \* the reader's place in a scanline
  scanline,         \* [channel -> bytes], what the reader has of it
  hdr_data          \* [row -> [column -> pixel]]

size   == <<picture, width, height>>
writer == <<x, r, bytes>>
reader == <<at, i, scanline, hdr_data>>
vars   == <<pc, size, j, c, writer, reader>>

Unset == [k \in Channels |-> [n \in 0..(width - 1) |-> NONE]]

Init ==
  /\ \/ /\ picture \in Pictures /\ width = Len(picture[1][0]) /\ height = Len(picture)
        /\ bytes = <<>> /\ pc = "scanline"
     \/ /\ picture = <<>> /\ pc = "row"
        /\ \E f \in Files : width = f.width /\ height = f.height /\ bytes = f.bytes
  /\ j = 0 /\ c = 0 /\ x = 0 /\ r = 0
  /\ at = 0 /\ i = 0 /\ scanline = Unset
  /\ hdr_data = [k \in 0..(height - 1) |-> [n \in 0..(width - 1) |-> NONE]]

-----------------------------------------------------------------------------
(* The writer.                                                             *)

Comp(n) == picture[j + 1][c][n + 1]
InBytes == [n \in 1..(4 * width) |-> picture[j + 1][(n - 1) % 4][(n - 1) \div 4 + 1]]

\* One more than the reader's.
MutWritesFlat == width <= MinWidth
WritesFlat == width < MinWidth \/ width >= Top * (2 * Top)

\* The next scanline, or the file is closed and read.
NextScanline ==
  /\ j' = (j + 1) % height
  /\ pc' = IF j + 1 < height THEN "scanline" ELSE "row"

WriteFlat ==
  /\ pc = "scanline" /\ WritesFlat
  /\ bytes' = bytes \o InBytes
  /\ NextScanline
  /\ UNCHANGED <<size, c, x, r, reader>>

\* A byte is below 2 * Top.
WriteHeader ==
  /\ pc = "scanline" /\ ~WritesFlat
  /\ bytes' = bytes \o <<2, 2, width \div (2 * Top), width % (2 * Top)>>
  /\ pc' = "search" /\ c' = 0 /\ x' = 0
  /\ UNCHANGED <<size, j, r, reader>>

\* Three in a row, from n on.
Three(n) == Comp(n) = Comp(n + 1) /\ Comp(n) = Comp(n + 2)

Runs == { n \in x..(width - 3) : Three(n) }
FirstRun == IF Runs = {} THEN width ELSE CHOOSE n \in Runs : \A m \in Runs : n <= m

\* A channel is finished, or the next run looked for.
Search ==
  /\ pc = "search"
  /\ IF x < width
     THEN r' = FirstRun /\ pc' = "dump" /\ UNCHANGED <<j, c, x>>
     ELSE /\ x' = 0 /\ c' = (c + 1) % 4
          /\ IF c < 3 THEN UNCHANGED <<pc, j>> ELSE NextScanline
          /\ UNCHANGED r
  /\ UNCHANGED <<size, bytes, reader>>

MaxDump == Top
\* A run of Top would have the count 2 * Top, which is no byte.
MutMaxRun == Top
MaxRun  == Top - 1

\* STBIW_UCHAR keeps the low byte.
LengthByte(n) == n % (2 * Top)

\* One turn of the loop that dumps what lies before the run.
Dump ==
  /\ pc = "dump" /\ x < r
  /\ LET len == IF r - x > MaxDump THEN MaxDump ELSE r - x
     IN  /\ bytes' = bytes \o <<LengthByte(len)>> \o [n \in 1..len |-> Comp(x + n - 1)]
         /\ x' = x + len
  /\ UNCHANGED <<pc, size, j, c, r, reader>>

EndOfRun == CHOOSE n \in x..width :
  /\ \A m \in x..(n - 1) : Comp(m) = Comp(x)
  /\ n < width => Comp(n) # Comp(x)

StartRun ==
  /\ pc = "dump" /\ x = r
  /\ IF r + 2 < width THEN r' = EndOfRun /\ pc' = "run" ELSE pc' = "search" /\ UNCHANGED r
  /\ UNCHANGED <<size, j, c, x, bytes, reader>>

\* One turn of the loop that writes the run.
Run ==
  /\ pc = "run"
  /\ IF x < r
     THEN LET len == IF r - x > MaxRun THEN MaxRun ELSE r - x
          IN  /\ bytes' = bytes \o <<LengthByte(len + Top), Comp(x)>>
              /\ x' = x + len /\ UNCHANGED pc
     ELSE pc' = "search" /\ UNCHANGED <<x, bytes>>
  /\ UNCHANGED <<size, j, c, r, reader>>

-----------------------------------------------------------------------------
(* The reader.                                                             *)

\* stbi__get8: zeros after the end.
get8(n) == IF at + n <= Len(bytes) THEN bytes[at + n] ELSE 0
Past(n) == at' = IF at + n <= Len(bytes) THEN at + n ELSE Len(bytes)

\* stbi__getn: what is not there is left unset.
getn == [k \in Channels |-> IF at + k + 1 <= Len(bytes) THEN bytes[at + k + 1] ELSE NONE]

ReadsFlat == width < MinWidth \/ width >= Top * (2 * Top)

IsRle == get8(1) = 2 /\ get8(2) = 2 /\ get8(3) < Top

NextRow ==
  /\ j' = j + 1
  /\ pc' = IF j + 1 < height THEN "row" ELSE "loaded"

\* The pixel the first four bytes are goes to the first place of all, and what
\* follows is flat.
NotRle ==
  /\ hdr_data' = [hdr_data EXCEPT ![0][0] = [k \in Channels |-> get8(k + 1)]]
  /\ Past(4) /\ i' = 1 /\ j' = 0 /\ pc' = "flat"
  /\ UNCHANGED <<c, scanline>>

\* Header of a scanline.
ReadRow ==
  /\ pc = "row"
  /\ IF ReadsFlat THEN i' = 0 /\ pc' = "flat" /\ UNCHANGED <<at, j, c, scanline, hdr_data>>
     ELSE IF ~IsRle THEN NotRle
     ELSE /\ Past(4)
          /\ pc' = IF get8(3) * (2 * Top) + get8(4) = width THEN "count" ELSE "failed"
          /\ i' = 0 /\ c' = 0
          /\ UNCHANGED <<j, scanline, hdr_data>>
  /\ UNCHANGED <<size, writer>>

ReadFlat ==
  /\ pc = "flat"
  /\ IF i < width
     THEN /\ hdr_data' = [hdr_data EXCEPT ![j][i] = getn]
          /\ Past(4) /\ i' = i + 1 /\ UNCHANGED <<pc, j>>
     ELSE /\ i' = 0 /\ j' = j + 1 /\ UNCHANGED <<at, hdr_data>>
          /\ pc' = IF j + 1 < height THEN "flat" ELSE "loaded"
  /\ UNCHANGED <<size, c, writer, scanline>>

nleft == width - i

\* What a run, or a dump, puts into the scanline, and how much it has read.
Filled(count, value) ==
  scanline' = [scanline EXCEPT ![c] = [n \in DOMAIN scanline[c] |->
                 IF n \in i..(i + count - 1) THEN value[n - i] ELSE scanline[c][n]]]

MutCount(count) == count <= width
\* What is left of the scanline is room enough.
CountFits(count) == count <= nleft

ReadCount ==
  /\ pc = "count" /\ nleft > 0
  /\ LET run == get8(1) > Top
         count == IF run THEN get8(1) - Top ELSE get8(1)
     IN  IF ~CountFits(count)
         THEN /\ pc' = "failed" /\ Past(IF run THEN 2 ELSE 1)
              /\ UNCHANGED <<i, scanline>>
         ELSE /\ IF run THEN Filled(count, [n \in 0..(count - 1) |-> get8(2)]) /\ Past(2)
                 ELSE Filled(count, [n \in 0..(count - 1) |-> get8(n + 2)]) /\ Past(count + 1)
              /\ i' = i + count /\ UNCHANGED pc
  /\ UNCHANGED <<size, j, c, writer, hdr_data>>

EndOfChannel ==
  /\ pc = "count" /\ nleft <= 0
  /\ i' = 0
  /\ IF c < 3 THEN c' = c + 1 /\ UNCHANGED <<pc, j, hdr_data>>
     ELSE /\ c' = 0
          /\ hdr_data' = [hdr_data EXCEPT ![j] =
               [n \in DOMAIN @ |-> [k \in Channels |-> scanline[k][n]]]]
          /\ NextRow
  /\ UNCHANGED <<size, writer, at, scanline>>

-----------------------------------------------------------------------------
Write == WriteFlat \/ WriteHeader \/ Search \/ Dump \/ StartRun \/ Run
Load  == ReadRow \/ ReadFlat \/ ReadCount \/ EndOfChannel

Next == Write \/ Load

Spec == Init /\ [][Next]_vars
\* One thread that nothing stops.
FairSpec == Spec /\ WF_vars(Next)

-----------------------------------------------------------------------------
(* Properties.                                                             *)

\* What readHDR loads from a file that writeHDR has written is the picture,
\* to the last byte of it, and nothing of the file is left over.
ReadsBack ==
  picture # <<>> /\ pc \in {"loaded", "failed"} =>
    /\ pc = "loaded" /\ at = Len(bytes)
    /\ \A k \in 0..(height - 1), n \in 0..(width - 1) :
         hdr_data[k][n] = [d \in Channels |-> picture[k + 1][d][n + 1]]

\* Whatever the file says, no byte is put behind the end of a scanline.
InScanline == i <= width

\* A picture is written, and read again, to its end.
Ends == picture # <<>> => <>(pc \in {"loaded", "failed"})

\* "The return value from an image loader is an 'unsigned char *' which points
\* to the pixel data, or NULL on an allocation failure or if the image is
\* corrupt or invalid" (stb_image.h): the loader returns, whatever the file.
LoaderReturns == <>(pc \in {"loaded", "failed"})
=============================================================================

------------------------------ MODULE JpegReader ------------------------------
(***************************************************************************)
(* readJPEG (Sources/main.cpp) and what it relies on in libjpeg: the order *)
(* the calls must come in (global_state), the data source that never      *)
(* suspends, the input controller that reads markers and scans, and the    *)
(* error handler that leaves any of these calls by longjmp.                *)
(*                                                                         *)
(* A file is a sequence of pieces: a marker with its segment, the data of  *)
(* one row of MCUs, or bytes that are neither ("junk").  After its end the *)
(* data source goes on with EOI markers of its own.  A segment that is cut *)
(* off or makes no sense is "bad", a marker below SOF0 "reserved".  "DRI1" *)
(* and "DRI2" announce the restart markers "RST0" to "RST7", after one row *)
(* of MCUs or after two: the intervals are whole rows here, where the      *)
(* source counts MCUs.                                                     *)
(*                                                                         *)
(* What the main controller and the upsampler do with a row of MCUs is     *)
(* module JpegMainController; here it is the number of them a scanline     *)
(* needs.                                                                  *)
(***************************************************************************)
EXTENDS JpegRows, Sequences
LOCAL INSTANCE FiniteSetsExt

CONSTANTS
  Files,   \* the files there may be
  Shapes,  \* what their headers say of the picture: [height, iMCU, group, context]
  NONE

\* output_height; scanlines in a row of MCUs, and in a row group; whether the
\* upsampler looks at neighbouring rows.
ASSUME ShapesAssumption == \A f \in Shapes :
  /\ f.height \in Nat \ {0} /\ f.group \in Nat \ {0} /\ f.context \in BOOLEAN
  /\ \E k \in 2..f.iMCU : f.iMCU = k * f.group

ASSUME FilesAssumption == \A f \in Files : f \in Seq(STRING)

\* No error is none of these.
ASSUME NoneAssumption == NONE \notin {"BAD_STATE", "SOS_NO_SOF", "EOI_EXPECTED"}

VARIABLES
  pc,                 \* where readJPEG is; "handler" is the return of setjmp
  infile,             \* "none", "open", "closed"; "misused" once read or closed when not open
  file, at,           \* what it holds, and how much of it was read
  shape,              \* of the picture in it
  start_of_file,      \* nothing read yet?
  pixels,             \* what each row of image.pixels holds: "unset", "picture", "grey",
                      \* or "beyond" what the row's buffer has
  result,             \* "none", "image", or "null" for Image(NULL, 0, 0)
  error,              \* what the last ERREXIT said
  mem,                \* the pools that hold something, or NONE without a manager
  global_state,
  unread_marker, saw_SOI, saw_SOF, tables,
  comps,              \* num_components
  restart_interval,   \* in rows of MCUs; 0 without restart markers
  progressive_mode, comps_in_scan,
  inheaders, has_multiple_scans, eoi_reached,
  consume_input,      \* "markers" or "data"
  insufficient_data,
  input_iMCU_row, output_iMCU_row,
  decoded,            \* the rows of MCUs that came out of data of the file
  output_scanline,
  returned            \* what jpeg_finish_decompress returned

app    == <<infile, pixels, result>>
source == <<file, shape, at, start_of_file>>
marker == <<unread_marker, saw_SOI, saw_SOF, tables, comps, restart_interval,
            progressive_mode, comps_in_scan>>
input  == <<inheaders, has_multiple_scans, eoi_reached, consume_input>>
rows   == <<insufficient_data, input_iMCU_row, output_iMCU_row, decoded, output_scanline>>
lib    == <<mem, global_state>>
vars   == <<pc, app, source, error, lib, marker, input, rows, returned>>

Height == shape.height
total_iMCU_rows == IMCURows(Height, shape.iMCU)
Needed(y) == RowsNeeded(Height, shape.iMCU, shape.group, shape.context, y)

-----------------------------------------------------------------------------
(* The data source (jdatasrc.c).                                           *)

\* fread of no more than there is; the library asks until it has a piece.
AtEnd == at >= Len(file)
\* Zeros after the end, and no EOI.
MutPieceAt(k) == IF k > Len(file) THEN "junk" ELSE file[k]
PieceAt(k) == IF k > Len(file) THEN "EOI" ELSE file[k]
Piece == PieceAt(at + 1)
\* An empty file is an error, any other goes on with EOI.
MutEmpty == AtEnd
Empty == AtEnd /\ start_of_file
ReadTo(k) == at' = Min2(k, Len(file)) /\ start_of_file' = FALSE /\ UNCHANGED <<file, shape>>
ReadPiece == ReadTo(at + 1)

\* A use of the file that was closed, or never opened.
Use(next) == infile' = IF infile = "open" THEN next ELSE "misused"

-----------------------------------------------------------------------------
(* Errors: error_exit is my_error_exit, which leaves for the handler.      *)

ErrorExit(e) ==
  /\ error' = e /\ pc' = "handler"
  /\ UNCHANGED <<app, source, lib, marker, input, rows, returned>>

\* A call that is right in some states only.
InState(states, call) ==
  IF global_state \in states THEN call ELSE ErrorExit("BAD_STATE")

\* The memory manager may find no more.
OutOfMemory ==
  /\ pc \in {"create", "stdio_src", "header", "start", "alloc"}
  /\ ErrorExit("OUT_OF_MEMORY")

-----------------------------------------------------------------------------
Init ==
  /\ pc = "open" /\ infile = "none" /\ file \in Files /\ shape \in Shapes /\ at = 0
  /\ start_of_file = TRUE /\ pixels = [y \in 0..(Height - 1) |-> "unset"]
  /\ result = "none" /\ error = NONE
  /\ mem = NONE /\ global_state = "unset"
  /\ unread_marker = NONE /\ saw_SOI = FALSE /\ saw_SOF = FALSE /\ tables = FALSE
  /\ comps = 0 /\ restart_interval = 0 /\ progressive_mode = FALSE /\ comps_in_scan = 0
  /\ inheaders = TRUE /\ has_multiple_scans = FALSE /\ eoi_reached = FALSE
  /\ consume_input = "markers" /\ insufficient_data = FALSE
  /\ input_iMCU_row = 0 /\ output_iMCU_row = 0 /\ decoded = {} /\ output_scanline = 0
  /\ returned = NONE

Open ==
  /\ pc = "open"
  /\ \/ infile' = "open" /\ pc' = "create" /\ UNCHANGED result
     \/ result' = "null" /\ pc' = "returned" /\ UNCHANGED infile
  /\ UNCHANGED <<pixels, source, error, lib, marker, input, rows, returned>>

\* The manager first; the marker reader and the input controller live in the
\* permanent pool.  Where the memory ends decides whether there is a manager
\* when the handler destroys the struct.
CreateDecompress ==
  /\ pc = "create"
  /\ mem' = {"permanent"} /\ global_state' = "START" /\ pc' = "stdio_src"
  /\ UNCHANGED <<app, source, error, marker, input, rows, returned>>

CreateFails ==
  /\ pc = "create"
  /\ mem' = {"permanent"} /\ error' = "OUT_OF_MEMORY" /\ pc' = "handler"
  /\ UNCHANGED <<app, source, global_state, marker, input, rows, returned>>

\* The header is not read.
MutStdioSrc ==
  /\ pc = "stdio_src" /\ pc' = "start"
  /\ UNCHANGED <<app, source, error, lib, marker, input, rows, returned>>

StdioSrc ==
  /\ pc = "stdio_src" /\ pc' = "read_header"
  /\ UNCHANGED <<app, source, error, lib, marker, input, rows, returned>>

-----------------------------------------------------------------------------
(* jpeg_read_header: reset_input_controller, init_source, and then the     *)
(* markers up to the first SOS.                                            *)

ReadHeader ==
  /\ pc = "read_header"
  /\ InState({"START", "INHEADER"},
       /\ start_of_file' = TRUE /\ global_state' = "INHEADER" /\ pc' = "header"
       /\ inheaders' = TRUE /\ has_multiple_scans' = FALSE /\ eoi_reached' = FALSE
       /\ consume_input' = "markers"
       /\ unread_marker' = NONE /\ saw_SOI' = FALSE /\ saw_SOF' = FALSE
       /\ UNCHANGED <<app, file, shape, at, error, mem, tables, comps, restart_interval,
                      progressive_mode, comps_in_scan, rows, returned>>)

\* One turn of read_markers.  Three calls come to it: jpeg_read_header, the
\* loop of jpeg_start_decompress over all scans, and jpeg_finish_decompress.
Reading ==
  /\ pc \in {"header", "preload", "finish"}
  /\ consume_input = "markers" /\ ~eoi_reached

Fetched == IF unread_marker = NONE THEN Piece ELSE unread_marker

\* The piece is taken from the file, or was met by the entropy decoder before.
Take(kinds) ==
  /\ Reading /\ Fetched \in kinds
  /\ ~(unread_marker = NONE /\ Empty)
  /\ IF unread_marker = NONE THEN Use("open") /\ ReadPiece
     ELSE UNCHANGED <<infile, source>>
  /\ unread_marker' = NONE

Frames == {"SOFgrey", "SOF", "SOFprog", "SOFcmyk"}
Scans  == {"SOS", "SOSpart"}

\* first_marker: a file begins with SOI.
NoSoi ==
  /\ Reading /\ unread_marker = NONE
  /\ Empty \/ (~saw_SOI /\ Piece # "SOI")
  /\ ErrorExit(IF Empty THEN "INPUT_EMPTY" ELSE "NO_SOI")

GetSoi ==
  /\ Take({"SOI"})
  /\ IF saw_SOI THEN /\ error' = "SOI_DUPLICATE" /\ pc' = "handler"
                     /\ UNCHANGED <<saw_SOI, restart_interval>>
     ELSE saw_SOI' = TRUE /\ restart_interval' = 0 /\ UNCHANGED <<pc, error>>
  /\ UNCHANGED <<pixels, result, lib, saw_SOF, tables, comps, progressive_mode,
                 comps_in_scan, input, rows, returned>>

Components(f) == CASE f = "SOFgrey" -> 1 [] f = "SOFcmyk" -> 4 [] OTHER -> 3

GetSof ==
  /\ saw_SOI
  /\ Take(Frames)
  /\ progressive_mode' = (Fetched = "SOFprog")
  /\ comps' = Components(Fetched)
  /\ IF saw_SOF THEN /\ error' = "SOF_DUPLICATE" /\ pc' = "handler"
                     /\ UNCHANGED <<saw_SOF, mem>>
     ELSE /\ saw_SOF' = TRUE /\ mem' = mem \union {"image"}
          /\ UNCHANGED <<pc, error>>
  /\ UNCHANGED <<pixels, result, global_state, saw_SOI, tables, restart_interval,
                 comps_in_scan, input, rows, returned>>

Intervals == [DRI1 |-> 1, DRI2 |-> 2]
Restarts  == <<"RST0", "RST1", "RST2", "RST3", "RST4", "RST5", "RST6", "RST7">>
Rst(n)    == Restarts[(n % 8) + 1]
AllRst    == { Restarts[j] : j \in 1..8 }

\* What next_marker passes over.
Skipped == {"data", "junk"}

\* DHT, DQT, DRI, APPn, COM, DNL, RSTn; and bytes next_marker passes over.
GetTables ==
  /\ saw_SOI
  /\ Take({"tables"} \union DOMAIN Intervals \union AllRst \union Skipped)
  /\ tables' = (tables \/ Fetched = "tables")
  /\ restart_interval' =
       IF Fetched \in DOMAIN Intervals THEN Intervals[Fetched] ELSE restart_interval
  /\ UNCHANGED <<pc, pixels, result, error, lib, saw_SOI, saw_SOF, comps,
                 progressive_mode, comps_in_scan, input, rows, returned>>

\* A frame that is not supported, an unknown marker, a length that is wrong.
BadMarker ==
  /\ saw_SOI
  /\ Take({"bad", "reserved"})
  /\ error' = "BAD_MARKER" /\ pc' = "handler"
  /\ UNCHANGED <<pixels, result, lib, saw_SOI, saw_SOF, tables, comps, restart_interval,
                 progressive_mode, comps_in_scan, input, rows, returned>>

\* per_scan_setup, latch_quant_tables, the entropy decoder's start_pass and the
\* coefficient controller's: what starts a scan.
StartInputPass ==
  /\ consume_input' = "data" /\ insufficient_data' = FALSE /\ input_iMCU_row' = 0

\* The second scan of a single one is no error.
MutScanError == IF ~saw_SOF THEN "SOS_NO_SOF" ELSE NONE
ScanError ==
  IF ~saw_SOF THEN "SOS_NO_SOF"
  ELSE IF ~inheaders /\ ~has_multiple_scans THEN "EOI_EXPECTED" ELSE NONE

\* get_sos and consume_markers on it: initial_setup for the first, a new input
\* pass for the others.
ReachedSos ==
  /\ saw_SOI
  /\ Take(Scans)
  /\ comps_in_scan' = IF Fetched = "SOSpart" THEN 1 ELSE comps
  /\ IF ScanError # NONE
     THEN /\ error' = ScanError /\ pc' = "handler"
          /\ UNCHANGED <<global_state, input, rows>>
     ELSE IF inheaders
     THEN /\ inheaders' = FALSE
          /\ has_multiple_scans' = (comps_in_scan' < comps \/ progressive_mode)
          /\ global_state' = "READY" /\ pc' = "start"
          /\ UNCHANGED <<error, eoi_reached, consume_input, rows>>
     ELSE /\ StartInputPass
          /\ UNCHANGED <<pc, error, global_state, inheaders, has_multiple_scans,
                         eoi_reached, output_iMCU_row, decoded, output_scanline>>
  /\ UNCHANGED <<pixels, result, mem, saw_SOI, saw_SOF, tables, comps,
                 restart_interval, progressive_mode, returned>>

\* An EOI in the header: no image, or none that could be decoded.
ReachedEoi ==
  /\ saw_SOI
  /\ Take({"EOI"})
  /\ eoi_reached' = TRUE
  /\ IF inheaders
     THEN error' = (IF saw_SOF THEN "SOF_NO_SOS" ELSE "NO_IMAGE") /\ pc' = "handler"
     ELSE UNCHANGED <<pc, error>>
  /\ UNCHANGED <<pixels, result, lib, saw_SOI, saw_SOF, tables, comps, restart_interval,
                 progressive_mode, comps_in_scan, inheaders, has_multiple_scans, consume_input, rows,
                 returned>>

-----------------------------------------------------------------------------
(* Scans.                                                                  *)

\* process_restart comes before this row of MCUs, and this is the marker's number.
RestartDue(i) == restart_interval # 0 /\ i # 0 /\ i % restart_interval = 0
next_restart_num(i) == i \div restart_interval - 1

\* jpeg_resync_to_restart: it reads on from a marker that makes no sense and from
\* one of the two before the desired one, keeps one of the two after it and any
\* other kind of marker, and lets the others go with the desired one.
Before(d) == {"reserved", Rst(d - 1), Rst(d - 2)}
\* The second one after it is let go.
MutAfter(d) == {Rst(d + 1)}
After(d) == {Rst(d + 1), Rst(d + 2)}

\* Where it comes to stand when it reads on: behind the first that is neither.
Resynced(d) ==
  LET passed == Skipped \union Before(d)
  IN  { k \in (at + 1)..(Len(file) + 1) :
          PieceAt(k) \notin passed /\ \A j \in (at + 1)..(k - 1) : PieceAt(j) \in passed }

\* decode_mcu over one row of MCUs, when k pieces are read and `met` is a marker
\* behind which the decoder cannot go: from data, or grey once that ran out.
FillRow(i, k, met, ran_out) ==
  IF met # NONE \/ ran_out
  THEN /\ insufficient_data' = TRUE /\ unread_marker' = met /\ UNCHANGED decoded
       /\ IF k = at THEN UNCHANGED <<infile, source>> ELSE Use("open") /\ ReadTo(k)
  ELSE /\ Use("open") /\ ReadTo(k + 1)
       /\ IF PieceAt(k + 1) \in Skipped
          THEN /\ decoded' = decoded \union {i} /\ insufficient_data' = FALSE
               /\ unread_marker' = NONE
          ELSE /\ unread_marker' = PieceAt(k + 1) /\ insufficient_data' = TRUE
               /\ UNCHANGED decoded

\* The row after a restart that found this marker.
Restarted(i, k, found) ==
  LET kept == found \notin AllRst \/ found \in After(next_restart_num(i))
  IN  FillRow(i, k, IF kept THEN found ELSE NONE, kept /\ insufficient_data)

DecodeRow(i) ==
  LET d == next_restart_num(i)
  IN  \/ /\ ~RestartDue(i)
         /\ FillRow(i, at, unread_marker, insufficient_data)
      \/ /\ RestartDue(i) /\ unread_marker \notin Before(d) \union {NONE}
         /\ Restarted(i, at, unread_marker)
      \/ /\ RestartDue(i) /\ unread_marker \in Before(d) \union {NONE}
         /\ \E k \in Resynced(d) : Restarted(i, k, PieceAt(k))

\* The last row of MCUs ends the pass: finish_input_pass.
AfterRow == IF input_iMCU_row + 1 < total_iMCU_rows THEN "data" ELSE "markers"

\* jpeg_start_decompress: master_selection starts the first scan.
StartDecompress ==
  /\ pc = "start"
  /\ InState({"READY"},
       IF ~tables THEN ErrorExit("NO_TABLE")
       ELSE /\ StartInputPass
            /\ IF has_multiple_scans
               THEN /\ global_state' = "PRELOAD" /\ pc' = "preload"
                    /\ UNCHANGED <<output_iMCU_row, output_scanline>>
               ELSE /\ global_state' = "SCANNING" /\ pc' = "alloc"
                    /\ output_iMCU_row' = 0 /\ output_scanline' = 0
            /\ UNCHANGED <<app, source, error, mem, marker, inheaders,
                           has_multiple_scans, eoi_reached, decoded, returned>>)

\* consume_data, in the loop that absorbs all scans.
ConsumeData ==
  /\ pc = "preload" /\ consume_input = "data"
  /\ DecodeRow(input_iMCU_row)
  /\ input_iMCU_row' = input_iMCU_row + 1
  /\ consume_input' = AfterRow
  /\ UNCHANGED <<pc, pixels, result, error, lib, saw_SOI, saw_SOF, tables, comps,
                 restart_interval, progressive_mode, comps_in_scan, inheaders,
                 has_multiple_scans, eoi_reached, output_iMCU_row, output_scanline,
                 returned>>

\* JPEG_REACHED_EOI ends that loop: output_pass_setup.
OutputPassSetup ==
  /\ pc = "preload" /\ eoi_reached
  /\ global_state' = "SCANNING" /\ pc' = "alloc"
  /\ output_iMCU_row' = 0 /\ output_scanline' = 0
  /\ UNCHANGED <<app, source, error, mem, marker, input, insufficient_data,
                 input_iMCU_row, decoded, returned>>

-----------------------------------------------------------------------------
(* The rows: malloc of the image, alloc_sarray of one row, and the loop.   *)

\* The buffer has num_components samples for each column, and the three at
\* x * num_components are taken: those of one component are not enough.
Filled(y) ==
  IF comps < 3 THEN "beyond" ELSE IF y \div shape.iMCU \in decoded' THEN "picture" ELSE "grey"

AllocRow ==
  /\ pc = "alloc"
  /\ mem' = mem \union {"image"} /\ pc' = "loop"
  /\ UNCHANGED <<app, source, error, global_state, marker, input, rows, returned>>

Waits == output_iMCU_row < Needed(output_scanline)

\* One turn of the loop: jpeg_read_scanlines for one line, and its copy into
\* image.pixels.  In the multipass case decompress_data waits for the input
\* to be ahead: it would try for ever.
ReadScanlines ==
  /\ pc = "loop" /\ output_scanline < Height
  /\ InState({"SCANNING"},
       /\ Waits /\ has_multiple_scans => input_iMCU_row > output_iMCU_row
       /\ IF Waits /\ ~has_multiple_scans
          THEN /\ DecodeRow(input_iMCU_row)
               /\ input_iMCU_row' = input_iMCU_row + 1
               /\ consume_input' = AfterRow
          ELSE UNCHANGED <<infile, source, unread_marker, insufficient_data, decoded,
                           input_iMCU_row, consume_input>>
       /\ output_iMCU_row' = IF Waits THEN output_iMCU_row + 1 ELSE output_iMCU_row
       /\ pixels' = [pixels EXCEPT ![output_scanline] = Filled(output_scanline)]
       /\ output_scanline' = output_scanline + 1
       /\ UNCHANGED <<pc, result, error, lib, saw_SOI, saw_SOF, tables, comps,
                      restart_interval, progressive_mode, comps_in_scan, inheaders,
                      has_multiple_scans, eoi_reached, returned>>)

\* jpeg_finish_decompress up to its loop.
FinishDecompress ==
  /\ pc = "loop" /\ output_scanline >= Height
  /\ InState({"SCANNING"},
       /\ global_state' = "STOPPING" /\ pc' = "finish"
       /\ UNCHANGED <<app, source, error, mem, marker, input, rows, returned>>)

\* Its end: everything read, or no way to read on.  jpeg_abort frees all but
\* the permanent pool.
Finished ==
  /\ pc = "finish" /\ (eoi_reached \/ consume_input = "data")
  /\ returned' = eoi_reached /\ pc' = "destroy"
  /\ mem' = IF eoi_reached THEN {"permanent"} ELSE mem
  /\ global_state' = IF eoi_reached THEN "START" ELSE global_state
  /\ UNCHANGED <<app, source, error, marker, input, rows>>

Destroyed == mem' = NONE /\ global_state' = "destroyed"

DestroyDecompress ==
  /\ pc = "destroy" /\ Destroyed /\ pc' = "close"
  /\ UNCHANGED <<app, source, error, marker, input, rows, returned>>

Close ==
  /\ pc = "close" /\ Use("closed")
  /\ result' = "image" /\ pc' = "returned"
  /\ UNCHANGED <<pixels, source, error, lib, marker, input, rows, returned>>

\* The file is left to the handler's caller.
MutHandler ==
  /\ pc = "handler" /\ Destroyed
  /\ result' = "null" /\ pc' = "returned"
  /\ UNCHANGED <<infile, pixels, source, error, marker, input, rows, returned>>

\* setjmp returns a second time.
Handler ==
  /\ pc = "handler" /\ Destroyed /\ Use("closed")
  /\ result' = "null" /\ pc' = "returned"
  /\ UNCHANGED <<pixels, source, error, marker, input, rows, returned>>

-----------------------------------------------------------------------------
ReadMarkers ==
  NoSoi \/ GetSoi \/ GetSof \/ GetTables \/ BadMarker \/ ReachedSos \/ ReachedEoi

Next ==
  \/ Open \/ CreateDecompress \/ CreateFails \/ OutOfMemory \/ StdioSrc
  \/ ReadHeader \/ ReadMarkers \/ StartDecompress \/ ConsumeData \/ OutputPassSetup
  \/ AllocRow \/ ReadScanlines \/ FinishDecompress \/ Finished
  \/ DestroyDecompress \/ Close \/ Handler

Spec == Init /\ [][Next]_vars
FairSpec == Spec /\ WF_vars(Next)

-----------------------------------------------------------------------------
(* Properties.                                                             *)

\* readJPEG makes libjpeg's calls in an order it allows, also when calls fail:
\* no call finds the struct in a state it refuses.
NeverBadState == error # "BAD_STATE"

\* Whatever call fails: the file is read and closed while it is open, and once
\* readJPEG has returned it is closed and the struct holds no memory.
ReleasedOnReturn ==
  /\ infile # "misused"
  /\ pc = "returned" => mem = NONE /\ infile # "open"

\* What readJPEG ignores it may ignore: an image that is returned had all its
\* rows filled, and jpeg_finish_decompress came to the end of the file.
ImageIsWhole ==
  result = "image" => returned /\ \A y \in DOMAIN pixels : pixels[y] # "unset"

IsFirstScan(f, k) == f[k] \in Scans /\ \A j \in 1..(k - 1) : f[j] \notin Scans
FirstScan(f) == CHOOSE k \in DOMAIN f : IsFirstScan(f, k)
\* A file with colours that is in order up to its first scan and has nothing
\* wrong after it, though it may end anywhere.
Damaged(f) ==
  /\ \E k \in DOMAIN f : IsFirstScan(f, k)
  /\ f[1] = "SOI" /\ \A k \in DOMAIN f : f[k] = "SOI" => k = 1
  /\ \A k \in DOMAIN f : f[k] \notin {"SOFgrey", "bad", "reserved"}
  /\ LET head == 1..(FirstScan(f) - 1)
     IN  /\ \E k \in head :
              f[k] \in Frames /\ \A j \in DOMAIN f : f[j] \in Frames => j = k
         /\ \E k \in head : f[k] = "tables"
         /\ \A k \in head : f[k] # "EOI"
         /\ \/ \A k \in DOMAIN f : f[k] \in Scans => k = FirstScan(f)
            \/ \E k \in head : f[k] = "SOFprog"
            \/ f[FirstScan(f)] = "SOSpart"

\* The first scan, without restarts, has data for this row of MCUs and for all
\* before it.
Intact(f, row) ==
  LET k == FirstScan(f)
  IN  /\ \A j \in 1..(k - 1) : f[j] \notin DOMAIN Intervals
      /\ \A j \in (k + 1)..(k + 1 + row) : j <= Len(f) /\ f[j] \in {"data", "junk"}

\* "This will allow the decompressor to output however much of the image is
\* there" (jdatasrc.c): a file that was cut off still gives an image, and the
\* rows whose data is there are in it.
DamagedIsShown ==
  (pc = "returned" /\ infile = "closed" /\ error # "OUT_OF_MEMORY" /\ Damaged(file)) =>
    /\ result = "image"
    /\ \A y \in DOMAIN pixels :
         Intact(file, y \div shape.iMCU) => pixels[y] = "picture"

RestartsIn(f) == { k \in DOMAIN f : f[k] \in AllRst }
NumberAt(f, k) == (CHOOSE j \in 1..8 : Restarts[j] = f[k]) - 1
\* By how many segments this restart marker leads on from the one before it.
LeadsOn(f, k) ==
  LET before == { j \in RestartsIn(f) : j < k }
  IN  (NumberAt(f, k) - (IF before = {} THEN -1 ELSE NumberAt(f, Max(before)))) % 8
\* Where the segment of the data at k begins, its number, and the data's place in it.
Begin(f, k) == Max({FirstScan(f)} \union { j \in RestartsIn(f) : j < k })
SegmentOf(f, k) == MapThenSumSet(LAMBDA j : LeadsOn(f, j), { j \in RestartsIn(f) : j < k })
PlaceIn(f, k) == k - Begin(f, k) - 1

\* Of a file with one scan some segments between restart markers were lost, but
\* never three in a row, and others were cut short.
Thinned(f) ==
  /\ Damaged(f) /\ f[FirstScan(f)] = "SOS"
  /\ \A k \in DOMAIN f : f[k] # "SOFprog"
  /\ \E k \in 1..(FirstScan(f) - 1) : f[k] \in DOMAIN Intervals
  /\ \A k, j \in DOMAIN f : f[k] \in DOMAIN Intervals /\ f[j] \in DOMAIN Intervals => k = j
  /\ \A k \in (FirstScan(f) + 1)..Len(f) :
       \/ f[k] = "data" /\ PlaceIn(f, k) < restart_interval
       \/ f[k] \in AllRst /\ LeadsOn(f, k) \in 1..3
       \/ f[k] = "EOI" /\ k = Len(f)
  /\ \A k \in RestartsIn(f) : k > FirstScan(f)

\* "To position the input stream to the next data segment" (jdmarker.c): the
\* resynchronisation keeps every row of MCUs at its place.  Of a file that lost
\* segments just those rows come out of data whose data is in the file.
RestartsKeepPlace ==
  (result = "image" /\ Thinned(file)) =>
    decoded = 0..(total_iMCU_rows - 1) \intersect
      { restart_interval * SegmentOf(file, k) + PlaceIn(file, k) :
          k \in { j \in (FirstScan(file) + 1)..Len(file) : file[j] = "data" } }

\* readJPEG returns for every file.
Returns == <>(pc = "returned")
=============================================================================

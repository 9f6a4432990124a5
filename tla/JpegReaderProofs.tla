--------------------------- MODULE JpegReaderProofs ---------------------------
(***************************************************************************)
(* Proofs about readJPEG, for every file and every shape of picture.       *)
(***************************************************************************)
EXTENDS JpegReader, WellFoundedInduction, TLAPS

-----------------------------------------------------------------------------
(* The calls: where readJPEG stands, what it holds and what libjpeg is     *)
(* ready for.  An image has come out of its header before it is decoded,   *)
(* so that a later SOS does not set global_state back.                     *)

CallInv ==
  /\ error # "BAD_STATE"
  /\ pc = "open" => infile = "none" /\ mem = NONE
  /\ pc \notin {"open", "returned"} => infile = "open"
  /\ pc = "create" => mem = NONE
  /\ pc \in {"stdio_src", "read_header"} => global_state = "START"
  /\ pc = "start" => global_state = "READY"
  /\ pc \in {"alloc", "loop"} => global_state = "SCANNING"
  /\ pc \in {"start", "preload", "alloc", "loop", "finish"} => ~inheaders
  /\ pc = "close" => mem = NONE
  /\ pc = "returned" => mem = NONE /\ infile \in {"none", "closed"}

LEMMA CallInit == Init => CallInv
BY NoneAssumption DEF Init, CallInv

\* An error ends the calls; the file is still open then.
LEMMA CallError ==
  ASSUME CallInv, NEW e, e # "BAD_STATE", ErrorExit(e), infile = "open"
  PROVE  CallInv'
BY DEF CallInv, ErrorExit, app, source, lib, marker, input, rows

LEMMA CallMarkers ==
  ASSUME CallInv, ReadMarkers
  PROVE  CallInv'
<1> USE DEF CallInv, Take, Reading, Use, app, source, lib, marker, input, rows
<1>1. ASSUME NoSoi PROVE CallInv'
  BY <1>1, CallError DEF NoSoi
<1>2. ASSUME GetSoi PROVE CallInv'
  BY <1>2 DEF GetSoi
<1>3. ASSUME GetSof PROVE CallInv'
  BY <1>3 DEF GetSof
<1>4. ASSUME GetTables PROVE CallInv'
  BY <1>4 DEF GetTables
<1>5. ASSUME BadMarker PROVE CallInv'
  BY <1>5 DEF BadMarker
<1>6. ASSUME ReachedSos PROVE CallInv'
  BY <1>6 DEF ReachedSos, ScanError, StartInputPass
<1>7. ASSUME ReachedEoi PROVE CallInv'
  BY <1>7 DEF ReachedEoi
<1> QED
  BY <1>1, <1>2, <1>3, <1>4, <1>5, <1>6, <1>7 DEF ReadMarkers

\* A row of MCUs leaves the file open, and is added to those that came out of it.
LEMMA FillKeeps ==
  ASSUME NEW i, NEW k, NEW met, NEW ran_out, FillRow(i, k, met, ran_out)
  PROVE  /\ infile = "open" => infile' = "open"
         /\ file' = file /\ shape' = shape
         /\ \A d \in decoded : d \in decoded'
BY DEF FillRow, Use, ReadTo, source

LEMMA RowKeeps ==
  ASSUME NEW i, DecodeRow(i)
  PROVE  /\ infile = "open" => infile' = "open"
         /\ file' = file /\ shape' = shape
         /\ \A d \in decoded : d \in decoded'
BY FillKeeps DEF DecodeRow, Restarted

LEMMA CallStep ==
  ASSUME CallInv, [Next]_vars
  PROVE  CallInv'
<1> USE DEF CallInv, Use, InState, Destroyed, app, source, lib, marker, input, rows
<1>1. ASSUME Open PROVE CallInv'
  BY <1>1 DEF Open
<1>2. ASSUME CreateDecompress \/ CreateFails PROVE CallInv'
  BY <1>2 DEF CreateDecompress, CreateFails
<1>3. ASSUME OutOfMemory PROVE CallInv'
  BY <1>3, CallError DEF OutOfMemory
<1>4. ASSUME StdioSrc PROVE CallInv'
  BY <1>4 DEF StdioSrc
<1>5. ASSUME ReadHeader PROVE CallInv'
  BY <1>5 DEF ReadHeader
<1>6. ASSUME StartDecompress PROVE CallInv'
  BY <1>6, CallError DEF StartDecompress, StartInputPass
<1>7. ASSUME ConsumeData PROVE CallInv'
  BY <1>7, RowKeeps DEF ConsumeData
<1>8. ASSUME OutputPassSetup PROVE CallInv'
  BY <1>8 DEF OutputPassSetup
<1>9. ASSUME AllocRow PROVE CallInv'
  BY <1>9 DEF AllocRow
<1>10. ASSUME ReadScanlines PROVE CallInv'
  <2>1. pc = "loop" /\ global_state = "SCANNING" /\ infile = "open"
    BY <1>10 DEF ReadScanlines
  <2>2. /\ pc' = pc /\ error' = error /\ global_state' = global_state
        /\ mem' = mem /\ inheaders' = inheaders
    BY <1>10, <2>1 DEF ReadScanlines
  <2>3. infile' = "open"
    BY <1>10, <2>1, RowKeeps DEF ReadScanlines
  <2> QED
    BY <2>1, <2>2, <2>3
<1>11. ASSUME FinishDecompress PROVE CallInv'
  BY <1>11 DEF FinishDecompress
<1>12. ASSUME Finished \/ DestroyDecompress \/ Close \/ Handler PROVE CallInv'
  BY <1>12 DEF Finished, DestroyDecompress, Close, Handler
<1>13. ASSUME UNCHANGED vars PROVE CallInv'
  BY <1>13 DEF vars
<1> QED
  BY CallMarkers, <1>1, <1>2, <1>3, <1>4, <1>5, <1>6, <1>7, <1>8, <1>9, <1>10, <1>11, <1>12,
     <1>13 DEF Next

LEMMA CallHolds == Spec => []CallInv
BY CallInit, CallStep, PTL DEF Spec

(* libjpeg never refuses a call of readJPEG's for its place in the order,  *)
(* whatever the file holds and whichever call fails.                       *)
THEOREM CallsInOrder == Spec => []NeverBadState
<1>1. CallInv => NeverBadState
  BY DEF CallInv, NeverBadState
<1> QED
  BY <1>1, CallHolds, PTL

(* The file is used only while it is open, and when readJPEG has returned  *)
(* it is closed and nothing of libjpeg's is left.                          *)
THEOREM AllIsReleased == Spec => []ReleasedOnReturn
<1>1. CallInv => ReleasedOnReturn
  BY DEF CallInv, ReleasedOnReturn
<1> QED
  BY <1>1, CallHolds, PTL

-----------------------------------------------------------------------------
(* The rows.  total_iMCU_rows is Height over iMCU rounded up: the row of   *)
(* MCUs of the last line is the last, and a line on the next is in the     *)
(* same one or in the one after.                                           *)

LEMMA Division ==
  ASSUME NEW p \in Nat \ {0}, NEW y \in Nat
  PROVE  /\ y \div p \in Nat
         /\ (y + p) \div p = y \div p + 1
         /\ (y + 1) \div p <= y \div p + 1
<1> DEFINE q == y \div p
           r == y % p
<1>1. q \in Nat /\ r \in 0..(p - 1) /\ y = p * q + r
  OBVIOUS
<1>2. (y + p) \div p = q + 1
  <2>1. y + p = p * (q + 1) + r
    BY <1>1
  <2> QED
    BY <1>1, <2>1
<1> QED
  BY <1>1, <1>2

Total == total_iMCU_rows
InRow(y) == y \div shape.iMCU

LEMMA ShapeFacts ==
  ASSUME shape \in Shapes
  PROVE  /\ Height \in Nat \ {0} /\ shape.iMCU \in Nat \ {0} /\ Total \in Nat \ {0}
         /\ \A y \in Nat : InRow(y) \in Nat /\ InRow(y + 1) <= InRow(y) + 1
         /\ InRow(0) = 0 /\ InRow(Height - 1) + 1 = Total
         /\ \A y \in 0..(Height - 1) : InRow(y) + 1 <= Total
<1> DEFINE p == shape.iMCU
           h == shape.height
<1>1. h \in Nat \ {0} /\ p \in Nat \ {0}
  BY ShapesAssumption
<1>2. Height = h /\ Total = (h + p - 1) \div p /\ \A y : InRow(y) = y \div p
  BY DEF Height, Total, total_iMCU_rows, IMCURows, jdiv_round_up, InRow
<1> HIDE DEF h, p
<1>3. h - 1 \in Nat /\ (h - 1) + p = h + p - 1
  BY <1>1
<1>4. Total = (h - 1) \div p + 1 /\ (h - 1) \div p \in Nat
  BY <1>1, <1>2, <1>3, Division
<1>5. ASSUME NEW y \in 0..(h - 1) PROVE y \div p <= (h - 1) \div p
  BY <1>1
<1>6. 0 \div p = 0
  BY <1>1
<1>7. \A y \in Nat : y \div p \in Nat /\ (y + 1) \div p <= y \div p + 1
  BY <1>1, Division
<1>8. \A y \in 0..(h - 1) : y \div p + 1 <= (h - 1) \div p + 1
  BY <1>1, <1>4, <1>5, <1>7
<1> QED
  BY <1>1, <1>2, <1>4, <1>6, <1>7, <1>8 DEF p

Held == {"unset", "picture", "grey", "beyond"}

\* Where the lines have got to; the row of MCUs of the line before has come out.
WholeInv ==
  /\ shape \in Shapes /\ pixels \in [0..(Height - 1) -> Held]
  /\ input_iMCU_row \in Nat /\ output_iMCU_row \in Nat /\ output_scanline \in Nat
  /\ has_multiple_scans \in BOOLEAN /\ eoi_reached \in BOOLEAN
  /\ pc # "returned" => result = "none"
  /\ pc \in {"start", "preload", "alloc", "loop", "finish"} => ~inheaders
  /\ pc = "preload" => has_multiple_scans
  /\ pc \in {"alloc", "loop"} =>
       IF has_multiple_scans THEN eoi_reached
       ELSE /\ input_iMCU_row = output_iMCU_row
            /\ input_iMCU_row >= Total => consume_input = "markers"
  /\ pc = "alloc" => output_scanline = 0
  /\ pc = "loop" /\ output_scanline > 0 => output_iMCU_row >= InRow(output_scanline - 1) + 1
  /\ pc = "loop" =>
       /\ output_scanline <= Height
       /\ \A y \in 0..(Height - 1) : y < output_scanline => pixels[y] # "unset"
  /\ pc = "finish" => eoi_reached \/ (~has_multiple_scans /\ consume_input = "markers")
  /\ pc \in {"finish", "destroy", "close"} \/ result = "image" =>
       \A y \in 0..(Height - 1) : pixels[y] # "unset"
  /\ pc \in {"destroy", "close"} \/ result = "image" => returned = TRUE

LEMMA WholeInit == Init => WholeInv
<1> SUFFICES ASSUME Init PROVE WholeInv
  OBVIOUS
<1>1. shape \in Shapes /\ pc = "open" /\ result = "none" /\ pixels = [y \in 0..(Height - 1) |-> "unset"]
  BY DEF Init
<1>2. pixels \in [0..(Height - 1) -> Held]
  BY <1>1 DEF Held
<1> QED
  BY <1>1, <1>2 DEF Init, WholeInv

\* What the rows do not depend on.
LEMMA WholeSame ==
  ASSUME WholeInv, UNCHANGED <<shape, pixels, input_iMCU_row, output_iMCU_row,
                               output_scanline, has_multiple_scans, eoi_reached>>,
         pc' # "returned", result' = "none",
         pc' \notin {"start", "preload", "alloc", "loop", "finish", "destroy", "close"}
  PROVE  WholeInv'
<1>1. Height' = Height
  BY DEF Height
<1> QED
  BY <1>1 DEF WholeInv

LEMMA WholeError ==
  ASSUME WholeInv, NEW e, ErrorExit(e), pc # "returned"
  PROVE  WholeInv'
<1>1. /\ UNCHANGED <<shape, pixels, input_iMCU_row, output_iMCU_row, output_scanline,
                     has_multiple_scans, eoi_reached>>
      /\ pc' = "handler" /\ result' = "none"
  BY DEF ErrorExit, WholeInv, app, source, input, rows
<1> QED
  BY <1>1, WholeSame

LEMMA WholeMarkers ==
  ASSUME WholeInv, ReadMarkers
  PROVE  WholeInv'
<1>1. pc \in {"header", "preload", "finish"} /\ consume_input = "markers" /\ ~eoi_reached
  BY DEF ReadMarkers, NoSoi, GetSoi, GetSof, GetTables, BadMarker, ReachedSos, ReachedEoi,
         Take, Reading
<1>2. CASE NoSoi
  BY <1>1, <1>2, WholeError DEF NoSoi
<1>3. CASE GetSoi \/ GetSof \/ GetTables \/ BadMarker \/ ReachedSos \/ ReachedEoi
  <2>1. shape' = shape /\ pixels' = pixels /\ result' = result
    BY <1>3 DEF GetSoi, GetSof, GetTables, BadMarker, ReachedSos, ReachedEoi, Take, ReadPiece, ReadTo,
         source
  <2>2. Height' = Height /\ Total' = Total /\ \A y : InRow(y)' = InRow(y)
    BY <2>1 DEF Height, Total, total_iMCU_rows, InRow
  <2>3. UNCHANGED <<output_iMCU_row, output_scanline>> /\ input_iMCU_row' \in Nat
    BY <1>3 DEF WholeInv, GetSoi, GetSof, GetTables, BadMarker, ReachedSos, ReachedEoi,
         StartInputPass, rows
  <2>4. CASE ReachedSos
    <3>1. CASE pc = "header"
      <4>1. \/ pc' = "handler" /\ UNCHANGED <<input, returned>>
            \/ /\ pc' = "start" /\ inheaders' = FALSE /\ has_multiple_scans' \in BOOLEAN
               /\ UNCHANGED <<eoi_reached, returned>>
            \/ /\ pc' = "header"
               /\ UNCHANGED <<inheaders, has_multiple_scans, eoi_reached, returned>>
        BY <2>4, <3>1 DEF ReachedSos
      <4> QED
        BY <4>1, <3>1, <2>1, <2>2, <2>3 DEF WholeInv, input
    <3>2. CASE pc # "header"
      <4>1. ~inheaders /\ (pc = "finish" => ~has_multiple_scans)
        BY <1>1, <3>2 DEF WholeInv
      <4>2. \/ pc' = "handler" /\ UNCHANGED <<input, returned>>
            \/ /\ pc' = "preload" /\ pc = "preload"
               /\ UNCHANGED <<inheaders, has_multiple_scans, eoi_reached, returned>>
        BY <1>1, <2>4, <3>2, <4>1, NoneAssumption DEF ReachedSos, ScanError, StartInputPass
      <4> QED
        BY <1>1, <4>1, <4>2, <3>2, <2>1, <2>2, <2>3 DEF WholeInv, input
    <3> QED
      BY <3>1, <3>2
  <2>5. CASE ReachedEoi
    <3>1. /\ eoi_reached' = TRUE
          /\ pc' = pc \/ pc' = "handler"
          /\ UNCHANGED <<inheaders, has_multiple_scans, consume_input, rows, returned>>
      BY <2>5 DEF ReachedEoi
    <3> QED
      BY <1>1, <3>1, <2>1, <2>2, <2>3 DEF WholeInv, rows
  <2>6. CASE GetSoi \/ GetSof \/ GetTables \/ BadMarker
    <3>1. /\ pc' = pc \/ pc' = "handler"
          /\ UNCHANGED <<input, rows, returned>>
      BY <2>6 DEF GetSoi, GetSof, GetTables, BadMarker
    <3> QED
      BY <1>1, <3>1, <2>1, <2>2, <2>3 DEF WholeInv, input, rows
  <2> QED
    BY <1>3, <2>4, <2>5, <2>6
<1> QED
  BY <1>2, <1>3 DEF ReadMarkers

\* One turn of readJPEG's loop.
LEMMA WholeLine ==
  ASSUME WholeInv, ReadScanlines
  PROVE  WholeInv'
<1> DEFINE y == output_scanline
<1>1. CASE global_state = "SCANNING"
  <2>1. pc = "loop" /\ y < Height
    BY DEF ReadScanlines
  <2>2. /\ pc' = "loop" /\ result' = result /\ returned' = returned
        /\ UNCHANGED <<inheaders, has_multiple_scans, eoi_reached>>
        /\ pixels' = [pixels EXCEPT ![y] = Filled(y)] /\ output_scanline' = y + 1
        /\ output_iMCU_row' = IF Waits THEN output_iMCU_row + 1 ELSE output_iMCU_row
        /\ IF Waits /\ ~has_multiple_scans
           THEN input_iMCU_row' = input_iMCU_row + 1 /\ consume_input' = AfterRow
           ELSE UNCHANGED <<input_iMCU_row, consume_input>>
    BY <1>1, <2>1 DEF ReadScanlines, InState
  <2>3. shape' = shape
    BY <1>1, <2>1, RowKeeps DEF ReadScanlines, InState, source
  <2>4. Height' = Height /\ Total' = Total /\ \A i : InRow(i)' = InRow(i)
    BY <2>3 DEF Height, Total, total_iMCU_rows, InRow
  <2>5. Filled(y) \in Held /\ Filled(y) # "unset"
    BY DEF Filled, Held
  <2>6. y \in 0..(Height - 1) /\ Height \in Nat \ {0} /\ Total \in Nat \ {0}
    BY <2>1, ShapeFacts DEF WholeInv
  <2>7. /\ pixels' \in [0..(Height - 1) -> Held]
        /\ \A i \in 0..(Height - 1) : i < y + 1 => pixels'[i] # "unset"
    BY <2>1, <2>2, <2>5, <2>6 DEF WholeInv
  <2>8. output_iMCU_row' \in Nat /\ input_iMCU_row' \in Nat
    BY <2>2 DEF WholeInv
  <2>9. IF has_multiple_scans THEN eoi_reached
        ELSE /\ input_iMCU_row' = output_iMCU_row'
             /\ input_iMCU_row' >= Total => consume_input' = "markers"
    BY <2>1, <2>2, <2>6 DEF WholeInv, AfterRow, Total
  <2>10. output_iMCU_row' >= InRow(y) + 1
    <3>1. InRow(y) \in Nat /\ InRow(y) + 1 <= Total
      BY <2>6, ShapeFacts DEF WholeInv
    <3>2. CASE Waits
      <4>1. output_iMCU_row' = output_iMCU_row + 1 /\ output_iMCU_row \in Nat
        BY <2>2, <3>2 DEF WholeInv
      <4>2. CASE y = 0
        BY <4>1, <4>2, ShapeFacts DEF WholeInv
      <4>3. CASE y > 0
        <5>1. y - 1 \in Nat /\ (y - 1) + 1 = y
          BY <2>6, <4>3
        <5>2. InRow(y) <= InRow(y - 1) + 1 /\ InRow(y - 1) \in Nat
          BY <5>1, ShapeFacts DEF WholeInv
        <5>3. output_iMCU_row >= InRow(y - 1) + 1
          BY <2>1, <4>3 DEF WholeInv
        <5> QED
          BY <3>1, <4>1, <5>2, <5>3
      <4> QED
        BY <2>6, <4>2, <4>3
    <3>3. CASE ~Waits
      <4>1. output_iMCU_row' = output_iMCU_row /\ ~(output_iMCU_row < Needed(y))
        BY <2>2, <3>3 DEF Waits
      <4>2. PICK a \in {1, 2} : Needed(y) = Min2(Total, InRow(y) + a)
        BY DEF Needed, RowsNeeded, Total, total_iMCU_rows, InRow
      <4>3. Needed(y) \in Nat /\ Needed(y) >= InRow(y) + 1
        BY <2>6, <3>1, <4>2 DEF Min2
      <4> QED
        BY <3>1, <4>1, <4>3 DEF WholeInv
    <3> QED
      BY <3>2, <3>3
  <2>11. y + 1 \in Nat /\ (y + 1) - 1 = y /\ y + 1 <= Height
    BY <2>6
  <2> QED
    BY <2>1, <2>2, <2>3, <2>4, <2>7, <2>8, <2>9, <2>10, <2>11 DEF WholeInv
<1>2. CASE global_state # "SCANNING"
  BY <1>2, WholeError DEF ReadScanlines, InState
<1> QED
  BY <1>1, <1>2

\* After the last line every row of MCUs was read.
LEMMA WholeFinish ==
  ASSUME WholeInv, FinishDecompress
  PROVE  WholeInv'
<1>1. CASE global_state = "SCANNING"
  <2>1. pc = "loop" /\ output_scanline >= Height
    BY DEF FinishDecompress
  <2>2. pc' = "finish" /\ UNCHANGED <<app, source, input, rows, returned>>
    BY <1>1 DEF FinishDecompress, InState
  <2>3. Height \in Nat \ {0} /\ output_scanline = Height
    BY <2>1, ShapeFacts DEF WholeInv
  <2>4. \A y \in 0..(Height - 1) : pixels[y] # "unset"
    BY <2>1, <2>3 DEF WholeInv
  <2>5. ~has_multiple_scans => consume_input = "markers"
    <3>1. output_iMCU_row >= Total
      <4>1. output_iMCU_row >= InRow(Height - 1) + 1
        BY <2>1, <2>3 DEF WholeInv
      <4> QED
        BY <4>1, ShapeFacts DEF WholeInv
    <3> QED
      BY <2>1, <3>1 DEF WholeInv
  <2>6. eoi_reached \/ (~has_multiple_scans /\ consume_input = "markers")
    BY <2>1, <2>5 DEF WholeInv
  <2>7. Height' = Height
    BY <2>2 DEF Height, source
  <2> QED
    BY <2>1, <2>2, <2>4, <2>6, <2>7 DEF WholeInv, app, source, input, rows
<1>2. CASE global_state # "SCANNING"
  BY <1>2, WholeError DEF FinishDecompress, InState
<1> QED
  BY <1>1, <1>2

LEMMA WholeStart ==
  ASSUME WholeInv, StartDecompress
  PROVE  WholeInv'
<1>1. CASE global_state = "READY" /\ tables
  <2>1. pc = "start" /\ UNCHANGED <<app, source, inheaders, has_multiple_scans, eoi_reached, returned>>
    BY <1>1 DEF StartDecompress, InState
  <2>2. consume_input' = "data" /\ input_iMCU_row' = 0
    BY <1>1 DEF StartDecompress, InState, StartInputPass
  <2>3. IF has_multiple_scans
        THEN pc' = "preload" /\ UNCHANGED <<output_iMCU_row, output_scanline>>
        ELSE pc' = "alloc" /\ output_iMCU_row' = 0 /\ output_scanline' = 0
    BY <1>1 DEF StartDecompress, InState
  <2>4. Height' = Height /\ Total' = Total /\ Total \in Nat \ {0}
    BY <2>1, ShapeFacts DEF WholeInv, source, Height, Total, total_iMCU_rows
  <2> QED
    BY <2>1, <2>2, <2>3, <2>4 DEF WholeInv, app, source
<1>2. CASE ~(global_state = "READY" /\ tables)
  <2>1. pc = "start" /\ \E e : ErrorExit(e)
    BY <1>2 DEF StartDecompress, InState
  <2> QED
    BY <2>1, WholeError
<1> QED
  BY <1>1, <1>2

LEMMA WholeStep ==
  ASSUME WholeInv, [Next]_vars
  PROVE  WholeInv'
<1>1. CASE Open \/ CreateDecompress \/ CreateFails \/ StdioSrc \/ Handler
  <2>1. UNCHANGED <<shape, pixels, input_iMCU_row, output_iMCU_row, output_scanline,
                    has_multiple_scans, eoi_reached>>
    BY <1>1 DEF Open, CreateDecompress, CreateFails, StdioSrc, Handler, app, source, input, rows
  <2>2. \/ pc' \in {"create", "stdio_src", "read_header", "handler"} /\ result' = "none"
        \/ pc' = "returned" /\ result' = "null"
    BY <1>1 DEF Open, CreateDecompress, CreateFails, StdioSrc, Handler, app, WholeInv
  <2>3. Height' = Height
    BY <2>1 DEF Height
  <2> QED
    BY <2>1, <2>2, <2>3 DEF WholeInv
<1>2. CASE OutOfMemory
  BY <1>2, WholeError DEF OutOfMemory
<1>3. CASE ReadHeader
  <2>1. CASE global_state \in {"START", "INHEADER"}
    <3>1. /\ pc = "read_header" /\ pc' = "header" /\ shape' = shape
          /\ UNCHANGED <<app, rows, returned>>
          /\ has_multiple_scans' = FALSE /\ eoi_reached' = FALSE
      BY <1>3, <2>1 DEF ReadHeader, InState
    <3>2. Height' = Height
      BY <3>1 DEF Height
    <3> QED
      BY <3>1, <3>2 DEF WholeInv, app, rows
  <2>2. CASE global_state \notin {"START", "INHEADER"}
    BY <1>3, <2>2, WholeError DEF ReadHeader, InState
  <2> QED
    BY <2>1, <2>2
<1>4. CASE ConsumeData
  <2>1. /\ pc = "preload" /\ pc' = pc /\ shape' = shape /\ input_iMCU_row' = input_iMCU_row + 1
        /\ UNCHANGED <<pixels, result, inheaders, has_multiple_scans, eoi_reached,
                       output_iMCU_row, output_scanline, returned>>
    BY <1>4, RowKeeps DEF ConsumeData
  <2>2. Height' = Height
    BY <2>1 DEF Height
  <2> QED
    BY <2>1, <2>2 DEF WholeInv
<1>5. CASE OutputPassSetup
  <2>1. /\ pc = "preload" /\ eoi_reached /\ pc' = "alloc"
        /\ output_iMCU_row' = 0 /\ output_scanline' = 0
        /\ UNCHANGED <<app, source, input, input_iMCU_row, returned>>
    BY <1>5 DEF OutputPassSetup
  <2>2. Height' = Height
    BY <2>1 DEF Height, source
  <2> QED
    BY <2>1, <2>2 DEF WholeInv, app, source, input
<1>6. CASE AllocRow
  <2>1. pc = "alloc" /\ pc' = "loop" /\ UNCHANGED <<app, source, input, rows, returned>>
    BY <1>6 DEF AllocRow
  <2>2. Height' = Height /\ Total' = Total /\ Height \in Nat
    BY <2>1, ShapeFacts DEF Height, Total, total_iMCU_rows, source, WholeInv
  <2> QED
    BY <2>1, <2>2 DEF WholeInv, app, source, input, rows
<1>7. CASE Finished
  <2>1. /\ pc = "finish" /\ (eoi_reached \/ consume_input = "data")
        /\ returned' = eoi_reached /\ pc' = "destroy"
        /\ UNCHANGED <<app, source, input, rows>>
    BY <1>7 DEF Finished
  <2>2. returned' = TRUE
    BY <2>1 DEF WholeInv
  <2>3. Height' = Height
    BY <2>1 DEF Height, source
  <2> QED
    BY <2>1, <2>2, <2>3 DEF WholeInv, app, source, input, rows
<1>8. CASE DestroyDecompress \/ Close
  <2>1. \/ pc = "destroy" /\ pc' = "close" /\ result' = result
        \/ pc = "close" /\ pc' = "returned"
    BY <1>8 DEF DestroyDecompress, Close, app
  <2>2. /\ pc \in {"destroy", "close"} /\ pixels' = pixels
        /\ UNCHANGED <<source, input, rows, returned>>
    BY <1>8 DEF DestroyDecompress, Close, app
  <2>3. Height' = Height
    BY <2>2 DEF Height, source
  <2> QED
    BY <2>1, <2>2, <2>3 DEF WholeInv, source, input, rows
<1>9. CASE UNCHANGED vars
  <2>1. Height' = Height /\ Total' = Total /\ \A y : InRow(y)' = InRow(y)
    BY <1>9 DEF vars, source, Height, Total, total_iMCU_rows, InRow
  <2> QED
    BY <1>9, <2>1 DEF WholeInv, vars, app, source, input, rows
<1> QED
  BY WholeMarkers, WholeLine, WholeFinish, WholeStart, <1>1, <1>2, <1>3, <1>4, <1>5, <1>6,
     <1>7, <1>8, <1>9 DEF Next

(* An image that readJPEG returns had every row filled, and                *)
(* jpeg_finish_decompress, whose result is not looked at, had come to the  *)
(* end of the file: the last line needed the last row of MCUs.             *)
THEOREM ImageIsAlwaysWhole == Spec => []ImageIsWhole
<1>1. WholeInv => ImageIsWhole
  <2> SUFFICES ASSUME WholeInv, result = "image"
               PROVE  returned /\ \A y \in DOMAIN pixels : pixels[y] # "unset"
    BY DEF ImageIsWhole
  <2>1. DOMAIN pixels = 0..(Height - 1)
    BY DEF WholeInv
  <2> QED
    BY <2>1 DEF WholeInv
<1> QED
  BY <1>1, WholeInit, WholeStep, PTL DEF Spec

-----------------------------------------------------------------------------
(* Damaged files.                                                          *)

F == FirstScan(file)

\* Restarts are only looked for when their interval was among the first n pieces.
HasInterval(n) == restart_interval # 0 => \E k \in 1..n : file[k] \in DOMAIN Intervals

\* What the header has said when its first `at` pieces are read.
HeaderRead ==
  /\ saw_SOI <=> at > 0
  /\ saw_SOF <=> \E k \in 1..at : file[k] \in Frames
  /\ saw_SOF => comps \in {3, 4}
  /\ \A k \in 1..at : file[k] = "tables" => tables
  /\ \A k \in 1..at : file[k] = "SOFprog" => progressive_mode
  /\ HasInterval(at)

\* What may come after the header of the first scan.
Later == {"EOI"} \union { file[k] : k \in (F + 1)..Len(file) }

\* Every row of MCUs whose data is there has come out of it; or the first scan
\* is being read, and nothing but its data came so far.
AllShown == \A m \in 0..(Total - 1) : Intact(file, m) => m \in decoded
InFirst ==
  /\ consume_input = "data" /\ at = F + input_iMCU_row
  /\ unread_marker = NONE /\ ~insufficient_data /\ restart_interval = 0
  /\ \A m \in 0..(input_iMCU_row - 1) : m \in decoded
PictureUpTo(n) ==
  \A y \in 0..(Height - 1) : y < n /\ Intact(file, InRow(y)) => pixels[y] = "picture"

BeforeScan == {"open", "create", "stdio_src", "read_header", "header"}
AfterScan  == {"start", "preload", "alloc", "loop", "finish"}

HeadInv ==
  pc \in BeforeScan =>
    /\ at < F /\ unread_marker = NONE /\ inheaders
    /\ pc # "header" => at = 0
    /\ HeaderRead

ScanInv ==
  pc \in AfterScan =>
    /\ at >= F /\ saw_SOI /\ saw_SOF /\ tables /\ comps \in {3, 4} /\ ~start_of_file
    /\ unread_marker = NONE \/ unread_marker \in Later
    /\ has_multiple_scans \/ \A k \in DOMAIN file : file[k] \in Scans => k = F
    /\ has_multiple_scans /\ eoi_reached => consume_input = "markers"
    /\ pc = "start" => at = F /\ unread_marker = NONE /\ ~eoi_reached /\ HasInterval(F - 1)

RowsInv ==
  /\ pc \in AfterScan \ {"start"} => AllShown \/ InFirst
  /\ pc = "loop" => PictureUpTo(output_scanline)
  /\ pc \in {"finish", "destroy", "close"} \/ result = "image" => PictureUpTo(Height)

\* The only error of such a file is the memory's.
ErrorInv ==
  /\ pc = "handler" => error = "OUT_OF_MEMORY"
  /\ pc = "returned" => result = "image" \/ infile = "none" \/ error = "OUT_OF_MEMORY"

FileInv == file \in Files /\ at \in 0..Len(file)
DamagedInv == FileInv /\ (Damaged(file) => HeadInv /\ ScanInv /\ RowsInv /\ ErrorInv)

LEMMA DamagedFacts ==
  ASSUME file \in Files, Damaged(file)
  PROVE  /\ Len(file) \in Nat /\ F \in 2..Len(file) /\ file[F] \in Scans /\ file[1] = "SOI"
         /\ \A k \in 1..Len(file) : /\ file[k] = "SOI" => k = 1
                                    /\ file[k] \notin {"SOFgrey", "bad", "reserved"}
         /\ \A k \in 1..(F - 1) : file[k] \notin Scans /\ file[k] # "EOI"
         /\ \E k \in 1..(F - 1) : /\ file[k] \in Frames
                                  /\ \A j \in 1..Len(file) : file[j] \in Frames => j = k
         /\ \E k \in 1..(F - 1) : file[k] = "tables"
         /\ \/ \A k \in 1..Len(file) : file[k] \in Scans => k = F
            \/ \E k \in 1..(F - 1) : file[k] = "SOFprog"
            \/ file[F] = "SOSpart"
<1>1. file \in Seq(STRING)
  BY FilesAssumption
<1>2. Len(file) \in Nat /\ DOMAIN file = 1..Len(file)
  BY <1>1
<1>3. F \in DOMAIN file /\ IsFirstScan(file, F)
  BY DEF Damaged, F, FirstScan
<1>4. file[1] = "SOI" /\ "SOI" \notin Scans
  BY DEF Damaged, Scans
<1>5. F # 1 /\ F \in Nat
  BY <1>2, <1>3, <1>4 DEF IsFirstScan
<1> QED
  BY <1>2, <1>3, <1>4, <1>5 DEF Damaged, F, IsFirstScan

\* Where a row of MCUs leaves the file, and the markers it may have met.
Met == {NONE, unread_marker, "EOI"} \union { file[k] : k \in (at + 1)..Len(file) }

LEMMA PieceIsMet ==
  ASSUME FileInv, NEW k \in Nat, k > at
  PROVE  PieceAt(k) \in Met
<1>1. Len(file) \in Nat /\ at \in 0..Len(file)
  BY FilesAssumption DEF FileInv
<1>2. k <= Len(file) => k \in (at + 1)..Len(file)
  BY <1>1
<1> QED
  BY <1>1, <1>2 DEF PieceAt, Met

LEMMA FillReads ==
  ASSUME FileInv, NEW i, NEW k \in at..(Len(file) + 1), NEW met \in Met, NEW ran_out,
         FillRow(i, k, met, ran_out)
  PROVE  /\ at' \in at..Len(file) /\ unread_marker' \in Met
         /\ start_of_file' = start_of_file \/ start_of_file' = FALSE
<1>1. Len(file) \in Nat /\ at \in 0..Len(file) /\ k \in Nat
  BY FilesAssumption DEF FileInv
<1>2. ASSUME NEW n \in {k, k + 1}, ReadTo(n)
      PROVE  at' \in at..Len(file) /\ start_of_file' = FALSE
  BY <1>1, <1>2 DEF ReadTo, Min2
<1>3. PieceAt(k + 1) \in Met /\ NONE \in Met
  BY <1>1, PieceIsMet DEF Met
<1>4. UNCHANGED source => at' \in at..Len(file) /\ start_of_file' = start_of_file
  BY <1>1 DEF source
<1> QED
  BY <1>2, <1>3, <1>4 DEF FillRow

LEMMA RowReads ==
  ASSUME FileInv, NEW i, DecodeRow(i)
  PROVE  /\ at' \in at..Len(file) /\ unread_marker' \in Met
         /\ start_of_file' = start_of_file \/ start_of_file' = FALSE
<1>1. Len(file) \in Nat /\ at \in 0..Len(file) /\ at \in at..(Len(file) + 1)
  BY FilesAssumption DEF FileInv
<1>2. unread_marker \in Met /\ NONE \in Met
  BY DEF Met
<1>3. ASSUME NEW d, NEW k \in Resynced(d)
      PROVE  k \in at..(Len(file) + 1) /\ PieceAt(k) \in Met
  <2>1. k \in (at + 1)..(Len(file) + 1)
    BY DEF Resynced
  <2> QED
    BY <1>1, <2>1, PieceIsMet
<1>4. ASSUME NEW k \in at..(Len(file) + 1), NEW found \in Met, Restarted(i, k, found)
      PROVE  /\ at' \in at..Len(file) /\ unread_marker' \in Met
             /\ start_of_file' = start_of_file \/ start_of_file' = FALSE
  <2>1. PICK met \in Met, lost \in BOOLEAN : FillRow(i, k, met, lost)
    BY <1>2, <1>4 DEF Restarted
  <2> QED
    BY <2>1, FillReads
<1> QED
  BY <1>1, <1>2, <1>3, <1>4, FillReads DEF DecodeRow

LEMMA FileStep ==
  ASSUME FileInv, [Next]_vars
  PROVE  /\ FileInv' /\ file' = file /\ shape' = shape
         /\ F' = F /\ Height' = Height /\ Total' = Total /\ \A y : InRow(y)' = InRow(y)
<1>1. Len(file) \in Nat
  BY FilesAssumption DEF FileInv
<1>2. ASSUME UNCHANGED source PROVE file' = file /\ shape' = shape /\ at' \in 0..Len(file)
  BY <1>2 DEF FileInv, source
<1>3. ASSUME ReadPiece PROVE file' = file /\ shape' = shape /\ at' \in 0..Len(file)
  BY <1>1, <1>3 DEF ReadPiece, ReadTo, FileInv, Min2
<1>4. ASSUME NEW e, ErrorExit(e) PROVE UNCHANGED source
  BY <1>4 DEF ErrorExit
<1>5. ASSUME NEW kinds, Take(kinds) PROVE ReadPiece \/ UNCHANGED source
  BY <1>5 DEF Take
<1>6. ASSUME NEW i, DecodeRow(i) PROVE file' = file /\ shape' = shape /\ at' \in 0..Len(file)
  <2>1. at' \in at..Len(file) /\ file' = file /\ shape' = shape
    BY <1>6, RowKeeps, RowReads
  <2> QED
    BY <1>1, <2>1 DEF FileInv
<1>7. file' = file /\ shape' = shape /\ at' \in 0..Len(file)
  <2>1. CASE Open \/ CreateDecompress \/ CreateFails \/ OutOfMemory \/ StdioSrc
    BY <1>2, <1>4, <2>1 DEF Open, CreateDecompress, CreateFails, OutOfMemory, StdioSrc
  <2>2. CASE ReadHeader
    BY <1>2, <1>4, <2>2 DEF ReadHeader, InState, FileInv
  <2>3. CASE StartDecompress \/ OutputPassSetup \/ AllocRow \/ FinishDecompress \/ Finished
    BY <1>2, <1>4, <2>3 DEF StartDecompress, OutputPassSetup, AllocRow, FinishDecompress,
       Finished, InState
  <2>4. CASE ConsumeData
    BY <1>2, <1>3, <1>6, <2>4 DEF ConsumeData
  <2>5. CASE ReadScanlines
    BY <1>2, <1>3, <1>4, <1>6, <2>5 DEF ReadScanlines, InState
  <2>6. CASE DestroyDecompress \/ Close \/ Handler \/ UNCHANGED vars
    BY <1>2, <2>6 DEF DestroyDecompress, Close, Handler, vars
  <2>7. CASE ReadMarkers
    BY <1>2, <1>3, <1>4, <1>5, <2>7 DEF ReadMarkers, NoSoi, GetSoi, GetSof, GetTables, BadMarker,
       ReachedSos, ReachedEoi
  <2> QED
    BY <2>1, <2>2, <2>3, <2>4, <2>5, <2>6, <2>7 DEF Next
<1> QED
  BY <1>7 DEF FileInv, F, Height, Total, total_iMCU_rows, InRow

TableKinds == {"tables"} \union DOMAIN Intervals \union AllRst \union Skipped

LEMMA TableKindsAre ==
  ASSUME NEW p \in TableKinds
  PROVE  p \notin Scans /\ p \notin Frames /\ p # "EOI"
<1>1. CASE p \in AllRst
  <2>1. PICK j \in 1..8 : p = Restarts[j]
    BY <1>1 DEF AllRst
  <2>2. p \in {"RST0", "RST1", "RST2", "RST3", "RST4", "RST5", "RST6", "RST7"}
    BY <2>1 DEF Restarts
  <2> QED
    BY <2>2 DEF Scans, Frames
<1>2. CASE p \in {"tables", "DRI1", "DRI2", "data", "junk"}
  BY <1>2 DEF Scans, Frames
<1>3. DOMAIN Intervals = {"DRI1", "DRI2"}
  BY DEF Intervals
<1> QED
  BY <1>1, <1>2, <1>3 DEF TableKinds, Skipped

DamagedParts == HeadInv /\ ScanInv /\ RowsInv /\ ErrorInv

\* The header of such a file is read up to its first scan without an error.
LEMMA HeaderStep ==
  ASSUME FileInv, Damaged(file), DamagedParts, WholeInv, pc = "header", ReadMarkers, F' = F,
         file' = file
  PROVE  DamagedParts'
<1>1. /\ Len(file) \in Nat /\ F \in 2..Len(file) /\ at \in 0..(F - 1)
      /\ at + 1 \in 1..F /\ at + 1 \in 1..Len(file)
  BY DamagedFacts DEF FileInv, DamagedParts, HeadInv, BeforeScan
<1>2. unread_marker = NONE /\ inheaders /\ HeaderRead /\ result = "none"
  BY DEF DamagedParts, HeadInv, BeforeScan, WholeInv
<1>3. ~AtEnd /\ Piece = file[at + 1] /\ Fetched = file[at + 1] /\ ~Empty
  BY <1>1, <1>2 DEF AtEnd, Piece, PieceAt, Fetched, Empty
<1>4. ASSUME NEW kinds, Take(kinds)
      PROVE  /\ file[at + 1] \in kinds /\ at' = at + 1 /\ unread_marker' = NONE
             /\ start_of_file' = FALSE
  BY <1>1, <1>2, <1>3, <1>4 DEF Take, ReadPiece, ReadTo, Min2
<1>5. \A k \in 1..(at + 1) : k \in 1..at \/ k = at + 1
  BY <1>1
<1>6. ASSUME at' = at + 1, file[at + 1] \notin Scans PROVE at' < F
  BY <1>1, <1>6, DamagedFacts DEF FileInv
<1>7. ASSUME pc' = "header", result' = "none", unread_marker' = NONE, inheaders', at' < F,
             HeaderRead'
      PROVE  DamagedParts'
  BY <1>7 DEF DamagedParts, HeadInv, ScanInv, RowsInv, ErrorInv, BeforeScan, AfterScan
<1>8. CASE NoSoi
  <2>1. ~saw_SOI /\ file[at + 1] # "SOI"
    BY <1>2, <1>3, <1>8 DEF NoSoi
  <2>2. at = 0
    BY <1>1, <1>2, <2>1 DEF HeaderRead, HasInterval
  <2>3. file[1] = "SOI" /\ at + 1 = 1
    BY <1>1, <2>2, DamagedFacts DEF FileInv
  <2> QED
    BY <2>1, <2>3
<1>9. CASE GetSoi
  <2>1. file[at + 1] = "SOI" /\ at' = at + 1 /\ unread_marker' = NONE
    <3>1. Take({"SOI"})
      BY <1>9 DEF GetSoi
    <3> QED
      BY <1>1, <1>2, <1>3, <3>1 DEF Take, ReadPiece, ReadTo, Min2
  <2>2. at = 0 /\ ~saw_SOI
    <3>1. at + 1 = 1
      BY <1>1, <2>1, DamagedFacts DEF FileInv
    <3> QED
      BY <1>1, <1>2, <3>1 DEF HeaderRead, HasInterval
  <2>3. /\ saw_SOI' = TRUE /\ pc' = "header"
        /\ UNCHANGED <<result, saw_SOF, tables, comps, progressive_mode, inheaders>>
        /\ restart_interval' = 0
    BY <1>9, <2>2 DEF GetSoi, input
  <2>4. "SOI" \notin Scans /\ "SOI" \notin Frames
    BY DEF Scans, Frames
  <2>5. at' > 0 /\ \A k \in 1..at' : file[k] = "SOI"
    BY <1>1, <2>1, <2>2
  <2>6. HeaderRead'
    <3>1. ~saw_SOF /\ 1..0 = {}
      BY <1>2, <2>2 DEF HeaderRead, HasInterval
    <3> QED
      BY <2>3, <2>4, <2>5, <3>1 DEF HeaderRead, HasInterval
  <2> QED
    BY <1>2, <1>6, <1>7, <2>1, <2>3, <2>4, <2>6
<1>10. CASE GetSof
  <2>1. file[at + 1] \in Frames /\ at' = at + 1 /\ unread_marker' = NONE
    BY <1>4, <1>10 DEF GetSof
  <2>2. \A k \in 1..at : file[k] \notin Frames
    <3>1. PICK i \in 1..(F - 1) : \A j \in 1..Len(file) : file[j] \in Frames => j = i
      BY DamagedFacts DEF FileInv
    <3>2. \A k \in 1..at : k \in 1..Len(file) /\ k # at + 1
      BY <1>1
    <3> QED
      BY <1>1, <2>1, <3>1, <3>2
  <2>3. ~saw_SOF
    BY <1>2, <2>2 DEF HeaderRead, HasInterval
  <2>4. /\ saw_SOF' = TRUE /\ pc' = "header" /\ saw_SOI
        /\ progressive_mode' = (file[at + 1] = "SOFprog")
        /\ comps' = Components(file[at + 1])
        /\ UNCHANGED <<result, saw_SOI, tables, restart_interval, inheaders>>
    BY <1>3, <1>10, <2>3 DEF GetSof, input
  <2>5. comps' \in {3, 4}
    <3>1. file[at + 1] # "SOFgrey"
      BY <1>1, DamagedFacts DEF FileInv
    <3> QED
      BY <2>4, <3>1 DEF Components
  <2>6. /\ file[at + 1] \notin Scans /\ file[at + 1] # "tables"
        /\ \A k \in 1..at : file[k] # "SOFprog"
    BY <2>1, <2>2 DEF Scans, Frames
  <2>7. at + 1 > 0 /\ at + 1 \in 1..(at + 1)
    BY <1>1
  <2>8. HasInterval(at)'
    <3>1. HasInterval(at) /\ \A k \in 1..at : k \in 1..(at + 1)
      BY <1>1, <1>2 DEF HeaderRead
    <3> QED
      BY <2>1, <2>4, <3>1 DEF HasInterval
  <2>9. HeaderRead'
    BY <1>2, <1>5, <2>1, <2>4, <2>5, <2>6, <2>7, <2>8 DEF HeaderRead
  <2> QED
    BY <1>2, <1>6, <1>7, <2>1, <2>4, <2>6, <2>9
<1>11. CASE GetTables
  <2>1. file[at + 1] \in TableKinds /\ at' = at + 1 /\ unread_marker' = NONE
    BY <1>4, <1>11 DEF GetTables, TableKinds
  <2>2. /\ tables' = (tables \/ file[at + 1] = "tables") /\ pc' = "header" /\ saw_SOI
        /\ UNCHANGED <<result, saw_SOI, saw_SOF, comps, progressive_mode, inheaders>>
        /\ restart_interval' = restart_interval \/ file[at + 1] \in DOMAIN Intervals
    BY <1>3, <1>11 DEF GetTables, input
  <2>3. file[at + 1] \notin Scans /\ file[at + 1] \notin Frames /\ file[at + 1] # "SOFprog"
    BY <2>1, TableKindsAre DEF Frames
  <2>4. at + 1 > 0 /\ \A k \in 1..at : k \in 1..(at + 1)
    BY <1>1
  <2>5. HasInterval(at)'
    <3>1. HasInterval(at) /\ at + 1 \in 1..(at + 1)
      BY <1>1, <1>2 DEF HeaderRead
    <3> QED
      BY <2>1, <2>2, <2>4, <3>1 DEF HasInterval
  <2>6. HeaderRead'
    BY <1>2, <1>5, <2>1, <2>2, <2>3, <2>4, <2>5 DEF HeaderRead
  <2> QED
    BY <1>2, <1>6, <1>7, <2>1, <2>2, <2>3, <2>6
<1>12. CASE BadMarker
  BY <1>1, <1>4, <1>12, DamagedFacts DEF BadMarker, FileInv
<1>13. CASE ReachedSos
  <2>1. file[at + 1] \in Scans /\ at' = at + 1 /\ unread_marker' = NONE /\ ~start_of_file'
    BY <1>4, <1>13 DEF ReachedSos
  <2>2. at + 1 = F
    <3>1. at + 1 # F => at + 1 \in 1..(F - 1)
      BY <1>1
    <3> QED
      BY <2>1, <3>1, DamagedFacts DEF FileInv
  <2>3. \A k \in 1..(F - 1) : k \in 1..at
    BY <1>1, <2>2
  <2>4. saw_SOF /\ tables /\ comps \in {3, 4}
    BY <1>2, <2>3, DamagedFacts DEF HeaderRead, HasInterval, FileInv
  <2>5. ScanError = NONE
    BY <1>2, <2>4 DEF ScanError
  <2>6. /\ pc' = "start" /\ saw_SOI /\ comps_in_scan' = (IF file[F] = "SOSpart" THEN 1 ELSE comps)
        /\ has_multiple_scans' = (comps_in_scan' < comps \/ progressive_mode)
        /\ UNCHANGED <<result, saw_SOI, saw_SOF, tables, comps, restart_interval, eoi_reached>>
    BY <1>2, <1>3, <1>13, <2>2, <2>5 DEF ReachedSos
  <2>7. has_multiple_scans' \/ \A k \in DOMAIN file : file[k] \in Scans => k = F
    <3>1. DOMAIN file = 1..Len(file)
      BY FilesAssumption DEF FileInv
    <3>2. CASE \A k \in 1..Len(file) : file[k] \in Scans => k = F
      BY <3>1, <3>2
    <3>3. CASE \E k \in 1..(F - 1) : file[k] = "SOFprog"
      <4>1. progressive_mode
        BY <1>2, <2>3, <3>3 DEF HeaderRead, HasInterval
      <4> QED
        BY <2>6, <4>1
    <3>4. CASE file[F] = "SOSpart"
      <4>1. comps_in_scan' < comps
        BY <1>2, <2>4, <2>6, <3>4
      <4> QED
        BY <2>6, <4>1
    <3> QED
      BY <3>2, <3>3, <3>4, DamagedFacts DEF FileInv
  <2>8. ~eoi_reached
    BY <1>13 DEF ReachedSos, Take, Reading
  <2>9. HasInterval(F - 1)'
    <3>1. at = F - 1 /\ file' = file /\ F' = F
      BY <1>1, <2>2
    <3> QED
      BY <1>2, <2>6, <3>1 DEF HeaderRead, HasInterval
  <2> QED
    BY <1>1, <1>2, <2>1, <2>2, <2>4, <2>6, <2>7, <2>8, <2>9 DEF DamagedParts, HeadInv, ScanInv, RowsInv,
       ErrorInv, BeforeScan, AfterScan
<1>14. CASE ReachedEoi
  <2>1. file[at + 1] = "EOI"
    <3>1. Take({"EOI"})
      BY <1>14 DEF ReachedEoi
    <3> QED
      BY <1>1, <1>2, <1>3, <3>1 DEF Take, ReadPiece, ReadTo, Min2
  <2>2. at + 1 # F => at + 1 \in 1..(F - 1)
    BY <1>1
  <2>3. "EOI" \notin Scans
    BY DEF Scans
  <2> QED
    BY <2>1, <2>2, <2>3, DamagedFacts DEF FileInv
<1> QED
  BY <1>8, <1>9, <1>10, <1>11, <1>12, <1>13, <1>14 DEF ReadMarkers

LEMMA FirstPieces ==
  ASSUME FileInv, Damaged(file)
  PROVE  /\ Len(file) \in Nat /\ F \in Nat /\ F >= 2 /\ F <= Len(file) /\ at \in Nat
         /\ at <= Len(file)
         /\ AtEnd => Piece = "EOI"
         /\ ~AtEnd => at + 1 \in 1..Len(file) /\ Piece = file[at + 1]
BY DamagedFacts DEF FileInv, AtEnd, Piece, PieceAt

\* A row of MCUs is decoded: while nothing but data came it is from the data of
\* the first scan, and what is not data ends that for every row that follows.
LEMMA RowStep ==
  ASSUME FileInv, Damaged(file), shape \in Shapes, input_iMCU_row \in Nat,
         AllShown \/ InFirst, at >= F, ~start_of_file,
         unread_marker = NONE \/ unread_marker \in Later,
         DecodeRow(input_iMCU_row), input_iMCU_row' = input_iMCU_row + 1,
         consume_input' = AfterRow, restart_interval' = restart_interval,
         file' = file, F' = F, Total' = Total
  PROVE  /\ (AllShown \/ InFirst)' /\ at' >= F /\ ~start_of_file'
         /\ (unread_marker = NONE \/ unread_marker \in Later)'
<1> DEFINE i == input_iMCU_row
<1>1. Total \in Nat \ {0} /\ i \in Nat
  BY ShapeFacts
<1>2. \A d \in decoded : d \in decoded'
  BY RowKeeps
<1>3. AllShown => AllShown'
  BY <1>2 DEF AllShown
<1>4. at' >= F /\ ~start_of_file'
  <2>1. at' \in at..Len(file) /\ ~start_of_file'
    BY RowReads
  <2> QED
    BY <2>1, FirstPieces
<1>5. Later' = Later
  BY DEF Later
<1>6. (unread_marker = NONE \/ unread_marker \in Later)'
  <2>1. unread_marker' \in Met
    BY RowReads
  <2>2. \A k \in (at + 1)..Len(file) : k \in (F + 1)..Len(file)
    BY FirstPieces
  <2> QED
    BY <1>5, <2>1, <2>2 DEF Met, Later
<1>7. ASSUME InFirst PROVE (AllShown \/ InFirst)'
  <2>1. /\ consume_input = "data" /\ at = F + i /\ unread_marker = NONE /\ ~insufficient_data
        /\ \A m \in 0..(i - 1) : m \in decoded
        /\ restart_interval = 0
    BY <1>7 DEF InFirst
  <2>2. FillRow(i, at, NONE, insufficient_data) /\ ~insufficient_data /\ Piece = PieceAt(at + 1)
    BY <2>1 DEF DecodeRow, RestartDue, Piece
  <2>3. CASE Piece \in Skipped
    <3>1. ~AtEnd
      BY <2>3, FirstPieces DEF Skipped
    <3>2. at' = at + 1
      BY <2>2, <3>1, FirstPieces DEF FillRow, ReadTo, AtEnd, Min2
    <3>3. decoded' = decoded \union {i} /\ unread_marker' = NONE /\ insufficient_data' = FALSE
      BY <2>3, <2>2 DEF FillRow
    <3>4. \A m \in 0..i : m \in decoded'
      BY <1>1, <2>1, <3>3
    <3>5. CASE i + 1 < Total
      <4>1. consume_input' = "data"
        BY <3>5 DEF AfterRow, Total
      <4>2. at' = F' + input_iMCU_row' /\ input_iMCU_row' - 1 = i
        BY <1>1, <2>1, <3>2, FirstPieces
      <4>3. \A m \in 0..(input_iMCU_row' - 1) : m \in decoded'
        BY <3>4, <4>2
      <4>4. unread_marker' = NONE /\ ~insufficient_data'
        BY <3>3
      <4> QED
        BY <2>1, <4>1, <4>2, <4>3, <4>4 DEF InFirst
    <3>6. CASE i + 1 >= Total
      <4>1. \A m \in 0..(Total - 1) : m \in decoded'
        BY <1>1, <3>4, <3>6
      <4> QED
        BY <4>1 DEF AllShown
    <3> QED
      BY <1>1, <3>5, <3>6
  <2>4. CASE Piece \notin Skipped
    <3>1. ASSUME NEW m \in 0..(Total - 1), Intact(file, m) PROVE m \in decoded
      <4>1. CASE m < i
        BY <1>1, <2>1, <4>1
      <4>2. CASE m >= i
        <5>1. at + 1 \in (F + 1)..(F + 1 + m)
          BY <1>1, <2>1, <4>2, FirstPieces
        <5>2. at + 1 <= Len(file) /\ file[at + 1] \in Skipped
          BY <3>1, <5>1 DEF Intact, F, Skipped
        <5>3. ~AtEnd
          BY <5>2, FirstPieces DEF AtEnd
        <5> QED
          BY <2>4, <5>2, <5>3, FirstPieces DEF Skipped
      <4> QED
        BY <1>1, <4>1, <4>2
    <3>2. AllShown
      BY <3>1 DEF AllShown
    <3> QED
      BY <1>3, <3>2
  <2> QED
    BY <2>3, <2>4
<1> QED
  BY <1>3, <1>4, <1>6, <1>7

LEMMA LaterPieces ==
  ASSUME FileInv, Damaged(file), NEW p \in Later
  PROVE  /\ p # "SOI" /\ p \notin {"bad", "reserved"} /\ p \notin Frames
         /\ p \in Scans => ~\A k \in DOMAIN file : file[k] \in Scans => k = F
<1>1. DOMAIN file = 1..Len(file)
  BY FilesAssumption DEF FileInv
<1>2. CASE p = "EOI"
  BY <1>2 DEF Frames, Scans
<1>3. CASE \E k \in (F + 1)..Len(file) : p = file[k]
  <2>1. PICK k \in (F + 1)..Len(file) : p = file[k]
    BY <1>3
  <2>2. k \in 1..Len(file) /\ k # 1 /\ k # F /\ ~(k \in 1..(F - 1))
    BY FirstPieces
  <2>3. p # "SOI" /\ p \notin {"bad", "reserved"}
    BY <2>1, <2>2, DamagedFacts DEF FileInv
  <2>4. p \notin Frames
    BY <2>1, <2>2, DamagedFacts DEF FileInv
  <2> QED
    BY <1>1, <2>1, <2>2, <2>3, <2>4
<1> QED
  BY <1>2, <1>3 DEF Later

\* After the first scan's header there is no error either: what may be missing
\* is the end, and the data source makes up an EOI.
LEMMA ScanMarkersStep ==
  ASSUME FileInv, Damaged(file), DamagedParts, WholeInv, pc # "header", ReadMarkers,
         file' = file, F' = F, Height' = Height, Total' = Total, \A y : InRow(y)' = InRow(y)
  PROVE  DamagedParts'
<1>1. /\ pc \in {"preload", "finish"} /\ pc \in AfterScan /\ pc \in AfterScan \ {"start"}
      /\ pc \notin BeforeScan
      /\ consume_input = "markers" /\ ~eoi_reached /\ result = "none" /\ ~inheaders
  BY DEF ReadMarkers, NoSoi, GetSoi, GetSof, GetTables, BadMarker, ReachedSos, ReachedEoi,
         Take, Reading, AfterScan, BeforeScan, WholeInv
<1>2. /\ at >= F /\ saw_SOI /\ saw_SOF /\ tables /\ comps \in {3, 4} /\ ~start_of_file
      /\ unread_marker = NONE \/ unread_marker \in Later
      /\ has_multiple_scans \/ \A k \in DOMAIN file : file[k] \in Scans => k = F
  BY <1>1 DEF DamagedParts, ScanInv
<1>3. AllShown /\ (pc = "finish" => PictureUpTo(Height))
  BY <1>1 DEF DamagedParts, RowsInv, InFirst
<1>4. Fetched \in Later /\ ~Empty
  <2>1. CASE unread_marker = NONE
    <3>1. CASE AtEnd
      BY <1>2, <2>1, <3>1, FirstPieces DEF Later, Fetched, Empty
    <3>2. CASE ~AtEnd
      <4>1. at + 1 \in (F + 1)..Len(file)
        BY <1>2, <3>2, FirstPieces
      <4> QED
        BY <2>1, <3>2, <4>1, FirstPieces DEF Later, Fetched, Empty
    <3> QED
      BY <3>1, <3>2
  <2>2. CASE unread_marker # NONE
    BY <1>2, <2>2 DEF Fetched, Empty
  <2> QED
    BY <2>1, <2>2
<1>5. ASSUME NEW kinds, Take(kinds)
      PROVE  Fetched \in kinds /\ at' >= F /\ unread_marker' = NONE /\ ~start_of_file'
  BY <1>2, <1>5, FirstPieces DEF Take, ReadPiece, ReadTo, Min2, source
<1>6. ASSUME pc' = pc, result' = result, UNCHANGED <<saw_SOI, saw_SOF, comps, pixels>>,
             UNCHANGED has_multiple_scans, UNCHANGED decoded, tables' = TRUE,
             has_multiple_scans /\ eoi_reached' => consume_input' = "markers",
             at' >= F, unread_marker' = NONE, ~start_of_file'
      PROVE  DamagedParts'
  <2>1. HeadInv'
    BY <1>1, <1>6 DEF HeadInv, BeforeScan
  <2>2. ScanInv'
    BY <1>1, <1>2, <1>6 DEF ScanInv, AfterScan
  <2>3. AllShown'
    BY <1>3, <1>6 DEF AllShown
  <2>4. PictureUpTo(Height) => PictureUpTo(Height)'
    BY <1>6 DEF PictureUpTo
  <2>5. RowsInv'
    BY <1>1, <1>3, <1>6, <2>3, <2>4 DEF RowsInv
  <2>6. ErrorInv'
    BY <1>1, <1>6 DEF ErrorInv
  <2> QED
    BY <2>1, <2>2, <2>5, <2>6 DEF DamagedParts
<1>7. CASE NoSoi
  BY <1>2, <1>4, <1>7 DEF NoSoi
<1>8. CASE GetSoi
  <2>1. Fetched = "SOI"
    BY <1>8 DEF GetSoi, Take
  <2> QED
    BY <1>4, <2>1, LaterPieces
<1>9. CASE GetSof
  <2>1. Fetched \in Frames
    BY <1>9 DEF GetSof, Take
  <2> QED
    BY <1>4, <2>1, LaterPieces
<1>10. CASE GetTables
  <2>1. at' >= F /\ unread_marker' = NONE /\ ~start_of_file'
    BY <1>5, <1>10 DEF GetTables
  <2>2. /\ tables' = TRUE
        /\ UNCHANGED <<pc, result, saw_SOI, saw_SOF, comps, pixels, has_multiple_scans, decoded,
                       eoi_reached>>
    BY <1>2, <1>10 DEF GetTables, input, rows
  <2> QED
    BY <1>1, <1>6, <2>1, <2>2
<1>11. CASE BadMarker
  <2>1. Fetched \in {"bad", "reserved"}
    BY <1>11 DEF BadMarker, Take
  <2> QED
    BY <1>4, <2>1, LaterPieces
<1>12. CASE ReachedSos
  <2>1. Fetched \in Scans /\ at' >= F /\ unread_marker' = NONE /\ ~start_of_file'
    BY <1>5, <1>12 DEF ReachedSos
  <2>2. has_multiple_scans
    BY <1>2, <1>4, <2>1, LaterPieces
  <2>3. ScanError = NONE
    BY <1>2, <2>2 DEF ScanError
  <2>4. /\ UNCHANGED <<pc, has_multiple_scans, eoi_reached, decoded>>
        /\ UNCHANGED <<pixels, result, saw_SOI, saw_SOF, tables, comps>>
    BY <1>1, <1>12, <2>3 DEF ReachedSos
  <2> QED
    BY <1>1, <1>2, <1>6, <2>1, <2>4
<1>13. CASE ReachedEoi
  <2>1. at' >= F /\ unread_marker' = NONE /\ ~start_of_file'
    BY <1>2, <1>13, FirstPieces DEF ReachedEoi, Take, ReadPiece, ReadTo, Min2, source
  <2>2. /\ UNCHANGED <<pc, has_multiple_scans, consume_input, decoded>>
        /\ UNCHANGED <<pixels, result, saw_SOI, saw_SOF, tables, comps>>
    BY <1>1, <1>13 DEF ReachedEoi, rows
  <2> QED
    BY <1>1, <1>2, <1>6, <2>1, <2>2
<1> QED
  BY <1>7, <1>8, <1>9, <1>10, <1>11, <1>12, <1>13 DEF ReadMarkers

\* One turn of readJPEG's loop: the line is the picture's when its row of MCUs
\* came out of the data, and that row had come out by then.
LEMMA LineStep ==
  ASSUME FileInv, Damaged(file), DamagedParts, CallInv, WholeInv, WholeInv', ReadScanlines,
         file' = file, shape' = shape, F' = F, Height' = Height, Total' = Total,
         \A y : InRow(y)' = InRow(y)
  PROVE  DamagedParts'
<1> DEFINE y == output_scanline
<1>1. /\ pc = "loop" /\ global_state = "SCANNING" /\ y < Height /\ y \in Nat
      /\ shape \in Shapes /\ input_iMCU_row \in Nat
      /\ pixels \in [0..(Height - 1) -> Held] /\ result = "none"
  BY DEF ReadScanlines, CallInv, WholeInv
<1>2. Height \in Nat \ {0} /\ y \in 0..(Height - 1) /\ InRow(y) \in Nat /\ InRow(y) + 1 <= Total
      /\ Total \in Nat
  <2>1. Height \in Nat \ {0} /\ Total \in Nat
    BY <1>1, ShapeFacts
  <2>2. y \in 0..(Height - 1)
    BY <1>1, <2>1
  <2> QED
    BY <1>1, <2>1, <2>2, ShapeFacts
<1>3. /\ at >= F /\ saw_SOI /\ saw_SOF /\ tables /\ comps \in {3, 4} /\ ~start_of_file
      /\ unread_marker = NONE \/ unread_marker \in Later
      /\ has_multiple_scans \/ \A k \in DOMAIN file : file[k] \in Scans => k = F
      /\ AllShown \/ InFirst
      /\ PictureUpTo(y)
  BY <1>1 DEF DamagedParts, ScanInv, RowsInv, AfterScan
<1>4. /\ pc' = "loop" /\ result' = "none" /\ error' = error
      /\ UNCHANGED <<saw_SOI, saw_SOF, tables, comps, restart_interval, has_multiple_scans,
                      eoi_reached>>
      /\ pixels' = [pixels EXCEPT ![y] = Filled(y)] /\ output_scanline' = y + 1
      /\ IF Waits /\ ~has_multiple_scans
         THEN /\ DecodeRow(input_iMCU_row)
              /\ input_iMCU_row' = input_iMCU_row + 1
              /\ consume_input' = AfterRow
         ELSE UNCHANGED <<infile, source, unread_marker, insufficient_data, decoded,
                          input_iMCU_row, consume_input>>
  BY <1>1 DEF ReadScanlines, InState
<1>5. /\ (AllShown \/ InFirst)' /\ at' >= F /\ ~start_of_file'
      /\ (unread_marker = NONE \/ unread_marker \in Later)'
  <2>1. CASE Waits /\ ~has_multiple_scans
    BY <1>1, <1>3, <1>4, <2>1, RowStep
  <2>2. CASE ~(Waits /\ ~has_multiple_scans)
    <3>1. UNCHANGED <<source, unread_marker, insufficient_data, decoded, input_iMCU_row,
                      consume_input>>
      BY <1>4, <2>2
    <3>2. Later' = Later /\ AllShown' = AllShown /\ InFirst' = InFirst
      BY <1>4, <3>1 DEF Later, AllShown, InFirst, source
    <3> QED
      BY <1>3, <3>1, <3>2 DEF source
  <2> QED
    BY <2>1, <2>2
<1>6. ASSUME Intact(file, InRow(y)) PROVE InRow(y) \in decoded'
  <2>1. InRow(y) \in 0..(Total - 1)
    BY <1>2
  <2>2. CASE AllShown'
    BY <1>6, <2>1, <2>2 DEF AllShown
  <2>3. CASE InFirst'
    <3>1. ~has_multiple_scans
      <4>1. has_multiple_scans => eoi_reached /\ consume_input = "markers"
        BY <1>1 DEF WholeInv, DamagedParts, ScanInv, AfterScan
      <4>2. consume_input' = "data"
        BY <2>3 DEF InFirst
      <4> QED
        BY <1>4, <4>1, <4>2
    <3>2. /\ output_iMCU_row' \in Nat /\ input_iMCU_row' = output_iMCU_row'
          /\ output_iMCU_row' >= InRow(y) + 1
      <4>1. output_scanline' > 0 /\ output_scanline' - 1 = y
        BY <1>1, <1>4
      <4> QED
        BY <1>4, <3>1, <4>1 DEF WholeInv
    <3>3. InRow(y) \in 0..(input_iMCU_row' - 1)
      BY <1>2, <3>2
    <3> QED
      BY <2>3, <3>3 DEF InFirst
  <2> QED
    BY <1>5, <2>2, <2>3
<1>7. PictureUpTo(output_scanline)'
  <2> SUFFICES ASSUME NEW z \in 0..(Height - 1), z < y + 1, Intact(file, InRow(z))
               PROVE  pixels'[z] = "picture"
    BY <1>4 DEF PictureUpTo
  <2>1. CASE z = y
    <3>1. InRow(y) \in decoded'
      BY <1>6, <2>1
    <3>2. Filled(y) = "picture"
      BY <1>3, <3>1 DEF Filled, InRow
    <3> QED
      BY <1>1, <1>2, <1>4, <2>1, <3>2
  <2>2. CASE z # y
    <3>1. z < y
      BY <1>1, <2>2
    <3>2. pixels[z] = "picture"
      BY <1>3, <3>1 DEF PictureUpTo
    <3> QED
      BY <1>1, <1>4, <2>2, <3>2
  <2> QED
    BY <2>1, <2>2
<1>8. has_multiple_scans /\ eoi_reached' => consume_input' = "markers"
  BY <1>1, <1>4 DEF DamagedParts, ScanInv, AfterScan
<1>9. HeadInv' /\ ErrorInv'
  BY <1>4 DEF HeadInv, ErrorInv, BeforeScan
<1>10. ScanInv'
  BY <1>3, <1>4, <1>5, <1>8 DEF ScanInv
<1>11. RowsInv'
  BY <1>4, <1>5, <1>7 DEF RowsInv
<1> QED
  BY <1>9, <1>10, <1>11 DEF DamagedParts

\* After the last line there is a line of the picture wherever there is data.
LEMMA PictureWhole ==
  ASSUME Height \in Nat, NEW n \in Nat, n >= Height, PictureUpTo(n)
  PROVE  PictureUpTo(Height)
BY DEF PictureUpTo

LEMMA DamagedPartsStep ==
  ASSUME FileInv, Damaged(file), DamagedParts, CallInv, WholeInv, WholeInv', Next,
         file' = file, shape' = shape, F' = F, Height' = Height, Total' = Total,
         \A y : InRow(y)' = InRow(y)
  PROVE  DamagedParts'
<1> USE DEF DamagedParts
<1>1. Later' = Later
  BY DEF Later
<1>2. CASE Open
  <2>1. /\ pc = "open" /\ pc' \in {"create", "returned"} /\ infile = "none" /\ result # "image"
        /\ pc' = "create" \/ (infile' = "none" /\ result' = "null")
        /\ result' # "image"
        /\ UNCHANGED <<source, marker, input>>
    BY <1>2 DEF Open, CallInv, WholeInv
  <2>2. HeadInv'
    BY <2>1 DEF HeadInv, BeforeScan, HeaderRead, HasInterval, source, marker, input
  <2>3. ScanInv' /\ RowsInv' /\ ErrorInv'
    BY <2>1 DEF ScanInv, RowsInv, ErrorInv, AfterScan
  <2> QED
    BY <2>2, <2>3
<1>3. CASE CreateDecompress \/ StdioSrc
  <2>1. /\ pc \in BeforeScan /\ pc # "header" /\ pc' \in {"stdio_src", "read_header"}
        /\ result' # "image"
        /\ UNCHANGED <<source, marker, input>>
    BY <1>3 DEF CreateDecompress, StdioSrc, WholeInv, app, BeforeScan
  <2>2. HeadInv'
    BY <2>1 DEF HeadInv, BeforeScan, HeaderRead, HasInterval, source, marker, input
  <2>3. ScanInv' /\ RowsInv' /\ ErrorInv'
    BY <2>1 DEF ScanInv, RowsInv, ErrorInv, AfterScan
  <2> QED
    BY <2>2, <2>3
<1>4. CASE CreateFails \/ OutOfMemory
  <2>1. pc' = "handler" /\ error' = "OUT_OF_MEMORY" /\ result' # "image"
    BY <1>4 DEF CreateFails, OutOfMemory, ErrorExit, WholeInv, app
  <2> QED
    BY <2>1 DEF HeadInv, ScanInv, RowsInv, ErrorInv, BeforeScan, AfterScan
<1>5. CASE ReadHeader
  <2>1. pc = "read_header" /\ global_state = "START"
    BY <1>5 DEF ReadHeader, CallInv
  <2>2. /\ pc' = "header" /\ at' = at /\ inheaders' = TRUE /\ unread_marker' = NONE
        /\ saw_SOI' = FALSE /\ saw_SOF' = FALSE /\ result' # "image"
        /\ restart_interval' = restart_interval
    BY <1>5, <2>1 DEF ReadHeader, InState, app, WholeInv
  <2>3. at = 0 /\ at < F /\ HeaderRead
    BY <2>1 DEF HeadInv, BeforeScan
  <2>4. HeaderRead'
    <3>1. \A k \in 1..0 : FALSE
      OBVIOUS
    <3> QED
      BY <2>2, <2>3, <3>1 DEF HeaderRead, HasInterval
  <2> QED
    BY <2>2, <2>3, <2>4 DEF HeadInv, ScanInv, RowsInv, ErrorInv, BeforeScan, AfterScan
<1>6. CASE ReadMarkers
  BY <1>6, HeaderStep, ScanMarkersStep
<1>7. CASE StartDecompress
  <2>1. /\ pc = "start" /\ global_state = "READY" /\ tables /\ result = "none"
        /\ at = F /\ unread_marker = NONE
    BY <1>7 DEF StartDecompress, CallInv, WholeInv, ScanInv, AfterScan
  <2>2. /\ StartInputPass /\ pc' \in {"preload", "alloc"}
        /\ UNCHANGED <<app, source, marker, has_multiple_scans, eoi_reached>>
    BY <1>7, <2>1 DEF StartDecompress, InState
  <2>3. ~eoi_reached
    BY <2>1 DEF ScanInv, AfterScan
  <2>4. (AllShown \/ InFirst)'
    <3>1. CASE restart_interval = 0
      BY <2>1, <2>2, <3>1 DEF InFirst, StartInputPass, source, marker, FileInv
    <3>2. CASE restart_interval # 0
      <4>1. \E k \in 1..(F - 1) : file[k] \in DOMAIN Intervals
        BY <2>1, <3>2 DEF ScanInv, AfterScan, HasInterval
      <4>2. F' = F /\ file' = file
        OBVIOUS
      <4> QED
        BY <4>1, <4>2 DEF AllShown, Intact, F
    <3> QED
      BY <3>1, <3>2
  <2> QED
    BY <1>1, <2>1, <2>2, <2>3, <2>4 DEF HeadInv, ScanInv, RowsInv, ErrorInv, BeforeScan,
       AfterScan, app, source, marker
<1>8. CASE ConsumeData
  <2>1. /\ pc = "preload" /\ pc' = "preload" /\ result' # "image" /\ ~eoi_reached
        /\ UNCHANGED <<saw_SOI, saw_SOF, tables, comps, has_multiple_scans, eoi_reached>>
    BY <1>8 DEF ConsumeData, WholeInv, ScanInv, AfterScan
  <2>2. /\ (AllShown \/ InFirst)' /\ at' >= F /\ ~start_of_file'
        /\ (unread_marker = NONE \/ unread_marker \in Later)'
    BY <1>8, <2>1, RowStep DEF ConsumeData, ScanInv, RowsInv, AfterScan, WholeInv
  <2> QED
    BY <2>1, <2>2 DEF HeadInv, ScanInv, RowsInv, ErrorInv, BeforeScan, AfterScan
<1>9. CASE OutputPassSetup \/ AllocRow \/ FinishDecompress
  <2>1. FinishDecompress => global_state = "SCANNING"
    BY DEF FinishDecompress, CallInv
  <2>2. /\ pc \in AfterScan \ {"start"} /\ pc' \in AfterScan \ {"start"}
        /\ UNCHANGED <<app, source, marker, input, insufficient_data, input_iMCU_row, decoded>>
        /\ result = "none"
    BY <1>9, <2>1 DEF OutputPassSetup, AllocRow, FinishDecompress, InState, AfterScan, rows,
       WholeInv
  <2>3. HeadInv' /\ ErrorInv'
    BY <2>2 DEF HeadInv, ErrorInv, BeforeScan, AfterScan
  <2>4. ScanInv'
    BY <1>1, <2>2 DEF ScanInv, AfterScan, source, marker, input
  <2>5. (AllShown \/ InFirst)'
    <3>1. AllShown \/ InFirst
      BY <2>2 DEF RowsInv
    <3>2. AllShown' = AllShown /\ InFirst' = InFirst
      BY <2>2 DEF AllShown, InFirst, source, marker, input
    <3> QED
      BY <3>1, <3>2
  <2>6. \A n : PictureUpTo(n) => PictureUpTo(n)'
    BY <2>2 DEF PictureUpTo, app
  <2>7. pc' = "loop" => PictureUpTo(output_scanline)'
    <3>1. pc' = "loop" => output_scanline' = 0
      BY <1>9, <2>1 DEF OutputPassSetup, AllocRow, FinishDecompress, InState, rows, WholeInv
    <3> QED
      BY <3>1 DEF PictureUpTo
  <2>8. pc' = "finish" => PictureUpTo(Height)'
    <3>1. pc' = "finish" => pc = "loop" /\ output_scanline >= Height
      BY <1>9, <2>1 DEF OutputPassSetup, AllocRow, FinishDecompress
    <3>2. Height \in Nat /\ output_scanline \in Nat
      BY ShapeFacts DEF WholeInv
    <3> QED
      BY <2>6, <3>1, <3>2, PictureWhole DEF RowsInv
  <2> QED
    BY <2>2, <2>3, <2>4, <2>5, <2>7, <2>8 DEF RowsInv, AfterScan, app
<1>10. CASE ReadScanlines
  BY <1>10, LineStep
<1>11. CASE Finished \/ DestroyDecompress \/ Close
  <2>1. /\ pc \in {"finish", "destroy", "close"}
        /\ pc' \in {"destroy", "close"} \/ (pc' = "returned" /\ result' = "image")
        /\ pixels' = pixels
    BY <1>11 DEF Finished, DestroyDecompress, Close, app
  <2>2. PictureUpTo(Height)'
    BY <2>1 DEF RowsInv, PictureUpTo
  <2> QED
    BY <2>1, <2>2 DEF HeadInv, ScanInv, RowsInv, ErrorInv, BeforeScan, AfterScan
<1>12. CASE Handler
  <2>1. pc = "handler" /\ pc' = "returned" /\ error' = error /\ result' # "image"
    BY <1>12 DEF Handler
  <2> QED
    BY <2>1 DEF HeadInv, ScanInv, RowsInv, ErrorInv, BeforeScan, AfterScan
<1> QED
  BY <1>2, <1>3, <1>4, <1>5, <1>6, <1>7, <1>8, <1>9, <1>10, <1>11, <1>12 DEF Next

LEMMA DamagedInit == Init => DamagedInv
<1> SUFFICES ASSUME Init PROVE DamagedInv
  OBVIOUS
<1>1. /\ file \in Files /\ at = 0 /\ pc = "open" /\ result = "none" /\ unread_marker = NONE
      /\ inheaders /\ saw_SOI = FALSE /\ saw_SOF = FALSE /\ restart_interval = 0
  BY DEF Init
<1>2. FileInv
  BY <1>1, FilesAssumption DEF FileInv
<1>3. \A k \in 1..0 : FALSE
  OBVIOUS
<1>4. HeaderRead
  BY <1>1, <1>3 DEF HeaderRead, HasInterval
<1>5. Damaged(file) => at < F
  BY <1>1, DamagedFacts
<1> QED
  BY <1>1, <1>2, <1>4, <1>5 DEF DamagedInv, HeadInv, ScanInv, RowsInv, ErrorInv, BeforeScan,
     AfterScan

LEMMA DamagedStep ==
  ASSUME DamagedInv, CallInv, WholeInv, WholeInv', [Next]_vars
  PROVE  DamagedInv'
<1>1. /\ FileInv' /\ file' = file /\ shape' = shape
      /\ F' = F /\ Height' = Height /\ Total' = Total /\ \A y : InRow(y)' = InRow(y)
  BY FileStep DEF DamagedInv
<1>2. CASE Next
  <2>1. ASSUME Damaged(file) PROVE DamagedParts'
    BY <1>1, <1>2, <2>1, DamagedPartsStep DEF DamagedInv, DamagedParts
  <2> QED
    BY <1>1, <2>1 DEF DamagedInv, DamagedParts
<1>3. CASE UNCHANGED vars
  <2>1. UNCHANGED <<pc, app, source, error, marker, input, rows>>
    BY <1>3 DEF vars
  <2>2. (HeaderRead => HeaderRead') /\ Later' = Later
    BY <1>1, <2>1 DEF HeaderRead, HasInterval, Later, source, marker
  <2>3. AllShown' = AllShown /\ InFirst' = InFirst
    BY <1>1, <2>1 DEF AllShown, InFirst, source, marker, input, rows
  <2>4. \A n : PictureUpTo(n)' = PictureUpTo(n)
    BY <1>1, <2>1 DEF PictureUpTo, app
  <2>5. HeadInv => HeadInv'
    BY <1>1, <2>1, <2>2 DEF HeadInv, source, marker, input
  <2>6. ScanInv => ScanInv'
    BY <1>1, <2>1, <2>2 DEF ScanInv, HasInterval, source, marker, input
  <2>7. RowsInv => RowsInv'
    <3>1. output_scanline' = output_scanline /\ pc' = pc /\ result' = result
      BY <2>1 DEF rows, app
    <3> QED
      BY <1>1, <2>3, <2>4, <3>1 DEF RowsInv
  <2>8. ErrorInv => ErrorInv'
    BY <2>1 DEF ErrorInv, app
  <2> QED
    BY <1>1, <2>5, <2>6, <2>7, <2>8 DEF DamagedInv
<1> QED
  BY <1>2, <1>3

(* A file that was cut off, or spoilt behind its first scan's header, still *)
(* gives an image unless the memory ends, and each row of MCUs whose data   *)
(* is there is in it: no marker it can meet is an error, the data source    *)
(* ends it with an EOI of its own, and only what comes after the first gap  *)
(* of the first scan is grey.                                               *)
THEOREM DamagedIsAlwaysShown == Spec => []DamagedIsShown
<1>1. DamagedInv /\ WholeInv => DamagedIsShown
  <2> SUFFICES ASSUME DamagedInv, WholeInv, pc = "returned", infile = "closed",
                      error # "OUT_OF_MEMORY", Damaged(file)
               PROVE  /\ result = "image"
                      /\ \A y \in DOMAIN pixels :
                           Intact(file, y \div shape.iMCU) => pixels[y] = "picture"
    BY DEF DamagedIsShown
  <2>1. result = "image"
    BY DEF DamagedInv, ErrorInv
  <2>2. PictureUpTo(Height)
    BY <2>1 DEF DamagedInv, RowsInv
  <2>3. DOMAIN pixels = 0..(Height - 1) /\ Height \in Nat
    BY ShapeFacts DEF WholeInv
  <2> QED
    BY <2>1, <2>2, <2>3 DEF PictureUpTo, InRow
<1> QED
  BY <1>1, CallHolds, WholeInit, WholeStep, DamagedInit, DamagedStep, PTL DEF Spec

-----------------------------------------------------------------------------
(* Every step leaves less to do.                                           *)

\* Triples of numbers in their lexicographic ordering.
NatLess == { ss \in Nat \X Nat : ss[1] < ss[2] }

Pairs   == Nat \X Nat
Triples == Nat \X Pairs

PairLess   == LexPairOrdering(NatLess, NatLess, Nat, Nat)
TripleLess == LexPairOrdering(NatLess, PairLess, Nat, Pairs)

\* No infinite descent among them.
LEMMA TriplesAreWellFounded == IsWellFoundedOn(TripleLess, Triples)
<1>1. PICK R : R = OpToRel(<, Nat)
  OBVIOUS
<1>2. NatLess = R
  BY <1>1 DEF NatLess, OpToRel
<1>3. IsWellFoundedOn(NatLess, Nat)
  BY <1>1, <1>2, NatLessThanWellFounded
<1>4. IsWellFoundedOn(PairLess, Pairs)
  BY <1>3, WFLexPairOrdering DEF PairLess, Pairs
<1> QED
  BY <1>3, <1>4, WFLexPairOrdering DEF TripleLess, Triples

\* A pair goes down when its first number does, or when that stays and the
\* second part does.
LEMMA LexDown ==
  ASSUME NEW R, NEW S, NEW a \in Nat, NEW b \in Nat, NEW u \in S, NEW v \in S,
         a < b \/ (a = b /\ <<u, v>> \in R)
  PROVE  <<<<a, u>>, <<b, v>>>> \in LexPairOrdering(NatLess, R, Nat, S)
<1>1. PICK ss : ss = <<<<a, u>>, <<b, v>>>>
  OBVIOUS
<1>2. ss \in (Nat \X S) \X (Nat \X S)
  BY <1>1
<1>3. ss[1][1] = a /\ ss[2][1] = b /\ ss[1][2] = u /\ ss[2][2] = v
  BY <1>1
<1>4. a < b => <<a, b>> \in NatLess
  BY DEF NatLess
<1> QED
  BY <1>1, <1>2, <1>3, <1>4 DEF LexPairOrdering

\* How many calls of readJPEG's are still to come.
Stage ==
  CASE pc = "open" -> 12 [] pc = "create" -> 11 [] pc = "stdio_src" -> 10
    [] pc = "read_header" -> 9 [] pc = "header" -> 8 [] pc = "start" -> 7
    [] pc = "preload" -> 6 [] pc = "alloc" -> 5 [] pc = "loop" -> 4 [] pc = "finish" -> 3
    [] pc = "destroy" -> 2 [] pc \in {"close", "handler"} -> 1 [] OTHER -> 0

EoiLeft == IF eoi_reached THEN 0 ELSE 1

\* A marker that was met is still to be dealt with.  The EOI is not counted: there
\* is always one more of them, but EoiLeft ends with the first.
Counted(met) == IF met \in {NONE, "EOI"} THEN 0 ELSE 1
PiecesLeft == Len(file) - at + Counted(unread_marker)

\* The lines of the picture, or the rows of MCUs of this scan.
RowsLeft ==
  IF pc = "loop" THEN Height - output_scanline
  ELSE IF pc = "preload" /\ consume_input = "data" THEN Total - input_iMCU_row ELSE 0

\* What is left to do.
Triple(s, e, p, r) == <<2 * s + e, <<p, r>>>>
Left == Triple(Stage, EoiLeft, PiecesLeft, RowsLeft)

LeftDescends == <<Left', Left>> \in TripleLess

\* Of four numbers the first that changes is less.
Lower(s1, e1, p1, r1, s, e, p, r) ==
  \/ s1 < s
  \/ s1 = s /\ e1 < e
  \/ s1 = s /\ e1 = e /\ p1 < p
  \/ s1 = s /\ e1 = e /\ p1 = p /\ r1 < r

LEMMA TripleDown ==
  ASSUME NEW s1 \in Nat, NEW e1 \in 0..1, NEW p1 \in Nat, NEW r1 \in Nat,
         NEW s \in Nat, NEW e \in 0..1, NEW p \in Nat, NEW r \in Nat,
         Lower(s1, e1, p1, r1, s, e, p, r)
  PROVE  <<Triple(s1, e1, p1, r1), Triple(s, e, p, r)>> \in TripleLess
<1> DEFINE a1 == 2 * s1 + e1
           a  == 2 * s + e
           q1 == <<p1, r1>>
           q  == <<p, r>>
<1>1. a1 \in Nat /\ a \in Nat
  OBVIOUS
<1>2. a1 < a \/ (a1 = a /\ (p1 < p \/ (p1 = p /\ r1 < r)))
  BY DEF Lower
<1> HIDE DEF a1, a
<1>3. r1 < r => <<r1, r>> \in NatLess
  BY DEF NatLess
<1>4. p1 < p \/ (p1 = p /\ r1 < r) => <<q1, q>> \in PairLess
  BY <1>3, LexDown DEF PairLess
<1>5. q1 \in Pairs /\ q \in Pairs
  BY DEF Pairs
<1> HIDE DEF q1, q
<1>6. <<<<a1, q1>>, <<a, q>>>> \in TripleLess
  BY <1>1, <1>2, <1>4, <1>5, LexDown DEF TripleLess
<1> QED
  BY <1>6 DEF Triple, a1, a, q1, q

\* The data of a scan ends with its last row of MCUs.
ScanEnds == pc = "preload" /\ consume_input = "data" => input_iMCU_row < Total

\* The four numbers.
LeftOK == Stage \in Nat /\ EoiLeft \in 0..1 /\ PiecesLeft \in Nat /\ RowsLeft \in Nat

LEMMA LeftTyped == FileInv /\ WholeInv /\ ScanEnds => LeftOK
<1> SUFFICES ASSUME FileInv, WholeInv, ScanEnds PROVE LeftOK
  OBVIOUS
<1>1. Stage \in Nat
  BY DEF Stage
<1>2. EoiLeft \in 0..1
  BY DEF EoiLeft
<1>3. Len(file) \in Nat /\ at \in 0..Len(file)
  BY FilesAssumption DEF FileInv
<1>4. PiecesLeft \in Nat
  BY <1>3 DEF PiecesLeft, Counted
<1>5. RowsLeft \in Nat
  <2>1. Height \in Nat /\ Total \in Nat
    BY ShapeFacts DEF WholeInv
  <2> QED
    BY <2>1 DEF RowsLeft, WholeInv, ScanEnds
<1> QED
  BY <1>1, <1>2, <1>4, <1>5 DEF LeftOK

Forward ==
  Lower(Stage', EoiLeft', PiecesLeft', RowsLeft', Stage, EoiLeft, PiecesLeft, RowsLeft)

\* A step to a later call.
LEMMA StageForward == Stage' < Stage => Forward
BY DEF Forward, Lower

\* A piece is read, or the EOI behind the end of the file.
LEMMA PieceRead ==
  ASSUME FileInv, ReadPiece
  PROVE  /\ file' = file /\ Len(file) \in Nat
         /\ IF AtEnd THEN at' = at /\ Piece = "EOI" ELSE at' = at + 1
<1>1. Len(file) \in Nat /\ at \in 0..Len(file)
  BY FilesAssumption DEF FileInv
<1> QED
  BY <1>1 DEF ReadPiece, ReadTo, AtEnd, Piece, PieceAt, Min2

\* A marker that was dealt with is one piece less, unless it is the EOI.
LEMMA TakenIsLess ==
  ASSUME FileInv, NEW kinds, Take(kinds), "EOI" \notin kinds
  PROVE  PiecesLeft' < PiecesLeft
<1>1. Len(file) \in Nat /\ at \in 0..Len(file) /\ Fetched \in kinds /\ unread_marker' = NONE
  BY FilesAssumption DEF FileInv, Take
<1>2. PiecesLeft' = Len(file') - at' + 0
  BY <1>1 DEF PiecesLeft, Counted
<1>3. CASE unread_marker = NONE
  <2>1. ReadPiece /\ Piece # "EOI"
    BY <1>1, <1>3 DEF Take, Fetched
  <2>2. file' = file /\ at' = at + 1
    BY <2>1, PieceRead
  <2>3. PiecesLeft = Len(file) - at
    BY <1>1, <1>3 DEF PiecesLeft, Counted
  <2> QED
    BY <1>1, <1>2, <2>2, <2>3
<1>4. CASE unread_marker # NONE
  <2>1. UNCHANGED source /\ unread_marker # "EOI"
    BY <1>1, <1>4 DEF Take, Fetched
  <2>2. PiecesLeft = Len(file) - at + 1
    BY <1>4, <2>1 DEF PiecesLeft, Counted
  <2> QED
    BY <1>1, <1>2, <2>1, <2>2 DEF source
<1> QED
  BY <1>3, <1>4

\* While a row of MCUs is decoded, no piece is added: of those that are read all
\* but the last one are gone.
LeftAfter(k, met) == (IF k > Len(file) THEN 0 ELSE Len(file) - k) + Counted(met)

LEMMA FillIsNoMore ==
  ASSUME FileInv, NEW n, NEW k \in at..(Len(file) + 1), NEW met, NEW ran_out,
         FillRow(n, k, met, ran_out), LeftAfter(k, met) <= PiecesLeft
  PROVE  PiecesLeft' <= PiecesLeft
<1>1. Len(file) \in Nat /\ at \in 0..Len(file) /\ k \in Nat /\ file' = file
  BY FilesAssumption, FillKeeps DEF FileInv
<1>2. /\ \A m : Counted(m) \in 0..1
      /\ Counted(NONE) = 0 /\ Counted("EOI") = 0
  BY DEF Counted
<1>3. PiecesLeft' = Len(file) - at' + Counted(unread_marker')
  BY <1>1 DEF PiecesLeft, Counted
<1>4. PiecesLeft \in Nat
  BY <1>1, <1>2 DEF PiecesLeft
<1>5. ASSUME NEW j \in Nat PROVE Min2(j, Len(file)) = IF j > Len(file) THEN Len(file) ELSE j
  BY <1>1, <1>5 DEF Min2
<1>6. CASE met # NONE \/ ran_out
  <2>1. unread_marker' = met /\ (at' = Min2(k, Len(file)) \/ (at' = at /\ k = at))
    BY <1>6 DEF FillRow, ReadTo, source
  <2>2. at' = IF k > Len(file) THEN Len(file) ELSE k
    BY <1>1, <1>5, <2>1
  <2>3. PiecesLeft' = LeftAfter(k, met)
    BY <1>1, <1>2, <1>3, <2>1, <2>2 DEF LeftAfter
  <2> QED
    BY <1>4, <2>3
<1>7. CASE ~(met # NONE \/ ran_out)
  <2>1. at' = Min2(k + 1, Len(file))
    BY <1>7 DEF FillRow, ReadTo
  <2>2. unread_marker' = NONE \/ unread_marker' = PieceAt(k + 1)
    BY <1>7 DEF FillRow
  <2>3. LeftAfter(k, met) = IF k > Len(file) THEN 0 ELSE Len(file) - k
    BY <1>1, <1>2, <1>7 DEF LeftAfter
  <2>4. CASE k + 1 > Len(file)
    <3>1. at' = Len(file)
      BY <1>1, <1>5, <2>1, <2>4
    <3>2. PieceAt(k + 1) = "EOI"
      BY <2>4 DEF PieceAt
    <3>3. Counted(unread_marker') = 0
      BY <1>2, <2>2, <3>2
    <3> QED
      BY <1>1, <1>3, <1>4, <3>1, <3>3
  <2>5. CASE k + 1 <= Len(file)
    <3>1. at' = k + 1
      BY <1>1, <1>5, <2>1, <2>5
    <3>2. Counted(unread_marker') \in 0..1
      BY <1>2
    <3>3. LeftAfter(k, met) = Len(file) - k
      BY <1>1, <2>3, <2>5
    <3> QED
      BY <1>1, <1>3, <1>4, <3>1, <3>2, <3>3
  <2> QED
    BY <1>1, <2>4, <2>5
<1> QED
  BY <1>6, <1>7

LEMMA RowIsNoMore ==
  ASSUME FileInv, NEW n, DecodeRow(n)
  PROVE  PiecesLeft' < PiecesLeft \/ PiecesLeft' = PiecesLeft
<1>1. Len(file) \in Nat /\ at \in 0..Len(file) /\ at \in at..(Len(file) + 1)
  BY FilesAssumption DEF FileInv
<1>2. /\ \A m : Counted(m) \in 0..1
      /\ Counted(NONE) = 0 /\ Counted("EOI") = 0
  BY DEF Counted
<1>3. /\ LeftAfter(at, unread_marker) <= PiecesLeft
      /\ LeftAfter(at, NONE) <= PiecesLeft
  BY <1>1, <1>2 DEF LeftAfter, PiecesLeft
<1>4. ASSUME NEW d, NEW k \in Resynced(d)
      PROVE  /\ k \in at..(Len(file) + 1)
             /\ LeftAfter(k, PieceAt(k)) <= PiecesLeft /\ LeftAfter(k, NONE) <= PiecesLeft
  <2>1. k \in (at + 1)..(Len(file) + 1)
    BY DEF Resynced
  <2> QED
    BY <1>1, <1>2, <2>1 DEF LeftAfter, PiecesLeft, PieceAt
<1>5. ASSUME NEW k \in at..(Len(file) + 1), NEW found, Restarted(n, k, found),
             LeftAfter(k, found) <= PiecesLeft, LeftAfter(k, NONE) <= PiecesLeft
      PROVE  PiecesLeft' <= PiecesLeft
  <2>1. PICK met \in {found, NONE}, lost \in BOOLEAN : FillRow(n, k, met, lost)
    BY <1>5 DEF Restarted
  <2> QED
    BY <1>5, <2>1, FillIsNoMore
<1>6. PiecesLeft' <= PiecesLeft
  <2> DEFINE d == next_restart_num(n)
  <2>1. CASE FillRow(n, at, unread_marker, insufficient_data)
    BY <1>1, <1>3, <2>1, FillIsNoMore
  <2>2. CASE Restarted(n, at, unread_marker)
    BY <1>1, <1>3, <1>5, <2>2
  <2>3. CASE \E k \in Resynced(d) : Restarted(n, k, PieceAt(k))
    BY <1>4, <1>5, <2>3
  <2> QED
    BY <2>1, <2>2, <2>3 DEF DecodeRow
<1>7. file' = file /\ at' \in at..Len(file)
  BY RowKeeps, RowReads
<1>8. PiecesLeft \in Nat
  BY <1>1, <1>2 DEF PiecesLeft
<1>9. PiecesLeft' \in Nat
  <2>1. PiecesLeft' = Len(file) - at' + Counted(unread_marker')
    BY <1>7 DEF PiecesLeft, Counted
  <2> QED
    BY <1>1, <1>7, <1>2, <2>1
<1> QED
  BY <1>6, <1>8, <1>9

\* A marker is dealt with.
LEMMA MarkersForward ==
  ASSUME FileInv, WholeInv, ScanEnds, ReadMarkers, Total' = Total
  PROVE  ScanEnds' /\ Forward
<1>1. /\ pc \in {"header", "preload", "finish"} /\ consume_input = "markers" /\ ~eoi_reached
      /\ Total \in Nat \ {0}
  BY ShapeFacts DEF WholeInv, ReadMarkers, NoSoi, GetSoi, GetSof, GetTables, BadMarker,
     ReachedSos, ReachedEoi, Take, Reading
<1>2. ASSUME pc' = "handler" PROVE ScanEnds' /\ Forward
  <2>1. Stage' = 1 /\ Stage > 1
    BY <1>1, <1>2 DEF Stage
  <2> QED
    BY <1>2, <2>1, StageForward DEF ScanEnds
<1>3. ASSUME pc' = pc, UNCHANGED input, PiecesLeft' < PiecesLeft PROVE ScanEnds' /\ Forward
  <2>1. Stage' = Stage /\ EoiLeft' = EoiLeft /\ consume_input' # "data"
    BY <1>1, <1>3 DEF Stage, EoiLeft, input
  <2> QED
    BY <1>3, <2>1 DEF ScanEnds, Forward, Lower
<1>4. CASE NoSoi
  BY <1>2, <1>4 DEF NoSoi, ErrorExit
<1>5. CASE GetSoi
  <2>1. PiecesLeft' < PiecesLeft
    <3>1. Take({"SOI"}) /\ "EOI" \notin {"SOI"}
      BY <1>5 DEF GetSoi
    <3> QED
      BY <3>1, TakenIsLess
  <2> QED
    BY <1>2, <1>3, <1>5, <2>1 DEF GetSoi
<1>6. CASE GetSof
  <2>1. PiecesLeft' < PiecesLeft
    <3>1. Take(Frames) /\ "EOI" \notin Frames
      BY <1>6 DEF GetSof, Frames
    <3> QED
      BY <3>1, TakenIsLess
  <2> QED
    BY <1>2, <1>3, <1>6, <2>1 DEF GetSof
<1>7. CASE GetTables
  <2>1. PiecesLeft' < PiecesLeft
    <3>1. Take(TableKinds) /\ "EOI" \notin TableKinds
      BY <1>7, TableKindsAre DEF GetTables, TableKinds
    <3> QED
      BY <3>1, TakenIsLess
  <2> QED
    BY <1>3, <1>7, <2>1 DEF GetTables
<1>8. CASE BadMarker
  BY <1>2, <1>8 DEF BadMarker
<1>9. CASE ReachedSos
  <2>1. PiecesLeft' < PiecesLeft
    <3>1. Take(Scans) /\ "EOI" \notin Scans
      BY <1>9 DEF ReachedSos, Scans
    <3> QED
      BY <3>1, TakenIsLess
  <2>2. CASE ScanError # NONE
    BY <1>2, <1>9, <2>2 DEF ReachedSos
  <2>3. CASE ScanError = NONE /\ inheaders
    <3>1. pc' = "start" /\ pc = "header"
      BY <1>1, <1>9, <2>3 DEF ReachedSos, WholeInv
    <3>2. Stage' = 7 /\ Stage = 8
      BY <3>1 DEF Stage
    <3> QED
      BY <3>1, <3>2, StageForward DEF ScanEnds
  <2>4. CASE ScanError = NONE /\ ~inheaders
    <3>1. pc' = pc /\ eoi_reached' = eoi_reached /\ input_iMCU_row' = 0
      BY <1>9, <2>4 DEF ReachedSos, StartInputPass
    <3>2. Stage' = Stage /\ EoiLeft' = EoiLeft
      BY <3>1 DEF Stage, EoiLeft
    <3>3. ScanEnds'
      BY <1>1, <3>1 DEF ScanEnds
    <3> QED
      BY <2>1, <3>2, <3>3 DEF Forward, Lower
  <2> QED
    BY <2>2, <2>3, <2>4
<1>10. CASE ReachedEoi
  <2>1. CASE inheaders
    BY <1>2, <1>10, <2>1 DEF ReachedEoi
  <2>2. CASE ~inheaders
    <3>1. pc' = pc /\ eoi_reached' = TRUE /\ consume_input' = consume_input
      BY <1>10, <2>2 DEF ReachedEoi
    <3>2. Stage' = Stage /\ EoiLeft' = 0 /\ EoiLeft = 1
      BY <1>1, <3>1 DEF Stage, EoiLeft
    <3> QED
      BY <1>1, <3>1, <3>2 DEF ScanEnds, Forward, Lower
  <2> QED
    BY <2>1, <2>2
<1> QED
  BY <1>4, <1>5, <1>6, <1>7, <1>8, <1>9, <1>10 DEF ReadMarkers

\* Every step of readJPEG.
LEMMA StepForward ==
  ASSUME FileInv, CallInv, WholeInv, ScanEnds, Next, Total' = Total, Height' = Height
  PROVE  ScanEnds' /\ Forward
<1>1. Total \in Nat \ {0} /\ Height \in Nat \ {0}
  BY ShapeFacts DEF WholeInv
<1>2. ASSUME pc' # "preload", Stage' < Stage PROVE ScanEnds' /\ Forward
  BY <1>2, StageForward DEF ScanEnds
<1>3. CASE Open \/ CreateDecompress \/ CreateFails \/ OutOfMemory \/ StdioSrc
  <2>1. \/ pc = "open" /\ pc' \in {"create", "returned"}
        \/ pc = "create" /\ pc' \in {"stdio_src", "handler"}
        \/ pc \in {"stdio_src", "header", "start", "alloc"} /\ pc' = "handler"
        \/ pc = "stdio_src" /\ pc' = "read_header"
    BY <1>3 DEF Open, CreateDecompress, CreateFails, OutOfMemory, ErrorExit, StdioSrc
  <2> QED
    BY <1>2, <2>1 DEF Stage
<1>4. CASE ReadHeader
  <2>1. pc = "read_header" /\ pc' = "header"
    BY <1>4 DEF ReadHeader, InState, CallInv
  <2> QED
    BY <1>2, <2>1 DEF Stage
<1>5. CASE ReadMarkers
  BY <1>5, MarkersForward
<1>6. CASE StartDecompress
  <2>1. pc = "start" /\ \/ pc' = "handler"
                        \/ pc' \in {"preload", "alloc"} /\ input_iMCU_row' = 0
    BY <1>6 DEF StartDecompress, InState, CallInv, ErrorExit, StartInputPass
  <2>2. Stage' < Stage
    BY <2>1 DEF Stage
  <2> QED
    BY <1>1, <2>1, <2>2, StageForward DEF ScanEnds
<1>7. CASE ConsumeData
  <2>1. /\ pc = "preload" /\ pc' = "preload" /\ consume_input = "data"
        /\ DecodeRow(input_iMCU_row) /\ eoi_reached' = eoi_reached
        /\ input_iMCU_row' = input_iMCU_row + 1 /\ consume_input' = AfterRow
    BY <1>7 DEF ConsumeData
  <2>2. Stage' = Stage /\ EoiLeft' = EoiLeft
    BY <2>1 DEF Stage, EoiLeft
  <2>3. PiecesLeft' < PiecesLeft \/ PiecesLeft' = PiecesLeft
    BY <2>1, RowIsNoMore
  <2>4. input_iMCU_row \in Nat /\ input_iMCU_row < Total
    BY <2>1 DEF ScanEnds, WholeInv
  <2>5. consume_input' = IF input_iMCU_row + 1 < Total THEN "data" ELSE "markers"
    BY <2>1 DEF AfterRow, Total
  <2>6. ScanEnds'
    BY <2>1, <2>5 DEF ScanEnds
  <2>7. RowsLeft = Total - input_iMCU_row
    BY <2>1 DEF RowsLeft
  <2>8. RowsLeft' \in {0, Total - (input_iMCU_row + 1)}
    BY <2>1 DEF RowsLeft
  <2>9. RowsLeft' < RowsLeft
    BY <1>1, <2>4, <2>7, <2>8
  <2> QED
    BY <2>2, <2>3, <2>6, <2>9 DEF Forward, Lower
<1>8. CASE OutputPassSetup \/ AllocRow \/ FinishDecompress
  <2>1. \/ pc = "preload" /\ pc' = "alloc"
        \/ pc = "alloc" /\ pc' = "loop"
        \/ pc = "loop" /\ pc' = "finish"
    BY <1>8 DEF OutputPassSetup, AllocRow, FinishDecompress, InState, CallInv
  <2> QED
    BY <1>2, <2>1 DEF Stage
<1>9. CASE ReadScanlines
  <2>1. /\ pc = "loop" /\ output_scanline < Height /\ pc' = "loop"
        /\ eoi_reached' = eoi_reached /\ output_scanline' = output_scanline + 1
        /\ \/ DecodeRow(input_iMCU_row)
           \/ UNCHANGED <<source, unread_marker>>
    BY <1>9 DEF ReadScanlines, InState, CallInv
  <2>2. Stage' = Stage /\ EoiLeft' = EoiLeft /\ ScanEnds'
    BY <2>1 DEF Stage, EoiLeft, ScanEnds
  <2>3. PiecesLeft' < PiecesLeft \/ PiecesLeft' = PiecesLeft
    <3>1. CASE DecodeRow(input_iMCU_row)
      BY <3>1, RowIsNoMore
    <3>2. CASE UNCHANGED <<source, unread_marker>>
      BY <3>2 DEF PiecesLeft, Counted, source
    <3> QED
      BY <2>1, <3>1, <3>2
  <2>4. output_scanline \in Nat
    BY DEF WholeInv
  <2>5. RowsLeft = Height - output_scanline /\ RowsLeft' = Height - (output_scanline + 1)
    BY <2>1 DEF RowsLeft
  <2>6. RowsLeft' < RowsLeft
    BY <1>1, <2>4, <2>5
  <2> QED
    BY <2>2, <2>3, <2>6 DEF Forward, Lower
<1>10. CASE Finished \/ DestroyDecompress \/ Close \/ Handler
  <2>1. \/ pc = "finish" /\ pc' = "destroy"
        \/ pc = "destroy" /\ pc' = "close"
        \/ pc \in {"close", "handler"} /\ pc' = "returned"
    BY <1>10 DEF Finished, DestroyDecompress, Close, Handler
  <2> QED
    BY <1>2, <2>1 DEF Stage
<1> QED
  BY <1>3, <1>4, <1>5, <1>6, <1>7, <1>8, <1>9, <1>10 DEF Next

\* Left goes down with the numbers.
LEMMA ForwardIsLess ==
  ASSUME LeftOK, LeftOK', Forward
  PROVE  LeftDescends
<1>1. PICK s, e, p, r : s = Stage /\ e = EoiLeft /\ p = PiecesLeft /\ r = RowsLeft
  OBVIOUS
<1>2. PICK s1, e1, p1, r1 :
        s1 = Stage' /\ e1 = EoiLeft' /\ p1 = PiecesLeft' /\ r1 = RowsLeft'
  OBVIOUS
<1>3. s \in Nat /\ e \in 0..1 /\ p \in Nat /\ r \in Nat
  BY <1>1 DEF LeftOK
<1>4. s1 \in Nat /\ e1 \in 0..1 /\ p1 \in Nat /\ r1 \in Nat
  BY <1>2 DEF LeftOK
<1>5. Lower(s1, e1, p1, r1, s, e, p, r)
  BY <1>1, <1>2 DEF Forward
<1>6. <<Triple(s1, e1, p1, r1), Triple(s, e, p, r)>> \in TripleLess
  BY ONLY <1>3, <1>4, <1>5, TripleDown
<1>7. Left = Triple(s, e, p, r)
  BY <1>1 DEF Left
<1>8. Left' = Triple(s1, e1, p1, r1)
  BY <1>2 DEF Left
<1> QED
  BY <1>6, <1>7, <1>8 DEF LeftDescends

(* Every step of readJPEG leaves less to do, in an ordering that has no     *)
(* infinite descent, whatever the file holds and wherever it ends: a scan   *)
(* that starts has used up a marker, and the EOI that never runs out is     *)
(* only taken once.                                                         *)
THEOREM ReaderRunsOut ==
  /\ IsWellFoundedOn(TripleLess, Triples)
  /\ Spec => [][LeftDescends]_vars
<1> DEFINE Known == FileInv /\ CallInv /\ WholeInv /\ ScanEnds
<1>1. Init => FileInv /\ ScanEnds
  BY FilesAssumption DEF Init, FileInv, ScanEnds
<1>2. FileInv /\ CallInv /\ WholeInv /\ ScanEnds /\ [Next]_vars => FileInv' /\ ScanEnds'
  <2> SUFFICES ASSUME FileInv, CallInv, WholeInv, ScanEnds, [Next]_vars
               PROVE  FileInv' /\ ScanEnds'
    OBVIOUS
  <2>1. FileInv' /\ Height' = Height /\ Total' = Total
    BY FileStep
  <2>2. CASE Next
    BY <2>1, <2>2, StepForward
  <2>3. CASE UNCHANGED vars
    BY <2>1, <2>3 DEF vars, input, rows, ScanEnds
  <2> QED
    BY <2>1, <2>2, <2>3
<1>3. Spec => []Known
  BY <1>1, <1>2, CallHolds, WholeInit, WholeStep, PTL DEF Spec
<1>4. Known /\ LeftOK /\ LeftOK' /\ [Next]_vars => [LeftDescends]_vars
  <2> SUFFICES ASSUME Known, LeftOK, LeftOK', Next PROVE LeftDescends
    OBVIOUS
  <2>1. Height' = Height /\ Total' = Total
    BY FileStep
  <2>2. Forward
    BY <2>1, StepForward
  <2> QED
    BY <2>2, ForwardIsLess
<1>5. Known => LeftOK
  BY LeftTyped
<1>6. Spec => [][LeftDescends]_vars
  BY <1>3, <1>4, <1>5, PTL DEF Spec
<1> QED
  BY <1>6, TriplesAreWellFounded

=============================================================================

--------------------------- MODULE KraffitiProofs ---------------------------
(***************************************************************************)
(* Proofs about Kraffiti, for pictures of every size, every request and    *)
(* every set of flags.                                                     *)
(***************************************************************************)
EXTENDS Kraffiti, TLAPS

-----------------------------------------------------------------------------
(* The images that Preprocessor.cpp makes.                                 *)

LEMMA ProductNat ==
  ASSUME NEW a \in Nat, NEW b \in Nat
  PROVE  a * b \in Nat
  OBVIOUS

LEMMA ImageType ==
  ASSUME NEW p \in Nat, NEW w \in Nat, NEW h \in Nat, NEW c \in 1..4
  PROVE  Image(p, w, h, c) \in ImageSpace
<1>1. w * c \in Nat
  BY ProductNat
<1> QED
  BY <1>1 DEF Image, ImageSpace

LEMMA FloatImageType ==
  ASSUME NEW p \in Nat, NEW w \in Nat, NEW h \in Nat, NEW c \in 1..4
  PROVE  FloatImage(p, w, h, c) \in ImageSpace
<1>1. w * c \in Nat
  BY ProductNat
<1> QED
  BY <1>1 DEF FloatImage, Image, ImageSpace

LEMMA ScaleType ==
  ASSUME NEW i \in ImageSpace, NEW w \in Nat, NEW h \in Nat
  PROVE  scale(i, w, h) \in ImageSpace
<1>1. i.components \in 1..4
  BY DEF ImageSpace
<1>2. w * h * i.components \in Nat
  BY <1>1, ProductNat
<1> QED
  BY <1>1, <1>2, ImageType, FloatImageType DEF scale

LEMMA KeepAspectType ==
  ASSUME NEW i \in ImageSpace, NEW w \in Nat, NEW h \in Nat
  PROVE  scaleKeepAspect(i, w, h) \in ImageSpace
<1> DEFINE area == w * h
<1>0. area \in Nat
  BY ProductNat
<1> HIDE DEF area
<1>2. area * 4 \in Nat
  BY <1>0, ProductNat
<1>1. w * h * 4 \in Nat
  BY <1>2 DEF area
<1>3. Image(w * h * 4, w, h, 4) \in ImageSpace
  BY <1>1, ImageType
<1>4. scale(i, w, h) \in ImageSpace
  BY ScaleType
<1> QED
  BY <1>3, <1>4 DEF scaleKeepAspect

LEMMA RemadeType ==
  ASSUME NEW i \in ImageSpace
  PROVE  Remade(i) \in ImageSpace
<1>1. i.stride \in Nat /\ i.height \in Nat /\ i.width \in Nat
  BY DEF ImageSpace
<1>2. i.stride * i.height \in Nat
  BY <1>1, ProductNat
<1> QED
  BY <1>1, <1>2, ImageType DEF Remade

(* A power that reaches d exists for every size the canvas may have.       *)
LEMMA PowerExists ==
  ASSUME NEW d \in Nat, d <= MaxSide
  PROVE  /\ getPower2(d) \in Powers
         /\ d <= getPower2(d)
         /\ getPower2(d) = 1 \/ getPower2(d) < 2 * d
<1>1. \E q \in Powers : d <= q /\ (q = 1 \/ q < 2 * d)
  BY DEF Powers, MaxSide
<1> QED
  BY <1>1 DEF getPower2

LEMMA PowersAreNat == Powers \subseteq Nat
  BY DEF Powers

LEMMA PowerOfTwoType ==
  ASSUME NEW i \in ImageSpace, CanPowerOfTwo(i)
  PROVE  toPowerOfTwo(i) \in ImageSpace
<1>1. /\ i.width \in Nat /\ i.height \in Nat
      /\ i.width <= MaxSide /\ i.height <= MaxSide
  BY DEF ImageSpace, CanPowerOfTwo
<1>2. getPower2(i.width) \in Nat /\ getPower2(i.height) \in Nat
  BY <1>1, PowerExists, PowersAreNat
<1>3. getPower2(i.width) * getPower2(i.height) * 4 \in Nat
  BY <1>2, ProductNat
<1> QED
  BY <1>2, <1>3, ImageType DEF toPowerOfTwo

-----------------------------------------------------------------------------
(* Type correctness.                                                       *)

LEMMA WantedType ==
  ASSUME scaling \in Scales, NEW asked \in Int, NEW d \in Nat
  PROVE  Wanted(asked, d) \in Nat
<1>1. scaling[1] \in Int /\ scaling[2] \in {1, 2, 4, 8}
  BY ScalesAssumption
<1>2. d * scaling[1] \in Int
  BY <1>1
<1>3. (d * scaling[1]) \div scaling[2] \in Int
  BY <1>1, <1>2
<1> QED
  BY <1>3 DEF Wanted, Scaled

LEMMA LoadedType ==
  ASSUME TypeOK, Load
  PROVE  image' \in ImageSpace
<1>1. PICK size \in SourceSizes :
        image' \in IF from # "hdr" THEN {Image(4 * (size[1] * size[2]), size[1], size[2], 4)}
                  ELSE IF storeHdr
                  THEN {FloatImage(storeComponents * (size[1] * size[2]), size[1], size[2], storeComponents)}
                  ELSE {Image(c * (size[1] * size[2]), size[1], size[2], c) : c \in 1..4}
  BY DEF Load
<1>2. size[1] \in Nat /\ size[2] \in Nat
  BY SizesAssumption
<1>3. \A c \in 1..4 : c * (size[1] * size[2]) \in Nat
  BY <1>2, ProductNat
<1>4. storeComponents \in 1..4
  BY DEF storeComponents
<1> QED
  BY <1>1, <1>2, <1>3, <1>4, ImageType, FloatImageType

\* The actions that end the program in order.
Writers ==
  \/ WritePNG \/ WriteJPEG \/ WriteJPEGFails \/ WriteBMP \/ WriteHDR \/ WriteIcon
  \/ WriteLZ4 \/ NotSupported \/ NoPlugins \/ WritePlugin

\* Next, with the steps into "undefined" and "aborted" taken together.
LEMMA StepCases ==
  [Next]_vars =>
    \/ (Undefined \/ Abort) /\ pc \notin {"done", "failed"}
    \/ DoNothing \/ Load \/ LoadFails \/ NameTooShort \/ Size
    \/ Background \/ KeepSize \/ Resize \/ Transparent \/ Prealpha
    \/ Writers \/ UNCHANGED vars
  BY DEF Next, Writers, LoadUndefined, BackgroundUndefined, ResizeUndefined, PassUndefined,
         TransparentUndefined, PrealphaUndefined, WritePNGUndefined, WriteJPEGUndefined,
         WriteBMPUndefined, WriteHDRUndefined, WriteIconUndefined, WriteLZ4Undefined,
         WritePluginUndefined, ResizeAborts, WriteIconAborts, Writing

LEMMA TypeInit == Init => TypeOK
<1> SUFFICES ASSUME Init PROVE TypeOK
  OBVIOUS
<1>1. image \in ImageSpace
  BY ImageType DEF Init, NoImage
<1>2. width \in Int /\ height \in Int
  BY RequestsAssumption DEF Init
<1> QED
  BY <1>1, <1>2 DEF Init, TypeOK

LEMMA TypeStep == TypeOK /\ [Next]_vars => TypeOK'
<1> SUFFICES ASSUME TypeOK, [Next]_vars PROVE TypeOK'
  OBVIOUS
<1> USE DEF Go
<1>1. CASE Undefined \/ Abort
  BY <1>1 DEF TypeOK, Undefined, Abort, arguments
<1>2. CASE DoNothing
  <2>1. width' \in Int /\ height' \in Int
    BY <1>2, SizesAssumption DEF TypeOK, DoNothing
  <2> QED
    BY <1>2, <2>1 DEF TypeOK, DoNothing, arguments
<1>3. CASE Load
  BY <1>3, LoadedType DEF TypeOK, Load, arguments
<1>4. CASE LoadFails
  <2>1. storeComponents \in 1..4
    BY DEF storeComponents
  <2>2. NoImage \in ImageSpace
    BY ImageType DEF NoImage
  <2>3. ASSUME NEW size \in Garbage, NEW c \in 1..4
        PROVE  /\ FloatImage(0, size[1], size[2], storeComponents) \in ImageSpace
               /\ Image(0, size[1], size[2], c) \in ImageSpace
    <3>1. size[1] \in Nat /\ size[2] \in Nat
      BY GarbageAssumption
    <3> QED
      BY <2>1, <3>1, ImageType, FloatImageType
  <2>4. image' \in ImageSpace
    BY <1>4, <2>2, <2>3 DEF LoadFails
  <2> QED
    BY <1>4, <2>4 DEF TypeOK, LoadFails, arguments
<1>5. CASE Size
  <2>1. image.width \in Nat /\ image.height \in Nat
    BY DEF TypeOK, ImageSpace
  <2>2. scaling \in Scales /\ width \in Int /\ height \in Int
    BY DEF TypeOK
  <2>3. Wanted(width, image.width) \in Nat /\ Wanted(height, image.height) \in Nat
    BY <2>1, <2>2, WantedType, Zenon
  <2>4. width' \in Int /\ height' \in Int
    BY <1>5, <2>3 DEF Size
  <2> QED
    BY <1>5, <2>4 DEF TypeOK, Size, arguments
<1>6. CASE Background \/ KeepSize
  BY <1>6 DEF TypeOK, Background, KeepSize, arguments
<1>7. CASE Resize
  <2>1. width \in Nat /\ height \in Nat
    BY <1>7 DEF Resize, MayResize, MayKeepAspect, Sized, CanScale, TypeOK
  <2>2. Resized \in ImageSpace
    BY <2>1, ScaleType, KeepAspectType DEF Resized, TypeOK
  <2>3. image' \in ImageSpace
    BY <1>7, <2>2, PowerOfTwoType DEF Resize, MayResize
  <2> QED
    BY <1>7, <2>3 DEF TypeOK, Resize, arguments
<1>8. CASE Transparent \/ Prealpha
  <2>1. image' \in ImageSpace
    BY <1>8, RemadeType DEF Transparent, Prealpha, Pass, TypeOK
  <2> QED
    BY <1>8, <2>1 DEF TypeOK, Transparent, Prealpha, Pass, arguments
<1>9. CASE Writers \/ NameTooShort
  BY <1>9 DEF Writers, NameTooShort, TypeOK, arguments, Fail, Write, WritePNG, WriteJPEG, WriteJPEGFails,
              WriteBMP, WriteHDR, WriteIcon, WriteLZ4, NotSupported, NoPlugins, WritePlugin
<1>10. CASE UNCHANGED vars
  BY <1>10 DEF TypeOK, vars, arguments
<1> QED
  BY <1>1, <1>2, <1>3, <1>4, <1>5, <1>6, <1>7, <1>8, <1>9, <1>10, StepCases

(* Sizes are never negative, and every variable keeps its type, whatever   *)
(* the sizes of pictures, requests and scales.                             *)
THEOREM TypeCorrect == Spec => []TypeOK
<1> QED
  BY TypeInit, TypeStep, PTL DEF Spec

-----------------------------------------------------------------------------
(* Four bytes per pixel.                                                   *)

\* What BufferHoldsImage says of an image.
Plain(i) ==
  /\ ~i.isHdr /\ i.components = 4
  /\ i.stride = 4 * i.width
  /\ i.pixels = i.stride * i.height

LEMMA PlainImage ==
  ASSUME NEW w \in Nat, NEW h \in Nat
  PROVE  /\ Plain(Image(4 * (w * h), w, h, 4))
         /\ Plain(Image(w * h * 4, w, h, 4))
         /\ Plain(Image((4 * w) * h, w, h, 4))
<1>1. w * 4 = 4 * w
  OBVIOUS
<1>2. (w * 4) * h = 4 * (w * h) /\ (w * 4) * h = w * h * 4 /\ (w * 4) * h = (4 * w) * h
  OBVIOUS
<1> QED
  BY <1>1, <1>2 DEF Plain, Image

LEMMA PlainRemade ==
  ASSUME NEW i \in ImageSpace, Plain(i)
  PROVE  Plain(Remade(i))
<1>1. i.width \in Nat /\ i.height \in Nat /\ i.stride * i.height = (4 * i.width) * i.height
  BY DEF Plain, ImageSpace
<1> QED
  BY <1>1, PlainImage DEF Remade

LEMMA PlainScale ==
  ASSUME NEW i \in ImageSpace, Plain(i), NEW w \in Nat, NEW h \in Nat
  PROVE  Plain(scale(i, w, h))
<1>1. scale(i, w, h) = Image(w * h * 4, w, h, 4)
  BY DEF scale, Plain
<1> QED
  BY <1>1, PlainImage

LEMMA PlainKeepAspect ==
  ASSUME NEW i \in ImageSpace, Plain(i), NEW w \in Nat, NEW h \in Nat
  PROVE  Plain(scaleKeepAspect(i, w, h))
<1>1. Plain(scale(i, w, h)) /\ Plain(Image(w * h * 4, w, h, 4))
  BY PlainScale, PlainImage
<1> QED
  BY <1>1 DEF scaleKeepAspect

LEMMA PlainPowerOfTwo ==
  ASSUME NEW i \in ImageSpace, CanPowerOfTwo(i)
  PROVE  Plain(toPowerOfTwo(i))
<1>1. getPower2(i.width) \in Nat /\ getPower2(i.height) \in Nat
  BY PowerExists, PowersAreNat DEF CanPowerOfTwo, ImageSpace
<1> QED
  BY <1>1, PlainImage DEF toPowerOfTwo

\* Nothing is loaded yet, or the buffer holds the image.
BufferInv == BufferHoldsImage /\ (pc = "start" => ~loaded)

LEMMA BufferStep == TypeOK /\ BufferInv /\ [Next]_vars => BufferInv'
<1> SUFFICES ASSUME TypeOK, BufferInv, [Next]_vars PROVE BufferInv'
  OBVIOUS
<1> USE DEF Go
<1>a. image \in ImageSpace /\ (FourBytes => Plain(image))
  BY DEF TypeOK, BufferInv, BufferHoldsImage, Plain
<1>1. CASE UNCHANGED <<loaded, from, image>> /\ (pc' = "start" => pc = "start")
  BY <1>1 DEF BufferInv, BufferHoldsImage, FourBytes
<1>2. CASE Load
  <2>1. PICK size \in SourceSizes :
          from # "hdr" => image' = Image(4 * (size[1] * size[2]), size[1], size[2], 4)
    BY <1>2 DEF Load
  <2>2. size[1] \in Nat /\ size[2] \in Nat
    BY SizesAssumption
  <2>3. from # "hdr" => Plain(image')
    BY <2>1, <2>2, PlainImage
  <2> QED
    BY <1>2, <2>3 DEF Load, BufferInv, BufferHoldsImage, FourBytes, Plain, arguments
<1>3. CASE LoadFails
  BY <1>3 DEF LoadFails, BufferInv, BufferHoldsImage, FourBytes
<1>4. CASE Resize
  <2>1. width \in Nat /\ height \in Nat
    BY <1>4 DEF Resize, MayResize, MayKeepAspect, Sized, CanScale, TypeOK
  <2>2. Resized \in ImageSpace /\ (FourBytes => Plain(Resized))
    BY <1>a, <2>1, ScaleType, KeepAspectType, PlainScale, PlainKeepAspect DEF Resized
  <2>3. FourBytes => Plain(image')
    BY <1>4, <2>2, PlainPowerOfTwo DEF Resize, MayResize
  <2> QED
    BY <1>4, <2>3 DEF Resize, BufferInv, BufferHoldsImage, FourBytes, Plain, arguments
<1>5. CASE Transparent \/ Prealpha
  <2>1. FourBytes => Plain(image')
    BY <1>5, <1>a, PlainRemade DEF Transparent, Prealpha, Pass
  <2> QED
    BY <1>5, <2>1 DEF Transparent, Prealpha, Pass, BufferInv, BufferHoldsImage, FourBytes,
                      Plain, arguments
<1>6. CASE Undefined \/ Abort \/ DoNothing \/ Size \/ Background \/ KeepSize
  BY <1>1, <1>6 DEF Undefined, Abort, DoNothing, Size, Background, KeepSize, arguments
<1>7. CASE Writers \/ NameTooShort
  BY <1>1, <1>7 DEF Writers, NameTooShort, arguments, Fail, Write, WritePNG, WriteJPEG, WriteJPEGFails,
                    WriteBMP, WriteHDR, WriteIcon, WriteLZ4, NotSupported, NoPlugins, WritePlugin
<1>8. CASE UNCHANGED vars
  BY <1>1, <1>8 DEF vars, arguments
<1> QED
  BY <1>2, <1>3, <1>4, <1>5, <1>6, <1>7, <1>8, StepCases

(* A picture read by readPNG or readJPEG has four bytes per pixel, rows    *)
(* without gaps and a buffer of its size until it is written, for every    *)
(* size and every choice of passes.                                        *)
THEOREM BufferAlwaysHoldsImage == Spec => []BufferHoldsImage
<1>1. Init => BufferInv
  BY DEF Init, BufferInv, BufferHoldsImage, FourBytes
<1>2. BufferInv => BufferHoldsImage
  BY DEF BufferInv
<1> QED
  BY <1>1, <1>2, BufferStep, TypeCorrect, PTL DEF Spec

-----------------------------------------------------------------------------
(* The size that is printed and the size that is written.                  *)

SizeInv ==
  /\ pc \in {"background", "resize"} => printed = <<width, height>>
  /\ pc \in {"transparent", "prealpha", "write"} =>
       CanvasSide(image.width, printed[1]) /\ CanvasSide(image.height, printed[2])
  /\ pc # "done" => written = {}
  /\ PrintedIsWritten

LEMMA ResizedSize ==
  /\ Resized.width = width
  /\ Resized.height = height
  BY DEF Resized, scaleKeepAspect, scale, Image, FloatImage

LEMMA SizeStep == TypeOK /\ SizeInv /\ [Next]_vars => SizeInv'
<1> SUFFICES ASSUME TypeOK, SizeInv, [Next]_vars PROVE SizeInv'
  OBVIOUS
<1> USE DEF Go
<1>1. CASE (Undefined \/ Abort) /\ pc \notin {"done", "failed"}
  BY <1>1 DEF Undefined, Abort, SizeInv, PrintedIsWritten
<1>2. CASE DoNothing
  BY <1>2 DEF DoNothing, SizeInv, PrintedIsWritten
<1>3. CASE Load \/ LoadFails
  BY <1>3 DEF Load, LoadFails, SizeInv, PrintedIsWritten
<1>4. CASE Size
  BY <1>4 DEF Size, Printed, SizeInv, PrintedIsWritten
<1>5. CASE Background \/ NameTooShort
  BY <1>5 DEF Background, NameTooShort, Fail, SizeInv, PrintedIsWritten
<1>6. CASE KeepSize
  BY <1>6 DEF KeepSize, Resizes, SizeInv, PrintedIsWritten, CanvasSide, arguments
<1>7. CASE Resize
  <2>1. printed = <<width, height>> /\ written = {}
    BY <1>7 DEF Resize, SizeInv
  <2>2. CASE "poweroftwo" \in flags
    <3>1. image' = toPowerOfTwo(Resized) /\ width <= MaxSide /\ height <= MaxSide
      BY <1>7, <2>2, ResizedSize DEF Resize, MayResize, CanPowerOfTwo
    <3>2. width \in Nat /\ height \in Nat
      BY <1>7 DEF Resize, MayResize, MayKeepAspect, Sized, CanScale, TypeOK
    <3>3. image'.width = getPower2(width) /\ image'.height = getPower2(height)
      BY <3>1, ResizedSize DEF toPowerOfTwo, Image
    <3>4. CanvasSide(image.width, printed[1])' /\ CanvasSide(image.height, printed[2])'
      BY <1>7, <2>1, <2>2, <3>1, <3>2, <3>3, PowerExists DEF CanvasSide, Resize, arguments
    <3> QED
      BY <1>7, <2>1, <3>4 DEF Resize, SizeInv, PrintedIsWritten
  <2>3. CASE "poweroftwo" \notin flags
    BY <1>7, <2>1, <2>3, ResizedSize DEF Resize, SizeInv, PrintedIsWritten, CanvasSide, arguments
  <2> QED
    BY <2>2, <2>3
<1>8. CASE Transparent \/ Prealpha
  <2>1. image'.width = image.width /\ image'.height = image.height
    BY <1>8 DEF Transparent, Prealpha, Pass, Remade, Image
  <2> QED
    BY <1>8, <2>1 DEF Transparent, Prealpha, Pass, SizeInv, PrintedIsWritten, CanvasSide, arguments
<1>9. CASE Writers
  <2>1. pc = "write" /\ UNCHANGED <<arguments, printed>>
    BY <1>9 DEF Writers, Writing, Fail, Write, WritePNG, WriteJPEG, WriteJPEGFails, WriteBMP,
                WriteHDR, WriteIcon, WriteLZ4, NotSupported, NoPlugins, WritePlugin
  <2>2. \/ pc' = "failed" /\ written' = {}
        \/ pc' = "done" /\ (format \in Icons \/ written' \subseteq ItsSize)
    BY <1>9, <2>1 DEF SizeInv, Writers, Writing, Icons, Fail, Write, WritePNG, WriteJPEG,
                WriteJPEGFails, WriteBMP, WriteHDR, WriteIcon, WriteLZ4, NotSupported, NoPlugins,
                WritePlugin
  <2>3. CanvasSide(image.width, printed[1])' /\ CanvasSide(image.height, printed[2])'
    BY <1>9, <2>1 DEF SizeInv, CanvasSide, arguments, Writers, Fail, Write, WritePNG, WriteJPEG,
                WriteJPEGFails, WriteBMP, WriteHDR, WriteIcon, WriteLZ4, NotSupported, NoPlugins,
                WritePlugin
  <2>4. \A size \in ItsSize : size[1] = image.width /\ size[2] = image.height
    BY DEF ItsSize
  <2>5. image' = image
    BY <1>9 DEF Writers, Fail, Write, WritePNG, WriteJPEG, WriteJPEGFails, WriteBMP, WriteHDR,
                WriteIcon, WriteLZ4, NotSupported, NoPlugins, WritePlugin
  <2> QED
    BY <2>1, <2>2, <2>3, <2>4, <2>5 DEF SizeInv, PrintedIsWritten, CanvasSide, arguments
<1>10. CASE UNCHANGED vars
  BY <1>10 DEF vars, arguments, SizeInv, PrintedIsWritten, CanvasSide
<1> QED
  BY <1>1, <1>2, <1>3, <1>4, <1>5, <1>6, <1>7, <1>8, <1>9, <1>10, StepCases

(* The size on standard output is the size in the file, or the one the     *)
(* canvas of powers of two is made from, for pictures of every size, for   *)
(* every request, and for a load that failed.                              *)
THEOREM PrintedIsAlwaysWritten == Spec => []PrintedIsWritten
<1>1. Init => SizeInv
  BY DEF Init, SizeInv, PrintedIsWritten
<1>2. SizeInv => PrintedIsWritten
  BY DEF SizeInv
<1> QED
  BY <1>1, <1>2, SizeStep, TypeCorrect, PTL DEF Spec

-----------------------------------------------------------------------------
(* Pictures of four bytes per pixel come through.                          *)

\* Every loop over pixels stays in the buffer.
LEMMA PlainReaches ==
  ASSUME NEW i \in ImageSpace, Plain(i)
  PROVE  /\ Readable(i) /\ Reaches(i, 4, 3)
         /\ CanRemake(i)
         /\ 4 * i.width * i.height <= i.pixels
         /\ Reaches([i EXCEPT !.stride = 4 * i.width], 4, 3)
<1>1. /\ i.width \in Nat /\ i.height \in Nat
      /\ i.stride = 4 * i.width /\ i.pixels = (4 * i.width) * i.height
  BY DEF Plain, ImageSpace
<1>2. ASSUME NEW w \in Nat, NEW h \in Nat
      PROVE  /\ (h - 1) * (4 * w) + (w - 1) * 4 + 4 = (4 * w) * h
             /\ 4 * w * h = (4 * w) * h
             /\ (h - 1) * (4 * w) + (w - 1) * 4 + 3 <= (4 * w) * h
  <2>1. (h - 1) * (4 * w) = (4 * w) * h - 4 * w
    OBVIOUS
  <2> QED
    BY <2>1
<1>3. Readable(i) /\ Reaches(i, 4, 3) /\ 4 * i.width * i.height <= i.pixels
  BY <1>1, <1>2 DEF Readable, Reaches
<1>4. [i EXCEPT !.pixels = i.stride * i.height] = i /\ [i EXCEPT !.stride = 4 * i.width] = i
  BY <1>1 DEF ImageSpace
<1> QED
  BY <1>3, <1>4 DEF CanRemake

LEMMA PlainCanScale ==
  ASSUME NEW i \in ImageSpace, Plain(i), ~Empty(i),
         NEW w \in Int, NEW h \in Int, w > 0, h > 0
  PROVE  CanScale(i, w, h)
<1>1. Reaches(i, 4, 4)
  BY PlainReaches DEF Readable
<1> QED
  BY <1>1 DEF CanScale, HasAlphaChannel, Plain

LEMMA FittedType ==
  ASSUME NEW i \in ImageSpace, ~Empty(i), NEW w \in Nat, NEW h \in Nat
  PROVE  Fitted(i, w, h) \subseteq Int \X Int
<1>1. i.width \in Nat \ {0} /\ i.height \in Nat \ {0}
  BY DEF ImageSpace, Empty
<1>2. \A a \in Nat, b \in Nat \ {0} : Truncated(a, b) \subseteq Int
  BY DEF Truncated
<1>3. /\ i.width * w \in Nat /\ i.height * w \in Nat
      /\ i.width * h \in Nat /\ i.height * h \in Nat
  BY <1>1, ProductNat
<1> QED
  BY <1>1, <1>2, <1>3 DEF Fitted

\* Too narrow for a canvas of w x h.
TooNarrow(i, w, h) ==
  /\ ~SameAspect(i, w, h)
  /\ \E fit \in Fitted(i, w, h) : fit[1] <= 0 \/ fit[2] <= 0

LEMMA PlainMustKeepAspect ==
  ASSUME NEW i \in ImageSpace, Plain(i), ~Empty(i),
         NEW w \in Int, NEW h \in Int, w > 0, h > 0, ~TooNarrow(i, w, h)
  PROVE  MustKeepAspect(i, w, h)
<1>1. Sized(i, w, h)
  BY DEF Sized
<1>2. CASE SameAspect(i, w, h)
  BY <1>1, <1>2, PlainCanScale DEF MustKeepAspect
<1>3. CASE ~SameAspect(i, w, h)
  <2>1. ASSUME NEW fit \in Fitted(i, w, h) PROVE FitsWell(i, fit)
    <3>1. fit[1] \in Int /\ fit[2] \in Int
      BY FittedType
    <3>2. fit[1] > 0 /\ fit[2] > 0
      BY <1>3, <3>1 DEF TooNarrow
    <3>3. CanScale(i, fit[1], fit[2])
      BY <3>1, <3>2, PlainCanScale
    <3> DEFINE sw == fit[1]
               sh == fit[2]
    <3>a. sw \in Nat /\ sh \in Nat
      BY <3>1, <3>2
    <3> HIDE DEF sw, sh
    <3>b. scale(i, sw, sh) \in ImageSpace /\ Plain(scale(i, sw, sh))
      BY <3>a, ScaleType, PlainScale
    <3>4. scale(i, fit[1], fit[2]) \in ImageSpace /\ Plain(scale(i, fit[1], fit[2]))
      BY <3>b DEF sw, sh
    <3>5. Readable(scale(i, fit[1], fit[2]))
      BY <3>4, PlainReaches
    <3> QED
      BY <3>3, <3>5 DEF FitsWell
  <2> QED
    BY <1>1, <1>3, <2>1 DEF MustKeepAspect
<1> QED
  BY <1>2, <1>3

\* A loaded picture of four bytes is never empty.
Filled == FourBytes => ~Empty(image)

LEMMA FilledStep == TypeOK /\ BufferInv /\ Filled /\ [Next]_vars => Filled'
<1> SUFFICES ASSUME TypeOK, BufferInv, Filled, [Next]_vars PROVE Filled'
  OBVIOUS
<1>1. CASE UNCHANGED <<loaded, from, image>>
  BY <1>1 DEF Filled, FourBytes, Empty
<1>2. CASE Load
  <2>1. PICK size \in SourceSizes :
          from # "hdr" => image' = Image(4 * (size[1] * size[2]), size[1], size[2], 4)
    BY <1>2 DEF Load
  <2>2. size[1] \in Nat \ {0} /\ size[2] \in Nat \ {0}
    BY SizesAssumption
  <2> QED
    BY <1>2, <2>1, <2>2 DEF Load, Filled, FourBytes, Empty, Image, arguments
<1>3. CASE LoadFails
  BY <1>3 DEF LoadFails, BufferInv, Filled, FourBytes
<1>4. CASE Resize
  <2>1. width \in Nat \ {0} /\ height \in Nat \ {0}
    BY <1>4 DEF Resize, MayResize, MayKeepAspect, Sized, CanScale, TypeOK
  <2>2. CASE "poweroftwo" \in flags
    <3>1. image' = toPowerOfTwo(Resized) /\ width <= MaxSide /\ height <= MaxSide
      BY <1>4, <2>2, ResizedSize DEF Resize, MayResize, CanPowerOfTwo
    <3>2. image'.width = getPower2(width) /\ image'.height = getPower2(height)
      BY <3>1, ResizedSize DEF toPowerOfTwo, Image
    <3>3. image'.width >= width /\ image'.height >= height
          /\ image'.width \in Nat /\ image'.height \in Nat
      BY <2>1, <3>1, <3>2, PowerExists, PowersAreNat
    <3> QED
      BY <2>1, <3>3 DEF Filled, Empty
  <2>3. CASE "poweroftwo" \notin flags
    BY <1>4, <2>1, <2>3, ResizedSize DEF Resize, Filled, Empty
  <2> QED
    BY <2>2, <2>3
<1>5. CASE Transparent \/ Prealpha
  <2>1. image'.width = image.width /\ image'.height = image.height
    BY <1>5 DEF Transparent, Prealpha, Pass, Remade, Image
  <2>2. UNCHANGED <<loaded, from>>
    BY <1>5 DEF Transparent, Prealpha, Pass, arguments
  <2> QED
    BY <2>1, <2>2 DEF Filled, FourBytes, Empty
<1>6. CASE Undefined \/ Abort \/ DoNothing \/ Size \/ Background \/ KeepSize
  BY <1>1, <1>6 DEF Undefined, Abort, DoNothing, Size, Background, KeepSize, arguments
<1>7. CASE Writers \/ NameTooShort
  BY <1>1, <1>7 DEF Writers, NameTooShort, arguments, Fail, Write, WritePNG, WriteJPEG, WriteJPEGFails,
                    WriteBMP, WriteHDR, WriteIcon, WriteLZ4, NotSupported, NoPlugins, WritePlugin
<1>8. CASE UNCHANGED vars
  BY <1>1, <1>8 DEF vars, arguments
<1> QED
  BY <1>2, <1>3, <1>4, <1>5, <1>6, <1>7, <1>8, StepCases

\* The steps into "undefined", when there is a picture of four bytes.
LEMMA UndefinedStep ==
  ASSUME TypeOK, BufferInv, Filled, FourBytes,
         \/ LoadUndefined \/ BackgroundUndefined \/ ResizeUndefined
         \/ TransparentUndefined \/ PrealphaUndefined
         \/ WritePNGUndefined \/ WriteJPEGUndefined \/ WriteBMPUndefined \/ WriteHDRUndefined
         \/ WriteIconUndefined \/ WriteLZ4Undefined \/ WritePluginUndefined
  PROVE  Hopeless
<1>1. image \in ImageSpace /\ Plain(image) /\ ~Empty(image)
  BY DEF TypeOK, BufferInv, BufferHoldsImage, Plain, Filled
<1>2. /\ Readable(image) /\ Reaches(image, 4, 3) /\ CanRemake(image)
      /\ WholePNG /\ Copied24 /\ RowsJPEG
  BY <1>1, PlainReaches DEF WholePNG, Copied24, RowsJPEG, Plain
<1>3. width \in Int /\ height \in Int
  BY DEF TypeOK
<1>4. CASE LoadUndefined
  BY <1>4 DEF LoadUndefined, BufferInv, FourBytes
<1>5. CASE BackgroundUndefined \/ TransparentUndefined \/ PrealphaUndefined
  BY <1>2, <1>5 DEF BackgroundUndefined, TransparentUndefined, PrealphaUndefined, PassUndefined
<1>6. CASE ResizeUndefined
  <2> SUFFICES ASSUME ~Hopeless PROVE MustResize
    BY <1>6 DEF ResizeUndefined
  <2>1. width > 0 /\ height > 0
    BY <1>3 DEF Hopeless
  <2>2. CanScale(image, width, height)
    BY <1>1, <1>3, <2>1, PlainCanScale
  <2>3. "keepaspect" \in flags => MustKeepAspect(image, width, height)
    BY <1>1, <1>3, <2>1, PlainMustKeepAspect DEF Hopeless, Sliver, TooNarrow
  <2>4. Resized \in ImageSpace /\ Plain(Resized)
    BY <1>1, <1>3, <2>1, ScaleType, KeepAspectType, PlainScale, PlainKeepAspect DEF Resized
  <2>5. "poweroftwo" \in flags => width <= MaxSide /\ height <= MaxSide
    BY <1>3 DEF Hopeless, MaxSide
  <2>6. "poweroftwo" \in flags => CanPowerOfTwo(Resized)
    BY <2>4, <2>5, PlainReaches, ResizedSize DEF CanPowerOfTwo
  <2> QED
    BY <2>2, <2>3, <2>6 DEF MustResize
<1>7. CASE WritePNGUndefined \/ WriteJPEGUndefined
  BY <1>2, <1>7 DEF WritePNGUndefined, WriteJPEGUndefined
<1>8. CASE WriteBMPUndefined
  BY <1>2, <1>8 DEF WriteBMPUndefined, Writing, Hopeless
<1>9. CASE WriteHDRUndefined
  <2>1. image.width = image.height => FloatsReady
    <3>1. /\ image.width \in Nat /\ ~image.isHdr /\ image.components = 4
          /\ image.pixels = (4 * image.width) * image.height
      BY <1>1 DEF Plain, ImageSpace
    <3>2. \A w \in Nat : w * w * 4 <= (4 * w) * w
      OBVIOUS
    <3> QED
      BY <3>1, <3>2 DEF FloatsReady, Converted, Elements
  <2> QED
    BY <1>9, <2>1 DEF WriteHDRUndefined, Writing, Hopeless
<1>10. CASE WriteIconUndefined
  <2> SUFFICES ASSUME opens, NEW side \in Sides, ~MustKeepAspect(image, side, side)
               PROVE  Hopeless
    BY <1>10 DEF WriteIconUndefined, Writing, Hopeless
  <2>1. side \in Int /\ side > 0
    BY DEF Sides
  <2>2. Sliver(side, side)
    BY <1>1, <2>1, PlainMustKeepAspect DEF Sliver, TooNarrow
  <2> QED
    BY <1>10, <2>2 DEF WriteIconUndefined, Writing, Hopeless, Icons
<1>11. CASE WriteLZ4Undefined
  <2>1. WholeBlock
    BY <1>1 DEF WholeBlock, inputSize, Plain, ImageSpace
  <2> QED
    BY <1>11, <2>1 DEF WriteLZ4Undefined, Writing, Hopeless
<1>12. CASE WritePluginUndefined
  BY <1>12 DEF WritePluginUndefined, Writing, Hopeless
<1> QED
  BY <1>4, <1>5, <1>6, <1>7, <1>8, <1>9, <1>10, <1>11, <1>12

\* How main gets to "undefined".
LEMMA UndefinedCases ==
  ASSUME Next, pc' = "undefined"
  PROVE  /\ \/ LoadUndefined \/ BackgroundUndefined \/ ResizeUndefined
            \/ TransparentUndefined \/ PrealphaUndefined
            \/ WritePNGUndefined \/ WriteJPEGUndefined \/ WriteBMPUndefined \/ WriteHDRUndefined
            \/ WriteIconUndefined \/ WriteLZ4Undefined \/ WritePluginUndefined
         /\ Undefined
BY DEF Next, Go, Abort, ResizeAborts, WriteIconAborts, DoNothing, Load, LoadFails,
         NameTooShort, Size, Background, Resize, KeepSize,
         Transparent, Prealpha, Pass, WritePNG, WriteJPEG, WriteJPEGFails, WriteBMP, WriteHDR,
         WriteIcon, WriteLZ4, NotSupported, NoPlugins, WritePlugin, Write, Fail,
         LoadUndefined, BackgroundUndefined, ResizeUndefined, PassUndefined,
         TransparentUndefined, PrealphaUndefined, WritePNGUndefined, WriteJPEGUndefined,
         WriteBMPUndefined, WriteHDRUndefined, WriteIconUndefined, WriteLZ4Undefined,
         WritePluginUndefined

LEMMA OrdinaryStep ==
  TypeOK /\ BufferInv /\ Filled /\ OrdinaryIsDefined /\ [Next]_vars => OrdinaryIsDefined'
<1> SUFFICES ASSUME TypeOK, BufferInv, Filled, OrdinaryIsDefined, [Next]_vars,
                    pc' = "undefined", FourBytes'
             PROVE  Hopeless'
  BY DEF OrdinaryIsDefined
<1>1. CASE UNCHANGED vars
  BY <1>1 DEF vars, arguments, OrdinaryIsDefined, FourBytes, Hopeless, FitsBound, inputSize,
     Sliver, SameAspect, Sides
<1>2. CASE Next
  <2>1. /\ \/ LoadUndefined \/ BackgroundUndefined \/ ResizeUndefined
           \/ TransparentUndefined \/ PrealphaUndefined
           \/ WritePNGUndefined \/ WriteJPEGUndefined \/ WriteBMPUndefined \/ WriteHDRUndefined
           \/ WriteIconUndefined \/ WriteLZ4Undefined \/ WritePluginUndefined
        /\ Undefined
    BY <1>2, UndefinedCases
  <2>2. UNCHANGED <<arguments, width, height, opens, loaded, image>>
    BY <2>1 DEF Undefined
  <2>3. FourBytes
    BY <2>2 DEF FourBytes, arguments
  <2>4. Hopeless
    BY <2>1, <2>3, UndefinedStep
  <2> QED
    BY <2>2, <2>4 DEF arguments, Hopeless, FitsBound, inputSize, Sliver, SameAspect, Sides
<1> QED
  BY <1>1, <1>2

(* For pictures of every size, every request and every set of flags: what  *)
(* readPNG or readJPEG has read is converted without leaving a buffer,     *)
(* using a null pointer or calling a library with arguments it asserts     *)
(* against, unless it is one of the cases Hopeless lists.  That the box    *)
(* filter of stb_image_resize may stop at an assertion about its weights   *)
(* is not excluded: it is the state "aborted".                             *)
THEOREM OrdinaryIsAlwaysDefined == Spec => []OrdinaryIsDefined
<1>1. Init => BufferInv /\ Filled /\ OrdinaryIsDefined
  BY DEF Init, BufferInv, BufferHoldsImage, Filled, FourBytes, OrdinaryIsDefined
<1> QED
  BY <1>1, BufferStep, FilledStep, OrdinaryStep, TypeCorrect, PTL DEF Spec

-----------------------------------------------------------------------------
(* Pictures of floats.  No loop for bytes can run over one: its buffer of  *)
(* bytes is a null pointer.  So a pass that makes bytes of the picture     *)
(* never ends well, and what the writer gets is floats still.              *)

\* What readHDR keeps as floats, with c components.
Floats(i, c) ==
  /\ i.isHdr /\ i.pixels = 0 /\ i.components = c
  /\ i.width \in Nat \ {0} /\ i.height \in Nat \ {0} /\ i.stride = i.width * c
  /\ i.hdrPixels = i.width * i.height * c

LEMMA FloatsMade ==
  ASSUME NEW w \in Nat \ {0}, NEW h \in Nat \ {0}, NEW c \in 1..4
  PROVE  Floats(FloatImage(w * h * c, w, h, c), c)
BY DEF Floats, FloatImage, Image

LEMMA FloatsUnreadable ==
  ASSUME NEW i, NEW c \in 1..4, Floats(i, c)
  PROVE  ~Empty(i) /\ ~Readable(i) /\ ~CanRemake(i)
<1>1. /\ i.width \in Nat \ {0} /\ i.height \in Nat \ {0}
      /\ i.stride = i.width * c /\ i.pixels = 0
  BY DEF Floats
<1>2. i.height - 1 \in Nat /\ i.width * c \in Nat
  BY <1>1
<1>3. (i.height - 1) * i.stride \in Nat
  BY <1>1, <1>2, ProductNat
<1>4. ~Empty(i) /\ ~((i.height - 1) * i.stride + (i.width - 1) * 4 + 4 <= 0)
  BY <1>1, <1>3 DEF Empty
<1> QED
  BY <1>1, <1>4 DEF Readable, Reaches, CanRemake

LEMMA FloatsScaled ==
  ASSUME NEW i, NEW c \in 1..4, Floats(i, c), NEW w \in Nat \ {0}, NEW h \in Nat \ {0}
  PROVE  Floats(scale(i, w, h), c) /\ CanScale(i, w, h)
<1>1. scale(i, w, h) = FloatImage(w * h * c, w, h, c)
  BY DEF Floats, scale
<1>2. CanScale(i, w, h)
  BY FloatsUnreadable DEF CanScale, Floats
<1> QED
  BY <1>1, <1>2, FloatsMade

\* The copy onto the canvas is one of bytes.
LEMMA FloatsKeepAspect ==
  ASSUME NEW i \in ImageSpace, NEW c \in 1..4, Floats(i, c),
         NEW w \in Int, NEW h \in Int, MayKeepAspect(i, w, h)
  PROVE  scaleKeepAspect(i, w, h) = scale(i, w, h) /\ w > 0 /\ h > 0
<1>1. w > 0 /\ h > 0 /\ ~Empty(i)
  BY DEF MayKeepAspect, Sized
<1>2. ASSUME ~SameAspect(i, w, h) PROVE FALSE
  <2>1. PICK fit \in Fitted(i, w, h) : FitsWell(i, fit)
    BY <1>2 DEF MayKeepAspect
  <2>2. fit[1] \in Int /\ fit[2] \in Int
    BY <1>1, FittedType
  <2> DEFINE sw == fit[1]
             sh == fit[2]
  <2>3. sw \in Nat \ {0} /\ sh \in Nat \ {0} /\ Readable(scale(i, sw, sh))
    BY <2>1, <2>2 DEF FitsWell, CanScale
  <2> HIDE DEF sw, sh
  <2>4. Floats(scale(i, sw, sh), c)
    BY <2>3, FloatsScaled
  <2> QED
    BY <2>3, <2>4, FloatsUnreadable
<1> QED
  BY <1>1, <1>2 DEF scaleKeepAspect

FloatInv ==
  /\ loaded /\ from = "hdr" /\ storeHdr => Floats(image, storeComponents)
  /\ loaded /\ ~storeHdr => ~image.isHdr

LEMMA StoreType == storeComponents \in 1..4
BY DEF storeComponents

LEMMA FloatStep == TypeOK /\ FloatInv /\ BufferInv /\ [Next]_vars => FloatInv'
<1> SUFFICES ASSUME TypeOK, FloatInv, BufferInv, [Next]_vars PROVE FloatInv'
  OBVIOUS
<1> DEFINE c == storeComponents
<1> USE DEF Go
<1>1. CASE UNCHANGED <<loaded, from, format, image>>
  BY <1>1 DEF FloatInv, storeHdr, storeComponents
<1>2. CASE Load
  <2>1. loaded' /\ UNCHANGED arguments
    BY <1>2 DEF Load
  <2>2. PICK size \in SourceSizes : LET area == size[1] * size[2] IN
          image' \in IF from # "hdr" THEN {Image(4 * area, size[1], size[2], 4)}
                     ELSE IF storeHdr THEN {FloatImage(c * area, size[1], size[2], c)}
                     ELSE {Image(k * area, size[1], size[2], k) : k \in 1..4}
    BY <1>2 DEF Load
  <2> DEFINE w == size[1]
             h == size[2]
  <2>3. w \in Nat \ {0} /\ h \in Nat \ {0}
    BY SizesAssumption
  <2>4. ~(from = "hdr" /\ storeHdr) => ~image'.isHdr
    BY <2>2 DEF Image
  <2>5. from = "hdr" /\ storeHdr => Floats(image', c)
    <3>1. from = "hdr" /\ storeHdr => image' = FloatImage(c * (w * h), w, h, c)
      BY <2>2
    <3> HIDE DEF w, h, c
    <3>2. c \in 1..4
      BY StoreType DEF c
    <3>3. c * (w * h) = w * h * c
      BY <2>3, <3>2
    <3> QED
      BY <2>3, <3>1, <3>2, <3>3, FloatsMade
  <2> QED
    BY <2>1, <2>4, <2>5 DEF FloatInv, storeHdr, storeComponents, arguments
<1>3. CASE LoadFails
  BY <1>3 DEF LoadFails, BufferInv, FloatInv
<1>4. CASE Resize
  <2>1. UNCHANGED <<arguments, loaded>> /\ MayResize
    BY <1>4 DEF Resize
  <2>2. width \in Nat \ {0} /\ height \in Nat \ {0} /\ image \in ImageSpace
    BY <2>1 DEF MayResize, MayKeepAspect, Sized, CanScale, TypeOK
  <2>3. ASSUME Floats(image, c) PROVE Floats(image', c)
    <3>1. Resized = scale(image, width, height)
      BY <2>1, <2>2, <2>3, StoreType, FloatsKeepAspect DEF MayResize, Resized
    <3>2. Floats(Resized, c)
      BY <2>2, <2>3, <3>1, StoreType, FloatsScaled
    <3>3. "poweroftwo" \notin flags
      BY <2>1, <3>2, StoreType, FloatsUnreadable DEF MayResize, CanPowerOfTwo
    <3> QED
      BY <1>4, <3>2, <3>3 DEF Resize
  <2>4. ASSUME ~image.isHdr PROVE ~image'.isHdr
    BY <1>4, <2>4 DEF Resize, Resized, scaleKeepAspect, scale, toPowerOfTwo, Image
  <2> QED
    BY <2>1, <2>3, <2>4 DEF FloatInv, storeHdr, storeComponents, arguments
<1>5. CASE Transparent \/ Prealpha
  <2>1. UNCHANGED <<arguments, loaded>>
    BY <1>5 DEF Transparent, Prealpha, Pass
  <2>2. \/ image' = image
        \/ CanRemake(image) /\ image' = Remade(image)
    BY <1>5 DEF Transparent, Prealpha, Pass
  <2>3. ~image.isHdr => ~image'.isHdr
    BY <2>2 DEF Remade, Image
  <2>4. Floats(image, c) => Floats(image', c)
    BY <2>2, StoreType, FloatsUnreadable
  <2> QED
    BY <2>1, <2>3, <2>4 DEF FloatInv, storeHdr, storeComponents, arguments
<1>6. CASE Undefined \/ Abort \/ DoNothing \/ Size \/ Background \/ KeepSize
  BY <1>1, <1>6 DEF Undefined, Abort, DoNothing, Size, Background, KeepSize, arguments
<1>7. CASE Writers \/ NameTooShort
  BY <1>1, <1>7 DEF Writers, NameTooShort, arguments, Fail, Write, WritePNG, WriteJPEG, WriteJPEGFails,
                    WriteBMP, WriteHDR, WriteIcon, WriteLZ4, NotSupported, NoPlugins, WritePlugin
<1>8. CASE UNCHANGED vars
  BY <1>1, <1>8 DEF vars, arguments
<1> QED
  BY <1>2, <1>3, <1>4, <1>5, <1>6, <1>7, <1>8, StepCases

LEMMA FloatsHold == Spec => []FloatInv
<1>1. Init => FloatInv /\ BufferInv
  BY DEF Init, FloatInv, BufferInv, BufferHoldsImage, FourBytes
<1> QED
  BY <1>1, FloatStep, BufferStep, TypeCorrect, PTL DEF Spec

(* What readHDR was told to keep as floats reaches the writer as floats,   *)
(* for pictures of every size and every choice of passes.                  *)
THEOREM FloatsAlwaysArriveAsFloats == Spec => []FloatsArriveAsFloats
<1>1. FloatInv => FloatsArriveAsFloats
  BY DEF FloatInv, FloatsArriveAsFloats, Floats
<1> QED
  BY <1>1, FloatsHold, PTL

\* The steps into "undefined", when there is a picture of floats.
LEMMA FloatsUndefined ==
  ASSUME TypeOK, FloatInv, BufferInv, loaded, image.isHdr, Undefined,
         \/ LoadUndefined \/ BackgroundUndefined \/ ResizeUndefined
         \/ TransparentUndefined \/ PrealphaUndefined
         \/ WritePNGUndefined \/ WriteJPEGUndefined \/ WriteBMPUndefined \/ WriteHDRUndefined
         \/ WriteIconUndefined \/ WriteLZ4Undefined \/ WritePluginUndefined
  PROVE  \/ flags \cap PassesForBytes # {}
         \/ width <= 0 \/ height <= 0
         \/ format = "lz4" /\ (~opens \/ ~FitsBound)
<1>1. from = "hdr" /\ storeHdr
  BY DEF FloatInv, BufferInv, BufferHoldsImage, FourBytes
<1>2. Floats(image, storeComponents) /\ format \in {"hdr", "lz4"}
  BY <1>1 DEF FloatInv, storeHdr
<1>3. ASSUME NEW f \in PassesForBytes, f \in flags PROVE flags \cap PassesForBytes # {}
  BY <1>3
<1>4. CASE BackgroundUndefined \/ TransparentUndefined
  <2>1. "background" \in flags \/ "transparent" \in flags
    BY <1>4 DEF BackgroundUndefined, TransparentUndefined, PassUndefined, WantsTransparent
  <2> QED
    BY <1>3, <2>1 DEF PassesForBytes
<1>5. CASE ResizeUndefined
  <2>1. CASE "keepaspect" \in flags \/ "poweroftwo" \in flags
    BY <1>3, <2>1 DEF PassesForBytes
  <2>2. CASE ~("keepaspect" \in flags \/ "poweroftwo" \in flags)
    <3>1. ~CanScale(image, width, height)
      BY <1>5, <2>2 DEF ResizeUndefined, MustResize
    <3>2. ~(width \in Nat \ {0} /\ height \in Nat \ {0})
      BY <1>2, <3>1, StoreType, FloatsScaled
    <3> QED
      BY <3>2 DEF TypeOK
  <2> QED
    BY <2>1, <2>2
<1>6. CASE WriteHDRUndefined
  <2>1. image.isHdr /\ Elements = image.hdrPixels /\ image.hdrPixels \in Nat
    BY <1>2 DEF Floats, Elements, TypeOK, ImageSpace
  <2>2. FloatsReady
    BY <2>1 DEF FloatsReady
  <2> QED
    BY <1>6, <2>2 DEF WriteHDRUndefined
<1>7. CASE WriteLZ4Undefined
  <2>1. format = "lz4" /\ (~opens \/ ~WholeBlock \/ ~FitsBound)
    BY <1>7 DEF WriteLZ4Undefined, Writing
  <2>2. image.hdrPixels = image.width * image.height * 4
    BY <1>2, <2>1 DEF Floats, storeComponents
  <2>3. image.width \in Nat /\ image.height \in Nat
    BY <1>2 DEF Floats
  <2>4. \A w \in Nat, h \in Nat : w * h * 16 <= w * h * 4 * 4
    OBVIOUS
  <2>5. WholeBlock
    BY <2>2, <2>3, <2>4 DEF WholeBlock, inputSize
  <2> QED
    BY <2>1, <2>5
<1>8. CASE LoadUndefined
  BY <1>1, <1>8 DEF LoadUndefined
<1>9. CASE PrealphaUndefined
  BY <1>9 DEF PrealphaUndefined, PassUndefined, WantsPrealpha
<1> QED
  BY <1>2, <1>4, <1>5, <1>6, <1>7, <1>8, <1>9 DEF WritePNGUndefined, WriteJPEGUndefined,
     WriteBMPUndefined, WriteIconUndefined, WritePluginUndefined, Writing

LEMMA FloatsDefinedStep ==
  TypeOK /\ FloatInv /\ BufferInv /\ FloatsAreDefined /\ [Next]_vars => FloatsAreDefined'
<1> SUFFICES ASSUME TypeOK, FloatInv, BufferInv, FloatsAreDefined, [Next]_vars,
                    pc' = "undefined", loaded', image'.isHdr
             PROVE  (\/ flags \cap PassesForBytes # {}
                     \/ width <= 0 \/ height <= 0
                     \/ format = "lz4" /\ (~opens \/ ~FitsBound))'
  BY DEF FloatsAreDefined
<1>1. CASE UNCHANGED vars
  BY <1>1 DEF vars, arguments, FloatsAreDefined, FitsBound, inputSize
<1>2. CASE Next
  <2>1. /\ \/ LoadUndefined \/ BackgroundUndefined \/ ResizeUndefined
           \/ TransparentUndefined \/ PrealphaUndefined
           \/ WritePNGUndefined \/ WriteJPEGUndefined \/ WriteBMPUndefined \/ WriteHDRUndefined
           \/ WriteIconUndefined \/ WriteLZ4Undefined \/ WritePluginUndefined
        /\ Undefined
    BY <1>2, UndefinedCases
  <2>2. UNCHANGED <<arguments, width, height, opens, loaded, image>>
    BY <2>1 DEF Undefined
  <2> QED
    BY <2>1, <2>2, FloatsUndefined DEF arguments, FitsBound, inputSize
<1> QED
  BY <1>1, <1>2

(* For pictures of floats of every size and every request: unless a pass   *)
(* for bytes is asked for, or a size that is none, or the .k file cannot   *)
(* be opened or has more than two blocks of data, they are written without *)
(* leaving a buffer.                                                       *)
THEOREM FloatsAreAlwaysDefined == Spec => []FloatsAreDefined
<1>1. Init => FloatsAreDefined /\ BufferInv
  BY DEF Init, FloatsAreDefined, BufferInv, BufferHoldsImage, FourBytes
<1> QED
  BY <1>1, FloatsHold, BufferStep, FloatsDefinedStep, TypeCorrect, PTL DEF Spec
=============================================================================

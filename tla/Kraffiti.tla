------------------------------ MODULE Kraffiti ------------------------------
(***************************************************************************)
(* main of Sources/main.cpp: an image is loaded, given a background,       *)
(* resized, made transparent, multiplied with its alpha and written.       *)
(*                                                                         *)
(* What the arguments ask for is chosen at the start, and so is whether    *)
(* the output file can be opened.  A load that fails does not stop the     *)
(* program: an image of size 0 x 0 goes on.  The state "undefined" is      *)
(* entered where the code leaves the buffers it allocated, uses a null     *)
(* pointer, calls a library with arguments it asserts against or uses what *)
(* it has not initialised.  "aborted" is entered where a library asserts   *)
(* something of what it has computed itself, and may be wrong.  What is    *)
(* written to an open file by stdio arrives.                               *)
(***************************************************************************)
EXTENDS Preprocessor

CONSTANTS
  SourceSizes,  \* sizes of source pictures, <<width, height>>
  Requests,     \* values of width= and height=, as pairs, -1 for none
  Scales,       \* values of scale=, as <<numerator, denominator>>
  Garbage,      \* sizes readHDR's uninitialised variables may hold
  Flags,        \* the sets of flags given
  BLOCK_SIZE    \* of lz4x

\* libpng and libjpeg give no empty picture; the empty .hdr file that
\* stb_image accepts is left out.
ASSUME SizesAssumption == SourceSizes \subseteq (Nat \ {0}) \X (Nat \ {0})
ASSUME RequestsAssumption == Requests \subseteq Int \X Int
\* Exact as floats, so that the product with a size is rounded once, by the
\* conversion to int.
ASSUME ScalesAssumption == Scales \subseteq Int \X {1, 2, 4, 8}
ASSUME BlockAssumption == BLOCK_SIZE \in Nat \ {0}
\* Negative ones are left out.
ASSUME GarbageAssumption == Garbage \subseteq Nat \X Nat

Sources == {"png", "hdr", "jpg"}  \* .png, .hdr and every other name

\* "jpeg" is "jpg"; "other" is a name no branch of main knows.
Formats == {"png", "png24", "jpg", "bmp", "hdr", "ico", "icns", "lz4", "other"}

\* "nearest" is filter=nearest, which sets pointSampling.
FlagNames == {"background", "keepaspect", "poweroftwo", "transparent", "prealpha",
              "nearest", "small", "donothing"}

ASSUME FlagsAssumption == Flags \subseteq SUBSET FlagNames

VARIABLES
  pc,        \* "start", "size", "background", "resize", "transparent", "prealpha",
             \* "write", "done", "failed" (status not 0), "aborted", "undefined"
  from, format, flags, scaling,
  width, height,  \* the size asked for
  opens,     \* whether the output file can be opened
  loaded,    \* whether the source was read
  image,
  printed,   \* what #WxH says, or <<>>
  written    \* the sizes of the pictures in the output file

arguments == <<from, format, flags, scaling>>
vars == <<pc, arguments, width, height, opens, loaded, image, printed, written>>

NoImage == Image(0, 0, 0, 4)

storeHdr == format \in {"hdr", "lz4"}
\* Always three.
MutStoreComponents == 3
storeComponents == IF format = "lz4" THEN 4 ELSE 3

Go(where) == pc' = where

Fail ==
  /\ Go("failed")
  /\ UNCHANGED <<arguments, width, height, opens, loaded, image, printed, written>>

Undefined ==
  /\ pc' = "undefined"
  /\ UNCHANGED <<arguments, width, height, opens, loaded, image, printed, written>>

Abort ==
  /\ pc' = "aborted"
  /\ UNCHANGED <<arguments, width, height, opens, loaded, image, printed, written>>

-----------------------------------------------------------------------------
\* The loop over argv: every argument sets one variable, the last one wins.
Init ==
  /\ pc = "start"
  /\ from \in Sources /\ format \in Formats /\ flags \in Flags /\ scaling \in Scales
  /\ \E request \in Requests : width = request[1] /\ height = request[2]
  /\ opens \in BOOLEAN
  /\ loaded = FALSE /\ image = NoImage
  /\ printed = <<>> /\ written = {}

\* donothing: stbi_info sets the size only if it can read the file.
DoNothing ==
  /\ pc = "start" /\ "donothing" \in flags
  /\ \E size \in SourceSizes \union {<<width, height>>} :
       width' = size[1] /\ height' = size[2] /\ printed' = size
  /\ Go("done")
  /\ UNCHANGED <<arguments, opens, loaded, image, written>>

\* readPNG, readJPEG or readHDR succeeds.  stbi_loadf is asked for a number
\* of components, stbi_load is not.
Load ==
  /\ pc = "start" /\ "donothing" \notin flags
  /\ \E size \in SourceSizes :
       LET area == size[1] * size[2] IN
       image' \in IF from # "hdr" THEN {Image(4 * area, size[1], size[2], 4)}
                  ELSE IF storeHdr
                  THEN {FloatImage(storeComponents * area, size[1], size[2], storeComponents)}
                  ELSE {Image(c * area, size[1], size[2], c) : c \in 1..4}
  /\ loaded' = TRUE
  /\ Go("size")
  /\ UNCHANGED <<arguments, width, height, opens, printed, written>>

\* readHDR makes an image without pixels and of no certain size, the others
\* return an empty one.
LoadFails ==
  /\ pc = "start" /\ "donothing" \notin flags
  /\ image' \in
       IF from # "hdr" THEN {NoImage}
       ELSE { IF storeHdr THEN FloatImage(0, size[1], size[2], storeComponents)
              ELSE Image(0, size[1], size[2], c) : size \in Garbage, c \in 1..4 }
  /\ Go("size")
  /\ UNCHANGED <<arguments, width, height, opens, loaded, printed, written>>

\* endsWith, asked for a longer ending than the name, makes substr throw.
NameTooShort == pc = "start" /\ "donothing" \notin flags /\ from = "jpg" /\ Fail

\* A picture of one component: readJPEG takes three from every place in the
\* row, and the row is too short for the last.
LoadUndefined == pc = "start" /\ "donothing" \notin flags /\ from = "jpg" /\ Undefined

Scaled(d) ==
  LET v == (d * scaling[1]) \div scaling[2] IN IF v <= 0 THEN 1 ELSE v

Wanted(asked, d) ==
  IF scaling[1] # scaling[2] THEN Scaled(d)
  ELSE IF asked < 0 THEN d ELSE asked

\* The size is printed as it was asked for.
MutPrinted == <<width, height>>
Printed == <<Wanted(width, image.width), Wanted(height, image.height)>>

Size ==
  /\ pc = "size"
  /\ width' = Wanted(width, image.width)
  /\ height' = Wanted(height, image.height)
  /\ printed' = Printed
  /\ Go("background")
  /\ UNCHANGED <<arguments, opens, loaded, image, written>>

\* The pixels are changed in place.
Background ==
  /\ pc = "background"
  /\ "background" \in flags => Readable(image)
  /\ Go("resize")
  /\ UNCHANGED <<arguments, width, height, opens, loaded, image, printed, written>>

BackgroundUndefined ==
  /\ pc = "background" /\ "background" \in flags /\ ~Readable(image)
  /\ Undefined

Resizes == "poweroftwo" \in flags \/ width # image.width \/ height # image.height

\* The resized picture, before it is put on a canvas of powers of two.
Resized ==
  IF "keepaspect" \in flags THEN scaleKeepAspect(image, width, height)
  ELSE scale(image, width, height)

MayResize ==
  /\ IF "keepaspect" \in flags THEN MayKeepAspect(image, width, height)
     ELSE CanScale(image, width, height)
  /\ "poweroftwo" \in flags => CanPowerOfTwo(Resized)

MustResize ==
  /\ IF "keepaspect" \in flags THEN MustKeepAspect(image, width, height)
     ELSE CanScale(image, width, height)
  /\ "poweroftwo" \in flags => CanPowerOfTwo(Resized)

Resize ==
  /\ pc = "resize" /\ Resizes /\ MayResize
  /\ image' = IF "poweroftwo" \in flags THEN toPowerOfTwo(Resized) ELSE Resized
  /\ Go("transparent")
  /\ UNCHANGED <<arguments, width, height, opens, loaded, printed, written>>

ResizeUndefined == pc = "resize" /\ Resizes /\ ~MustResize /\ Undefined

\* The box filter is the one of pointSampling.
ResizeAborts ==
  /\ pc = "resize" /\ Resizes /\ "nearest" \in flags
  /\ IF "keepaspect" \in flags THEN MayAbortKeepAspect(image, width, height)
     ELSE MayAbort(image, <<width, height>>)
  /\ Abort

KeepSize ==
  /\ pc = "resize" /\ ~Resizes
  /\ Go("transparent")
  /\ UNCHANGED <<arguments, width, height, opens, loaded, image, printed, written>>

\* A pass that makes a new image, if the arguments ask for it.
Pass(here, wanted, next) ==
  /\ pc = here
  /\ wanted => CanRemake(image)
  /\ image' = IF wanted THEN Remade(image) ELSE image
  /\ Go(next)
  /\ UNCHANGED <<arguments, width, height, opens, loaded, printed, written>>

PassUndefined(here, wanted) == pc = here /\ wanted /\ ~CanRemake(image) /\ Undefined

WantsTransparent == "transparent" \in flags
WantsPrealpha == "prealpha" \in flags /\ "background" \notin flags /\ ~image.isHdr

Transparent == Pass("transparent", WantsTransparent, "prealpha")
TransparentUndefined == PassUndefined("transparent", WantsTransparent)
Prealpha == Pass("prealpha", WantsPrealpha, "write")
PrealphaUndefined == PassUndefined("prealpha", WantsPrealpha)

-----------------------------------------------------------------------------
(* The formats.  Each either writes pictures of the sizes given, or        *)
(* nothing, or fails, or is undefined.                                     *)

Write(sizes) ==
  /\ written' = sizes
  /\ Go("done")
  /\ UNCHANGED <<arguments, width, height, opens, loaded, image, printed>>

Writing(names) == pc = "write" /\ format \in names

ItsSize == {<<image.width, image.height>>}

\* libpng takes rows of four bytes per pixel: the stride it is given is 0.
WholePNG == 4 * image.width * image.height <= image.pixels

\* The rows of three bytes are copied before libpng is called.
Copied24 ==
  Reaches([image EXCEPT !.stride = 4 * image.width], 4, 3)

\* libpng returns 0, having removed the file, for a size of 0 too; nobody looks.
WritePNG ==
  /\ Writing({"png", "png24"})
  /\ format = "png24" => Copied24
  /\ \/ Write({})
     \/ ~Empty(image) /\ opens /\ (format = "png" => WholePNG) /\ Write(ItsSize)

WritePNGUndefined ==
  /\ Writing({"png", "png24"})
  /\ IF format = "png24" THEN ~Copied24 ELSE opens /\ ~Empty(image) /\ ~WholePNG
  /\ Undefined

\* The three components of a pixel are those of the image.
RowsJPEG == Reaches(image, image.components, 3)

WriteJPEG == Writing({"jpg"}) /\ opens /\ ~Empty(image) /\ RowsJPEG /\ Write(ItsSize)

\* exit(1), by writeJPEG or by libjpeg's own error_exit.
WriteJPEGFails == Writing({"jpg"}) /\ (~opens \/ Empty(image)) /\ Fail

WriteJPEGUndefined == Writing({"jpg"}) /\ opens /\ ~RowsJPEG /\ Undefined

WriteBMP == Writing({"bmp"}) /\ opens /\ Reaches(image, 4, 3) /\ Write(ItsSize)

WriteBMPUndefined ==
  Writing({"bmp"}) /\ (~opens \/ ~Reaches(image, 4, 3)) /\ Undefined

\* The elements the loop of writeHDR converts, and those stbi_write_hdr takes.
Converted == image.width * image.width * image.components
Elements == image.width * image.height * image.components

FloatsReady ==
  IF image.isHdr THEN Elements <= image.hdrPixels \/ image.hdrPixels = 0
  ELSE Converted = Elements /\ Converted <= image.pixels

\* stbi_write_hdr wants a picture, or the file stays empty.
WriteHDR ==
  /\ Writing({"hdr"}) /\ FloatsReady
  /\ Write(IF ~opens \/ Empty(image) \/ (image.isHdr /\ image.hdrPixels = 0)
           THEN {} ELSE ItsSize)

WriteHDRUndefined == Writing({"hdr"}) /\ ~FloatsReady /\ Undefined

Sides ==
  IF format = "icns" THEN {256, 512, 1024}
  ELSE {16, 20, 24, 32, 40, 48} \union IF "small" \in flags THEN {} ELSE {64, 256}

WriteIcon ==
  /\ Writing({"ico", "icns"}) /\ opens
  /\ \A side \in Sides : MayKeepAspect(image, side, side)
  /\ Write({ <<side, side>> : side \in Sides })

WriteIconUndefined ==
  /\ Writing({"ico", "icns"})
  /\ ~(opens /\ \A side \in Sides : MustKeepAspect(image, side, side))
  /\ Undefined

\* Icons are made with pointSampling, whatever the arguments say.
WriteIconAborts ==
  /\ Writing({"ico", "icns"}) /\ opens
  /\ \E side \in Sides : MayAbortKeepAspect(image, side, side)
  /\ Abort

\* The bytes of four floats a pixel, or those of the rows.
inputSize ==
  IF image.isHdr THEN image.width * image.height * 16 ELSE image.stride * image.height

WholeBlock == inputSize <= IF image.isHdr THEN image.hdrPixels * 4 ELSE image.pixels

\* What LZ4_compressBound adds to inputSize is enough for two blocks, whatever
\* is in them (FitsCompressBound of Lz4x).  Of three, those that cannot be
\* compressed leave the buffer.
FitsBound == inputSize <= 2 * BLOCK_SIZE

WriteLZ4 == Writing({"lz4"}) /\ opens /\ WholeBlock /\ Write(ItsSize)

WriteLZ4Undefined ==
  Writing({"lz4"}) /\ (~opens \/ ~WholeBlock \/ ~FitsBound) /\ Undefined

\* No plugin of Datatypes knows the format, the message says so.
NotSupported == Writing({"other"}) /\ Write({})

\* A plugin is given the rows of the image, a null pointer for floats.
WritePlugin ==
  /\ Writing({"other"}) /\ opens /\ image.stride * image.height <= image.pixels
  /\ Write(ItsSize)

\* There is no directory of that name.
NoPlugins == Writing({"other"}) /\ Fail

\* A plugin that cannot be loaded has null pointers for functions; and as
\* for lz4.
WritePluginUndefined == Writing({"other"}) /\ Undefined

Next ==
  \/ DoNothing \/ Load \/ LoadFails \/ LoadUndefined \/ NameTooShort \/ Size
  \/ Background \/ BackgroundUndefined
  \/ Resize \/ ResizeAborts \/ ResizeUndefined \/ KeepSize
  \/ Transparent \/ TransparentUndefined
  \/ Prealpha \/ PrealphaUndefined
  \/ WritePNG \/ WritePNGUndefined
  \/ WriteJPEG \/ WriteJPEGFails \/ WriteJPEGUndefined
  \/ WriteBMP \/ WriteBMPUndefined
  \/ WriteHDR \/ WriteHDRUndefined
  \/ WriteIcon \/ WriteIconAborts \/ WriteIconUndefined
  \/ WriteLZ4 \/ WriteLZ4Undefined
  \/ NotSupported \/ NoPlugins \/ WritePlugin \/ WritePluginUndefined

Spec == Init /\ [][Next]_vars

-----------------------------------------------------------------------------
ImageSpace ==
  [pixels : Nat, hdrPixels : Nat, width : Nat, height : Nat,
   components : 1..4, stride : Nat, isHdr : BOOLEAN]

(* The type invariant: sizes are never negative once an image is there.    *)
TypeOK ==
  /\ pc \in {"start", "size", "background", "resize", "transparent", "prealpha",
             "write", "done", "failed", "aborted", "undefined"}
  /\ from \in Sources /\ format \in Formats /\ flags \in Flags /\ scaling \in Scales
  /\ width \in Int /\ height \in Int
  /\ opens \in BOOLEAN /\ loaded \in BOOLEAN
  /\ image \in ImageSpace

FourBytes == loaded /\ from # "hdr"

(* A picture read by readPNG or readJPEG keeps four bytes per pixel, rows  *)
(* without gaps and a buffer of exactly its size through every pass of     *)
(* main, in every order of sizes and for all flags: it is what the loops   *)
(* over pixels and the writers that ignore stride rely on.                 *)
BufferHoldsImage ==
  FourBytes =>
    /\ ~image.isHdr /\ image.components = 4
    /\ image.stride = 4 * image.width
    /\ image.pixels = image.stride * image.height

Icons == {"ico", "icns"}

\* A picture too narrow for its canvas: one of its sizes may become 0.
Sliver(w, h) ==
  /\ ~SameAspect(image, w, h)
  /\ \E fit \in Fitted(image, w, h) : fit[1] <= 0 \/ fit[2] <= 0

\* What a user can ask of a picture of four bytes that has no answer: a size
\* of 0, a canvas beyond all powers, keepaspect or an icon of a sliver, .hdr
\* of what is not square, more than two blocks for LZ4, a file that cannot be
\* opened, a plugin.
Hopeless ==
  \/ width <= 0 \/ height <= 0
  \/ "poweroftwo" \in flags /\ (width > MaxSide \/ height > MaxSide)
  \/ "keepaspect" \in flags /\ Sliver(width, height)
  \/ format \in Icons /\ \E side \in Sides : Sliver(side, side)
  \/ format = "hdr" /\ image.width # image.height
  \/ format = "lz4" /\ ~FitsBound
  \/ format \in {"bmp", "ico", "icns", "lz4"} /\ ~opens
  \/ format = "other"

(* Every combination of passes and formats is defined for a picture read   *)
(* by readPNG or readJPEG, save for those listed: no buffer is left, no    *)
(* null pointer used, and what libraries assert of their arguments is      *)
(* true.  It does not say that no assertion stops the program: with the    *)
(* box filter one of stb_image_resize's own weights may.                   *)
OrdinaryIsDefined == pc = "undefined" /\ FourBytes => Hopeless

PassesForBytes == {"background", "keepaspect", "poweroftwo", "transparent"}

(* A picture of floats gets through main if no pass for bytes is asked     *)
(* for: the resizing is the only one that knows floats.  As .k it must not *)
(* be more than two blocks, at sixteen bytes a pixel.                      *)
FloatsAreDefined ==
  pc = "undefined" /\ loaded /\ image.isHdr =>
    \/ flags \cap PassesForBytes # {}
    \/ width <= 0 \/ height <= 0
    \/ format = "lz4" /\ (~opens \/ ~FitsBound)

(* What readHDR was told to keep as floats reaches the writer as floats,   *)
(* with the components that were asked for: the choice is made before the  *)
(* image is loaded and main never looks at it again.                       *)
FloatsArriveAsFloats ==
  pc \in {"write", "done"} /\ loaded /\ from = "hdr" /\ storeHdr =>
    image.isHdr /\ image.components = storeComponents

\* The side of a canvas made from a picture with side d.
CanvasSide(side, d) ==
  IF "poweroftwo" \in flags
  THEN side \in Powers /\ d <= side /\ (side = 1 \/ side < 2 * d)
  ELSE side = d

(* The size on standard output is the one of the picture in the file, or   *)
(* with poweroftwo the one its canvas is made from; also when the load     *)
(* failed.  Icons have sizes of their own.                                 *)
PrintedIsWritten ==
  pc = "done" /\ format \notin Icons =>
    \A size \in written :
      CanvasSide(size[1], printed[1]) /\ CanvasSide(size[2], printed[2])

-----------------------------------------------------------------------------
(* stb_image_resize.h asserts that the alpha channel it is told of is one  *)
(* of the channels of the picture that main gives it to resize.            *)
AlphaChannelExists ==
  pc = "resize" /\ Resizes /\ loaded /\ ~image.isHdr => HasAlphaChannel(image)
=============================================================================

---------------------------- MODULE Preprocessor ----------------------------
(***************************************************************************)
(* The operations on images of Sources/Preprocessor.cpp, and the struct    *)
(* Image of Sources/Image.h.                                               *)
(*                                                                         *)
(* What a pixel holds is left out.  Kept is what decides whether a loop    *)
(* over an image stays inside its buffer: the sizes, the stride, and how   *)
(* many bytes (pixels) or floats (hdrPixels) were allocated, none for a    *)
(* null pointer.  An operation f(image) gives the image the code returns;  *)
(* CanF(image) says that its loops touch nothing outside the buffers and   *)
(* that the library it calls accepts the arguments.  Where CanF is false   *)
(* the behaviour of the code is undefined.                                 *)
(*                                                                         *)
(* Sizes are the integers of mathematics: a picture of 2^31 bytes or more  *)
(* is outside the model.                                                   *)
(***************************************************************************)
EXTENDS Integers

Image(pixels, width, height, components) ==
  [pixels |-> pixels, hdrPixels |-> 0, width |-> width, height |-> height,
   components |-> components, stride |-> width * components, isHdr |-> FALSE]

\* readHDR and scale give an image floats after it is made.
FloatImage(hdrPixels, width, height, components) ==
  [Image(0, width, height, components) EXCEPT !.isHdr = TRUE, !.hdrPixels = hdrPixels]

Empty(image) == image.width <= 0 \/ image.height <= 0

\* pixels[y * image.stride + x * step + i] is in the buffer for every pixel
\* (x, y) and every i below bytes.
Reaches(image, step, bytes) ==
  \/ Empty(image)
  \/ (image.height - 1) * image.stride + (image.width - 1) * step + bytes <= image.pixels

\* The loops that take a pixel to be four bytes.
Readable(image) == Reaches(image, 4, 4)

-----------------------------------------------------------------------------
\* transparent and prealpha: a new image with rows as far apart as in the
\* old one.
Remade(image) == Image(image.stride * image.height, image.width, image.height, 4)

\* The new buffer is indexed like the old one.
CanRemake(image) ==
  /\ Readable(image)
  /\ Readable([image EXCEPT !.pixels = image.stride * image.height])

\* A buffer for the image there was.
MutScale(image, width, height) ==
  IF image.isHdr
  THEN FloatImage(width * height * image.components, width, height, image.components)
  ELSE Image(image.width * image.height * image.components, width, height, image.components)

\* The image not said to be one of floats.
MutScaleHdr(image, width, height) ==
  IF image.isHdr
  THEN [FloatImage(width * height * image.components, width, height, image.components)
          EXCEPT !.isHdr = FALSE]
  ELSE Image(width * height * image.components, width, height, image.components)

scale(image, width, height) ==
  IF image.isHdr
  THEN FloatImage(width * height * image.components, width, height, image.components)
  ELSE Image(width * height * image.components, width, height, image.components)

\* What stbir_resize_uint8_generic asserts of its arguments: component 3,
\* which scale names as the alpha channel, exists.
HasAlphaChannel(image) == image.components > 3

\* The library divides by each of the sizes.
CanScale(image, width, height) ==
  /\ width > 0 /\ height > 0 /\ ~Empty(image)
  /\ IF image.isHdr
     THEN image.width * image.height * image.components <= image.hdrPixels
     ELSE HasAlphaChannel(image) /\ Reaches(image, image.components, image.components)

-----------------------------------------------------------------------------
(* scaleKeepAspect computes with doubles.  The comparison of two quotients *)
(* of sizes is exact.  static_cast<int> of a product whose exact value is  *)
(* a / b gives its integral part, or one less when the exact value is      *)
(* integral and the double is below it.                                    *)
Truncated(a, b) ==
  { v \in {a \div b, a \div b - 1} : v * b <= a /\ a <= (v + 1) * b }

SameAspect(image, width, height) == width * image.height = image.width * height

\* The sizes the picture may be given inside a canvas of width x height.
Fitted(image, width, height) ==
  IF image.width * height > width * image.height
  THEN Truncated(image.width * width, image.width)
         \X Truncated(image.height * width, image.width)
  ELSE Truncated(image.width * height, image.height)
         \X Truncated(image.height * height, image.height)

scaleKeepAspect(image, width, height) ==
  IF SameAspect(image, width, height)
  THEN scale(image, width, height)
  ELSE Image(width * height * 4, width, height, 4)

\* The scaled picture is copied as bytes; that its place is on the canvas is
\* not part of this.
FitsWell(image, fit) ==
  CanScale(image, fit[1], fit[2]) /\ Readable(scale(image, fit[1], fit[2]))

\* An empty size makes a quotient 0/0, x/0 or 0 and then a size of 0 or of
\* no int at all.
Sized(image, width, height) == width > 0 /\ height > 0 /\ ~Empty(image)

\* It may go well, it may not: which of the two rounding decides.
MayKeepAspect(image, width, height) ==
  /\ Sized(image, width, height)
  /\ IF SameAspect(image, width, height)
     THEN CanScale(image, width, height)
     ELSE { fit \in Fitted(image, width, height) : FitsWell(image, fit) } # {}

MustKeepAspect(image, width, height) ==
  /\ Sized(image, width, height)
  /\ IF SameAspect(image, width, height)
     THEN CanScale(image, width, height)
     ELSE \A fit \in Fitted(image, width, height) : FitsWell(image, fit)

\* With its box filter stb_image_resize asserts that the weight beside a range
\* is 0, and at some ties of lines it is not: a matter of how floats are
\* rounded, wherever a picture is really resized.
MayAbort(image, size) ==
  /\ ~image.isHdr /\ size # <<image.width, image.height>>
  /\ CanScale(image, size[1], size[2])

MayAbortKeepAspect(image, width, height) ==
  /\ Sized(image, width, height)
  /\ IF SameAspect(image, width, height)
     THEN MayAbort(image, <<width, height>>)
     ELSE \E fit \in Fitted(image, width, height) : MayAbort(image, fit)

-----------------------------------------------------------------------------
Powers ==
  {1, 2, 4, 8, 16, 32, 64, 128, 256, 512, 1024, 2048, 4096, 8192, 16384, 32768,
   65536, 131072, 262144, 524288, 1048576, 2097152, 4194304, 8388608, 16777216,
   33554432, 67108864, 134217728, 268435456, 536870912, 1073741824}

\* The next power overflows an int.
MaxSide == 1073741824

\* The first power that reaches i.
getPower2(i) == CHOOSE q \in Powers : i <= q /\ (q = 1 \/ q < 2 * i)

\* The old buffer for the new sizes.
MutToPowerOfTwo(image) ==
  Image(image.pixels, getPower2(image.width), getPower2(image.height), 4)

toPowerOfTwo(image) ==
  LET width == getPower2(image.width)
      height == getPower2(image.height)
  IN Image(width * height * 4, width, height, 4)

CanPowerOfTwo(image) ==
  Readable(image) /\ image.width <= MaxSide /\ image.height <= MaxSide
=============================================================================

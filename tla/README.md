# kraffiti: models and proofs

kraffiti is a command-line image converter: it loads one picture, applies the
passes its arguments ask for, and writes one file. It is a sequential program
(no threads, no callbacks other than libjpeg's error handler, nothing kept
between runs). What is hard about it is therefore not interleaving but

- **long chains of legal steps**: every combination of source kind, passes, sizes
  and output format is reachable from the command line, and each pass makes its
  own silent assumption about the image the one before it left;
- **stale state**: lookup tables reused across blocks, sizes decided before an
  image is loaded and used after it was resized, variables a failed call never set;
- **numbers announced before the fact**: offsets and lengths in icon files that are
  computed before the data exist, or patched in afterwards;
- **failure of one step of several**: a load that fails does not stop the program,
  `fopen` is checked in some writers and not in others, results of libpng are dropped.

The modules model the program's own code, `Sources/main.cpp`, `Preprocessor.cpp`,
`Icons.cpp`, `dir.cpp`, `datatype.cpp`, `Image.h` and the LZ4 compressor in
`Libraries/lz4x`, and of the vendored libraries what the program relies on and what
is hard about them: libjpeg's reader, the vertical pass of stb_image_resize, and the
scanlines of `.hdr` files in stb_image and stb_image_write. Paths below are
relative to the repository. `PROJECT.json` has, for every definition, the source
lines it stands for.

## Inventory

| component | state | operations | status |
|---|---|---|---|
| LZ4 compressor, `Libraries/lz4x/lz4x.cpp` | `g_buf`, `head`, `tail` (static), cursors of the scan | `compress`, `LZ4_compress_default`, `LZ4_compressBound`; `decompress` under `#if 0`; `compress_optimal`, never called | modelled but for `compress_optimal` |
| Program, `Sources/main.cpp` | the variables of `main`: arguments, `image`, `width`, `height` | argument loop, `readPNG`, `readJPEG`, `readHDR`, the passes, `writePNG`, `writePNG24`, `writeJPEG`, `writeHDR`, `writeK` | modelled at the level of sizes and buffers; `readJPEG` call by call; `writeJPEG` is one step |
| Image, `Sources/Image.h` | `pixels`, `hdrPixels`, sizes, `components`, `stride`, `isHdr` | construction | modelled |
| Preprocessor, `Sources/Preprocessor.cpp` | none | `transparent`, `prealpha`, `scale`, `scaleKeepAspect`, `toPowerOfTwo` | modelled, with the doubles of `scaleKeepAspect`; without pixel values |
| Icon writers, `Sources/Icons.cpp` | the output file and running offsets | `windowsIcon`, `macIcon`, `writeBMP` and helpers | modelled; of a bitmap's header within an icon only the length |
| Plugins, `Sources/datatype.cpp`, `dir.cpp` | directory handle, library handle | `openDir`, `readNextFile`, `closeDir`, `loadDatatype`, `encode` | modelled; what a plugin computes is its own |
| libjpeg | `jpeg_decompress_struct` and its controllers | what `readJPEG` calls | calling protocol, markers, restarts, scans, errors and the main controller modelled; the decoding of bits, IDCT, colour conversion and the compressor are not |
| stb_image_resize | `stbir__info`, the ring buffer | the vertical loops and their ranges | those are modelled; coefficients and the values of channels are not |
| stb_image, stb_image_write | cursor in the file or buffer | scanlines of `.hdr` files, read and written | those are modelled; other formats, the text header and RGBE as numbers are not |
| libpng, zlib | | | not modelled |
| Build, `kfile.js`, `.github` | | | no behaviour at run time |

**How they interact.** Everything is a direct call. `main` owns one `Image` at a
time and passes it by value; a pass returns a new `Image` with a new buffer, or
changes the pixels in place. `windowsIcon` and `macIcon` call `scaleKeepAspect`
once per size, on the same source. `main` hands the bytes of an image, or of a
plugin's result, to `LZ4_compress_default` and the result to `writeK`. The only
control flow that is not a call is `my_error_exit`, which leaves `readJPEG` by
`longjmp` from inside libjpeg, and the `goto end` out of the search for plugins.

**What makes each component correct.**

- *LZ4*: what is written decodes to what was read, for every block; the hash chains
  are never followed into a slot that belongs to another position or block; the
  search finds the longest match; no buffer is exceeded; it returns.
- *Program*: every combination of passes is defined for an ordinary picture; an
  image keeps the shape its next reader takes it to have; the size announced on
  standard output is the size of the file; floats arrive as floats.
- *Preprocessor*: the loops stay inside the buffers, the library's preconditions hold.
- *Icons*: the directory leads to every image, and nothing damages what is written.
- *Plugins*: the first plugin that knows the format writes the file, and the
  message that there is none is true.
- *libjpeg as used*: the calls come in an order it allows, also when one fails;
  everything is released; each call for a line gives the next line, made of the right
  rows; a file that was cut off gives what is there of it.
- *stb_image_resize*: each line of the result gets all its parts, in a ring buffer
  that suffices.
- *.hdr files*: what is written is read back; a count in a file never fills more than
  a scanline; reading ends.

The hazards, each at its line and with the properties that would catch it, are in
`PROJECT.json`.

## The modules

### LZ4: `Lz4x`, `Lz4xFormat`, `Lz77`, `Lz4xRefinement`, `MCLz4x`, `Lz4xProofs`

`Lz4x` is `compress`, statement by statement where it changes state. `pc` says
where in the loop it is; the variables are the code's.

| action | code |
|---|---|
| `ReadBlock`, `Finish` | `readData`, the reset of `head`, `op`, `pp`, `p`; the end of the outer loop |
| `BeginSearch`, `SkipSearch` | the test of `max_match`, and the head of the chain |
| `Improve`, `PassOver`, `ChainEnds` | one turn of the `while (s > limit)` loop; a candidate taken, or not; its end |
| `EmitMatch`, `InsertMatched` | the token, literals, distance and length; the `while (p < pp)` loop that enters positions |
| `InsertLiteral` | one literal: the position entered, `p` moved on |
| `FlushLiterals`, `WriteBlock` | the last literals; `comp_len` and the block written |

The parameters are the sizes of block, window and hash table, the hash function and
the inputs; the numbers of the format (4, 5, 12, 15, 255) are the program's. A code
is a record; `Encode` gives its bytes, so that `op` and `top` (the highest index of
`g_buf` written, with what `wild_copy` writes too many) count real bytes. A hash
whose four bytes run past the block is an arbitrary one, because they come from
whatever `g_buf` holds there.

`Lz77` is the abstract specification: a compressor emits codes, and after each the
decoder has a prefix of the source. It knows no hash, chain or search.
`Lz4xRefinement` maps `Lz4x` to it: the decoder has what lies before `pp`.
`Lz4xFormat` puts `decompress` beside `compress`: `Compress` is a step of `Lz4x` that
also keeps the bytes of the codes (`comp`), and each block is decoded as soon as it is
written, before the next one is read. The code is disabled in the repository, but it is
its only statement of the format.

| action | code |
|---|---|
| `Compress` | any step of `Lz4x` before `WriteBlock` |
| `ReceiveBlock` | `comp_len` and the block written by `compress`, checked and read into `memory`, the `g_buf` of `decompress` |
| `DecodeLiterals` | the token, the count of literals that it begins, their `wild_copy`; the end of the block |
| `DecodeMatch` | `LOAD_16` of the distance, the count, the copy of the match |
| `WriteDecoded` | `fwrite` to `g_out` |

`Copied` is a copy that may read what it has just written, one byte at a time or, in
`wild_copy`, four at a time and up to seven bytes too far: these may land on codes that
are still to be read. A `return -1` of `decompress` is the phase `"corrupt"`.

### The program: `Preprocessor`, `Kraffiti`, `KeepAspect`, `MCKraffiti`, `KraffitiProofs`, `ScaleProofs`

`Preprocessor` describes an image by its sizes, its stride and the number of
elements in its buffers, none for a null pointer. An operation has the name of the
function it models and gives the image returned. `CanScale`, `CanRemake`,
`CanPowerOfTwo`, `MayKeepAspect` and `MustKeepAspect` say when the function touches
nothing outside its buffers and calls its library with arguments it accepts;
`MayAbort` and `MayAbortKeepAspect` say when the library's box filter may stop the
program by an assertion about its own weights.

`Kraffiti` is `main`. `Init` chooses the arguments, one step per stage follows:
load, size, background, resize, transparent, prealpha, write. Each stage has an
action for the defined behaviour and one, ending in `pc = "undefined"`, for the
states in which the code leaves a buffer, uses a null pointer, calls a library with
arguments it asserts against or uses what it never initialised. `ResizeAborts` and
`WriteIconAborts` end in `"aborted"`: an assertion of stb_image_resize about what it has
computed itself fails, which it may with the box filter, that is with `filter=nearest`
(the flag `"nearest"`) and in every icon. Which sizes do is a matter of floats, and not
decided here: any resize of bytes to another size by that filter may.

A `.k` file is compressed into a buffer of `LZ4_compressBound` bytes. What that adds is
enough for two blocks (`FitsCompressBound` of `Lz4x`); a picture of more, which is
one of more than `2 * BLOCK_SIZE` bytes, may leave the buffer, if its blocks cannot be
compressed (`FitsBound`, `WriteLZ4Undefined`). A failed load goes on with an empty
image, as in the code. `readHDR` that fails leaves sizes that were never set: a
choice out of `Garbage`.

Two actions may become undefined without a guard on the image, because the model
does not hold what decides it: `LoadUndefined` (a grey `.jpg`, which `readJPEG`
indexes with `num_components` per pixel) and `WritePluginUndefined` (a plugin that
could not be loaded).

`static_cast<int>` of a product of doubles in `scaleKeepAspect` is modelled there by
`Fitted`: the exact integral part, or one less.
`MayKeepAspect` and `MustKeepAspect` say that some, or all, of these go well.

`KeepAspect` is why `Fitted` may be used. It has the doubles themselves: a double is a
whole number of units, and `Rounded` gives every double that a quotient may become,
within an error and not beyond a multiple of half a pixel. `Choose` and `Scale` are
the quotient and the size, `PlaceLine` is one row or column of the loop, `NextAxis`
goes from columns to rows (the loop over `(x, y)` computes the one from `x` alone and
the other from `y` alone).

### Icons: `OutputFile`, `WindowsIcon`, `MacIcon`, `Bmp`, `Icons`, `MCIcons`, `IconsProofs`

`OutputFile` is a file written through stdio, reduced to the four-byte numbers that
say where something is or how long it is, with their byte order, and the extents of
the images. Writing over one destroys it, so a patch that is off by a byte is seen.
`WindowsIcon`, `MacIcon` and `Bmp` have one action per step of `windowsIcon`,
`macIcon` and `writeBMP`: header, directory entries or chunk headers, images or rows,
`ftell`, `fseek` and patch. How many bytes libpng writes is any member of `PngSizes`,
none and a part included, because its result is not looked at. `Icons` composes the
three: `main` calls one of them, by the name of the format, and they share the file.

### Plugins: `Datatypes`, `MCDatatypes`, `DatatypesProofs`

| action | code |
|---|---|
| `openDir` | `FindFirstFile` and the two entries that are passed over |
| `readNextFile` | one turn of the `while` loop of `main`: the next name, kept if it begins with `kraffiti-` |
| `loadDatatype` | `LoadLibrary` from below the current directory and `GetProcAddress`, neither result checked |
| `MatchFormat` | one format of the list `formats()` gives |
| `WriteK` | `encode`, the compression, `writeK` and `goto end` |
| `closeDir` | the end of the loop, and the message |

A library that cannot be loaded leaves null functions that are then called: that is
`"undefined"`.

### libjpeg: `JpegRows`, `JpegReader`, `JpegMainController`, their MC modules, `JpegReaderProofs`

`JpegReader` is `readJPEG` and what its calls do to the struct: `global_state`, the
data source that never suspends and adds EOI markers behind the end of a file, the
input controller that goes between markers and scans (`ReadMarkers`, with one
disjunct for each kind of marker), the pre-load of a file of several scans
(`ConsumeData`), the lines (`ReadScanlines`), and `my_error_exit`, which leaves any of
them for `Handler`. Memory may run out where memory is taken. A file is a sequence of
pieces: a marker with its segment, the data of a row of MCUs, or junk; a segment that
makes no sense is `"bad"`, a marker below SOF0 `"reserved"`.

`DecodeRow` is the entropy decoder on one row of MCUs. `FillRow` is
`jpeg_fill_bit_buffer`: it stops at a marker, keeps it, and goes on with zeros. Where a
restart is due (`RestartDue`), `process_restart` comes first: the marker is fetched if
none is kept, and if it is not the one that is wanted, `jpeg_resync_to_restart` reads on
from some (`Before`, `Resynced`), keeps others, so that this segment stays empty
(`After`), and lets the rest go (`Restarted`). The intervals are whole rows of MCUs.

`JpegMainController` is the part between rows of MCUs and lines: the workspace, the
two lists of pointers into it, the state machine of `process_data_context_main`
(`PostponedRow`, `PrepareForIMCU`, `ProcessIMCU`) or the simple one (`SimpleMain`),
and the upsampler. A sample row is its number, so that what a line was made of can be
told. `JpegRows.RowsNeeded` is what the one module takes from the other: how many
rows of MCUs are read before a line; the run `jpeg_lines` checks that it is so
(`ReadsAsNeeded`), and `JpegReader` uses it.

### stb: `ResizeRing`, `HdrRle` and their MC modules, `ScaleProofs`, `HdrRleProofs`

`ResizeRing` is `stbir__buffer_loop_upsample` and `..._downsample`: the range of each
line (`SampleRange`), entries of the ring buffer given up (`DropUnneeded`) and filled
(`Load`), the line made of what is there (`ResampleUpsample`, `ResampleDownsample`,
`Flush`). A line of the source is its number; a line of the result is the set of those
that went into it. A float quotient that is exactly an integer may come out a little
smaller or larger, so ranges at ties are nondeterministic. That all others are rounded
as they should is true only while the error of the floats is less than the distance of
such a quotient from an integer: `PrecisionAssumption` bounds the sizes accordingly,
and TLC checks it for those of the run. `scale` uses
`STBIR_FILTER_BOX` when its `pointsample` is set and `STBIR_FILTER_CUBICBSPLINE` else: the
two kinds.

`HdrRle` is `stbiw__write_hdr_scanline` and then `stbi__hdr_load` on the bytes just
written, or on any other file. `Top` stands for 128 and `MinWidth` for 8, so that
counts end within a short scanline.

## The runs

| run | configuration | checks | what it shows |
|---|---|---|---|
| `lz4` | `MCLz4x.cfg` | `TypeOK`, `ChainsIntact`, `LongestMatch`, `EndsInLiterals`, `OutputFits`, `FitsCompressBound`, `RoundTrip`, `KeepsPromise`, `Termination` | searches find the nearest longest match, blocks decode to what was read, buffers suffice, `Lz77` is implemented, and `compress` returns |
| `convert` | `MCKraffiti.cfg` | `BufferHoldsImage`, `OrdinaryIsDefined`, `FloatsAreDefined`, `FloatsArriveAsFloats`, `PrintedIsWritten` | which conversions are defined, and what of a picture survives every set of passes |
| `keep_aspect` | `MCKeepAspect.cfg` | `OnCanvas`, `Centred`, `FitIsTruncated` | the scaled picture stays on its canvas, in order and in the middle, however doubles are rounded |
| `icons` | `MCIcons.cfg` | `DirectoryIsTrue`, `ChunksTileTheFile`, `BmpReadsBack`, `ImagesStay` | a reader that follows offsets and lengths finds every image; no patch damages one |
| `plugins` | `MCDatatypes.cfg` | `FirstPluginWins`, `SaidIsTrue`, `LaterPluginsAreHarmless` | the search for a plugin, in every directory of up to three names |
| `jpeg_reader` | `MCJpegReader.cfg` | `NeverBadState`, `ReleasedOnReturn`, `ImageIsWhole`, `DamagedIsShown`, `RestartsKeepPlace`, `Returns` | `readJPEG` on whole, cut and spoilt files, and on files that lost segments between restart markers |
| `jpeg_lines` | `MCJpegMainController.cfg` | `LinesAreRight`, `ReadsThePictureOnly`, `ReadsAsNeeded`, `OneLinePerCall` | each call gives one line, made of the right rows |
| `resize` | `MCResizeRing.cfg` | `RingHasRoom`, `LinesAreWhole`, `InMargin` | each line of a resized picture gets all its parts |
| `hdr` | `MCHdrRle.cfg` | `ReadsBack`, `InScanline`, `Ends` | what is written as `.hdr` is read back |
| `resize_needs_alpha`, `ico_small`, `hdr_cut` | `MCKraffitiAlpha.cfg`, `MCIconsSmall.cfg`, `MCHdrCut.cfg` | one claim each that the code does not keep | see below |

**Bounds, and why they are enough.**

- *`lz4`*: a window of eight slots and three hash values, so that slots of `tail` are
  reused many times in a block and different words share a chain. Inputs: all prefixes
  of eight bits before a tail that lets them match; two blocks and a part of a third,
  where each block starts with what the one before left in `tail` and boundaries cut
  repetitions; none, and inputs too short to be searched; literal runs and matches on
  both sides of 15 and 15+255, where a count gets one byte more, and full blocks of
  literals, the worst case for `g_buf` and `LZ4_compressBound`.
- *`convert`*: a square, a wide and a high picture, and a sliver of 33 x 1 whose height
  becomes 0 when it is fitted; one size asked for, both, none, 0; scales that do
  nothing, grow, shrink below a pixel, and are negative; all 32 subsets of the passes
  with every format and source; blocks of 40 bytes, so that there are pictures of less
  and of more than two, as bytes and as floats. The sizes enter the conditions by sign,
  equality, aspect and products; the instance has both outcomes of each comparison, and the theorems
  cover the other sizes.
- *`keep_aspect`*: sides up to 7 and an error of one unit in 114 to a pixel, close to
  the largest the assumption allows for them; the theorems cover all sizes it allows.
- *`icons`*: PNG sizes below, at and above the numbers they are patched over and the
  262184 bytes first announced for the last image of an `.ico`; rows of `.bmp` with
  every remainder of four.
- *`plugins`*: four plugins, one of which is no library, that share some formats, and a
  name that is no plugin: all lists of up to three of them. The search keeps no more
  than the current one.
- *`jpeg_reader`*: files of each kind of frame with one scan or several, those with
  every possible cut, and those with any one piece left out, doubled, bad or reserved;
  pictures of two rows of MCUs, the last one not full, with lines that wait for the next
  row of MCUs. For restarts ten rows of MCUs: nine markers, so that their numbers
  come round once, with any segments missing but three in a row, and segments of two
  rows that end after one.
- *`jpeg_lines`*: 4:2:0 with `min_DCT_scaled_size` 8, as `readJPEG` has it, with and
  without smooth upsampling, for all heights up to four rows of MCUs and two lines; row
  groups of four and two rows, and the least number of them the controller works with.
- *`resize`*: every pair of sizes up to 9 and some of greater ratio: the pattern of a
  line's range repeats with the common divisor of the sizes. For sizes of a few thousand
  and more the floats misround away from ties too, and the run says nothing of them.
- *`hdr`*: scanlines of 1, 5, 6, 7 and 10 of two values, where 6 is the least width with
  counts, runs end at 3 and dumps at 4; files of any bytes after a header for a scanline
  of 6.

No run checks for deadlock: everything modelled here ends, and a state in which
`compress`, `readJPEG` or the `.hdr` code stops too early would be found by
`Termination`, `Returns` or `Ends`. No counter grows without end, so no guard holds a
bound.

**Fairness.** `Termination`, `Returns`, `Ends` and `LoaderReturns` are checked with
weak fairness of the whole next-state relation of their module. All of them are about
one thread of code that never waits: reading a file gives bytes or its end, and the
data source of libjpeg never suspends. So the next step is always taken. The other
modules state safety only.

## What the violated claims show

Each of these runs checks a sentence of the repository and TLC gives a trace of the
code to a state where it is false.

- `ico_small`: with the argument `small`, `windowsIcon` writes six directory entries
  but computes the first offset behind eight (`Icons.cpp:168`), so every entry is 32
  bytes off. `Icons.cpp:81` says the number is the offset of the data from the
  beginning of the file.
- `resize_needs_alpha`: `scale` tells stb_image_resize that channel 3 is the alpha
  channel (`Preprocessor.cpp:59`), also for a `.hdr` source loaded with three
  components; the library asserts that there is such a channel.
- `hdr_cut`: in a `.hdr` file that ends within a scanline every further count is 0,
  which the loader takes for a dump of nothing (`stb_image.h:6959`), and it reads on for
  ever. `stb_image.h:139` says what the loader returns then.

The models hold more of the kind, which have no run of their own; each is a case the
properties name as an exception:

- `writeBMP` pads no row to four bytes, so a picture whose width is no multiple of
  four cannot be read back (`BmpReadsBack`), and it announces a file of `46 + 4wh`
  bytes while it writes `54 + 3wh`.
- `writeHDR` converts `width * width * components` elements (`main.cpp:233`) of a
  picture of `width * height` pixels, and `writePNG` gives libpng rows of four bytes a
  pixel also of a `.hdr` source with three components (`main.cpp:173`).
- A grey `.jpg` has rows of one sample a pixel, of which `readJPEG` takes three: the
  value `"beyond"` in `JpegReader` and the step `LoadUndefined` in `Kraffiti`.
- With the box filter (`filter=nearest`, and all icons), a quotient that a float makes
  too small gives a line a weight just outside its range, against an assertion of
  stb_image_resize.h: line 1067 when a picture is made larger, as from 7 lines to 12,
  line 1106 when it is made smaller, as from 400 to 386. That is the state `"aborted"`
  of `Kraffiti`. Where assertions are compiled out the line is computed without that
  weight; `LinesAreWhole` holds still.
- `LZ4_compressBound` has a constant 16 for what a block of lz4x adds, which covers two
  blocks of 8 MB; a `.k` file of a larger picture may leave the buffer of `main.cpp:439`
  or `:445` if the picture cannot be compressed. The property `FitsCompressBound` has
  these two blocks as its condition, `OrdinaryIsDefined` and `FloatsAreDefined` except
  larger pictures.

`OrdinaryIsDefined` names, in `Hopeless`, everything that is undefined for a picture
read by `readPNG` or `readJPEG`. It is about `"undefined"`, not about `"aborted"`.

## What is proved

TLAPS checks the following for every value of the constants that meets the named
assumptions of the modules. Those that restrict anything: `WINDOW_SIZE`
is at most 65536, `max_chain` at least `WINDOW_SIZE` (what `LZ4_compress_default`
passes) and a hash below `HASH_SIZE`; source pictures are not empty and scales are
quotients by 1, 2, 4 or 8, so that a product is exact; in `KeepAspect` the error of a
double is small enough for the longest side (met by doubles of 53 bits up to 131072
pixels); the sizes of `ResizeRing` are within `PrecisionAssumption`; a row of MCUs has at least two row groups, and a component has all the
lines of the picture or half of them; no directory lists a plugin named
`.` or `..`.

| module | theorems, each for a property of a run but for `TypeCorrect` and those named `...RunsOut` |
|---|---|
| `Lz4xProofs` | `TypeCorrect`, `ChainsAreIntact`, `FindsLongestMatch`, `OutputAlwaysFits`, `BlocksEndInLiterals`, `OutputFitsBound`, `BlocksRoundTrip`, `CompressRunsOut`, `CodecRunsOut`; `PromiseIsKept`: `Lz4x` implements `Lz77` |
| `KraffitiProofs` | `BufferAlwaysHoldsImage`, `OrdinaryIsAlwaysDefined`, `FloatsAreAlwaysDefined`, `FloatsAlwaysArriveAsFloats`, `PrintedIsAlwaysWritten`; `TypeCorrect` |
| `ScaleProofs` | `AlwaysOnCanvas`, `AlwaysCentred`, `FitIsAlwaysTruncated` of `KeepAspect`; `LinesAreAlwaysWhole`, `RingAlwaysHasRoom`, `AlwaysInMargin` of `ResizeRing` |
| `IconsProofs` | `ChunksAlwaysTileTheFile`, `DirectoryIsAlwaysTrue`, `ImagesAlwaysStay`, `BmpAlwaysReadsBack` |
| `DatatypesProofs` | `FirstPluginAlwaysWins`, `WhatIsSaidIsTrue`, `LaterPluginsAreAlwaysHarmless`; `TypeCorrect` |
| `JpegReaderProofs` | `CallsInOrder`, `AllIsReleased`, `ImageIsAlwaysWhole`, `DamagedIsAlwaysShown`; `ReaderRunsOut` |
| `JpegMainControllerProofs` | `OnlyThePictureIsRead`, `AlwaysOneLinePerCall`, `AlwaysReadsAsNeeded`, `LinesAreAlwaysRight` |
| `HdrRleProofs` | `AlwaysReadsBack`, `AlwaysInScanline`; `RunsOut` |

**`Lz4xProofs`, the search.** `TypeCorrect`, `ChainsAreIntact` and `FindsLongestMatch`, all from
one inductive invariant, `Inv`, at the end of `Lz4x`; that it is preserved is one
lemma per action, named after the action (`ImproveKeeps`, `EmitMatchTyped`, ...):

- `CursorsInOrder` orders `pp`, `p` and `n` at each point of the loop;
- `ChainsIntact` is the claim about `head` and `tail`. It is inductive only in its
  strong form: the *youngest* earlier position with the hash, for every slot of the
  last `WINDOW_SIZE` positions. `SlotsDistinct`, the lemma that those positions have
  different slots, is why an insertion disturbs none of the others;
- `MatchFound` and `SearchExact` say of a search under way that the match so far is
  one, that no candidate already passed beats it, and that `chain_len` still covers
  all candidates to come. The last is why the bound loses nothing, and needs
  `max_chain >= WINDOW_SIZE`. `BeatsSameWord` carries it along a chain: a position
  that beats any match has the hash of `p`, so it is on the chain.

`LongestMatch` follows when the search ends, in three ways: at a match that cannot
be longer, at the end of the chain, or at `chain_len = 0`.

**`Lz4xProofs`, the output.** `Coded(k)`, which is `k + k \div 255`, bounds the bytes of the
codes of the first `k` bytes of a block: `CodeSize` shows that a match of four bytes or
more pays for its token, its distance and both counts, but for one byte in 255 of the
literals. `OutputInv` keeps that for `pp`, and the literals that end a block add two
bytes (`LiteralsSize`). `GBUF_SIZE` has room for this and for what `wild_copy`
writes past the literals. `BoundInv` adds up one or two blocks, six bytes each beside
`Coded`: four of `comp_len` and these two. `CodesInv` is for the end of a block:
every code before the last has a match, begun twelve bytes before the end at least.

**`Lz4xProofs`, the promise.** The simulation of `Lz77`, step by step: `Inv` and `CodesInv`
give the facts, `Decoded` says what the decoder has after one code, for any literals
and any copy that matches the source, and `CodeKeepsPromise` maps `EmitMatch` and
`FlushLiterals` to `WriteCode`. The search and the insertions are stuttering steps.
`PromiseIsKept` is about codes; `BlocksRoundTrip` is about their bytes.

**`Lz4xProofs`, the round trip.** `CodecInv` is the invariant of `compress` and
`decompress` together. A `Layout` gives for each code of the block where it begins in
`comp` and where what it stands for (`Means`) begins in the block; `compress` adds a code
to it with each `EmitMatch` and `FlushLiterals` (`LayoutGrows`), and while a block is
decoded, `decompress` is at the token or at the match of one of these codes, has rebuilt
the block up to there, and finds in `memory` the bytes of `comp` that come after
(`Holds`). Each half of `decompress` has a lemma for what it reads (`TokenRead`,
`MatchRead`: counts continue in bytes of 255, so `ExtBytes` tells which byte ends one)
and one for what it writes (`LiteralsHeld`, `MatchHeld`):

- what `wild_copy` writes too far never reaches a byte that is still to be read. Up to a
  match that is because a match begins twelve bytes before the end of the block, and
  ends five before it, while the codes lie behind `BLOCK_SIZE`. After the last literals
  there is nothing left to be read;
- literals are copied downwards from behind `BLOCK_SIZE`. When a block is nearly all
  literals the copy runs into its own source, but only where it has been read
  (`CopiedDown`);
- a match is copied upwards from what it may itself be writing. `CopiedUp` shows, for
  four bytes at a time and a distance of four at least, or one at a time, that each byte
  equals the one `dist` before it. That this makes it the byte of the block (`Repeats`)
  is an induction over the bytes, done by the least byte that would be wrong: `Least`
  gets it from the library's theorem that the natural numbers are well-founded.

`PromiseIsKept` is not used; `Inv`, `CodesInv`
and `OutputInv` are, because `CodecSpec` implies `Spec` (`CodecCompresses`).

**`KraffitiProofs`.** `TypeCorrect` by the types of the images each pass returns.
`BufferAlwaysHoldsImage` adds to the property that nothing is loaded at the start
(`BufferInv`); per pass, a lemma `Plain...` says that a plain image of four components
becomes one again. `PrintedIsAlwaysWritten` needs what holds between the print and the
writer (`SizeInv`): before the resize the wanted size is the printed one, after it the
image has it. `OrdinaryIsAlwaysDefined` combines `BufferInv` with `Filled` (such an
image is never empty: `Resize` is defined only for positive sizes); `PlainReaches` and
`PlainCanScale` turn these into the conditions of the loops, and `UndefinedStep` goes
through every action that ends in `"undefined"`.

`FloatsAlwaysArriveAsFloats` and `FloatsAreAlwaysDefined` share `FloatInv`: a
picture of floats has the components `readHDR` was asked for in each of its passes.

**`ScaleProofs`, scaleKeepAspect.** `FitError` bounds what the doubles may have added to a size,
`ErrorBound` puts that below half a pixel, and `FitFacts` gives the size as an integer
part. `PlaceFacts` is the heart of the places: a margin lies between two multiples of
half a pixel, and rounding does not pass one. The invariant `Inv` keeps, for the first
line, the last and the one before, the two bounds `Near` on twice their place; order,
distance and the middle follow from these alone.

**`ScaleProofs`, the ring.** The theorems hold for all `Sizes` and `Kinds` that meet
`ResizeAssumption` and `PrecisionAssumption`: all pairs up to 1400, and of greater ones
those of a great ratio, like 60000 and 30. The proofs use the rounding at ties (`FloorOf`,
`CeilOf`) and not the bound, which is what makes that rounding the code's: beyond it a
quotient may be misrounded anywhere, a range lose a line that has weight, and nothing is
claimed. (`KeepAspect` and `ResizeRing` have no
name in common, so that one module can extend both: hence `RingInit`, `RingNext`, `phase`.)
`IsRange` is all that is used of a range: four inequalities that hold
however the quotient of floats was rounded. From them follow that a range is not empty
and fits the ring (`RangeFits`), that the next line's leaves out none between
(`RangesInOrder`), that all that weighs on a line lies within (`WeighsWithin`), and that
what lies before it will never be used again (`PastIsOver`). `RoomInv` keeps the ring
inside the range, or behind it: `RingAlwaysHasRoom` and `AlwaysInMargin` follow.
`LinesAreAlwaysWhole` needs what the entries hold. Upsampled that is simple (`UpInv`).
Downsampled (`DownInv`), the entry of a line of the result has the parts from all lines
read so far (`Upto`); a line that is not in the ring yet (`Fresh`) has got none, and one
that has left it (`Gone`) was written with all. `DownPhase` is needed for the ends: a
line is passed over only before the ring is filled for the first time or after its last
line is that of the picture (`ReadFromEndToEnd`), and no line beyond the loop
weighs on the picture (`NothingBefore`, `NothingAfter`). `AtFacts` and `AtNext` are the
arithmetic of the index: lines in the ring have different entries, and keep them when
the first is left out.

**`IconsProofs`.** One invariant for each writer (`IcnsInv`, `IcoInv`, `BmpInv`) says for
each point of the function what numbers and images the file holds, and where it ends;
lemmas about `OutputFile` say what a write behind the end and a patch within leave as
it was. The lengths of the PNGs stay variables throughout: they are what the patches
must agree with. In `BmpInv` the rows below `y` are in the file, each where the header
says that it begins. `ImagesAlwaysStay` is an action property of the three together.

**`DatatypesProofs`.** `Inv` has `Progress`: none of the names passed so far encodes
the format, and of the current plugin none of the formats before the current one is
the one asked for.

**`JpegReaderProofs`.** `CallInv` gives the state of struct and file at each call; it
is inductive because an error may end any of them only while the file is open.
`WholeInv` is for the picture: all lines before `output_scanline` are filled, and in a file
of one scan as many rows of MCUs were decoded as were put out, so that when the last
line was delivered the input controller is at the markers. `DamagedInv` is for files that are in
order up to their first scan: `HeadInv` says that the header has learned from the
pieces read what they hold, `ScanInv` which markers can come after it, so that no
error is left but the memory's, and `RowsInv` that the rows of MCUs whose data is there
have all come out, or the first scan is being read and nothing but its data came so
far. The second case is needed because a scan is met before it is read.

**`JpegMainControllerProofs`.** `ControlInv` gives the counters of the two controllers
at every call as functions of `output_scanline`; `OnlyThePictureIsRead`,
`AlwaysOneLinePerCall` and `AlwaysReadsAsNeeded` follow from it. `LinesAreAlwaysRight` needs
`DataInv` besides, which says what the pointer lists and the rows behind them hold: each
list is as `make_funny_pointers` made it, the other one with its exchanged row groups;
after the first row of MCUs the wraparound pointers are set (`Around`); the rows read
last are in their places, the row above them is the true one (`Above`), below the
bottom there are copies of the last row (`Below`), and while a row of MCUs is postponed
its last two row groups are still there (`Kept`). `ColorInv` says the same of the lines
waiting in `color_buf`. Lemmas about `Slot`, the row group behind
an entry of a list, show why reading into one list leaves what the other still needs.

**`HdrRleProofs`.** `SizeInv` keeps `i` within the scanline for every file, since a byte is
never negative and `CountFits` bounds it from above; `AlwaysInScanline` is a part of
it. For `AlwaysReadsBack` the file has to be related to what is read of it later, and
reading is a loop over the file. Instead of a recursive decoder, `RleInv` says that
there is a set of points, "column n of channel d of scanline k is what byte a begins to
tell", such that each point leads to a point by one turn of the reader's loop (`Leads`),
up to the end of what is written (`Chain`). Each step of the writer adds a point, and
leaves the others alone, because the file only grows (`ChainOn`, `LeadsOn`); each
step of the reader goes from a point to the next. That `FirstRun` and `EndOfRun` choose
something at all follows from `Least`. Scanlines too short or too long for runs are
told apart by `FlatInv`, where the place of each byte is a product.

**Running out.** The programs with loops whose length the data decides have a theorem
that no loop goes on for ever: `Left` is what is left to do, as numbers of which the
first that changes counts, every step makes it less (`LeftDescends`), and the library's
lexicographic orderings have no infinite descent. What the numbers are is the argument:

- `compress` (`CompressRunsOut`): the input not yet read, the stage of the block, `n - p`,
  the turn of the loop at one position, and `chain_len`, whatever the hash makes of the
  chains. With `decompress` beside it (`CodecRunsOut`) the bytes of the block still to be
  decoded follow, and that every code is read to its end within the block is `CodecInv`;
- `readJPEG` (`ReaderRunsOut`): the calls to come, whether the EOI was reached, the pieces
  of the file, and the lines or the rows of MCUs of one scan. A new scan has more rows,
  but has used up a marker; the EOI the data source supplies without end is not counted
  as a piece, because taking it ends the markers;
- `HdrRle` (`RunsOut`): the scanlines to be written and read, the channels, the columns,
  the place between two steps that move `x`, and the bytes not yet read. `TurnInv` says
  that the dump before a run ends at a run or at the end of the scanline. Only at the
  end of a file cut off within a scanline (`AtEnd`) nothing gets less: this is the one
  place where the loader can stand still, which is what `MCHdrCut` runs into, and by
  `RleInv` no written file leads there.

That is the half of `Termination`, `Returns` and `Ends` that is a safety property. The
other half, that short of the end some step can be taken, is `ENABLED`.

**Only model-checked.** Liveness under fairness (`Termination`, `Returns`, `Ends`,
`LoaderReturns`), beyond the descent just described; and `RestartsKeepPlace`, where a
segment's number comes from counting the markers before it modulo eight, a sum over a
set. Every other property of a passing run has its theorem.

## Not modelled

- The values of pixels: what a filter, a colour conversion or premultiplied alpha
  computes. No control depends on them.
- Integers are those of mathematics in `Preprocessor`, `Kraffiti` and the icons:
  pictures and files of 2^31 bytes and more are outside. Where `getPower2` would
  overflow is named by `MaxSide`. stdio writes to an open file arrive; a full disk is
  not modelled.
- Uninitialised sizes of `readHDR` that happen to be negative, and the empty `.hdr`
  picture stb_image accepts; `scale=` values that are not exact quotients by 1, 2, 4 or 8.
- `writeJPEG`'s session with libjpeg: a straight sequence of calls on an image whose
  shape `Kraffiti` checks; `writePNG` and `readPNG` use libpng's simplified API, one
  call each. Both are single steps of `Kraffiti`.
- libpng, zlib, the compressor of libjpeg, and the entropy coding, IDCT and colour
  conversion of its decompressor: numerical code, or code whose state the program
  never sees. They are nearly all of the repository's lines, and what is modelled is a
  small share of those for that reason.
- Restart intervals of a part of a row of MCUs, and what damaged bits make of the data
  of a row: a row comes out of data or is grey.
- Sizes of stb_image_resize beyond `PrecisionAssumption`, and at which sizes its
  assertion fails: the model of floats is too coarse for it.
- The directory handle that is never closed when a plugin was found (`main.cpp:472`), the
  buffer of `image.pixels` lost when an error leaves `readJPEG`, the bytes of a name
  that `readNextFile` never set, and where the system looks for a library's relative path.
- Loaders of stb_image for formats other than `.hdr`: `readHDR` comes to them only by
  a file with the wrong name.
- `compress_optimal` of lz4x: nothing calls it.
- The build, which has no behaviour at run time.

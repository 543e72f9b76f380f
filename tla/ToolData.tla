------------------------------ MODULE ToolData ------------------------------
(***************************************************************************)
(* The arithmetic of the demos (tools/): where a bouncing sprite goes,     *)
(* which pixel a resized image takes, and how a BMP file is read           *)
(* (tools/bmp_loader.h).                                                   *)
(***************************************************************************)
EXTENDS Integers

\* A sprite moves by its step on each axis and turns back at an edge.
Bounce(s, max) ==
    LET moved == s.at + s.step IN
    IF moved <= 0 \/ moved >= max
    THEN [at |-> moved - s.step, step |-> -s.step]
    ELSE [at |-> moved, step |-> s.step]

\* downsample_nearest: the source index of index i.
Nearest(i, from, to) == (i * from) \div to

-----------------------------------------------------------------------------
(* noodles_bmp_load.  A file is its length and the header's fields.        *)

Rows(height) == IF height < 0 THEN -height ELSE height

\* 24 bits a pixel, rows padded to four bytes.
RowSize(width) == ((width * 3 + 3) \div 4) * 4

HeaderAccepted(file) ==
    /\ file.size >= 54 /\ file.magic
    /\ file.dib_size >= 40
    /\ file.bpp = 24 /\ file.compression = 0

\* -height_raw of the least int32 is no positive number either.
SizeAccepted(file, max_width, max_height) ==
    /\ file.width > 0 /\ file.width <= max_width
    /\ Rows(file.height) > 0 /\ Rows(file.height) <= max_height

BmpAccepted(file, max_width, max_height) ==
    /\ HeaderAccepted(file)
    /\ SizeAccepted(file, max_width, max_height)
    /\ file.offset + RowSize(file.width) * Rows(file.height) <= file.size

\* A negative height means that the file's first row is the top one.
SourceRow(file, y) == IF file.height < 0 THEN y ELSE Rows(file.height) - 1 - y

\* Offset of the pixel's three bytes.
PixelOffset(file, x, y) ==
    file.offset + SourceRow(file, y) * RowSize(file.width) + x * 3
=============================================================================

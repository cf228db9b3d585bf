-------------------------------- MODULE RgbRows --------------------------------
(***************************************************************************)
(* SGI pictures with -rgb: ProcessRGB of src/src/DumpRGB.c reads the       *)
(* components of each row, run length encoded or as they are, into the     *)
(* same buffers for all rows, and writes a bitmap of 24 bits. A byte of an *)
(* encoded row is a count below Half, more than that when as many bytes    *)
(* follow, and fewer when one byte follows that is repeated.               *)
(***************************************************************************)
EXTENDS Integers, Sequences, FiniteSets, SequencesExt

CONSTANTS
  Pictures,  \* [open, rle, xsize, ysize, zsize, rows, data]: whether the header and the
             \* table of rows are there; the encoded rows in the order of the components,
             \* or <<>>; and all there is of the bytes when they are as they are
  Half,      \* 128 in the code
  TmpSize,   \* 256 * xsize in the code
  Lost       \* in place of a row that the table of rows says is behind the file

VARIABLES
  image,
  rgbPc,
  row, comp,        \* y and z, from 0
  df_dwOff,         \* the position in the bytes that are no rows
  tmp,              \* the encoded row, in front of what is left of those before it
  iPtr, total,
  buf,              \* rbuf, gbuf, bbuf and abuf
  base,             \* the pixels
  bitmap            \* what was written to the file

rgbVars == <<image, rgbPc, row, comp, df_dwOff, tmp, iPtr, total, buf, base, bitmap>>

-------------------------------------------------------------------------------

Size == Len(image.data)
Place == row + comp * image.ysize
Components ==
  CASE image.zsize >= 4 -> 4
    [] image.zsize \in 2..3 -> image.zsize
    [] OTHER -> 1

\* No bitmap is made.
Fail ==
  /\ rgbPc' = "failed"
  /\ UNCHANGED <<image, row, comp, df_dwOff, tmp, iPtr, total, buf, base, bitmap>>

\* ImageOpen
Open ==
  /\ rgbPc = "open"
  /\ IF ~image.open THEN Fail
     ELSE /\ rgbPc' = IF image.ysize = 0 THEN "write" ELSE "load"
          /\ UNCHANGED <<image, row, comp, df_dwOff, tmp, iPtr, total, buf, base, bitmap>>

LoadRow ==
  /\ rgbPc = "load" /\ image.rle
  /\ LET bytes == image.rows[Place + 1]
     IN  IF bytes = Lost THEN Fail
         ELSE /\ tmp' = bytes \o SubSeq(tmp, Len(bytes) + 1, TmpSize)
              /\ iPtr' = 1 /\ total' = 0 /\ rgbPc' = "expand"
              /\ UNCHANGED <<image, row, comp, df_dwOff, buf, base, bitmap>>

\* The next component of the row, or the next row with a pixel of all components.
Red(pixels) == [i \in 1..3 |-> pixels[IF Components < 3 THEN 1 ELSE i]]
PixelsOf(b) == [x \in 1..image.xsize |-> Red([c \in 1..Components |-> b[c][x]])]
NextRow ==
  IF comp + 1 < Components
  THEN comp' = comp + 1 /\ rgbPc' = "load" /\ UNCHANGED <<row, base>>
  ELSE /\ comp' = 0 /\ row' = row + 1
       /\ base' = base \o PixelsOf(buf')
       /\ rgbPc' = IF row' = image.ysize THEN "write" ELSE "load"

\* Without a table the position is moved if it is in the file; it is read from wherever
\* it is.
Offset == (row + comp * image.ysize) * image.xsize
Sought == IF Offset <= Size THEN Offset ELSE df_dwOff
LoadBytes ==
  /\ rgbPc = "load" /\ ~image.rle
  /\ IF Sought + image.xsize > Size THEN Fail
     ELSE /\ buf' = [buf EXCEPT ![comp + 1] = SubSeq(image.data, Sought + 1, Sought + image.xsize)]
          /\ df_dwOff' = Sought + image.xsize
          /\ NextRow
          /\ UNCHANGED <<image, tmp, iPtr, total, bitmap>>

\* ImageGetRow: one count and what follows. A row that is longer than the picture is wide
\* goes over its buffer, and a row without an end is read on in what tmp held before.
Code == tmp[iPtr]
Count == Code % Half
Past == IF Code >= Half THEN iPtr + Count ELSE iPtr + 1
Runs == iPtr > TmpSize \/ (Count > 0 /\ (Past > TmpSize \/ total + Count > image.xsize))
Overrun ==
  /\ rgbPc = "expand" /\ Runs
  /\ rgbPc' = "undefined"
  /\ UNCHANGED <<image, row, comp, df_dwOff, tmp, iPtr, total, buf, base, bitmap>>

Literal_Same(x) == tmp[iPtr + 1]
Literal(x) == tmp[iPtr + IF Code >= Half THEN x ELSE 1]
Expand ==
  /\ rgbPc = "expand" /\ ~Runs /\ Count > 0
  /\ buf' = [buf EXCEPT ![comp + 1] =
               [x \in 1..image.xsize |->
                  IF x \in (total + 1)..(total + Count) THEN Literal(x - total) ELSE @[x]]]
  /\ total' = total + Count /\ iPtr' = Past + 1
  /\ UNCHANGED <<image, rgbPc, row, comp, df_dwOff, tmp, base, bitmap>>

\* A row of no bytes is taken for a failure.
EndRow ==
  /\ rgbPc = "expand" /\ ~Runs /\ Count = 0
  /\ IF total = 0 THEN Fail
     ELSE UNCHANGED <<image, df_dwOff, tmp, iPtr, total, buf, bitmap>> /\ NextRow

\* _readrgb2bmp24: rows in the same order, each pixel as blue, green and red. The picture
\* is decoded also when the file cannot be created.
Write ==
  /\ rgbPc = "write"
  /\ \/ bitmap' = [p \in DOMAIN base |-> Reverse(base[p])]
     \/ UNCHANGED bitmap
  /\ rgbPc' = "decoded"
  /\ UNCHANGED <<image, row, comp, df_dwOff, tmp, iPtr, total, buf, base>>

-------------------------------------------------------------------------------

\* The buffers are not cleared when they are allocated.
Init ==
  /\ image \in Pictures /\ rgbPc = "open" /\ row = 0 /\ comp = 0 /\ df_dwOff = 0
  /\ iPtr = 1 /\ total = 0 /\ base = <<>> /\ bitmap = <<>>
  /\ \E old \in 0..1 : /\ tmp = [i \in 1..TmpSize |-> old]
                       /\ buf = [c \in 1..4 |-> [x \in 1..image.xsize |-> old]]

Next == Open \/ LoadRow \/ LoadBytes \/ Overrun \/ Expand \/ EndRow \/ Write

Spec == Init /\ [][Next]_rgbVars /\ WF_rgbVars(Next)

-------------------------------------------------------------------------------
(* Properties *)

Byte == 0..(2 * Half - 1)
TypeOK ==
  /\ rgbPc \in {"open", "load", "expand", "write", "failed", "undefined", "decoded"}
  /\ row \in 0..image.ysize /\ comp \in 0..3 /\ df_dwOff \in 0..Size
  /\ tmp \in [1..TmpSize -> Byte] /\ iPtr \in 1..(TmpSize + 1) /\ total \in 0..image.xsize
  /\ \A c \in 1..4 : DOMAIN buf[c] = 1..image.xsize /\ Range(buf[c]) \subseteq Byte

\* What the format says of an encoded row: bytes up to a count of zero; ok when there is one.
Decoded(bytes) ==
  LET d[i \in 1..(Len(bytes) + 1)] ==
        IF i > Len(bytes) THEN [ok |-> FALSE, out |-> <<>>]
        ELSE LET n == bytes[i] % Half
                 past == IF bytes[i] >= Half THEN i + n ELSE i + 1
                 here == IF bytes[i] >= Half THEN SubSeq(bytes, i + 1, past)
                         ELSE [k \in 1..n |-> bytes[past]]
             IN  IF n = 0 THEN [ok |-> TRUE, out |-> <<>>]
                 ELSE IF past > Len(bytes) THEN [ok |-> FALSE, out |-> <<>>]
                      ELSE [d[past + 1] EXCEPT !.out = here \o @]
  IN  d[1]

\* A component of a row: the pixels that are stored, and whether these are all.
Stored(y, c) ==
  LET place == y + c * image.ysize
      from == place * image.xsize
      bytes == image.rows[place + 1]
      d == Decoded(bytes)
  IN  CASE image.rle /\ bytes = Lost -> [whole |-> FALSE, out |-> <<>>]
        [] image.rle /\ bytes # Lost -> [whole |-> d.ok /\ Len(d.out) = image.xsize, out |-> d.out]
        [] ~image.rle /\ from + image.xsize <= Size ->
             [whole |-> TRUE, out |-> SubSeq(image.data, from + 1, from + image.xsize)]
        [] OTHER -> [whole |-> FALSE, out |-> <<>>]
All == (0..(image.ysize - 1)) \X (0..(Components - 1))
Sound == \A r \in All : Stored(r[1], r[2]).whole
Missing == \E r \in All : Stored(r[1], r[2]).out = <<>>

\* Where the red, green and blue of a pixel of a bitmap come from.
ComponentOf(colour) == IF Components < 3 THEN 0 ELSE 3 - colour

\* A picture whose rows are all there is decoded. In the bitmap of any picture what is stored
\* of a row, up to where its code breaks off, stands in its place, from the bottom up
\* and as its own colour or as all three: a row that is short or has no end does not reach
\* another one, whatever it leaves in the buffers. A row that is encoded as nothing, or is
\* not in the file, makes the picture fail; without a code, of one component at least.
RowsDecoded ==
  /\ (Sound /\ image.open) => rgbPc \notin {"failed", "undefined"}
  /\ bitmap # <<>> =>
       /\ Len(bitmap) = image.xsize * image.ysize
       /\ \A y \in 0..(image.ysize - 1), colour \in 1..3 :
            LET out == Stored(y, ComponentOf(colour)).out
            IN  \A x \in DOMAIN out : bitmap[y * image.xsize + x][colour] = out[x]
  /\ (Missing /\ (image.rle \/ Components = 1)) => rgbPc \notin {"write", "decoded"}

Ended == rgbPc \in {"failed", "undefined", "decoded"}
===============================================================================

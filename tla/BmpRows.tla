-------------------------------- MODULE BmpRows --------------------------------
(***************************************************************************)
(* The image of a bitmap: the rows ProcessBMP and FormRowData of           *)
(* src/src/DumpBmp.c print, by the verbosity of -bmp[n], and the colours   *)
(* that -bmp2 lists. The headers, the colour table, the count of indexes   *)
(* and the columns are left out. A byte is named by its place in the image *)
(* where it is printed, and by its value where it is part of a colour.     *)
(***************************************************************************)
EXTENDS Integers, Sequences, FiniteSets, SequencesExt

CONSTANTS
  Bitmaps,     \* [bits, width, height, data], data being all behind the headers
  WrapSize     \* 16 in the code, and 18 for 24 bits

VARIABLES
  bmp,
  giBmpVerb,
  bmpPc,            \* which of the loops runs: "all", or "first", "cycle" and "rest"
  ir, ui, ia,       \* the byte looked at; bytes gone through of the row, of the line
  iC,               \* valid bytes left in the row
  iRow,
  inewrow,          \* the line is the first one of its row
  lpd,              \* the line, [row, bytes]
  ucnt, rgb24, prgb24,
  warned,           \* history: the last row was said not to be finished
  lines             \* history: the lines printed

bmpVars == <<bmp, giBmpVerb, bmpPc, ir, ui, ia, iC, iRow, inewrow, lpd, ucnt, rgb24,
             prgb24, warned, lines>>

-------------------------------------------------------------------------------

\* BytesPerRow is rounded up to a DWORD.
ValidPerRow == (bmp.width * bmp.bits + 7) \div 8
BytesPerRow == ((ValidPerRow + 3) \div 4) * 4

Total == Len(bmp.data)
More == ir < Total
NewRow == ui = 0
LastOfRow == ui + 1 >= BytesPerRow
Valid == IF NewRow THEN ValidPerRow ELSE iC
StepValid == iC' = IF Valid > 0 THEN Valid - 1 ELSE 0

\* FormRowData: the byte is added to the line, which is printed at the end of the row, or
\* when it is long enough. With -bmp1 this is done for the first line of a row only, and
\* for the first row that is read and row 1 only.
EndsLine == LastOfRow \/ ia + 1 >= WrapSize
FirstLine == IF NewRow THEN giBmpVerb = 1 ELSE inewrow
FormRowData ==
  LET line == Append(IF NewRow THEN <<>> ELSE lpd.bytes, ir)
      label == IF NewRow THEN iRow ELSE lpd.row
      prints == EndsLine /\ (giBmpVerb = 1 => FirstLine /\ iRow \in {bmp.height, 1})
  IN  /\ StepValid
      /\ ui' = IF LastOfRow THEN 0 ELSE ui + 1
      /\ ia' = IF EndsLine THEN 0 ELSE ia + 1
      /\ iRow' = IF LastOfRow /\ iRow # 0 THEN iRow - 1 ELSE iRow
      /\ lpd' = [row |-> label, bytes |-> IF EndsLine THEN <<>> ELSE line]
      /\ lines' = IF prints THEN Append(lines, [row |-> label, bytes |-> line]) ELSE lines
      /\ inewrow' = (FirstLine /\ ~EndsLine)

\* set_RGB_color and add_COLOR_rbg24: padding changes no part of a colour, but is counted
\* as one.
PartOfColour_Padding == TRUE
PartOfColour == Valid > 0
AddColour ==
  LET parts == IF NewRow THEN 1 ELSE ucnt + 1
      colour == IF PartOfColour THEN [rgb24 EXCEPT ![ui % 3] = bmp.data[ir + 1]] ELSE rgb24
  IN  IF bmp.bits # 24 THEN UNCHANGED <<ucnt, rgb24, prgb24>>
      ELSE /\ rgb24' = colour
           /\ ucnt' = IF giBmpVerb = 2 /\ parts = 3 THEN 0 ELSE parts
           /\ prgb24' = IF giBmpVerb = 2 /\ parts = 3 /\ colour \notin Range(prgb24)
                        THEN Append(prgb24, colour) ELSE prgb24

ShowAll ==
  /\ bmpPc = "all" /\ More
  /\ FormRowData /\ AddColour
  /\ ir' = ir + 1
  /\ UNCHANGED <<bmp, giBmpVerb, bmpPc, warned>>

\* -bmp1: the first row is read; its loop is left before it steps to the next byte.
ShowFirst ==
  /\ bmpPc = "first" /\ More
  /\ FormRowData
  /\ IF LastOfRow THEN bmpPc' = "cycle" /\ UNCHANGED ir
                  ELSE ir' = ir + 1 /\ UNCHANGED bmpPc
  /\ UNCHANGED <<bmp, giBmpVerb, ucnt, rgb24, prgb24, warned>>

\* The rows between are gone through and not printed, and iRow stays as it is.
Cycle ==
  /\ bmpPc = "cycle" /\ More
  /\ StepValid
  /\ ui' = IF LastOfRow THEN 0 ELSE ui + 1
  /\ IF LastOfRow /\ iRow = 1 THEN bmpPc' = "rest" /\ UNCHANGED ir
                              ELSE ir' = ir + 1 /\ UNCHANGED bmpPc
  /\ ia' = IF bmpPc' = "rest" THEN 0 ELSE ia
  /\ UNCHANGED <<bmp, giBmpVerb, iRow, inewrow, lpd, ucnt, rgb24, prgb24, warned, lines>>

ShowRest ==
  /\ bmpPc = "rest" /\ More
  /\ FormRowData
  /\ ir' = ir + 1
  /\ UNCHANGED <<bmp, giBmpVerb, bmpPc, ucnt, rgb24, prgb24, warned>>

\* What is left in the line is printed with a warning, but not with -bmp1.
Finish ==
  /\ bmpPc # "done" /\ ~More
  /\ bmpPc' = "done"
  /\ warned' = (giBmpVerb # 1 /\ ia > 0)
  /\ lines' = IF warned' THEN Append(lines, lpd) ELSE lines
  /\ UNCHANGED <<bmp, giBmpVerb, ir, ui, ia, iC, iRow, inewrow, lpd, ucnt, rgb24, prgb24>>

-------------------------------------------------------------------------------

Init ==
  /\ bmp \in Bitmaps /\ giBmpVerb \in 0..2
  /\ bmpPc = IF giBmpVerb = 1 THEN "first" ELSE "all"
  /\ ir = 0 /\ ui = 0 /\ ia = 0 /\ iC = ValidPerRow /\ iRow = bmp.height
  /\ inewrow = FALSE /\ lpd = [row |-> 0, bytes |-> <<>>]
  /\ ucnt = 0 /\ rgb24 = [i \in 0..2 |-> 0] /\ prgb24 = <<>>
  /\ warned = FALSE /\ lines = <<>>

Next == ShowAll \/ ShowFirst \/ Cycle \/ ShowRest \/ Finish

Spec == Init /\ [][Next]_bmpVars /\ WF_bmpVars(Next)

-------------------------------------------------------------------------------
(* Properties *)

TypeOK ==
  /\ giBmpVerb \in 0..2 /\ bmpPc \in {"all", "first", "cycle", "rest", "done"}
  /\ ir \in 0..Total /\ ui \in 0..(BytesPerRow - 1) /\ ia \in 0..(WrapSize - 1)
  /\ iC \in 0..ValidPerRow /\ iRow \in Int /\ inewrow \in BOOLEAN /\ warned \in BOOLEAN
  /\ ucnt \in 0..BytesPerRow /\ rgb24 \in [0..2 -> Nat] /\ prgb24 \in Seq([0..2 -> Nat])
  /\ \A i \in DOMAIN lines : lines[i].row \in Int /\ lines[i].bytes \in Seq(0..(Total - 1))

\* Without -bmp1 every byte is printed once and in order, no line goes over the end of a
\* row, and it is labelled with the number of its row, from the last one up. A row that is
\* not finished is said so unless it breaks off just where a line ends.
Bytes == FlattenSeq([i \in DOMAIN lines |-> lines[i].bytes])
RowOf(p) == LET row == bmp.height - (p \div BytesPerRow)
            IN  IF bmp.height < 0 \/ row > 0 THEN row ELSE 0
AllRowsShown ==
  giBmpVerb # 1 =>
    /\ Bytes = [p \in 1..Len(Bytes) |-> p - 1]
    /\ \A i \in DOMAIN lines : \A k \in DOMAIN lines[i].bytes :
         lines[i].row = RowOf(lines[i].bytes[k])
    /\ bmpPc = "done" =>
         Len(Bytes) = Total /\ warned = ((Total % BytesPerRow) % WrapSize # 0)

\* -bmp2 lists the colour of every pixel of the image once, and no other, whatever the
\* bytes are that fill up its rows.
Pixel(p) == [i \in 0..2 |-> bmp.data[p + i + 1]]
Pixels == {Pixel(r * BytesPerRow + 3 * c) : r \in 0..(Total \div BytesPerRow - 1),
                                            c \in 0..(bmp.width - 1)}
ColoursListed ==
  /\ Len(prgb24) = Cardinality(Range(prgb24))
  /\ (bmpPc = "done" /\ giBmpVerb = 2 /\ bmp.bits = 24 /\ Total % BytesPerRow = 0) =>
       Range(prgb24) = Pixels

Ended == bmpPc = "done"
===============================================================================

-------------------------------- MODULE PpmRows --------------------------------
(***************************************************************************)
(* Portable pixmaps: IsPPMFile, DumpPPM and WrtFil of src/src/DumpBmp.c.   *)
(* The header is read line by line, the rows are written from the last to  *)
(* the first as a bitmap of 24 bits. A file is a sequence of header lines  *)
(* and the bytes behind them; a pixel is named by its place.               *)
(***************************************************************************)
EXTENDS Integers, Sequences, FiniteSets, SequencesExt

CONSTANTS
  Pixmaps,   \* [lines, width, height, data]: lines are [kind, cr], where cr says that a
             \* return stands before the line feed; data is the number of bytes behind
  Writes     \* how many writes a full disk lets through

VARIABLES
  map,
  room,      \* writes left
  ppmPc,
  dwi,       \* the line looked at
  h,         \* rows written
  file       \* the parts of the bitmap written, [part, from]: "header", "info" and rows

ppmVars == <<map, room, ppmPc, dwi, h, file>>

-------------------------------------------------------------------------------

Line == map.lines[dwi]
More == dwi <= Len(map.lines)

\* What the next line may be: GetPPMLine passes over one that is blank, and comments are
\* known in front of the numbers only.
Skips == Line.kind = "blank" \/ (ppmPc = "size" /\ Line.kind = "comment")
Bytes == 3 * map.width * map.height
Wanted ==
  CASE ppmPc = "magic" -> Line.kind = "P6"
    [] ppmPc = "size" -> Line.kind = "numbers" /\ map.width > 0 /\ map.height > 0
    [] OTHER -> Line.kind = "255" /\ ~Line.cr /\ Bytes <= map.data
Behind == [magic |-> "size", size |-> "max", max |-> "create"]

\* IsPPMFile
Reads ==
  /\ ppmPc \in DOMAIN Behind
  /\ IF More /\ (Skips \/ Wanted)
     THEN /\ ppmPc' = IF Skips THEN ppmPc ELSE Behind[ppmPc]
          /\ dwi' = dwi + 1
     ELSE ppmPc' = "declined" /\ UNCHANGED dwi
  /\ UNCHANGED <<map, room, h, file>>

\* DumpPPM: the file is created, or not.
Create ==
  /\ ppmPc = "create"
  /\ \/ ppmPc' = "header" /\ file' = <<>>
     \/ ppmPc' = "failed" /\ UNCHANGED file
  /\ UNCHANGED <<map, room, dwi, h>>

\* WrtFil: what could not be written ends it, and what was stays in the file. Outside Windows
\* writes go to a buffer first, and the result of fclose is not looked at: that the disk is
\* full may go unseen.
WrtFil(what, next) ==
  IF room = 0 THEN ppmPc' \in {"failed", next} /\ UNCHANGED <<room, file>>
  ELSE ppmPc' = next /\ room' = room - 1 /\ file' = Append(file, what)

Heads == [header |-> "info", info |-> "rows"]
HeadPart ==
  /\ ppmPc \in DOMAIN Heads
  /\ WrtFil([part |-> ppmPc, from |-> 0], Heads[ppmPc])
  /\ UNCHANGED <<map, dwi, h>>

Source == (map.height - 1 - h) * 3 * map.width
Row ==
  /\ ppmPc = "rows" /\ h < map.height
  /\ WrtFil([part |-> "row", from |-> Source], "rows")
  /\ h' = h + 1
  /\ UNCHANGED <<map, dwi>>

Close ==
  /\ ppmPc = "rows" /\ h = map.height
  /\ ppmPc' = "written"
  /\ UNCHANGED <<map, room, dwi, h, file>>

-------------------------------------------------------------------------------

Init ==
  /\ map \in Pixmaps /\ room \in Writes
  /\ ppmPc = "magic" /\ dwi = 1 /\ h = 0 /\ file = <<>>

Next == Reads \/ Create \/ HeadPart \/ Row \/ Close

Spec == Init /\ [][Next]_ppmVars /\ WF_ppmVars(Next)

-------------------------------------------------------------------------------
(* Properties *)

TypeOK ==
  /\ ppmPc \in DOMAIN Behind \cup DOMAIN Heads
                \cup {"create", "rows", "declined", "failed", "written"}
  /\ dwi \in 1..(Len(map.lines) + 1) /\ h \in 0..map.height /\ room \in Nat
  /\ file \in Seq([part : {"header", "info", "row"}, from : Nat])

\* A pixmap of 8 bits with its comments behind the first line becomes a bitmap with both
\* headers and every row once, the last one first, unless the disk is full; then what was
\* written stays, and that is the begin of the same bitmap. Nothing is written for a
\* file whose pixels are not all there.
Pixmap ==
  LET kinds == SelectSeq([i \in DOMAIN map.lines |-> map.lines[i].kind],
                         LAMBDA k : k # "blank")
      n == Len(kinds)
  IN  /\ n >= 3 /\ kinds[1] = "P6" /\ kinds[n - 1] = "numbers" /\ kinds[n] = "255"
      /\ \A i \in 2..(n - 2) : kinds[i] = "comment"
      /\ map.lines[Len(map.lines)].kind = "255" /\ ~map.lines[Len(map.lines)].cr
      /\ map.width > 0 /\ map.height > 0 /\ map.data >= 3 * map.width * map.height
Bitmap ==
  <<[part |-> "header", from |-> 0], [part |-> "info", from |-> 0]>>
  \o [k \in 1..map.height |-> [part |-> "row", from |-> 3 * map.width * (map.height - k)]]
PixmapWritten ==
  /\ file # <<>> => Pixmap
  /\ Pixmap => ppmPc # "declined" /\ IsPrefix(file, Bitmap)
  /\ ppmPc = "written" => file = Bitmap \/ room = 0
  /\ ppmPc = "failed" => file # Bitmap

Ended == ppmPc \in {"declined", "failed", "written"}
===============================================================================

------------------------------ MODULE HexDump ------------------------------
(***************************************************************************)
(* The default display of dump4, src/src/DumpHex.c: ProcessData shows the  *)
(* bytes [gdwBgnOff, dwEnd) of the mapped file as rows of an OFFSET, a HEX *)
(* column and an ASCII column, in one piece or as the list of blocks that  *)
(* -blocks:nn[Xn]:... gave, one byte (OutputBYTE) or one DWORD             *)
(* (OutputDWORD) at a time.                                                *)
(*                                                                         *)
(* A byte is named by its position in the file: the columns are sequences  *)
(* of positions, so that the properties can say WHICH bytes a row shows.   *)
(* How a byte looks (two digits, '.', parity stripped) is left out.        *)
(***************************************************************************)
EXTENDS Integers, Sequences, SequencesExt

CONSTANTS
  LineWidth,   \* characters in a row: 16 in the code
  DwordSize,   \* bytes in a DWORD: 4 in the code
  Modulus,     \* DWORD arithmetic is modulo 2^32 in the code
  MaxRd,       \* bound on the size of a file
  BlockLists,  \* the lists g_pHexBlock can hold; <<>> stands for NULL
  Pad          \* the zero OutputDWORD fills a last, short DWORD with

ASSUME LineWidthAssumption ==
  /\ LineWidth \in Nat \ {0}
  /\ DwordSize \in Nat \ {0}
  /\ LineWidth % DwordSize = 0
ASSUME SizeAssumption == /\ MaxRd \in Nat
                         /\ Modulus \in Nat
                         /\ MaxRd < Modulus
ASSUME BlockAssumption ==
  BlockLists \subseteq Seq([num : 1..(Modulus - 1), cnt : 1..(Modulus - 1)])
ASSUME PadAssumption == Pad \notin Nat

VARIABLES
  rd, gdwBgnOff, gdwEndOff,      \* file size, -B and -E
  g_pHexBlock,                   \* -blocks
  g_DoAsDWORDS, g_SwapBytes,     \* -dw and -dws
  pc,                            \* where ProcessData is
  dwb, dwi, dwc,                 \* its cursor: next byte, block, repeats left
  OutputHex,                     \* its function pointer: "BYTE" or "DWORD"
  ir, dwe,                       \* in OutputHex: next byte and end of the call
  foff, iaw,                     \* the offset to print, bytes since it moved
  lpa, lph, dword,               \* ASCII column, hex column, pending DWORD
  rows                           \* every row handed to prt so far

input == <<rd, gdwBgnOff, gdwEndOff, g_pHexBlock, g_DoAsDWORDS, g_SwapBytes>>
walk  == <<dwb, dwi, dwc, OutputHex>>
line  == <<foff, iaw, lpa, lph, dword>>
vars  == <<input, pc, walk, ir, dwe, line, rows>>

-----------------------------------------------------------------------------
(* Helpers *)

Lesser(a, b) == IF a < b THEN a ELSE b

\* ProcessData clips the file to -E, which 0 leaves unset.
dwEnd_Inclusive == IF gdwEndOff # 0 THEN Lesser(gdwEndOff + 1, rd) ELSE rd
dwEnd == IF gdwEndOff # 0 THEN Lesser(gdwEndOff, rd) ELSE rd

\* The end of a block of num bytes at the cursor: the sum wraps as a DWORD
\* does, and is clipped to dwEnd.
BlockEnd_FromBegin(num) == Lesser((gdwBgnOff + num) % Modulus, dwEnd)
BlockEnd_Short(num) == Lesser((dwb + Lesser(num, LineWidth)) % Modulus, dwEnd)
BlockEnd(num) == Lesser((dwb + num) % Modulus, dwEnd)

DwordPtr == IF g_DoAsDWORDS THEN "DWORD" ELSE "BYTE"

\* %08X shows the bytes of a little-endian DWORD last one first, unless
\* swabi4 turned it round before.
ShowDword_NeverSwapped(d) == Reverse(d)
ShowDword(d) == IF g_SwapBytes THEN d ELSE Reverse(d)

\* The offset DO_HEX_OUT prints in front of a full row: the offset moves on
\* after the row went out, in step with iaw and not with the row.
OffsetOfRow_Bumped == foff + LineWidth
OffsetOfRow == foff

\* A sixteenth byte moves the offset.
OffsetDue_Late == iaw = LineWidth
OffsetDue == iaw + 1 = LineWidth

\* while(dwc--) steps the repeat count of the entry.
RepeatsLeft_Stuck == dwc
RepeatsLeft == dwc - 1

\* Entering OutputBYTE or OutputDWORD for the bytes from..to-1.
Call(ptr, from, to) ==
  /\ pc' = "byte"
  /\ OutputHex' = ptr
  /\ ir' = from /\ dwe' = to
  /\ foff' = from /\ iaw' = 0
  /\ lpa' = <<>> /\ lph' = <<>> /\ dword' = <<>>

-----------------------------------------------------------------------------
Init ==
  /\ rd \in 1..MaxRd
  /\ gdwBgnOff \in 0..MaxRd
  /\ gdwEndOff \in 0..MaxRd
  /\ g_pHexBlock \in BlockLists \cup {<<>>}
  /\ g_DoAsDWORDS \in BOOLEAN
  /\ g_SwapBytes \in (IF g_DoAsDWORDS THEN BOOLEAN ELSE {FALSE})
  /\ pc = "start"
  /\ dwb = gdwBgnOff /\ dwi = 1 /\ dwc = 0
  /\ OutputHex = DwordPtr
  /\ ir = 0 /\ dwe = 0
  /\ foff = 0 /\ iaw = 0
  /\ lpa = <<>> /\ lph = <<>> /\ dword = <<>>
  /\ rows = <<>>

\* No block list: one call shows everything.
ShowWhole ==
  /\ pc = "start"
  /\ g_pHexBlock = <<>>
  /\ Call(DwordPtr, gdwBgnOff, dwEnd)
  /\ UNCHANGED <<input, dwb, dwi, dwc, rows>>

\* The for loop fetches the next entry of the block list.
NextEntry ==
  /\ pc \in {"start", "blocks"}
  /\ g_pHexBlock # <<>>
  /\ dwc = 0
  /\ dwi <= Len(g_pHexBlock)
  /\ dwc' = g_pHexBlock[dwi].cnt
  /\ pc' = "blocks"
  /\ UNCHANGED <<input, dwb, dwi, OutputHex, ir, dwe, line, rows>>

\* One turn of while(dwc--). The cursor moves on whatever the call shows.
ShowBlock ==
  /\ pc = "blocks"
  /\ dwc > 0
  /\ LET to == BlockEnd(g_pHexBlock[dwi].num)
     IN  /\ Call(OutputHex, dwb, to)
         /\ dwb' = to
  /\ dwc' = RepeatsLeft
  /\ dwi' = IF RepeatsLeft = 0 THEN dwi + 1 ELSE dwi
  /\ UNCHANGED <<input, rows>>

\* The list is used up: what is left of the file is shown, as bytes.
ShowTail ==
  /\ pc = "blocks"
  /\ dwc = 0
  /\ dwi > Len(g_pHexBlock)
  /\ IF dwb < dwEnd
     THEN /\ Call("BYTE", dwb, dwEnd)
          /\ dwb' = dwEnd
     ELSE /\ pc' = "done"
          /\ UNCHANGED <<dwb, OutputHex, ir, dwe, line>>
  /\ UNCHANGED <<input, dwi, dwc, rows>>

\* One byte of the loop of OutputBYTE / OutputDWORD: both columns grow, a full
\* row goes out at the offset of the row, and only then does the offset move.
OutputByteOrDword ==
  /\ pc = "byte"
  /\ ir < dwe
  /\ LET asc  == Append(lpa, ir)
         dw   == Append(dword, ir)
         full == Len(dw) = DwordSize
         hex  == IF OutputHex = "BYTE" THEN Append(lph, ir)
                 ELSE IF full THEN lph \o ShowDword(dw) ELSE lph
     IN  /\ dword' = IF OutputHex = "BYTE" \/ full THEN <<>> ELSE dw
         /\ IF Len(asc) = LineWidth
            THEN /\ rows' = Append(rows, [off |-> OffsetOfRow, hex |-> hex, asc |-> asc])
                 /\ lpa' = <<>> /\ lph' = <<>>
            ELSE /\ lpa' = asc /\ lph' = hex
                 /\ UNCHANGED rows
  /\ IF OffsetDue
     THEN foff' = foff + LineWidth /\ iaw' = 0
     ELSE iaw' = iaw + 1 /\ UNCHANGED foff
  /\ ir' = ir + 1
  /\ UNCHANGED <<input, pc, walk, dwe>>

\* After the loop: a row that is not full goes out, its DWORD padded, and the
\* call returns to ProcessData.
Remaining ==
  /\ pc = "byte"
  /\ ir >= dwe
  /\ IF lpa = <<>>
     THEN UNCHANGED <<line, rows>>
     ELSE LET fill == [i \in 1..(DwordSize - Len(dword)) |-> Pad]
              hex  == IF dword = <<>> THEN lph
                      ELSE lph \o ShowDword(dword \o fill)
          IN  /\ foff' = foff + Len(lpa)
              /\ rows' = Append(rows, [off |-> foff', hex |-> hex, asc |-> lpa])
              /\ lpa' = <<>> /\ lph' = <<>> /\ dword' = <<>>
              /\ UNCHANGED iaw
  /\ pc' = IF g_pHexBlock = <<>> THEN "done" ELSE "blocks"
  /\ UNCHANGED <<input, walk, ir, dwe>>

Done == pc = "done" /\ UNCHANGED vars

Step == \/ ShowWhole \/ NextEntry \/ ShowBlock \/ ShowTail
        \/ OutputByteOrDword \/ Remaining
Next == Step \/ Done

\* ProcessData is one thread of sequential code: it never stops by itself.
Spec == Init /\ [][Next]_vars /\ WF_vars(Step)

-----------------------------------------------------------------------------
(* Properties *)

Row == [off : Nat, hex : Seq(Nat \cup {Pad}), asc : Seq(Nat)]

TypeOK ==
  /\ {rd, gdwBgnOff, gdwEndOff} \subseteq 0..MaxRd
  /\ g_pHexBlock \in BlockLists \cup {<<>>}
  /\ {g_DoAsDWORDS, g_SwapBytes} \subseteq BOOLEAN
  /\ pc \in {"start", "blocks", "byte", "done"}
  /\ dwb \in Nat /\ dwi \in Nat \ {0} /\ dwc \in Nat
  /\ OutputHex \in {"BYTE", "DWORD"}
  /\ ir \in Nat /\ dwe \in Nat /\ foff \in Nat /\ iaw \in 0..(LineWidth - 1)
  /\ lpa \in Seq(Nat) /\ lph \in Seq(Nat) /\ dword \in Seq(Nat)
  /\ rows \in Seq(Row)

\* A full row is labelled with the offset of its first byte (ProcessData:
\* "lines of OFFSET: HEXADECIMAL DIGITS"), whichever call and block it is in.
FullRowOffset ==
  \A i \in DOMAIN rows :
    Len(rows[i].asc) = LineWidth => rows[i].off = rows[i].asc[1]

\* The hex column of a row shows the bytes of its ASCII column and no other:
\* one by one, or as DWORDs whose bytes stand in the order -dw[s] asks for,
\* the last one padded at the end of the data.
DwordColumn(row) ==
  LET place(i)  == IF g_SwapBytes THEN i
                   ELSE ((i - 1) \div DwordSize) * DwordSize
                        + DwordSize - ((i - 1) % DwordSize)
  IN  /\ Len(row.hex) % DwordSize = 0
      /\ Len(row.hex) - Len(row.asc) \in 0..(DwordSize - 1)
      /\ \A i \in DOMAIN row.hex :
           row.hex[i] = IF place(i) <= Len(row.asc) THEN row.asc[place(i)] ELSE Pad

HexShowsAscii ==
  \A i \in DOMAIN rows :
    rows[i].hex = rows[i].asc \/ (g_DoAsDWORDS /\ DwordColumn(rows[i]))

\* The blocks of a list lie end to end: where each of its entries ends if the
\* first one begins at from and nothing clips them.
EntryEnds(list, from) ==
  LET at[i \in 0..Len(list)] ==
        IF i = 0 THEN from ELSE at[i - 1] + list[i].cnt * list[i].num
  IN  at

\* Where the blocks of the list begin and end, each repeated cnt times.
BlockEnds ==
  UNION {{EntryEnds(g_pHexBlock, gdwBgnOff)[i - 1] + j * g_pHexBlock[i].num :
            j \in 0..g_pHexBlock[i].cnt} : i \in DOMAIN g_pHexBlock}

\* With -blocks, a row never runs over the end of a block, and a short row is
\* the last one of its block or of the file.
RowsRespectBlocks ==
  g_pHexBlock # <<>> =>
    \A i \in DOMAIN rows :
      LET first == rows[i].asc[1]
          past  == first + Len(rows[i].asc)
      IN  /\ \A e \in BlockEnds : ~(first < e /\ e < past)
          /\ Len(rows[i].asc) < LineWidth => past \in BlockEnds \cup {dwEnd}

\* The bytes of some rows, one row after the other.
BytesOf(some) ==
  LET upto[n \in 0..Len(some)] == IF n = 0 THEN <<>> ELSE upto[n - 1] \o some[n].asc
  IN  upto[Len(some)]

\* Every byte of [-B, -E) is shown exactly once and in order: ByteCover, as
\* long as no block size makes the cursor wrap.
Cover == INSTANCE ByteCover WITH
           Width <- LineWidth, begin <- gdwBgnOff,
           end   <- IF gdwEndOff \in 1..rd THEN gdwEndOff ELSE rd,
           shown <- BytesOf(rows),
           done  <- (pc = "done")
CoversFile == Cover!Spec
=============================================================================

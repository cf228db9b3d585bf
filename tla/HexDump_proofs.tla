---------------------------- MODULE HexDump_proofs ----------------------------
(***************************************************************************)
(* Proofs about HexDump, for every file size, row width, DWORD size and    *)
(* list of blocks the assumptions of HexDump allow.                        *)
(***************************************************************************)
EXTENDS HexDump, SequenceTheorems, WellFoundedInduction, TLAPS

\* Inside a call the row, its offset and the byte count move together: this is
\* what makes the offset of a full row right, and what FullRowOffset alone does
\* not say of the row that is still being filled.
LineInv ==
  pc = "byte" =>
    /\ Len(lpa) = iaw
    /\ foff + iaw = ir
    /\ \A j \in 1..Len(lpa) : lpa[j] = foff + j - 1

\* While a block is being repeated, the cursor of the block list is on it.
BlockInv == dwc > 0 => dwi \in 1..Len(g_pHexBlock)

IInv == TypeOK /\ LineInv /\ BlockInv /\ FullRowOffset

-------------------------------------------------------------------------------
(* The values the helpers take. *)

\* dwEnd is a position of the file or its end.
LEMMA EndType == TypeOK => dwEnd \in Nat
  BY SizeAssumption DEF TypeOK, dwEnd, Lesser

\* The end of a block is a position whatever the wrap.
LEMMA BlockEndType ==
  ASSUME TypeOK, NEW num \in Nat
  PROVE  BlockEnd(num) \in Nat
<1>1. dwEnd \in Nat
  BY EndType
<1>2. dwb + num \in Nat /\ Modulus \in Nat /\ Modulus > 0
  BY SizeAssumption DEF TypeOK
<1>3. (dwb + num) % Modulus \in Nat
  BY <1>2
<1> QED
  BY <1>1, <1>3 DEF BlockEnd, Lesser

\* Showing a DWORD permutes its bytes.
LEMMA ShowDwordType ==
  ASSUME NEW S, NEW d \in Seq(S)
  PROVE  ShowDword(d) \in Seq(S)
<1>1. Reverse(d) \in Seq(S)
  BY DEF Reverse
<1> QED
  BY <1>1 DEF ShowDword

\* An entry of a block list holds two naturals.
LEMMA BlockType ==
  ASSUME TypeOK, dwi \in 1..Len(g_pHexBlock)
  PROVE  g_pHexBlock[dwi].num \in Nat /\ g_pHexBlock[dwi].cnt \in Nat
<1>1. g_pHexBlock \in Seq([num : 1..(Modulus - 1), cnt : 1..(Modulus - 1)])
  <2>1. CASE g_pHexBlock = <<>>
    BY <2>1
  <2>2. CASE g_pHexBlock \in BlockLists
    BY <2>2, BlockAssumption
  <2> QED
    BY <2>1, <2>2 DEF TypeOK
<1>2. g_pHexBlock[dwi] \in [num : 1..(Modulus - 1), cnt : 1..(Modulus - 1)]
  <2> DEFINE E == [num : 1..(Modulus - 1), cnt : 1..(Modulus - 1)]
  <2>1. g_pHexBlock \in Seq(E) /\ dwi \in 1..Len(g_pHexBlock)
    BY <1>1
  <2> HIDE DEF E
  <2>2. g_pHexBlock[dwi] \in E
    BY <2>1
  <2> QED
    BY <2>2 DEF E
<1>3. 1..(Modulus - 1) \subseteq Nat
  BY SizeAssumption
<1>4. /\ g_pHexBlock[dwi].num \in 1..(Modulus - 1)
      /\ g_pHexBlock[dwi].cnt \in 1..(Modulus - 1)
  BY <1>2, Zenon
<1> QED
  BY <1>3, <1>4

\* A new row that carries its label right keeps all rows labelled right.
LEMMA NewRow ==
  ASSUME rows \in Seq(Row), FullRowOffset, NEW r \in Row,
         Len(r.asc) = LineWidth => r.off = r.asc[1],
         rows' = Append(rows, r)
  PROVE  rows' \in Seq(Row) /\ FullRowOffset'
<1>1. rows' \in Seq(Row)
  OBVIOUS
<1>2. ASSUME NEW i \in DOMAIN rows'
      PROVE  Len(rows'[i].asc) = LineWidth => rows'[i].off = rows'[i].asc[1]
  <2>1. CASE i \in 1..Len(rows)
    <3>1. rows'[i] = rows[i] /\ i \in DOMAIN rows
      BY <2>1
    <3> QED
      BY <3>1 DEF FullRowOffset
  <2>2. CASE i = Len(rows) + 1
    BY <2>2
  <2> QED
    BY <1>2, <2>1, <2>2
<1> QED
  BY <1>1, <1>2 DEF FullRowOffset

-------------------------------------------------------------------------------
(* The inductive step, one lemma for each action that touches the row. *)

\* A call starts with an empty row at its first byte.
LEMMA CallInv ==
  ASSUME NEW ptr \in {"BYTE", "DWORD"}, NEW from \in Nat, NEW to \in Nat,
         Call(ptr, from, to)
  PROVE  /\ pc' = "byte" /\ OutputHex' \in {"BYTE", "DWORD"}
         /\ ir' \in Nat /\ dwe' \in Nat /\ foff' \in Nat
         /\ iaw' \in 0..(LineWidth - 1)
         /\ lpa' \in Seq(Nat) /\ lph' \in Seq(Nat) /\ dword' \in Seq(Nat)
         /\ LineInv'
  BY LineWidthAssumption DEF Call, LineInv

\* A byte is added to the row, which may go out and move the offset.
LEMMA ByteInv == IInv /\ OutputByteOrDword => IInv'
<1> SUFFICES ASSUME IInv, OutputByteOrDword
             PROVE  IInv'
  OBVIOUS
<1> USE DEF IInv
<1> DEFINE asc == Append(lpa, ir)
           dw  == Append(dword, ir)
           fl  == Len(dw) = DwordSize
           hex == IF OutputHex = "BYTE" THEN Append(lph, ir)
                  ELSE IF fl THEN lph \o ShowDword(dw) ELSE lph
<1>1. /\ pc = "byte" /\ ir < dwe /\ pc' = pc /\ ir' = ir + 1
      /\ UNCHANGED <<input, walk, dwe>>
      /\ dword' = IF OutputHex = "BYTE" \/ fl THEN <<>> ELSE dw
      /\ IF Len(asc) = LineWidth
         THEN /\ rows' = Append(rows, [off |-> foff, hex |-> hex, asc |-> asc])
              /\ lpa' = <<>> /\ lph' = <<>>
         ELSE lpa' = asc /\ lph' = hex /\ rows' = rows
      /\ IF iaw + 1 = LineWidth
         THEN foff' = foff + LineWidth /\ iaw' = 0
         ELSE iaw' = iaw + 1 /\ foff' = foff
  BY DEF OutputByteOrDword, OffsetDue, OffsetOfRow
<1>2. /\ ir \in Nat /\ foff \in Nat /\ iaw \in 0..(LineWidth - 1)
      /\ lpa \in Seq(Nat) /\ lph \in Seq(Nat) /\ dword \in Seq(Nat)
      /\ rows \in Seq(Row)
  BY DEF TypeOK
<1>3. /\ Len(lpa) = iaw /\ foff + iaw = ir
      /\ \A j \in 1..Len(lpa) : lpa[j] = foff + j - 1
  BY <1>1 DEF LineInv
<1>4. asc \in Seq(Nat) /\ dw \in Seq(Nat) /\ Len(asc) = iaw + 1
  BY <1>2, <1>3
<1>5. \A j \in 1..Len(asc) : asc[j] = foff + j - 1
  <2> TAKE j \in 1..Len(asc)
  <2>1. CASE j \in 1..Len(lpa)
    <3>1. asc[j] = lpa[j]
      BY <2>1, <1>2
    <3> QED
      BY <2>1, <3>1, <1>3
  <2>2. CASE j = Len(lpa) + 1
    <3>1. asc[j] = ir
      BY <2>2, <1>2
    <3> HIDE DEF asc
    <3> QED
      BY <2>2, <3>1, <1>2, <1>3
  <2> QED
    BY <2>1, <2>2, <1>2, <1>4
<1>6. hex \in Seq(Nat)
  <2>1. ShowDword(dw) \in Seq(Nat)
    BY <1>4, ShowDwordType
  <2>2. lph \o ShowDword(dw) \in Seq(Nat) /\ Append(lph, ir) \in Seq(Nat)
    BY <1>2, <2>1
  <2> QED
    BY <2>2, <1>2
<1>7. LineInv'
  <2>1. CASE Len(asc) = LineWidth
    BY <2>1, <1>1, <1>2, <1>3, <1>4 DEF LineInv
  <2>2. CASE Len(asc) # LineWidth
    <3>1. lpa' = asc /\ iaw' = iaw + 1 /\ foff' = foff /\ ir' = ir + 1
      BY <2>2, <1>1, <1>2, <1>4
    <3> QED
      BY <3>1, <1>2, <1>3, <1>4, <1>5 DEF LineInv
  <2> QED
    BY <2>1, <2>2
<1>8. rows' \in Seq(Row) /\ FullRowOffset'
  <2>1. CASE Len(asc) = LineWidth
    <3> DEFINE r == [off |-> foff, hex |-> hex, asc |-> asc]
    <3>1. hex \in Seq(Nat \cup {Pad})
      BY <1>6
    <3>2. r \in Row
      BY <3>1, <1>2, <1>4 DEF Row
    <3>3. 1 \in 1..Len(asc)
      BY <2>1, LineWidthAssumption
    <3>4. asc[1] = foff
      BY <3>3, <1>5, <1>2
    <3>5. Len(r.asc) = LineWidth => r.off = r.asc[1]
      BY <3>4
    <3>6. rows' = Append(rows, r)
      BY <2>1, <1>1
    <3> HIDE DEF r
    <3> QED
      BY <3>2, <3>5, <3>6, <1>2, NewRow
  <2>2. CASE Len(asc) # LineWidth
    BY <2>2, <1>1, <1>2 DEF FullRowOffset
  <2> QED
    BY <2>1, <2>2
<1>9. /\ lpa' \in Seq(Nat) /\ lph' \in Seq(Nat) /\ dword' \in Seq(Nat)
      /\ foff' \in Nat /\ iaw' \in 0..(LineWidth - 1) /\ ir' \in Nat
  <2> HIDE DEF asc, dw, fl, hex
  <2>1. lpa' \in Seq(Nat) /\ lph' \in Seq(Nat)
    <3>1. <<>> \in Seq(Nat)
      OBVIOUS
    <3> QED
      BY <1>1, <1>4, <1>6, <3>1
  <2>2. dword' \in Seq(Nat)
    BY <1>1, <1>4
  <2>3. foff' \in Nat /\ iaw' \in 0..(LineWidth - 1) /\ ir' \in Nat
    <3>1. CASE iaw + 1 = LineWidth
      BY <3>1, <1>1, <1>2, LineWidthAssumption
    <3>2. CASE iaw + 1 # LineWidth
      BY <3>2, <1>1, <1>2, LineWidthAssumption
    <3> QED
      BY <3>1, <3>2
  <2> QED
    BY <2>1, <2>2, <2>3
<1>10. TypeOK' /\ BlockInv'
  BY <1>1, <1>8, <1>9 DEF TypeOK, BlockInv, input, walk
<1> QED
  BY <1>7, <1>8, <1>10

\* The short row goes out and the call ends.
LEMMA RemainingInv == IInv /\ Remaining => IInv'
<1> SUFFICES ASSUME IInv, Remaining
             PROVE  IInv'
  OBVIOUS
<1> USE DEF IInv
<1>1. /\ pc' \in {"done", "blocks"} /\ pc = "byte"
      /\ UNCHANGED <<input, walk, ir, dwe>>
  BY DEF Remaining
<1>2. LineInv'
  BY <1>1 DEF LineInv
<1>3. CASE lpa = <<>>
  <2>1. UNCHANGED <<line, rows>>
    BY <1>3 DEF Remaining
  <2> QED
    BY <1>1, <1>2, <2>1 DEF TypeOK, BlockInv, FullRowOffset, input, walk, line
<1>4. CASE lpa # <<>>
  <2> DEFINE fill == [i \in 1..(DwordSize - Len(dword)) |-> Pad]
             hex  == IF dword = <<>> THEN lph ELSE lph \o ShowDword(dword \o fill)
             r    == [off |-> foff + Len(lpa), hex |-> hex, asc |-> lpa]
  <2>1. /\ foff' = foff + Len(lpa) /\ iaw' = iaw
        /\ rows' = Append(rows, r)
        /\ lpa' = <<>> /\ lph' = <<>> /\ dword' = <<>>
    BY <1>4 DEF Remaining
  <2>2. /\ foff \in Nat /\ iaw \in 0..(LineWidth - 1) /\ rows \in Seq(Row)
        /\ lpa \in Seq(Nat) /\ lph \in Seq(Nat) /\ dword \in Seq(Nat)
    BY DEF TypeOK
  <2>3. Len(lpa) = iaw /\ Len(lpa) # LineWidth
    BY <1>1, <2>2, LineWidthAssumption DEF LineInv
  <2>4. hex \in Seq(Nat \cup {Pad})
    <3> DEFINE S == Nat \cup {Pad}
    <3>1. DwordSize - Len(dword) \in Int
      BY <2>2, LineWidthAssumption
    <3>2. fill \in Seq(S)
      <4>1. CASE DwordSize - Len(dword) \in Nat
        BY <4>1
      <4>2. CASE DwordSize - Len(dword) < 0
        <5>1. 1..(DwordSize - Len(dword)) = 1..0
          BY <3>1, <4>2
        <5>2. fill = [i \in 1..0 |-> Pad]
          BY <5>1
        <5>3. [i \in 1..0 |-> Pad] \in Seq(S)
          OBVIOUS
        <5> QED
          BY <5>2, <5>3
      <4> QED
        BY <3>1, <4>1, <4>2
    <3>3. lph \in Seq(S) /\ dword \in Seq(S)
      <4>1. Nat \subseteq S
        OBVIOUS
      <4> HIDE DEF S
      <4> QED
        BY <2>2, <4>1
    <3> HIDE DEF fill, S
    <3>4. dword \o fill \in Seq(S)
      BY <3>2, <3>3
    <3>5. ShowDword(dword \o fill) \in Seq(S)
      BY <3>4, ShowDwordType
    <3>6. lph \o ShowDword(dword \o fill) \in Seq(S)
      BY <3>3, <3>5
    <3> QED
      BY <3>3, <3>6 DEF S
  <2>5. r \in Row /\ (Len(r.asc) = LineWidth => r.off = r.asc[1])
    BY <2>2, <2>3, <2>4 DEF Row
  <2> HIDE DEF r
  <2>6. rows' \in Seq(Row) /\ FullRowOffset'
    BY <2>1, <2>2, <2>5, NewRow
  <2>7. /\ foff' \in Nat /\ iaw' \in 0..(LineWidth - 1)
        /\ lpa' \in Seq(Nat) /\ lph' \in Seq(Nat) /\ dword' \in Seq(Nat)
    BY <2>1, <2>2
  <2> QED
    BY <1>1, <1>2, <2>6, <2>7 DEF TypeOK, BlockInv, input, walk
<1> QED
  BY <1>3, <1>4

-------------------------------------------------------------------------------
(* The theorems. *)

\* IInv holds of every reachable state: the types, the row being filled, and
\* the label of every full row already printed.
THEOREM Inductive == Spec => []IInv
<1>1. Init => IInv
  <2> SUFFICES ASSUME Init PROVE IInv
    OBVIOUS
  <2>1. TypeOK
    <3>1. /\ {rd, gdwBgnOff, gdwEndOff} \subseteq 0..MaxRd
          /\ {g_DoAsDWORDS, g_SwapBytes} \subseteq BOOLEAN
      <4>1. rd \in 1..MaxRd /\ 1..MaxRd \subseteq 0..MaxRd
        BY SizeAssumption DEF Init
      <4> QED
        BY <4>1 DEF Init
    <3>2. OutputHex \in {"BYTE", "DWORD"} /\ dwb \in Nat
      BY SizeAssumption DEF Init, DwordPtr
    <3>3. <<>> \in Seq(Nat) /\ <<>> \in Seq(Row)
      OBVIOUS
    <3> QED
      BY <3>1, <3>2, <3>3, LineWidthAssumption DEF Init, TypeOK
  <2>2. LineInv /\ BlockInv /\ FullRowOffset
    BY DEF Init, LineInv, BlockInv, FullRowOffset
  <2> QED
    BY <2>1, <2>2 DEF IInv
<1>2. IInv /\ [Next]_vars => IInv'
  <2> SUFFICES ASSUME IInv, [Next]_vars PROVE IInv'
    OBVIOUS
  <2> USE DEF IInv
  <2>0. dwEnd \in Nat /\ DwordPtr \in {"BYTE", "DWORD"} /\ TypeOK
    BY EndType DEF DwordPtr
  <2>1. CASE ShowWhole
    <3>1. gdwBgnOff \in Nat /\ Call(DwordPtr, gdwBgnOff, dwEnd)
      BY <2>1 DEF ShowWhole, TypeOK
    <3>2. UNCHANGED <<input, dwb, dwi, dwc, rows>>
      BY <2>1 DEF ShowWhole
    <3> QED
      BY <2>0, <3>1, <3>2, CallInv DEF TypeOK, BlockInv, FullRowOffset, input
  <2>2. CASE NextEntry
    <3>1. dwc' \in Nat
      BY <2>2, BlockType DEF NextEntry, TypeOK
    <3>2. /\ pc' = "blocks"
          /\ dwi \in 1..Len(g_pHexBlock)
          /\ UNCHANGED <<input, dwb, dwi, OutputHex, ir, dwe, line, rows>>
      BY <2>2 DEF NextEntry, TypeOK
    <3> QED
      BY <3>1, <3>2 DEF TypeOK, LineInv, BlockInv, FullRowOffset, input, line
  <2>3. CASE ShowBlock
    <3> DEFINE to == BlockEnd(g_pHexBlock[dwi].num)
    <3>1. /\ Call(OutputHex, dwb, to) /\ dwb' = to
          /\ dwc' = dwc - 1 /\ dwc > 0
          /\ dwi' = IF dwc - 1 = 0 THEN dwi + 1 ELSE dwi
          /\ UNCHANGED <<input, rows>>
      BY <2>3 DEF ShowBlock, RepeatsLeft
    <3>2. dwi \in 1..Len(g_pHexBlock)
      BY <3>1 DEF BlockInv
    <3>3. to \in Nat
      BY <3>2, BlockType, BlockEndType
    <3>4. OutputHex \in {"BYTE", "DWORD"} /\ dwb \in Nat
      BY DEF TypeOK
    <3> HIDE DEF to
    <3>5. BlockInv'
      BY <3>1, <3>2 DEF BlockInv, TypeOK, input
    <3> QED
      BY <3>1, <3>3, <3>4, <3>5, CallInv DEF TypeOK, FullRowOffset, input
  <2>4. CASE ShowTail
    <3>1. /\ dwc = 0 /\ UNCHANGED <<input, dwi, dwc, rows>>
      BY <2>4 DEF ShowTail
    <3>2. CASE dwb < dwEnd
      <4>1. Call("BYTE", dwb, dwEnd) /\ dwb' = dwEnd /\ dwb \in Nat
        BY <2>4, <3>2 DEF ShowTail, TypeOK
      <4> QED
        BY <2>0, <3>1, <4>1, CallInv DEF TypeOK, BlockInv, FullRowOffset, input
    <3>3. CASE ~(dwb < dwEnd)
      BY <2>4, <3>1, <3>3
      DEF ShowTail, TypeOK, LineInv, BlockInv, FullRowOffset, input, line
    <3> QED
      BY <3>2, <3>3
  <2>5. CASE OutputByteOrDword
    BY <2>5, ByteInv
  <2>6. CASE Remaining
    BY <2>6, RemainingInv
  <2>7. CASE UNCHANGED vars
    BY <2>7 DEF vars, input, walk, line, TypeOK, LineInv, BlockInv, FullRowOffset
  <2> QED
    BY <2>1, <2>2, <2>3, <2>4, <2>5, <2>6, <2>7 DEF Next, Step, Done
<1> QED
  BY <1>1, <1>2, PTL DEF Spec

\* Type correctness of the dump of any file.
THEOREM TypeCorrect == Spec => []TypeOK
<1>1. IInv => TypeOK
  BY DEF IInv
<1> QED
  BY <1>1, Inductive, PTL

\* Every full row of any dump carries the offset of its first byte.
THEOREM FullRowsLabelled == Spec => []FullRowOffset
<1>1. IInv => FullRowOffset
  BY DEF IInv
<1> QED
  BY <1>1, Inductive, PTL

-------------------------------------------------------------------------------
(* DWORDs of a row: whole numbers of DwordSize *)

\* Quotient and rest of a number.
LEMMA Division ==
  ASSUME NEW x \in Nat, NEW n \in Nat \ {0}
  PROVE  /\ x \div n \in Nat /\ x % n \in 0..(n - 1)
         /\ x = n * (x \div n) + (x % n)
OBVIOUS

\* One multiple more is at least n more.
LEMMA NextMultiple ==
  ASSUME NEW n \in Nat \ {0}, NEW a \in Nat, NEW b \in Nat, a > b
  PROVE  a * n >= b * n + n
OBVIOUS

\* A number is written in one way only as a multiple of n and a rest.
LEMMA OneWay ==
  ASSUME NEW n \in Nat \ {0}, NEW a \in Nat, NEW b \in Nat,
         NEW r \in 0..(n - 1), NEW q \in 0..(n - 1), a * n + r = b * n + q
  PROVE  a = b /\ r = q
<1>1. CASE a > b
  BY <1>1, NextMultiple
<1>2. CASE b > a
  BY <1>2, NextMultiple
<1>3. CASE a = b
  BY <1>3
<1> QED
  BY <1>1, <1>2, <1>3

\* Quotient and rest of a number written so.
LEMMA Quotient ==
  ASSUME NEW n \in Nat \ {0}, NEW k \in Nat, NEW r \in 0..(n - 1)
  PROVE  (k * n + r) \div n = k /\ (k * n + r) % n = r
<1>1. PICK x \in Nat : x = k * n + r
  OBVIOUS
<1>2. PICK a \in Nat, q \in 0..(n - 1) : a = x \div n /\ q = x % n
  BY Division
<1>3. x = n * a + q /\ n * a = a * n
  BY <1>2, Division
<1>4. k = a /\ r = q
  BY <1>1, <1>3, OneWay
<1> QED
  BY <1>1, <1>2, <1>4

\* A multiple of n is one by its rest.
LEMMA Multiple ==
  ASSUME NEW n \in Nat \ {0}, NEW x \in Nat, x % n = 0
  PROVE  \E k \in Nat : x = k * n
OBVIOUS

\* What completes a row of whole DWORDs is a whole DWORD.
LEMMA WholeDword ==
  ASSUME NEW n \in Nat \ {0}, NEW k \in Nat, NEW m \in Nat, NEW r \in 1..n,
         k * n + r = m * n
  PROVE  r = n
<1>1. CASE r < n
  <2>1. k * n + r = m * n + 0 /\ r \in 0..(n - 1) /\ 0 \in 0..(n - 1)
    BY <1>1
  <2>2. r = 0
    BY <2>1, OneWay
  <2> QED
    BY <2>2
<1> QED
  BY <1>1

\* Every place is one of a DWORD.
LEMMA PlaceOfDword ==
  ASSUME NEW n \in Nat \ {0}, NEW k \in Nat, NEW i \in 1..(k * n)
  PROVE  \E a \in Nat, j \in 1..n : i = a * n + j /\ a * n + n <= k * n
<1>1. k * n \in Nat
  OBVIOUS
<1>2. PICK x \in Nat : x = i - 1
  OBVIOUS
<1>3. PICK a \in Nat, r \in 0..(n - 1) : x = n * a + r
  BY Division
<1>4. n * a = a * n /\ a * n \in Nat
  OBVIOUS
<1>5. i = a * n + (r + 1) /\ r + 1 \in 1..n
  BY <1>2, <1>3, <1>4
<1>6. a * n < k * n
  BY <1>1, <1>4, <1>5
<1>7. ~(a >= k)
  <2>1. CASE a = k
    BY <1>6, <2>1
  <2>2. CASE a > k
    <3>1. a * n >= k * n + n
      BY <2>2, NextMultiple
    <3> QED
      BY <1>1, <1>4, <1>6, <3>1
  <2> QED
    BY <2>1, <2>2
<1>8. k * n >= a * n + n
  BY <1>7, NextMultiple
<1> QED
  BY <1>1, <1>4, <1>5, <1>8

-------------------------------------------------------------------------------
(* The hex column *)

\* Where in the ASCII column the byte at place i of the hex column stands.
Place(swap, i) ==
  IF swap THEN i
  ELSE ((i - 1) \div DwordSize) * DwordSize + DwordSize - ((i - 1) % DwordSize)

\* The hex column is whole DWORDs of the ASCII column, filled up with Pad.
Dwords(swap, hex, asc) ==
  /\ \E k \in Nat : Len(hex) = k * DwordSize
  /\ \A i \in 1..Len(hex) :
       hex[i] = IF Place(swap, i) <= Len(asc) THEN asc[Place(swap, i)] ELSE Pad

\* The row that is being filled: the hex column as far as DWORDs are complete,
\* the bytes of the next one behind it. The properties of printed rows say
\* nothing of either.
ColumnInv ==
  pc = "byte" =>
    IF OutputHex = "BYTE" THEN lph = lpa /\ dword = <<>>
    ELSE /\ Len(lpa) = Len(lph) + Len(dword) /\ Len(dword) < DwordSize
         /\ Dwords(g_SwapBytes, lph, lpa)
         /\ \A j \in 1..Len(dword) : dword[j] = lpa[Len(lph) + j]

\* OutputDWORD is called only with -dw or -dws.
PtrInv == OutputHex = "DWORD" => g_DoAsDWORDS

HexInv == PtrInv /\ ColumnInv /\ HexShowsAscii

\* The place of byte j of DWORD k.
LEMMA PlaceIs ==
  ASSUME NEW swap \in BOOLEAN, NEW k \in Nat, NEW j \in 1..DwordSize
  PROVE  Place(swap, k * DwordSize + j)
           = k * DwordSize + (IF swap THEN j ELSE DwordSize + 1 - j)
<1>1. DwordSize \in Nat \ {0}
  BY LineWidthAssumption
<1>2. PICK m \in Nat : m = k * DwordSize
  BY <1>1
<1>3. CASE swap
  BY <1>3 DEF Place
<1>4. CASE ~swap
  <2>1. PICK r \in 0..(DwordSize - 1) : r = j - 1
    BY <1>1
  <2>2. (m + r) \div DwordSize = k /\ (m + r) % DwordSize = r
    BY <1>1, <1>2, Quotient
  <2>3. (m + j) - 1 = m + r
    BY <1>1, <2>1
  <2>4. Place(swap, m + j) = m + DwordSize - r
    BY <1>2, <1>4, <2>2, <2>3 DEF Place
  <2>5. m + DwordSize - r = m + (DwordSize + 1 - j)
    BY <1>1, <2>1
  <2> QED
    BY <1>2, <1>4, <2>4, <2>5
<1> QED
  BY <1>3, <1>4

\* Within whole DWORDs every place is one of them.
LEMMA PlaceWithin ==
  ASSUME NEW swap \in BOOLEAN, NEW k \in Nat, NEW i \in 1..(k * DwordSize)
  PROVE  Place(swap, i) \in 1..(k * DwordSize)
<1>1. DwordSize \in Nat \ {0}
  BY LineWidthAssumption
<1>2. PICK a \in Nat, j \in 1..DwordSize :
        i = a * DwordSize + j /\ a * DwordSize + DwordSize <= k * DwordSize
  BY <1>1, PlaceOfDword
<1>3. PICK m \in Nat : m = a * DwordSize
  BY <1>1
<1>4. PICK e \in Nat : e = k * DwordSize
  BY <1>1
<1>5. Place(swap, i) = m + (IF swap THEN j ELSE DwordSize + 1 - j)
  BY <1>2, <1>3, PlaceIs
<1>6. (IF swap THEN j ELSE DwordSize + 1 - j) \in 1..DwordSize
  BY <1>1
<1>7. m + DwordSize <= e
  BY <1>2, <1>3, <1>4
<1> QED
  BY <1>1, <1>4, <1>5, <1>6, <1>7

\* A DWORD shown: byte by byte, or from its last byte to its first.
LEMMA ShownDword ==
  ASSUME g_SwapBytes \in BOOLEAN, NEW S, NEW dw \in Seq(S), Len(dw) = DwordSize
  PROVE  /\ ShowDword(dw) \in Seq(S) /\ Len(ShowDword(dw)) = DwordSize
         /\ \A j \in 1..DwordSize :
              ShowDword(dw)[j] = dw[IF g_SwapBytes THEN j ELSE DwordSize + 1 - j]
<1>1. DwordSize \in Nat \ {0}
  BY LineWidthAssumption
<1>2. /\ Reverse(dw) \in Seq(S) /\ Len(Reverse(dw)) = DwordSize
      /\ \A j \in 1..DwordSize : Reverse(dw)[j] = dw[DwordSize + 1 - j]
  BY <1>1 DEF Reverse
<1>3. CASE g_SwapBytes
  BY <1>3 DEF ShowDword
<1>4. CASE ~g_SwapBytes
  BY <1>2, <1>4 DEF ShowDword
<1> QED
  BY <1>3, <1>4

\* A byte more in the ASCII column leaves the DWORDs before it right.
LEMMA DwordsStay ==
  ASSUME NEW swap \in BOOLEAN, NEW S, NEW hex \in Seq(S), NEW asc \in Seq(S),
         NEW e \in S, Dwords(swap, hex, asc), Len(hex) <= Len(asc)
  PROVE  Dwords(swap, hex, Append(asc, e))
<1>1. PICK k \in Nat : Len(hex) = k * DwordSize
  BY DEF Dwords
<1>2. PICK m \in Nat : m = Len(hex)
  OBVIOUS
<1>3. ASSUME NEW i \in 1..m
      PROVE  Place(swap, i) \in 1..m
  BY <1>1, <1>2, PlaceWithin
<1>4. /\ Len(Append(asc, e)) = Len(asc) + 1 /\ Len(asc) \in Nat
      /\ \A p \in 1..Len(asc) : Append(asc, e)[p] = asc[p]
  OBVIOUS
<1>5. ASSUME NEW i \in 1..m
      PROVE  /\ Place(swap, i) <= Len(Append(asc, e))
             /\ hex[i] = Append(asc, e)[Place(swap, i)]
  <2>1. PICK p \in 1..m : p = Place(swap, i)
    BY <1>3
  <2>2. p <= Len(asc) /\ p \in 1..Len(asc)
    BY <1>2, <1>4
  <2>3. hex[i] = asc[p]
    BY <1>2, <2>1, <2>2 DEF Dwords
  <2> QED
    BY <1>4, <2>1, <2>2, <2>3
<1> QED
  BY <1>1, <1>2, <1>5 DEF Dwords

\* A DWORD more in the hex column.
LEMMA DwordAdded ==
  ASSUME g_SwapBytes \in BOOLEAN, NEW S, NEW hex \in Seq(S), NEW dw \in Seq(S),
         NEW asc \in Seq(S), Len(dw) = DwordSize,
         Dwords(g_SwapBytes, hex, asc), Len(hex) <= Len(asc),
         \A j \in 1..DwordSize :
           dw[j] = IF Len(hex) + j <= Len(asc) THEN asc[Len(hex) + j] ELSE Pad
  PROVE  /\ Dwords(g_SwapBytes, hex \o ShowDword(dw), asc)
         /\ Len(hex \o ShowDword(dw)) = Len(hex) + DwordSize
         /\ hex \o ShowDword(dw) \in Seq(S)
<1>1. PICK k \in Nat : Len(hex) = k * DwordSize
  BY DEF Dwords
<1>2. PICK m \in Nat : m = Len(hex)
  OBVIOUS
<1> DEFINE sh  == ShowDword(dw)
           all == hex \o sh
           swap == g_SwapBytes
           At(i) == IF Place(swap, i) <= Len(asc) THEN asc[Place(swap, i)] ELSE Pad
<1>3. DwordSize \in Nat \ {0}
  BY LineWidthAssumption
<1>4. /\ sh \in Seq(S) /\ Len(sh) = DwordSize
      /\ \A j \in 1..DwordSize : sh[j] = dw[IF swap THEN j ELSE DwordSize + 1 - j]
  BY ShownDword
<1> HIDE DEF sh
<1>5. /\ all \in Seq(S) /\ Len(all) = m + DwordSize
      /\ \A i \in 1..m : all[i] = hex[i]
      /\ \A j \in 1..DwordSize : all[m + j] = sh[j]
  <2>1. /\ all \in Seq(S) /\ Len(all) = m + DwordSize
        /\ \A i \in 1..(m + DwordSize) : all[i] = IF i <= m THEN hex[i] ELSE sh[i - m]
    <3>1. /\ all \in Seq(S) /\ Len(all) = Len(hex) + Len(sh)
          /\ \A i \in 1..(Len(hex) + Len(sh)) :
               all[i] = IF i <= Len(hex) THEN hex[i] ELSE sh[i - Len(hex)]
      BY <1>4, ConcatProperties
    <3> HIDE DEF all
    <3> QED
      BY <1>2, <1>4, <3>1
  <2> HIDE DEF all
  <2>2. ASSUME NEW i \in 1..m PROVE all[i] = hex[i]
    <3>1. i \in 1..(m + DwordSize) /\ i <= m
      BY <1>3
    <3> QED
      BY <2>1, <3>1
  <2>3. ASSUME NEW j \in 1..DwordSize PROVE all[m + j] = sh[j]
    <3>1. m + j \in 1..(m + DwordSize) /\ ~(m + j <= m) /\ (m + j) - m = j
      BY <1>3
    <3> QED
      BY <2>1, <3>1
  <2> QED
    BY <2>1, <2>2, <2>3
<1> HIDE DEF all
<1>6. Len(all) = (k + 1) * DwordSize /\ k + 1 \in Nat
  <2>1. (k + 1) * DwordSize = k * DwordSize + DwordSize
    BY <1>3
  <2> QED
    BY <1>1, <1>2, <1>5, <2>1
<1>7. ASSUME NEW i \in 1..m PROVE all[i] = At(i)
  BY <1>2, <1>5 DEF Dwords
<1>8. ASSUME NEW j \in 1..DwordSize PROVE all[m + j] = At(m + j)
  <2>1. PICK q \in 1..DwordSize : q = IF swap THEN j ELSE DwordSize + 1 - j
    <3>1. DwordSize + 1 - j \in 1..DwordSize
      BY <1>3
    <3>2. (IF swap THEN j ELSE DwordSize + 1 - j) \in 1..DwordSize
      BY <3>1
    <3> QED
      BY <3>2
  <2>2. all[m + j] = dw[q]
    BY <1>4, <1>5, <2>1
  <2>3. dw[q] = IF m + q <= Len(asc) THEN asc[m + q] ELSE Pad
    BY <1>2
  <2>4. Place(swap, m + j) = m + q
    <3>1. Place(swap, k * DwordSize + j)
            = k * DwordSize + (IF swap THEN j ELSE DwordSize + 1 - j)
      BY PlaceIs
    <3> QED
      BY <1>1, <1>2, <2>1, <3>1
  <2> QED
    BY <2>2, <2>3, <2>4
<1>9. ASSUME NEW i \in 1..(m + DwordSize) PROVE all[i] = At(i)
  <2>1. CASE i <= m
    BY <1>7, <2>1
  <2>2. CASE i > m
    <3>1. PICK j \in 1..DwordSize : i = m + j
      <4>1. i - m \in 1..DwordSize /\ i = m + (i - m)
        BY <1>3, <2>2
      <4> QED
        BY <4>1
    <3> QED
      BY <1>8, <3>1
  <2> QED
    BY <2>1, <2>2
<1>10. Dwords(g_SwapBytes, all, asc)
  BY <1>5, <1>6, <1>9 DEF Dwords
<1> QED
  BY <1>2, <1>5, <1>10 DEF all, sh

\* What HexShowsAscii says of one row, when the DWORDs are wanted and swapped so.
Shows(dwords, swap, row) ==
  \/ row.hex = row.asc
  \/ /\ dwords
     /\ Len(row.hex) % DwordSize = 0
     /\ Len(row.hex) - Len(row.asc) \in 0..(DwordSize - 1)
     /\ \A i \in DOMAIN row.hex :
          row.hex[i] = IF Place(swap, i) <= Len(row.asc)
                       THEN row.asc[Place(swap, i)] ELSE Pad

\* The property is that of its rows.
LEMMA ShowsIs ==
  /\ HexShowsAscii <=>
       \A i \in DOMAIN rows : Shows(g_DoAsDWORDS, g_SwapBytes, rows[i])
  /\ HexShowsAscii' <=>
       \A i \in DOMAIN rows' : Shows(g_DoAsDWORDS', g_SwapBytes', rows'[i])
BY DEF HexShowsAscii, DwordColumn, Shows, Place

\* A row of whole DWORDs shows the bytes of its ASCII column.
LEMMA RowOfDwords ==
  ASSUME NEW S, NEW hex \in Seq(S), NEW asc \in Seq(S), NEW off, NEW swap,
         Dwords(swap, hex, asc), Len(hex) - Len(asc) \in 0..(DwordSize - 1)
  PROVE  Shows(TRUE, swap, [off |-> off, hex |-> hex, asc |-> asc])
<1>1. PICK k \in Nat : Len(hex) = k * DwordSize
  BY DEF Dwords
<1>2. Len(hex) % DwordSize = 0
  <2>1. DwordSize \in Nat \ {0} /\ 0 \in 0..(DwordSize - 1)
    BY LineWidthAssumption
  <2>2. (k * DwordSize + 0) % DwordSize = 0
    BY <2>1, Quotient
  <2>3. Len(hex) + 0 = Len(hex)
    OBVIOUS
  <2> QED
    BY <1>1, <2>2, <2>3
<1>3. DOMAIN hex = 1..Len(hex)
  OBVIOUS
<1> QED
  BY <1>2, <1>3 DEF Shows, Dwords

\* A new row that shows its bytes keeps all rows so.
LEMMA NewHexRow ==
  ASSUME HexShowsAscii, rows \in Seq(Row), UNCHANGED input,
         NEW r, Shows(g_DoAsDWORDS, g_SwapBytes, r), rows' = Append(rows, r)
  PROVE  HexShowsAscii'
<1>1. /\ DOMAIN rows' = 1..(Len(rows) + 1) /\ rows'[Len(rows) + 1] = r
      /\ \A i \in 1..Len(rows) : rows'[i] = rows[i]
      /\ DOMAIN rows = 1..Len(rows) /\ Len(rows) \in Nat
  OBVIOUS
<1>2. g_DoAsDWORDS' = g_DoAsDWORDS /\ g_SwapBytes' = g_SwapBytes
  BY DEF input
<1>3. ASSUME NEW i \in DOMAIN rows'
      PROVE  Shows(g_DoAsDWORDS, g_SwapBytes, rows'[i])
  <2>1. CASE i \in 1..Len(rows)
    BY <1>1, <2>1, ShowsIs
  <2>2. CASE i = Len(rows) + 1
    BY <1>1, <2>2
  <2> QED
    BY <1>1, <1>3, <2>1, <2>2
<1> QED
  BY <1>2, <1>3, ShowsIs

\* Before the first byte of a row.
LEMMA EmptyColumns ==
  ASSUME NEW swap
  PROVE  /\ Dwords(swap, <<>>, <<>>) /\ Len(<<>>) = Len(<<>>) + Len(<<>>)
         /\ Len(<<>>) < DwordSize
<1>1. DwordSize \in Nat \ {0} /\ Len(<<>>) = 0 /\ 0 = 0 * DwordSize /\ 0 \in Nat
  BY LineWidthAssumption
<1> QED
  BY <1>1 DEF Dwords

\* A byte, which may complete a DWORD and a row.
LEMMA ByteHex ==
  ASSUME IInv, HexInv, OutputByteOrDword
  PROVE  HexInv'
<1> DEFINE asc == Append(lpa, ir)
           dw  == Append(dword, ir)
           fl  == Len(dw) = DwordSize
           hex == IF OutputHex = "BYTE" THEN Append(lph, ir)
                  ELSE IF fl THEN lph \o ShowDword(dw) ELSE lph
           row == [off |-> foff, hex |-> hex, asc |-> asc]
<1>1. /\ pc = "byte" /\ pc' = pc /\ OutputHex' = OutputHex
      /\ g_DoAsDWORDS' = g_DoAsDWORDS /\ g_SwapBytes' = g_SwapBytes
      /\ UNCHANGED input
      /\ dword' = IF OutputHex = "BYTE" \/ fl THEN <<>> ELSE dw
      /\ IF Len(asc) = LineWidth
         THEN rows' = Append(rows, row) /\ lpa' = <<>> /\ lph' = <<>>
         ELSE lpa' = asc /\ lph' = hex /\ rows' = rows
  BY DEF OutputByteOrDword, OffsetOfRow, input, walk
<1>2. /\ ir \in Nat /\ rows \in Seq(Row)
      /\ lpa \in Seq(Nat) /\ lph \in Seq(Nat) /\ dword \in Seq(Nat)
      /\ g_SwapBytes \in BOOLEAN /\ OutputHex \in {"BYTE", "DWORD"}
  BY DEF IInv, TypeOK
<1>3. PtrInv'
  BY <1>1 DEF HexInv, PtrInv
<1>4. /\ asc \in Seq(Nat) /\ Len(asc) = Len(lpa) + 1 /\ asc[Len(lpa) + 1] = ir
      /\ \A i \in 1..Len(lpa) : asc[i] = lpa[i]
      /\ dw \in Seq(Nat) /\ Len(dw) = Len(dword) + 1 /\ dw[Len(dword) + 1] = ir
      /\ \A i \in 1..Len(dword) : dw[i] = dword[i]
      /\ Len(lpa) \in Nat /\ Len(lph) \in Nat /\ Len(dword) \in Nat
  BY <1>2
<1>5. DwordSize \in Nat \ {0} /\ LineWidth \in Nat \ {0}
  BY LineWidthAssumption
<1>6. CASE OutputHex = "BYTE"
  <2>1. lph = lpa /\ dword = <<>>
    BY <1>1, <1>6 DEF HexInv, ColumnInv
  <2>2. hex = asc /\ dword' = <<>>
    BY <1>1, <1>6, <2>1
  <2> HIDE DEF hex, asc
  <2>3. ColumnInv'
    BY <1>1, <1>6, <2>2 DEF ColumnInv
  <2>4. HexShowsAscii'
    <3>1. CASE Len(asc) = LineWidth
      <4>1. Shows(g_DoAsDWORDS, g_SwapBytes, row)
        BY <2>2 DEF Shows
      <4>2. rows' = Append(rows, row)
        BY <1>1, <3>1
      <4> HIDE DEF row
      <4> QED
        BY <1>1, <1>2, <4>1, <4>2, NewHexRow DEF HexInv
    <3>2. CASE Len(asc) # LineWidth
      BY <1>1, <3>2, ShowsIs DEF HexInv
    <3> QED
      BY <3>1, <3>2
  <2> QED
    BY <1>3, <2>3, <2>4 DEF HexInv
<1>7. CASE OutputHex = "DWORD"
  <2>1. /\ g_DoAsDWORDS = TRUE
        /\ Len(lpa) = Len(lph) + Len(dword) /\ Len(dword) < DwordSize
        /\ Dwords(g_SwapBytes, lph, lpa)
        /\ \A j \in 1..Len(dword) : dword[j] = lpa[Len(lph) + j]
    BY <1>1, <1>7, <1>2 DEF HexInv, PtrInv, ColumnInv, IInv, TypeOK
  <2>2. \A j \in 1..Len(dw) : dw[j] = asc[Len(lph) + j]
    <3> TAKE j \in 1..Len(dw)
    <3>1. CASE j <= Len(dword)
      <4>1. j \in 1..Len(dword) /\ Len(lph) + j \in 1..Len(lpa)
        BY <1>4, <2>1, <3>1
      <4> HIDE DEF asc, dw
      <4> QED
        BY <1>4, <2>1, <4>1
    <3>2. CASE j = Len(dword) + 1
      <4>1. Len(lph) + j = Len(lpa) + 1
        BY <1>4, <2>1, <3>2
      <4> HIDE DEF asc, dw
      <4> QED
        BY <1>4, <3>2, <4>1
    <3>3. j <= Len(dword) \/ j = Len(dword) + 1
      <4> HIDE DEF asc, dw
      <4> QED
        BY <1>4
    <3> QED
      BY <3>1, <3>2, <3>3
  <2>3. Dwords(g_SwapBytes, lph, asc) /\ Len(lph) <= Len(asc)
    <3>1. Len(lph) <= Len(lpa)
      BY <1>4, <2>1
    <3>2. Dwords(g_SwapBytes, lph, asc)
      BY <1>2, <2>1, <3>1, DwordsStay
    <3> HIDE DEF asc
    <3> QED
      BY <1>4, <3>1, <3>2
  <2>4. Len(asc) = Len(lph) + Len(dw)
    <3> HIDE DEF asc, dw
    <3> QED
      BY <1>4, <2>1
  <2>5. hex = IF fl THEN lph \o ShowDword(dw) ELSE lph
    BY <1>7
  <2>6. /\ OutputHex' # "BYTE"
        /\ dword' = IF fl THEN <<>> ELSE dw
    BY <1>1, <1>7
  <2> HIDE DEF asc, dw, hex
  <2>7. CASE fl
    <3>1. \A j \in 1..DwordSize :
            dw[j] = IF Len(lph) + j <= Len(asc) THEN asc[Len(lph) + j] ELSE Pad
      <4> TAKE j \in 1..DwordSize
      <4>1. j \in 1..Len(dw) /\ Len(lph) + j <= Len(asc)
        BY <1>4, <1>5, <2>4, <2>7
      <4> QED
        BY <2>2, <4>1
    <3>2. /\ Dwords(g_SwapBytes, hex, asc) /\ hex \in Seq(Nat)
          /\ Len(hex) = Len(lph) + DwordSize
      BY <1>2, <1>4, <2>3, <2>5, <2>7, <3>1, DwordAdded
    <3>3. Len(hex) = Len(asc) /\ Len(asc) \in Nat
      BY <1>4, <2>4, <2>7, <3>2
    <3>4. CASE Len(asc) = LineWidth
      <4>1. Len(hex) - Len(asc) \in 0..(DwordSize - 1)
        BY <1>5, <3>3
      <4>2. Shows(TRUE, g_SwapBytes, row)
        BY <1>4, <3>2, <4>1, RowOfDwords
      <4>3. rows' = Append(rows, row) /\ lpa' = <<>> /\ lph' = <<>> /\ dword' = <<>>
        BY <1>1, <2>6, <2>7, <3>4
      <4>4. Shows(g_DoAsDWORDS, g_SwapBytes, row)
        BY <2>1, <4>2
      <4> HIDE DEF row
      <4>5. HexShowsAscii'
        BY <1>1, <1>2, <4>3, <4>4, NewHexRow DEF HexInv
      <4>6. ColumnInv'
        <5>1. \A j \in 1..Len(<<>>) : FALSE
          OBVIOUS
        <5> QED
          BY <2>6, <4>3, <5>1, EmptyColumns DEF ColumnInv
      <4> QED
        BY <1>3, <4>5, <4>6 DEF HexInv
    <3>5. CASE Len(asc) # LineWidth
      <4>1. lpa' = asc /\ lph' = hex /\ rows' = rows /\ dword' = <<>>
        BY <1>1, <2>6, <2>7, <3>5
      <4>2. HexShowsAscii'
        BY <1>1, <4>1, ShowsIs DEF HexInv
      <4>3. Len(<<>>) = 0 /\ Len(asc) = Len(hex) + 0 /\ 0 < DwordSize
        BY <1>5, <3>3
      <4>4. \A j \in 1..Len(<<>>) : FALSE
        OBVIOUS
      <4>5. ColumnInv'
        BY <1>1, <2>6, <3>2, <4>1, <4>3, <4>4 DEF ColumnInv
      <4> QED
        BY <1>3, <4>2, <4>5 DEF HexInv
    <3> QED
      BY <3>4, <3>5
  <2>8. CASE ~fl
    <3>1. Len(dw) < DwordSize /\ Len(dw) \in 1..DwordSize
      BY <1>4, <1>5, <2>1, <2>8
    <3>2. Len(asc) # LineWidth
      <4>1. PICK k \in Nat : Len(lph) = k * DwordSize
        BY <2>1 DEF Dwords
      <4>2. PICK m \in Nat : LineWidth = m * DwordSize
        BY LineWidthAssumption, Multiple
      <4>3. SUFFICES ASSUME Len(asc) = LineWidth PROVE FALSE
        OBVIOUS
      <4>4. k * DwordSize + Len(dw) = m * DwordSize
        BY <2>4, <4>1, <4>2, <4>3
      <4>5. Len(dw) = DwordSize
        BY <1>5, <3>1, <4>4, WholeDword
      <4> QED
        BY <1>4, <3>1, <4>5
    <3>3. lpa' = asc /\ lph' = lph /\ rows' = rows /\ dword' = dw
      BY <1>1, <2>5, <2>6, <2>8, <3>2
    <3>4. HexShowsAscii'
      BY <1>1, <3>3, ShowsIs DEF HexInv
    <3>5. ColumnInv'
      BY <1>1, <2>2, <2>3, <2>4, <2>6, <3>1, <3>3 DEF ColumnInv
    <3> QED
      BY <1>3, <3>4, <3>5 DEF HexInv
  <2> QED
    BY <2>7, <2>8
<1> QED
  BY <1>2, <1>6, <1>7

\* The zeros that complete a DWORD.
LEMMA FillIs ==
  ASSUME NEW n \in 0..DwordSize
  PROVE  /\ [i \in 1..n |-> Pad] \in Seq(Nat \cup {Pad})
         /\ Len([i \in 1..n |-> Pad]) = n
         /\ \A i \in 1..n : [j \in 1..n |-> Pad][i] = Pad
<1>1. n \in Nat
  BY LineWidthAssumption
<1> QED
  BY <1>1

\* The short row at the end of a call, whose last DWORD is filled up.
LEMMA RemainingHex ==
  ASSUME IInv, HexInv, Remaining
  PROVE  HexInv'
<1>1. /\ pc = "byte" /\ pc' # "byte" /\ OutputHex' = OutputHex
      /\ g_DoAsDWORDS' = g_DoAsDWORDS /\ g_SwapBytes' = g_SwapBytes
      /\ UNCHANGED input
  BY DEF Remaining, input, walk
<1>2. PtrInv' /\ ColumnInv'
  BY <1>1 DEF HexInv, PtrInv, ColumnInv
<1>3. /\ rows \in Seq(Row) /\ g_SwapBytes \in BOOLEAN /\ g_DoAsDWORDS \in BOOLEAN
      /\ lpa \in Seq(Nat) /\ lph \in Seq(Nat) /\ dword \in Seq(Nat)
      /\ OutputHex \in {"BYTE", "DWORD"}
  BY DEF IInv, TypeOK
<1>4. CASE lpa = <<>>
  <2>1. rows' = rows
    BY <1>4 DEF Remaining
  <2> QED
    BY <1>1, <1>2, <2>1, ShowsIs DEF HexInv
<1>5. CASE lpa # <<>>
  <2> DEFINE n    == DwordSize - Len(dword)
             fill == [i \in 1..n |-> Pad]
             dw   == dword \o fill
             hex  == IF dword = <<>> THEN lph ELSE lph \o ShowDword(dw)
             row  == [off |-> foff + Len(lpa), hex |-> hex, asc |-> lpa]
  <2>1. rows' = Append(rows, row)
    BY <1>5 DEF Remaining
  <2>2. SUFFICES Shows(g_DoAsDWORDS, g_SwapBytes, row)
    <3> HIDE DEF row
    <3> QED
      BY <1>1, <1>2, <1>3, <2>1, NewHexRow DEF HexInv
  <2>3. CASE OutputHex = "BYTE"
    <3>1. hex = lpa
      BY <1>1, <2>3 DEF HexInv, ColumnInv
    <3> QED
      BY <3>1 DEF Shows
  <2>4. CASE OutputHex = "DWORD"
    <3>1. /\ g_DoAsDWORDS = TRUE
          /\ Len(lpa) = Len(lph) + Len(dword) /\ Len(dword) < DwordSize
          /\ Dwords(g_SwapBytes, lph, lpa)
          /\ \A j \in 1..Len(dword) : dword[j] = lpa[Len(lph) + j]
      BY <1>1, <1>3, <2>4 DEF HexInv, PtrInv, ColumnInv
    <3>2. DwordSize \in Nat \ {0}
      BY LineWidthAssumption
    <3>3. PICK a \in Nat, h \in Nat, l \in Nat : a = Len(lpa) /\ h = Len(lph) /\ l = Len(dword)
      BY <1>3
    <3> DEFINE S == Nat \cup {Pad}
    <3>4. lpa \in Seq(S) /\ lph \in Seq(S) /\ dword \in Seq(S)
      <4>1. Nat \subseteq S
        OBVIOUS
      <4> HIDE DEF S
      <4> QED
        BY <1>3, <4>1
    <3>5. CASE dword = <<>>
      <4>1. hex = lph /\ l = 0
        BY <3>3, <3>5
      <4>2. Len(lph) - Len(lpa) \in 0..(DwordSize - 1)
        BY <3>1, <3>2, <3>3, <4>1
      <4> HIDE DEF hex
      <4> QED
        BY <1>3, <3>1, <4>1, <4>2, RowOfDwords
    <3>6. CASE dword # <<>>
      <4>1. l \in 1..(DwordSize - 1) /\ n = DwordSize - l /\ n \in 0..DwordSize
        <5>1. l # 0
          BY <1>3, <3>3, <3>6
        <5> QED
          BY <3>1, <3>2, <3>3, <5>1
      <4>2. /\ fill \in Seq(S) /\ Len(fill) = n
            /\ \A i \in 1..n : fill[i] = Pad
        BY <4>1, FillIs
      <4> HIDE DEF n, fill, S
      <4>3. /\ dw \in Seq(S) /\ Len(dw) = DwordSize
            /\ \A i \in 1..DwordSize : dw[i] = IF i <= l THEN dword[i] ELSE fill[i - l]
        <5>1. /\ dw \in Seq(S) /\ Len(dw) = Len(dword) + Len(fill)
              /\ \A i \in 1..(Len(dword) + Len(fill)) :
                   dw[i] = IF i <= Len(dword) THEN dword[i] ELSE fill[i - Len(dword)]
          BY <3>4, <4>2, ConcatProperties
        <5> HIDE DEF dw
        <5>2. Len(dword) + Len(fill) = DwordSize
          BY <3>2, <3>3, <4>1, <4>2
        <5> QED
          BY <3>3, <5>1, <5>2
      <4> HIDE DEF dw
      <4>4. \A j \in 1..DwordSize :
              dw[j] = IF Len(lph) + j <= Len(lpa) THEN lpa[Len(lph) + j] ELSE Pad
        <5> TAKE j \in 1..DwordSize
        <5>1. CASE j <= l
          <6>1. j \in 1..Len(dword) /\ Len(lph) + j <= Len(lpa)
            BY <3>1, <3>3, <5>1
          <6> QED
            BY <3>1, <4>3, <5>1, <6>1
        <5>2. CASE ~(j <= l)
          <6>1. j - l \in 1..n /\ ~(Len(lph) + j <= Len(lpa))
            BY <3>1, <3>2, <3>3, <4>1, <5>2
          <6> QED
            BY <4>2, <4>3, <5>2, <6>1
        <5> QED
          BY <5>1, <5>2
      <4>5. Len(lph) <= Len(lpa)
        BY <3>1, <3>3
      <4>6. /\ Dwords(g_SwapBytes, lph \o ShowDword(dw), lpa)
            /\ Len(lph \o ShowDword(dw)) = Len(lph) + DwordSize
            /\ lph \o ShowDword(dw) \in Seq(S)
        BY <1>3, <3>1, <3>4, <4>3, <4>4, <4>5, DwordAdded
      <4>7. hex = lph \o ShowDword(dw)
        BY <3>6
      <4> HIDE DEF hex
      <4>8. Len(hex) - Len(lpa) \in 0..(DwordSize - 1)
        BY <3>1, <3>2, <3>3, <4>1, <4>6, <4>7
      <4>9. Shows(TRUE, g_SwapBytes, row)
        BY <3>4, <4>6, <4>7, <4>8, RowOfDwords
      <4> QED
        BY <3>1, <4>9
    <3> QED
      BY <3>5, <3>6
  <2> QED
    BY <1>3, <2>3, <2>4
<1> QED
  BY <1>4, <1>5

\* A call begins with empty columns.
LEMMA CallHex ==
  ASSUME HexInv, NEW ptr, NEW from, NEW to, Call(ptr, from, to),
         ptr = "DWORD" => g_DoAsDWORDS, UNCHANGED <<input, rows>>
  PROVE  HexInv'
<1>1. /\ OutputHex' = ptr /\ lpa' = <<>> /\ lph' = <<>> /\ dword' = <<>>
      /\ g_DoAsDWORDS' = g_DoAsDWORDS /\ g_SwapBytes' = g_SwapBytes
      /\ rows' = rows
  BY DEF Call, input
<1>2. PtrInv' /\ HexShowsAscii'
  BY <1>1, ShowsIs DEF HexInv, PtrInv
<1>3. \A j \in 1..Len(<<>>) : FALSE
  OBVIOUS
<1>4. ColumnInv'
  BY <1>1, <1>3, EmptyColumns DEF ColumnInv
<1> QED
  BY <1>2, <1>4 DEF HexInv

\* A step that touches neither the columns nor the rows.
LEMMA OtherHex ==
  ASSUME HexInv, UNCHANGED <<input, OutputHex, rows>>, pc' # "byte"
  PROVE  HexInv'
<1>1. /\ g_DoAsDWORDS' = g_DoAsDWORDS /\ g_SwapBytes' = g_SwapBytes
      /\ rows' = rows /\ OutputHex' = OutputHex
  BY DEF input
<1> QED
  BY <1>1, ShowsIs DEF HexInv, PtrInv, ColumnInv

\* Every step.
LEMMA StepHex == IInv /\ HexInv /\ [Next]_vars => HexInv'
<1> SUFFICES ASSUME IInv, HexInv, [Next]_vars PROVE HexInv'
  OBVIOUS
<1>1. CASE ShowWhole
  <2>1. Call(DwordPtr, gdwBgnOff, dwEnd) /\ UNCHANGED <<input, rows>>
    BY <1>1 DEF ShowWhole
  <2>2. DwordPtr = "DWORD" => g_DoAsDWORDS
    BY DEF DwordPtr
  <2> QED
    BY <2>1, <2>2, CallHex
<1>2. CASE NextEntry
  BY <1>2, OtherHex DEF NextEntry
<1>3. CASE ShowBlock
  <2>1. PICK to : Call(OutputHex, dwb, to) /\ UNCHANGED <<input, rows>>
    BY <1>3 DEF ShowBlock
  <2>2. OutputHex = "DWORD" => g_DoAsDWORDS
    BY DEF HexInv, PtrInv
  <2> QED
    BY <2>1, <2>2, CallHex
<1>4. CASE ShowTail
  <2>1. CASE dwb < dwEnd
    <3>1. Call("BYTE", dwb, dwEnd) /\ UNCHANGED <<input, rows>>
      BY <1>4, <2>1 DEF ShowTail
    <3> QED
      BY <3>1, CallHex
  <2>2. CASE ~(dwb < dwEnd)
    BY <1>4, <2>2, OtherHex DEF ShowTail
  <2> QED
    BY <2>1, <2>2
<1>5. CASE OutputByteOrDword
  BY <1>5, ByteHex
<1>6. CASE Remaining
  BY <1>6, RemainingHex
<1>7. CASE UNCHANGED vars
  <2>1. /\ g_DoAsDWORDS' = g_DoAsDWORDS /\ g_SwapBytes' = g_SwapBytes
        /\ rows' = rows /\ OutputHex' = OutputHex /\ pc' = pc
        /\ lpa' = lpa /\ lph' = lph /\ dword' = dword
    BY <1>7 DEF vars, input, walk, line
  <2> QED
    BY <2>1, ShowsIs DEF HexInv, PtrInv, ColumnInv
<1> QED
  BY <1>1, <1>2, <1>3, <1>4, <1>5, <1>6, <1>7 DEF Next, Step, Done

\* Every row of any dump shows in its hex column the bytes of its ASCII column,
\* one by one or as the DWORDs -dw and -dws ask for, the last one filled up.
THEOREM HexIsAscii == Spec => []HexShowsAscii
<1>1. Init => HexInv
  <2> SUFFICES ASSUME Init PROVE HexInv
    OBVIOUS
  <2>1. rows = <<>> /\ pc = "start" /\ OutputHex = DwordPtr
    BY DEF Init
  <2> QED
    BY <2>1 DEF HexInv, PtrInv, ColumnInv, HexShowsAscii, DwordPtr
<1>2. HexInv => HexShowsAscii
  BY DEF HexInv
<1> QED
  BY <1>1, <1>2, Inductive, StepHex, PTL DEF Spec

-------------------------------------------------------------------------------
(* The bytes shown so far *)

\* A function that is given at 0 and grows from each number to the next, by the
\* bytes of a row or by a block and its repeats.
Grown(kind, s, x, n) ==
  IF kind = "bytes" THEN x \o s[n].asc ELSE x + s[n].cnt * s[n].num
Body(kind, s, from, f, n) == IF n = 0 THEN from ELSE Grown(kind, s, f[n - 1], n)

\* The body of the recursive function in BytesOf, and the function.
BytesBody(s, f, n) == IF n = 0 THEN <<>> ELSE f[n - 1] \o s[n].asc
Upto(s) == CHOOSE f : f = [n \in 0..Len(s) |-> BytesBody(s, f, n)]

\* Every set of numbers that is not empty has a least one.
LEMMA LeastNumber ==
  ASSUME NEW T \in SUBSET Nat, T # {}
  PROVE  \E n \in T : \A m \in T : n <= m
<1> DEFINE R == OpToRel(<, Nat)
<1>1. IsWellFoundedOn(R, Nat)
  BY NatLessThanWellFounded
<1>2. \A m, n \in Nat : m < n => <<m, n>> \in R
  BY DEF OpToRel
<1> HIDE DEF R
<1>3. PICK n \in T : \A m \in T : <<m, n>> \notin R
  BY <1>1, WFMin
<1>4. ASSUME NEW m \in T PROVE n <= m
  <2>1. m \in Nat /\ n \in Nat /\ ~(m < n)
    BY <1>2, <1>3
  <2> QED
    BY <2>1
<1> QED
  BY <1>4

\* What holds of 0 and of the number after each that it holds of holds of all:
\* stated of the set of numbers that it does not hold of.
LEMMA NoneLeft ==
  ASSUME NEW T \in SUBSET Nat, 0 \notin T,
         \A k \in Nat : k \notin T => k + 1 \notin T
  PROVE  T = {}
<1>1. SUFFICES ASSUME T # {} PROVE FALSE
  OBVIOUS
<1>2. PICK k \in T : \A m \in T : k <= m
  BY <1>1, LeastNumber
<1>3. PICK m \in Nat : k = m + 1
  <2>1. k \in Nat /\ k # 0
    BY <1>2
  <2>2. k - 1 \in Nat /\ k = (k - 1) + 1
    BY <2>1
  <2> QED
    BY <2>2
<1>4. m \notin T
  BY <1>2, <1>3
<1> QED
  BY <1>2, <1>3, <1>4

\* There is such a function.
LEMMA FunctionGrows ==
  ASSUME NEW kind, NEW s, NEW from, NEW len \in Nat
  PROVE  \E f : f = [n \in 0..len |-> Body(kind, s, from, f, n)]
<1> DEFINE Right(k, f) == /\ f = [n \in 0..len |-> f[n]]
                          /\ \A n \in 0..len : n <= k => f[n] = Body(kind, s, from, f, n)
           T == {k \in Nat : ~\E f : Right(k, f)}
<1>1. 0 \notin T
  <2> DEFINE f == [n \in 0..len |-> from]
  <2>1. f = [n \in 0..len |-> f[n]]
    OBVIOUS
  <2>2. \A n \in 0..len : n <= 0 => f[n] = Body(kind, s, from, f, n)
    BY DEF Body
  <2> HIDE DEF f
  <2> QED
    BY <2>1, <2>2
<1>2. ASSUME NEW k \in Nat, k \notin T PROVE k + 1 \notin T
  <2>1. PICK f : Right(k, f)
    BY <1>2
  <2> DEFINE g == [n \in 0..len |->
                     IF n = k + 1 THEN Body(kind, s, from, f, k + 1) ELSE f[n]]
  <2>2. g = [n \in 0..len |-> g[n]]
    OBVIOUS
  <2>3. \A n \in 0..len :
          g[n] = IF n = k + 1 THEN Body(kind, s, from, f, k + 1) ELSE f[n]
    OBVIOUS
  <2> HIDE DEF g
  <2>4. ASSUME NEW n \in 0..len, n <= k + 1
        PROVE  Body(kind, s, from, g, n) = Body(kind, s, from, f, n)
    <3>1. CASE n = 0
      BY <3>1 DEF Body
    <3>2. CASE n # 0
      <4>1. n - 1 \in 0..len /\ n - 1 # k + 1
        BY <2>4, <3>2
      <4>2. g[n - 1] = f[n - 1]
        BY <2>3, <4>1
      <4> QED
        BY <4>2 DEF Body
    <3> QED
      BY <3>1, <3>2
  <2>5. ASSUME NEW n \in 0..len, n <= k + 1 PROVE g[n] = Body(kind, s, from, g, n)
    <3>1. CASE n = k + 1
      BY <2>3, <2>4, <3>1
    <3>2. CASE n # k + 1
      <4>1. n <= k
        BY <2>5, <3>2
      <4>2. g[n] = f[n] /\ f[n] = Body(kind, s, from, f, n)
        BY <2>1, <2>3, <3>2, <4>1
      <4> QED
        BY <2>4, <2>5, <4>2
    <3> QED
      BY <3>1, <3>2
  <2>6. Right(k + 1, g)
    BY <2>2, <2>5
  <2>7. k + 1 \in Nat
    OBVIOUS
  <2> QED
    BY <2>6, <2>7
<1>3. T = {}
  <2>1. T \in SUBSET Nat
    OBVIOUS
  <2> HIDE DEF T
  <2> QED
    BY <1>1, <1>2, <2>1, NoneLeft
<1>4. PICK f : Right(len, f)
  BY <1>3
<1>5. \A n \in 0..len : f[n] = Body(kind, s, from, f, n)
  BY <1>4
<1>6. f = [n \in 0..len |-> Body(kind, s, from, f, n)]
  BY <1>4, <1>5
<1> QED
  BY <1>6

\* BytesOf is its value at the last row, and it obeys its equation.
LEMMA BytesOfIs ==
  ASSUME NEW s, Len(s) \in Nat
  PROVE  /\ BytesOf(s) = Upto(s)[Len(s)]
         /\ \A n \in 0..Len(s) : Upto(s)[n] = BytesBody(s, Upto(s), n)
<1>1. BytesOf(s) = Upto(s)[Len(s)]
  BY DEF BytesOf, Upto, BytesBody
<1>2. Upto(s) = [n \in 0..Len(s) |-> BytesBody(s, Upto(s), n)]
  <2>1. PICK f : f = [n \in 0..Len(s) |-> Body("bytes", s, <<>>, f, n)]
    <3>1. PICK len \in Nat : len = Len(s)
      OBVIOUS
    <3>2. PICK none : none = <<>>
      OBVIOUS
    <3>3. \E f : f = [n \in 0..len |-> Body("bytes", s, none, f, n)]
      BY FunctionGrows
    <3> QED
      BY <3>1, <3>2, <3>3, Zenon
  <2>2. \A n \in 0..Len(s) : Body("bytes", s, <<>>, f, n) = BytesBody(s, f, n)
    BY DEF Body, Grown, BytesBody
  <2>3. f = [n \in 0..Len(s) |-> BytesBody(s, f, n)]
    BY <2>1, <2>2
  <2> QED
    BY <2>3 DEF Upto
<1>3. ASSUME NEW n \in 0..Len(s) PROVE Upto(s)[n] = BytesBody(s, Upto(s), n)
  BY <1>2, Zenon
<1> QED
  BY <1>1, <1>3

\* A row more adds its bytes.
LEMMA BytesGrow ==
  ASSUME NEW s \in Seq(Row), NEW r
  PROVE  BytesOf(Append(s, r)) = BytesOf(s) \o r.asc
<1>1. PICK len \in Nat : len = Len(s)
  OBVIOUS
<1>2. PICK t : t = Append(s, r)
  OBVIOUS
<1>3. /\ Len(t) = len + 1 /\ t[len + 1] = r
      /\ \A n \in 1..len : t[n] = s[n]
  BY <1>1, <1>2
<1>4. /\ \A n \in 0..len : Upto(s)[n] = BytesBody(s, Upto(s), n)
      /\ \A n \in 0..(len + 1) : Upto(t)[n] = BytesBody(t, Upto(t), n)
      /\ BytesOf(s) = Upto(s)[len] /\ BytesOf(t) = Upto(t)[len + 1]
  BY <1>1, <1>3, BytesOfIs
<1> DEFINE T == {n \in Nat : n <= len /\ Upto(t)[n] # Upto(s)[n]}
<1>5. 0 \notin T
  <2>1. 0 \in 0..len /\ 0 \in 0..(len + 1)
    OBVIOUS
  <2>2. Upto(t)[0] = <<>> /\ Upto(s)[0] = <<>>
    BY <1>4, <2>1 DEF BytesBody
  <2> QED
    BY <2>2
<1>6. ASSUME NEW k \in Nat, k \notin T PROVE k + 1 \notin T
  <2>1. CASE k + 1 > len
    BY <2>1
  <2>2. CASE k + 1 <= len
    <3>1. /\ k + 1 \in 0..len /\ k + 1 \in 0..(len + 1) /\ k + 1 \in 1..len
          /\ k <= len /\ k + 1 # 0 /\ (k + 1) - 1 = k
      BY <2>2
    <3>2. Upto(t)[k] = Upto(s)[k]
      BY <1>6, <3>1
    <3>3. /\ Upto(t)[k + 1] = Upto(t)[k] \o t[k + 1].asc
          /\ Upto(s)[k + 1] = Upto(s)[k] \o s[k + 1].asc
      BY <1>4, <3>1 DEF BytesBody
    <3> QED
      BY <1>3, <3>1, <3>2, <3>3
  <2> QED
    BY <2>1, <2>2
<1>7. T = {}
  <2>1. T \in SUBSET Nat
    OBVIOUS
  <2> HIDE DEF T
  <2> QED
    BY <1>5, <1>6, <2>1, NoneLeft
<1>8. Upto(t)[len] = Upto(s)[len]
  BY <1>7
<1>9. Upto(t)[len + 1] = Upto(t)[len] \o r.asc
  <2>1. len + 1 \in 0..(len + 1) /\ len + 1 # 0 /\ (len + 1) - 1 = len
    OBVIOUS
  <2> QED
    BY <1>3, <1>4, <2>1 DEF BytesBody
<1> QED
  BY <1>2, <1>4, <1>8, <1>9

\* No row, no byte.
LEMMA NoBytes == BytesOf(<<>>) = <<>>
<1>1. Len(<<>>) = 0 /\ 0 \in 0..0
  OBVIOUS
<1> QED
  BY <1>1, BytesOfIs DEF BytesBody


-------------------------------------------------------------------------------
(* The refinement of ByteCover *)

\* No block size makes the cursor wrap: the DWORD sum of a position of the file
\* and a size is their sum. BSwitch is about the sizes that do.
NoWrap == \A list \in BlockLists : \A i \in DOMAIN list : MaxRd + list[i].num < Modulus

\* The position after the last byte shown, and whether there is any to show.
Reached == gdwBgnOff + Len(BytesOf(rows))
Within == gdwBgnOff < dwEnd

\* Between calls the cursor stands where the rows end; in a call the next byte
\* is the one after the row that is being filled, and a call never goes beyond
\* its block. With -B behind the end nothing is shown, though the cursor may
\* move back.
CursorInv ==
  /\ ~Within => rows = <<>>
  /\ pc = "start" => rows = <<>> /\ dwb = gdwBgnOff
  /\ pc = "blocks" => IF Within THEN dwb = Reached /\ dwb <= dwEnd ELSE dwb >= dwEnd
  /\ pc = "byte" =>
       IF Within
       THEN /\ ir = Reached + Len(lpa) /\ ir <= dwe /\ dwe <= dwEnd
            /\ dwe = IF g_pHexBlock = <<>> THEN dwEnd ELSE dwb
       ELSE lpa = <<>> /\ ir >= dwe /\ (g_pHexBlock # <<>> => dwb >= dwEnd)

CoverInv == NoWrap /\ BytesOf(rows) \in Seq(Nat) /\ dwb \in 0..MaxRd /\ CursorInv

\* Where the dump ends is a position of the file.
LEMMA EndIs ==
  ASSUME TypeOK
  PROVE  /\ dwEnd = IF gdwEndOff \in 1..rd THEN gdwEndOff ELSE rd
         /\ dwEnd \in 0..MaxRd
<1>1. gdwEndOff \in 0..MaxRd /\ rd \in 0..MaxRd /\ MaxRd \in Nat
  BY SizeAssumption DEF TypeOK
<1> QED
  BY <1>1 DEF dwEnd, Lesser

\* The input stays, and with it where the dump begins and ends.
LEMMA InputStays ==
  ASSUME UNCHANGED input
  PROVE  /\ dwEnd' = dwEnd /\ Within' = Within /\ gdwBgnOff' = gdwBgnOff
         /\ g_pHexBlock' = g_pHexBlock /\ gdwEndOff' = gdwEndOff /\ rd' = rd
BY DEF input, dwEnd, Within

\* A block ends behind the cursor, or where the file does.
LEMMA BlockEndIs ==
  ASSUME TypeOK, NoWrap, dwi \in 1..Len(g_pHexBlock), dwb \in 0..MaxRd
  PROVE  /\ BlockEnd(g_pHexBlock[dwi].num) \in 0..dwEnd
         /\ dwb <= dwEnd => dwb <= BlockEnd(g_pHexBlock[dwi].num)
         /\ dwb >= dwEnd => BlockEnd(g_pHexBlock[dwi].num) = dwEnd
         /\ BlockEnd(g_pHexBlock[dwi].num) = IF dwb + g_pHexBlock[dwi].num < dwEnd
                                            THEN dwb + g_pHexBlock[dwi].num ELSE dwEnd
<1>1. PICK num \in Nat : num = g_pHexBlock[dwi].num
  BY BlockType
<1>2. MaxRd + num < Modulus
  <2>1. g_pHexBlock # <<>>
    OBVIOUS
  <2>2. g_pHexBlock \in BlockLists
    BY <2>1 DEF TypeOK
  <2>3. g_pHexBlock \in Seq([num : 1..(Modulus - 1), cnt : 1..(Modulus - 1)])
    BY <2>2, BlockAssumption
  <2> DEFINE B == [num : 1..(Modulus - 1), cnt : 1..(Modulus - 1)]
  <2>4. dwi \in DOMAIN g_pHexBlock
    <3> HIDE DEF B
    <3> QED
      BY <2>3
  <2> QED
    BY <1>1, <2>2, <2>4 DEF NoWrap
<1>3. dwb \in Nat /\ MaxRd \in Nat /\ Modulus \in Nat /\ dwEnd \in 0..MaxRd
  BY SizeAssumption, EndIs DEF TypeOK
<1>4. (dwb + num) % Modulus = dwb + num
  <2>1. dwb + num \in 0..(Modulus - 1)
    BY <1>2, <1>3
  <2> QED
    BY <1>3, <2>1
<1>5. BlockEnd(num) = IF dwb + num < dwEnd THEN dwb + num ELSE dwEnd
  BY <1>4 DEF BlockEnd, Lesser
<1>6. /\ BlockEnd(num) \in 0..dwEnd
      /\ dwb <= dwEnd => dwb <= BlockEnd(num)
      /\ dwb >= dwEnd => BlockEnd(num) = dwEnd
  BY <1>3, <1>5
<1> QED
  BY <1>1, <1>5, <1>6

\* A row that begins where the rows end is a Show of ByteCover.
LEMMA RowShown ==
  ASSUME IInv, CoverInv, pc = "byte", UNCHANGED input,
         NEW r, NEW len \in 1..LineWidth,
         r.asc \in Seq(Nat), Len(r.asc) = len,
         \A j \in 1..len : r.asc[j] = Reached + j - 1,
         Reached + len <= dwEnd, rows' = Append(rows, r),
         pc' = "byte" \/ pc' = "blocks" \/ (pc' = "done" /\ Reached + len = dwEnd)
  PROVE  /\ Cover!Show
         /\ Reached' = Reached + len /\ BytesOf(rows)' \in Seq(Nat)
<1>1. /\ gdwBgnOff \in Nat /\ rows \in Seq(Row) /\ BytesOf(rows) \in Seq(Nat)
      /\ LineWidth \in Nat
  BY LineWidthAssumption DEF IInv, TypeOK, CoverInv
<1>2. BytesOf(rows') = BytesOf(rows) \o r.asc
  BY <1>1, BytesGrow
<1>3. /\ BytesOf(rows') \in Seq(Nat)
      /\ Len(BytesOf(rows')) = Len(BytesOf(rows)) + len
  <2>1. PICK b \in Seq(Nat), a \in Seq(Nat) : b = BytesOf(rows) /\ a = r.asc
    BY <1>1
  <2>2. b \o a \in Seq(Nat) /\ Len(b \o a) = Len(b) + Len(a)
    BY ConcatProperties
  <2> QED
    BY <1>2, <2>1, <2>2
<1>4. Reached \in Nat /\ Reached = Cover!next
  BY <1>1 DEF Reached, Cover!next
<1>5. Reached' = Reached + len
  BY <1>1, <1>3, InputStays DEF Reached
<1>6. r.asc = [j \in 1..len |-> Cover!next + j - 1]
  BY <1>4
<1>7. dwEnd = IF gdwEndOff \in 1..rd THEN gdwEndOff ELSE rd
  BY EndIs DEF IInv
<1>8. /\ gdwBgnOff' = gdwBgnOff
      /\ (IF gdwEndOff \in 1..rd THEN gdwEndOff ELSE rd)'
           = (IF gdwEndOff \in 1..rd THEN gdwEndOff ELSE rd)
  BY InputStays
<1>9. (pc' = "done") \in {FALSE, Cover!next + len = dwEnd}
  <2>1. CASE pc' = "done"
    <3>1. Cover!next + len = dwEnd
      BY <1>4, <2>1
    <3> QED
      BY <2>1, <3>1
  <2>2. CASE pc' # "done"
    BY <2>2
  <2> QED
    BY <2>1, <2>2
<1>10. Cover!next + len <= dwEnd
  BY <1>4
<1>11. ~(pc = "done")
  OBVIOUS
<1>12. Cover!Show
  BY <1>2, <1>6, <1>7, <1>8, <1>9, <1>10, <1>11 DEF Cover!Show
<1> QED
  BY <1>3, <1>5, <1>12

\* A step that shows nothing and does not end the dump is none of ByteCover's.
LEMMA NothingShown ==
  ASSUME UNCHANGED <<input, rows>>, pc # "done", pc' # "done"
  PROVE  UNCHANGED Cover!vars /\ Reached' = Reached
BY InputStays DEF Cover!vars, Reached

\* The end, when all has been shown, is a Finish of ByteCover.
LEMMA Finished ==
  ASSUME IInv, UNCHANGED <<input, rows>>, pc # "done", pc' = "done", Reached >= dwEnd
  PROVE  Cover!Finish
<1>1. dwEnd = IF gdwEndOff \in 1..rd THEN gdwEndOff ELSE rd
  BY EndIs DEF IInv
<1> QED
  BY <1>1, InputStays DEF Cover!Finish, Cover!next, Reached

\* A byte is the next one, and a full row ends behind it.
LEMMA ByteCovers ==
  ASSUME IInv, CoverInv, OutputByteOrDword
  PROVE  CoverInv' /\ [Cover!Next]_(Cover!vars)
<1> DEFINE asc == Append(lpa, ir)
<1>1. /\ pc = "byte" /\ pc' = "byte" /\ ir < dwe /\ ir' = ir + 1 /\ dwe' = dwe
      /\ dwb' = dwb /\ UNCHANGED input
      /\ \/ /\ Len(asc) = LineWidth /\ lpa' = <<>>
            /\ \E r : r.asc = asc /\ rows' = Append(rows, r)
         \/ Len(asc) # LineWidth /\ lpa' = asc /\ rows' = rows
  <2>1. CASE Len(asc) = LineWidth
    <3>1. PICK hex :
            rows' = Append(rows, [off |-> OffsetOfRow, hex |-> hex, asc |-> asc])
      BY <2>1 DEF OutputByteOrDword
    <3>2. [off |-> OffsetOfRow, hex |-> hex, asc |-> asc].asc = asc
      OBVIOUS
    <3>3. \E r : r.asc = asc /\ rows' = Append(rows, r)
      BY <3>1, <3>2
    <3> HIDE DEF asc
    <3>4. lpa' = <<>>
      BY <2>1 DEF OutputByteOrDword, asc
    <3> QED
      BY <2>1, <3>3, <3>4 DEF OutputByteOrDword, walk
  <2>2. CASE Len(asc) # LineWidth
    BY <2>2 DEF OutputByteOrDword, walk
  <2> QED
    BY <2>1, <2>2
<1>2. /\ ir \in Nat /\ lpa \in Seq(Nat) /\ dwe \in Nat /\ dwEnd \in Nat
      /\ BytesOf(rows) \in Seq(Nat) /\ gdwBgnOff \in Nat
      /\ LineWidth \in Nat \ {0}
  BY LineWidthAssumption, EndType DEF IInv, TypeOK, CoverInv
<1>3. Within /\ ir = Reached + Len(lpa) /\ ir <= dwe /\ dwe <= dwEnd
      /\ dwe = IF g_pHexBlock = <<>> THEN dwEnd ELSE dwb
  <2>1. Within
    <3>1. SUFFICES ASSUME ~Within PROVE FALSE
      OBVIOUS
    <3>2. ir >= dwe
      BY <1>1, <3>1 DEF CoverInv, CursorInv
    <3> QED
      BY <1>1, <1>2, <3>2
  <2> QED
    BY <1>1, <2>1 DEF CoverInv, CursorInv
<1>4. Reached \in Nat /\ Len(lpa) \in Nat
  BY <1>2 DEF Reached
<1>5. /\ asc \in Seq(Nat) /\ Len(asc) = Len(lpa) + 1 /\ asc[Len(lpa) + 1] = ir
      /\ \A j \in 1..Len(lpa) : asc[j] = lpa[j]
  BY <1>2
<1>6. /\ Len(lpa) < LineWidth
      /\ \A j \in 1..Len(lpa) : lpa[j] = Reached + j - 1
  <2>1. /\ Len(lpa) = iaw /\ foff + iaw = ir /\ iaw \in 0..(LineWidth - 1)
        /\ foff \in Nat
        /\ \A j \in 1..Len(lpa) : lpa[j] = foff + j - 1
    BY <1>1 DEF IInv, LineInv, TypeOK
  <2>2. foff = Reached
    BY <1>2, <1>3, <1>4, <2>1
  <2> QED
    BY <1>2, <2>1, <2>2
<1> HIDE DEF asc
<1>7. \A j \in 1..Len(asc) : asc[j] = Reached + j - 1
  <2> TAKE j \in 1..Len(asc)
  <2>1. CASE j <= Len(lpa)
    <3>1. j \in 1..Len(lpa)
      BY <1>4, <2>1
    <3> QED
      BY <1>5, <1>6, <3>1
  <2>2. CASE j = Len(lpa) + 1
    <3>1. Reached + j - 1 = ir
      BY <1>3, <1>4, <2>2
    <3> QED
      BY <1>5, <2>2, <3>1
  <2>3. j <= Len(lpa) \/ j = Len(lpa) + 1
    BY <1>4, <1>5
  <2> QED
    BY <2>1, <2>2, <2>3
<1>8. ir + 1 = Reached + Len(asc) /\ ir + 1 <= dwe /\ Reached + Len(asc) <= dwEnd
  BY <1>1, <1>2, <1>3, <1>4, <1>5
<1>9. NoWrap
  BY DEF CoverInv
<1>10. /\ Within' = Within /\ dwEnd' = dwEnd /\ g_pHexBlock' = g_pHexBlock
  BY <1>1, InputStays
<1>11. CASE Len(asc) = LineWidth
  <2>1. PICK r : r.asc = asc /\ rows' = Append(rows, r)
    BY <1>1, <1>11
  <2>2. lpa' = <<>> /\ Len(<<>>) = 0
    BY <1>1, <1>11
  <2>3. LineWidth \in 1..LineWidth /\ Reached + LineWidth <= dwEnd
    BY <1>2, <1>8, <1>11
  <2>4. \A j \in 1..LineWidth : r.asc[j] = Reached + j - 1
    BY <1>7, <1>11, <2>1
  <2>5. /\ Cover!Show
        /\ Reached' = Reached + LineWidth /\ BytesOf(rows)' \in Seq(Nat)
    BY <1>1, <1>5, <1>11, <2>1, <2>3, <2>4, RowShown
  <2>6. ir' = Reached' + Len(lpa') /\ ir' <= dwe'
    BY <1>1, <1>2, <1>4, <1>8, <1>11, <2>2, <2>5
  <2>7. CursorInv'
    BY <1>1, <1>3, <1>10, <2>6 DEF CursorInv
  <2> QED
    BY <1>1, <1>9, <2>5, <2>7 DEF CoverInv, Cover!Next
<1>12. CASE Len(asc) # LineWidth
  <2>1. lpa' = asc /\ rows' = rows
    BY <1>1, <1>12
  <2>2. UNCHANGED Cover!vars /\ Reached' = Reached
    BY <1>1, <2>1, NothingShown
  <2>3. ir' = Reached' + Len(lpa') /\ ir' <= dwe'
    BY <1>1, <1>8, <2>1, <2>2
  <2>4. CursorInv'
    BY <1>1, <1>3, <1>10, <2>3 DEF CursorInv
  <2> QED
    BY <1>1, <1>2, <1>9, <2>1, <2>2, <2>4 DEF CoverInv
<1> QED
  BY <1>11, <1>12

\* The short row that ends a call, if there is one.
LEMMA RemainingCovers ==
  ASSUME IInv, CoverInv, Remaining
  PROVE  CoverInv' /\ [Cover!Next]_(Cover!vars)
<1>1. /\ pc = "byte" /\ ir >= dwe /\ dwb' = dwb /\ UNCHANGED input
      /\ pc' = IF g_pHexBlock = <<>> THEN "done" ELSE "blocks"
      /\ \/ lpa = <<>> /\ rows' = rows
         \/ lpa # <<>> /\ \E r : r.asc = lpa /\ rows' = Append(rows, r)
  <2>1. CASE lpa # <<>>
    <3>1. PICK off, hex : rows' = Append(rows, [off |-> off, hex |-> hex, asc |-> lpa])
      BY <2>1 DEF Remaining
    <3>2. [off |-> off, hex |-> hex, asc |-> lpa].asc = lpa
      OBVIOUS
    <3>3. \E r : r.asc = lpa /\ rows' = Append(rows, r)
      BY <3>1, <3>2
    <3> QED
      BY <2>1, <3>3 DEF Remaining, walk
  <2>2. CASE lpa = <<>>
    BY <2>2 DEF Remaining, walk
  <2> QED
    BY <2>1, <2>2
<1>2. /\ ir \in Nat /\ lpa \in Seq(Nat) /\ dwe \in Nat /\ dwEnd \in Nat
      /\ BytesOf(rows) \in Seq(Nat) /\ gdwBgnOff \in Nat /\ dwb \in Nat
      /\ LineWidth \in Nat \ {0}
  BY LineWidthAssumption, EndType DEF IInv, TypeOK, CoverInv
<1>3. Reached \in Nat /\ Len(lpa) \in Nat
  BY <1>2 DEF Reached
<1>4. NoWrap
  BY DEF CoverInv
<1>5. /\ Within' = Within /\ dwEnd' = dwEnd /\ g_pHexBlock' = g_pHexBlock
  BY <1>1, InputStays
<1>6. CASE Within
  <2>1. /\ ir = Reached + Len(lpa) /\ ir = dwe /\ dwe <= dwEnd
        /\ dwe = IF g_pHexBlock = <<>> THEN dwEnd ELSE dwb
    <3>1. /\ ir = Reached + Len(lpa) /\ ir <= dwe /\ dwe <= dwEnd
          /\ dwe = IF g_pHexBlock = <<>> THEN dwEnd ELSE dwb
      BY <1>1, <1>6 DEF CoverInv, CursorInv
    <3>2. ir = dwe
      BY <1>1, <1>2, <3>1
    <3> QED
      BY <3>1, <3>2
  <2>2. CASE lpa # <<>>
    <3>1. PICK r : r.asc = lpa /\ rows' = Append(rows, r)
      BY <1>1, <2>2
    <3>2. /\ Len(lpa) \in 1..LineWidth
          /\ \A j \in 1..Len(lpa) : r.asc[j] = Reached + j - 1
      <4>1. /\ Len(lpa) = iaw /\ foff + iaw = ir /\ iaw \in 0..(LineWidth - 1)
            /\ foff \in Nat
            /\ \A j \in 1..Len(lpa) : lpa[j] = foff + j - 1
        BY <1>1 DEF IInv, LineInv, TypeOK
      <4>2. foff = Reached
        BY <1>2, <1>3, <2>1, <4>1
      <4>3. Len(lpa) # 0
        BY <1>2, <2>2
      <4>4. Len(lpa) \in 1..LineWidth
        BY <1>2, <1>3, <4>1, <4>3
      <4> QED
        BY <3>1, <4>1, <4>2, <4>4
    <3>3. pc' = "blocks" \/ (pc' = "done" /\ Reached + Len(lpa) = dwEnd)
      BY <1>1, <2>1
    <3>4. Reached + Len(lpa) <= dwEnd
      BY <2>1
    <3>5. /\ Cover!Show
          /\ Reached' = Reached + Len(lpa) /\ BytesOf(rows)' \in Seq(Nat)
      BY <1>1, <1>2, <3>1, <3>2, <3>3, <3>4, RowShown
    <3>6. CursorInv'
      BY <1>1, <1>5, <1>6, <2>1, <3>5 DEF CursorInv
    <3> QED
      BY <1>1, <1>4, <3>5, <3>6 DEF CoverInv, Cover!Next
  <2>3. CASE lpa = <<>>
    <3>1. rows' = rows /\ ir = Reached
      <4>1. Len(lpa) = 0
        BY <2>3
      <4> QED
        BY <1>1, <1>3, <2>1, <2>3, <4>1
    <3>2. Reached' = Reached
      BY <1>1, <3>1, InputStays DEF Reached
    <3>3. CursorInv'
      BY <1>1, <1>5, <1>6, <2>1, <3>1, <3>2 DEF CursorInv
    <3>4. CoverInv'
      BY <1>1, <1>2, <1>4, <3>1, <3>3 DEF CoverInv
    <3>5. CASE g_pHexBlock = <<>>
      <4>1. Reached >= dwEnd
        BY <1>2, <2>1, <3>1, <3>5
      <4>2. Cover!Finish
        BY <1>1, <3>1, <3>5, <4>1, Finished
      <4> QED
        BY <3>4, <4>2 DEF Cover!Next
    <3>6. CASE g_pHexBlock # <<>>
      <4>1. UNCHANGED Cover!vars
        BY <1>1, <3>1, <3>6, NothingShown
      <4> QED
        BY <3>4, <4>1
    <3> QED
      BY <3>5, <3>6
  <2> QED
    BY <2>2, <2>3
<1>7. CASE ~Within
  <2>1. lpa = <<>> /\ rows = <<>> /\ (g_pHexBlock # <<>> => dwb >= dwEnd)
    BY <1>1, <1>7 DEF CoverInv, CursorInv
  <2>2. rows' = rows
    BY <1>1, <2>1
  <2>3. CursorInv'
    BY <1>1, <1>5, <1>7, <2>1, <2>2 DEF CursorInv
  <2>4. CoverInv'
    BY <1>1, <1>2, <1>4, <2>2, <2>3 DEF CoverInv
  <2>5. CASE g_pHexBlock = <<>>
    <3>1. Reached >= dwEnd
      <4>1. Len(BytesOf(rows)) \in Nat /\ gdwBgnOff >= dwEnd
        BY <1>2, <1>7 DEF Within
      <4> QED
        BY <1>2, <4>1 DEF Reached
    <3>2. Cover!Finish
      BY <1>1, <2>2, <2>5, <3>1, Finished
    <3> QED
      BY <2>4, <3>2 DEF Cover!Next
  <2>6. CASE g_pHexBlock # <<>>
    <3>1. UNCHANGED Cover!vars
      BY <1>1, <2>2, <2>6, NothingShown
    <3> QED
      BY <2>4, <3>1
  <2> QED
    BY <2>5, <2>6
<1> QED
  BY <1>6, <1>7

\* A call begins where the cursor stands.
LEMMA CallCovers ==
  ASSUME IInv, CoverInv, pc # "done", UNCHANGED <<input, rows>>,
         NEW ptr, NEW from \in Nat, NEW to \in Nat, Call(ptr, from, to),
         dwb' \in 0..MaxRd,
         Within => /\ from = Reached /\ from <= to /\ to <= dwEnd
                   /\ to = IF g_pHexBlock = <<>> THEN dwEnd ELSE dwb',
         ~Within => /\ rows = <<>> /\ from >= to
                    /\ g_pHexBlock # <<>> => dwb' >= dwEnd
  PROVE  CoverInv' /\ [Cover!Next]_(Cover!vars)
<1>1. pc' = "byte" /\ ir' = from /\ dwe' = to /\ lpa' = <<>> /\ rows' = rows
  BY DEF Call
<1>2. /\ Within' = Within /\ dwEnd' = dwEnd /\ g_pHexBlock' = g_pHexBlock
  BY InputStays
<1>3. UNCHANGED Cover!vars /\ Reached' = Reached
  BY <1>1, NothingShown
<1>4. BytesOf(rows) \in Seq(Nat) /\ Reached \in Nat /\ NoWrap
  BY DEF CoverInv, IInv, TypeOK, Reached
<1>5. Reached = Reached + Len(<<>>)
  BY <1>4
<1>6. CursorInv'
  <2>1. CASE Within
    BY <1>1, <1>2, <1>3, <1>5, <2>1 DEF CursorInv
  <2>2. CASE ~Within
    BY <1>1, <1>2, <2>2 DEF CursorInv
  <2> QED
    BY <2>1, <2>2
<1> QED
  BY <1>1, <1>3, <1>4, <1>6 DEF CoverInv

\* Every step shows the next bytes, ends the dump when all have been shown, or
\* does neither.
LEMMA StepCovers ==
  IInv /\ CoverInv /\ [Next]_vars => CoverInv' /\ [Cover!Next]_(Cover!vars)
<1> SUFFICES ASSUME IInv, CoverInv, [Next]_vars
             PROVE  CoverInv' /\ [Cover!Next]_(Cover!vars)
  OBVIOUS
<1>1. /\ TypeOK /\ NoWrap /\ CursorInv /\ BytesOf(rows) \in Seq(Nat)
      /\ dwb \in 0..MaxRd /\ dwb \in Nat /\ gdwBgnOff \in 0..MaxRd /\ gdwBgnOff \in Nat
      /\ MaxRd \in Nat /\ dwEnd \in 0..MaxRd /\ dwEnd \in Nat
  BY EndIs, SizeAssumption DEF IInv, CoverInv, TypeOK
<1>2. CASE ShowWhole
  <2>1. /\ pc = "start" /\ g_pHexBlock = <<>> /\ dwb' = dwb
        /\ UNCHANGED <<input, rows>> /\ Call(DwordPtr, gdwBgnOff, dwEnd)
    BY <1>2 DEF ShowWhole
  <2>2. rows = <<>> /\ Reached = gdwBgnOff
    <3>1. rows = <<>>
      BY <1>1, <2>1 DEF CursorInv
    <3>2. Len(<<>>) = 0
      OBVIOUS
    <3> QED
      BY <1>1, <3>1, <3>2, NoBytes DEF Reached
  <2>3. Within => gdwBgnOff <= dwEnd
    BY <1>1 DEF Within
  <2>4. ~Within => gdwBgnOff >= dwEnd
    BY <1>1 DEF Within
  <2>5. dwb' \in 0..MaxRd /\ pc # "done" /\ dwEnd <= dwEnd
    BY <1>1, <2>1
  <2> QED
    BY <1>1, <2>1, <2>2, <2>3, <2>4, <2>5, CallCovers
<1>3. CASE NextEntry
  <2>1. /\ pc \in {"start", "blocks"} /\ pc' = "blocks" /\ dwb' = dwb
        /\ UNCHANGED <<input, rows>>
    BY <1>3 DEF NextEntry
  <2>2. UNCHANGED Cover!vars /\ Reached' = Reached /\ Within' = Within /\ dwEnd' = dwEnd
    BY <2>1, NothingShown, InputStays
  <2>3. IF Within THEN dwb = Reached /\ dwb <= dwEnd ELSE dwb >= dwEnd
    <3>1. CASE pc = "start"
      <4>1. rows = <<>> /\ dwb = gdwBgnOff /\ Len(<<>>) = 0
        BY <1>1, <3>1 DEF CursorInv
      <4>2. Reached = gdwBgnOff
        BY <1>1, <4>1, NoBytes DEF Reached
      <4> QED
        BY <1>1, <4>1, <4>2 DEF Within
    <3>2. CASE pc = "blocks"
      BY <1>1, <3>2 DEF CursorInv
    <3> QED
      BY <2>1, <3>1, <3>2
  <2>4. CursorInv'
    BY <1>1, <2>1, <2>2, <2>3 DEF CursorInv
  <2> QED
    BY <1>1, <2>1, <2>2, <2>4 DEF CoverInv
<1>4. CASE ShowBlock
  <2>1. PICK to : to = BlockEnd(g_pHexBlock[dwi].num)
    OBVIOUS
  <2>2. /\ pc = "blocks" /\ Call(OutputHex, dwb, to) /\ dwb' = to /\ dwc > 0
        /\ UNCHANGED <<input, rows>>
    BY <1>4, <2>1 DEF ShowBlock
  <2>3. dwi \in 1..Len(g_pHexBlock)
    BY <2>2 DEF IInv, BlockInv
  <2>4. g_pHexBlock # <<>>
    BY <2>3
  <2>5. /\ to \in 0..dwEnd /\ (dwb <= dwEnd => dwb <= to)
        /\ (dwb >= dwEnd => to = dwEnd)
    BY <1>1, <2>1, <2>3, BlockEndIs
  <2>6. to \in Nat /\ to \in 0..MaxRd /\ to <= dwEnd
    BY <1>1, <2>5
  <2>7. CASE Within
    <3>1. dwb = Reached /\ dwb <= dwEnd
      BY <1>1, <2>2, <2>7 DEF CursorInv
    <3> QED
      BY <1>1, <2>2, <2>4, <2>5, <2>6, <2>7, <3>1, CallCovers
  <2>8. CASE ~Within
    <3>1. dwb >= dwEnd /\ rows = <<>>
      BY <1>1, <2>2, <2>8 DEF CursorInv
    <3>2. to >= dwEnd
      BY <1>1, <2>5, <3>1
    <3> QED
      BY <1>1, <2>2, <2>4, <2>5, <2>6, <2>8, <3>1, <3>2, CallCovers
  <2> QED
    BY <2>7, <2>8
<1>5. CASE ShowTail
  <2>1. pc = "blocks" /\ UNCHANGED <<input, rows>> /\ g_pHexBlock' = g_pHexBlock
    BY <1>5 DEF ShowTail, input
  <2>2. CASE dwb < dwEnd
    <3>1. Call("BYTE", dwb, dwEnd) /\ dwb' = dwEnd
      BY <1>5, <2>2 DEF ShowTail
    <3>2. Within
      <4>1. SUFFICES ASSUME ~Within PROVE FALSE
        OBVIOUS
      <4>2. dwb >= dwEnd
        BY <1>1, <2>1, <4>1 DEF CursorInv
      <4> QED
        BY <1>1, <2>2, <4>2
    <3>3. dwb = Reached /\ dwb <= dwEnd /\ dwEnd <= dwEnd
      BY <1>1, <2>1, <3>2 DEF CursorInv
    <3> QED
      BY <1>1, <2>1, <3>1, <3>2, <3>3, CallCovers
  <2>3. CASE ~(dwb < dwEnd)
    <3>1. pc' = "done" /\ dwb' = dwb
      BY <1>5, <2>3 DEF ShowTail
    <3>2. Reached >= dwEnd
      <4>1. CASE Within
        <5>1. dwb = Reached
          BY <1>1, <2>1, <4>1 DEF CursorInv
        <5> QED
          BY <1>1, <2>3, <5>1
      <4>2. CASE ~Within
        <5>1. Len(BytesOf(rows)) \in Nat /\ gdwBgnOff >= dwEnd
          BY <1>1, <4>2 DEF Within
        <5> QED
          BY <1>1, <5>1 DEF Reached
      <4> QED
        BY <4>1, <4>2
    <3>3. Cover!Finish
      BY <2>1, <3>1, <3>2, Finished
    <3>4. CursorInv'
      <4>1. Within' = Within
        BY <2>1, InputStays
      <4> QED
        BY <1>1, <2>1, <3>1, <4>1 DEF CursorInv
    <3> QED
      BY <1>1, <2>1, <3>1, <3>3, <3>4 DEF CoverInv, Cover!Next
  <2> QED
    BY <2>2, <2>3
<1>6. CASE OutputByteOrDword
  BY <1>6, ByteCovers
<1>7. CASE Remaining
  BY <1>7, RemainingCovers
<1>8. CASE UNCHANGED vars
  <2>1. /\ UNCHANGED <<input, rows>> /\ pc' = pc /\ dwb' = dwb /\ ir' = ir
        /\ dwe' = dwe /\ lpa' = lpa
    BY <1>8 DEF vars, walk, line
  <2>2. /\ Within' = Within /\ dwEnd' = dwEnd /\ g_pHexBlock' = g_pHexBlock
        /\ gdwBgnOff' = gdwBgnOff
        /\ UNCHANGED Cover!vars /\ Reached' = Reached
    BY <2>1, InputStays DEF Cover!vars, Reached
  <2>3. CursorInv'
    BY <1>1, <2>1, <2>2 DEF CursorInv
  <2> QED
    BY <1>1, <2>1, <2>2, <2>3 DEF CoverInv
<1> QED
  BY <1>2, <1>3, <1>4, <1>5, <1>6, <1>7, <1>8 DEF Next, Step, Done

\* The dump of any file by any list of blocks implements ByteCover, as long as
\* no block size makes the cursor wrap: each byte between -B and -E is shown
\* once and in order, and the dump ends only when all of them have been.
THEOREM DumpCovers == NoWrap /\ Spec => CoversFile
<1>1. NoWrap /\ Init => CoverInv /\ Cover!Init
  <2> SUFFICES ASSUME NoWrap, Init PROVE CoverInv /\ Cover!Init
    OBVIOUS
  <2>1. rows = <<>> /\ pc = "start" /\ dwb = gdwBgnOff /\ gdwBgnOff \in 0..MaxRd
    BY DEF Init
  <2>2. BytesOf(rows) = <<>> /\ <<>> \in Seq(Nat)
    BY <2>1, NoBytes
  <2>3. CursorInv
    BY <2>1 DEF CursorInv
  <2>4. gdwBgnOff \in Nat /\ (IF gdwEndOff \in 1..rd THEN gdwEndOff ELSE rd) \in Nat
    <3>1. rd \in 1..MaxRd /\ gdwEndOff \in 0..MaxRd /\ MaxRd \in Nat
      BY SizeAssumption DEF Init
    <3> QED
      BY <2>1, <3>1
  <2>5. ~(pc = "done")
    BY <2>1
  <2> QED
    BY <2>1, <2>2, <2>3, <2>4, <2>5 DEF CoverInv, Cover!Init
<1> QED
  BY <1>1, Inductive, StepCovers, PTL DEF Spec, CoversFile, Cover!Spec

-------------------------------------------------------------------------------
(* Rows and blocks *)

\* The body of the recursive function in EntryEnds.
EndBody(s, from, f, n) == IF n = 0 THEN from ELSE f[n - 1] + s[n].cnt * s[n].num

\* Where entries end obeys its equation.
LEMMA EntryEndsIs ==
  ASSUME NEW s, NEW from, Len(s) \in Nat
  PROVE  \A n \in 0..Len(s) :
           EntryEnds(s, from)[n] = EndBody(s, from, EntryEnds(s, from), n)
<1> DEFINE E == CHOOSE f : f = [n \in 0..Len(s) |-> EndBody(s, from, f, n)]
<1>1. EntryEnds(s, from) = E
  BY DEF EntryEnds, EndBody
<1>2. PICK f : f = [n \in 0..Len(s) |-> Body("blocks", s, from, f, n)]
  <2>1. PICK len \in Nat : len = Len(s)
    OBVIOUS
  <2> QED
    BY <2>1, FunctionGrows
<1>3. \A n \in 0..Len(s) : Body("blocks", s, from, f, n) = EndBody(s, from, f, n)
  BY DEF Body, Grown, EndBody
<1>4. f = [n \in 0..Len(s) |-> EndBody(s, from, f, n)]
  BY <1>2, <1>3
<1>5. E = [n \in 0..Len(s) |-> EndBody(s, from, E, n)]
  BY <1>4
<1> HIDE DEF E
<1>6. ASSUME NEW n \in 0..Len(s) PROVE E[n] = EndBody(s, from, E, n)
  BY <1>5, Zenon
<1> QED
  BY <1>1, <1>6

\* The ends of the entries of a list climb: E is a ladder.
Ladder(s, E) ==
  /\ Len(s) \in Nat /\ \A n \in 0..Len(s) : E[n] \in Nat
  /\ \A i \in 1..Len(s) : /\ s[i].num \in Nat \ {0} /\ s[i].cnt \in Nat \ {0}
                          /\ E[i] = E[i - 1] + s[i].cnt * s[i].num
  /\ \A m, n \in 0..Len(s) : m <= n => E[m] <= E[n]

Block == [num : 1..(Modulus - 1), cnt : 1..(Modulus - 1)]

\* An entry has a size and a count, none of them zero.
LEMMA EntryIs ==
  ASSUME NEW s \in Seq(Block), NEW i \in 1..Len(s)
  PROVE  s[i].num \in Nat \ {0} /\ s[i].cnt \in Nat \ {0}
<1>1. s[i] \in Block
  OBVIOUS
<1>2. s[i].num \in 1..(Modulus - 1) /\ s[i].cnt \in 1..(Modulus - 1)
  BY <1>1, Zenon DEF Block
<1> QED
  BY <1>2, SizeAssumption

LEMMA IsLadder ==
  ASSUME NEW s \in Seq(Block), NEW from \in Nat
  PROVE  Ladder(s, EntryEnds(s, from))
<1>1. PICK len \in Nat : len = Len(s)
  OBVIOUS
<1>2. PICK E : E = EntryEnds(s, from)
  OBVIOUS
<1>3. \A n \in 0..len : E[n] = EndBody(s, from, E, n)
  BY <1>1, <1>2, EntryEndsIs
<1>4. \A i \in 1..len : s[i].num \in Nat \ {0} /\ s[i].cnt \in Nat \ {0}
  BY <1>1, EntryIs
<1>5. \A i \in 1..len : E[i] = E[i - 1] + s[i].cnt * s[i].num
  BY <1>3 DEF EndBody
<1>6. \A i \in 1..len : s[i].cnt * s[i].num \in Nat
  <2> TAKE i \in 1..len
  <2>1. PICK a \in Nat, b \in Nat : a = s[i].cnt /\ b = s[i].num
    BY <1>4
  <2>2. a * b \in Nat
    OBVIOUS
  <2> QED
    BY <2>1, <2>2
<1>7. \A n \in 0..len : E[n] \in Nat
  <2> DEFINE T == {n \in Nat : n <= len /\ E[n] \notin Nat}
  <2>1. 0 \notin T
    BY <1>3 DEF EndBody
  <2>2. ASSUME NEW k \in Nat, k \notin T PROVE k + 1 \notin T
    <3>1. CASE k + 1 <= len
      <4>1. k + 1 \in 1..len /\ (k + 1) - 1 = k /\ E[k] \in Nat
        BY <2>2, <3>1
      <4>2. E[k + 1] = E[k] + s[k + 1].cnt * s[k + 1].num
        BY <1>5, <4>1
      <4>3. PICK c \in Nat : c = s[k + 1].cnt * s[k + 1].num
        BY <1>6, <4>1
      <4> QED
        BY <4>1, <4>2, <4>3
    <3>2. CASE ~(k + 1 <= len)
      BY <3>2
    <3> QED
      BY <3>1, <3>2
  <2>3. T \in SUBSET Nat
    OBVIOUS
  <2>4. T = {}
    <3> HIDE DEF T
    <3> QED
      BY <2>1, <2>2, <2>3, NoneLeft
  <2> QED
    BY <2>4
<1>8. ASSUME NEW m \in 0..len, NEW n \in 0..len, m <= n PROVE E[m] <= E[n]
  <2> DEFINE T == {k \in Nat : m + k <= len /\ ~(E[m] <= E[m + k])}
  <2>1. 0 \notin T
    BY <1>7
  <2>2. ASSUME NEW k \in Nat, k \notin T PROVE k + 1 \notin T
    <3>1. CASE m + (k + 1) <= len
      <4>1. PICK j \in 1..len : j = m + (k + 1)
        BY <3>1
      <4>2. j - 1 = m + k /\ m + k \in 0..len
        BY <4>1
      <4>3. E[m] <= E[m + k]
        BY <2>2, <4>2
      <4>4. E[j] = E[j - 1] + s[j].cnt * s[j].num
        BY <1>5
      <4>5. PICK c \in Nat : c = s[j].cnt * s[j].num
        BY <1>6
      <4>6. E[m] \in Nat /\ E[m + k] \in Nat
        BY <1>7, <4>2
      <4>7. E[m] <= E[j]
        BY <4>2, <4>3, <4>4, <4>5, <4>6
      <4> QED
        BY <4>1, <4>7
    <3>2. CASE ~(m + (k + 1) <= len)
      BY <3>2
    <3> QED
      BY <3>1, <3>2
  <2>3. T \in SUBSET Nat
    OBVIOUS
  <2>4. T = {}
    <3> HIDE DEF T
    <3> QED
      BY <2>1, <2>2, <2>3, NoneLeft
  <2>5. PICK k \in Nat : m + k = n
    <3>1. n - m \in Nat /\ m + (n - m) = n
      BY <1>8
    <3> QED
      BY <3>1
  <2>6. k \notin T
    BY <2>4, Zenon
  <2> QED
    BY <2>5, <2>6
<1>9. Ladder(s, E)
  BY <1>1, <1>4, <1>5, <1>7, <1>8 DEF Ladder
<1> QED
  BY <1>2, <1>9

\* The steps of the ladder: where a block begins or ends.
StepsOf(s, E) ==
  UNION {{E[i - 1] + j * s[i].num : j \in 0..s[i].cnt} : i \in DOMAIN s}

\* More repeats of a block reach at least as far.
LEMMA MoreRepeats ==
  ASSUME NEW a \in Nat, NEW b \in Nat, NEW n \in Nat, a <= b
  PROVE  /\ a * n \in Nat /\ b * n \in Nat /\ a * n <= b * n
         /\ (a + 1) * n = a * n + n
<1>1. PICK d \in Nat : b = a + d
  <2>1. b - a \in Nat /\ b = a + (b - a)
    OBVIOUS
  <2> QED
    BY <2>1
<1>2. b * n = a * n + d * n /\ a * n \in Nat /\ d * n \in Nat /\ (a + 1) * n = a * n + n
  BY <1>1
<1> QED
  BY <1>2

\* No block ends between a step of the ladder and the next one.
LEMMA NoStepBetween ==
  ASSUME NEW s, DOMAIN s = 1..Len(s), NEW E, Ladder(s, E), NEW i \in 1..Len(s),
         NEW j \in Nat, j < s[i].cnt, NEW e \in StepsOf(s, E)
  PROVE  /\ e \in Nat
         /\ e <= E[i - 1] + j * s[i].num \/ e >= (E[i - 1] + j * s[i].num) + s[i].num
<1>1. PICK k \in 1..Len(s) : \E r \in 0..s[k].cnt : e = E[k - 1] + r * s[k].num
  BY DEF StepsOf
<1>2. PICK r \in 0..s[k].cnt : e = E[k - 1] + r * s[k].num
  BY <1>1
<1>3. PICK len \in Nat : len = Len(s)
  BY DEF Ladder
<1>4. /\ i - 1 \in 0..len /\ k - 1 \in 0..len /\ i \in 0..len /\ k \in 0..len
      /\ i \in Nat /\ k \in Nat
  BY <1>3
<1>5. PICK n \in Nat, c \in Nat : n = s[i].num /\ c = s[i].cnt
  BY DEF Ladder
<1>6. PICK m \in Nat, d \in Nat : m = s[k].num /\ d = s[k].cnt
  BY DEF Ladder
<1>7. PICK a \in Nat, b \in Nat : a = E[i - 1] /\ b = E[k - 1]
  BY <1>3, <1>4 DEF Ladder
<1>8. /\ E[i] = a + c * n /\ E[k] = b + d * m
      /\ E[i] \in Nat /\ E[k] \in Nat
  BY <1>3, <1>4, <1>5, <1>6, <1>7 DEF Ladder
<1>9. /\ r \in Nat /\ r * m \in Nat /\ d * m \in Nat /\ r * m <= d * m
  <2>1. r \in Nat /\ r <= d
    BY <1>2, <1>6
  <2> QED
    BY <2>1, MoreRepeats
<1>10. /\ j * n \in Nat /\ c * n \in Nat /\ (j + 1) * n = j * n + n /\ (j + 1) * n <= c * n
  <2>1. j + 1 \in Nat /\ j + 1 <= c /\ j <= c
    BY <1>5
  <2> QED
    BY <2>1, MoreRepeats
<1>11. PICK x \in Nat, y \in Nat, u \in Nat, v \in Nat :
         x = j * n /\ y = c * n /\ u = r * m /\ v = d * m
  BY <1>9, <1>10
<1>12. x + n <= y /\ u <= v
  BY <1>9, <1>10, <1>11
<1>13. e = b + u /\ E[i - 1] + j * s[i].num = a + x /\ s[i].num = n
  <2>1. e = b + r * m
    BY <1>2, <1>6, <1>7, Zenon
  <2>2. E[i - 1] + j * s[i].num = a + j * n
    BY <1>5, <1>7, Zenon
  <2> QED
    BY <1>5, <1>11, <2>1, <2>2
<1> SUFFICES e \in Nat /\ (e <= a + x \/ e >= (a + x) + n)
  BY <1>13
<1>14. CASE k < i
  <2>1. k <= i - 1
    BY <1>4, <1>14
  <2>2. E[k] <= E[i - 1]
    BY <1>3, <1>4, <2>1 DEF Ladder
  <2>3. b + v <= a
    BY <1>7, <1>8, <1>11, <2>2
  <2>4. b + u <= a + x
    BY <1>12, <2>3
  <2> QED
    BY <1>13, <2>4
<1>15. CASE k > i
  <2>1. i <= k - 1
    BY <1>4, <1>15
  <2>2. E[i] <= E[k - 1]
    BY <1>3, <1>4, <2>1 DEF Ladder
  <2>3. a + y <= b
    BY <1>7, <1>8, <1>11, <2>2
  <2>4. b + u >= (a + x) + n
    BY <1>12, <2>3
  <2> QED
    BY <1>13, <2>4
<1>16. CASE k = i
  <2>1. a = b /\ m = n
    BY <1>5, <1>6, <1>7, <1>16
  <2>2. CASE r <= j
    <3>1. u <= x
      <4>1. r * n <= j * n
        BY <1>9, <2>2, MoreRepeats
      <4> QED
        BY <1>11, <2>1, <4>1
    <3>2. b + u <= a + x
      BY <2>1, <3>1
    <3> QED
      BY <1>13, <3>2
  <2>3. CASE r >= j + 1
    <3>1. u >= x + n
      <4>1. (j + 1) * n <= r * n
        BY <1>9, <2>3, MoreRepeats
      <4> QED
        BY <1>10, <1>11, <2>1, <4>1
    <3>2. b + u >= (a + x) + n
      BY <2>1, <3>1
    <3> QED
      BY <1>13, <3>2
  <2> QED
    BY <1>9, <2>2, <2>3
<1> QED
  BY <1>4, <1>14, <1>15, <1>16

\* The step of the ladder that the cursor is to stand on, by the entry i and the
\* repeats c that are left of it.
StepAt(s, E, i, c) ==
  IF c > 0 THEN E[i - 1] + (s[i].cnt - c) * s[i].num ELSE E[i - 1]

\* The cursor b stands there, or behind the end of the dump as the step does, or
\* as the list is used up.
Cursor(s, E, end, b, i, c) ==
  /\ i \in 1..(Len(s) + 1) /\ c \in Nat
  /\ c > 0 => i <= Len(s) /\ c <= s[i].cnt
  /\ \/ b = StepAt(s, E, i, c)
     \/ b >= end /\ (StepAt(s, E, i, c) >= end \/ (i > Len(s) /\ c = 0))

\* A block more takes the cursor to the next step, or to the end, and no block
\* ends in between.
LEMMA BlockGoes ==
  ASSUME NEW s, DOMAIN s = 1..Len(s), NEW E, Ladder(s, E), NEW end \in Nat,
         NEW b \in Nat, NEW i, NEW c, c > 0, Cursor(s, E, end, b, i, c), NEW to,
         to = IF b + s[i].num < end THEN b + s[i].num ELSE end
  PROVE  /\ Cursor(s, E, end, to, IF c - 1 = 0 THEN i + 1 ELSE i, c - 1)
         /\ \A e \in StepsOf(s, E) : e <= b \/ to <= e
         /\ to \in StepsOf(s, E) \cup {end}
<1>1. PICK len \in Nat : len = Len(s)
  BY DEF Ladder
<1>2. i \in 1..len /\ c \in Nat /\ c <= s[i].cnt
  BY <1>1 DEF Cursor
<1>3. PICK n \in Nat \ {0}, m \in Nat : n = s[i].num /\ m = s[i].cnt
  BY <1>1, <1>2 DEF Ladder
<1>4. PICK a \in Nat : a = E[i - 1]
  <2>1. i - 1 \in 0..len
    BY <1>2
  <2> QED
    BY <1>1, <2>1 DEF Ladder
<1>5. PICK j \in Nat : j = m - c /\ j + 1 <= m /\ m - (c - 1) = j + 1
  <2>1. PICK d \in Nat \ {0} : d = c /\ d <= m
    BY <1>2, <1>3
  <2>2. m - d \in Nat /\ (m - d) + 1 <= m /\ m - (d - 1) = (m - d) + 1
    BY <2>1
  <2> QED
    BY <2>1, <2>2
<1>6. PICK x \in Nat : x = j * n /\ (j + 1) * n = x + n
  BY MoreRepeats
<1>7. StepAt(s, E, i, c) = a + x
  BY <1>3, <1>4, <1>5, <1>6 DEF StepAt
<1>8. PICK i2 : i2 = IF c - 1 = 0 THEN i + 1 ELSE i
  OBVIOUS
<1>9. StepAt(s, E, i2, c - 1) = (a + x) + n
  <2>1. CASE c = 1
    <3>1. i2 = i + 1 /\ (i + 1) - 1 = i /\ m = j + 1
      BY <1>2, <1>3, <1>5, <1>8, <2>1
    <3>2. E[i] = a + m * n
      BY <1>1, <1>2, <1>3, <1>4 DEF Ladder
    <3>3. E[i] = a + (x + n)
      BY <1>6, <3>1, <3>2
    <3>4. StepAt(s, E, i2, c - 1) = E[i]
      BY <2>1, <3>1 DEF StepAt
    <3> QED
      BY <3>3, <3>4
  <2>2. CASE c # 1
    <3>1. i2 = i /\ c - 1 > 0
      BY <1>2, <1>8, <2>2
    <3>2. StepAt(s, E, i2, c - 1) = a + (m - (c - 1)) * n
      BY <1>3, <1>4, <3>1 DEF StepAt
    <3>3. (m - (c - 1)) * n = x + n
      BY <1>5, <1>6
    <3> QED
      BY <3>2, <3>3
  <2> QED
    BY <2>1, <2>2
<1>10. /\ i2 \in 1..(Len(s) + 1) /\ c - 1 \in Nat
       /\ c - 1 > 0 => i2 <= Len(s) /\ c - 1 <= s[i2].cnt
  <2>1. m \in Nat /\ c <= m
    BY <1>2, <1>3
  <2>2. c - 1 > 0 => i2 = i
    BY <1>2, <1>8
  <2> QED
    BY <1>1, <1>2, <1>3, <1>8, <2>1, <2>2
<1>11. (a + x) + n \in StepsOf(s, E)
  <2>0. j + 1 \in 0..m
    BY <1>3, <1>5
  <2>1. j + 1 \in 0..s[i].cnt /\ i \in DOMAIN s
    BY <1>1, <1>2, <1>3, <2>0
  <2>2. E[i - 1] + (j + 1) * s[i].num \in StepsOf(s, E)
    BY <2>1 DEF StepsOf
  <2>3. E[i - 1] + (j + 1) * s[i].num = a + (x + n)
    BY <1>3, <1>4, <1>6
  <2> QED
    BY <2>2, <2>3
<1>12. \A e \in StepsOf(s, E) : e \in Nat /\ (e <= a + x \/ e >= (a + x) + n)
  <2> TAKE e \in StepsOf(s, E)
  <2>1. i \in 1..Len(s) /\ j < s[i].cnt
    BY <1>1, <1>2, <1>3, <1>5
  <2>2. /\ e \in Nat
        /\ e <= E[i - 1] + j * s[i].num \/ e >= (E[i - 1] + j * s[i].num) + s[i].num
    BY <2>1, NoStepBetween
  <2> QED
    BY <1>3, <1>4, <1>6, <2>2
<1>13. b = a + x \/ (b >= end /\ a + x >= end)
  BY <1>1, <1>2, <1>7 DEF Cursor
<1>14. to = IF b + n < end THEN b + n ELSE end
  BY <1>3
<1>15. to = (a + x) + n \/ (to = end /\ (a + x) + n >= end)
  BY <1>13, <1>14
<1>16. Cursor(s, E, end, to, i2, c - 1)
  <2>1. CASE to = (a + x) + n
    BY <1>9, <1>10, <2>1 DEF Cursor
  <2>2. CASE to = end /\ (a + x) + n >= end
    <3>1. to >= end
      BY <2>2
    <3> QED
      BY <1>9, <1>10, <2>2, <3>1 DEF Cursor
  <2> QED
    BY <1>15, <2>1, <2>2
<1>17. ASSUME NEW e \in StepsOf(s, E) PROVE e <= b \/ to <= e
  <2>1. e \in Nat /\ (e <= a + x \/ e >= (a + x) + n)
    BY <1>12
  <2> QED
    BY <1>13, <1>14, <2>1
<1>18. to \in StepsOf(s, E) \cup {end}
  BY <1>11, <1>15
<1> QED
  BY <1>8, <1>16, <1>17, <1>18

\* The next entry begins where the cursor stands.
LEMMA EntryGoes ==
  ASSUME NEW s, NEW E, Ladder(s, E), NEW end, NEW b, NEW i, i <= Len(s),
         Cursor(s, E, end, b, i, 0)
  PROVE  Cursor(s, E, end, b, i, s[i].cnt)
<1>1. PICK len \in Nat : len = Len(s)
  BY DEF Ladder
<1>2. i \in 1..len /\ ~(i > Len(s))
  BY <1>1 DEF Cursor
<1>3. PICK n \in Nat \ {0}, m \in Nat \ {0} : n = s[i].num /\ m = s[i].cnt
  BY <1>1, <1>2 DEF Ladder
<1>4. PICK a \in Nat : a = E[i - 1]
  BY <1>1, <1>2 DEF Ladder
<1>5. StepAt(s, E, i, m) = a /\ StepAt(s, E, i, 0) = a
  <2>1. m > 0 /\ (m - m) * n = 0 /\ a + 0 = a
    BY <1>3
  <2> QED
    BY <1>3, <1>4, <2>1 DEF StepAt
<1>6. b = a \/ (b >= end /\ a >= end)
  BY <1>2, <1>5 DEF Cursor
<1>7. i <= Len(s) /\ m <= s[i].cnt
  BY <1>3
<1>8. Cursor(s, E, end, b, i, m)
  BY <1>1, <1>2, <1>3, <1>5, <1>6, <1>7 DEF Cursor
<1> QED
  BY <1>3, <1>8

\* Behind the last entry no block ends.
LEMMA NothingBehind ==
  ASSUME NEW s, DOMAIN s = 1..Len(s), NEW E, Ladder(s, E), NEW end \in Nat,
         NEW b \in Nat, NEW i, i > Len(s), Cursor(s, E, end, b, i, 0)
  PROVE  /\ b < end => \A e \in StepsOf(s, E) : e <= b
         /\ Cursor(s, E, end, end, i, 0)
<1>1. PICK len \in Nat : len = Len(s)
  BY DEF Ladder
<1>2. i = len + 1 /\ i - 1 = len /\ i \in 1..(Len(s) + 1)
  BY <1>1 DEF Cursor
<1>3. Cursor(s, E, end, end, i, 0)
  <2>1. end >= end /\ 0 \in Nat /\ ~(0 > 0)
    OBVIOUS
  <2> QED
    BY <1>2, <2>1 DEF Cursor
<1>4. ASSUME b < end, NEW e \in StepsOf(s, E) PROVE e <= b
  <2>1. ~(b >= end)
    BY <1>4
  <2>2. b = E[len]
    BY <1>2, <2>1 DEF Cursor, StepAt
  <2>3. PICK k \in 1..len : \E r \in 0..s[k].cnt : e = E[k - 1] + r * s[k].num
    BY <1>1 DEF StepsOf
  <2>4. PICK r \in 0..s[k].cnt : e = E[k - 1] + r * s[k].num
    BY <2>3
  <2>5. PICK n \in Nat, m \in Nat : n = s[k].num /\ m = s[k].cnt
    BY <1>1 DEF Ladder
  <2>6. r * n <= m * n /\ r * n \in Nat /\ m * n \in Nat
    <3>1. r \in Nat /\ r <= m
      BY <2>4, <2>5
    <3> QED
      BY <3>1, MoreRepeats
  <2>7. PICK a \in Nat : a = E[k - 1]
    BY <1>1 DEF Ladder
  <2>8. E[k] = a + m * n /\ E[k] <= E[len]
    BY <1>1, <2>5, <2>7 DEF Ladder
  <2>9. e = a + r * n
    BY <2>4, <2>5, <2>7, Zenon
  <2>10. E[k] \in Nat /\ E[len] \in Nat
    BY <1>1 DEF Ladder
  <2> QED
    BY <2>2, <2>6, <2>8, <2>9, <2>10
<1> QED
  BY <1>3, <1>4

\* What a row is to be, of the blocks' ends and the end of the dump.
RowFits(ends, end, row) ==
  LET first == row.asc[1]
      past  == first + Len(row.asc)
  IN  /\ \A e \in ends : ~(first < e /\ e < past)
      /\ Len(row.asc) < LineWidth => past \in ends \cup {end}

\* In a call that shows up to the place to, no block ends between the row that is
\* being filled and to, where one ends or the dump does.
InCall(ends, end, from, place, to, row) ==
  /\ \A e \in ends : e \in Nat /\ (e <= from \/ to <= e)
  /\ to \in ends \cup {end}
  /\ row # <<>> => place <= to

\* RowsRespectBlocks is about the rows that are out; it follows from where the
\* calls that show them begin and end, and so from where the cursor is.
Climb == EntryEnds(g_pHexBlock, gdwBgnOff)
RowInv ==
  g_pHexBlock # <<>> =>
    /\ Cursor(g_pHexBlock, Climb, dwEnd, dwb, dwi, dwc)
    /\ pc = "byte" => InCall(BlockEnds, dwEnd, foff, ir, dwe, lpa)
    /\ \A i \in DOMAIN rows : RowFits(BlockEnds, dwEnd, rows[i])

LEMMA RowsFit == RowInv => RowsRespectBlocks
BY DEF RowInv, RowFits, RowsRespectBlocks

\* The list of blocks, if there is one, is a ladder.
LEMMA ListIs ==
  ASSUME TypeOK, g_pHexBlock # <<>>
  PROVE  /\ g_pHexBlock \in Seq(Block) /\ DOMAIN g_pHexBlock = 1..Len(g_pHexBlock)
         /\ Len(g_pHexBlock) \in Nat \ {0}
         /\ Ladder(g_pHexBlock, Climb) /\ BlockEnds = StepsOf(g_pHexBlock, Climb)
         /\ \A e \in BlockEnds : e \in Nat
<1>1. g_pHexBlock \in Seq(Block)
  BY BlockAssumption DEF TypeOK, Block
<1>2. DOMAIN g_pHexBlock = 1..Len(g_pHexBlock) /\ Len(g_pHexBlock) \in Nat
  BY <1>1
<1>3. Len(g_pHexBlock) # 0
  BY <1>1
<1>4. gdwBgnOff \in Nat
  BY SizeAssumption DEF TypeOK
<1>5. Ladder(g_pHexBlock, Climb)
  BY <1>1, <1>4, IsLadder DEF Climb
<1>6. BlockEnds = StepsOf(g_pHexBlock, Climb)
  BY DEF BlockEnds, StepsOf, Climb
<1>7. ASSUME NEW e \in StepsOf(g_pHexBlock, Climb) PROVE e \in Nat
  <2>1. PICK i \in 1..Len(g_pHexBlock) :
          \E j \in 0..g_pHexBlock[i].cnt : e = Climb[i - 1] + j * g_pHexBlock[i].num
    BY <1>2 DEF StepsOf
  <2>2. PICK j \in 0..g_pHexBlock[i].cnt : e = Climb[i - 1] + j * g_pHexBlock[i].num
    BY <2>1
  <2>3. PICK n \in Nat, a \in Nat : n = g_pHexBlock[i].num /\ a = Climb[i - 1]
    <3>1. i - 1 \in 0..Len(g_pHexBlock)
      BY <1>2
    <3> QED
      BY <1>5, <3>1 DEF Ladder
  <2>4. PICK x \in Nat : x = j * n
    BY MoreRepeats
  <2>5. e = a + x
    BY <2>2, <2>3, <2>4, Zenon
  <2>6. a + x \in Nat
    OBVIOUS
  <2> QED
    BY <2>5, <2>6, Zenon
<1> QED
  BY <1>1, <1>2, <1>3, <1>5, <1>6, <1>7

\* A row that begins at the offset of the call and ends in it fits.
LEMMA FitsInCall ==
  ASSUME NEW ends, NEW end, NEW from \in Nat, NEW place \in Nat, NEW to \in Nat, NEW row,
         NEW asc \in Seq(Nat), InCall(ends, end, from, place, to, row),
         asc # <<>>, asc[1] = from, from + Len(asc) <= to,
         Len(asc) < LineWidth => from + Len(asc) = to,
         NEW r, r.asc = asc
  PROVE  RowFits(ends, end, r)
<1>1. PICK past \in Nat : past = from + Len(asc)
  OBVIOUS
<1>2. \A e \in ends : ~(from < e /\ e < past)
  BY <1>1 DEF InCall
<1>3. Len(asc) < LineWidth => past \in ends \cup {end}
  BY <1>1 DEF InCall
<1> QED
  BY <1>1, <1>2, <1>3 DEF RowFits

\* What stays when the input does.
LEMMA EndsStay ==
  ASSUME UNCHANGED input
  PROVE  /\ BlockEnds' = BlockEnds /\ dwEnd' = dwEnd /\ Climb' = Climb
         /\ g_pHexBlock' = g_pHexBlock
BY DEF input, BlockEnds, dwEnd, Climb

\* A row more that fits.
LEMMA RowsGrow ==
  ASSUME NEW s \in Seq(Row), NEW r, NEW ends, NEW end, RowFits(ends, end, r),
         \A i \in DOMAIN s : RowFits(ends, end, s[i])
  PROVE  \A i \in DOMAIN Append(s, r) : RowFits(ends, end, Append(s, r)[i])
<1>1. PICK len \in Nat : len = Len(s)
  OBVIOUS
<1>2. /\ DOMAIN Append(s, r) = 1..(len + 1) /\ DOMAIN s = 1..len
      /\ \A i \in 1..len : Append(s, r)[i] = s[i]
      /\ Append(s, r)[len + 1] = r
  BY <1>1
<1>3. ASSUME NEW i \in 1..(len + 1) PROVE RowFits(ends, end, Append(s, r)[i])
  <2>1. i \in 1..len \/ i = len + 1
    OBVIOUS
  <2> QED
    BY <1>2, <2>1
<1> QED
  BY <1>2, <1>3

\* A byte more is of the row, and a full row ends within the call.
LEMMA ByteRows == IInv /\ RowInv /\ OutputByteOrDword => RowInv'
<1> SUFFICES ASSUME IInv, RowInv, OutputByteOrDword, g_pHexBlock # <<>>
             PROVE  RowInv'
  BY EndsStay DEF RowInv, OutputByteOrDword
<1> DEFINE asc == Append(lpa, ir)
<1>1. /\ pc = "byte" /\ pc' = "byte" /\ ir < dwe /\ ir' = ir + 1 /\ dwe' = dwe
      /\ dwb' = dwb /\ dwi' = dwi /\ dwc' = dwc /\ UNCHANGED input
      /\ \/ foff' = foff + LineWidth \/ foff' = foff
      /\ \/ /\ Len(asc) = LineWidth /\ lpa' = <<>>
            /\ \E r : r.asc = asc /\ rows' = Append(rows, r)
         \/ Len(asc) # LineWidth /\ lpa' = asc /\ rows' = rows
  <2>1. CASE Len(asc) = LineWidth
    <3>1. PICK hex :
            rows' = Append(rows, [off |-> OffsetOfRow, hex |-> hex, asc |-> asc])
      BY <2>1 DEF OutputByteOrDword
    <3>2. [off |-> OffsetOfRow, hex |-> hex, asc |-> asc].asc = asc
      OBVIOUS
    <3>3. \E r : r.asc = asc /\ rows' = Append(rows, r)
      BY <3>1, <3>2
    <3> HIDE DEF asc
    <3>4. lpa' = <<>>
      BY <2>1 DEF OutputByteOrDword, asc
    <3> QED
      BY <2>1, <3>3, <3>4 DEF OutputByteOrDword, walk
  <2>2. CASE Len(asc) # LineWidth
    BY <2>2 DEF OutputByteOrDword, walk
  <2> QED
    BY <2>1, <2>2
<1>2. /\ ir \in Nat /\ dwe \in Nat /\ lpa \in Seq(Nat) /\ foff \in Nat
      /\ iaw \in 0..(LineWidth - 1) /\ LineWidth \in Nat \ {0} /\ rows \in Seq(Row)
      /\ Len(lpa) = iaw /\ foff + iaw = ir
      /\ \A j \in 1..Len(lpa) : lpa[j] = foff + j - 1
  BY <1>1, LineWidthAssumption DEF IInv, TypeOK, LineInv
<1>3. /\ asc \in Seq(Nat) /\ Len(asc) = iaw + 1 /\ asc # <<>> /\ asc[iaw + 1] = ir
      /\ \A j \in 1..iaw : asc[j] = lpa[j]
  <2>1. /\ asc \in Seq(Nat) /\ Len(asc) = Len(lpa) + 1 /\ asc[Len(lpa) + 1] = ir
        /\ \A j \in 1..Len(lpa) : asc[j] = lpa[j]
    BY <1>2
  <2> HIDE DEF asc
  <2>2. asc # <<>>
    <3>1. Len(asc) # 0
      BY <1>2, <2>1
    <3> QED
      BY <3>1
  <2> QED
    BY <1>2, <2>1, <2>2
<1>4. asc[1] = foff
  <2>1. CASE iaw = 0
    BY <1>2, <1>3, <2>1
  <2>2. CASE iaw # 0
    <3>1. 1 \in 1..iaw /\ foff + 1 - 1 = foff
      BY <1>2, <2>2
    <3> QED
      BY <1>2, <1>3, <3>1
  <2> QED
    BY <2>1, <2>2
<1> HIDE DEF asc
<1>5. /\ Cursor(g_pHexBlock, Climb, dwEnd, dwb, dwi, dwc)
      /\ InCall(BlockEnds, dwEnd, foff, ir, dwe, lpa)
      /\ \A i \in DOMAIN rows : RowFits(BlockEnds, dwEnd, rows[i])
  BY <1>1 DEF RowInv
<1>6. foff + Len(asc) = ir + 1 /\ ir + 1 <= dwe
  BY <1>1, <1>2, <1>3
<1>7. InCall(BlockEnds, dwEnd, foff', ir', dwe, lpa')
  <2>1. foff' \in Nat /\ foff <= foff' /\ ir' <= dwe
    BY <1>1, <1>2, <1>6
  <2>2. \A e \in BlockEnds : e \in Nat /\ (e <= foff' \/ dwe <= e)
    <3> TAKE e \in BlockEnds
    <3>1. e \in Nat /\ (e <= foff \/ dwe <= e)
      BY <1>5 DEF InCall
    <3> QED
      BY <1>2, <2>1, <3>1
  <2> QED
    BY <1>5, <2>1, <2>2 DEF InCall
<1>8. \A i \in DOMAIN rows' : RowFits(BlockEnds, dwEnd, rows'[i])
  <2>1. CASE Len(asc) = LineWidth
    <3>1. PICK r : r.asc = asc /\ rows' = Append(rows, r)
      BY <1>1, <2>1
    <3>2. RowFits(BlockEnds, dwEnd, r)
      <4>1. ~(Len(asc) < LineWidth)
        BY <1>2, <2>1
      <4>2. foff + Len(asc) <= dwe
        BY <1>6
      <4> QED
        BY <1>2, <1>3, <1>4, <1>5, <3>1, <4>1, <4>2, FitsInCall
    <3> QED
      BY <1>2, <1>5, <3>1, <3>2, RowsGrow
  <2>2. CASE Len(asc) # LineWidth
    BY <1>1, <1>5, <2>2
  <2> QED
    BY <2>1, <2>2
<1>9. /\ BlockEnds' = BlockEnds /\ dwEnd' = dwEnd /\ Climb' = Climb
      /\ g_pHexBlock' = g_pHexBlock
  BY <1>1, EndsStay
<1> QED
  BY <1>1, <1>5, <1>7, <1>8, <1>9 DEF RowInv

\* The short row that ends a call ends where the call does.
LEMMA RemainingRows == IInv /\ RowInv /\ Remaining => RowInv'
<1> SUFFICES ASSUME IInv, RowInv, Remaining, g_pHexBlock # <<>>
             PROVE  RowInv'
  BY EndsStay DEF RowInv, Remaining
<1>1. /\ pc = "byte" /\ pc' = "blocks" /\ ir >= dwe
      /\ dwb' = dwb /\ dwi' = dwi /\ dwc' = dwc /\ UNCHANGED input
      /\ \/ lpa = <<>> /\ rows' = rows
         \/ lpa # <<>> /\ \E r : r.asc = lpa /\ rows' = Append(rows, r)
  <2>1. CASE lpa = <<>>
    BY <2>1 DEF Remaining, walk
  <2>2. CASE lpa # <<>>
    <3>1. PICK off, hex : rows' = Append(rows, [off |-> off, hex |-> hex, asc |-> lpa])
      BY <2>2 DEF Remaining
    <3>2. [off |-> off, hex |-> hex, asc |-> lpa].asc = lpa
      OBVIOUS
    <3>3. \E r : r.asc = lpa /\ rows' = Append(rows, r)
      BY <3>1, <3>2
    <3> QED
      BY <2>2, <3>3 DEF Remaining, walk
  <2> QED
    BY <2>1, <2>2
<1>2. /\ ir \in Nat /\ dwe \in Nat /\ lpa \in Seq(Nat) /\ foff \in Nat
      /\ rows \in Seq(Row) /\ iaw \in Nat /\ Len(lpa) = iaw /\ foff + iaw = ir
      /\ \A j \in 1..Len(lpa) : lpa[j] = foff + j - 1
  <2>1. iaw \in 0..(LineWidth - 1) /\ LineWidth \in Nat
    BY LineWidthAssumption DEF IInv, TypeOK
  <2>2. ir \in Nat /\ dwe \in Nat /\ lpa \in Seq(Nat) /\ foff \in Nat /\ rows \in Seq(Row)
    BY DEF IInv, TypeOK
  <2>3. LineInv
    BY DEF IInv
  <2>4. /\ Len(lpa) = iaw /\ foff + iaw = ir
        /\ \A j \in 1..Len(lpa) : lpa[j] = foff + j - 1
    BY <1>1, <2>3 DEF LineInv
  <2>5. iaw \in Nat
    BY <2>1
  <2> QED
    BY <2>2, <2>4, <2>5
<1>3. /\ Cursor(g_pHexBlock, Climb, dwEnd, dwb, dwi, dwc)
      /\ InCall(BlockEnds, dwEnd, foff, ir, dwe, lpa)
      /\ \A i \in DOMAIN rows : RowFits(BlockEnds, dwEnd, rows[i])
  BY <1>1 DEF RowInv
<1>4. \A i \in DOMAIN rows' : RowFits(BlockEnds, dwEnd, rows'[i])
  <2>1. CASE lpa = <<>>
    BY <1>1, <1>3, <2>1
  <2>2. CASE lpa # <<>>
    <3>1. PICK r : r.asc = lpa /\ rows' = Append(rows, r)
      BY <1>1, <2>2
    <3>2. lpa[1] = foff
      <4>1. 1 \in 1..Len(lpa) /\ foff + 1 - 1 = foff
        BY <1>2, <2>2
      <4> QED
        BY <1>2, <4>1
    <3>3. foff + Len(lpa) = dwe
      <4>1. ir <= dwe
        BY <1>3, <2>2 DEF InCall
      <4> QED
        BY <1>1, <1>2, <4>1
    <3>4. foff + Len(lpa) <= dwe
      BY <1>2, <3>3
    <3>5. RowFits(BlockEnds, dwEnd, r)
      BY <1>2, <1>3, <2>2, <3>1, <3>2, <3>3, <3>4, FitsInCall
    <3> QED
      BY <1>2, <1>3, <3>1, <3>5, RowsGrow
  <2> QED
    BY <2>1, <2>2
<1>5. /\ BlockEnds' = BlockEnds /\ dwEnd' = dwEnd /\ Climb' = Climb
      /\ g_pHexBlock' = g_pHexBlock
  BY <1>1, EndsStay
<1> QED
  BY <1>1, <1>3, <1>4, <1>5 DEF RowInv

\* A call begins with an empty row.
LEMMA CallRows ==
  ASSUME TypeOK, RowInv, g_pHexBlock # <<>>, UNCHANGED <<input, rows>>,
         NEW ptr, NEW from, NEW to, Call(ptr, from, to),
         \A e \in BlockEnds : e <= from \/ to <= e, to \in BlockEnds \cup {dwEnd},
         Cursor(g_pHexBlock, Climb, dwEnd, dwb', dwi', dwc')
  PROVE  RowInv'
<1>1. pc' = "byte" /\ ir' = from /\ foff' = from /\ dwe' = to /\ lpa' = <<>> /\ rows' = rows
  BY DEF Call
<1>2. /\ BlockEnds' = BlockEnds /\ dwEnd' = dwEnd /\ Climb' = Climb
      /\ g_pHexBlock' = g_pHexBlock
  BY EndsStay
<1>3. InCall(BlockEnds, dwEnd, from, from, to, <<>>)
  BY ListIs DEF InCall
<1>4. \A i \in DOMAIN rows : RowFits(BlockEnds, dwEnd, rows[i])
  BY DEF RowInv
<1> QED
  BY <1>1, <1>2, <1>3, <1>4 DEF RowInv

\* Every step keeps the rows within the blocks.
LEMMA StepRows == IInv /\ CoverInv /\ RowInv /\ [Next]_vars => RowInv'
<1> SUFFICES ASSUME IInv, CoverInv, RowInv, [Next]_vars, g_pHexBlock' # <<>>
             PROVE  RowInv'
  BY DEF RowInv
<1>0. UNCHANGED input
  BY DEF Next, Step, Done, vars, ShowWhole, NextEntry, ShowBlock, ShowTail,
         OutputByteOrDword, Remaining
<1>1. /\ g_pHexBlock # <<>> /\ TypeOK /\ NoWrap /\ dwb \in 0..MaxRd /\ dwb \in Nat
      /\ dwEnd \in Nat
  BY <1>0, EndType, EndsStay, SizeAssumption DEF IInv, CoverInv
<1>2. /\ Cursor(g_pHexBlock, Climb, dwEnd, dwb, dwi, dwc)
      /\ pc = "byte" => InCall(BlockEnds, dwEnd, foff, ir, dwe, lpa)
      /\ \A i \in DOMAIN rows : RowFits(BlockEnds, dwEnd, rows[i])
  BY <1>1 DEF RowInv
<1>3. /\ g_pHexBlock \in Seq(Block) /\ DOMAIN g_pHexBlock = 1..Len(g_pHexBlock)
      /\ Len(g_pHexBlock) \in Nat \ {0}
      /\ Ladder(g_pHexBlock, Climb) /\ BlockEnds = StepsOf(g_pHexBlock, Climb)
  BY <1>1, ListIs
<1>4. /\ BlockEnds' = BlockEnds /\ dwEnd' = dwEnd /\ Climb' = Climb
      /\ g_pHexBlock' = g_pHexBlock
  BY <1>0, EndsStay
<1>5. CASE ShowWhole
  BY <1>1, <1>5 DEF ShowWhole
<1>6. CASE NextEntry
  <2>1. /\ dwc = 0 /\ dwi <= Len(g_pHexBlock) /\ dwc' = g_pHexBlock[dwi].cnt
        /\ pc' = "blocks" /\ dwb' = dwb /\ dwi' = dwi /\ rows' = rows
    BY <1>6 DEF NextEntry
  <2>2. Cursor(g_pHexBlock, Climb, dwEnd, dwb, dwi, dwc')
    BY <1>2, <1>3, <2>1, EntryGoes
  <2> QED
    BY <1>2, <1>4, <2>1, <2>2 DEF RowInv
<1>7. CASE ShowBlock
  <2>1. PICK to : to = BlockEnd(g_pHexBlock[dwi].num)
    OBVIOUS
  <2>2. /\ Call(OutputHex, dwb, to) /\ dwb' = to /\ dwc > 0 /\ UNCHANGED <<input, rows>>
        /\ dwc' = dwc - 1 /\ dwi' = IF dwc - 1 = 0 THEN dwi + 1 ELSE dwi
    BY <1>7, <2>1 DEF ShowBlock, RepeatsLeft
  <2>3. dwi \in 1..Len(g_pHexBlock)
    BY <2>2 DEF IInv, BlockInv
  <2>4. to = IF dwb + g_pHexBlock[dwi].num < dwEnd
             THEN dwb + g_pHexBlock[dwi].num ELSE dwEnd
    BY <1>1, <2>1, <2>3, BlockEndIs
  <2>5. /\ Cursor(g_pHexBlock, Climb, dwEnd, to,
                  IF dwc - 1 = 0 THEN dwi + 1 ELSE dwi, dwc - 1)
        /\ \A e \in StepsOf(g_pHexBlock, Climb) : e <= dwb \/ to <= e
        /\ to \in StepsOf(g_pHexBlock, Climb) \cup {dwEnd}
    BY <1>1, <1>2, <1>3, <2>2, <2>4, BlockGoes
  <2> QED
    BY <1>1, <1>3, <2>2, <2>5, CallRows
<1>8. CASE ShowTail
  <2>1. dwc = 0 /\ dwi > Len(g_pHexBlock) /\ dwi' = dwi /\ dwc' = dwc /\ rows' = rows
    BY <1>8 DEF ShowTail
  <2>2. /\ dwb < dwEnd => \A e \in StepsOf(g_pHexBlock, Climb) : e <= dwb
        /\ Cursor(g_pHexBlock, Climb, dwEnd, dwEnd, dwi, 0)
    BY <1>1, <1>2, <1>3, <2>1, NothingBehind
  <2>3. CASE dwb < dwEnd
    <3>1. Call("BYTE", dwb, dwEnd) /\ dwb' = dwEnd
      BY <1>8, <2>3 DEF ShowTail
    <3>2. \A e \in BlockEnds : e <= dwb \/ dwEnd <= e
      BY <1>3, <2>2, <2>3
    <3>3. Cursor(g_pHexBlock, Climb, dwEnd, dwb', dwi', dwc')
      BY <2>1, <2>2, <3>1
    <3> QED
      BY <1>0, <1>1, <2>1, <3>1, <3>2, <3>3, CallRows
  <2>4. CASE ~(dwb < dwEnd)
    <3>1. pc' = "done" /\ dwb' = dwb
      BY <1>8, <2>4 DEF ShowTail
    <3> QED
      BY <1>2, <1>4, <2>1, <3>1 DEF RowInv
  <2> QED
    BY <2>3, <2>4
<1>9. CASE OutputByteOrDword
  BY <1>9, ByteRows
<1>10. CASE Remaining
  BY <1>10, RemainingRows
<1>11. CASE UNCHANGED vars
  <2>1. /\ pc' = pc /\ dwb' = dwb /\ dwi' = dwi /\ dwc' = dwc /\ foff' = foff /\ ir' = ir
        /\ dwe' = dwe /\ lpa' = lpa /\ rows' = rows
    BY <1>11 DEF vars, walk, line
  <2> QED
    BY <1>2, <1>4, <2>1 DEF RowInv
<1> QED
  BY <1>5, <1>6, <1>7, <1>8, <1>9, <1>10, <1>11 DEF Next, Step, Done

\* -blocks of ProcessData, for every file and list: no row runs over the end of a
\* block, and a short row is the last one of its block or of the file, as long as no
\* block size makes the cursor wrap.
THEOREM BlocksAreRespected == NoWrap /\ Spec => []RowsRespectBlocks
<1>1. NoWrap /\ Init => CoverInv /\ RowInv
  <2> SUFFICES ASSUME NoWrap, Init PROVE CoverInv /\ RowInv
    OBVIOUS
  <2>1. /\ rows = <<>> /\ pc = "start" /\ dwb = gdwBgnOff /\ gdwBgnOff \in 0..MaxRd
        /\ dwi = 1 /\ dwc = 0
    BY DEF Init
  <2>2. CoverInv
    <3>1. BytesOf(rows) = <<>> /\ <<>> \in Seq(Nat)
      BY <2>1, NoBytes
    <3> QED
      BY <2>1, <3>1 DEF CoverInv, CursorInv
  <2>3. RowInv
    <3> SUFFICES ASSUME g_pHexBlock # <<>> PROVE RowInv
      BY DEF RowInv
    <3>1. g_pHexBlock \in Seq(Block) /\ Len(g_pHexBlock) \in Nat
      <4>1. g_pHexBlock \in Seq(Block)
        BY BlockAssumption DEF Init, Block
      <4> QED
        BY <4>1
    <3>2. Climb[0] = gdwBgnOff
      BY <3>1, EntryEndsIs DEF EndBody, Climb
    <3>3. Cursor(g_pHexBlock, Climb, dwEnd, dwb, dwi, dwc)
      <4>1. 1 - 1 = 0 /\ 1 \in 1..(Len(g_pHexBlock) + 1) /\ 0 \in Nat /\ ~(0 > 0)
        BY <3>1
      <4> QED
        BY <2>1, <3>2, <4>1 DEF Cursor, StepAt
    <3>4. DOMAIN rows = {}
      BY <2>1
    <3> QED
      BY <2>1, <3>3, <3>4 DEF RowInv
  <2> QED
    BY <2>2, <2>3
<1>2. CoverInv /\ RowInv /\ IInv /\ [Next]_vars => CoverInv' /\ RowInv'
  BY StepCovers, StepRows
<1> QED
  BY <1>1, <1>2, Inductive, RowsFit, PTL DEF Spec

===============================================================================

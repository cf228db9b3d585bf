--------------------------- MODULE AsciiLines_proofs ---------------------------
(***************************************************************************)
(* Proofs about AsciiLines, for every file and every length of line.       *)
(***************************************************************************)
EXTENDS AsciiLines, SequenceTheorems, TLAPS

Types ==
  /\ lpb \in Files /\ dwBgn \in Offsets
  /\ lpb \in Seq(Class) /\ bUni \in BOOLEAN /\ dwBgn \in Nat
  /\ ir \in Nat /\ ir <= Len(lpb)
  /\ lpo \in Seq(1..ir) /\ printed \in Seq(1..ir) /\ line \in Seq(1..ir)
  /\ pc \in Class \cup {"none"}
  /\ done \in BOOLEAN /\ unbroken \in BOOLEAN

\* pc tells of the previous character what -XU asks of it, whatever a cut put
\* there.
PrevInv == dwBgn = 0 =>
             (Significant(pc) <=> ir > 0 /\ Significant(lpb[ir]))

Increasing(s) == \A i, j \in 1..Len(s) : i < j => s[i] < s[j]

InOrder == (dwBgn = 0 /\ ~unbroken) => Increasing(printed \o lpo)

ShortLine == ~unbroken => Len(lpo) <= CHKEND

IInv == Types /\ ShortLine /\ PrevInv /\ NothingLost /\ InOrder

-------------------------------------------------------------------------------
(* Sequences of positions *)

\* What two sequences hold together.
LEMMA RangeOfConcat ==
  ASSUME NEW s \in Seq(Nat), NEW t \in Seq(Nat)
  PROVE  Range(s \o t) = Range(s) \cup Range(t)
<1>1. /\ DOMAIN s = 1..Len(s) /\ DOMAIN t = 1..Len(t)
      /\ Len(s) \in Nat /\ Len(t) \in Nat
  OBVIOUS
<1>2. /\ DOMAIN (s \o t) = 1..(Len(s) + Len(t))
      /\ \A i \in 1..Len(s) : (s \o t)[i] = s[i]
      /\ \A i \in 1..Len(t) : (s \o t)[Len(s) + i] = t[i]
  OBVIOUS
<1>3. ASSUME NEW x \in Range(s \o t) PROVE x \in Range(s) \cup Range(t)
  <2>1. PICK i \in 1..(Len(s) + Len(t)) : x = (s \o t)[i]
    BY <1>2 DEF Range
  <2>2. CASE i \in 1..Len(s)
    BY <1>1, <1>2, <2>1, <2>2 DEF Range
  <2>3. CASE i \notin 1..Len(s)
    <3>1. i - Len(s) \in 1..Len(t) /\ i = Len(s) + (i - Len(s))
      BY <1>1, <2>3
    <3> QED
      BY <1>1, <1>2, <2>1, <3>1 DEF Range
  <2> QED
    BY <2>2, <2>3
<1>4. ASSUME NEW x \in Range(s) PROVE x \in Range(s \o t)
  <2>1. PICK i \in 1..Len(s) : x = s[i]
    BY <1>1 DEF Range
  <2>2. i \in 1..(Len(s) + Len(t))
    BY <1>1
  <2> QED
    BY <1>2, <2>1, <2>2 DEF Range
<1>5. ASSUME NEW x \in Range(t) PROVE x \in Range(s \o t)
  <2>1. PICK i \in 1..Len(t) : x = t[i]
    BY <1>1 DEF Range
  <2>2. Len(s) + i \in 1..(Len(s) + Len(t))
    BY <1>1
  <2> QED
    BY <1>2, <2>1, <2>2 DEF Range
<1> QED
  BY <1>3, <1>4, <1>5

\* What a sequence with one more value holds.
LEMMA RangeOfAppend ==
  ASSUME NEW S, NEW s \in Seq(S), NEW x
  PROVE  Range(Append(s, x)) = Range(s) \cup {x}
<1>1. /\ DOMAIN Append(s, x) = 1..(Len(s) + 1) /\ DOMAIN s = 1..Len(s)
      /\ \A i \in 1..Len(s) : Append(s, x)[i] = s[i]
      /\ Append(s, x)[Len(s) + 1] = x /\ Len(s) \in Nat
  BY AppendProperties
<1>2. 1..(Len(s) + 1) = 1..Len(s) \cup {Len(s) + 1}
  BY <1>1
<1> QED
  BY <1>1, <1>2 DEF Range

\* The two parts of a line that is cut.
LEMMA CutType ==
  ASSUME NEW S, NEW t \in Seq(S), NEW cut \in 1..Len(t)
  PROVE  SubSeq(t, 1, cut) \in Seq(S) /\ Rest(t, cut) \in Seq(S)
<1>1. /\ \A i \in 1..cut : t[i] \in S
      /\ \A i \in (cut + 1)..Len(t) : t[i] \in S
  BY ElementOfSeq
<1>2. 1 \in Int /\ cut \in Int /\ cut + 1 \in Int /\ Len(t) \in Int
  OBVIOUS
<1> QED
  BY <1>1, <1>2, SubSeqProperties DEF Rest

\* Cutting a line in two and printing the first part changes nothing of what
\* is printed and gathered together.
LEMMA CutKeeps ==
  ASSUME NEW s \in Seq(Nat), NEW t \in Seq(Nat), NEW cut \in 1..Len(t)
  PROVE  /\ SubSeq(t, 1, cut) \o Rest(t, cut) = t
         /\ (s \o SubSeq(t, 1, cut)) \o Rest(t, cut) = s \o t
<1>1. SubSeq(t, 1, cut) \in Seq(Nat) /\ Rest(t, cut) \in Seq(Nat)
  BY CutType
<1>2. PICK a \in Seq(Nat), b \in Seq(Nat) : a = SubSeq(t, 1, cut) /\ b = Rest(t, cut)
  BY <1>1
<1>3. a \o b = t
  <2>1. /\ 1 \in 1..(Len(t) + 1) /\ cut \in (1 - 1)..Len(t)
        /\ Len(t) \in cut..Len(t)
    OBVIOUS
  <2>2. a \o b = SubSeq(t, 1, Len(t))
    BY <1>2, <2>1, ConcatAdjacentSubSeq DEF Rest
  <2> QED
    BY <2>2, SubSeqFull
<1>4. (s \o a) \o b = s \o (a \o b)
  OBVIOUS
<1> QED
  BY <1>2, <1>3, <1>4

-------------------------------------------------------------------------------
(* The inductive step *)

\* What a step that takes the next character into the line text makes of what is
\* printed and gathered.
LEMMA TextStep ==
  ASSUME Types, ir < Len(lpb),
         NEW text, text = Append(lpo, ir + 1)
  PROVE  /\ text \in Seq(1..(ir + 1))
         /\ printed \in Seq(1..(ir + 1)) /\ line \in Seq(1..(ir + 1))
         /\ Range(printed) \cup Range(text) = Range(printed) \cup Range(lpo) \cup {ir + 1}
         /\ Increasing(printed \o lpo) => Increasing(printed \o text)
<1>1. /\ ir \in Nat /\ lpo \in Seq(1..ir) /\ printed \in Seq(1..ir)
      /\ line \in Seq(1..ir)
  BY DEF Types
<1>2. 1..ir \subseteq 1..(ir + 1) /\ ir + 1 \in 1..(ir + 1)
  BY <1>1
<1>3. /\ lpo \in Seq(1..(ir + 1)) /\ printed \in Seq(1..(ir + 1))
      /\ line \in Seq(1..(ir + 1))
  BY <1>1, <1>2, SeqMonotonic
<1>4. text \in Seq(1..(ir + 1))
  BY <1>2, <1>3, AppendProperties
<1>5. Range(text) = Range(lpo) \cup {ir + 1}
  BY <1>1, RangeOfAppend
<1>6. ASSUME Increasing(printed \o lpo) PROVE Increasing(printed \o text)
  <2> DEFINE all == printed \o lpo
  <2>1. all \in Seq(1..ir) /\ Len(all) \in Nat
    BY <1>1, ConcatProperties
  <2>2. printed \o text = Append(all, ir + 1)
    <3>1. text = lpo \o <<ir + 1>> /\ <<ir + 1>> \in Seq(1..(ir + 1))
      BY <1>2, <1>3, AppendIsConcat
    <3>2. printed \o (lpo \o <<ir + 1>>) = all \o <<ir + 1>>
      BY <1>3, <3>1, ConcatAssociative
    <3> QED
      BY <1>2, <1>3, <2>1, <3>1, <3>2, ConcatProperties, AppendIsConcat
  <2> HIDE DEF all
  <2>3. /\ Len(Append(all, ir + 1)) = Len(all) + 1
        /\ \A i \in 1..Len(all) : Append(all, ir + 1)[i] = all[i]
        /\ Append(all, ir + 1)[Len(all) + 1] = ir + 1
    BY <2>1, AppendProperties
  <2>4. \A i \in 1..Len(all) : all[i] \in 1..ir
    BY <2>1, ElementOfSeq
  <2>5. Increasing(all)
    BY <1>6 DEF all
  <2>6. ASSUME NEW i \in 1..(Len(all) + 1), NEW j \in 1..(Len(all) + 1), i < j
        PROVE  Append(all, ir + 1)[i] < Append(all, ir + 1)[j]
    <3>1. i \in 1..Len(all)
      BY <2>1, <2>6
    <3>2. CASE j \in 1..Len(all)
      BY <2>3, <2>5, <2>6, <3>1, <3>2 DEF Increasing
    <3>3. CASE j = Len(all) + 1
      BY <1>1, <2>3, <2>4, <3>1, <3>3
    <3> QED
      BY <2>1, <3>2, <3>3
  <2> QED
    BY <2>2, <2>3, <2>6 DEF Increasing
<1> QED
  BY <1>3, <1>4, <1>5, <1>6

\* What is to be seen of one character more.
LEMMA VisibleStep ==
  ASSUME Types, PrevInv, dwBgn = 0, ir < Len(lpb)
  PROVE  Visible(ir + 1) = IF bUni /\ HighHalf(lpb[ir + 1], pc)
                           THEN Visible(ir) ELSE Visible(ir) \cup {ir + 1}
<1>1. ir \in Nat
  BY DEF Types
<1>2. 1..(ir + 1) = 1..ir \cup {ir + 1} /\ ir + 1 \notin 1..ir
  BY <1>1
<1>3. ir + 1 \in Visible(ir + 1)
        <=> ~(bUni /\ ir > 0 /\ lpb[ir + 1] = "control" /\ Significant(lpb[ir]))
  BY <1>1, <1>2 DEF Visible, Significant
<1>4. HighHalf(lpb[ir + 1], pc)
        <=> lpb[ir + 1] = "control" /\ ir > 0 /\ Significant(lpb[ir])
  BY DEF HighHalf, PrevInv
<1>5. \A i \in 1..ir : i \in Visible(ir + 1) <=> i \in Visible(ir)
  BY <1>2 DEF Visible
<1>6. Visible(ir) \subseteq 1..ir /\ Visible(ir + 1) \subseteq 1..(ir + 1)
  BY DEF Visible
<1>7. CASE bUni /\ HighHalf(lpb[ir + 1], pc)
  <2>1. ir + 1 \notin Visible(ir + 1)
    BY <1>3, <1>4, <1>7
  <2>2. \A i : i \in Visible(ir + 1) <=> i \in Visible(ir)
    BY <1>2, <1>5, <1>6, <2>1
  <2> QED
    BY <1>7, <2>2
<1>8. CASE ~(bUni /\ HighHalf(lpb[ir + 1], pc))
  <2>1. ir + 1 \in Visible(ir + 1)
    BY <1>3, <1>4, <1>8
  <2>2. \A i : i \in Visible(ir + 1) <=> i \in Visible(ir) \cup {ir + 1}
    BY <1>2, <1>5, <1>6, <2>1
  <2> QED
    BY <1>8, <2>2
<1> QED
  BY <1>7, <1>8

\* The four ways a character is shown: what they leave printed and gathered is
\* the text, whole and, but for a line that could not be cut, once.
LEMMA LineStep ==
  ASSUME Types, ir < Len(lpb),
         NEW text, text = Append(lpo, ir + 1),
         EndOfWord(text) \/ CutBack(text) \/ NoCut(text) \/ GoOn(text)
  PROVE  /\ lpo' \in Seq(1..(ir + 1)) /\ printed' \in Seq(1..(ir + 1))
         /\ line' \in Seq(1..(ir + 1))
         /\ pc' \in Class /\ (Significant(pc') <=> Significant(lpb[ir + 1]))
         /\ unbroken' \in BOOLEAN
         /\ Range(printed') \cup Range(lpo')
              = Range(printed) \cup Range(lpo) \cup {ir + 1}
         /\ ~unbroken' => ~unbroken /\ printed' \o lpo' = printed \o text
<1>0. PICK S : S = 1..(ir + 1)
  OBVIOUS
<1>1. /\ text \in Seq(S) /\ printed \in Seq(S) /\ line \in Seq(S)
      /\ Range(printed) \cup Range(text) = Range(printed) \cup Range(lpo) \cup {ir + 1}
  BY <1>0, TextStep
<1>2. lpb[ir + 1] \in Class /\ unbroken \in BOOLEAN
  <2>1. ir + 1 \in 1..Len(lpb) /\ lpb \in Seq(Class)
    BY DEF Types
  <2> QED
    BY <2>1, ElementOfSeq DEF Types
<1>10. S \subseteq Nat
  BY <1>0 DEF Types
<1>11. printed \in Seq(Nat) /\ text \in Seq(Nat)
  BY <1>1, <1>10, SeqMonotonic
<1>3. Range(printed \o text) = Range(printed) \cup Range(text)
  BY <1>11, RangeOfConcat
<1>4. CASE EndOfWord(text)
  <2>1. /\ printed' = printed \o text /\ line' = text /\ lpo' = <<>>
        /\ pc' = lpb[ir + 1] /\ unbroken' = unbroken
    BY <1>4 DEF EndOfWord, PutLine
  <2>2. printed \o text \in Seq(S) /\ <<>> \in Seq(S)
    BY <1>1, ConcatProperties, EmptySeq
  <2>3. (printed \o text) \o <<>> = printed \o text
    BY <2>2, ConcatEmptySeq
  <2>4. Range(<<>>) = {}
    BY DEF Range
  <2> QED
    BY <1>0, <1>1, <1>2, <1>3, <2>1, <2>2, <2>3, <2>4
<1>5. CASE CutBack(text)
  <2>1. PICK cut \in 1..Len(text) :
          /\ printed' = printed \o SubSeq(text, 1, cut)
          /\ line' = SubSeq(text, 1, cut) /\ lpo' = Rest(text, cut)
    BY <1>5 DEF CutBack, PutLine
  <2>2. pc' = "sign" /\ lpb[ir + 1] = "word" /\ unbroken' = unbroken
    BY <1>5 DEF CutBack
  <2>3. /\ line' \in Seq(S) /\ lpo' \in Seq(S) /\ line' \o lpo' = text
        /\ printed' \o lpo' = printed \o text
    <3>1. SubSeq(text, 1, cut) \in Seq(S) /\ Rest(text, cut) \in Seq(S)
      BY <1>1, CutType
    <3>2. /\ SubSeq(text, 1, cut) \o Rest(text, cut) = text
          /\ (printed \o SubSeq(text, 1, cut)) \o Rest(text, cut) = printed \o text
      BY <1>11, CutKeeps
    <3> QED
      BY <2>1, <3>1, <3>2
  <2>4. printed' \in Seq(S)
    BY <1>1, <2>1, <2>3, ConcatProperties
  <2>5. Range(printed') \cup Range(lpo') = Range(printed \o text)
    <3>1. lpo' \in Seq(Nat) /\ printed' \in Seq(Nat)
      BY <1>10, <2>3, <2>4, SeqMonotonic
    <3>2. Range(printed' \o lpo') = Range(printed') \cup Range(lpo')
      BY <3>1, RangeOfConcat
    <3> QED
      BY <2>3, <3>2
  <2>6. pc' \in Class /\ (Significant(pc') <=> Significant(lpb[ir + 1]))
    BY <2>2 DEF Class, Significant
  <2> QED
    BY <1>0, <1>1, <1>2, <1>3, <2>2, <2>3, <2>4, <2>5, <2>6
<1>6. CASE NoCut(text)
  <2>1. /\ printed' = printed \o text /\ line' = text /\ lpo' = text
        /\ pc' = "word" /\ lpb[ir + 1] = "word" /\ unbroken' = TRUE
    BY <1>6 DEF NoCut, PutLine
  <2>2. printed \o text \in Seq(S)
    BY <1>1, ConcatProperties
  <2>3. pc' \in Class
    BY <2>1 DEF Class
  <2> QED
    BY <1>0, <1>1, <1>3, <2>1, <2>2, <2>3
<1>7. CASE GoOn(text)
  <2>1. /\ printed' = printed /\ line' = line /\ lpo' = text
        /\ pc' = lpb[ir + 1] /\ unbroken' = unbroken
    BY <1>7 DEF GoOn, KeepShown
  <2> QED
    BY <1>0, <1>1, <1>2, <2>1
<1> QED
  BY <1>4, <1>5, <1>6, <1>7

\* The line gathered stays within CHKEND, until one cannot be cut.
LEMMA LineShort ==
  ASSUME Types, ShortLine, ir < Len(lpb),
         NEW text, text = Append(lpo, ir + 1),
         EndOfWord(text) \/ CutBack(text) \/ NoCut(text) \/ GoOn(text)
  PROVE  ShortLine'
<1>1. lpo \in Seq(Nat) /\ ir + 1 \in Nat
  <2>1. ir \in Nat /\ lpo \in Seq(1..ir) /\ 1..ir \subseteq Nat
    BY DEF Types
  <2> QED
    BY <2>1, SeqMonotonic
<1>2. text \in Seq(Nat) /\ Len(text) = Len(lpo) + 1
  BY <1>1, AppendProperties
<1>3. Len(lpo) \in Nat /\ Len(text) \in Nat
  BY <1>1, <1>2, LenProperties
<1>4. CASE EndOfWord(text)
  <2>1. lpo' = <<>> /\ Len(<<>>) = 0
    BY <1>4, EmptySeq DEF EndOfWord
  <2> QED
    BY <2>1, LimitsAssumption DEF ShortLine
<1>5. CASE CutBack(text)
  <2>1. unbroken' = unbroken
    BY <1>5 DEF CutBack
  <2>2. PICK cut \in 1..Len(text) : lpo' = SubSeq(text, cut + 1, Len(text))
    BY <1>5 DEF CutBack, Rest
  <2>3. Len(lpo') = IF cut + 1 <= Len(text) THEN Len(text) - cut ELSE 0
    <3>3. \A i \in (cut + 1)..Len(text) : i \in 1..Len(text)
      BY <1>3
    <3>1. \A i \in (cut + 1)..Len(text) : text[i] \in Nat
      BY <1>2, <3>3, ElementOfSeq
    <3>2. cut + 1 \in Int /\ Len(text) \in Int /\ Len(text) - (cut + 1) + 1 = Len(text) - cut
      BY <1>3
    <3> QED
      BY <2>2, <3>1, <3>2, SubSeqProperties
  <2> QED
    BY <1>2, <1>3, <2>1, <2>3, LimitsAssumption DEF ShortLine
<1>6. CASE NoCut(text)
  BY <1>6 DEF NoCut, ShortLine
<1>7. CASE GoOn(text)
  <2>1. lpo' = text /\ (Len(text) <= BGNCHK \/ ~TooLong(text))
    BY <1>7 DEF GoOn
  <2> QED
    BY <1>3, <2>1, LimitsAssumption DEF ShortLine, TooLong
<1> QED
  BY <1>4, <1>5, <1>6, <1>7

\* A character that is shown, in each of the four cases of ProcessAscii.
LEMMA ShowCharInv == IInv /\ ShowChar => IInv'
<1> SUFFICES ASSUME IInv, ShowChar PROVE IInv'
  OBVIOUS
<1> DEFINE text == Append(lpo, ir + 1)
<1>1. /\ ir < Len(lpb) /\ ir' = ir + 1 /\ ~(bUni /\ HighHalf(lpb[ir + 1], pc))
      /\ UNCHANGED <<lpb, bUni, dwBgn, done>>
  BY DEF ShowChar, input
<1>2. EndOfWord(text) \/ CutBack(text) \/ NoCut(text) \/ GoOn(text)
  BY DEF ShowChar
<1>3. Types /\ ShortLine /\ PrevInv /\ NothingLost /\ InOrder
  BY DEF IInv
<1>4. text = Append(lpo, ir + 1)
  OBVIOUS
<1> HIDE DEF text
<1>5. /\ lpo' \in Seq(1..(ir + 1)) /\ printed' \in Seq(1..(ir + 1))
      /\ line' \in Seq(1..(ir + 1))
      /\ pc' \in Class /\ (Significant(pc') <=> Significant(lpb[ir + 1]))
      /\ unbroken' \in BOOLEAN
      /\ Range(printed') \cup Range(lpo')
           = Range(printed) \cup Range(lpo) \cup {ir + 1}
      /\ ~unbroken' => ~unbroken /\ printed' \o lpo' = printed \o text
  BY <1>1, <1>2, <1>3, <1>4, LineStep
<1>6. Increasing(printed \o lpo) => Increasing(printed \o text)
  BY <1>1, <1>3, <1>4, TextStep
<1>7. Types'
  BY <1>1, <1>3, <1>5 DEF Types
<1>8. PrevInv'
  BY <1>1, <1>3, <1>5 DEF PrevInv, Types
<1>9. NothingLost'
  <2> SUFFICES ASSUME dwBgn = 0
               PROVE  Range(printed') \cup Range(lpo') = Visible(ir)'
    BY <1>1 DEF NothingLost
  <2>1. Visible(ir + 1) = Visible(ir) \cup {ir + 1}
    BY <1>1, <1>3, VisibleStep
  <2>2. Visible(ir)' = Visible(ir + 1)
    BY <1>1 DEF Visible
  <2>3. Range(printed) \cup Range(lpo) = Visible(ir)
    BY <1>3 DEF NothingLost
  <2> QED
    BY <1>5, <2>1, <2>2, <2>3
<1>10. InOrder'
  BY <1>1, <1>3, <1>5, <1>6 DEF InOrder
<1>11. ShortLine'
  BY <1>1, <1>2, <1>3, <1>4, LineShort
<1> QED
  BY <1>7, <1>8, <1>9, <1>10, <1>11 DEF IInv

\* A skipped character is not to be seen, and the other way round.
LEMMA SkipInv == IInv /\ (SkipHalf \/ SkipOutOfRange) => IInv'
<1> SUFFICES ASSUME IInv, SkipHalf \/ SkipOutOfRange PROVE IInv'
  OBVIOUS
<1>1. /\ ir < Len(lpb) /\ ir' = ir + 1
      /\ UNCHANGED <<lpb, bUni, dwBgn, lpo, done, unbroken, printed, line>>
      /\ dwBgn = 0 => /\ bUni /\ HighHalf(lpb[ir + 1], pc)
                       /\ pc' = lpb[ir + 1]
      /\ pc' \in {pc, lpb[ir + 1]}
  <2>1. CASE SkipHalf
    BY <2>1 DEF SkipHalf, KeepShown, input
  <2>2. CASE SkipOutOfRange
    BY <2>2 DEF SkipOutOfRange, KeepShown, input, InRange, foff
  <2> QED
    BY <2>1, <2>2
<1>2. Types /\ ShortLine /\ PrevInv /\ NothingLost /\ InOrder
  BY DEF IInv
<1>3. Types'
  <2>1. 1..ir \subseteq 1..(ir + 1) /\ ir \in Nat
    BY <1>2 DEF Types
  <2>2. /\ lpo \in Seq(1..(ir + 1)) /\ printed \in Seq(1..(ir + 1))
        /\ line \in Seq(1..(ir + 1))
    BY <1>2, <2>1, SeqMonotonic DEF Types
  <2>3. pc' \in Class \cup {"none"}
    <3>1. ir + 1 \in 1..Len(lpb) /\ lpb \in Seq(Class)
      BY <1>1, <1>2 DEF Types
    <3>2. lpb[ir + 1] \in Class
      BY <3>1, ElementOfSeq
    <3> QED
      BY <1>1, <1>2, <3>2 DEF Types
  <2> QED
    BY <1>1, <1>2, <2>2, <2>3 DEF Types
<1>4. PrevInv'
  BY <1>1, <1>2 DEF PrevInv, Types
<1>5. NothingLost'
  <2> SUFFICES ASSUME dwBgn = 0
               PROVE  Range(printed) \cup Range(lpo) = Visible(ir)'
    BY <1>1 DEF NothingLost
  <2>1. Visible(ir + 1) = Visible(ir)
    BY <1>1, <1>2, VisibleStep
  <2>2. Visible(ir)' = Visible(ir + 1)
    BY <1>1 DEF Visible
  <2> QED
    BY <1>2, <2>1, <2>2 DEF NothingLost
<1>6. InOrder' /\ ShortLine'
  BY <1>1, <1>2 DEF InOrder, ShortLine
<1> QED
  BY <1>3, <1>4, <1>5, <1>6 DEF IInv

\* The last line is printed and nothing is left behind.
LEMMA FinishInv == IInv /\ Finish => IInv'
<1> SUFFICES ASSUME IInv, Finish PROVE IInv'
  OBVIOUS
<1>1. /\ UNCHANGED <<lpb, bUni, dwBgn, ir, pc, unbroken>>
      /\ lpo' = <<>> /\ done' = TRUE
  BY DEF Finish, input
<1>2. Types /\ ShortLine /\ PrevInv /\ NothingLost /\ InOrder
  BY DEF IInv
<1>3. lpo \in Seq(1..ir) /\ printed \in Seq(1..ir) /\ <<>> \in Seq(1..ir)
  BY <1>2, EmptySeq DEF Types
<1>4. printed' = printed \o lpo /\ line' \in {line, lpo}
  <2>1. CASE lpo # <<>>
    BY <2>1 DEF Finish, PutLine
  <2>2. CASE lpo = <<>>
    BY <1>3, <2>2, ConcatEmptySeq DEF Finish, KeepShown
  <2> QED
    BY <2>1, <2>2
<1>5. printed' \in Seq(1..ir) /\ printed' \o lpo' = printed \o lpo
  <2>1. printed \o lpo \in Seq(1..ir)
    BY <1>3, ConcatProperties
  <2> QED
    BY <1>1, <1>4, <2>1, ConcatEmptySeq
<1>6. Range(printed') \cup Range(lpo') = Range(printed) \cup Range(lpo)
  <2>1. 1..ir \subseteq Nat
    BY <1>2 DEF Types
  <2>2. printed \in Seq(Nat) /\ lpo \in Seq(Nat)
    BY <1>3, <2>1, SeqMonotonic
  <2>3. Range(printed \o lpo) = Range(printed) \cup Range(lpo)
    BY <2>2, RangeOfConcat
  <2>4. Range(<<>>) = {}
    BY DEF Range
  <2> QED
    BY <1>1, <1>4, <2>3, <2>4
<1>7. Types'
  BY <1>1, <1>2, <1>3, <1>4, <1>5 DEF Types
<1>9. ShortLine'
  <2>1. Len(<<>>) = 0
    BY EmptySeq
  <2> QED
    BY <1>1, <2>1, LimitsAssumption DEF ShortLine
<1>8. PrevInv' /\ NothingLost' /\ InOrder'
  BY <1>1, <1>2, <1>5, <1>6 DEF PrevInv, NothingLost, InOrder, Visible
<1> QED
  BY <1>7, <1>8, <1>9 DEF IInv

\* Before the first character nothing is visible and nothing shown.
LEMMA InitInv == Init => IInv
<1> SUFFICES ASSUME Init PROVE IInv
  OBVIOUS
<1>1. Types
  <2>1. <<>> \in Seq(1..0)
    BY EmptySeq
  <2>2. lpb \in Seq(Class) /\ dwBgn \in Nat
    BY FilesAssumption, LimitsAssumption DEF Init
  <2>3. /\ lpb \in Files /\ dwBgn \in Offsets /\ bUni \in BOOLEAN
        /\ ir = 0 /\ lpo = <<>> /\ printed = <<>> /\ line = <<>>
        /\ pc \in Class \cup {"none"} /\ done \in BOOLEAN /\ unbroken \in BOOLEAN
    BY DEF Init
  <2>4. ir <= Len(lpb)
    <3>1. Len(lpb) \in Nat
      BY <2>2, LenProperties
    <3> QED
      BY <2>3, <3>1
  <2>5. lpo \in Seq(1..ir) /\ printed \in Seq(1..ir) /\ line \in Seq(1..ir)
    BY <2>1, <2>3
  <2> QED
    BY <2>2, <2>3, <2>4, <2>5 DEF Types
<1>5. ShortLine
  <2>1. Len(<<>>) = 0
    BY EmptySeq
  <2> QED
    BY <2>1, LimitsAssumption DEF Init, ShortLine
<1>2. PrevInv
  BY DEF Init, PrevInv, Significant
<1>3. NothingLost
  <2>1. Visible(0) = {} /\ Range(<<>>) = {}
    BY DEF Visible, Range
  <2> QED
    BY <2>1 DEF Init, NothingLost
<1>4. InOrder
  <2>1. <<>> \o <<>> = <<>> /\ Len(<<>>) = 0
    BY ConcatEmptySeq, EmptySeq
  <2> QED
    BY <2>1 DEF Init, InOrder, Increasing
<1> QED
  BY <1>1, <1>2, <1>3, <1>4, <1>5 DEF IInv

\* Every step of ProcessAscii keeps the invariant.
LEMMA StepInv == IInv /\ [Next]_vars => IInv'
<1>1. IInv /\ UNCHANGED vars => IInv'
  BY DEF vars, input, IInv, Types, ShortLine, PrevInv, NothingLost, InOrder, Visible
<1> QED
  BY <1>1, ShowCharInv, SkipInv, FinishInv DEF Next

-------------------------------------------------------------------------------
(* The theorems *)

\* The types, pc telling what it is asked for, and what has been shown so far.
THEOREM Inductive == Spec => []IInv
  BY InitInv, StepInv, PTL DEF Spec

\* Type correctness of the text display.
THEOREM TypeCorrect == Spec => []TypeOK
<1>1. IInv => TypeOK
  BY DEF IInv, Types, ShortLine, TypeOK
<1> QED
  BY <1>1, Inductive, PTL

\* What the text display has printed and gathered is exactly what is to be seen of
\* the file so far; and as long as every line finds a place to be cut, each of
\* these characters is there once and in the order of the file.
THEOREM EveryCharIsShownOnce == Spec => []EveryCharOnce
<1>1. IInv => EveryCharOnce
  <2> SUFFICES ASSUME IInv, dwBgn = 0
               PROVE  /\ Range(printed \o lpo) = Visible(ir)
                      /\ ~unbroken => Increasing(printed \o lpo)
    BY DEF EveryCharOnce, Increasing
  <2>1. 1..ir \subseteq Nat /\ printed \in Seq(1..ir) /\ lpo \in Seq(1..ir)
    BY DEF IInv, Types
  <2>2. printed \in Seq(Nat) /\ lpo \in Seq(Nat)
    BY <2>1, SeqMonotonic
  <2>3. Range(printed \o lpo) = Range(printed) \cup Range(lpo)
    BY <2>2, RangeOfConcat
  <2> QED
    BY <2>3 DEF IInv, InOrder, NothingLost
<1> QED
  BY <1>1, Inductive, PTL
===============================================================================

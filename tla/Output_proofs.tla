----------------------------- MODULE Output_proofs -----------------------------
(***************************************************************************)
(* Proofs about Output, for every set of texts, piece size and old content *)
(* of the file of -O.                                                      *)
(***************************************************************************)
EXTENDS Output, SequenceTheorems, WellFoundedInduction, TLAPS

\* Between two steps the piece is short of MAXIO: a full one has gone out.
PieceInv == Len(pb) < MAXIO

IInv == TypeOK /\ PieceInv /\ OutFileComplete /\ DiagFileComplete

-------------------------------------------------------------------------------
(* Prefixes *)

\* What is appended to a sequence leaves its prefixes prefixes.
LEMMA PrefixGrows ==
  ASSUME NEW S, NEW p \in Seq(S), NEW t \in Seq(S), NEW u \in Seq(S),
         IsPrefix(p, t)
  PROVE  IsPrefix(p, t \o u)
<1>1. Len(p) <= Len(t) /\ SubSeq(p, 1, Len(p)) = SubSeq(t, 1, Len(p))
  BY DEF IsPrefix
<1>2. t \o u \in Seq(S) /\ Len(t \o u) = Len(t) + Len(u)
  BY ConcatProperties
<1>3. SubSeq(t \o u, 1, Len(p)) = SubSeq(t, 1, Len(p))
  BY <1>1, <1>2
<1> QED
  BY <1>1, <1>2, <1>3 DEF IsPrefix

\* Texts may be joined in any order.
LEMMA Joined ==
  ASSUME NEW t \in Seq(Char), NEW u \in Seq(Char), NEW v \in Seq(Char)
  PROVE  /\ (t \o u) \o v = t \o (u \o v)
         /\ t \o u \in Seq(Char) /\ u \o v \in Seq(Char)
BY ConcatAssociative, ConcatProperties

\* A part of what is appended makes a prefix of the whole.
LEMMA PrefixOfConcat ==
  ASSUME NEW S, NEW t \in Seq(S), NEW u \in Seq(S), NEW n \in 0..Len(u)
  PROVE  IsPrefix(t \o SubSeq(u, 1, n), t \o u)
<1> DEFINE v == SubSeq(u, 1, n)
<1>1. v \in Seq(S) /\ Len(v) = n /\ \A i \in 1..n : v[i] = u[i]
  OBVIOUS
<1> HIDE DEF v
<1>2. /\ t \o v \in Seq(S) /\ Len(t \o v) = Len(t) + n
      /\ t \o u \in Seq(S) /\ Len(t \o u) = Len(t) + Len(u)
  BY <1>1
<1>3. \A i \in 1..(Len(t) + n) : (t \o v)[i] = (t \o u)[i]
  BY <1>1, <1>2
<1>4. SubSeq(t \o v, 1, Len(t) + n) = SubSeq(t \o u, 1, Len(t) + n)
  BY <1>2, <1>3
<1> QED
  BY <1>2, <1>4 DEF IsPrefix, v

\* What is appended has a prefix before it.
LEMMA PrefixIs ==
  ASSUME NEW S, NEW t \in Seq(S), NEW u \in Seq(S)
  PROVE  IsPrefix(t, t \o u)
<1>1. t \o u \in Seq(S) /\ Len(t \o u) = Len(t) + Len(u)
  BY ConcatProperties
<1>2. SubSeq(t \o u, 1, Len(t)) = SubSeq(t, 1, Len(t))
  BY <1>1
<1> QED
  BY <1>1, <1>2 DEF IsPrefix

-------------------------------------------------------------------------------
(* Writing a piece *)

\* A write of the first n characters of a piece, however short, leaves the
\* file a segment of what was sent, with the handle telling which kind.
LEMMA WriteKeepsSegment ==
  ASSUME NEW h \in Handle, NEW file \in Seq(Char), NEW base \in Seq(Char),
         NEW all \in Seq(Char), NEW s \in Seq(Char), NEW n \in 0..Len(s),
         Segment(h, file, base, all)
  PROVE  /\ AfterWrite(h, n, s) \in Handle
         /\ Written(h, file, n, s) \in Seq(Char)
         /\ Segment(AfterWrite(h, n, s), Written(h, file, n, s), base, all \o s)
<1> DEFINE part == SubSeq(s, 1, n)
<1>1. part \in Seq(Char) /\ (n = Len(s) => part = s)
  OBVIOUS
<1> HIDE DEF part
<1>2. AfterWrite(h, n, s) \in Handle
  BY DEF AfterWrite, Handle
<1>3. CASE h = "open"
  <2>1. all = base \o file
    BY <1>3 DEF Segment
  <2>2. Written(h, file, n, s) = file \o part
    BY <1>3 DEF Written, part
  <2>3. base \o (file \o part) = all \o part /\ file \o part \in Seq(Char)
    <3>1. base \in Seq(Char) /\ file \in Seq(Char) /\ part \in Seq(Char)
      BY <1>1
    <3>2. (base \o file) \o part = base \o (file \o part) /\ file \o part \in Seq(Char)
      BY <3>1, Joined, SMTT(60)
    <3> QED
      BY <2>1, <3>2, Zenon
  <2>4. IsPrefix(all \o part, all \o s)
    BY PrefixOfConcat DEF part
  <2>5. n = Len(s) => base \o (file \o part) = all \o s
    BY <1>1, <2>3
  <2>6. /\ n < Len(s) => AfterWrite(h, n, s) = "invalid"
        /\ n = Len(s) => AfterWrite(h, n, s) = "open"
    BY <1>3 DEF AfterWrite
  <2>7. n < Len(s) \/ n = Len(s)
    OBVIOUS
  <2> QED
    BY <1>2, <2>2, <2>3, <2>4, <2>5, <2>6, <2>7 DEF Segment
<1>4. CASE h # "open"
  <2>1. AfterWrite(h, n, s) = h /\ Written(h, file, n, s) = file
    BY <1>4 DEF AfterWrite, Written
  <2>2. base \o file \in Seq(Char)
    BY ConcatProperties
  <2>3. h = "invalid" => IsPrefix(base \o file, all \o s)
    BY <2>2, PrefixGrows DEF Segment
  <2> QED
    BY <1>4, <2>1, <2>3 DEF Segment, Handle
<1> QED
  BY <1>3, <1>4

\* oi keeps both files complete.
LEMMA OiInv ==
  ASSUME TypeOK, OutFileComplete, DiagFileComplete,
         NEW s \in Seq(Char), oi(s)
  PROVE  /\ {outFile', dbgFile', sent', outBase', dbgBase'} \subseteq Seq(Char)
         /\ g_hOutFile' \in Handle /\ hDbgFile' \in Handle
         /\ g_bAppend' \in BOOLEAN
         /\ OutFileComplete' /\ DiagFileComplete'
         /\ Len(sent') = Len(sent) + Len(s)
<1>1. /\ {outFile, dbgFile, sent, outBase, dbgBase} \subseteq Seq(Char)
      /\ g_hOutFile \in Handle /\ hDbgFile \in Handle /\ g_bAppend \in BOOLEAN
  BY DEF TypeOK
<1>2. /\ sent' = sent \o s /\ outBase' = outBase /\ g_bAppend' = g_bAppend
  BY DEF oi
<1>3. sent' \in Seq(Char) /\ Len(sent') = Len(sent) + Len(s)
  BY <1>1, <1>2
<1>4. PICK n \in 0..Len(s) :
        /\ g_hOutFile' = AfterWrite(g_hOutFile, n, s)
        /\ outFile' = Written(g_hOutFile, outFile, n, s)
  BY DEF oi
<1>5. /\ g_hOutFile' \in Handle /\ outFile' \in Seq(Char)
      /\ Segment(g_hOutFile', outFile', outBase, sent \o s)
  BY <1>1, <1>4, WriteKeepsSegment DEF OutFileComplete
<1>6. PICK h \in (IF hDbgFile = "null" THEN {"null", "open"} ELSE {hDbgFile}),
           k \in 0..Len(s) :
        LET old == IF hDbgFile = "null" THEN <<>> ELSE dbgFile
        IN  /\ hDbgFile' = AfterWrite(h, k, s)
            /\ dbgFile' = Written(h, old, k, s)
            /\ dbgBase' = IF hDbgFile = "null" THEN sent ELSE dbgBase
  BY DEF oi
<1>7. CASE hDbgFile = "null"
  <2>1. /\ h \in Handle /\ <<>> \in Seq(Char)
        /\ hDbgFile' = AfterWrite(h, k, s) /\ dbgFile' = Written(h, <<>>, k, s)
        /\ dbgBase' = sent
    BY <1>6, <1>7 DEF Handle
  <2>2. h \in {"null", "open"}
    BY <1>6, <1>7
  <2>3. sent \o <<>> = sent
    BY <1>1, ConcatEmptySeq
  <2>4. Segment(h, <<>>, sent, sent)
    BY <2>2, <2>3 DEF Segment
  <2>5. /\ hDbgFile' \in Handle /\ dbgFile' \in Seq(Char)
        /\ Segment(hDbgFile', dbgFile', dbgBase', sent \o s)
    BY <1>1, <2>1, <2>4, WriteKeepsSegment
  <2> QED
    BY <1>1, <1>2, <1>3, <1>5, <2>1, <2>5 DEF OutFileComplete, DiagFileComplete
<1>8. CASE hDbgFile # "null"
  <2>1. /\ h = hDbgFile
        /\ hDbgFile' = AfterWrite(h, k, s) /\ dbgFile' = Written(h, dbgFile, k, s)
        /\ dbgBase' = dbgBase
    BY <1>6, <1>8
  <2>2. /\ hDbgFile' \in Handle /\ dbgFile' \in Seq(Char)
        /\ Segment(hDbgFile', dbgFile', dbgBase', sent \o s)
    BY <1>1, <2>1, WriteKeepsSegment DEF DiagFileComplete
  <2> QED
    BY <1>1, <1>2, <1>3, <1>5, <2>1, <2>2 DEF OutFileComplete, DiagFileComplete
<1> QED
  BY <1>7, <1>8

\* What prt puts for one character is one or two characters.
LEMMA PutType ==
  ASSUME NEW c \in Char, NEW before, NEW after
  PROVE  /\ Put(c, before, after) \in Seq(Char)
         /\ Len(Put(c, before, after)) \in {1, 2}
<1>0. <<CR, LF>> \in Seq(Char) /\ Len(<<CR, LF>>) = 2
  BY DEF Char
<1>1. CASE c = LF /\ before # CR
  <2>1. Put(c, before, after) = <<CR, LF>>
    BY <1>1, CharsAssumption DEF Put
  <2> QED
    BY <1>0, <2>1
<1>2. CASE c = CR /\ after # LF
  <2>1. Put(c, before, after) = <<CR, LF>>
    BY <1>2, CharsAssumption DEF Put
  <2> QED
    BY <1>0, <2>1
<1>3. CASE ~(c = LF /\ before # CR) /\ ~(c = CR /\ after # LF)
  <2>1. Put(c, before, after) = <<c>>
    BY <1>3 DEF Put
  <2> QED
    BY <2>1
<1> QED
  BY <1>1, <1>2, <1>3

-------------------------------------------------------------------------------
(* The inductive step *)

\* One or two characters more take a piece at most one beyond the limit.
LEMMA OneOrTwoMore ==
  ASSUME NEW limit \in Nat, NEW k \in Nat, NEW j \in {1, 2}, k < limit
  PROVE  k + j <= limit + 1
OBVIOUS

\* A character, and the piece it may fill.
LEMMA PutCharInv ==
  ASSUME IInv, PutChar
  PROVE  IInv' /\ Len(sent') - Len(sent) <= MAXIO + 1
<1> DEFINE put   == Put(lps[dwi], d, NextChar(lps, dwi))
           piece == pb \o put
<1>1. /\ dwi \in Nat \ {0} /\ dwi <= Len(lps) /\ lps \in Seq(Char)
      /\ pb \in Seq(Char) /\ sent \in Seq(Char) /\ Len(pb) < MAXIO
  BY DEF IInv, TypeOK, PieceInv, PutChar
<1>2. put \in Seq(Char) /\ Len(put) \in {1, 2}
  <2>1. lps[dwi] \in Char
    BY <1>1
  <2> QED
    BY <2>1, PutType
<1>4. /\ d' = put[Len(put)] /\ dwi' = dwi + 1 /\ UNCHANGED <<pc, calls, lps>>
      /\ IF PieceFull(piece) THEN oi(piece) /\ pb' = <<>>
         ELSE pb' = piece /\ UNCHANGED <<outVars, dbgVars, sent>>
  BY DEF PutChar
<1> HIDE DEF put
<1>3. put[Len(put)] \in Char
  <2>1. Len(put) \in 1..Len(put)
    BY <1>2
  <2> QED
    BY <1>2, <2>1, ElementOfSeq
<1>5. piece \in Seq(Char) /\ Len(piece) = Len(pb) + Len(put)
  BY <1>1, <1>2
<1> HIDE DEF piece
<1>6. Len(piece) <= MAXIO + 1
  <2>1. Len(pb) \in Nat /\ MAXIO \in Nat /\ Len(pb) < MAXIO
    BY <1>1, LimitsAssumption
  <2>2. Len(put) \in {1, 2}
    BY <1>2
  <2>3. Len(pb) + Len(put) <= MAXIO + 1
    BY <2>1, <2>2, OneOrTwoMore
  <2> QED
    BY <1>5, <2>3
<1>7. CASE PieceFull(piece)
  <2>1. oi(piece) /\ pb' = <<>>
    BY <1>4, <1>7
  <2>2. /\ {outFile', dbgFile', sent', outBase', dbgBase'} \subseteq Seq(Char)
        /\ g_hOutFile' \in Handle /\ hDbgFile' \in Handle
        /\ g_bAppend' \in BOOLEAN
        /\ OutFileComplete' /\ DiagFileComplete'
        /\ Len(sent') = Len(sent) + Len(piece)
    BY <1>5, <2>1, OiInv DEF IInv
  <2>3. PieceInv' /\ pb' \in Seq(Char)
    BY <2>1, LimitsAssumption DEF PieceInv
  <2>4. TypeOK'
    <3>1. /\ pc' = pc /\ calls' = calls /\ lps' = lps
          /\ d' \in Char \cup {Nul} /\ dwi' \in Nat \ {0}
      BY <1>1, <1>3, <1>4
    <3> QED
      BY <2>2, <2>3, <3>1 DEF IInv, TypeOK
  <2> QED
    BY <1>1, <1>5, <1>6, <2>2, <2>3, <2>4 DEF IInv
<1>8. CASE ~PieceFull(piece)
  <2>1. pb' = piece /\ UNCHANGED <<outVars, dbgVars, sent>>
    BY <1>4, <1>8
  <2>2. PieceInv'
    BY <1>5, <1>8, <2>1, LimitsAssumption DEF PieceFull, PieceInv
  <2>3. TypeOK'
    BY <1>1, <1>3, <1>4, <1>5, <2>1 DEF IInv, TypeOK, outVars, dbgVars
  <2>4. OutFileComplete' /\ DiagFileComplete'
    BY <2>1 DEF IInv, OutFileComplete, DiagFileComplete, outVars, dbgVars
  <2> QED
    BY <1>1, <2>1, <2>2, <2>3, <2>4, LimitsAssumption DEF IInv
<1> QED
  BY <1>7, <1>8

\* The last piece of a text.
LEMMA EndPrtInv ==
  ASSUME IInv, EndPrt
  PROVE  IInv' /\ Len(sent') - Len(sent) <= MAXIO + 1
<1>1. /\ pc' \in {"idle", "exit"} /\ pb' = <<>> /\ UNCHANGED <<calls, lps, dwi, d>>
      /\ pb \in Seq(Char) /\ sent \in Seq(Char) /\ Len(pb) < MAXIO
  BY DEF EndPrt, IInv, TypeOK, PieceInv
<1>2. PieceInv' /\ pb' \in Seq(Char)
  BY <1>1, LimitsAssumption DEF PieceInv
<1>3. CASE pb # <<>>
  <2>1. oi(pb)
    BY <1>3 DEF EndPrt
  <2>2. /\ {outFile', dbgFile', sent', outBase', dbgBase'} \subseteq Seq(Char)
        /\ g_hOutFile' \in Handle /\ hDbgFile' \in Handle
        /\ g_bAppend' \in BOOLEAN
        /\ OutFileComplete' /\ DiagFileComplete'
        /\ Len(sent') = Len(sent) + Len(pb)
    BY <1>1, <2>1, OiInv DEF IInv
  <2>3. TypeOK'
    BY <1>1, <1>2, <2>2 DEF IInv, TypeOK
  <2> QED
    BY <1>1, <1>2, <2>2, <2>3, LimitsAssumption DEF IInv
<1>4. CASE pb = <<>>
  <2>1. UNCHANGED <<outVars, dbgVars, sent>>
    BY <1>4 DEF EndPrt
  <2>2. TypeOK' /\ OutFileComplete' /\ DiagFileComplete'
    BY <1>1, <1>2, <2>1
    DEF IInv, TypeOK, OutFileComplete, DiagFileComplete, outVars, dbgVars
  <2> QED
    BY <1>1, <1>2, <2>1, <2>2, LimitsAssumption DEF IInv
<1> QED
  BY <1>3, <1>4

\* One call more is still within the bound.
LEMMA OneMore ==
  ASSUME NEW n \in Nat, NEW k \in 0..n, k < n
  PROVE  k + 1 \in 0..n
OBVIOUS

\* -O begins a new file with nothing missing.
LEMMA OpenOutInv ==
  ASSUME IInv, NEW sign \in {"", "+", "-"}, OpenOut(sign)
  PROVE  IInv' /\ sent' = sent
<1>1. /\ UNCHANGED <<pc, prtVars, dbgVars, sent, said>>
      /\ calls < MaxCalls /\ calls' = calls + 1 /\ g_bAppend' = AppendFlag(sign)
      /\ g_hOutFile' = "open" /\ outFile' = <<>> /\ outBase' = sent
  BY DEF OpenOut, Opened
<1>2. g_bAppend' \in BOOLEAN /\ calls' \in 0..MaxCalls
  <2>1. AppendFlag(sign) \in BOOLEAN
    BY DEF AppendFlag
  <2>2. calls \in 0..MaxCalls
    BY DEF IInv, TypeOK
  <2>3. calls < MaxCalls /\ MaxCalls \in Nat
    BY <1>1, LimitsAssumption
  <2>4. calls + 1 \in 0..MaxCalls
    BY <2>2, <2>3, OneMore
  <2> QED
    BY <1>1, <2>1, <2>4
<1>3. PieceInv' /\ DiagFileComplete'
  BY <1>1 DEF IInv, PieceInv, DiagFileComplete, prtVars, dbgVars
<1>4. sent \in Seq(Char) /\ <<>> \in Seq(Char) /\ sent \o <<>> = sent
  <2>1. sent \in Seq(Char)
    BY DEF IInv, TypeOK
  <2>2. sent \o <<>> = sent
    BY <2>1, ConcatEmptySeq
  <2>3. <<>> \in Seq(Char)
    BY EmptySeq
  <2> QED
    BY <2>1, <2>2, <2>3
<1>5. OutFileComplete'
  BY <1>1, <1>4 DEF OutFileComplete, Segment
<1>6. TypeOK'
  BY <1>1, <1>2, <1>4 DEF IInv, TypeOK, Handle, prtVars, dbgVars
<1> QED
  BY <1>1, <1>3, <1>5, <1>6 DEF IInv

\* A call of prt only sets its string up; the files stay as they are.
LEMMA CallInv ==
  ASSUME IInv, NEW s \in Texts, NEW as \in {"prt", "last"}, Call(s, as),
         UNCHANGED <<g_hOutFile, outFile, outBase>>, g_bAppend' \in BOOLEAN
  PROVE  IInv' /\ sent' = sent
<1>1. s \in Seq(Char)
  BY TextsAssumption DEF Char
<1>2. /\ UNCHANGED <<dbgVars, sent>>
      /\ calls < MaxCalls /\ calls' = calls + 1 /\ pc' \in {"prt", "last"}
      /\ lps' = s /\ dwi' = 1 /\ d' = Nul /\ pb' = <<>>
  BY DEF Call
<1>3. TypeOK'
  <2>1. calls \in 0..MaxCalls /\ calls < MaxCalls /\ MaxCalls \in Nat
    BY <1>2, LimitsAssumption DEF IInv, TypeOK
  <2>2. calls' \in 0..MaxCalls
    BY <1>2, <2>1, OneMore
  <2> QED
    BY <1>1, <1>2, <2>2 DEF IInv, TypeOK, dbgVars
<1>4. PieceInv' /\ OutFileComplete' /\ DiagFileComplete'
  BY <1>2, LimitsAssumption
  DEF IInv, PieceInv, OutFileComplete, DiagFileComplete, dbgVars
<1> QED
  BY <1>2, <1>3, <1>4 DEF IInv

\* Calling prt changes no file.
LEMMA PrtInv ==
  ASSUME IInv, NEW s \in Texts, Prt(s)
  PROVE  IInv' /\ sent' = sent
<1>1. Call(s, "prt") /\ UNCHANGED <<g_hOutFile, outFile, outBase, g_bAppend>>
  BY DEF Prt, outVars
<1>2. g_bAppend' \in BOOLEAN
  BY <1>1 DEF IInv, TypeOK
<1> QED
  BY <1>1, <1>2, CallInv

\* A file that does not open leaves the one before as it is.
LEMMA OpenOutFailsInv ==
  ASSUME IInv, NEW sign \in {"", "+", "-"}, NEW s \in Texts, OpenOutFails(sign, s)
  PROVE  IInv' /\ sent' = sent
<1>1. /\ Call(s, "last") /\ UNCHANGED <<g_hOutFile, outFile, outBase>>
      /\ g_bAppend' = AppendFlag(sign)
  BY DEF OpenOutFails
<1>2. g_bAppend' \in BOOLEAN
  BY <1>1 DEF AppendFlag
<1> QED
  BY <1>1, <1>2, CallInv

\* Every step keeps the invariant and sends no more than fits the buffer of prt.
LEMMA StepInv ==
  IInv /\ [Next]_vars => IInv' /\ Len(sent') - Len(sent) <= MAXIO + 1
<1> SUFFICES ASSUME IInv, [Next]_vars
             PROVE  IInv' /\ Len(sent') - Len(sent) <= MAXIO + 1
  OBVIOUS
<1>1. Len(sent) \in Nat /\ MAXIO \in Nat
  BY LimitsAssumption DEF IInv, TypeOK
<1>2. ASSUME NEW s \in Texts, Prt(s) PROVE IInv' /\ sent' = sent
  BY <1>2, PrtInv
<1>3. CASE PutChar
  BY <1>3, PutCharInv
<1>4. CASE EndPrt
  BY <1>4, EndPrtInv
<1>5. ASSUME NEW sign \in {"", "+", "-"}, OpenOut(sign)
      PROVE  IInv' /\ sent' = sent
  BY <1>5, OpenOutInv
<1>8. ASSUME NEW sign \in {"", "+", "-"}, NEW s \in Texts, OpenOutFails(sign, s)
      PROVE  IInv' /\ sent' = sent
  BY <1>8, OpenOutFailsInv
<1>6. CASE UNCHANGED vars
  <2>1. IInv' /\ sent' = sent
    BY <1>6 DEF vars, prtVars, outVars, dbgVars, IInv, TypeOK, PieceInv,
                OutFileComplete, DiagFileComplete
  <2> QED
    BY <1>1, <2>1
<1>7. sent' = sent => Len(sent') - Len(sent) <= MAXIO + 1
  BY <1>1
<1> QED
  BY <1>2, <1>3, <1>4, <1>5, <1>6, <1>7, <1>8 DEF Next

-------------------------------------------------------------------------------
(* The theorems *)

\* Before anything is printed no file is open.
LEMMA InitInv == Init => IInv
<1> SUFFICES ASSUME Init PROVE IInv
  OBVIOUS
<1>1. OldText \in Seq(Char) /\ <<>> \in Seq(Char)
  BY TextsAssumption DEF Char
<1>2. TypeOK
  <2>1. calls \in 0..MaxCalls /\ d \in Char \cup {Nul} /\ dwi \in Nat \ {0}
    BY LimitsAssumption DEF Init
  <2>2. /\ {pb, outFile, dbgFile, sent, outBase, dbgBase} \subseteq Seq(Char)
        /\ lps \in Seq(Char)
    BY <1>1 DEF Init
  <2>3. {g_hOutFile, hDbgFile} \subseteq Handle /\ g_bAppend \in BOOLEAN
    BY DEF Init, Handle
  <2>4. pc \in {"idle", "prt", "last", "exit"}
    BY DEF Init
  <2> QED
    BY <2>1, <2>2, <2>3, <2>4 DEF TypeOK
<1>3. PieceInv
  BY LimitsAssumption DEF Init, PieceInv
<1>4. OutFileComplete /\ DiagFileComplete
  BY DEF Init, OutFileComplete, DiagFileComplete, Segment
<1> QED
  BY <1>2, <1>3, <1>4 DEF IInv

\* The types, the piece short of MAXIO, and both files complete, always.
THEOREM Inductive == Spec => []IInv
  BY InitInv, StepInv, PTL DEF Spec

\* Type correctness of the output path.
THEOREM TypeCorrect == Spec => []TypeOK
<1>1. IInv => TypeOK
  BY DEF IInv
<1> QED
  BY <1>1, Inductive, PTL

\* The file of -O misses nothing between its opening and its first failed write,
\* and neither does TEMPDUMP.TXT, which is opened late and retried.
THEOREM FilesAreComplete == Spec => []FilesComplete
<1>1. IInv => FilesComplete
  BY DEF IInv, FilesComplete
<1> QED
  BY <1>1, Inductive, PTL

\* No piece is longer than tbuf has room for.
THEOREM PiecesFit == Spec => PieceFitsBuffer
<1>1. IInv /\ [Next]_vars => [Len(sent') - Len(sent) <= MAXIO + 1]_vars
  BY StepInv
<1> QED
  BY <1>1, Inductive, PTL DEF Spec, PieceFitsBuffer

-------------------------------------------------------------------------------
(* What Normal computes *)

\* The body of the recursive function in Normal, and the function.
Turned(s, f, i) ==
  IF i > Len(s) THEN <<>>
  ELSE IF s[i] \notin {CR, LF} THEN <<s[i]>> \o f[i + 1]
  ELSE <<CR, LF>> \o f[IF s[i] = CR /\ NextChar(s, i) = LF THEN i + 2 ELSE i + 1]
From(s) == CHOOSE f : f = [i \in 1..(Len(s) + 2) |-> Turned(s, f, i)]

\* Every set of numbers that is not empty has a least one.
LEMMA LeastNumber ==
  ASSUME NEW T \in SUBSET Nat, T # {}
  PROVE  \E n \in T : \A m \in T : n <= m
<1> DEFINE R == OpToRel(<, Nat)
<1>1. IsWellFoundedOn(R, Nat)
  BY NatLessThanWellFounded
<1>2. \A m, n \in Nat : m < n => <<m, n>> \in R
  BY DEF OpToRel
<1> HIDE DEF R
<1>3. PICK n \in T : \A m \in T : <<m, n>> \notin R
  BY <1>1, WFMin
<1>4. ASSUME NEW m \in T PROVE n <= m
  <2>1. m \in Nat /\ n \in Nat /\ ~(m < n)
    BY <1>2, <1>3
  <2> QED
    BY <2>1
<1> QED
  BY <1>4

\* One entry more of the function, from its end.
LEMMA OneEntryMore ==
  ASSUME NEW n \in Nat, NEW s, Len(s) = n, NEW j \in 1..n, NEW f,
         f = [i \in 1..(n + 2) |-> f[i]],
         \A i \in 1..(n + 2) : i > j => f[i] = Turned(s, f, i)
  PROVE  \E g : /\ g = [i \in 1..(n + 2) |-> g[i]]
                /\ \A i \in 1..(n + 2) : i >= j => g[i] = Turned(s, g, i)
<1> DEFINE g == [i \in 1..(n + 2) |-> IF i = j THEN Turned(s, f, j) ELSE f[i]]
<1>1. g = [i \in 1..(n + 2) |-> g[i]]
  OBVIOUS
<1>2. g[j] = Turned(s, f, j) /\ \A i \in 1..(n + 2) : i > j => g[i] = f[i]
  OBVIOUS
<1> HIDE DEF g
<1>3. ASSUME NEW i \in 1..(n + 2), i >= j
      PROVE  Turned(s, g, i) = Turned(s, f, i)
  <2>1. CASE i > n
    BY <2>1 DEF Turned
  <2>2. CASE i <= n
    <3>1. i + 1 \in 1..(n + 2) /\ i + 2 \in 1..(n + 2) /\ i + 1 > j /\ i + 2 > j
      BY <1>3, <2>2
    <3>2. g[i + 1] = f[i + 1] /\ g[i + 2] = f[i + 2]
      BY <1>2, <3>1
    <3> QED
      BY <3>2 DEF Turned
  <2> QED
    BY <2>1, <2>2
<1>4. ASSUME NEW i \in 1..(n + 2), i >= j
      PROVE  g[i] = Turned(s, g, i)
  <2>1. CASE i = j
    BY <1>2, <1>3, <2>1
  <2>2. CASE i > j
    BY <1>2, <1>3, <2>2
  <2> QED
    BY <1>4, <2>1, <2>2
<1> QED
  BY <1>1, <1>4

\* There is such a function.
LEMMA FromExists ==
  ASSUME NEW s, Len(s) \in Nat
  PROVE  \E f : f = [i \in 1..(Len(s) + 2) |-> Turned(s, f, i)]
<1>1. PICK n \in Nat : n = Len(s)
  OBVIOUS
<1> DEFINE Right(k, f) == /\ f = [i \in 1..(n + 2) |-> f[i]]
                          /\ \A i \in 1..(n + 2) : i > n - k => f[i] = Turned(s, f, i)
           T == {k \in Nat : ~\E f : Right(k, f)}
<1>2. 0 \notin T
  <2> DEFINE f == [i \in 1..(n + 2) |-> <<>>]
  <2>1. f = [i \in 1..(n + 2) |-> f[i]]
    OBVIOUS
  <2>2. ASSUME NEW i \in 1..(n + 2), i > n - 0 PROVE f[i] = Turned(s, f, i)
    <3>1. i > Len(s) /\ f[i] = <<>>
      BY <1>1, <2>2
    <3> QED
      BY <3>1 DEF Turned
  <2> HIDE DEF f
  <2> QED
    BY <2>1, <2>2
<1>3. ASSUME NEW k \in Nat, k # 0, k - 1 \notin T PROVE k \notin T
  <2>1. k - 1 \in Nat
    BY <1>3
  <2>2. PICK f : Right(k - 1, f)
    BY <1>3, <2>1
  <2>3. CASE k > n
    <3>1. \A i \in 1..(n + 2) : i > n - k => i > n - (k - 1)
      BY <2>3
    <3>2. Right(k, f)
      BY <2>2, <3>1
    <3> QED
      BY <3>2
  <2>4. CASE k <= n
    <3>1. PICK j \in 1..n : j = n + 1 - k
      BY <1>3, <2>4
    <3>2. \A i \in 1..(n + 2) : i > j => i > n - (k - 1)
      BY <3>1
    <3>3. PICK g : /\ g = [i \in 1..(n + 2) |-> g[i]]
                   /\ \A i \in 1..(n + 2) : i >= j => g[i] = Turned(s, g, i)
      BY <1>1, <2>2, <3>2, OneEntryMore
    <3>4. \A i \in 1..(n + 2) : i > n - k => i >= j
      BY <3>1
    <3>5. Right(k, g)
      BY <3>3, <3>4
    <3> QED
      BY <3>5
  <2> QED
    BY <2>3, <2>4
<1>4. T = {}
  <2>1. SUFFICES ASSUME T # {} PROVE FALSE
    OBVIOUS
  <2>2. T \in SUBSET Nat
    OBVIOUS
  <2> HIDE DEF T
  <2>3. PICK k \in T : \A m \in T : k <= m
    BY <2>1, <2>2, LeastNumber
  <2>4. k \in Nat /\ k # 0 /\ ~(k <= k - 1)
    BY <1>2, <2>2, <2>3
  <2> QED
    BY <1>3, <2>3, <2>4
<1>5. PICK f : Right(n, f)
  BY <1>4
<1>6. f = [i \in 1..(n + 2) |-> Turned(s, f, i)]
  <2>1. \A i \in 1..(n + 2) : f[i] = Turned(s, f, i)
    BY <1>5
  <2> QED
    BY <1>5, <2>1
<1> QED
  BY <1>1, <1>6

\* Normal is its value at the first character, and it obeys its equation.
LEMMA NormalIs ==
  ASSUME NEW s, Len(s) \in Nat
  PROVE  /\ Normal(s) = From(s)[1]
         /\ \A i \in 1..(Len(s) + 2) : From(s)[i] = Turned(s, From(s), i)
<1>1. Normal(s) = From(s)[1]
  BY DEF Normal, From, Turned
<1>2. From(s) = [i \in 1..(Len(s) + 2) |-> Turned(s, From(s), i)]
  BY FromExists DEF From
<1>3. ASSUME NEW i \in 1..(Len(s) + 2) PROVE From(s)[i] = Turned(s, From(s), i)
  BY <1>2, Zenon
<1> QED
  BY <1>1, <1>3

\* And it is a text.
LEMMA NormalType ==
  ASSUME NEW s \in Seq(Char), NEW i \in 1..(Len(s) + 2)
  PROVE  From(s)[i] \in Seq(Char)
<1>1. PICK n \in Nat : n = Len(s)
  OBVIOUS
<1>2. \A j \in 1..(n + 2) : From(s)[j] = Turned(s, From(s), j)
  BY <1>1, NormalIs
<1> DEFINE T == {m \in Nat : \E j \in 1..(n + 2) : m = n + 2 - j /\ From(s)[j] \notin Seq(Char)}
<1>3. SUFFICES ASSUME T # {} PROVE FALSE
  <2>1. ASSUME From(s)[i] \notin Seq(Char) PROVE FALSE
    <3>1. PICK j \in 1..(n + 2) : j = i
      BY <1>1
    <3>2. n + 2 - j \in Nat
      OBVIOUS
    <3>3. n + 2 - j \in T
      BY <2>1, <3>1, <3>2
    <3> QED
      BY <1>3, <3>3
  <2> QED
    BY <2>1
<1>4. PICK m \in T : \A k \in T : m <= k
  <2>1. T \in SUBSET Nat
    OBVIOUS
  <2> HIDE DEF T
  <2> QED
    BY <1>3, <2>1, LeastNumber
<1>5. PICK j \in 1..(n + 2) : m = n + 2 - j /\ From(s)[j] \notin Seq(Char)
  OBVIOUS
<1>6. ASSUME NEW k \in 1..(n + 2), k > j PROVE From(s)[k] \in Seq(Char)
  <2>1. n + 2 - k \in Nat /\ ~(m <= n + 2 - k)
    BY <1>5, <1>6
  <2>2. n + 2 - k \notin T
    BY <1>4, <2>1
  <2> QED
    BY <2>1, <2>2
<1>7. CASE j > n
  <2>1. From(s)[j] = <<>>
    BY <1>1, <1>2, <1>7 DEF Turned
  <2> QED
    BY <1>5, <2>1
<1>8. CASE j <= n
  <2>1. From(s)[j + 1] \in Seq(Char) /\ From(s)[j + 2] \in Seq(Char)
    BY <1>6, <1>8
  <2>2. <<s[j]>> \in Seq(Char) /\ <<CR, LF>> \in Seq(Char)
    <3>1. s[j] \in Char
      BY <1>1, <1>8
    <3> QED
      BY <3>1 DEF Char
  <2>3. Turned(s, From(s), j) \in Seq(Char)
    BY <2>1, <2>2, ConcatProperties DEF Turned
  <2> QED
    BY <1>2, <1>5, <2>3
<1> QED
  BY <1>7, <1>8


-------------------------------------------------------------------------------
(* What is left to say *)

\* Of the text s from place i on, after the character bf: a line end whose CR
\* has been put still lacks its LF.
Rest(s, i, bf) ==
  IF bf = CR /\ i <= Len(s) /\ s[i] = LF THEN <<LF>> \o From(s)[i + 1]
  ELSE From(s)[i]

\* What has gone out, the piece and what is left make up what was said.
SaidInv ==
  IF InPrt THEN /\ dwi <= Len(lps) + 1
                /\ said = (sent \o pb) \o Rest(lps, dwi, d)
  ELSE said = sent /\ pb = <<>>

\* The rest of a text is a text.
LEMMA RestType ==
  ASSUME NEW s \in Seq(Char), NEW i \in 1..(Len(s) + 1), NEW bf
  PROVE  Rest(s, i, bf) \in Seq(Char)
<1>1. From(s)[i] \in Seq(Char)
  <2>1. i \in 1..(Len(s) + 2)
    OBVIOUS
  <2> QED
    BY <2>1, NormalType
<1>2. CASE i <= Len(s)
  <2>1. From(s)[i + 1] \in Seq(Char)
    <3>1. i + 1 \in 1..(Len(s) + 2)
      BY <1>2
    <3> QED
      BY <3>1, NormalType
  <2>2. <<LF>> \in Seq(Char)
    BY DEF Char
  <2> QED
    BY <1>1, <2>1, <2>2, ConcatProperties DEF Rest
<1>3. CASE i > Len(s)
  <2>1. Rest(s, i, bf) = From(s)[i]
    BY <1>3 DEF Rest
  <2> QED
    BY <1>1, <2>1
<1> QED
  BY <1>2, <1>3

\* A line end before a text may be put there one character after the other.
LEMMA OneThenOne ==
  ASSUME NEW t \in Seq(Char)
  PROVE  <<CR>> \o (<<LF>> \o t) = <<CR, LF>> \o t
<1> DEFINE a == CR  b == LF  S == Char
<1>0. a \in S /\ b \in S /\ t \in Seq(S)
  BY DEF Char
<1> HIDE DEF a, b, S
<1>1. <<a>> \in Seq(S) /\ <<b>> \in Seq(S) /\ <<a, b>> \in Seq(S)
  BY <1>0
<1>3. <<a>> \o <<b>> = <<a, b>>
  <2>1. /\ Len(<<a>> \o <<b>>) = 2 /\ <<a>> \o <<b>> \in Seq(S)
        /\ (<<a>> \o <<b>>)[1] = a /\ (<<a>> \o <<b>>)[2] = b
    BY <1>1, ConcatProperties
  <2>2. Len(<<a, b>>) = 2 /\ <<a, b>>[1] = a /\ <<a, b>>[2] = b
    OBVIOUS
  <2>3. \A i \in 1..2 : i = 1 \/ i = 2
    OBVIOUS
  <2> QED
    BY <1>1, <2>1, <2>2, <2>3, SeqEqual
<1>2. (<<a>> \o <<b>>) \o t = <<a>> \o (<<b>> \o t)
  BY <1>0, <1>1, ConcatAssociative
<1> QED
  BY <1>2, <1>3 DEF a, b

\* The characters put for one character are those the rest begins with.
LEMMA RestBegins ==
  ASSUME NEW s \in Seq(Char), NEW i \in 1..Len(s), NEW bf \in Char \cup {Nul},
         NEW put, put = Put(s[i], bf, NextChar(s, i))
  PROVE  Rest(s, i, bf) = put \o Rest(s, i + 1, put[Len(put)])
<1>1. /\ i \in 1..(Len(s) + 2) /\ i <= Len(s) /\ s[i] \in Char
      /\ i + 1 \in 1..(Len(s) + 2) /\ i + 2 \in 1..(Len(s) + 2)
      /\ i + 1 > 1 /\ (i + 1) + 1 = i + 2
  OBVIOUS
<1>2. From(s)[i] = Turned(s, From(s), i)
  BY <1>1, NormalIs
<1>3. /\ From(s)[i + 1] \in Seq(Char) /\ From(s)[i + 2] \in Seq(Char)
  BY <1>1, NormalType
<1> DEFINE f == From(s)
<1> HIDE DEF f
<1>4. CR # LF /\ s[i] # Nul /\ CR \in Char /\ LF \in Char
  BY <1>1, CharsAssumption DEF Char
<1>5. CASE s[i] \notin {CR, LF}
  <2>1. put = <<s[i]>> /\ Len(put) = 1 /\ put[Len(put)] = s[i]
    BY <1>5 DEF Put
  <2>2. Rest(s, i + 1, s[i]) = From(s)[i + 1]
    BY <1>5 DEF Rest
  <2>3. Rest(s, i, bf) = <<s[i]>> \o From(s)[i + 1]
    BY <1>1, <1>2, <1>5 DEF Rest, Turned
  <2> QED
    BY <2>1, <2>2, <2>3
<1>6. CASE s[i] = LF /\ bf = CR
  <2>1. put = <<LF>> /\ Len(put) = 1 /\ put[Len(put)] = LF
    BY <1>4, <1>6 DEF Put
  <2>2. Rest(s, i + 1, LF) = From(s)[i + 1]
    BY <1>4 DEF Rest
  <2>3. Rest(s, i, bf) = <<LF>> \o From(s)[i + 1]
    BY <1>1, <1>6 DEF Rest
  <2> QED
    BY <2>1, <2>2, <2>3
<1>7. CASE s[i] = LF /\ bf # CR
  <2>1. put = <<CR, LF>> /\ Len(put) = 2 /\ put[Len(put)] = LF
    BY <1>4, <1>7 DEF Put
  <2>2. Rest(s, i + 1, LF) = From(s)[i + 1]
    BY <1>4 DEF Rest
  <2>3. Rest(s, i, bf) = <<CR, LF>> \o From(s)[i + 1]
    BY <1>1, <1>2, <1>4, <1>7 DEF Rest, Turned
  <2> QED
    BY <2>1, <2>2, <2>3
<1>8. CASE s[i] = CR /\ NextChar(s, i) = LF
  <2>1. put = <<CR>> /\ Len(put) = 1 /\ put[Len(put)] = CR
    BY <1>4, <1>8 DEF Put
  <2>2. i + 1 <= Len(s) /\ s[i + 1] = LF
    BY <1>1, <1>4, <1>8, CharsAssumption DEF NextChar
  <2>3. Rest(s, i + 1, CR) = <<LF>> \o From(s)[i + 2]
    BY <1>1, <2>2 DEF Rest
  <2>4. Rest(s, i, bf) = <<CR, LF>> \o From(s)[i + 2]
    BY <1>1, <1>2, <1>4, <1>8 DEF Rest, Turned
  <2>5. <<CR>> \o (<<LF>> \o From(s)[i + 2]) = <<CR, LF>> \o From(s)[i + 2]
    BY <1>3, OneThenOne
  <2> QED
    BY <2>1, <2>3, <2>4, <2>5
<1>9. CASE s[i] = CR /\ NextChar(s, i) # LF
  <2>1. put = <<CR, LF>> /\ Len(put) = 2 /\ put[Len(put)] = LF
    BY <1>4, <1>9 DEF Put
  <2>2. Rest(s, i + 1, LF) = From(s)[i + 1]
    BY <1>4 DEF Rest
  <2>3. Rest(s, i, bf) = <<CR, LF>> \o From(s)[i + 1]
    BY <1>1, <1>2, <1>4, <1>9 DEF Rest, Turned
  <2> QED
    BY <2>1, <2>2, <2>3
<1> QED
  BY <1>5, <1>6, <1>7, <1>8, <1>9

\* Four texts joined, the first two and the last two or the middle two first.
Regroups(t, u, v, w) == (t \o u) \o (v \o w) = (t \o (u \o v)) \o w

\* Wherever the piece ends, the texts joined are the same.
LEMMA Regrouped ==
  ASSUME NEW t \in Seq(Char), NEW u \in Seq(Char), NEW v \in Seq(Char),
         NEW w \in Seq(Char)
  PROVE  /\ Regroups(t, u, v, w)
         /\ t \o (u \o v) \in Seq(Char) /\ u \o v \in Seq(Char)
         /\ (t \o u) \o <<>> = t \o u
<1>1. /\ t \o u \in Seq(Char) /\ u \o v \in Seq(Char)
      /\ t \o (u \o v) \in Seq(Char)
  BY Joined
<1>2. (t \o u) \o (v \o w) = ((t \o u) \o v) \o w
  <2>1. PICK x \in Seq(Char) : x = t \o u
    BY <1>1
  <2>2. (x \o v) \o w = x \o (v \o w)
    BY Joined
  <2> QED
    BY <2>1, <2>2
<1>3. (t \o u) \o v = t \o (u \o v)
  BY Joined
<1>4. (t \o u) \o <<>> = t \o u
  BY <1>1, ConcatEmptySeq
<1> QED
  BY <1>1, <1>2, <1>3, <1>4 DEF Regroups

\* A character is moved from what is left into the piece.
LEMMA PutCharSaid ==
  ASSUME IInv, SaidInv, PutChar
  PROVE  SaidInv'
<1> DEFINE put == Put(lps[dwi], d, NextChar(lps, dwi))
           left == Rest(lps, dwi + 1, put[Len(put)])
<1>1. /\ dwi \in 1..Len(lps) /\ dwi \in Nat /\ lps \in Seq(Char) /\ d \in Char \cup {Nul}
      /\ pb \in Seq(Char) /\ sent \in Seq(Char)
  BY DEF IInv, TypeOK, PutChar
<1>2. InPrt /\ InPrt' /\ said = (sent \o pb) \o Rest(lps, dwi, d)
  BY DEF PutChar, InPrt, SaidInv
<1>3. /\ d' = put[Len(put)] /\ dwi' = dwi + 1 /\ lps' = lps /\ said' = said
      /\ IF PieceFull(pb \o put) THEN oi(pb \o put) /\ pb' = <<>>
         ELSE pb' = pb \o put /\ UNCHANGED sent
  BY DEF PutChar
<1>4. put \in Seq(Char) /\ Len(put) \in {1, 2}
  BY <1>1, PutType
<1>5. Rest(lps, dwi, d) = put \o left
  BY <1>1, RestBegins
<1>6. left \in Seq(Char)
  <2>1. dwi + 1 \in 1..(Len(lps) + 1)
    BY <1>1
  <2> QED
    BY <1>1, <2>1, RestType
<1>7. Rest(lps', dwi', d') = left
  BY <1>3
<1> HIDE DEF put, left
<1>8. said' = (sent \o (pb \o put)) \o left
  <2>1. said' = (sent \o pb) \o (put \o left)
    BY <1>2, <1>3, <1>5
  <2> QED
    <3>1. (sent \o pb) \o (put \o left) = (sent \o (pb \o put)) \o left
      <4>1. Regroups(sent, pb, put, left)
        BY <1>1, <1>4, <1>6, Regrouped
      <4> QED
        BY <4>1 DEF Regroups
    <3> QED
      BY <2>1, <3>1
<1>9. sent' \o pb' = sent \o (pb \o put)
  <2>1. CASE PieceFull(pb \o put)
    <3>1. sent' = sent \o (pb \o put) /\ pb' = <<>>
      BY <1>3, <2>1 DEF oi
    <3>2. sent \o (pb \o put) \in Seq(Char)
      BY <1>1, <1>4, Regrouped
    <3> QED
      BY <3>1, <3>2, ConcatEmptySeq
  <2>2. CASE ~PieceFull(pb \o put)
    BY <1>3, <2>2
  <2> QED
    BY <2>1, <2>2
<1>10. said' = (sent' \o pb') \o Rest(lps', dwi', d')
  BY <1>7, <1>8, <1>9
<1>11. dwi' <= Len(lps') + 1
  <2>1. dwi + 1 <= Len(lps) + 1
    BY <1>1
  <2> QED
    BY <1>3, <2>1
<1> QED
  BY <1>2, <1>10, <1>11 DEF SaidInv

\* When nothing is left, the last piece completes what was said.
LEMMA EndPrtSaid ==
  ASSUME IInv, SaidInv, EndPrt
  PROVE  SaidInv'
<1>1. /\ lps \in Seq(Char) /\ dwi \in Nat /\ Len(lps) \in Nat
      /\ pb \in Seq(Char) /\ sent \in Seq(Char)
  BY DEF IInv, TypeOK
<1>2. /\ dwi <= Len(lps) + 1 /\ dwi > Len(lps)
      /\ said = (sent \o pb) \o Rest(lps, dwi, d)
  BY DEF EndPrt, SaidInv
<1>3. dwi = Len(lps) + 1
  BY <1>1, <1>2
<1>4. Rest(lps, dwi, d) = <<>>
  <2>1. Rest(lps, dwi, d) = From(lps)[dwi]
    BY <1>1, <1>2 DEF Rest
  <2>2. dwi \in 1..(Len(lps) + 2)
    BY <1>1, <1>3
  <2>3. From(lps)[dwi] = Turned(lps, From(lps), dwi)
    BY <1>1, <2>2, NormalIs
  <2> QED
    BY <1>2, <2>1, <2>3 DEF Turned
<1>5. said = sent \o pb
  BY <1>1, <1>2, <1>4, Regrouped
<1>6. said' = said /\ pb' = <<>> /\ ~InPrt'
  BY DEF EndPrt, InPrt
<1>7. CASE pb # <<>>
  <2>1. sent' = sent \o pb
    BY <1>7 DEF EndPrt, oi
  <2> QED
    BY <1>5, <1>6, <2>1 DEF SaidInv
<1>8. CASE pb = <<>>
  <2>1. sent' = sent
    BY <1>8 DEF EndPrt
  <2>2. sent \o pb = sent
    BY <1>1, <1>8, ConcatEmptySeq
  <2> QED
    BY <1>5, <1>6, <2>1, <2>2 DEF SaidInv
<1> QED
  BY <1>7, <1>8

\* A call leaves all of its text to say, with its line ends as they are to be.
LEMMA CallSaid ==
  ASSUME IInv, SaidInv, NEW s \in Texts, NEW as \in {"prt", "last"}, Call(s, as)
  PROVE  SaidInv'
<1>1. s \in Seq(Char) /\ sent \in Seq(Char) /\ Len(s) \in Nat
  BY TextsAssumption DEF Char, IInv, TypeOK
<1>2. said = sent
  BY DEF Call, SaidInv, InPrt
<1>3. /\ lps' = s /\ dwi' = 1 /\ d' = Nul /\ pb' = <<>> /\ sent' = sent
      /\ said' = sent \o Normal(s) /\ InPrt'
  BY <1>2 DEF Call, InPrt
<1>4. Rest(s, 1, Nul) = Normal(s)
  BY <1>1, NormalIs, CharsAssumption DEF Rest
<1>5. sent \o <<>> = sent
  BY <1>1, ConcatEmptySeq
<1>6. 1 <= Len(s) + 1
  BY <1>1
<1> QED
  BY <1>3, <1>4, <1>5, <1>6 DEF SaidInv

\* Every step keeps what was said and what goes out together.
LEMMA StepSaid == IInv /\ SaidInv /\ [Next]_vars => SaidInv'
<1> SUFFICES ASSUME IInv, SaidInv, [Next]_vars PROVE SaidInv'
  OBVIOUS
<1>1. ASSUME NEW s \in Texts, Prt(s) PROVE SaidInv'
  BY <1>1, CallSaid DEF Prt
<1>2. CASE PutChar
  BY <1>2, PutCharSaid
<1>3. CASE EndPrt
  BY <1>3, EndPrtSaid
<1>4. ASSUME NEW sign \in {"", "+", "-"}, OpenOut(sign) PROVE SaidInv'
  BY <1>4 DEF OpenOut, prtVars, SaidInv, InPrt
<1>5. ASSUME NEW sign \in {"", "+", "-"}, NEW s \in Texts, OpenOutFails(sign, s)
      PROVE  SaidInv'
  BY <1>5, CallSaid DEF OpenOutFails
<1>6. CASE UNCHANGED vars
  BY <1>6 DEF vars, prtVars, SaidInv, InPrt
<1> QED
  BY <1>1, <1>2, <1>3, <1>4, <1>5, <1>6 DEF Next

\* Every text goes out whole and in order, each of its line ends CR LF, CR or
\* LF as one CR LF, for every text and every piece size.
THEOREM LinesAreNormal == Spec => []LinesNormalised
<1>1. Init => SaidInv
  BY DEF Init, SaidInv, InPrt
<1>2. IInv /\ SaidInv => LinesNormalised
  <2> SUFFICES ASSUME IInv, SaidInv PROVE LinesNormalised
    OBVIOUS
  <2>1. /\ pb \in Seq(Char) /\ sent \in Seq(Char) /\ lps \in Seq(Char)
        /\ dwi \in Nat \ {0} /\ Len(lps) \in Nat
    BY DEF IInv, TypeOK
  <2>2. sent \o pb \in Seq(Char)
    BY <2>1, Joined
  <2>3. CASE InPrt
    <3>1. dwi \in 1..(Len(lps) + 1)
      BY <2>1, <2>3 DEF SaidInv
    <3>2. Rest(lps, dwi, d) \in Seq(Char)
      BY <2>1, <3>1, RestType
    <3>3. IsPrefix(sent \o pb, (sent \o pb) \o Rest(lps, dwi, d))
      BY <2>2, <3>2, PrefixIs
    <3> QED
      BY <2>3, <3>3 DEF SaidInv, LinesNormalised
  <2>4. CASE ~InPrt
    <3>1. said = sent /\ sent \o pb = sent
      BY <2>1, <2>4, ConcatEmptySeq DEF SaidInv
    <3>2. IsPrefix(sent, sent)
      BY <2>1 DEF IsPrefix
    <3> QED
      BY <3>1, <3>2 DEF LinesNormalised
  <2> QED
    BY <2>3, <2>4
<1> QED
  BY <1>1, <1>2, InitInv, StepInv, StepSaid, PTL DEF Spec

===============================================================================

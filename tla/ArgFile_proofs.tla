---------------------------- MODULE ArgFile_proofs ----------------------------
(***************************************************************************)
(* Proofs about ArgFile, for every file and every size of the table.       *)
(***************************************************************************)
EXTENDS ArgFile, SequenceTheorems, FiniteSetTheorems, WellFoundedInduction, TLAPS

\* What is still to be read is as it was in the file.
Unread == pc # "refused" => \A p \in fii..fs : fb[p] = text[p]

\* An argument ends before what is still to be read.
Ended == pc # "refused" => \A k \in DOMAIN ptrs : EndOf(ptrs[k]) < fii

\* Where a letter of the file is: in an argument, or behind the quote that ends one.
Kept(i) ==
  \/ \E k \in DOMAIN ptrs : i \in Args[k]
  \/ i > 1 /\ text[i - 1] = "quote"

\* No letter before what is still to be read was lost.
KeptSoFar ==
  (pc # "refused" /\ ~Contains(text, ";")) =>
    \A i \in 1..fs : (i < fii /\ text[i] = "letter") => Kept(i)

AtEnd == pc = "parsed" => fii > fs

IInv == TypeOK /\ Unread /\ Ended /\ ArgsApart /\ KeptSoFar /\ AtEnd

-------------------------------------------------------------------------------
(* Least and greatest numbers *)

\* Every set of numbers that is not empty has a least one.
LEMMA LeastNumber ==
  ASSUME NEW T \in SUBSET Nat, T # {}
  PROVE  \E n \in T : \A m \in T : n <= m
<1> DEFINE R == OpToRel(<, Nat)
<1>1. IsWellFoundedOn(R, Nat)
  BY NatLessThanWellFounded
<1>2. \A m, n \in Nat : m < n => <<m, n>> \in R
  BY DEF OpToRel
<1> HIDE DEF R
<1>3. PICK n \in T : \A m \in T : <<m, n>> \notin R
  BY <1>1, WFMin
<1>4. ASSUME NEW m \in T PROVE n <= m
  <2>1. m \in Nat /\ n \in Nat /\ ~(m < n)
    BY <1>2, <1>3
  <2> QED
    BY <2>1
<1> QED
  BY <1>4

\* And Min finds it.
LEMMA MinIs ==
  ASSUME NEW T \in SUBSET Nat, T # {}
  PROVE  Min(T) \in T /\ \A m \in T : Min(T) <= m
<1>1. \E n \in T : \A m \in T : n <= m
  BY LeastNumber
<1> QED
  BY <1>1 DEF Min

\* A set of numbers with a bound has a greatest one, and Max finds it.
LEMMA MaxIs ==
  ASSUME NEW T \in SUBSET Nat, T # {}, NEW b \in Nat, \A m \in T : m <= b
  PROVE  Max(T) \in T /\ \A m \in T : Max(T) >= m
<1> DEFINE Under == {b - m : m \in T}
<1>1. Under \in SUBSET Nat /\ Under # {}
  <2>1. PICK m \in T : TRUE
    OBVIOUS
  <2>2. b - m \in Under
    BY <2>1
  <2>3. \A x \in T : b - x \in Nat
    OBVIOUS
  <2> QED
    BY <2>2, <2>3
<1>2. PICK u \in Under : \A v \in Under : u <= v
  BY <1>1, LeastNumber
<1>3. PICK n \in T : u = b - n
  BY <1>2
<1>4. ASSUME NEW m \in T PROVE n >= m
  <2>1. b - n <= b - m
    BY <1>2, <1>3
  <2> QED
    BY <2>1
<1>5. \E x \in T : \A y \in T : x >= y
  BY <1>4
<1> QED
  BY <1>5 DEF Max

-------------------------------------------------------------------------------
(* Places in the buffer *)

\* EndOf and First with their state as parameters.
EndIn(b, n, p) == Min({i \in p..(n + 1) : b[i] = "nul"})
FirstIn(b, n, p, chars) == Min({i \in p..n : b[i] \in chars} \cup {n + 1})

\* A string ends at its first zero.
LEMMA EndIs ==
  ASSUME NEW n \in Nat, NEW b, NEW p \in 1..(n + 1), b[n + 1] = "nul"
  PROVE  /\ EndIn(b, n, p) \in p..(n + 1)
         /\ b[EndIn(b, n, p)] = "nul"
         /\ \A j \in p..(EndIn(b, n, p) - 1) : b[j] # "nul"
<1> DEFINE T == {i \in p..(n + 1) : b[i] = "nul"}
<1>1. T \in SUBSET Nat /\ n + 1 \in T
  OBVIOUS
<1>2. Min(T) \in T /\ \A m \in T : Min(T) <= m
  BY <1>1, MinIs
<1>3. ASSUME NEW j \in p..(Min(T) - 1) PROVE b[j] # "nul"
  <2>1. j \in p..(n + 1) /\ ~(Min(T) <= j)
    BY <1>2
  <2> QED
    BY <1>2, <2>1
<1> QED
  BY <1>2, <1>3 DEF EndIn

\* And the first zero is its end.
LEMMA IsItsEnd ==
  ASSUME NEW n \in Nat, NEW b, NEW p \in 1..(n + 1), NEW e \in p..(n + 1),
         b[e] = "nul", \A j \in p..(e - 1) : b[j] # "nul"
  PROVE  EndIn(b, n, p) = e
<1> DEFINE T == {i \in p..(n + 1) : b[i] = "nul"}
<1>1. T \in SUBSET Nat /\ e \in T
  OBVIOUS
<1>2. Min(T) \in T /\ Min(T) <= e
  BY <1>1, MinIs
<1>3. ~(Min(T) < e)
  BY <1>2
<1>4. Min(T) = e
  BY <1>2, <1>3
<1> QED
  BY <1>4 DEF EndIn

\* The search for the end of an argument or of a comment.
LEMMA FirstIs ==
  ASSUME NEW n \in Nat, NEW b, NEW p \in Nat \ {0}, NEW chars
  PROVE  LET f == FirstIn(b, n, p, chars)
         IN  /\ f \in Nat /\ f <= n + 1
             /\ f = n + 1 \/ (f \in p..n /\ b[f] \in chars)
             /\ \A j \in p..(f - 1) : b[j] \notin chars
<1> DEFINE T == {i \in p..n : b[i] \in chars} \cup {n + 1}
<1>1. T \in SUBSET Nat /\ n + 1 \in T
  OBVIOUS
<1>2. Min(T) \in T /\ \A m \in T : Min(T) <= m
  BY <1>1, MinIs
<1>3. ASSUME NEW j \in p..(Min(T) - 1) PROVE b[j] \notin chars
  <2>1. Min(T) \in Nat /\ Min(T) <= n + 1
    BY <1>1, <1>2
  <2>2. j \in p..n /\ ~(Min(T) <= j)
    BY <2>1
  <2> QED
    BY <1>2, <2>2
<1> QED
  BY <1>1, <1>2, <1>3 DEF FirstIn

\* The blanks before the end of an argument go with it.
LastIn(b, p, e) == Max({i \in p..(e - 1) : b[i] \notin Blank}) + 1
LEMMA TrimmedIs ==
  ASSUME NEW b, NEW p \in Nat, NEW e \in Nat, p < e, b[p] \notin Blank
  PROVE  /\ LastIn(b, p, e) \in (p + 1)..e
         /\ \A j \in LastIn(b, p, e)..(e - 1) : b[j] \in Blank
         /\ b[LastIn(b, p, e) - 1] \notin Blank
<1> DEFINE T == {i \in p..(e - 1) : b[i] \notin Blank}
<1>1. T \in SUBSET Nat /\ p \in T /\ \A m \in T : m <= e
  OBVIOUS
<1>2. Max(T) \in T /\ \A m \in T : Max(T) >= m
  BY <1>1, MaxIs
<1>3. ASSUME NEW j \in (Max(T) + 1)..(e - 1) PROVE b[j] \in Blank
  <2>1. Max(T) \in p..(e - 1)
    BY <1>2
  <2>2. j \in p..(e - 1) /\ ~(Max(T) >= j)
    BY <2>1
  <2> QED
    BY <1>2, <2>2
<1>4. LastIn(b, p, e) - 1 = Max(T) /\ Max(T) \in Nat
  BY <1>1, <1>2 DEF LastIn
<1> QED
  BY <1>2, <1>3, <1>4 DEF LastIn

-------------------------------------------------------------------------------
(* The arguments found before *)

\* Nothing that is done behind the end of an argument reaches it.
LEMMA EndStays ==
  ASSUME NEW n \in Nat, NEW b, NEW c, NEW p \in 1..(n + 1), NEW f \in Int,
         b[n + 1] = "nul", EndIn(b, n, p) < f,
         \A j \in 1..(f - 1) : c[j] = b[j]
  PROVE  EndIn(c, n, p) = EndIn(b, n, p)
<1> DEFINE e == EndIn(b, n, p)
<1>1. e \in p..(n + 1) /\ b[e] = "nul" /\ \A j \in p..(e - 1) : b[j] # "nul"
  BY EndIs
<1> HIDE DEF e
<1>2. e < f
  BY DEF e
<1>3. c[e] = "nul" /\ \A j \in p..(e - 1) : c[j] # "nul"
  BY <1>1, <1>2
<1>4. EndIn(c, n, p) = e
  BY <1>1, <1>3, IsItsEnd
<1> QED
  BY <1>4 DEF e

\* What the invariant says of the arguments, in terms of EndIn.
LEMMA ArgsAre ==
  /\ \A p : EndOf(p) = EndIn(fb, fs, p)
  /\ Args = [k \in DOMAIN ptrs |-> ptrs[k]..(EndIn(fb, fs, ptrs[k]) - 1)]
BY DEF EndOf, EndIn, Args, Chars, fs

\* What the invariant gives a step of the loop.
LEMMA Known ==
  ASSUME IInv
  PROVE  /\ fs \in Nat /\ fs > 0 /\ fii \in 1..(fs + 3) /\ ptrs \in Seq(1..(fs + 1))
         /\ fb \in [1..(fs + 1) -> Char \cup {"nul"}] /\ fb[fs + 1] = "nul"
         /\ \A j \in 1..fs : text[j] \in Char
BY EmptySeq DEF IInv, TypeOK, fs

\* A step that leaves everything before fii alone leaves the arguments alone.
LEMMA OldArguments ==
  ASSUME IInv, pc # "refused", \A j \in 1..(fii - 1) : fb'[j] = fb[j],
         NEW k \in DOMAIN ptrs
  PROVE  /\ ptrs[k] \in 1..(fs + 1) /\ EndIn(fb, fs, ptrs[k]) < fii
         /\ EndIn(fb', fs, ptrs[k]) = EndIn(fb, fs, ptrs[k])
<1>1. ptrs[k] \in 1..(fs + 1)
  BY Known, ElementOfSeq, LenProperties
<1>2. EndIn(fb, fs, ptrs[k]) < fii
  BY ArgsAre DEF IInv, Ended
<1>3. PICK p \in 1..(fs + 1) : p = ptrs[k]
  BY <1>1
<1>4. fs \in Nat /\ fii \in Int /\ fb[fs + 1] = "nul"
  BY Known
<1>5. EndIn(fb', fs, p) = EndIn(fb, fs, p)
  BY <1>2, <1>3, <1>4, EndStays
<1> QED
  BY <1>1, <1>2, <1>3, <1>5

\* The next argument: the string from p to e.
Takes(p, e) ==
  /\ pc = "scan" /\ pc' = "scan" /\ fii <= fs /\ ~TableFull(Len(ptrs) + 2)
  /\ p \in fii..(fs + 1) /\ e \in p..(fs + 1)
  /\ ptrs' = Append(ptrs, p) /\ text' = text
  /\ fb' \in [1..(fs + 1) -> Char \cup {"nul"}] /\ fb'[fs + 1] = "nul"
  /\ fii' \in (e + 1)..(fs + 3)
  /\ \A j \in 1..(fii - 1) : fb'[j] = fb[j]
  /\ \A j \in fii'..fs : fb'[j] = fb[j]
  /\ fb'[e] = "nul" /\ \A j \in p..(e - 1) : fb'[j] # "nul"
  /\ \A j \in fii..fs :
        (j < fii' /\ text[j] = "letter") =>
          j \in p..(e - 1) \/ (j > 1 /\ text[j - 1] = "quote")
LEMMA NewArgument ==
  ASSUME IInv, NEW p, NEW e, Takes(p, e)
  PROVE  /\ IInv' /\ \A k \in DOMAIN ptrs : Args'[k] = Args[k]
         /\ Args'[Len(ptrs) + 1] = p..(e - 1)
<1> USE DEF Takes
<1>1. fs \in Nat /\ fii \in 1..fs /\ fs' = fs /\ ptrs \in Seq(1..(fs + 1))
      /\ p \in 1..(fs + 1) /\ fii' \in 1..(fs + 3) /\ fii' > fii
  BY Known DEF fs
<1>2. \A k \in DOMAIN ptrs :
        /\ ptrs[k] \in 1..(fs + 1) /\ EndIn(fb, fs, ptrs[k]) < fii
        /\ EndIn(fb', fs, ptrs[k]) = EndIn(fb, fs, ptrs[k])
  BY OldArguments
<1>3. EndIn(fb', fs, p) = e
  BY <1>1, IsItsEnd
<1>4. /\ ptrs' \in Seq(1..(fs + 1)) /\ Len(ptrs) \in Nat
      /\ Len(ptrs') = Len(ptrs) + 1 /\ DOMAIN ptrs = 1..Len(ptrs)
      /\ DOMAIN ptrs' = 1..(Len(ptrs) + 1)
      /\ \A k \in DOMAIN ptrs : ptrs'[k] = ptrs[k]
      /\ ptrs'[Len(ptrs) + 1] = p
  BY <1>1, AppendProperties, LenProperties
<1>5. \A k \in DOMAIN ptrs' : Args'[k] = ptrs'[k]..(EndIn(fb', fs, ptrs'[k]) - 1)
  BY <1>1 DEF Args, Chars, EndOf, EndIn, fs
<1>6. \A k \in DOMAIN ptrs : Args'[k] = Args[k]
  BY <1>2, <1>4, <1>5, ArgsAre
<1>7. TypeOK'
  <2>1. Len(ptrs') < MXPTRS - 1
    BY <1>4, TableAssumption DEF TableFull
  <2> QED
    BY <1>1, <1>4, <2>1 DEF IInv, TypeOK
<1>8. Unread' /\ AtEnd'
  BY <1>1 DEF IInv, Unread, AtEnd
<1>9. ASSUME NEW k \in DOMAIN ptrs'
      PROVE  EndIn(fb', fs, ptrs'[k]) < fii'
  <2>1. CASE k \in DOMAIN ptrs
    <3>1. EndIn(fb, fs, ptrs[k]) \in Int
      BY <1>1, <1>2, <2>1, Known, EndIs
    <3> QED
      BY <1>1, <1>2, <1>4, <2>1, <3>1
  <2>2. CASE k = Len(ptrs) + 1
    BY <1>1, <1>3, <1>4, <2>2
  <2> QED
    BY <1>4, <2>1, <2>2
<1>10. Ended'
  BY <1>1, <1>9 DEF Ended, EndOf, EndIn, fs
<1>11. ArgsApart'
  <2>1. ASSUME NEW k \in 1..Len(ptrs)
        PROVE  EndIn(fb', fs, ptrs'[k]) < ptrs'[k + 1]
    <3>1. k \in DOMAIN ptrs /\ ptrs'[k] = ptrs[k] /\ EndIn(fb, fs, ptrs[k]) \in Int
      BY <1>1, <1>2, <1>4, Known, EndIs
    <3>4. EndIn(fb', fs, ptrs'[k]) = EndIn(fb, fs, ptrs[k])
      BY <1>2, <3>1
    <3>2. CASE k = Len(ptrs)
      <4>1. EndIn(fb, fs, ptrs[k]) < fii
        BY <1>2, <3>1
      <4>2. ptrs'[k + 1] = p
        BY <1>4, <3>2
      <4> QED
        BY <1>1, <3>1, <3>4, <4>1, <4>2
    <3>3. CASE k < Len(ptrs)
      <4>1. EndIn(fb, fs, ptrs[k]) < ptrs[k + 1]
        BY <1>4, <3>3, ArgsAre DEF IInv, ArgsApart
      <4>2. ptrs'[k + 1] = ptrs[k + 1]
        BY <1>4, <3>1, <3>3
      <4> QED
        BY <3>4, <4>1, <4>2
    <3>5. k = Len(ptrs) \/ k < Len(ptrs)
      <4>1. \A n \in Nat : \A m \in 1..n : m = n \/ m < n
        OBVIOUS
      <4> QED
        BY <1>4, <4>1
    <3> QED
      BY <3>2, <3>3, <3>5
  <2>2. 1..(Len(ptrs') - 1) = 1..Len(ptrs)
    BY <1>4
  <2> QED
    BY <1>1, <2>1, <2>2 DEF ArgsApart, EndOf, EndIn, fs
<1>12. KeptSoFar'
  <2>1. SUFFICES ASSUME ~Contains(text, ";"), NEW j \in 1..fs, j < fii',
                        text[j] = "letter"
                 PROVE  Kept(j)'
    BY <1>1 DEF KeptSoFar
  <2>2. CASE j < fii
    <3>1. Kept(j)
      BY <2>1, <2>2 DEF IInv, KeptSoFar
    <3> QED
      <4>1. ASSUME NEW k \in DOMAIN ptrs, j \in Args[k]
            PROVE  k \in DOMAIN ptrs' /\ j \in Args'[k]
        BY <1>4, <1>6, <4>1
      <4> QED
        BY <3>1, <4>1 DEF Kept
  <2>3. CASE j >= fii
    <3>1. CASE j \in p..(e - 1)
      <4>1. PICK k \in DOMAIN ptrs' : k = Len(ptrs) + 1
        BY <1>4
      <4>2. Args'[k] = p..(e - 1)
        BY <1>3, <1>4, <1>5, <4>1
      <4> QED
        BY <3>1, <4>2 DEF Kept
    <3>2. CASE j > 1 /\ text[j - 1] = "quote"
      BY <3>2 DEF Kept
    <3>3. j \in fii..fs
      BY <1>1, <2>3
    <3>4. j \in p..(e - 1) \/ (j > 1 /\ text[j - 1] = "quote")
      BY <2>1, <3>3
    <3> QED
      BY <3>1, <3>2, <3>4
  <2> QED
    BY <1>1, <2>2, <2>3
<1>13. Args'[Len(ptrs) + 1] = p..(e - 1)
  <2>1. Len(ptrs) + 1 \in DOMAIN ptrs'
    BY <1>4
  <2> QED
    BY <1>3, <1>4, <1>5, <2>1
<1> QED
  BY <1>6, <1>7, <1>8, <1>10, <1>11, <1>12, <1>13 DEF IInv

\* A step over what is no argument: no letter is passed over.
PassOver ==
  /\ pc = "scan" /\ pc' \in {"scan", "parsed"}
  /\ text' = text /\ fb' = fb /\ ptrs' = ptrs
  /\ fii' \in fii..(fs + 3)
  /\ pc' = "parsed" => fii' > fs
  /\ ~Contains(text, ";") => \A j \in fii..fs : j < fii' => text[j] # "letter"
LEMMA NoArgument ==
  ASSUME IInv, PassOver
  PROVE  IInv' /\ \A k \in DOMAIN ptrs : Args'[k] = Args[k]
<1>1. fs' = fs /\ Args' = Args /\ (\A p : EndOf(p)' = EndOf(p)) /\ (\A j : Kept(j)' = Kept(j))
  BY DEF PassOver, fs, Args, Chars, EndOf, Kept
<1>2. fs \in Nat /\ fii \in 1..(fs + 3) /\ fii' \in 1..(fs + 3) /\ fii' >= fii
  <2>1. fs \in Nat /\ fii \in 1..(fs + 3)
    BY Known
  <2>2. fii' \in fii..(fs + 3)
    BY DEF PassOver
  <2> QED
    BY <2>1, <2>2
<1>3. pc = "scan" /\ pc' \in {"scan", "parsed"}
      /\ text' = text /\ fb' = fb /\ ptrs' = ptrs
  BY DEF PassOver
<1>4. TypeOK'
  BY <1>1, <1>2, <1>3 DEF IInv, TypeOK
<1>5. Unread' /\ AtEnd'
  <2>1. \A p \in fii'..fs : p \in fii..fs
    BY <1>2
  <2> QED
    BY <1>1, <1>3, <2>1 DEF PassOver, IInv, Unread, AtEnd
<1>6. ArgsApart'
  BY <1>1, <1>3 DEF IInv, ArgsApart
<1>7. Ended'
  <2>1. ASSUME NEW k \in DOMAIN ptrs
        PROVE  EndOf(ptrs[k]) < fii'
    <3>1. ptrs[k] \in 1..(fs + 1) /\ EndIn(fb, fs, ptrs[k]) < fii
      BY <1>3, OldArguments
    <3>2. EndIn(fb, fs, ptrs[k]) \in Int
      BY <1>2, <3>1, Known, EndIs
    <3>3. EndIn(fb, fs, ptrs[k]) < fii'
      BY <1>2, <3>1, <3>2
    <3> QED
      BY <3>3, ArgsAre
  <2> QED
    BY <1>1, <1>3, <2>1 DEF Ended
<1>8. KeptSoFar'
  <2>1. SUFFICES ASSUME ~Contains(text, ";"), NEW j \in 1..fs, j < fii',
                        text[j] = "letter"
                 PROVE  Kept(j)'
    BY <1>1, <1>3 DEF KeptSoFar
  <2>2. j < fii
    <3>1. ~(j \in fii..fs)
      BY <2>1 DEF PassOver
    <3> QED
      BY <1>2, <3>1
  <2>3. Kept(j)
    BY <1>3, <2>1, <2>2 DEF IInv, KeptSoFar
  <2> QED
    BY <1>1, <2>3
<1> QED
  BY <1>1, <1>4, <1>5, <1>6, <1>7, <1>8 DEF IInv

\* The table is full: nothing is looked at any more.
LEMMA Refusal ==
  ASSUME IInv, pc = "scan", TableFull(Len(ptrs) + 2), NEW p \in 1..(fs + 1),
         AddPointer(p), text' = text, fb' = fb, fii' = fii
  PROVE  IInv' /\ \A k \in DOMAIN ptrs : Args'[k] = Args[k]
<1>1. /\ pc' = "refused" /\ fs' = fs /\ ptrs' = Append(ptrs, p)
      /\ ptrs \in Seq(1..(fs + 1)) /\ Len(ptrs) \in Nat
  BY Known, LenProperties DEF AddPointer, fs
<1>2. /\ ptrs' \in Seq(1..(fs + 1)) /\ Len(ptrs') = Len(ptrs) + 1
      /\ DOMAIN ptrs' = 1..(Len(ptrs) + 1) /\ DOMAIN ptrs = 1..Len(ptrs)
      /\ \A k \in DOMAIN ptrs : ptrs'[k] = ptrs[k] /\ k \in DOMAIN ptrs'
  BY <1>1, AppendProperties, LenProperties
<1>3. Len(ptrs') < MXPTRS
  BY <1>1, <1>2, TableAssumption DEF IInv, TypeOK
<1>4. TypeOK'
  BY <1>1, <1>2, <1>3 DEF IInv, TypeOK
<1>5. Unread' /\ Ended' /\ ArgsApart' /\ KeptSoFar' /\ AtEnd'
  BY <1>1 DEF Unread, Ended, ArgsApart, KeptSoFar, AtEnd
<1>6. \A k \in DOMAIN ptrs : Args'[k] = Args[k]
  BY <1>2 DEF Args, Chars, EndOf, fs
<1> QED
  BY <1>4, <1>5, <1>6 DEF IInv

\* A comment ends behind the file at the latest, and its file has a ; in it.
LEMMA SkipCommentKeeps ==
  ASSUME IInv, SkipComment
  PROVE  IInv' /\ \A k \in DOMAIN ptrs : Args'[k] = Args[k]
<1>1. fs \in Nat /\ fii \in 1..fs
  <2>1. fs \in Nat /\ fii \in 1..(fs + 3)
    BY Known
  <2>2. fii <= fs
    BY DEF SkipComment
  <2> QED
    BY <2>1, <2>2
<1>2. pc = "scan" /\ pc' = "scan" /\ text' = text /\ fb' = fb /\ ptrs' = ptrs
  BY DEF SkipComment
<1>3. PICK p \in Nat \ {0} : p = fii + 1
  BY <1>1
<1>4. PICK f : f = FirstIn(fb, fs, p, {"line", "nul"})
  OBVIOUS
<1>5. f \in Nat /\ f <= fs + 1 /\ (f = fs + 1 \/ f \in p..fs)
  BY <1>1, <1>4, FirstIs
<1>6. fii' = f + 1
  BY <1>3, <1>4 DEF SkipComment, First, FirstIn
<1>7. fii' \in fii..(fs + 3)
  BY <1>1, <1>3, <1>5, <1>6
<1>8. text[fii] = ";"
  <2>1. fii \in fii..fs
    BY <1>1
  <2>2. fb[fii] = ";"
    BY DEF SkipComment
  <2> QED
    BY <1>2, <2>1, <2>2 DEF IInv, Unread
<1>9. Contains(text, ";")
  BY <1>1, <1>8 DEF Contains, fs
<1> QED
  BY <1>2, <1>7, <1>9, NoArgument DEF PassOver

\* A blank is no letter.
LEMMA SkipBlankKeeps ==
  ASSUME IInv, SkipBlank
  PROVE  IInv' /\ \A k \in DOMAIN ptrs : Args'[k] = Args[k]
<1>1. fs \in Nat /\ fii \in 1..fs /\ fii' = fii + 1
  BY Known DEF SkipBlank
<1>2. pc = "scan" /\ pc' = "scan" /\ text' = text /\ fb' = fb /\ ptrs' = ptrs
  BY DEF SkipBlank
<1>3. fb[fii] = text[fii] /\ fb[fii] \in Blank
  BY <1>1, <1>2 DEF IInv, Unread, SkipBlank
<1>4. text[fii] # "letter"
  BY <1>3 DEF Blank
<1>5. fii' \in fii..(fs + 3) /\ \A j \in fii..fs : j < fii' => j = fii
  BY <1>1
<1>6. \A j \in fii..fs : j < fii' => text[j] # "letter"
  BY <1>4, <1>5
<1> QED
  BY <1>2, <1>5, <1>6, NoArgument DEF PassOver

\* The file was read.
LEMMA FinishKeeps ==
  ASSUME IInv, Finish
  PROVE  IInv' /\ \A k \in DOMAIN ptrs : Args'[k] = Args[k]
<1>1. fs \in Nat /\ fii \in 1..(fs + 3) /\ fii > fs /\ fii' = fii
  BY Known DEF Finish
<1>2. pc = "scan" /\ pc' = "parsed" /\ text' = text /\ fb' = fb /\ ptrs' = ptrs
  BY DEF Finish
<1>3. fii' \in fii..(fs + 3) /\ fii' > fs
  BY <1>1
<1>4. \A j \in fii..fs : ~(j < fii')
  BY <1>1
<1> QED
  BY <1>2, <1>3, <1>4, NoArgument DEF PassOver

\* An argument without quotes: f is where the search for its end stopped, and from t on
\* it is cut off.
Word(f, t) ==
  /\ fii' = f + 1
  /\ \A j \in (fii + 1)..(f - 1) : fb[j] \notin EndsField
  /\ IF f = fs + 1 THEN t = f
     ELSE /\ fb[f] \in EndsField /\ fb[t - 1] \notin Blank
          /\ \A j \in t..(f - 1) : fb[j] \in Blank

\* It ends at its last character that is no blank, and the rest up to the character that
\* ended it is blank.
LEMMA WordTaken ==
  ASSUME IInv, TakeWord, ~TableFull(Len(ptrs) + 2)
  PROVE  \E f \in (fii + 1)..(fs + 1) : \E t \in (fii + 1)..f : Word(f, t) /\ Takes(fii, t)
<1>1. fs \in Nat /\ fii \in 1..fs
  <2>1. fs \in Nat /\ fii \in 1..(fs + 3)
    BY Known
  <2>2. fii <= fs
    BY DEF TakeWord
  <2> QED
    BY <2>1, <2>2
<1>2. pc = "scan" /\ text' = text /\ fb[fii] \notin Blank /\ AddPointer(fii)
  BY DEF TakeWord
<1>3. pc' = "scan" /\ ptrs' = Append(ptrs, fii)
  BY <1>2 DEF AddPointer
<1>4. PICK p \in Nat \ {0} : p = fii + 1
  BY <1>1
<1>5. PICK f : f = FirstIn(fb, fs, p, EndsField)
  OBVIOUS
<1>6. /\ f \in Nat /\ f <= fs + 1 /\ (f = fs + 1 \/ (f \in p..fs /\ fb[f] \in EndsField))
      /\ \A j \in p..(f - 1) : fb[j] \notin EndsField
  BY <1>1, <1>5, FirstIs
<1>7. f = First(fii + 1, EndsField)
  BY <1>4, <1>5 DEF First, FirstIn
<1>8. /\ fb' = IF f > fs THEN fb
               ELSE [j \in DOMAIN fb |-> IF j \in Trimmed(fii, f)..f THEN "nul" ELSE fb[j]]
      /\ fii' = f + 1
  BY <1>3, <1>7 DEF TakeWord
<1>9. \A j \in fii..(f - 1) : fb[j] # "nul"
  <2>1. fb[fii] # "nul"
    BY <1>2 DEF Blank
  <2>2. \A j \in p..(f - 1) : fb[j] # "nul"
    BY <1>6 DEF EndsField
  <2>3. \A j \in fii..(f - 1) : j = fii \/ j \in p..(f - 1)
    BY <1>1, <1>4, <1>6
  <2> QED
    BY <2>1, <2>2, <2>3
<1>10. fb \in [1..(fs + 1) -> Char \cup {"nul"}] /\ fb[fs + 1] = "nul"
  BY Known
<1>11. CASE f = fs + 1
  <2>1. fb' = fb
    BY <1>1, <1>8, <1>11
  <2>2. /\ fii \in fii..(fs + 1) /\ f \in fii..(fs + 1) /\ fii' \in (f + 1)..(fs + 3)
        /\ \A j \in fii..fs : j \in fii..(f - 1)
    BY <1>1, <1>8, <1>11
  <2>3. fb'[f] = "nul" /\ fb'[fs + 1] = "nul" /\ \A j \in fii..(f - 1) : fb'[j] # "nul"
    BY <1>9, <1>10, <1>11, <2>1
  <2>4. \A j \in fii..fs :
         (j < fii' /\ text[j] = "letter") =>
           j \in fii..(f - 1) \/ (j > 1 /\ text[j - 1] = "quote")
    BY <2>2
  <2>5. fb' \in [1..(fs + 1) -> Char \cup {"nul"}]
    BY <1>10, <2>1
  <2>6. fii <= fs
    BY <1>1
  <2>7. Takes(fii, f)
    BY <1>2, <1>3, <2>1, <2>2, <2>3, <2>4, <2>5, <2>6 DEF Takes
  <2>8. f \in (fii + 1)..(fs + 1) /\ f \in (fii + 1)..f /\ Word(f, f)
    BY <1>1, <1>4, <1>6, <1>8, <1>11 DEF Word
  <2> QED
    BY <2>7, <2>8
<1>12. CASE f \in p..fs /\ fb[f] \in EndsField
  <2>1. PICK t : t = Trimmed(fii, f)
    OBVIOUS
  <2>2. /\ t \in (fii + 1)..f /\ fb[t - 1] \notin Blank
        /\ \A j \in t..(f - 1) : fb[j] \in Blank
    <3>1. fii \in Nat /\ fii < f
      BY <1>1, <1>4, <1>12
    <3>2. t = LastIn(fb, fii, f)
      BY <2>1 DEF Trimmed, LastIn
    <3> QED
      BY <1>2, <1>6, <3>1, <3>2, TrimmedIs
  <2>3. fb' = [j \in DOMAIN fb |-> IF j \in t..f THEN "nul" ELSE fb[j]]
    <3>1. ~(f > fs)
      BY <1>1, <1>12
    <3> QED
      BY <1>8, <2>1, <3>1
  <2>4. /\ t \in fii..(fs + 1) /\ fii' \in (t + 1)..(fs + 3) /\ t \in 1..(fs + 1)
        /\ \A j \in fii..(t - 1) : j \in fii..(f - 1) /\ j \in 1..(fs + 1) /\ ~(j \in t..f)
        /\ \A j \in 1..(fii - 1) : j \in 1..(fs + 1) /\ ~(j \in t..f)
        /\ \A j \in fii'..fs : j \in 1..(fs + 1) /\ ~(j \in t..f)
        /\ t \in t..f /\ fii \in fii..(fs + 1) /\ fs + 1 \in 1..(fs + 1)
    BY <1>1, <1>4, <1>8, <1>12, <2>2
  <2>5. DOMAIN fb = 1..(fs + 1) /\ fb' \in [1..(fs + 1) -> Char \cup {"nul"}]
    BY <1>10, <2>3
  <2>6. fb'[t] = "nul" /\ fb'[fs + 1] = "nul"
    BY <1>10, <2>3, <2>4, <2>5
  <2>7. /\ \A j \in fii..(t - 1) : fb'[j] # "nul"
        /\ \A j \in 1..(fii - 1) : fb'[j] = fb[j]
        /\ \A j \in fii'..fs : fb'[j] = fb[j]
    BY <1>9, <2>3, <2>4, <2>5
  <2>8. ASSUME NEW j \in fii..fs, j < fii', text[j] = "letter"
        PROVE  j \in fii..(t - 1)
    <3>1. fb[j] = "letter"
      BY <1>2, <2>8 DEF IInv, Unread
    <3>2. fb[j] \notin Blank /\ fb[j] \notin EndsField
      BY <3>1 DEF Blank, EndsField
    <3>3. ~(j \in t..(f - 1)) /\ j # f
      BY <1>12, <2>2, <3>2
    <3> QED
      BY <1>1, <1>4, <1>8, <1>12, <2>2, <2>8, <3>3
  <2>9. \A j \in fii..fs :
         (j < fii' /\ text[j] = "letter") =>
           j \in fii..(t - 1) \/ (j > 1 /\ text[j - 1] = "quote")
    BY <2>8
  <2>10. Takes(fii, t)
    BY <1>1, <1>2, <1>3, <2>4, <2>5, <2>6, <2>7, <2>9 DEF Takes
  <2>11. f \in (fii + 1)..(fs + 1) /\ Word(f, t)
    BY <1>1, <1>4, <1>6, <1>8, <1>12, <2>2 DEF Word
  <2> QED
    BY <2>2, <2>10, <2>11
<1> QED
  BY <1>6, <1>11, <1>12

\* So the next argument is this string.
LEMMA TakeWordKeeps ==
  ASSUME IInv, TakeWord
  PROVE  IInv' /\ \A k \in DOMAIN ptrs : Args'[k] = Args[k]
<1>1. fii \in 1..(fs + 1) /\ pc = "scan" /\ text' = text /\ AddPointer(fii)
  <2>1. fs \in Nat /\ fii \in 1..(fs + 3) /\ fii <= fs
    BY Known DEF TakeWord
  <2>2. fii \in 1..(fs + 1)
    BY <2>1
  <2> QED
    BY <2>2 DEF TakeWord
<1>2. CASE TableFull(Len(ptrs) + 2)
  <2>1. fb' = fb /\ fii' = fii
    BY <1>1, <1>2 DEF TakeWord, AddPointer
  <2> QED
    BY <1>1, <1>2, <2>1, Refusal
<1>3. CASE ~TableFull(Len(ptrs) + 2)
  BY <1>3, WordTaken, NewArgument
<1> QED
  BY <1>2, <1>3

\* A quoted argument keeps the quote that ends it, and loses the character behind it.
LEMMA TakeQuotedKeeps ==
  ASSUME IInv, TakeQuoted
  PROVE  IInv' /\ \A k \in DOMAIN ptrs : Args'[k] = Args[k]
<1>1. fs \in Nat /\ fii \in 1..fs
  <2>1. fs \in Nat /\ fii \in 1..(fs + 3)
    BY Known
  <2>2. fii <= fs
    BY DEF TakeQuoted
  <2> QED
    BY <2>1, <2>2
<1>2. pc = "scan" /\ text' = text /\ fb[fii] = "quote" /\ AddPointer(fii + 1)
  BY DEF TakeQuoted
<1>3. PICK p \in 1..(fs + 1) : p = fii + 1
  BY <1>1
<1>4. CASE TableFull(Len(ptrs) + 2)
  <2>1. fb' = fb /\ fii' = fii
    BY <1>2, <1>4 DEF TakeQuoted, AddPointer
  <2>2. AddPointer(p)
    BY <1>2, <1>3
  <2> QED
    BY <1>2, <1>4, <2>1, <2>2, Refusal
<1>5. CASE ~TableFull(Len(ptrs) + 2)
  <2>1. pc' = "scan" /\ ptrs' = Append(ptrs, p)
    BY <1>2, <1>3, <1>5 DEF AddPointer
  <2>2. PICK q \in Nat \ {0} : q = fii + 2
    BY <1>1
  <2>3. PICK f : f = FirstIn(fb, fs, q, {"quote"})
    OBVIOUS
  <2>4. f \in Nat /\ f <= fs + 1 /\ (f = fs + 1 \/ (f \in q..fs /\ fb[f] \in {"quote"}))
    BY <1>1, <2>3, FirstIs
  <2>5. f = First(fii + 2, {"quote"})
    BY <2>2, <2>3 DEF First, FirstIn
  <2>6. fb' = (IF f > fs THEN fb ELSE ClosedAt(f)) /\ fii' = f + 2
    BY <2>1, <2>5 DEF TakeQuoted
  <2>7. fb \in [1..(fs + 1) -> Char \cup {"nul"}] /\ fb[fs + 1] = "nul"
    BY Known
  <2>8. \A j \in fii..fs : fb[j] = text[j] /\ fb[j] # "nul"
    <3>1. \A j \in fii..fs : fb[j] = text[j]
      BY <1>2 DEF IInv, Unread
    <3>2. \A j \in fii..fs : j \in 1..fs
      BY <1>1
    <3>3. \A j \in 1..fs : text[j] # "nul"
      BY Known DEF Char
    <3> QED
      BY <3>1, <3>2, <3>3
  <2>9. fii <= fs /\ p \in fii..(fs + 1)
    BY <1>1, <1>3
  <2>10. CASE f = fs + 1
    <3>1. fb' = fb
      BY <1>1, <2>6, <2>10
    <3>2. f \in p..(fs + 1) /\ fii' \in (f + 1)..(fs + 3)
          /\ (\A j \in p..(f - 1) : j \in fii..fs)
          /\ \A j \in fii..fs : j = fii \/ j \in p..(f - 1)
      BY <1>1, <1>3, <2>6, <2>10
    <3>3. fb'[f] = "nul" /\ fb'[fs + 1] = "nul" /\ \A j \in p..(f - 1) : fb'[j] # "nul"
      BY <2>7, <2>8, <2>10, <3>1, <3>2
    <3>4. fb' \in [1..(fs + 1) -> Char \cup {"nul"}]
      BY <2>7, <3>1
    <3>5. text[fii] # "letter"
      BY <1>1, <1>2, <2>8
    <3>6. \A j \in fii..fs :
           (j < fii' /\ text[j] = "letter") =>
             j \in p..(f - 1) \/ (j > 1 /\ text[j - 1] = "quote")
      BY <3>2, <3>5
    <3>7. Takes(p, f)
      BY <1>2, <1>5, <2>1, <2>9, <3>1, <3>2, <3>3, <3>4, <3>6 DEF Takes
    <3> QED
      BY <3>7, NewArgument
  <2>11. CASE f \in q..fs /\ fb[f] \in {"quote"}
    <3>1. PICK e \in 1..(fs + 1) : e = f + 1
      BY <1>1, <2>2, <2>11
    <3>2. fb' = [fb EXCEPT ![e] = "nul"]
      <4>1. ~(f > fs)
        BY <1>1, <2>11
      <4> QED
        BY <2>6, <3>1, <4>1 DEF ClosedAt
    <3>3. /\ e \in p..(fs + 1) /\ fii' \in (e + 1)..(fs + 3)
          /\ \A j \in p..(e - 1) : j \in fii..fs /\ j \in 1..(fs + 1) /\ j # e
          /\ \A j \in 1..(fii - 1) : j \in 1..(fs + 1) /\ j # e
          /\ \A j \in fii'..fs : j \in 1..(fs + 1) /\ j # e
          /\ \A j \in fii..fs :
               j < fii' => j = fii \/ j \in p..(e - 1) \/ (j = e /\ j > 1 /\ j - 1 = f)
      BY <1>1, <1>3, <2>2, <2>6, <2>11, <3>1
    <3>4. fb' \in [1..(fs + 1) -> Char \cup {"nul"}] /\ fb'[e] = "nul"
      BY <2>7, <3>1, <3>2
    <3>5. fb'[fs + 1] = "nul"
      <4>1. fs + 1 \in 1..(fs + 1)
        BY <1>1
      <4> QED
        BY <2>7, <3>2, <4>1
    <3>6. /\ \A j \in p..(e - 1) : fb'[j] # "nul"
          /\ \A j \in 1..(fii - 1) : fb'[j] = fb[j]
          /\ \A j \in fii'..fs : fb'[j] = fb[j]
      BY <2>7, <2>8, <3>2, <3>3
    <3>7. text[fii] # "letter" /\ text[f] = "quote"
      <4>1. fii \in fii..fs /\ f \in fii..fs
        BY <1>1, <2>2, <2>11
      <4>2. text[fii] = "quote" /\ text[f] = "quote"
        BY <1>2, <2>8, <2>11, <4>1
      <4> QED
        BY <4>2
    <3>8. \A j \in fii..fs :
           (j < fii' /\ text[j] = "letter") =>
             j \in p..(e - 1) \/ (j > 1 /\ text[j - 1] = "quote")
      BY <3>3, <3>7
    <3>9. Takes(p, e)
      BY <1>2, <1>5, <2>1, <2>9, <3>3, <3>4, <3>5, <3>6, <3>8 DEF Takes
    <3> QED
      BY <3>9, NewArgument
  <2> QED
    BY <2>4, <2>10, <2>11
<1> QED
  BY <1>4, <1>5

-------------------------------------------------------------------------------

LEMMA InitHolds == Init => IInv
<1> SUFFICES ASSUME Init PROVE IInv
  OBVIOUS
<1>1. text \in Seq(Char) \ {<<>>} /\ fb = Append(text, "nul") /\ fii = 1
      /\ ptrs = <<>> /\ pc = "scan"
  BY TextsAssumption DEF Init
<1>2. fs \in Nat /\ Len(fb) = fs + 1 /\ fb \in Seq(Char \cup {"nul"})
      /\ fb[fs + 1] = "nul" /\ \A j \in 1..fs : fb[j] = text[j]
  <2>1. text \in Seq(Char \cup {"nul"})
    BY <1>1, SeqMonotonic
  <2> QED
    BY <1>1, <2>1, AppendProperties, LenProperties DEF fs
<1>3. fb \in [1..(fs + 1) -> Char \cup {"nul"}]
  BY <1>2, LenProperties
<1>4. DOMAIN ptrs = {} /\ Len(ptrs) = 0 /\ ptrs \in Seq(1..(fs + 1))
  BY <1>1, EmptySeq
<1>5. 0 < MXPTRS - 1 /\ 1 \in 1..(fs + 3)
  BY <1>2, TableAssumption
<1>6. TypeOK
  BY <1>1, <1>2, <1>3, <1>4, <1>5 DEF TypeOK
<1>7. Unread /\ Ended /\ AtEnd
  BY <1>1, <1>2, <1>4 DEF Unread, Ended, AtEnd
<1>8. ArgsApart
  <2>1. 1..(Len(ptrs) - 1) = {}
    BY <1>4
  <2> QED
    BY <2>1 DEF ArgsApart
<1>9. KeptSoFar
  <2>1. \A j \in 1..fs : ~(j < fii)
    BY <1>1, <1>2
  <2> QED
    BY <2>1 DEF KeptSoFar
<1> QED
  BY <1>6, <1>7, <1>8, <1>9 DEF IInv

\* One step of the loop.
LEMMA StepKeeps ==
  ASSUME IInv, [Next]_vars
  PROVE  IInv' /\ \A k \in DOMAIN ptrs : Args'[k] = Args[k]
<1>1. CASE UNCHANGED vars
  BY <1>1
  DEF vars, IInv, TypeOK, Unread, Ended, ArgsApart, KeptSoFar, Kept, AtEnd, Args, Chars,
      EndOf, fs
<1> QED
  BY <1>1, SkipCommentKeeps, SkipBlankKeeps, TakeWordKeeps, TakeQuotedKeeps, FinishKeeps
  DEF Next

LEMMA Always == Spec => []IInv
BY InitHolds, StepKeeps, PTL DEF Spec

\* The buffer of a file is never written behind its end, and the table of pointers
\* is never written behind its own.
THEOREM TypeCorrect == Spec => []TypeOK
<1>1. IInv => TypeOK
  BY DEF IInv
<1> QED
  BY <1>1, Always, PTL

\* Every letter of a file is in one argument and no more, for every file without
\* comments; and the arguments of any file are apart and in order.
THEOREM EveryLetterOnce == Spec => []LettersOnce
<1>1. ASSUME IInv PROVE LettersOnce
  <2>1. ArgsApart
    BY <1>1 DEF IInv
  <2>2. LettersKept
    <3>1. SUFFICES ASSUME pc = "parsed", ~Contains(text, ";"), NEW i \in 1..fs,
                          text[i] = "letter"
                   PROVE  Kept(i)
      BY DEF LettersKept, Kept
    <3>2. fs \in Nat /\ fii \in Int /\ fii > fs
      <4>1. fs \in Nat /\ fii \in 1..(fs + 3)
        BY <1>1, Known
      <4>2. fii > fs
        BY <1>1, <3>1 DEF IInv, AtEnd
      <4> QED
        BY <4>1, <4>2
    <3>3. i < fii
      BY <3>2
    <3> QED
      BY <1>1, <3>1, <3>3 DEF IInv, KeptSoFar
  <2> QED
    BY <2>1, <2>2 DEF LettersOnce
<1> QED
  BY <1>1, Always, PTL

\* Cutting up the rest of a file in place never changes an argument that is already
\* in the table.
THEOREM ArgumentsStay == Spec => ArgsStay
<1>1. IInv /\ [Next]_vars => [\A k \in DOMAIN ptrs : Args'[k] = Args[k]]_vars
  BY StepKeeps
<1> QED
  BY <1>1, Always, PTL DEF Spec, ArgsStay

-------------------------------------------------------------------------------
(* The arguments of a plain file *)

Separator == {"tab", "line"}

\* A field as the positions of its first and its last letter.
IsField(a, b) ==
  /\ text[a] = "letter" /\ text[b] = "letter"
  /\ \A i \in a..b : text[i] \notin Separator /\ ~InComment(i)
  /\ \A i \in FieldStart(a)..(a - 1) : text[i] = " "
  /\ \A i \in (b + 1)..fs : text[i] = "letter" => \E j \in b..i : text[j] \in Separator

\* The fields that begin in front of position n.
Before(n) == {s \in Fields : Min(s) < n}

\* At position n no comment was begun, and no field.
Open(n) == n # 1 /\ InComment(n - 1)
Fresh(n) == ~Open(n) /\ \A i \in FieldStart(n)..(n - 1) : text[i] = " "

\* Of a plain file, the arguments so far are the fields so far.
FieldsSoFar ==
  /\ fii <= fs + 1 /\ Fresh(fii)
  /\ ToSet(Args) = Before(fii)
  /\ IsFiniteSet(Before(fii)) /\ Cardinality(Before(fii)) = Len(ptrs)
FieldsInv == Plain /\ pc # "refused" => FieldsSoFar

\* The ends of an interval.
LEMMA EndsOf ==
  ASSUME NEW a \in Nat, NEW b \in Nat, a <= b
  PROVE  a..b # {} /\ Min(a..b) = a /\ Max(a..b) = b
<1>1. a..b \in SUBSET Nat /\ a \in a..b /\ b \in a..b /\ \A m \in a..b : m <= b
  OBVIOUS
<1>2. Min(a..b) \in a..b /\ Min(a..b) <= a
  BY <1>1, MinIs
<1>3. Max(a..b) \in a..b /\ Max(a..b) >= b
  BY <1>1, MaxIs
<1> QED
  BY <1>1, <1>2, <1>3

\* A field begins behind the last tab or end of line, or with the file.
LEMMA StartIs ==
  ASSUME NEW n \in Nat \ {0}
  PROVE  /\ FieldStart(n) \in 1..n
         /\ \A j \in FieldStart(n)..(n - 1) : text[j] \notin Separator
         /\ FieldStart(n) = 1 \/ text[FieldStart(n) - 1] \in Separator
<1> DEFINE T == {j \in 1..(n - 1) : text[j] \in Separator} \cup {0}
<1>1. T \in SUBSET Nat /\ 0 \in T /\ \A m \in T : m <= n
  OBVIOUS
<1>2. Max(T) \in T /\ \A m \in T : Max(T) >= m
  BY <1>1, MaxIs
<1>3. Max(T) = 0 \/ (Max(T) \in 1..(n - 1) /\ text[Max(T)] \in Separator)
  BY <1>2
<1>4. \A j \in (Max(T) + 1)..(n - 1) : text[j] \notin Separator
  <2>1. ASSUME NEW j \in (Max(T) + 1)..(n - 1) PROVE j \notin T
    BY <1>2, <1>3, <2>1
  <2>2. Max(T) \in Nat
    BY <1>3
  <2>3. \A j \in (Max(T) + 1)..(n - 1) : j \in 1..(n - 1)
    BY <2>2
  <2> QED
    BY <2>1, <2>3
<1>5. FieldStart(n) = Max(T) + 1
  BY DEF FieldStart, Separator
<1> HIDE DEF T
<1> QED
  BY <1>3, <1>4, <1>5

\* There is one such place.
LEMMA IsItsStart ==
  ASSUME NEW n \in Nat \ {0}, NEW f \in 1..n, \A j \in f..(n - 1) : text[j] \notin Separator,
         f = 1 \/ text[f - 1] \in Separator
  PROVE  FieldStart(n) = f
<1>1. PICK g \in 1..n : g = FieldStart(n)
  BY StartIs
<1>2. \A j \in g..(n - 1) : text[j] \notin Separator
  BY <1>1, StartIs
<1>3. g = 1 \/ text[g - 1] \in Separator
  BY <1>1, StartIs
<1>4. ~(g < f)
  <2>1. ASSUME g < f PROVE f - 1 \in g..(n - 1) /\ f # 1
    BY <2>1
  <2> QED
    BY <1>2, <2>1
<1>5. ~(f < g)
  <2>1. ASSUME f < g PROVE g - 1 \in f..(n - 1) /\ g # 1
    BY <2>1
  <2> QED
    BY <1>3, <2>1
<1> QED
  BY <1>1, <1>4, <1>5

Semicolon(i) == text[i] = ";"

\* No comment is begun where there is no ; and none was begun before.
LEMMA NoComment ==
  ASSUME NEW a \in Nat \ {0}, NEW b \in Nat, ~Open(a), \A j \in a..b : ~Semicolon(j)
  PROVE  \A i \in a..b : ~InComment(i)
<1>1. ASSUME NEW i \in a..b, NEW j \in 1..i, Semicolon(j)
      PROVE  a # 1 /\ j \in 1..(a - 1) /\ \A n \in j..(a - 1) : n \in j..i
  <2>1. j \notin a..b
    BY <1>1
  <2> QED
    BY <2>1
<1>2. ASSUME NEW i \in a..b, InComment(i) PROVE FALSE
  <2>1. PICK j \in 1..i : Semicolon(j) /\ \A n \in j..i : text[n] # "line"
    BY <1>2, Zenon DEF InComment, Semicolon
  <2>2. a # 1 /\ j \in 1..(a - 1) /\ \A n \in j..(a - 1) : text[n] # "line"
    BY <1>1, <2>1
  <2>3. InComment(a - 1)
    BY <2>1, <2>2, Zenon DEF InComment, Semicolon
  <2> QED
    BY <2>2, <2>3, Zenon DEF Open
<1> QED
  BY <1>2

\* Behind the end of a line there is no comment.
LEMMA NoCommentBehindLine ==
  ASSUME NEW n \in Nat \ {0}, text[n] = "line"
  PROVE  ~InComment(n)
<1>1. \A j \in 1..n : n \in j..n
  OBVIOUS
<1> QED
  BY <1>1 DEF InComment

\* Behind a separator a field begins.
LEMMA FreshBehind ==
  ASSUME NEW n \in Nat \ {0}, text[n] \in Separator, ~InComment(n)
  PROVE  Fresh(n + 1)
<1>1. n + 1 \in Nat \ {0} /\ n + 1 \in 1..(n + 1) /\ (n + 1)..((n + 1) - 1) = {}
      /\ (n + 1) - 1 = n
  OBVIOUS
<1>2. FieldStart(n + 1) = n + 1
  BY <1>1, IsItsStart
<1> QED
  BY <1>1, <1>2 DEF Fresh, Open

\* The fields are the intervals of positions between the ends of one.
LEMMA FieldsAre ==
  ASSUME NEW n \in Nat, n = fs
  PROVE  \A s : s \in Fields <=> \E a \in 1..n : \E b \in a..n : s = a..b /\ IsField(a, b)
<1> DEFINE All == {i..j : i, j \in 1..fs}
           From(a) == \A i \in FieldStart(a)..(a - 1) : text[i] = " "
           To(b) == \A i \in (b + 1)..fs :
                      text[i] = "letter" => \E j \in b..i : text[j] \in Separator
           Within(s) == \A i \in s : text[i] \notin Separator /\ ~InComment(i)
           Good(s) == /\ s # {} /\ text[Min(s)] = "letter" /\ text[Max(s)] = "letter"
                      /\ Within(s) /\ From(Min(s)) /\ To(Max(s))
<1>1. Fields = {s \in All : Good(s)}
  BY DEF Fields, Separator
<1>2. \A a, b : IsField(a, b) <=> /\ text[a] = "letter" /\ text[b] = "letter"
                                  /\ Within(a..b) /\ From(a) /\ To(b)
  BY DEF IsField
<1>3. \A s : s \in All <=> \E a \in 1..n : \E b \in 1..n : s = a..b
  OBVIOUS
<1> HIDE DEF All, From, To, Within
<1>4. ASSUME NEW s \in Fields
      PROVE  \E a \in 1..n : \E b \in a..n : s = a..b /\ IsField(a, b)
  <2>1. s \in All /\ Good(s)
    BY <1>1
  <2>2. PICK a \in 1..n : \E b \in 1..n : s = a..b
    BY <1>3, <2>1
  <2>3. PICK b \in 1..n : s = a..b
    BY <2>2
  <2>4. a..b # {}
    BY <2>1, <2>3
  <2>5. a <= b /\ a \in Nat /\ b \in Nat /\ b \in a..n
    BY <2>4
  <2>6. Min(s) = a /\ Max(s) = b
    BY <2>3, <2>5, EndsOf
  <2> QED
    BY <1>2, <2>1, <2>3, <2>5, <2>6
<1>5. ASSUME NEW a \in 1..n, NEW b \in a..n, IsField(a, b)
      PROVE  a..b \in Fields
  <2>1. a <= b /\ a \in Nat /\ b \in Nat /\ b \in 1..n
    OBVIOUS
  <2>2. a..b # {} /\ Min(a..b) = a /\ Max(a..b) = b
    BY <2>1, EndsOf
  <2>3. a..b \in All
    BY <1>3, <2>1
  <2> QED
    BY <1>1, <1>2, <1>5, <2>2, <2>3
<1> QED
  BY <1>4, <1>5

\* Where no field begins there is no other field before.
LEMMA BeforeStays ==
  ASSUME NEW l \in Nat, l = fs, NEW m \in Nat, NEW n \in Nat, m <= n,
         \A c \in m..(n - 1) : c \in 1..l => \A d \in c..l : ~IsField(c, d)
  PROVE  Before(n) = Before(m)
<1>1. ASSUME NEW s \in Fields PROVE Min(s) < n <=> Min(s) < m
  <2>1. PICK a \in 1..l : \E b \in a..l : s = a..b /\ IsField(a, b)
    BY FieldsAre
  <2>2. PICK b \in a..l : s = a..b /\ IsField(a, b)
    BY <2>1
  <2>3. Min(s) = a
    BY <2>2, EndsOf
  <2>4. a \notin m..(n - 1)
    BY <2>2
  <2> QED
    BY <2>3, <2>4
<1> QED
  BY <1>1 DEF Before

\* The one field that begins in front of n and not in front of m is the one from m to e.
Alone(m, e, n) ==
  \A c \in m..(n - 1) : c \in 1..fs => \A d \in c..fs : IsField(c, d) => c = m /\ d = e

\* Where one begins there is one more.
LEMMA BeforeGrows ==
  ASSUME NEW l \in Nat, l = fs, NEW m \in 1..l, NEW n \in Nat, m < n, NEW e \in m..l,
         IsField(m, e), Alone(m, e, n)
  PROVE  Before(n) = Before(m) \cup {m..e} /\ m..e \notin Before(m)
<1>1. m..e \in Fields /\ Min(m..e) = m
  <2>1. m..e \in Fields
    BY FieldsAre
  <2>2. m \in Nat /\ e \in Nat /\ m <= e
    OBVIOUS
  <2> QED
    BY <2>1, <2>2, EndsOf
<1>2. ASSUME NEW s \in Fields PROVE Min(s) < n <=> Min(s) < m \/ s = m..e
  <2>1. PICK a \in 1..l : \E b \in a..l : s = a..b /\ IsField(a, b)
    BY FieldsAre
  <2>2. PICK b \in a..l : s = a..b /\ IsField(a, b)
    BY <2>1
  <2>3. Min(s) = a
    BY <2>2, EndsOf
  <2>4. a \in m..(n - 1) => s = m..e
    BY <2>2 DEF Alone
  <2> QED
    BY <1>1, <2>3, <2>4
<1> QED
  BY <1>1, <1>2 DEF Before

\* A word from a to the last letter in front of t, its end being cut off up to the
\* separator at f.
WordAt(a, t, f) ==
  /\ Fresh(a) /\ text[a] = "letter" /\ text[t - 1] = "letter" /\ text[f] \in Separator
  /\ \A j \in a..(f - 1) : text[j] \notin Separator /\ ~Semicolon(j)
  /\ \A j \in t..(f - 1) : text[j] # "letter"

\* It is a field, and no other field begins between a and f.
LEMMA WordIsField ==
  ASSUME NEW n \in Nat, n = fs, NEW a \in 1..n, NEW f \in (a + 1)..n, NEW t \in (a + 1)..f,
         WordAt(a, t, f)
  PROVE  /\ IsField(a, t - 1)
         /\ \A c \in a..f : c \in 1..n => \A d \in c..n :
              IsField(c, d) => c = a /\ d = t - 1
<1>1. IsField(a, t - 1)
  <2>1. \A i \in a..(f - 1) : ~InComment(i)
    <3>1. a \in Nat \ {0} /\ f - 1 \in Nat
      OBVIOUS
    <3> QED
      BY <3>1, NoComment DEF Fresh, WordAt
  <2>2. \A i \in a..(t - 1) : i \in a..(f - 1)
    OBVIOUS
  <2>3. ASSUME NEW i \in ((t - 1) + 1)..n, text[i] = "letter"
        PROVE  \E j \in (t - 1)..i : text[j] \in Separator
    <3>1. ~(i \in t..(f - 1)) /\ i # f
      BY <2>3 DEF Separator, WordAt
    <3>2. f \in (t - 1)..i
      BY <3>1
    <3> QED
      BY <3>2 DEF WordAt
  <2> QED
    BY <2>1, <2>2, <2>3 DEF IsField, Fresh, WordAt
<1>2. ASSUME NEW c \in a..f, c \in 1..n, NEW d \in c..n, IsField(c, d)
      PROVE  c = a /\ d = t - 1
  <2>1. c # f
    BY <1>2 DEF IsField, Separator, WordAt
  <2>2. PICK g \in 1..c : g = FieldStart(c) /\ (g = 1 \/ text[g - 1] \in Separator)
    <3>1. c \in Nat \ {0}
      BY <1>2
    <3> QED
      BY <3>1, StartIs
  <2>3. g <= a
    <3>1. ASSUME g > a PROVE g - 1 \in a..(f - 1) /\ g # 1
      BY <3>1, <1>2
    <3>2. ~(g > a)
      BY <2>2, <3>1 DEF WordAt
    <3> QED
      BY <3>2
  <2>4. c = a
    <3>1. ASSUME c # a PROVE a \in g..(c - 1)
      BY <1>2, <2>3, <3>1
    <3> QED
      BY <1>2, <2>2, <3>1 DEF IsField, WordAt
  <2>5. d < f
    <3>1. ASSUME d >= f PROVE f \in c..d
      BY <3>1
    <3>2. ~(d >= f)
      BY <1>2, <3>1 DEF IsField, WordAt
    <3> QED
      BY <3>2
  <2>6. ~(d < t - 1)
    <3>1. ASSUME d < t - 1
          PROVE  t - 1 \in (d + 1)..n /\ \A j \in d..(t - 1) : j \in a..(f - 1)
      BY <2>4, <3>1
    <3> QED
      BY <1>2, <3>1 DEF IsField, WordAt
  <2>7. ~(d > t - 1)
    <3>1. ASSUME d > t - 1 PROVE d \in t..(f - 1)
      BY <2>5, <3>1
    <3> QED
      BY <1>2, <3>1 DEF IsField, WordAt
  <2> QED
    BY <2>4, <2>6, <2>7
<1> QED
  BY <1>1, <1>2

\* The fields are those of the file, which stays.
LEMMA SameFields ==
  ASSUME text' = text, NEW n, n = fii'
  PROVE  /\ fs' = fs /\ (Plain' <=> Plain) /\ Fields' = Fields
         /\ (Before(fii))' = Before(n) /\ (Fresh(fii))' = Fresh(n)
<1>1. \A i : InComment(i)' = InComment(i)
  BY Zenon DEF InComment
<1>2. \A i : FieldStart(i)' = FieldStart(i)
  BY DEF FieldStart
<1>3. fs' = fs
  BY DEF fs
<1> DEFINE All == {i..j : i, j \in 1..fs}
           Good(s) == /\ s # {} /\ text[Min(s)] = "letter" /\ text[Max(s)] = "letter"
                      /\ \A i \in s : text[i] \notin {"tab", "line"} /\ ~InComment(i)
                      /\ \A i \in FieldStart(Min(s))..(Min(s) - 1) : text[i] = " "
                      /\ \A i \in (Max(s) + 1)..fs :
                           text[i] = "letter" => \E j \in Max(s)..i : text[j] \in {"tab", "line"}
           Comments == \A i \in 1..fs :
                         (Semicolon(i) /\ ~(i > 1 /\ InComment(i - 1))) =>
                           \A j \in FieldStart(i)..(i - 1) : text[j] = " "
<1>4. Fields' = Fields
  <2>1. \A s : Good(s)' <=> Good(s)
    BY <1>1, <1>2, <1>3
  <2>2. All' = All
    BY <1>3
  <2>3. Fields = {s \in All : Good(s)}
    BY DEF Fields
  <2>4. Fields' = {s \in All' : Good(s)'}
    BY DEF Fields
  <2> HIDE DEF All, Good
  <2> QED
    BY <2>1, <2>2, <2>3, <2>4
<1>5. Plain' <=> Plain
  <2>2. \A i : Semicolon(i)' <=> Semicolon(i)
    BY Zenon DEF Semicolon
  <2>3. Comments' <=> Comments
    BY <1>1, <1>2, <1>3, <2>2
  <2>4. /\ Plain <=> ~Contains(text, "quote") /\ text[fs] = "line" /\ Comments
        /\ Plain' <=> ~Contains(text', "quote") /\ text'[fs'] = "line" /\ Comments'
    BY Zenon DEF Plain, Semicolon
  <2> HIDE DEF Comments
  <2> QED
    BY <1>3, <2>3, <2>4
<1>6. (Before(fii))' = Before(n)
  BY <1>4 DEF Before
<1>7. (Open(fii))' = Open(n)
  BY Zenon DEF Open, InComment
<1>8. (FieldStart(fii))' = FieldStart(n)
  BY DEF FieldStart
<1>9. (Fresh(fii))' = Fresh(n)
  BY <1>7, <1>8 DEF Fresh
<1> QED
  BY <1>3, <1>4, <1>5, <1>6, <1>9

\* A step over what is no argument is one over what is no field.
LEMMA PassedOver ==
  ASSUME IInv, FieldsSoFar, text' = text, fb' = fb, ptrs' = ptrs,
         NEW l \in Nat, l = fs, NEW n \in Nat, n = fii', fii <= n, n <= l + 1, Fresh(n),
         \A c \in fii..(n - 1) : c \in 1..l => \A d \in c..l : ~IsField(c, d)
  PROVE  FieldsSoFar'
<1>1. fii \in Nat
  BY Known
<1>2. Before(n) = Before(fii)
  BY <1>1, BeforeStays
<1>3. Args' = Args /\ fs' = fs
  BY DEF Args, Chars, EndOf, fs
<1>4. (ToSet(Args))' = ToSet(Args)
  BY <1>3 DEF ToSet
<1>5. (Before(fii))' = Before(n) /\ (Fresh(fii))' = Fresh(n)
  BY SameFields
<1> QED
  BY <1>2, <1>3, <1>4, <1>5 DEF FieldsSoFar

\* What is read of a plain file: characters, none a quote, and the last one ends its line.
LEMMA PlainText ==
  ASSUME IInv, Plain, pc = "scan", NEW l, l = fs
  PROVE  /\ l \in Nat \ {0} /\ text[l] = "line"
         /\ fii \in Nat /\ \A i \in fii..l : fb[i] = text[i]
         /\ \A i \in 1..l : text[i] \in Char /\ text[i] # "quote"
         /\ \A i \in 1..l : Semicolon(i) => (i > 1 /\ InComment(i - 1)) \/
              \A j \in FieldStart(i)..(i - 1) : text[j] = " "
<1>1. fs \in Nat \ {0} /\ fii \in Nat /\ \A i \in 1..l : text[i] \in Char
  BY Known
<1>2. text[l] = "line" /\ ~Contains(text, "quote")
  BY DEF Plain
<1>3. \A i \in 1..l : text[i] # "quote"
  BY <1>2 DEF Contains, fs
<1>4. \A i \in fii..l : fb[i] = text[i]
  BY DEF IInv, Unread
<1>5. \A i \in 1..l : Semicolon(i) => (i > 1 /\ InComment(i - 1)) \/
        \A j \in FieldStart(i)..(i - 1) : text[j] = " "
  BY Zenon DEF Plain, Semicolon
<1> QED
  BY <1>1, <1>2, <1>3, <1>4, <1>5

\* A blank is skipped.
LEMMA BlankFields ==
  ASSUME IInv, Plain, FieldsSoFar, SkipBlank
  PROVE  FieldsSoFar'
<1>1. PICK l \in Nat : l = fs
  BY Known
<1>2. PICK m \in Nat \ {0} : m = fii
  BY Known
<1>3. /\ pc = "scan" /\ m <= l /\ fb[m] \in Blank /\ fii' = m + 1
      /\ text' = text /\ fb' = fb /\ ptrs' = ptrs
  BY <1>1, <1>2 DEF SkipBlank
<1>4. text[m] \in Separator \cup {" "}
  <2>1. m \in fii..l /\ m \in 1..l
    BY <1>2, <1>3
  <2>2. text[m] = fb[m] /\ text[m] \in Char
    BY <1>1, <1>3, <2>1, PlainText
  <2>3. text[m] # "nul"
    BY <2>2 DEF Char
  <2> QED
    BY <1>3, <2>2, <2>3 DEF Blank, Separator
<1>5. ~InComment(m) /\ text[m] # "letter"
  <2>1. ~Semicolon(m) /\ text[m] # "letter"
    BY <1>4, Zenon DEF Semicolon, Separator
  <2>2. m \in m..m /\ \A j \in m..m : j = m
    OBVIOUS
  <2> QED
    BY <1>2, <2>1, <2>2, NoComment DEF FieldsSoFar, Fresh
<1>6. Fresh(m + 1)
  <2>1. CASE text[m] \in Separator
    BY <1>5, <2>1, FreshBehind
  <2>2. CASE text[m] = " "
    <3>1. PICK g \in 1..m : g = FieldStart(m)
      BY StartIs
    <3>2. /\ \A j \in g..(m - 1) : text[j] \notin Separator /\ text[j] = " "
          /\ g = 1 \/ text[g - 1] \in Separator
      BY <1>2, <3>1, StartIs DEF FieldsSoFar, Fresh
    <3>3. \A j \in g..((m + 1) - 1) : j \in g..(m - 1) \/ j = m
      OBVIOUS
    <3>4. \A j \in g..((m + 1) - 1) : text[j] \notin Separator /\ text[j] = " "
      BY <2>2, <3>2, <3>3 DEF Separator
    <3>5. m + 1 \in Nat \ {0} /\ g \in 1..(m + 1) /\ (m + 1) - 1 = m
      OBVIOUS
    <3>6. FieldStart(m + 1) = g
      BY <3>2, <3>4, <3>5, IsItsStart
    <3> QED
      BY <1>5, <3>4, <3>5, <3>6 DEF Fresh, Open
  <2> QED
    BY <1>4, <2>1, <2>2
<1>7. \A c \in fii..((m + 1) - 1) : c \in 1..l => \A d \in c..l : ~IsField(c, d)
  <2>1. \A c \in fii..((m + 1) - 1) : c = m
    BY <1>2
  <2> QED
    BY <1>5, <2>1 DEF IsField
<1>8. m + 1 \in Nat /\ fii <= m + 1 /\ m + 1 <= l + 1
  BY <1>2, <1>3
<1> QED
  BY <1>1, <1>3, <1>6, <1>7, <1>8, PassedOver

\* A comment is skipped: no field begins in it.
LEMMA CommentFields ==
  ASSUME IInv, Plain, FieldsSoFar, SkipComment
  PROVE  FieldsSoFar'
<1>1. PICK l \in Nat : l = fs
  BY Known
<1>2. PICK m \in Nat \ {0} : m = fii
  BY Known
<1>3. /\ pc = "scan" /\ m <= l /\ text' = text /\ fb' = fb /\ ptrs' = ptrs
  BY <1>1, <1>2, Zenon DEF SkipComment
<1>4. PICK p \in Nat \ {0} : p = m + 1
  OBVIOUS
<1>5. PICK f : f = FirstIn(fb, l, p, {"line", "nul"})
  OBVIOUS
<1>6. /\ f \in Nat /\ f <= l + 1 /\ (f = l + 1 \/ (f \in p..l /\ fb[f] \in {"line", "nul"}))
      /\ \A j \in p..(f - 1) : fb[j] \notin {"line", "nul"}
  BY <1>5, FirstIs
<1>7. fii' = f + 1
  BY <1>1, <1>2, <1>4, <1>5, Zenon DEF SkipComment, First, FirstIn
<1>8. /\ text[l] = "line" /\ \A i \in m..l : fb[i] = text[i]
      /\ \A i \in 1..l : text[i] \in Char
  BY <1>1, <1>2, <1>3, PlainText
<1>9. Semicolon(m) /\ text[m] # "line"
  <2>1. m \in m..l
    BY <1>3
  <2>2. text[m] = fb[m]
    BY <1>8, <2>1
  <2>3. fb[m] = ";"
    BY <1>2, Zenon DEF SkipComment
  <2> QED
    BY <2>2, <2>3, Zenon DEF Semicolon
<1>10. f \in p..l /\ text[f] = "line"
  <2>1. l # m
    BY <1>8, <1>9
  <2>2. l \in p..l /\ l \in m..l
    BY <1>3, <1>4, <2>1
  <2>3. f # l + 1
    <3>1. ASSUME f = l + 1 PROVE l \in p..(f - 1)
      BY <2>2, <3>1
    <3> QED
      BY <1>6, <1>8, <2>2, <3>1
  <2>4. f \in m..l /\ f \in 1..l
    BY <1>4, <1>6, <2>3
  <2>5. text[f] \in {"line", "nul"} /\ text[f] \in Char
    BY <1>6, <1>8, <2>3, <2>4
  <2> QED
    BY <1>6, <2>3, <2>5 DEF Char
<1>11. Fresh(f + 1)
  <2>1. f \in Nat \ {0}
    BY <1>10
  <2> QED
    BY <1>10, <2>1, NoCommentBehindLine, FreshBehind DEF Separator
<1>12. ASSUME NEW c \in fii..((f + 1) - 1), c \in 1..l, NEW d \in c..l, IsField(c, d)
       PROVE  FALSE
  <2>1. text[c] = "letter" /\ ~InComment(c)
    <3>1. c \in c..d
      OBVIOUS
    <3> QED
      BY <1>12, <3>1 DEF IsField
  <2>2. c # f
    BY <1>10, <2>1
  <2>3. c \in m..(f - 1) /\ m \in 1..c
    BY <1>2, <1>6, <1>12, <2>2
  <2>4. ASSUME NEW n \in m..c PROVE text[n] # "line"
    <3>1. n = m \/ (n \in p..(f - 1) /\ n \in m..l)
      BY <1>4, <1>10, <2>3
    <3> QED
      BY <1>6, <1>8, <1>9, <3>1
  <2>5. InComment(c)
    BY <1>9, <2>3, <2>4, Zenon DEF InComment, Semicolon
  <2> QED
    BY <2>1, <2>5
<1>13. f + 1 \in Nat /\ fii <= f + 1 /\ f + 1 <= l + 1
  BY <1>2, <1>4, <1>6, <1>10
<1> QED
  BY <1>1, <1>3, <1>7, <1>11, <1>12, <1>13, PassedOver

\* One more argument, which is one more field.
LEMMA OneMoreField ==
  ASSUME IInv, FieldsSoFar, text' = text, fii \in 1..fs,
         NEW l \in Nat, l = fs, NEW n \in Nat, n = fii', fii < n, n <= l + 1, Fresh(n),
         NEW p, ptrs' = Append(ptrs, p), NEW e \in fii..l, IsField(fii, e),
         \A k \in DOMAIN ptrs : Args'[k] = Args[k], Args'[Len(ptrs) + 1] = fii..e,
         p \in 1..(fs + 1),
         Alone(fii, e, n)
  PROVE  FieldsSoFar'
<1>1. PICK m \in 1..l : m = fii
  OBVIOUS
<1>2. Before(n) = Before(fii) \cup {fii..e} /\ fii..e \notin Before(fii)
  <2>1. m < n /\ e \in m..l
    BY <1>1
  <2>2. IsField(m, e) /\ Alone(m, e, n)
    BY <1>1
  <2>3. Before(n) = Before(m) \cup {m..e} /\ m..e \notin Before(m)
    BY <2>1, <2>2, BeforeGrows
  <2> QED
    BY <1>1, <2>3
<1>3. /\ Len(ptrs) \in Nat /\ Len(ptrs') = Len(ptrs) + 1
      /\ DOMAIN ptrs' = DOMAIN ptrs \cup {Len(ptrs) + 1}
  <2>1. ptrs \in Seq(1..(fs + 1))
    BY Known
  <2>2. /\ Len(ptrs) \in Nat /\ Len(ptrs') = Len(ptrs) + 1
        /\ DOMAIN ptrs = 1..Len(ptrs) /\ DOMAIN ptrs' = 1..(Len(ptrs) + 1)
    BY <2>1, AppendProperties, LenProperties
  <2> QED
    BY <2>2
<1>4. (ToSet(Args))' = ToSet(Args) \cup {fii..e}
  <2>1. DOMAIN Args' = DOMAIN ptrs' /\ DOMAIN Args = DOMAIN ptrs
    BY DEF Args
  <2>2. (ToSet(Args))' = {Args'[k] : k \in DOMAIN ptrs'} /\ ToSet(Args) = {Args[k] : k \in DOMAIN ptrs}
    BY <2>1 DEF ToSet
  <2> QED
    BY <1>3, <2>2
<1>5. (Before(fii))' = Before(n) /\ (Fresh(fii))' = Fresh(n) /\ fs' = fs
  BY SameFields
<1>6. /\ IsFiniteSet(Before(fii)) /\ Cardinality(Before(fii)) = Len(ptrs)
      /\ ToSet(Args) = Before(fii)
  BY DEF FieldsSoFar
<1>7. IsFiniteSet(Before(n)) /\ Cardinality(Before(n)) = Len(ptrs) + 1
  <2>1. PICK B, x : B = Before(fii) /\ x = fii..e
    OBVIOUS
  <2>2. IsFiniteSet(B) /\ x \notin B /\ Cardinality(B) = Len(ptrs) /\ Before(n) = B \cup {x}
    BY <1>2, <1>6, <2>1
  <2>3. IsFiniteSet(B \cup {x}) /\ Cardinality(B \cup {x}) = Cardinality(B) + 1
    BY <2>2, FS_AddElement
  <2> QED
    BY <2>2, <2>3
<1>8. (ToSet(Args))' = Before(n)
  BY <1>2, <1>4, <1>6
<1> QED
  BY <1>3, <1>5, <1>7, <1>8 DEF FieldsSoFar

\* A word is taken: in a plain file it ends with its field.
LEMMA WordFields ==
  ASSUME IInv, Plain, FieldsSoFar, TakeWord, ~TableFull(Len(ptrs) + 2)
  PROVE  FieldsSoFar'
<1>1. PICK l \in Nat : l = fs
  BY Known
<1>2. PICK m \in 1..l : m = fii
  <2>1. fii \in 1..(fs + 3) /\ fii <= fs
    BY Known, Zenon DEF TakeWord
  <2> QED
    BY <1>1, <2>1
<1>20. PICK f \in (m + 1)..(l + 1) : \E t \in (m + 1)..f : Word(f, t) /\ Takes(fii, t)
  BY <1>1, <1>2, WordTaken
<1>3. PICK t \in (m + 1)..f : Word(f, t) /\ Takes(fii, t)
  BY <1>20
<1>4. pc = "scan" /\ text' = text /\ ptrs' = Append(ptrs, fii) /\ fii' = f + 1
  BY <1>3 DEF Takes, Word
<1>5. /\ text[l] = "line" /\ \A i \in m..l : fb[i] = text[i]
      /\ \A i \in 1..l : text[i] \in Char /\ text[i] # "quote"
      /\ \A i \in 1..l : Semicolon(i) => (i > 1 /\ InComment(i - 1)) \/
           \A j \in FieldStart(i)..(i - 1) : text[j] = " "
  BY <1>1, <1>2, <1>4, PlainText
<1>6. text[m] = "letter"
  <2>1. m \in m..l
    BY <1>2
  <2>2. text[m] = fb[m] /\ text[m] \in Char /\ text[m] # "quote"
    BY <1>5, <2>1
  <2>3. fb[m] \notin Blank \cup {";", "quote"}
    BY <1>2, Zenon DEF TakeWord
  <2> QED
    BY <2>2, <2>3, Zenon DEF Char, Blank
<1>7. \A j \in (m + 1)..(f - 1) : fb[j] \notin EndsField
  BY <1>2, <1>3 DEF Word
<1>8. f \in (m + 1)..l
  <2>1. ASSUME f = l + 1 PROVE FALSE
    <3>1. l # m
      BY <1>5, <1>6
    <3>2. l \in (m + 1)..(f - 1) /\ l \in m..l
      BY <2>1, <3>1
    <3>3. fb[l] = "line"
      BY <1>5, <3>2
    <3> QED
      BY <1>7, <3>2, <3>3, Zenon DEF EndsField
  <2> QED
    BY <2>1
<1>9. /\ fb[f] \in EndsField /\ fb[t - 1] \notin Blank
      /\ \A j \in t..(f - 1) : fb[j] \in Blank
  <2>1. f # fs + 1
    BY <1>1, <1>8
  <2> QED
    BY <1>3, <2>1 DEF Word
<1>10. ASSUME NEW j \in m..(f - 1)
       PROVE  text[j] \notin Separator /\ ~Semicolon(j)
  <2>1. CASE j = m
    BY <1>6, <2>1, Zenon DEF Separator, Semicolon
  <2>2. CASE j # m
    <3>1. j \in (m + 1)..(f - 1) /\ j \in m..l
      BY <1>8, <2>2
    <3>2. fb[j] \notin EndsField /\ fb[j] = text[j]
      BY <1>5, <1>7, <3>1
    <3> QED
      BY <3>2, Zenon DEF EndsField, Separator, Semicolon
  <2> QED
    BY <2>1, <2>2
<1>11. text[t - 1] = "letter"
  <2>1. t - 1 \in m..(f - 1) /\ t - 1 \in m..l /\ t - 1 \in 1..l
    BY <1>8
  <2>2. text[t - 1] = fb[t - 1] /\ text[t - 1] \in Char /\ text[t - 1] # "quote"
    BY <1>5, <2>1
  <2>3. ~Semicolon(t - 1)
    BY <1>10, <2>1
  <2> QED
    BY <1>9, <2>2, <2>3, Zenon DEF Char, Blank, Semicolon
<1>12. ASSUME NEW j \in t..(f - 1) PROVE text[j] # "letter"
  <2>1. j \in m..l
    BY <1>8
  <2>2. fb[j] = text[j] /\ fb[j] \in Blank
    BY <1>5, <1>9, <2>1
  <2> QED
    BY <2>2 DEF Blank
<1>13. ~Open(m) /\ \A i \in m..(f - 1) : ~InComment(i)
  <2>1. ~Open(m)
    BY <1>2 DEF FieldsSoFar, Fresh
  <2>2. m \in Nat \ {0} /\ f - 1 \in Nat
    BY <1>8
  <2> QED
    BY <1>10, <2>1, <2>2, NoComment
<1>14. text[f] \in Separator /\ ~Semicolon(f)
  <2>1. f \in m..l /\ f \in 1..l /\ f > 1 /\ f - 1 \in m..(f - 1)
    BY <1>8
  <2>2. fb[f] = text[f] /\ text[f] \in Char
    BY <1>5, <2>1
  <2>3. ASSUME Semicolon(f) PROVE FALSE
    <3>1. ~InComment(f - 1)
      BY <1>13, <2>1
    <3>2. \A j \in FieldStart(f)..(f - 1) : text[j] = " "
      BY <1>5, <2>1, <2>3, <3>1
    <3>3. PICK g \in 1..f : g = FieldStart(f) /\ (g = 1 \/ text[g - 1] \in Separator)
      <4>1. f \in Nat \ {0}
        BY <1>8
      <4> QED
        BY <4>1, StartIs
    <3>4. g <= m
      <4>1. ASSUME g > m PROVE g - 1 \in m..(f - 1) /\ g # 1
        BY <4>1
      <4>2. ~(g > m)
        BY <1>10, <3>3, <4>1
      <4> QED
        BY <4>2
    <3>5. m \in g..(f - 1)
      BY <1>8, <3>4
    <3> QED
      BY <1>6, <3>2, <3>3, <3>5
  <2>4. text[f] # "nul"
    BY <2>2 DEF Char
  <2>5. text[f] \in Separator
    BY <1>9, <2>2, <2>3, <2>4, Zenon DEF EndsField, Separator, Semicolon
  <2> QED
    BY <2>3, <2>5
<1>15. Fresh(f + 1)
  <2>1. \A j \in m..f : ~Semicolon(j)
    <3>1. \A j \in m..f : j \in m..(f - 1) \/ j = f
      BY <1>8
    <3> QED
      BY <1>10, <1>14, <3>1
  <2>2. m \in Nat \ {0} /\ f \in Nat \ {0} /\ f \in m..f
    BY <1>8
  <2>3. ~InComment(f)
    BY <1>13, <2>1, <2>2, NoComment
  <2> QED
    BY <1>14, <2>2, <2>3, FreshBehind
<1>16. WordAt(m, t, f)
  <2>1. Fresh(m)
    BY <1>2 DEF FieldsSoFar
  <2> QED
    BY <1>6, <1>10, <1>11, <1>12, <1>14, <2>1 DEF WordAt
<1>17. /\ IsField(m, t - 1)
       /\ \A c \in m..f : c \in 1..l => \A d \in c..l : IsField(c, d) => c = m /\ d = t - 1
  BY <1>1, <1>8, <1>16, WordIsField
<1>18. (\A k \in DOMAIN ptrs : Args'[k] = Args[k]) /\ Args'[Len(ptrs) + 1] = fii..(t - 1)
  BY <1>3, NewArgument
<1>19. PICK n \in Nat, e \in fii..l :
         n = f + 1 /\ e = t - 1 /\ n - 1 = f /\ fii < n /\ n <= l + 1 /\ fii \in 1..fs
           /\ fii \in 1..(fs + 1)
  BY <1>1, <1>2, <1>8
<1>21. /\ IsField(fii, e) /\ Fresh(n) /\ n = fii' /\ Args'[Len(ptrs) + 1] = fii..e
       /\ Alone(fii, e, n)
  <2>1. \A c \in m..f : c \in 1..l => \A d \in c..l : IsField(c, d) => c = m /\ d = e
    BY <1>17, <1>19
  <2>2. Alone(m, e, n)
    BY <1>1, <1>19, <2>1 DEF Alone
  <2> QED
    BY <1>2, <1>4, <1>15, <1>17, <1>18, <1>19, <2>2
<1> QED
  BY <1>1, <1>4, <1>18, <1>19, <1>21, OneMoreField

\* So the arguments of a plain file stay its fields, up to its end.
LEMMA StepFields ==
  ASSUME IInv, FieldsInv, [Next]_vars
  PROVE  FieldsInv'
<1> SUFFICES ASSUME Plain', pc' # "refused" PROVE FieldsSoFar'
  BY DEF FieldsInv
<1>1. text' = text
  BY DEF Next, SkipComment, SkipBlank, TakeWord, TakeQuoted, Finish, vars
<1>2. Plain
  BY <1>1, SameFields
<1>3. pc # "refused"
  BY DEF Next, SkipComment, SkipBlank, TakeWord, TakeQuoted, Finish, vars
<1>4. FieldsSoFar
  BY <1>2, <1>3 DEF FieldsInv
<1>5. CASE SkipComment
  BY <1>2, <1>4, <1>5, CommentFields
<1>6. CASE SkipBlank
  BY <1>2, <1>4, <1>6, BlankFields
<1>7. CASE TakeWord
  <2>1. ~TableFull(Len(ptrs) + 2)
    BY <1>7, Zenon DEF TakeWord, AddPointer
  <2> QED
    BY <1>2, <1>4, <1>7, <2>1, WordFields
<1>8. CASE TakeQuoted
  <2>1. pc = "scan" /\ fii <= fs /\ fb[fii] = "quote"
    BY <1>8 DEF TakeQuoted
  <2>2. PICK l \in Nat : l = fs
    BY Known
  <2>3. fii \in fii..l /\ fii \in 1..l
    BY <2>1, <2>2, Known
  <2>4. text[fii] = "quote" /\ text[fii] # "quote"
    BY <1>2, <2>1, <2>2, <2>3, PlainText
  <2> QED
    BY <2>4
<1>9. CASE Finish \/ UNCHANGED vars
  <2>1. UNCHANGED <<text, fb, fii, ptrs>>
    BY <1>9 DEF Finish, vars
  <2>2. PICK l \in Nat, n \in Nat : l = fs /\ n = fii
    BY Known
  <2>3. n <= l + 1 /\ Fresh(n) /\ n..(n - 1) = {} /\ fii <= n
    BY <1>4, <2>2 DEF FieldsSoFar
  <2>4. \A c \in fii..(n - 1) : FALSE
    BY <2>2, <2>3
  <2> QED
    BY <1>4, <2>1, <2>2, <2>3, <2>4, PassedOver
<1> QED
  BY <1>5, <1>6, <1>7, <1>8, <1>9 DEF Next

\* Nothing is read of a file at first.
LEMMA InitFields == Init => FieldsInv
<1> SUFFICES ASSUME Init PROVE FieldsSoFar
  BY DEF FieldsInv
<1>1. fii = 1 /\ ptrs = <<>> /\ IInv
  BY InitHolds DEF Init
<1>2. fs \in Nat /\ fs > 0
  BY <1>1, Known
<1>3. Fresh(1)
  <2>1. FieldStart(1) \in 1..1
    BY StartIs
  <2>2. FieldStart(1)..(1 - 1) = {}
    BY <2>1
  <2> QED
    BY <2>2 DEF Fresh, Open
<1>4. Before(1) = {}
  <2>1. ASSUME NEW s \in Fields PROVE ~(Min(s) < 1)
    <3>1. PICK n \in Nat : n = fs
      BY <1>2
    <3>2. PICK a \in 1..n : \E b \in a..n : s = a..b /\ IsField(a, b)
      BY <3>1, FieldsAre
    <3>3. PICK b \in a..n : s = a..b
      BY <3>2
    <3> QED
      BY <3>3, EndsOf
  <2> QED
    BY <2>1 DEF Before
<1>5. DOMAIN Args = {} /\ Len(ptrs) = 0
  BY <1>1, EmptySeq DEF Args
<1>6. ToSet(Args) = {}
  BY <1>5 DEF ToSet
<1> QED
  BY <1>1, <1>2, <1>3, <1>4, <1>5, <1>6, FS_EmptySet DEF FieldsSoFar

\* The arguments of a plain file are its fields, each once, for every file and every size
\* of the table.
THEOREM FieldsAreTheArguments == Spec => []FieldsAreArgs
<1>1. Init => IInv /\ FieldsInv
  BY InitHolds, InitFields
<1>2. IInv /\ FieldsInv /\ [Next]_vars => (IInv /\ FieldsInv)'
  BY StepKeeps, StepFields
<1>3. ASSUME IInv, FieldsInv PROVE FieldsAreArgs
  <2> SUFFICES ASSUME pc = "parsed", Plain
               PROVE  ToSet(Args) = Fields /\ Len(Args) = Cardinality(Fields)
    BY DEF FieldsAreArgs
  <2>1. FieldsSoFar
    BY <1>3 DEF FieldsInv
  <2>2. PICK n \in Nat : n = fs
    BY <1>3, Known
  <2>3. fii \in Nat /\ fii > n
    BY <1>3, <2>2, Known DEF IInv, AtEnd
  <2>4. Before(fii) = Fields
    <3>1. ASSUME NEW s \in Fields PROVE Min(s) < fii
      <4>1. PICK a \in 1..n : \E b \in a..n : s = a..b /\ IsField(a, b)
        BY <2>2, FieldsAre
      <4>2. PICK b \in a..n : s = a..b
        BY <4>1
      <4>3. Min(s) = a
        BY <4>2, EndsOf
      <4> QED
        BY <2>3, <4>3
    <3> QED
      BY <3>1 DEF Before
  <2>5. Len(Args) = Len(ptrs)
    <3>1. ptrs \in Seq(1..(fs + 1))
      BY <1>3, Known
    <3>2. DOMAIN ptrs = 1..Len(ptrs) /\ Len(ptrs) \in Nat
      BY <3>1, LenProperties
    <3>3. \A k \in DOMAIN ptrs : Args[k] \in SUBSET Int
      BY DEF Args, Chars
    <3>4. Args \in Seq(SUBSET Int) /\ DOMAIN Args = 1..Len(ptrs)
      <4>1. DOMAIN Args = 1..Len(ptrs) /\ Args = [k \in 1..Len(ptrs) |-> Args[k]]
        BY <3>2 DEF Args
      <4>2. [k \in 1..Len(ptrs) |-> Args[k]] \in Seq(SUBSET Int)
        BY <3>2, <3>3, IsASeq
      <4> QED
        BY <4>1, <4>2
    <3>5. DOMAIN Args = 1..Len(Args) /\ Len(Args) \in Nat
      BY <3>4, LenProperties
    <3> QED
      BY <3>2, <3>4, <3>5
  <2> QED
    BY <2>1, <2>4, <2>5 DEF FieldsSoFar
<1> QED
  BY <1>1, <1>2, <1>3, PTL DEF Spec

===============================================================================

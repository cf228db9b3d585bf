-------------------------- MODULE AsciiStrings_proofs --------------------------
(***************************************************************************)
(* Proofs about AsciiStrings, for every file, every least length and every *)
(* size of the two buffers.                                                *)
(***************************************************************************)
EXTENDS AsciiStrings, FiniteSetTheorems, SequenceTheorems, TLAPS

Types ==
  /\ pb \in Seq(Class) /\ gfDoASCII2 \in BOOLEAN
  /\ giMinASCII \in Mins /\ giMinASCII \in Nat \ {0}
  /\ dwi \in Nat /\ dwi <= Len(pb)
  /\ lpd \in Seq(1..dwi) /\ Len(lpd) <= MXDIAG
  /\ s_buf \in Seq(Seq(1..dwi)) /\ out \in Seq(Seq(1..dwi))
  /\ tot \in Nat /\ shtr \in Nat /\ cnt \in Nat
  /\ done \in BOOLEAN

\* What was printed or packed, in that order.
All == out \o s_buf

\* The last position that was judged: before the run that gathers in lpd.
Base == IF done THEN Len(pb) ELSE dwi - Len(lpd)

\* lpd holds the characters before the next one, all of a run.
LastRun ==
  ~done => /\ Len(lpd) <= dwi
           /\ \A i \in 1..Len(lpd) : lpd[i] = dwi - Len(lpd) + i
           /\ \A p \in (dwi - Len(lpd) + 1)..dwi : ISMYCHAR(pb[p])

\* What was judged does not reach into the run.
Behind == ~done => \A s \in ToSet(All) : \A p \in ToSet(s) : p <= dwi - Len(lpd)

Ordered == ~done => InOrder(All)

\* The run was not split: the character before it does not belong to it.
StartsRun == (NoSplit /\ ~done /\ Base > 0) => ~ISMYCHAR(pb[Base])

Ended(p) == {r \in LongRuns : r[2] <= p}
Gone == Ended(Base)

Once == NoSplit => /\ ToSet(All) = {AsString(r) : r \in Gone}
                   /\ Len(All) = cnt /\ cnt = Cardinality(Gone)

Emptied == done => s_buf = <<>> /\ dwi = Len(pb)

Fits == IsFiniteSet(Places(s_buf)) /\ PackedFits

IInv == /\ Types /\ LastRun /\ Behind /\ Ordered /\ StartsRun /\ Once /\ Emptied
        /\ TotalCounts /\ Fits
-------------------------------------------------------------------------------
(* Sets and sequences *)

\* Every set of numbers that is not empty has a least one.
LEMMA LeastNumber ==
  ASSUME NEW T \in SUBSET Nat, T # {}
  PROVE  \E n \in T : \A m \in T : n <= m
<1> DEFINE R == OpToRel(<, Nat)
<1>1. IsWellFoundedOn(R, Nat)
  BY NatLessThanWellFounded
<1>2. \A m, n \in Nat : m < n => <<m, n>> \in R
  BY DEF OpToRel
<1> HIDE DEF R
<1>3. PICK n \in T : \A m \in T : <<m, n>> \notin R
  BY <1>1, WFMin
<1>4. ASSUME NEW m \in T PROVE n <= m
  <2>1. m \in Nat /\ n \in Nat /\ ~(m < n)
    BY <1>2, <1>3
  <2> QED
    BY <2>1
<1> QED
  BY <1>4

\* A sequence holds members of its set only.
LEMMA SetOfSeq ==
  ASSUME NEW S, NEW s \in Seq(S)
  PROVE  \A x \in ToSet(s) : x \in S
<1>1. DOMAIN s = 1..Len(s) /\ \A i \in 1..Len(s) : s[i] \in S
  BY ElementOfSeq, LenProperties
<1> QED
  BY <1>1 DEF ToSet

\* What a sequence with one more value holds.
LEMMA SetOfAppend ==
  ASSUME NEW S, NEW s \in Seq(S), NEW x \in S
  PROVE  ToSet(Append(s, x)) = ToSet(s) \cup {x}
<1>1. /\ DOMAIN Append(s, x) = 1..(Len(s) + 1) /\ DOMAIN s = 1..Len(s)
      /\ \A i \in 1..Len(s) : Append(s, x)[i] = s[i]
      /\ Append(s, x)[Len(s) + 1] = x /\ Len(s) \in Nat
  BY AppendProperties
<1>2. 1..(Len(s) + 1) = 1..Len(s) \cup {Len(s) + 1}
  BY <1>1
<1> QED
  BY <1>1, <1>2 DEF ToSet

\* What two sequences hold together.
LEMMA SetOfConcat ==
  ASSUME NEW S, NEW s \in Seq(S), NEW t \in Seq(S)
  PROVE  ToSet(s \o t) = ToSet(s) \cup ToSet(t)
<1>1. Range(s \o t) = Range(s) \cup Range(t)
  BY RangeConcatenation
<1> QED
  BY <1>1 DEF ToSet, Range

\* The characters of one more string.
LEMMA CharsOfAppend ==
  ASSUME NEW S, NEW strings \in Seq(S), NEW s \in S
  PROVE  Chars(Append(strings, s)) = Chars(strings) \cup ToSet(s)
<1>1. ToSet(Append(strings, s)) = ToSet(strings) \cup {s}
  BY SetOfAppend
<1> QED
  BY <1>1, Zenon DEF Chars

\* The characters of strings of positions, no matter how many strings there are.
LEMMA CharsAreFinite ==
  ASSUME NEW n \in Nat, NEW strings \in Seq(Seq(1..n))
  PROVE  /\ Chars(strings) \subseteq 1..n
         /\ IsFiniteSet(Chars(strings))
<1>1. ASSUME NEW s \in ToSet(strings) PROVE ToSet(s) \subseteq 1..n
  <2>1. s \in Seq(1..n)
    BY <1>1, SetOfSeq
  <2> QED
    BY <2>1, SetOfSeq
<1>2. Chars(strings) \subseteq 1..n
  BY <1>1 DEF Chars
<1> QED
  BY <1>2, FS_Interval, FS_Subset

-------------------------------------------------------------------------------
(* prta *)

\* prta adds the string to what was printed or packed, and loses nothing.
LEMMA PrtaAdds ==
  ASSUME NEW n \in Nat, out \in Seq(Seq(1..n)), s_buf \in Seq(Seq(1..n)),
         NEW s \in Seq(1..n), prta(s)
  PROVE  /\ out' \in Seq(Seq(1..n)) /\ s_buf' \in Seq(Seq(1..n))
         /\ out' \o s_buf' = Append(out \o s_buf, s)
<1> DEFINE S == Seq(1..n)
<1>1. <<s>> \in Seq(S) /\ <<>> \in Seq(S)
  OBVIOUS
<1>2. out \o s_buf \in Seq(S) /\ Append(out \o s_buf, s) \in Seq(S)
  BY ConcatProperties, AppendProperties
<1>3. Append(out \o s_buf, s) = (out \o s_buf) \o <<s>>
  BY <1>2, AppendIsConcat
<1>4. CASE Len(s) > giKeepInLine
  <2>1. out' = Append(out \o s_buf, s) /\ s_buf' = <<>>
    BY <1>4 DEF prta
  <2> QED
    BY <1>1, <1>2, <2>1, ConcatEmptySeq
<1>5. CASE ~(Len(s) > giKeepInLine) /\ TooWide(s_buf, s)
  <2>1. out' = out \o s_buf /\ s_buf' = <<s>>
    BY <1>5 DEF prta
  <2> QED
    BY <1>1, <1>2, <1>3, <2>1
<1>6. CASE ~(Len(s) > giKeepInLine) /\ ~TooWide(s_buf, s)
  <2>1. s_buf' = Append(s_buf, s) /\ out' = out
    BY <1>6 DEF prta
  <2>2. Append(s_buf, s) \in Seq(S) /\ Append(s_buf, s) = s_buf \o <<s>>
    BY AppendProperties, AppendIsConcat
  <2>3. out \o (s_buf \o <<s>>) = (out \o s_buf) \o <<s>>
    BY <1>1, ConcatAssociative
  <2> QED
    BY <1>1, <1>3, <2>1, <2>2, <2>3
<1> QED
  BY <1>4, <1>5, <1>6

\* A packed line gets longer by the string and the space before it.
LEMMA WidthOfAppend ==
  ASSUME NEW n \in Nat, NEW strings \in Seq(Seq(1..n)), NEW s \in Seq(1..n),
         IsFiniteSet(Places(strings))
  PROVE  /\ IsFiniteSet(Places(Append(strings, s)))
         /\ Width(strings) \in Int
         /\ Width(Append(strings, s))
              = Width(strings) + Len(s) + IF strings = <<>> THEN 0 ELSE 1
<1> DEFINE k == Len(strings) + 1
           more == {k} \X (1..Len(s))
<1>1. /\ Len(strings) \in Nat /\ DOMAIN strings = 1..Len(strings)
      /\ DOMAIN s = 1..Len(s) /\ Len(s) \in Nat
      /\ strings = <<>> <=> Len(strings) = 0
  BY LenProperties, EmptySeq
<1>2. /\ Append(strings, s) # <<>> /\ Len(Append(strings, s)) = k
      /\ DOMAIN Append(strings, s) = 1..k
      /\ \A i \in 1..Len(strings) : Append(strings, s)[i] = strings[i]
      /\ Append(strings, s)[k] = s
  <2>1. /\ Append(strings, s) \in Seq(Seq(1..n)) /\ Append(strings, s) # <<>>
        /\ Len(Append(strings, s)) = Len(strings) + 1
        /\ \A i \in 1..Len(strings) : Append(strings, s)[i] = strings[i]
        /\ Append(strings, s)[Len(strings) + 1] = s
    BY AppendProperties
  <2>2. DOMAIN Append(strings, s) = 1..Len(Append(strings, s))
    BY <2>1, LenProperties
  <2> QED
    BY <2>1, <2>2
<1>3. 1..k = 1..Len(strings) \cup {k} /\ k \notin 1..Len(strings)
  BY <1>1
<1> HIDE DEF k
<1>4. Places(Append(strings, s)) = Places(strings) \cup more
  <2> DEFINE Row(i) == {i} \X DOMAIN Append(strings, s)[i]
  <2>1. Places(Append(strings, s)) = UNION {Row(i) : i \in 1..Len(strings) \cup {k}}
    BY <1>2, <1>3 DEF Places
  <2>2. Row(k) = more
    BY <1>1, <1>2
  <2>3. \A i \in 1..Len(strings) : Row(i) = {i} \X DOMAIN strings[i]
    BY <1>2
  <2>4. Places(strings) = UNION {{i} \X DOMAIN strings[i] : i \in 1..Len(strings)}
    BY <1>1 DEF Places
  <2> HIDE DEF Row, more
  <2>5. Places(strings) = UNION {Row(i) : i \in 1..Len(strings)}
    BY <2>3, <2>4
  <2> QED
    BY <2>1, <2>2, <2>5
<1>5. Places(strings) \cap more = {}
  BY <1>1, <1>3 DEF Places
<1>6. IsFiniteSet(more) /\ Cardinality(more) = Len(s)
  <2>1. IsFiniteSet({k}) /\ Cardinality({k}) = 1
    BY FS_Singleton
  <2>2. IsFiniteSet(1..Len(s)) /\ Cardinality(1..Len(s)) = Len(s)
    <3>1. 1 \in Int /\ Len(s) \in Int
      BY <1>1
    <3>2. /\ IsFiniteSet(1..Len(s))
          /\ Cardinality(1..Len(s)) = IF 1 > Len(s) THEN 0 ELSE Len(s) - 1 + 1
      BY <3>1, FS_Interval
    <3> QED
      BY <1>1, <3>2
  <2>3. /\ IsFiniteSet(more)
        /\ Cardinality(more) = Cardinality({k}) * Cardinality(1..Len(s))
    BY <2>1, <2>2, FS_Product
  <2> QED
    BY <1>1, <2>1, <2>2, <2>3
<1> HIDE DEF more
<1>7. /\ IsFiniteSet(Places(strings) \cup more)
      /\ Cardinality(Places(strings) \cup more)
           = Cardinality(Places(strings)) + Len(s)
      /\ Cardinality(Places(strings)) \in Nat
  <2>1. Cardinality(Places(strings)) \in Nat
    BY FS_CardinalityType
  <2>2. /\ IsFiniteSet(Places(strings) \cup more)
        /\ Cardinality(Places(strings) \cup more)
             = Cardinality(Places(strings)) + Cardinality(more)
                 - Cardinality(Places(strings) \cap more)
    BY <1>6, FS_Union
  <2>3. Cardinality(Places(strings) \cap more) = 0
    BY <1>5, FS_EmptySet
  <2> QED
    BY <1>1, <1>6, <2>1, <2>2, <2>3
<1>8. Width(Append(strings, s)) = Cardinality(Places(strings)) + Len(s) + (k - 1)
  BY <1>2, <1>4, <1>7 DEF Width
<1>9. CASE strings = <<>>
  <2>1. Places(strings) = {}
    BY <1>1, <1>9 DEF Places
  <2> QED
    BY <1>1, <1>4, <1>7, <1>8, <1>9, <2>1, FS_EmptySet DEF Width, k
<1>10. CASE strings # <<>>
  BY <1>1, <1>4, <1>7, <1>8, <1>10 DEF Width, k
<1> QED
  BY <1>9, <1>10

-------------------------------------------------------------------------------
(* Runs of the file *)

\* Characters of a run that nothing precedes are the beginning of a whole one.
LEMMA RunGoesOn ==
  ASSUME pb \in Seq(Class), NEW a \in Nat, NEW b \in Nat,
         0 < a, a <= b, b <= Len(pb),
         \A i \in a..b : ISMYCHAR(pb[i]), a > 1 => ~ISMYCHAR(pb[a - 1])
  PROVE  \E r \in Runs : Size(r) >= b - a + 1
<1> DEFINE T == {e \in b..Len(pb) : e < Len(pb) => ~ISMYCHAR(pb[e + 1])}
<1>1. Len(pb) \in Nat
  BY LenProperties
<1>2. T \in SUBSET Nat /\ Len(pb) \in T
  BY <1>1
<1>3. PICK e \in T : \A m \in T : e <= m
  BY <1>2, LeastNumber
<1>4. e \in Nat /\ b <= e /\ e <= Len(pb) /\ (e < Len(pb) => ~ISMYCHAR(pb[e + 1]))
  BY <1>1, <1>3
<1>5. ASSUME NEW i \in a..e PROVE ISMYCHAR(pb[i])
  <2>1. CASE i <= b
    BY <1>5, <2>1
  <2>2. CASE i > b
    <3>1. i - 1 \in b..Len(pb) /\ i - 1 < e /\ i - 1 < Len(pb) /\ i - 1 + 1 = i
      BY <1>1, <1>4, <1>5, <2>2
    <3>2. i - 1 \notin T
      BY <1>3, <1>4, <3>1
    <3> QED
      BY <3>1, <3>2
  <2> QED
    BY <1>4, <1>5, <2>1, <2>2
<1>6. a \in 1..Len(pb) /\ e \in 1..Len(pb) /\ a <= e
  BY <1>1, <1>4
<1> HIDE DEF T
<1>7. <<a, e>> \in Runs
  <2>1. <<a, e>>[1] = a /\ <<a, e>>[2] = e
    OBVIOUS
  <2> QED
    BY <1>4, <1>5, <1>6, <2>1 DEF Runs
<1>8. Size(<<a, e>>) >= b - a + 1
  BY <1>1, <1>4 DEF Size
<1> QED
  BY <1>7, <1>8

\* Where the file goes on without a character of a run, or ends.
RunIsOver == ~done /\ (dwi < Len(pb) => ~ISMYCHAR(pb[dwi + 1]))
ThisRun == <<dwi - Len(lpd) + 1, dwi>>

\* The characters of lpd are then a whole run, and its string is lpd.
LEMMA RunIsWhole ==
  ASSUME Types, LastRun, StartsRun, NoSplit, RunIsOver, lpd # <<>>
  PROVE  /\ ThisRun \in Runs /\ AsString(ThisRun) = lpd
         /\ Size(ThisRun) = Len(lpd)
<1> DEFINE n == Len(lpd)
           a == dwi - n + 1
<1>1. /\ dwi \in Nat /\ dwi <= Len(pb) /\ Len(pb) \in Nat
      /\ n \in Nat /\ n # 0 /\ n <= dwi
      /\ lpd = [i \in 1..n |-> lpd[i]]
  BY LenProperties, EmptySeq DEF Types, LastRun, RunIsOver
<1>2. ThisRun[1] = a /\ ThisRun[2] = dwi /\ ThisRun = <<a, dwi>>
  BY DEF ThisRun
<1>3. \A i \in 1..n : lpd[i] = a + i - 1
  BY <1>1 DEF LastRun, RunIsOver
<1>4. Size(ThisRun) = n
  BY <1>1, <1>2 DEF Size
<1>5. AsString(ThisRun) = lpd
  BY <1>1, <1>2, <1>3, <1>4 DEF AsString
<1>6. /\ \A i \in a..dwi : ISMYCHAR(pb[i])
      /\ a > 1 => ~ISMYCHAR(pb[a - 1])
      /\ dwi < Len(pb) => ~ISMYCHAR(pb[dwi + 1])
  BY <1>1 DEF LastRun, StartsRun, RunIsOver, Base
<1>7. a \in 1..Len(pb) /\ dwi \in 1..Len(pb) /\ a <= dwi
  BY <1>1
<1> HIDE DEF a, n
<1>8. ThisRun \in Runs
  BY <1>2, <1>6, <1>7 DEF Runs
<1> QED
  BY <1>4, <1>5, <1>8 DEF n

\* No other run ends between the last position judged and the next one.
LEMMA RunsEndingNow ==
  ASSUME Types, LastRun, StartsRun, NoSplit, RunIsOver,
         NEW m \in Nat, m <= Len(pb), m = dwi \/ m = dwi + 1
  PROVE  Ended(m) = IF LongEnough(lpd) THEN Gone \cup {ThisRun} ELSE Gone
<1> DEFINE n == Len(lpd)
<1>1. /\ dwi \in Nat /\ dwi <= Len(pb) /\ Len(pb) \in Nat
      /\ n \in Nat /\ n <= dwi /\ (n = 0 <=> lpd = <<>>)
      /\ Base = dwi - n /\ Base \in Nat
      /\ giMinASCII \in Nat \ {0}
  BY LenProperties, EmptySeq DEF Types, LastRun, RunIsOver, Base
<1>2. ASSUME NEW r \in Runs, r[2] <= m, ~(r[2] <= Base)
      PROVE  r = ThisRun /\ lpd # <<>>
  <2>1. /\ r[1] \in 1..Len(pb) /\ r[2] \in 1..Len(pb) /\ r[1] <= r[2]
        /\ r = <<r[1], r[2]>>
        /\ \A i \in r[1]..r[2] : ISMYCHAR(pb[i])
        /\ r[1] > 1 => ~ISMYCHAR(pb[r[1] - 1])
        /\ r[2] < Len(pb) => ~ISMYCHAR(pb[r[2] + 1])
    BY <1>2 DEF Runs
  <2>2. r[2] <= dwi
    <3>1. CASE m = dwi
      BY <1>2, <3>1
    <3>2. CASE m = dwi + 1 /\ r[2] = m
      BY <1>1, <2>1, <3>2 DEF RunIsOver
    <3> QED
      BY <1>1, <1>2, <2>1, <3>1, <3>2
  <2>3. \A p \in (Base + 1)..dwi : ISMYCHAR(pb[p])
    BY <1>1 DEF LastRun, RunIsOver
  <2>4. r[2] = dwi
    <3>1. CASE r[2] < dwi
      <4>1. r[2] + 1 \in (Base + 1)..dwi /\ r[2] < Len(pb)
        BY <1>1, <1>2, <2>1, <3>1
      <4> QED
        BY <2>1, <2>3, <4>1
    <3> QED
      BY <1>1, <2>1, <2>2, <3>1
  <2>5. r[1] >= Base + 1
    <3>1. CASE r[1] <= Base
      <4>1. Base \in r[1]..r[2] /\ Base > 0
        BY <1>1, <1>2, <2>1, <3>1
      <4> QED
        BY <2>1, <4>1 DEF StartsRun, RunIsOver
    <3> QED
      BY <1>1, <2>1, <3>1
  <2>6. r[1] <= Base + 1
    <3>1. CASE r[1] > Base + 1
      <4>1. r[1] - 1 \in (Base + 1)..dwi /\ r[1] > 1
        BY <1>1, <2>1, <2>4, <3>1
      <4> QED
        BY <2>1, <2>3, <4>1
    <3> QED
      BY <1>1, <2>1, <3>1
  <2> QED
    BY <1>1, <1>2, <2>1, <2>4, <2>5, <2>6 DEF ThisRun
<1>3. Ended(m) \subseteq Gone \cup {ThisRun}
  BY <1>2 DEF Ended, Gone, LongRuns
<1>4. Gone \subseteq Ended(m)
  <2>1. \A r \in Runs : r[2] \in Nat
    BY DEF Runs
  <2> QED
    BY <1>1, <2>1 DEF Ended, Gone, LongRuns
<1>5. CASE LongEnough(lpd)
  <2>1. lpd # <<>> /\ n >= giMinASCII
    BY <1>1, <1>5 DEF LongEnough
  <2>2. ThisRun \in Ended(m)
    <3>1. ThisRun[2] <= m
      BY <1>1 DEF ThisRun
    <3> QED
      BY <2>1, <3>1, RunIsWhole DEF Ended, LongRuns
  <2> QED
    BY <1>3, <1>4, <1>5, <2>2
<1>6. CASE ~LongEnough(lpd)
  <2>1. ThisRun \notin LongRuns \/ ThisRun \in Gone
    <3>1. CASE lpd = <<>>
      <4>1. ASSUME ThisRun \in Runs PROVE FALSE
        BY <1>1, <3>1, <4>1 DEF ThisRun, Runs
      <4> QED
        BY <4>1 DEF LongRuns
    <3>2. CASE lpd # <<>>
      <4>1. Size(ThisRun) = n
        BY <3>2, RunIsWhole
      <4> QED
        BY <1>1, <1>6, <4>1 DEF LongRuns, LongEnough
    <3> QED
      BY <3>1, <3>2
  <2>2. Ended(m) \subseteq LongRuns
    BY DEF Ended
  <2> QED
    BY <1>3, <1>4, <1>6, <2>1, <2>2
<1> QED
  BY <1>5, <1>6

-------------------------------------------------------------------------------
(* The inductive step *)

\* The file and the switches stay, and with them the runs.
LEMMA RunsStay ==
  ASSUME UNCHANGED input
  PROVE  /\ pb' = pb /\ \A class : ISMYCHAR(class)' = ISMYCHAR(class)
         /\ Runs' = Runs /\ LongRuns' = LongRuns /\ NoSplit' = NoSplit
<1>1. pb' = pb /\ gfDoASCII2' = gfDoASCII2 /\ giMinASCII' = giMinASCII
  BY DEF input
<1>2. \A class : ISMYCHAR(class)' = ISMYCHAR(class)
  BY <1>1 DEF ISMYCHAR
<1>3. Runs' = Runs
  BY <1>1 DEF Runs, ISMYCHAR
<1> QED
  BY <1>1, <1>2, <1>3 DEF LongRuns, NoSplit

\* At the end of a run its string goes where the strings of the runs before are,
\* if it is long enough.
LEMMA OnceStep ==
  ASSUME Types, LastRun, StartsRun, Once, RunIsOver, UNCHANGED input,
         NEW m \in Nat, m <= Len(pb), m = dwi \/ m = dwi + 1, Base' = m,
         LongEnough(lpd) => /\ ToSet(All') = ToSet(All) \cup {lpd}
                            /\ Len(All') = Len(All) + 1 /\ cnt' = cnt + 1,
         ~LongEnough(lpd) => /\ ToSet(All') = ToSet(All)
                             /\ Len(All') = Len(All) /\ cnt' = cnt
  PROVE  Once'
<1> SUFFICES ASSUME NoSplit' PROVE /\ ToSet(All') = {AsString(r) : r \in Gone'}
                                   /\ Len(All') = cnt' /\ cnt' = Cardinality(Gone')
  BY DEF Once
<1>1. NoSplit
  BY RunsStay
<1>2. Gone' = Ended(m)
  <2>1. Gone' = {r \in LongRuns' : r[2] <= Base'}
    BY DEF Gone, Ended
  <2> QED
    BY <2>1, RunsStay DEF Ended
<1>3. /\ ToSet(All) = {AsString(r) : r \in Gone}
      /\ Len(All) = cnt /\ cnt = Cardinality(Gone)
  BY <1>1 DEF Once
<1>4. CASE LongEnough(lpd)
  <2>1. lpd # <<>>
    BY <1>4, EmptySeq DEF Types, LongEnough
  <2>2. Gone' = Gone \cup {ThisRun} /\ AsString(ThisRun) = lpd
    BY <1>1, <1>2, <1>4, <2>1, RunsEndingNow, RunIsWhole
  <2>3. ThisRun \notin Gone
    <3>1. ThisRun[2] = dwi /\ Base = dwi - Len(lpd) /\ Len(lpd) \in Nat /\ Len(lpd) # 0
      BY <2>1, EmptySeq DEF ThisRun, Base, RunIsOver, Types
    <3> QED
      BY <3>1 DEF Gone, Ended, Types
  <2>4. IsFiniteSet(Gone)
    <3>1. IsFiniteSet(1..Len(pb))
      BY FS_Interval, LenProperties DEF Types
    <3>2. IsFiniteSet((1..Len(pb)) \X (1..Len(pb)))
      BY <3>1, FS_Product
    <3>3. Gone \subseteq (1..Len(pb)) \X (1..Len(pb))
      BY DEF Gone, Ended, LongRuns, Runs
    <3> QED
      BY <3>2, <3>3, FS_Subset
  <2>5. Cardinality(Gone') = Cardinality(Gone) + 1
    BY <2>2, <2>3, <2>4, FS_AddElement
  <2> QED
    BY <1>3, <1>4, <2>2, <2>5
<1>5. CASE ~LongEnough(lpd)
  BY <1>1, <1>2, <1>3, <1>5, RunsEndingNow
<1> QED
  BY <1>4, <1>5

\* The positions of the run are those before the next character, as many as they
\* are, and none of them was printed or packed.
LEMMA NewChars ==
  ASSUME Types, LastRun, Behind, ~done
  PROVE  /\ ToSet(lpd) = (dwi - Len(lpd) + 1)..dwi
         /\ IsFiniteSet(ToSet(lpd)) /\ Cardinality(ToSet(lpd)) = Len(lpd)
         /\ Chars(All) \cap ToSet(lpd) = {}
<1> DEFINE n == Len(lpd)
<1>1. n \in Nat /\ n <= dwi /\ dwi \in Nat /\ DOMAIN lpd = 1..n
      /\ \A i \in 1..n : lpd[i] = dwi - n + i
  BY LenProperties DEF Types, LastRun
<1>2. ToSet(lpd) = (dwi - n + 1)..dwi
  <2>1. ASSUME NEW p \in (dwi - n + 1)..dwi PROVE p \in ToSet(lpd)
    <3>1. p - (dwi - n) \in 1..n /\ dwi - n + (p - (dwi - n)) = p
      BY <1>1, <2>1
    <3>2. p = lpd[p - (dwi - n)]
      BY <1>1, <3>1
    <3> QED
      BY <1>1, <3>1, <3>2 DEF ToSet
  <2>2. ASSUME NEW p \in ToSet(lpd) PROVE p \in (dwi - n + 1)..dwi
    BY <1>1, <2>2 DEF ToSet
  <2> QED
    BY <2>1, <2>2
<1>3. IsFiniteSet((dwi - n + 1)..dwi) /\ Cardinality((dwi - n + 1)..dwi) = n
  <2>1. dwi - n + 1 \in Int /\ dwi \in Int
    BY <1>1
  <2>2. /\ IsFiniteSet((dwi - n + 1)..dwi)
        /\ Cardinality((dwi - n + 1)..dwi)
             = IF dwi - n + 1 > dwi THEN 0 ELSE dwi - (dwi - n + 1) + 1
    BY <2>1, FS_Interval
  <2> QED
    BY <1>1, <2>2
<1>4. \A p \in Chars(All) : p <= dwi - n
  BY DEF Behind, Chars
<1>5. Chars(All) \cap ToSet(lpd) = {}
  BY <1>1, <1>2, <1>4
<1> QED
  BY <1>2, <1>3, <1>5

\* The run comes after everything that was printed or packed.
LEMMA NextInOrder ==
  ASSUME Types, LastRun, Behind, Ordered, ~done
  PROVE  InOrder(Append(All, lpd))
<1> DEFINE n == Len(All)
           more == Append(All, lpd)
<1>1. All \in Seq(Seq(1..dwi)) /\ lpd \in Seq(1..dwi) /\ dwi \in Nat
  BY ConcatProperties DEF Types, All
<1>2. /\ n \in Nat /\ DOMAIN All = 1..n /\ DOMAIN more = 1..(n + 1)
      /\ \A k \in 1..n : more[k] = All[k]
      /\ more[n + 1] = lpd
  <2>1. more \in Seq(Seq(1..dwi)) /\ Len(more) = n + 1
    BY <1>1, AppendProperties
  <2> QED
    BY <1>1, <2>1, AppendProperties, LenProperties
<1>3. Rising(lpd)
  <2>1. Len(lpd) \in Nat /\ DOMAIN lpd = 1..Len(lpd)
        /\ \A i \in 1..Len(lpd) : lpd[i] = dwi - Len(lpd) + i
    BY LenProperties DEF Types, LastRun
  <2> QED
    BY <1>1, <2>1 DEF Rising
<1>4. ASSUME NEW k \in 1..n PROVE Before(All[k], lpd) /\ Rising(All[k])
  <2>1. All[k] \in ToSet(All)
    BY <1>2 DEF ToSet
  <2>2. All[k] \in Seq(1..dwi)
    BY <1>1, ElementOfSeq
  <2>3. \A p \in ToSet(All[k]) : p \in Nat /\ p <= dwi - Len(lpd)
    <3>1. \A p \in ToSet(All[k]) : p \in 1..dwi
      BY <2>2, SetOfSeq
    <3>2. \A p \in ToSet(All[k]) : p <= dwi - Len(lpd)
      BY <2>1 DEF Behind
    <3> QED
      BY <1>1, <3>1, <3>2
  <2>4. ToSet(lpd) = (dwi - Len(lpd) + 1)..dwi
    BY NewChars
  <2>5. Before(All[k], lpd)
    BY <1>1, <2>3, <2>4 DEF Before, Types
  <2> QED
    BY <1>2, <2>5 DEF Ordered, InOrder
<1> HIDE DEF more, n
<1>5. ASSUME NEW k \in DOMAIN more PROVE Rising(more[k])
  <2>1. k \in 1..n \/ k = n + 1
    BY <1>2, <1>5
  <2> QED
    BY <1>2, <1>3, <1>4, <2>1
<1>6. ASSUME NEW j \in DOMAIN more, NEW k \in DOMAIN more, j < k
      PROVE  Before(more[j], more[k])
  <2>1. j \in 1..n /\ (k \in 1..n \/ k = n + 1)
    BY <1>2, <1>6
  <2>2. CASE k \in 1..n
    BY <1>2, <1>6, <2>1, <2>2 DEF Ordered, InOrder
  <2>3. CASE k = n + 1
    BY <1>2, <1>4, <2>1, <2>3
  <2> QED
    BY <2>1, <2>2, <2>3
<1> QED
  BY <1>5, <1>6 DEF InOrder, more

\* tot grows by the characters of the run.
LEMMA TotalStep ==
  ASSUME Types, LastRun, Behind, TotalCounts, ~done,
         Chars(All') = Chars(All) \cup ToSet(lpd), tot' = Counted(lpd)
  PROVE  TotalCounts'
<1>1. IsFiniteSet(Chars(All))
  <2>1. All \in Seq(Seq(1..dwi)) /\ dwi \in Nat
    BY ConcatProperties DEF Types, All
  <2> QED
    BY <2>1, CharsAreFinite
<1>2. /\ IsFiniteSet(ToSet(lpd)) /\ Cardinality(ToSet(lpd)) = Len(lpd)
      /\ Chars(All) \cap ToSet(lpd) = {}
  BY NewChars
<1>3. Cardinality(Chars(All) \cup ToSet(lpd))
        = Cardinality(Chars(All)) + Cardinality(ToSet(lpd))
            - Cardinality(Chars(All) \cap ToSet(lpd))
  BY <1>1, <1>2, FS_Union
<1>4. Cardinality(Chars(All) \cap ToSet(lpd)) = 0
  BY <1>2, FS_EmptySet
<1>5. tot = Cardinality(Chars(All)) /\ tot \in Nat /\ Len(lpd) \in Nat
  BY LenProperties DEF TotalCounts, All, Types
<1>6. tot' = Cardinality(Chars(All'))
  BY <1>2, <1>3, <1>4, <1>5 DEF Counted
<1> QED
  BY <1>6 DEF TotalCounts, All

\* The empty line fits.
LEMMA NothingFits == IsFiniteSet(Places(<<>>)) /\ Width(<<>>) <= giKeepInLine + 1
<1>1. Places(<<>>) = {}
  BY DEF Places
<1>2. IsFiniteSet(Places(<<>>)) /\ Cardinality(Places(<<>>)) = 0
  BY <1>1, FS_EmptySet
<1>3. Width(<<>>) = 0
  BY <1>2 DEF Width
<1> QED
  BY <1>2, <1>3, LimitsAssumption

\* A string is packed only where it and the strings before it fit.
LEMMA PackedStep ==
  ASSUME Types, Fits, prta(lpd)
  PROVE  Fits'
<1>1. /\ dwi \in Nat /\ s_buf \in Seq(Seq(1..dwi)) /\ lpd \in Seq(1..dwi)
      /\ Len(lpd) \in Nat /\ giKeepInLine \in Nat
      /\ IsFiniteSet(Places(s_buf)) /\ Width(s_buf) <= giKeepInLine + 1
  BY LimitsAssumption, LenProperties DEF Types, Fits, PackedFits
<1>2. <<>> \in Seq(Seq(1..dwi)) /\ Places(<<>>) = {}
  BY DEF Places
<1>3. IsFiniteSet(Places(<<>>)) /\ Width(<<>>) = 0
  BY <1>2, FS_EmptySet DEF Width
<1>4. CASE Len(lpd) > giKeepInLine
  <2>1. s_buf' = <<>>
    BY <1>4 DEF prta
  <2> QED
    BY <1>1, <1>3, <2>1 DEF Fits, PackedFits
<1>5. CASE ~(Len(lpd) > giKeepInLine) /\ TooWide(s_buf, lpd)
  <2>1. s_buf' = Append(<<>>, lpd)
    BY <1>5 DEF prta
  <2>2. /\ IsFiniteSet(Places(Append(<<>>, lpd)))
        /\ Width(Append(<<>>, lpd)) = Width(<<>>) + Len(lpd) + 0
    BY <1>1, <1>2, <1>3, WidthOfAppend
  <2> QED
    BY <1>1, <1>3, <1>5, <2>1, <2>2 DEF Fits, PackedFits
<1>6. CASE ~(Len(lpd) > giKeepInLine) /\ ~TooWide(s_buf, lpd)
  <2>1. s_buf' = Append(s_buf, lpd)
    BY <1>6 DEF prta
  <2>2. Width(s_buf) + Len(lpd) <= giKeepInLine /\ Width(s_buf) \in Int
    BY <1>1, <1>6, WidthOfAppend DEF TooWide
  <2>3. /\ IsFiniteSet(Places(Append(s_buf, lpd)))
        /\ Width(Append(s_buf, lpd))
             = Width(s_buf) + Len(lpd) + IF s_buf = <<>> THEN 0 ELSE 1
    BY <1>1, WidthOfAppend
  <2> QED
    BY <1>1, <2>1, <2>2, <2>3 DEF Fits, PackedFits
<1> QED
  BY <1>4, <1>5, <1>6

\* What one more string makes of what was printed and packed.
LEMMA PrtaStep ==
  ASSUME Types, LastRun, Behind, Ordered, TotalCounts, Fits, ~done,
         prta(lpd), tot' = Counted(lpd)
  PROVE  /\ out' \in Seq(Seq(1..dwi)) /\ s_buf' \in Seq(Seq(1..dwi))
         /\ tot' \in Nat
         /\ ToSet(All') = ToSet(All) \cup {lpd} /\ Len(All') = Len(All) + 1
         /\ InOrder(All') /\ TotalCounts' /\ Fits'
<1>1. /\ dwi \in Nat /\ out \in Seq(Seq(1..dwi)) /\ s_buf \in Seq(Seq(1..dwi))
      /\ lpd \in Seq(1..dwi) /\ Len(lpd) \in Nat /\ tot \in Nat
      /\ All \in Seq(Seq(1..dwi))
  BY ConcatProperties, LenProperties DEF Types, All
<1>2. /\ out' \in Seq(Seq(1..dwi)) /\ s_buf' \in Seq(Seq(1..dwi))
      /\ All' = Append(All, lpd)
  BY <1>1, PrtaAdds DEF All
<1>3. ToSet(All') = ToSet(All) \cup {lpd} /\ Len(All') = Len(All) + 1
  BY <1>1, <1>2, SetOfAppend, AppendProperties
<1>4. Chars(All') = Chars(All) \cup ToSet(lpd)
  BY <1>1, <1>2, CharsOfAppend
<1>5. InOrder(All')
  BY <1>2, NextInOrder
<1>6. tot' \in Nat
  BY <1>1 DEF Counted
<1> QED
  BY <1>2, <1>3, <1>4, <1>5, <1>6, TotalStep, PackedStep

\* The strings up to a position are those up to a later one.
LEMMA WiderStrings ==
  ASSUME NEW n \in Nat, NEW strings \in Seq(Seq(1..n))
  PROVE  strings \in Seq(Seq(1..(n + 1)))
<1>1. 1..n \subseteq 1..(n + 1)
  OBVIOUS
<1>2. Seq(1..n) \subseteq Seq(1..(n + 1))
  BY <1>1, SeqMonotonic
<1> QED
  BY <1>2, SeqMonotonic

\* InRun keeps the invariant: a run too long for the buffer goes out in pieces,
\* which NoSplit excludes.
LEMMA InRunKeeps ==
  ASSUME IInv, InRun, ~done
  PROVE  IInv'
<1> DEFINE n == Len(lpd)
<1>1. /\ Types /\ LastRun /\ Behind /\ Ordered /\ StartsRun /\ Once /\ TotalCounts
      /\ Fits
      /\ dwi \in Nat /\ dwi < Len(pb) /\ dwi' = dwi + 1 /\ ISMYCHAR(pb[dwi + 1])
      /\ UNCHANGED <<input, shtr, cnt, done>>
      /\ Len(pb) \in Nat /\ n \in Nat /\ n <= dwi /\ MXDIAG \in Nat \ {0}
  BY LimitsAssumption, LenProperties DEF IInv, Types, InRun, LastRun
<1>2. /\ 1..dwi \subseteq 1..(dwi + 1) /\ dwi + 1 \in 1..(dwi + 1)
      /\ <<dwi + 1>> \in Seq(1..(dwi + 1)) /\ lpd \in Seq(1..(dwi + 1))
  <2>1. 1..dwi \subseteq 1..(dwi + 1) /\ dwi + 1 \in 1..(dwi + 1)
    BY <1>1
  <2>2. lpd \in Seq(1..(dwi + 1))
    BY <1>1, <2>1, SeqMonotonic DEF Types
  <2> QED
    BY <2>1, <2>2
<1>3. /\ pb' = pb /\ gfDoASCII2' = gfDoASCII2 /\ giMinASCII' = giMinASCII
      /\ shtr' = shtr /\ cnt' = cnt /\ done' = done
  BY <1>1 DEF input
<1>4. CASE Full(lpd)
  <2>1. prta(lpd) /\ tot' = Counted(lpd) /\ lpd' = <<dwi + 1>>
    BY <1>4 DEF InRun
  <2>2. /\ out' \in Seq(Seq(1..dwi)) /\ s_buf' \in Seq(Seq(1..dwi))
        /\ tot' \in Nat /\ InOrder(All') /\ TotalCounts' /\ Fits'
    BY <1>1, <2>1, PrtaStep
  <2>3. out' \in Seq(Seq(1..dwi')) /\ s_buf' \in Seq(Seq(1..dwi'))
    BY <1>1, <2>2, WiderStrings
  <2>4. ~NoSplit
    <3>1. n >= MXDIAG
      BY <1>4 DEF Full
    <3>2. CASE NoSplit
      <4>1. \A i \in (dwi - n + 1)..(dwi + 1) : ISMYCHAR(pb[i])
        BY <1>1 DEF LastRun
      <4>2. dwi - n + 1 > 1 => ~ISMYCHAR(pb[dwi - n + 1 - 1])
        BY <1>1, <3>2 DEF StartsRun, Base
      <4>3. PICK r \in Runs : Size(r) >= n + 1
        <5>1. PICK a \in Nat, b \in Nat : a = dwi - n + 1 /\ b = dwi + 1
          BY <1>1
        <5>2. /\ 0 < a /\ a <= b /\ b <= Len(pb) /\ pb \in Seq(Class)
              /\ b - a + 1 = n + 1
          BY <1>1, <5>1 DEF Types
        <5>3. /\ \A i \in a..b : ISMYCHAR(pb[i])
              /\ a > 1 => ~ISMYCHAR(pb[a - 1])
          BY <1>1, <4>1, <4>2, <5>1
        <5>4. \E r \in Runs : Size(r) >= b - a + 1
          BY <5>2, <5>3, RunGoesOn
        <5> QED
          BY <5>2, <5>4
      <4>4. Size(r) \in Int
        BY DEF Runs, Size
      <4> QED
        BY <1>1, <3>1, <3>2, <4>3, <4>4 DEF NoSplit
    <3> QED
      BY <3>2
  <2>5. Len(lpd') = 1 /\ lpd'[1] = dwi + 1
    BY <2>1
  <2>6. Types'
    BY <1>1, <1>2, <1>3, <2>1, <2>2, <2>3, <2>5 DEF Types
  <2>7. LastRun'
    <3>1. \A class : ISMYCHAR(class)' = ISMYCHAR(class)
      BY <1>1, RunsStay
    <3> QED
      BY <1>1, <1>3, <2>1, <2>5, <3>1 DEF LastRun
  <2>8. Behind'
    <3>1. All' \in Seq(Seq(1..dwi))
      BY <2>2, ConcatProperties DEF All
    <3>2. \A s \in ToSet(All') : \A p \in ToSet(s) : p \in 1..dwi
      BY <3>1, SetOfSeq
    <3> QED
      BY <1>1, <2>5, <3>2 DEF Behind
  <2> QED
    BY <1>1, <1>3, <2>2, <2>4, <2>6, <2>7, <2>8, RunsStay
       DEF IInv, Ordered, StartsRun, Once, Emptied
<1>5. CASE ~Full(lpd)
  <2>1. lpd' = Append(lpd, dwi + 1) /\ UNCHANGED <<out, s_buf, tot>>
    BY <1>5 DEF InRun
  <2>2. /\ lpd' \in Seq(1..(dwi + 1)) /\ Len(lpd') = n + 1
        /\ \A i \in 1..n : lpd'[i] = lpd[i]
        /\ lpd'[n + 1] = dwi + 1
    BY <1>2, <2>1, AppendProperties
  <2>3. All' = All /\ Base' = Base
    BY <1>1, <1>3, <2>1, <2>2 DEF All, Base
  <2>4. out' \in Seq(Seq(1..dwi')) /\ s_buf' \in Seq(Seq(1..dwi'))
    BY <1>1, <2>1, WiderStrings DEF Types
  <2>5. Types'
    <3>1. n + 1 <= MXDIAG
      BY <1>1, <1>5 DEF Full
    <3> QED
      BY <1>1, <1>3, <2>1, <2>2, <2>4, <3>1 DEF Types
  <2>6. LastRun'
    <3>1. ASSUME NEW i \in 1..(n + 1) PROVE lpd'[i] = dwi' - Len(lpd') + i
      <4>1. CASE i \in 1..n
        BY <1>1, <2>2, <4>1 DEF LastRun
      <4>2. CASE i = n + 1
        BY <1>1, <2>2, <4>2
      <4> QED
        BY <1>1, <4>1, <4>2
    <3>2. \A i \in (dwi - n + 1)..(dwi + 1) : ISMYCHAR(pb[i])
      BY <1>1 DEF LastRun
    <3>3. \A class : ISMYCHAR(class)' = ISMYCHAR(class)
      BY <1>1, RunsStay
    <3> QED
      BY <1>1, <1>3, <2>2, <3>1, <3>2, <3>3 DEF LastRun
  <2>7. Behind'
    BY <1>1, <2>2, <2>3 DEF Behind
  <2>8. StartsRun' /\ Once' /\ Ordered'
    <3>1. /\ \A class : ISMYCHAR(class)' = ISMYCHAR(class)
          /\ LongRuns' = LongRuns /\ NoSplit' = NoSplit
      BY <1>1, RunsStay
    <3>2. Gone' = Gone
      BY <2>3, <3>1 DEF Gone, Ended
    <3> QED
      BY <1>1, <1>3, <2>3, <3>1, <3>2 DEF StartsRun, Once, Ordered
  <2> QED
    BY <1>1, <1>3, <2>1, <2>3, <2>5, <2>6, <2>7, <2>8
       DEF IInv, Emptied, TotalCounts, Fits, PackedFits
<1> QED
  BY <1>4, <1>5

\* EndOfRun keeps the invariant: the run is judged, and its string added.
LEMMA EndOfRunKeeps ==
  ASSUME IInv, EndOfRun, ~done
  PROVE  IInv'
<1>1. /\ Types /\ LastRun /\ Behind /\ Ordered /\ StartsRun /\ Once /\ TotalCounts
      /\ Fits
      /\ dwi \in Nat /\ dwi < Len(pb) /\ dwi' = dwi + 1 /\ ~ISMYCHAR(pb[dwi + 1])
      /\ UNCHANGED input /\ done' = done /\ lpd' = <<>>
      /\ Len(pb) \in Nat
  BY LimitsAssumption, LenProperties DEF IInv, Types, EndOfRun
<1>2. pb' = pb /\ gfDoASCII2' = gfDoASCII2 /\ giMinASCII' = giMinASCII
  BY <1>1 DEF input
<1>3. RunIsOver /\ Base' = dwi + 1
  BY <1>1, EmptySeq DEF RunIsOver, Base
<1>6. /\ out' \in Seq(Seq(1..dwi)) /\ s_buf' \in Seq(Seq(1..dwi))
      /\ tot' \in Nat /\ shtr' \in Nat /\ cnt' \in Nat
      /\ LongEnough(lpd) => /\ ToSet(All') = ToSet(All) \cup {lpd}
                            /\ Len(All') = Len(All) + 1 /\ cnt' = cnt + 1
      /\ ~LongEnough(lpd) => /\ ToSet(All') = ToSet(All)
                             /\ Len(All') = Len(All) /\ cnt' = cnt
      /\ InOrder(All') /\ TotalCounts' /\ Fits'
  <2>1. CASE LongEnough(lpd)
    <3>1. prta(lpd) /\ tot' = Counted(lpd) /\ cnt' = cnt + 1 /\ shtr' = shtr
      BY <2>1 DEF EndOfRun
    <3>2. shtr' \in Nat /\ cnt' \in Nat
      BY <1>1, <3>1 DEF Types
    <3> QED
      BY <1>1, <2>1, <3>1, <3>2, PrtaStep
  <2>2. CASE ~LongEnough(lpd)
    <3>1. shtr' = shtr + 1 /\ UNCHANGED <<out, s_buf, tot, cnt>>
      BY <2>2 DEF EndOfRun
    <3>2. All' = All /\ InOrder(All)
      BY <1>1, <3>1 DEF All, Ordered
    <3> QED
      BY <1>1, <2>2, <3>1, <3>2 DEF Types, TotalCounts, Fits, PackedFits
  <2> QED
    BY <2>1, <2>2
<1>7. Once'
  <2>1. dwi + 1 \in Nat /\ dwi + 1 <= Len(pb)
    BY <1>1
  <2> QED
    BY <1>1, <1>3, <1>6, <2>1, OnceStep
<1>8. Types'
  <2>1. out' \in Seq(Seq(1..dwi')) /\ s_buf' \in Seq(Seq(1..dwi'))
    BY <1>1, <1>6, WiderStrings
  <2>2. lpd' \in Seq(1..dwi') /\ Len(lpd') = 0
    BY <1>1
  <2> QED
    BY <1>1, <1>2, <1>6, <2>1, <2>2, LimitsAssumption DEF Types
<1>9. LastRun' /\ StartsRun'
  <2>1. Len(lpd') = 0 /\ (Len(lpd') + 1)..Len(lpd') = {}
    BY <1>1
  <2>2. LastRun'
    BY <1>1, <2>1 DEF LastRun
  <2>3. Base' = dwi' /\ ~ISMYCHAR(pb[dwi])'
    BY <1>1, <1>2, <1>3 DEF ISMYCHAR
  <2>4. StartsRun'
    BY <2>3, Zenon DEF StartsRun
  <2> QED
    BY <2>2, <2>4
<1>10. Behind'
  <2>1. All' \in Seq(Seq(1..dwi))
    BY <1>6, ConcatProperties DEF All
  <2>2. \A s \in ToSet(All') : \A p \in ToSet(s) : p \in 1..dwi
    BY <2>1, SetOfSeq
  <2>3. dwi' - Len(lpd') = dwi + 1
    BY <1>1
  <2> QED
    BY <1>1, <2>2, <2>3 DEF Behind
<1> QED
  BY <1>1, <1>6, <1>7, <1>8, <1>9, <1>10 DEF IInv, Ordered, Emptied

\* OutOfRun keeps the invariant: no run ends there.
LEMMA OutOfRunKeeps ==
  ASSUME IInv, OutOfRun, ~done
  PROVE  IInv'
<1>1. /\ Types /\ LastRun /\ Behind /\ Ordered /\ StartsRun /\ Once /\ TotalCounts
      /\ Fits
      /\ dwi \in Nat /\ dwi < Len(pb) /\ dwi' = dwi + 1 /\ ~ISMYCHAR(pb[dwi + 1])
      /\ UNCHANGED input /\ UNCHANGED <<lpd, s_buf, tot, shtr, cnt, done, out>>
      /\ lpd = <<>> /\ Len(pb) \in Nat /\ giMinASCII \in Nat \ {0}
  BY LenProperties DEF IInv, Types, OutOfRun
<1>2. pb' = pb /\ gfDoASCII2' = gfDoASCII2 /\ giMinASCII' = giMinASCII
  BY <1>1 DEF input
<1>3. RunIsOver /\ Base' = dwi + 1 /\ All' = All /\ ~LongEnough(lpd)
  BY <1>1, EmptySeq DEF RunIsOver, Base, All, LongEnough
<1>4. Once'
  <2>1. dwi + 1 \in Nat /\ dwi + 1 <= Len(pb)
    BY <1>1
  <2> QED
    BY <1>1, <1>3, <2>1, OnceStep
<1>5. Types'
  <2>1. out' \in Seq(Seq(1..dwi')) /\ s_buf' \in Seq(Seq(1..dwi'))
    BY <1>1, WiderStrings DEF Types
  <2>2. lpd' \in Seq(1..dwi') /\ Len(lpd') = 0
    BY <1>1
  <2> QED
    BY <1>1, <1>2, <2>1, <2>2, LimitsAssumption DEF Types
<1>6. LastRun' /\ StartsRun'
  <2>1. Len(lpd') = 0 /\ (Len(lpd') + 1)..Len(lpd') = {}
    BY <1>1
  <2>2. LastRun'
    BY <1>1, <2>1 DEF LastRun
  <2>3. Base' = dwi' /\ ~ISMYCHAR(pb[dwi])'
    BY <1>1, <1>2, <1>3 DEF ISMYCHAR
  <2>4. StartsRun'
    BY <2>3, Zenon DEF StartsRun
  <2> QED
    BY <2>2, <2>4
<1>7. Behind'
  <2>1. All \in Seq(Seq(1..dwi))
    BY <1>1, ConcatProperties DEF All, Types
  <2>2. \A s \in ToSet(All) : \A p \in ToSet(s) : p \in 1..dwi
    BY <2>1, SetOfSeq
  <2>3. dwi' - Len(lpd') = dwi + 1
    BY <1>1
  <2> QED
    BY <1>1, <1>3, <2>2, <2>3 DEF Behind
<1> QED
  BY <1>1, <1>3, <1>4, <1>5, <1>6, <1>7
     DEF IInv, Ordered, Emptied, TotalCounts, Fits, PackedFits

\* Finish keeps the invariant: the last run is judged, and overtakes the packed
\* strings where it is printed.
LEMMA FinishKeeps ==
  ASSUME IInv, Finish
  PROVE  IInv'
<1> DEFINE S == Seq(1..dwi)
<1>1. /\ Types /\ LastRun /\ Behind /\ Ordered /\ StartsRun /\ Once /\ TotalCounts
      /\ dwi \in Nat /\ dwi = Len(pb) /\ dwi' = dwi /\ ~done /\ done' = TRUE
      /\ UNCHANGED input /\ s_buf' = <<>> /\ giKeepInLine \in Nat
      /\ out \in Seq(S) /\ s_buf \in Seq(S) /\ lpd \in S /\ <<>> \in Seq(S)
      /\ All \in Seq(S)
  BY LimitsAssumption, ConcatProperties DEF IInv, Types, Finish, All
<1>2. pb' = pb /\ gfDoASCII2' = gfDoASCII2 /\ giMinASCII' = giMinASCII
  BY <1>1 DEF input
<1>3. RunIsOver /\ Base' = dwi
  BY <1>1, <1>2 DEF RunIsOver, Base
<1>4. Fits'
  BY <1>1, NothingFits DEF Fits, PackedFits
<1>5. LastRun' /\ Behind' /\ Ordered' /\ StartsRun' /\ Emptied'
  BY <1>1, <1>2 DEF LastRun, Behind, Ordered, StartsRun, Emptied
<1>6. CASE LongEnough(lpd)
  <2>1. /\ out' = Append(out, lpd) \o s_buf
        /\ tot' = Counted(lpd) /\ cnt' = cnt + 1 /\ lpd' = <<>> /\ shtr' = shtr
    BY <1>6 DEF Finish
  <2>2. Append(out, lpd) \in Seq(S) /\ Len(Append(out, lpd)) = Len(out) + 1
    BY <1>1, AppendProperties
  <2>3. out' \in Seq(S) /\ All' = out'
    BY <1>1, <2>1, <2>2, ConcatProperties, ConcatEmptySeq DEF All
  <2>4. ToSet(All') = ToSet(All) \cup {lpd}
    <3>1. ToSet(All) = ToSet(out) \cup ToSet(s_buf)
      BY <1>1, SetOfConcat DEF All
    <3>2. ToSet(Append(out, lpd) \o s_buf) = ToSet(Append(out, lpd)) \cup ToSet(s_buf)
      <4>1. PICK a \in Seq(S) : a = Append(out, lpd)
        BY <2>2
      <4>2. ToSet(a \o s_buf) = ToSet(a) \cup ToSet(s_buf)
        BY <1>1, SetOfConcat
      <4> QED
        BY <4>1, <4>2
    <3>3. ToSet(Append(out, lpd)) = ToSet(out) \cup {lpd}
      BY <1>1, SetOfAppend
    <3> QED
      BY <2>1, <2>3, <3>1, <3>2, <3>3
  <2>5. Len(All') = Len(All) + 1
    BY <1>1, <2>1, <2>2, <2>3, ConcatProperties, LenProperties DEF All
  <2>6. Chars(All') = Chars(All) \cup ToSet(lpd)
    BY <2>4, Zenon DEF Chars
  <2>7. TotalCounts'
    BY <1>1, <2>1, <2>6, TotalStep
  <2>8. Once'
    BY <1>1, <1>3, <1>6, <2>1, <2>4, <2>5, OnceStep
  <2>9. Types'
    <3>1. tot' \in Nat /\ cnt' \in Nat /\ lpd' \in Seq(1..dwi) /\ Len(lpd') = 0
      BY <1>1, <2>1, LenProperties DEF Types, Counted
    <3> QED
      BY <1>1, <1>2, <2>1, <2>3, <3>1, LimitsAssumption DEF Types
  <2> QED
    BY <1>4, <1>5, <2>7, <2>8, <2>9 DEF IInv
<1>7. CASE ~LongEnough(lpd)
  <2>1. /\ out' = out \o s_buf /\ shtr' = shtr + 1
        /\ UNCHANGED <<tot, cnt, lpd>>
    BY <1>7 DEF Finish
  <2>2. All' = All /\ out' \in Seq(S)
    BY <1>1, <2>1, ConcatEmptySeq DEF All
  <2>3. TotalCounts'
    BY <1>1, <2>1, <2>2 DEF TotalCounts, All
  <2>4. Once'
    BY <1>1, <1>3, <1>7, <2>1, <2>2, OnceStep
  <2>5. Types'
    BY <1>1, <1>2, <2>1, <2>2 DEF Types
  <2> QED
    BY <1>4, <1>5, <2>3, <2>4, <2>5 DEF IInv
<1> QED
  BY <1>6, <1>7

\* The invariant holds to begin with.
LEMMA InitHolds ==
  ASSUME Init
  PROVE  IInv
<1>1. /\ pb \in Seq(Class) /\ giMinASCII \in Nat \ {0} /\ gfDoASCII2 \in BOOLEAN
      /\ giMinASCII \in Mins /\ MXDIAG \in Nat \ {0} /\ giKeepInLine \in Nat
      /\ dwi = 0 /\ lpd = <<>> /\ s_buf = <<>> /\ out = <<>> /\ done = FALSE
      /\ tot = 0 /\ shtr = 0 /\ cnt = 0
  BY FilesAssumption, LimitsAssumption DEF Init
<1>2. Len(pb) \in Nat /\ Len(lpd) = 0
  BY <1>1, LenProperties
<1>3. Types
  <2>1. dwi \in Nat /\ dwi <= Len(pb) /\ Len(lpd) <= MXDIAG /\ 0 \in Nat
    BY <1>1, <1>2
  <2>2. lpd \in Seq(1..dwi) /\ s_buf \in Seq(Seq(1..dwi)) /\ out \in Seq(Seq(1..dwi))
    BY <1>1, EmptySeq
  <2> QED
    BY <1>1, <2>1, <2>2 DEF Types
<1>4. All = <<>> /\ ToSet(All) = {} /\ Len(All) = 0 /\ DOMAIN All = {}
  <2>1. All = <<>>
    BY <1>1 DEF All
  <2> QED
    BY <2>1 DEF ToSet
<1>5. LastRun /\ Behind /\ Ordered /\ StartsRun /\ Emptied
  BY <1>1, <1>2, <1>4 DEF LastRun, Behind, Ordered, InOrder, StartsRun, Base, Emptied
<1>6. Once
  <2>1. Base = 0
    <3>1. Base = dwi - Len(lpd)
      BY <1>1 DEF Base
    <3> QED
      BY <1>1, <1>2, <3>1
  <2>2. Gone = {}
    BY <2>1 DEF Gone, Ended, LongRuns, Runs
  <2> QED
    BY <1>1, <1>4, <2>2, FS_EmptySet DEF Once
<1>7. TotalCounts
  <2>1. Chars(All) = {}
    BY <1>4 DEF Chars
  <2> QED
    BY <1>1, <2>1, FS_EmptySet DEF TotalCounts, All
<1>8. Fits
  BY <1>1, NothingFits DEF Fits, PackedFits
<1> QED
  BY <1>3, <1>5, <1>6, <1>7, <1>8 DEF IInv

\* Every step keeps the invariant.
LEMMA StepKeeps ==
  ASSUME IInv, [Next]_vars
  PROVE  IInv'
<1>1. CASE InRun \/ EndOfRun \/ OutOfRun
  <2>1. ~done
    BY <1>1 DEF IInv, Types, Emptied, InRun, EndOfRun, OutOfRun
  <2> QED
    BY <1>1, <2>1, InRunKeeps, EndOfRunKeeps, OutOfRunKeeps
<1>2. CASE Finish
  BY <1>2, FinishKeeps
<1>3. CASE UNCHANGED vars
  BY <1>3 DEF vars, input, IInv, Types, LastRun, Behind, Ordered, StartsRun, Once,
       Emptied, TotalCounts, Fits, PackedFits, All, Base, Gone, Ended, LongRuns,
       Runs, NoSplit, ISMYCHAR
<1> QED
  BY <1>1, <1>2, <1>3 DEF Next

-------------------------------------------------------------------------------
(* The theorems *)

\* The invariant holds in every state.
LEMMA Always == Spec => []IInv
<1>1. Init => IInv
  BY InitHolds
<1>2. IInv /\ [Next]_vars => IInv'
  BY StepKeeps
<1> QED
  BY <1>1, <1>2, PTL DEF Spec

\* ProcessASCII keeps its types, and the run stays within its buffer, for every
\* file and every size of it.
THEOREM TypeCorrect == Spec => []TypeOK
<1>1. ASSUME IInv PROVE TypeOK
  BY <1>1 DEF IInv, Types, TypeOK
<1> QED
  BY <1>1, Always, PTL

\* Every run of the least length, and no other, is printed once and whole, if none
\* is too long for the buffer; and until the end strings are printed and packed in
\* the order of the file, the pieces of runs that were split included.
THEOREM EveryStringIsShownOnce == Spec => []StringsInOrder
<1>1. ASSUME IInv PROVE EveryStringOnce
  <2> SUFFICES ASSUME done, NoSplit
               PROVE  /\ ToSet(out) = {AsString(r) : r \in LongRuns}
                      /\ Len(out) = Cardinality(LongRuns)
                      /\ cnt = Cardinality(LongRuns)
    BY DEF EveryStringOnce
  <2>1. All = out
    <3>1. s_buf = <<>> /\ out \in Seq(Seq(1..dwi))
      BY <1>1 DEF IInv, Emptied, Types
    <3> QED
      BY <3>1, ConcatEmptySeq DEF All
  <2>2. Gone = LongRuns
    <3>1. \A r \in Runs : r[2] <= Base
      <4>1. Base = Len(pb) /\ Len(pb) \in Nat
        BY <1>1, LenProperties DEF IInv, Types, Base
      <4> QED
        BY <4>1 DEF Runs
    <3> QED
      BY <3>1 DEF Gone, Ended, LongRuns
  <2>3. /\ ToSet(All) = {AsString(r) : r \in Gone}
        /\ Len(All) = cnt /\ cnt = Cardinality(Gone)
    BY <1>1 DEF IInv, Once
  <2> QED
    BY <2>1, <2>2, <2>3
<1>2. ASSUME IInv PROVE InFileOrder
  BY <1>2, NextInOrder DEF IInv, InFileOrder, All
<1>3. IInv => StringsInOrder
  BY <1>1, <1>2 DEF StringsInOrder
<1> QED
  BY <1>3, Always, PTL

\* tot is the number of characters of the file that were printed or packed, for
\* every file.
THEOREM TotalIsRight == Spec => []TotalCounts
<1>1. IInv => TotalCounts
  BY DEF IInv
<1> QED
  BY <1>1, Always, PTL

\* A packed line is at most one wider than giKeepInLine, for every file and every
\* width.
THEOREM PackedLinesFit == Spec => []PackedFits
<1>1. IInv => PackedFits
  BY DEF IInv, Fits
<1> QED
  BY <1>1, Always, PTL
===============================================================================

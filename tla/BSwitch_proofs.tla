----------------------------- MODULE BSwitch_proofs -----------------------------
(***************************************************************************)
(* Proofs about BSwitch, for every text behind -BLOCKS.                    *)
(***************************************************************************)
EXTENDS BSwitch, HexDump_proofs, FiniteSetTheorems

IsSeq(s) == \E S : s \in Seq(S)

\* Of the text t, what BlocksAsTyped says of text.
ColonsOf(t) == {k \in DOMAIN t : t[k] = ":"}
FieldOf(t, c) ==
  LET past == {d \in ColonsOf(t) : d > c} \cup {Len(t) + 1}
  IN  SubSeq(t, c + 1, (CHOOSE d \in past : \A e \in past : d <= e) - 1)
Rank(t, c) == Cardinality({d \in ColonsOf(t) : d <= c})

\* An entry as Store puts it, which may hold a zero.
Raw(f) ==
  LET x == {k \in DOMAIN f : f[k] = "X"}
      n == IF x = {} THEN Len(f) + 1 ELSE CHOOSE k \in x : TRUE
  IN  [num |-> Given(SubSeq(f, 1, n - 1)), cnt |-> Given(SubSeq(f, n + 1, Len(f)))]

\* The list has an entry for each colon before the place p.
StoredIn(t, list, p) ==
  /\ IsSeq(list)
  /\ Len(list) = Cardinality({d \in ColonsOf(t) : d < p})
  /\ \A c \in ColonsOf(t) :
       c < p => IsEntry(FieldOf(t, c)) /\ list[Rank(t, c)] = Raw(FieldOf(t, c))

\* The digits read behind the colon c, up to the place a.
NumIn(t, a, p1, p2, c) ==
  /\ p1 = SubSeq(t, c + 1, a - 1) /\ p2 = <<>>
  /\ \A k \in (c + 1)..(a - 1) : t[k] \in Digit
CntIn(t, a, p1, p2, c) ==
  \E x \in (c + 1)..(a - 1) :
    /\ t[x] = "X"
    /\ p1 = SubSeq(t, c + 1, x - 1) /\ p2 = SubSeq(t, x + 1, a - 1)
    /\ \A k \in (c + 1)..(a - 1) : k # x => t[k] \in Digit

\* What the switch has read so far is in the list, but for the entry it is in.
\* BlocksAsTyped speaks only of the end.
TextInv ==
  switch = "blocks" =>
    /\ text \in BlockTexts /\ at \in 1..(Len(text) + 1)
    /\ sw \in {"colon", "num", "cnt", "taken", "refused"}
    /\ sw = "colon" =>
         (at <= Len(text) => text[at] = ":") /\ StoredIn(text, g_pHexBlock, at)
    /\ sw = "num" =>
         \E c \in ColonsOf(text) : /\ c < at /\ StoredIn(text, g_pHexBlock, c)
                                  /\ NumIn(text, at, ptmp1, ptmp2, c)
    /\ sw = "cnt" =>
         \E c \in ColonsOf(text) : /\ c < at /\ StoredIn(text, g_pHexBlock, c)
                                  /\ CntIn(text, at, ptmp1, ptmp2, c)
    /\ sw \in {"taken", "refused"} => BlocksAsTyped

-------------------------------------------------------------------------------
(* Texts *)

\* A colon and an X are no digits.
LEMMA NoDigits == ":" \notin Digit /\ "X" \notin Digit
<1>1. DOMAIN Digits = 1..10
  BY DEF Digits
<1>2. \A k \in 1..10 : Digits[k] \in {"0", "1", "2", "3", "4", "5", "6", "7", "8", "9"}
  BY DEF Digits
<1>3. Digit \subseteq {"0", "1", "2", "3", "4", "5", "6", "7", "8", "9"}
  BY <1>1, <1>2 DEF Digit, ToSet
<1> QED
  BY <1>3

\* The names BlocksAsTyped uses are these operators of text.
LEMMA OfText ==
  /\ Colons = ColonsOf(text)
  /\ \A c : Field(c) = FieldOf(text, c)
BY DEF Colons, ColonsOf, Field, FieldOf

\* A text is a sequence, and its colons are places of it.
LEMMA ColonsIn ==
  ASSUME NEW t \in BlockTexts
  PROVE  /\ t \in Seq(Char) /\ Len(t) \in Nat /\ Len(t) >= 1 /\ t[1] = ":"
         /\ DOMAIN t = 1..Len(t) /\ ColonsOf(t) \subseteq 1..Len(t)
         /\ IsFiniteSet(ColonsOf(t))
<1>1. t \in Seq(Char) /\ t # <<>> /\ t[1] = ":"
  BY TextsAssumption
<1>2. Len(t) \in Nat /\ DOMAIN t = 1..Len(t)
  BY <1>1
<1>3. Len(t) >= 1
  <2>1. Len(t) # 0
    BY <1>1
  <2> QED
    BY <1>2, <2>1
<1>4. ColonsOf(t) \subseteq 1..Len(t)
  BY <1>2 DEF ColonsOf
<1>5. IsFiniteSet(1..Len(t))
  BY <1>2, FS_Interval
<1>6. IsFiniteSet(ColonsOf(t))
  BY <1>4, <1>5, FS_Subset
<1> QED
  BY <1>1, <1>2, <1>3, <1>4, <1>6

\* A field ends before the next colon, or with the text.
LEMMA FieldIs ==
  ASSUME NEW t \in BlockTexts, NEW c \in ColonsOf(t), NEW e \in (c + 1)..(Len(t) + 1),
         \A k \in (c + 1)..(e - 1) : t[k] # ":",
         e <= Len(t) => t[e] = ":"
  PROVE  FieldOf(t, c) = SubSeq(t, c + 1, e - 1)
<1> DEFINE past == {d \in ColonsOf(t) : d > c} \cup {Len(t) + 1}
<1>1. /\ Len(t) \in Nat /\ DOMAIN t = 1..Len(t) /\ c \in 1..Len(t) /\ e \in Nat
      /\ ColonsOf(t) \subseteq 1..Len(t)
  BY ColonsIn
<1>2. e \in past
  <2>1. CASE e <= Len(t)
    BY <1>1, <2>1 DEF ColonsOf
  <2>2. CASE e = Len(t) + 1
    BY <2>2
  <2> QED
    BY <1>1, <2>1, <2>2
<1>3. ASSUME NEW d \in past PROVE e <= d /\ d \in Nat
  <2>1. CASE d = Len(t) + 1
    BY <1>1, <2>1
  <2>2. CASE d \in ColonsOf(t) /\ d > c
    <3>1. d \in 1..Len(t) /\ t[d] = ":"
      BY <1>1, <2>2 DEF ColonsOf
    <3>2. ~(d \in (c + 1)..(e - 1))
      BY <3>1
    <3> QED
      BY <1>1, <2>2, <3>1, <3>2
  <2> QED
    BY <1>3, <2>1, <2>2
<1> HIDE DEF past
<1>4. \A d \in past : (\A f \in past : d <= f) => d = e
  <2> TAKE d \in past
  <2> HAVE \A f \in past : d <= f
  <2>1. d <= e /\ e <= d /\ d \in Nat
    BY <1>2, <1>3
  <2> QED
    BY <1>1, <2>1
<1>5. (CHOOSE d \in past : \A f \in past : d <= f) = e
  <2>1. \E d \in past : \A f \in past : d <= f
    BY <1>2, <1>3
  <2> QED
    BY <1>4, <2>1
<1> QED
  BY <1>5 DEF FieldOf, past

\* A character behind a colon is of its field if there is no colon between them.
LEMMA FieldReaches ==
  ASSUME NEW t \in BlockTexts, NEW c \in ColonsOf(t), NEW a \in (c + 1)..Len(t),
         \A k \in (c + 1)..a : t[k] # ":"
  PROVE  \E e \in (a + 1)..(Len(t) + 1) : FieldOf(t, c) = SubSeq(t, c + 1, e - 1)
<1>1. /\ Len(t) \in Nat /\ DOMAIN t = 1..Len(t) /\ c \in 1..Len(t) /\ a \in Nat
      /\ ColonsOf(t) \subseteq 1..Len(t)
  BY ColonsIn
<1> DEFINE T == {d \in Nat : d > a /\ (d = Len(t) + 1 \/ d \in ColonsOf(t))}
<1>2. PICK e \in T : \A d \in T : e <= d
  <2>1. T \in SUBSET Nat /\ Len(t) + 1 \in T
    BY <1>1
  <2> HIDE DEF T
  <2>2. T # {}
    BY <2>1
  <2> QED
    BY <2>1, <2>2, LeastNumber
<1>3. e \in (a + 1)..(Len(t) + 1) /\ e \in (c + 1)..(Len(t) + 1)
  <2>1. e <= Len(t) + 1
    BY <1>1, <1>2
  <2> QED
    BY <1>1, <1>2, <2>1
<1>4. ASSUME NEW k \in (c + 1)..(e - 1) PROVE t[k] # ":"
  <2>1. k \in Nat /\ k <= Len(t) /\ k \in 1..Len(t)
    BY <1>1, <1>3
  <2>2. CASE k <= a
    BY <1>1, <2>1, <2>2
  <2>3. CASE k > a
    <3>1. ~(e <= k)
      BY <1>3, <1>4
    <3>2. k \notin T
      BY <1>2, <3>1
    <3> QED
      BY <1>1, <2>1, <2>3, <3>2 DEF ColonsOf
  <2> QED
    BY <1>1, <2>1, <2>2, <2>3
<1>5. e <= Len(t) => t[e] = ":"
  BY <1>1, <1>2 DEF ColonsOf
<1>6. FieldOf(t, c) = SubSeq(t, c + 1, e - 1)
  BY <1>3, <1>4, <1>5, FieldIs
<1> QED
  BY <1>3, <1>6

\* A character of a part of a sequence.
LEMMA PartAt ==
  ASSUME NEW S, NEW t \in Seq(S), NEW m \in 1..(Len(t) + 1), NEW n \in (m - 1)..Len(t),
         NEW k \in 1..((n - m) + 1)
  PROVE  SubSeq(t, m, n)[k] = t[(m + k) - 1]
OBVIOUS

\* The characters of a field.
LEMMA FieldChars ==
  ASSUME NEW t \in BlockTexts, NEW c \in ColonsOf(t), NEW e \in (c + 1)..(Len(t) + 1),
         NEW n \in Nat, n = (e - 1) - c
  PROVE  LET f == SubSeq(t, c + 1, e - 1)
         IN  /\ f \in Seq(Char) /\ Len(f) = n /\ DOMAIN f = 1..n
             /\ \A k \in 1..n : f[k] = t[c + k]
             /\ \A k \in (c + 1)..(e - 1) : k - c \in 1..n /\ f[k - c] = t[k]
<1> DEFINE f == SubSeq(t, c + 1, e - 1)
<1>1. t \in Seq(Char) /\ Len(t) \in Nat /\ c \in 1..Len(t) /\ e \in Nat
  BY ColonsIn
<1>3. f \in Seq(Char) /\ Len(f) = n /\ \A k \in 1..n : f[k] = t[c + k]
  <2>1. c + 1 \in 1..(Len(t) + 1) /\ e - 1 \in c..Len(t)
    BY <1>1
  <2>2. f \in Seq(Char)
    BY <1>1, <2>1
  <2>3. Len(f) = n
    BY <1>1, <2>1
  <2>4. \A k \in 1..n : f[k] = t[c + k]
    <3> TAKE k \in 1..n
    <3>1. k \in 1..(((e - 1) - (c + 1)) + 1) /\ ((c + 1) + k) - 1 = c + k
      BY <1>1
    <3>2. PICK m \in 1..(Len(t) + 1) : m = c + 1
      BY <2>1
    <3>3. e - 1 \in (m - 1)..Len(t) /\ k \in 1..(((e - 1) - m) + 1)
      BY <1>1, <2>1, <3>1, <3>2
    <3>4. SubSeq(t, m, e - 1)[k] = t[(m + k) - 1]
      BY <1>1, <3>3, PartAt
    <3> QED
      BY <3>1, <3>2, <3>4
  <2> QED
    BY <2>2, <2>3, <2>4
<1>4. DOMAIN f = 1..n
  BY <1>3
<1>5. ASSUME NEW k \in (c + 1)..(e - 1) PROVE k - c \in 1..n /\ f[k - c] = t[k]
  <2>1. k - c \in 1..n /\ c + (k - c) = k
    BY <1>1
  <2> QED
    BY <1>3, <2>1
<1> QED
  BY <1>3, <1>4, <1>5

\* A part of a part of a sequence is a part of the sequence.
LEMMA PartOfPart ==
  ASSUME NEW S, NEW t \in Seq(S), NEW m \in 1..(Len(t) + 1), NEW n \in (m - 1)..Len(t),
         NEW i \in 1..(((n - m) + 1) + 1), NEW j \in (i - 1)..((n - m) + 1)
  PROVE  SubSeq(SubSeq(t, m, n), i, j) = SubSeq(t, (m + i) - 1, (m + j) - 1)
<1> DEFINE f == SubSeq(t, m, n)
           u == SubSeq(f, i, j)
           v == SubSeq(t, (m + i) - 1, (m + j) - 1)
<1>0. /\ Len(t) \in Nat /\ m \in Nat /\ n \in Nat /\ i \in Nat /\ j \in Nat
      /\ m <= Len(t) + 1 /\ n <= Len(t) /\ n >= m - 1 /\ m >= 1
      /\ i >= 1 /\ i <= (n - m) + 2 /\ j >= i - 1 /\ j <= (n - m) + 1
  OBVIOUS
<1>1. f \in Seq(S) /\ Len(f) = (n - m) + 1
  BY <1>0
<1>2. /\ (m + i) - 1 \in 1..(Len(t) + 1)
      /\ (m + j) - 1 \in (((m + i) - 1) - 1)..Len(t)
      /\ i \in 1..(Len(f) + 1) /\ j \in (i - 1)..Len(f)
  BY <1>0, <1>1
<1>3. \A k \in 1..((j - i) + 1) : f[(i + k) - 1] = t[(((m + i) - 1) + k) - 1]
  <2> TAKE k \in 1..((j - i) + 1)
  <2>1. PICK q \in 1..((n - m) + 1) : q = (i + k) - 1
    BY <1>0
  <2>2. f[q] = t[(m + q) - 1]
    BY PartAt
  <2>3. (m + q) - 1 = (((m + i) - 1) + k) - 1
    BY <1>0, <2>1
  <2> QED
    BY <2>1, <2>2, <2>3
<1> HIDE DEF f
<1>4. \A k \in 1..((j - i) + 1) : u[k] = f[(i + k) - 1]
  BY <1>1, <1>2, PartAt
<1>5. \A k \in 1..((j - i) + 1) : v[k] = t[(((m + i) - 1) + k) - 1]
  <2> TAKE k \in 1..((j - i) + 1)
  <2>1. PICK p \in 1..(Len(t) + 1) : p = (m + i) - 1
    BY <1>2
  <2>0. PICK q \in (p - 1)..Len(t) : q = (m + j) - 1
    BY <1>2, <2>1
  <2>2. k \in 1..((q - p) + 1)
    BY <1>0, <2>0, <2>1
  <2>3. SubSeq(t, p, q)[k] = t[(p + k) - 1]
    BY <2>2, PartAt
  <2> QED
    BY <2>0, <2>1, <2>3
<1>6. u \in Seq(S) /\ Len(u) = (j - i) + 1
  BY <1>0, <1>1, <1>2
<1>7. v \in Seq(S) /\ Len(v) = (j - i) + 1
  <2>1. PICK p \in 1..(Len(t) + 1) : p = (m + i) - 1
    BY <1>2
  <2>0. PICK q \in (p - 1)..Len(t) : q = (m + j) - 1
    BY <1>2, <2>1
  <2>2. SubSeq(t, p, q) \in Seq(S) /\ Len(SubSeq(t, p, q)) = (q - p) + 1
    OBVIOUS
  <2>3. (q - p) + 1 = (j - i) + 1
    BY <1>0, <2>0, <2>1
  <2> QED
    BY <2>0, <2>1, <2>2, <2>3
<1> HIDE DEF u, v
<1>8. \A k \in 1..Len(u) : u[k] = v[k]
  BY <1>3, <1>4, <1>5, <1>6
<1>9. u = v
  BY <1>6, <1>7, <1>8, SeqEqual
<1> QED
  BY <1>9 DEF u, v, f

-------------------------------------------------------------------------------
(* An entry *)

\* Digits behind a colon make an entry without a count.
LEMMA NumStored ==
  ASSUME NEW t \in BlockTexts, NEW c \in ColonsOf(t), NEW a \in (c + 1)..(Len(t) + 1),
         NEW p1, NEW p2, NumIn(t, a, p1, p2, c), a <= Len(t) => t[a] = ":"
  PROVE  /\ IsEntry(FieldOf(t, c))
         /\ Raw(FieldOf(t, c)) = [num |-> Given(p1), cnt |-> Given(p2)]
         /\ \A k \in (c + 1)..(a - 1) : t[k] # ":"
<1>1. \A k \in (c + 1)..(a - 1) : t[k] \in Digit /\ t[k] # ":" /\ t[k] # "X"
  BY NoDigits DEF NumIn
<1>2. PICK f : f = FieldOf(t, c)
  OBVIOUS
<1>3. f = SubSeq(t, c + 1, a - 1) /\ p1 = f /\ p2 = <<>>
  BY <1>1, <1>2, FieldIs DEF NumIn
<1>4. c \in Nat /\ a \in Nat /\ a >= c + 1
  BY ColonsIn
<1>5. PICK n \in Nat : n = (a - 1) - c
  BY <1>4
<1>6. /\ f \in Seq(Char) /\ Len(f) = n /\ DOMAIN f = 1..n
      /\ \A k \in 1..n : f[k] = t[c + k]
  BY <1>3, <1>5, FieldChars
<1>7. \A k \in 1..n : f[k] \in Digit /\ f[k] # "X"
  <2> TAKE k \in 1..n
  <2>1. c + k \in (c + 1)..(a - 1)
    BY <1>4, <1>5
  <2> QED
    BY <1>1, <1>6, <2>1
<1>8. IsEntry(f)
  BY <1>6, <1>7 DEF IsEntry
<1>9. {k \in DOMAIN f : f[k] = "X"} = {}
  BY <1>6, <1>7
<1>10. /\ SubSeq(f, 1, (Len(f) + 1) - 1) = f
       /\ SubSeq(f, (Len(f) + 1) + 1, Len(f)) = <<>>
  <2>1. (n + 1) - 1 = n /\ (n + 1) + 1 > n
    OBVIOUS
  <2>2. SubSeq(f, 1, n) = f
    BY <1>6
  <2>3. SubSeq(f, (n + 1) + 1, n) = <<>>
    BY <2>1, SubSeqEmpty
  <2> QED
    BY <1>6, <2>1, <2>2, <2>3
<1>11. Raw(f) = [num |-> Given(p1), cnt |-> Given(p2)]
  BY <1>3, <1>9, <1>10 DEF Raw
<1> QED
  BY <1>1, <1>2, <1>8, <1>11

\* Digits, an X and digits make an entry with one.
LEMMA CntStored ==
  ASSUME NEW t \in BlockTexts, NEW c \in ColonsOf(t), NEW a \in (c + 1)..(Len(t) + 1),
         NEW p1, NEW p2, CntIn(t, a, p1, p2, c), a <= Len(t) => t[a] = ":"
  PROVE  /\ IsEntry(FieldOf(t, c))
         /\ Raw(FieldOf(t, c)) = [num |-> Given(p1), cnt |-> Given(p2)]
         /\ \A k \in (c + 1)..(a - 1) : t[k] # ":"
<1>1. PICK x \in (c + 1)..(a - 1) :
        /\ t[x] = "X"
        /\ p1 = SubSeq(t, c + 1, x - 1) /\ p2 = SubSeq(t, x + 1, a - 1)
        /\ \A k \in (c + 1)..(a - 1) : k # x => t[k] \in Digit
  BY DEF CntIn
<1>2. \A k \in (c + 1)..(a - 1) :
        t[k] # ":" /\ t[k] \in Digit \cup {"X"} /\ (t[k] = "X" => k = x)
  BY <1>1, NoDigits
<1>3. PICK f : f = FieldOf(t, c)
  OBVIOUS
<1>4. f = SubSeq(t, c + 1, a - 1)
  BY <1>2, <1>3, FieldIs
<1>5. /\ c \in Nat /\ a \in Nat /\ x \in Nat /\ a >= c + 1 /\ Len(t) \in Nat
      /\ c \in 1..Len(t) /\ a <= Len(t) + 1 /\ t \in Seq(Char)
  BY ColonsIn
<1>6. PICK n \in Nat : n = (a - 1) - c
  BY <1>5
<1>7. PICK m \in 1..n : m = x - c
  BY <1>5, <1>6
<1>8. /\ f \in Seq(Char) /\ Len(f) = n /\ DOMAIN f = 1..n
      /\ \A k \in 1..n : f[k] = t[c + k]
  BY <1>4, <1>6, FieldChars
<1>9. \A k \in 1..n : f[k] \in Digit \cup {"X"} /\ (f[k] = "X" <=> k = m)
  <2> TAKE k \in 1..n
  <2>1. c + k \in (c + 1)..(a - 1) /\ (c + k = x <=> k = m)
    BY <1>5, <1>6, <1>7
  <2>2. f[k] = t[c + k]
    BY <1>8
  <2> QED
    BY <1>1, <1>2, <2>1, <2>2
<1>10. IsEntry(f)
  BY <1>8, <1>9 DEF IsEntry
<1>11. {k \in DOMAIN f : f[k] = "X"} = {m}
  BY <1>8, <1>9
<1>12. SubSeq(f, 1, m - 1) = p1
  <2>1. PICK b \in 1..(Len(t) + 1) : b = c + 1
    BY <1>5
  <2>0. PICK e \in (b - 1)..Len(t) : e = a - 1
    BY <1>5, <2>1
  <2>2. 1 \in 1..(((e - b) + 1) + 1) /\ m - 1 \in (1 - 1)..((e - b) + 1)
    BY <1>5, <1>6, <1>7, <2>0, <2>1
  <2>3. SubSeq(SubSeq(t, b, e), 1, m - 1) = SubSeq(t, (b + 1) - 1, (b + (m - 1)) - 1)
    BY <1>5, <2>2, PartOfPart
  <2>4. (b + 1) - 1 = c + 1 /\ (b + (m - 1)) - 1 = x - 1
    BY <1>5, <1>7, <2>0, <2>1
  <2> QED
    BY <1>1, <1>4, <2>0, <2>1, <2>3, <2>4
<1>13. SubSeq(f, m + 1, Len(f)) = p2
  <2>1. PICK b \in 1..(Len(t) + 1) : b = c + 1
    BY <1>5
  <2>0. PICK e \in (b - 1)..Len(t) : e = a - 1
    BY <1>5, <2>1
  <2>2. m + 1 \in 1..(((e - b) + 1) + 1) /\ n \in ((m + 1) - 1)..((e - b) + 1)
    BY <1>5, <1>6, <1>7, <2>0, <2>1
  <2>3. SubSeq(SubSeq(t, b, e), m + 1, n) = SubSeq(t, (b + (m + 1)) - 1, (b + n) - 1)
    BY <1>5, <2>2, PartOfPart
  <2>4. (b + (m + 1)) - 1 = x + 1 /\ (b + n) - 1 = a - 1
    BY <1>5, <1>6, <1>7, <2>0, <2>1
  <2> QED
    BY <1>1, <1>4, <1>8, <2>0, <2>1, <2>3, <2>4
<1>14. Raw(f) = [num |-> Given(p1), cnt |-> Given(p2)]
  <2>1. (CHOOSE k \in {m} : TRUE) = m
    OBVIOUS
  <2> QED
    BY <1>11, <1>12, <1>13, <2>1 DEF Raw
<1> QED
  BY <1>2, <1>3, <1>10, <1>14

\* A character that cannot stand there makes the field no entry.
LEMMA BadField ==
  ASSUME NEW t \in BlockTexts, NEW c \in ColonsOf(t), NEW a \in (c + 1)..Len(t),
         t[a] # ":", t[a] \notin Digit, NEW p1, NEW p2,
         (NumIn(t, a, p1, p2, c) /\ t[a] # "X") \/ CntIn(t, a, p1, p2, c)
  PROVE  ~IsEntry(FieldOf(t, c))
<1>1. c \in Nat /\ a \in Nat /\ Len(t) \in Nat
  BY ColonsIn
<1>2. \A k \in (c + 1)..(a - 1) : t[k] # ":"
  BY NoDigits DEF NumIn, CntIn
<1>3. \A k \in (c + 1)..a : t[k] # ":"
  <2> TAKE k \in (c + 1)..a
  <2>1. k = a \/ k \in (c + 1)..(a - 1)
    BY <1>1
  <2> QED
    BY <1>2, <2>1
<1>4. PICK e \in (a + 1)..(Len(t) + 1) : FieldOf(t, c) = SubSeq(t, c + 1, e - 1)
  BY <1>3, FieldReaches
<1>5. PICK f : f = FieldOf(t, c)
  OBVIOUS
<1>6. PICK n \in Nat : n = (e - 1) - c
  BY <1>1
<1>7. /\ DOMAIN f = 1..n
      /\ \A k \in (c + 1)..(e - 1) : k - c \in 1..n /\ f[k - c] = t[k]
  <2>1. e \in (c + 1)..(Len(t) + 1)
    BY <1>1
  <2>2. PICK g \in (c + 1)..(Len(t) + 1) : g = e
    BY <2>1
  <2>3. n = (g - 1) - c
    BY <1>6, <2>2
  <2>4. /\ DOMAIN SubSeq(t, c + 1, g - 1) = 1..n
        /\ \A k \in (c + 1)..(g - 1) :
             k - c \in 1..n /\ SubSeq(t, c + 1, g - 1)[k - c] = t[k]
    BY <2>3, FieldChars
  <2>5. f = SubSeq(t, c + 1, g - 1)
    BY <1>4, <1>5, <2>2
  <2> QED
    BY <2>2, <2>4, <2>5
<1>8. a - c \in 1..n /\ f[a - c] = t[a]
  <2>1. a \in (c + 1)..(e - 1)
    BY <1>1
  <2> QED
    BY <1>7, <2>1
<1>9. CASE t[a] # "X"
  BY <1>5, <1>7, <1>8, <1>9 DEF IsEntry
<1>10. CASE t[a] = "X"
  <2>1. PICK x \in (c + 1)..(a - 1) : t[x] = "X"
    BY <1>10 DEF CntIn
  <2>2. x \in (c + 1)..(e - 1) /\ x - c # a - c
    BY <1>1
  <2>3. x - c \in 1..n /\ f[x - c] = "X"
    BY <1>7, <2>1, <2>2
  <2> QED
    BY <1>5, <1>7, <1>8, <1>10, <2>2, <2>3 DEF IsEntry
<1> QED
  BY <1>9, <1>10

-------------------------------------------------------------------------------
(* The list *)

\* The rank of a colon is the number of the colons before it, and one.
LEMMA RankIs ==
  ASSUME NEW t \in BlockTexts, NEW c \in ColonsOf(t)
  PROVE  /\ IsFiniteSet({d \in ColonsOf(t) : d < c})
         /\ Rank(t, c) = Cardinality({d \in ColonsOf(t) : d < c}) + 1
         /\ Cardinality({d \in ColonsOf(t) : d < c}) \in Nat
<1>1. ColonsOf(t) \subseteq 1..Len(t) /\ IsFiniteSet(ColonsOf(t)) /\ Len(t) \in Nat
  BY ColonsIn
<1> DEFINE B == {d \in ColonsOf(t) : d < c}
<1>2. B \subseteq ColonsOf(t) /\ c \notin B
  BY <1>1
<1>3. {d \in ColonsOf(t) : d <= c} = B \cup {c}
  BY <1>1
<1> HIDE DEF B
<1>4. IsFiniteSet(B)
  BY <1>1, <1>2, FS_Subset
<1>5. Cardinality(B \cup {c}) = Cardinality(B) + 1
  BY <1>2, <1>4, FS_AddElement
<1>6. Cardinality(B) \in Nat
  BY <1>4, FS_CardinalityType
<1> QED
  BY <1>3, <1>4, <1>5, <1>6 DEF Rank, B

\* A colon before the place p has a rank in the list of the colons before p.
LEMMA RankBefore ==
  ASSUME NEW t \in BlockTexts, NEW c \in ColonsOf(t), NEW p \in Nat, c < p
  PROVE  Rank(t, c) \in 1..Cardinality({d \in ColonsOf(t) : d < p})
<1>1. ColonsOf(t) \subseteq 1..Len(t) /\ IsFiniteSet(ColonsOf(t)) /\ Len(t) \in Nat
  BY ColonsIn
<1> DEFINE A == {d \in ColonsOf(t) : d <= c}
           B == {d \in ColonsOf(t) : d < p}
<1>2. A \subseteq B /\ B \subseteq ColonsOf(t)
  BY <1>1
<1>3. Rank(t, c) = Cardinality(A)
  BY DEF Rank
<1>4. Rank(t, c) \in Nat /\ Rank(t, c) >= 1
  <2>1. PICK n \in Nat : Rank(t, c) = n + 1
    BY RankIs
  <2> QED
    BY <2>1
<1> HIDE DEF A, B
<1>5. IsFiniteSet(B)
  BY <1>1, <1>2, FS_Subset
<1>6. Cardinality(A) <= Cardinality(B)
  BY <1>2, <1>5, FS_Subset
<1>7. Cardinality(B) \in Nat
  BY <1>5, FS_CardinalityType
<1>8. Rank(t, c) \in 1..Cardinality(B)
  BY <1>3, <1>4, <1>6, <1>7
<1> QED
  BY <1>8 DEF B

\* A field that is an entry is stored behind those before it.
LEMMA StoreStep ==
  ASSUME NEW t \in BlockTexts, NEW c \in ColonsOf(t), NEW a \in (c + 1)..(Len(t) + 1),
         NEW list, StoredIn(t, list, c), IsEntry(FieldOf(t, c)),
         \A k \in (c + 1)..(a - 1) : t[k] # ":"
  PROVE  StoredIn(t, Append(list, Raw(FieldOf(t, c))), a)
<1> DEFINE B == {d \in ColonsOf(t) : d < c}
           n == Cardinality(B)
           long == Append(list, Raw(FieldOf(t, c)))
<1>1. /\ ColonsOf(t) \subseteq 1..Len(t) /\ Len(t) \in Nat
      /\ \A d \in ColonsOf(t) : t[d] = ":"
  BY ColonsIn DEF ColonsOf
<1>2. IsFiniteSet(B) /\ n \in Nat /\ Rank(t, c) = n + 1
  BY RankIs
<1>3. IsSeq(list) /\ Len(list) = n
  BY DEF StoredIn
<1>4. {d \in ColonsOf(t) : d < a} = B \cup {c}
  <2>1. \A d \in ColonsOf(t) : d < a => d <= c
    <3> TAKE d \in ColonsOf(t)
    <3> HAVE d < a
    <3>1. d \notin (c + 1)..(a - 1)
      BY <1>1
    <3> QED
      BY <1>1, <3>1
  <2> QED
    BY <1>1, <2>1
<1>5. Cardinality(B \cup {c}) = n + 1
  <2>1. c \notin B
    BY <1>1
  <2> HIDE DEF B
  <2>2. Cardinality(B \cup {c}) = Cardinality(B) + 1
    BY <1>2, <2>1, FS_AddElement
  <2> QED
    BY <2>2
<1>6. PICK S : list \in Seq(S)
  BY <1>3 DEF IsSeq
<1>7. /\ IsSeq(long) /\ Len(long) = n + 1 /\ long[n + 1] = Raw(FieldOf(t, c))
      /\ \A k \in 1..n : long[k] = list[k]
  <2>1. list \in Seq(S \cup {Raw(FieldOf(t, c))})
    BY <1>6
  <2>2. PICK r \in S \cup {Raw(FieldOf(t, c))} : r = Raw(FieldOf(t, c))
    OBVIOUS
  <2>3. /\ Append(list, r) \in Seq(S \cup {Raw(FieldOf(t, c))})
        /\ Len(Append(list, r)) = Len(list) + 1
        /\ Append(list, r)[Len(list) + 1] = r
        /\ \A k \in 1..Len(list) : Append(list, r)[k] = list[k]
    BY <2>1, <2>2
  <2> QED
    BY <1>3, <2>2, <2>3 DEF IsSeq
<1> HIDE DEF long, n, B
<1>8. ASSUME NEW d \in ColonsOf(t), d < a
      PROVE  IsEntry(FieldOf(t, d)) /\ long[Rank(t, d)] = Raw(FieldOf(t, d))
  <2>1. CASE d = c
    BY <1>2, <1>7, <2>1
  <2>2. CASE d # c
    <3>1. d \in B /\ d < c
      BY <1>4, <1>8, <2>2 DEF B
    <3>2. IsEntry(FieldOf(t, d)) /\ list[Rank(t, d)] = Raw(FieldOf(t, d))
      BY <3>1 DEF StoredIn
    <3>3. Rank(t, d) \in 1..n
      <4>1. c \in Nat
        BY <1>1
      <4>2. Rank(t, d) \in 1..Cardinality({b \in ColonsOf(t) : b < c})
        BY <3>1, <4>1, RankBefore
      <4> QED
        BY <4>2 DEF n, B
    <3> QED
      BY <1>7, <3>2, <3>3
  <2> QED
    BY <2>1, <2>2
<1>9. Len(long) = Cardinality({d \in ColonsOf(t) : d < a})
  BY <1>4, <1>5, <1>7
<1>10. StoredIn(t, long, a)
  BY <1>7, <1>8, <1>9 DEF StoredIn
<1> QED
  BY <1>10 DEF long

\* Turning the zeros into ones makes an entry of what was stored.
LEMMA NotZeroGiven == \A digits : NotZero(Given(digits)) = Amount(digits)
BY DEF NotZero, Given, Amount

\* What the list is when the text has been read.
LEMMA Taken ==
  ASSUME NEW t \in BlockTexts, NEW list, StoredIn(t, list, Len(t) + 1), NEW done,
         done = [k \in DOMAIN list |->
                   [num |-> NotZero(list[k].num), cnt |-> NotZero(list[k].cnt)]]
  PROVE  /\ Len(done) = Cardinality(ColonsOf(t))
         /\ \A c \in ColonsOf(t) :
              IsEntry(FieldOf(t, c)) /\ done[Rank(t, c)] = Entry(FieldOf(t, c))
<1>1. /\ ColonsOf(t) \subseteq 1..Len(t) /\ Len(t) \in Nat
      /\ IsFiniteSet(ColonsOf(t))
  BY ColonsIn
<1>2. \A c \in ColonsOf(t) : c < Len(t) + 1
  BY <1>1
<1>3. {d \in ColonsOf(t) : d < Len(t) + 1} = ColonsOf(t)
  BY <1>2
<1>4. PICK n \in Nat : n = Cardinality(ColonsOf(t))
  BY <1>1, FS_CardinalityType
<1>5. IsSeq(list) /\ Len(list) = n
  BY <1>3, <1>4 DEF StoredIn
<1>6. DOMAIN list = 1..n /\ DOMAIN done = 1..n
  BY <1>5 DEF IsSeq
<1>7. Len(done) = n
  <2>1. done \in Seq({done[k] : k \in 1..n})
    BY <1>4, <1>6
  <2> QED
    BY <1>4, <1>6, <2>1
<1>8. ASSUME NEW c \in ColonsOf(t)
      PROVE  IsEntry(FieldOf(t, c)) /\ done[Rank(t, c)] = Entry(FieldOf(t, c))
  <2>1. IsEntry(FieldOf(t, c)) /\ list[Rank(t, c)] = Raw(FieldOf(t, c))
    BY <1>2 DEF StoredIn
  <2>2. Rank(t, c) \in 1..n
    BY <1>1, <1>2, <1>3, <1>4, RankBefore
  <2>3. done[Rank(t, c)] = [num |-> NotZero(Raw(FieldOf(t, c)).num),
                            cnt |-> NotZero(Raw(FieldOf(t, c)).cnt)]
    BY <1>6, <2>1, <2>2
  <2>4. Entry(FieldOf(t, c)) = [num |-> NotZero(Raw(FieldOf(t, c)).num),
                                cnt |-> NotZero(Raw(FieldOf(t, c)).cnt)]
    BY NotZeroGiven DEF Entry, Raw
  <2> QED
    BY <2>1, <2>3, <2>4
<1> QED
  BY <1>4, <1>7, <1>8

-------------------------------------------------------------------------------
(* The switch, one step after the other *)

\* Nothing is stored before the first colon.
LEMMA SwitchBegins == SwitchInit => TextInv
<1> SUFFICES ASSUME SwitchInit, switch = "blocks"
             PROVE  TextInv
  BY DEF TextInv
<1>1. /\ text \in BlockTexts /\ at = 1 /\ sw = "colon" /\ g_pHexBlock = <<>>
  BY ListAssumption DEF SwitchInit, Init
<1>2. /\ text[1] = ":" /\ Len(text) \in Nat /\ ColonsOf(text) \subseteq 1..Len(text)
  BY <1>1, ColonsIn
<1>3. StoredIn(text, <<>>, 1)
  <2>1. {d \in ColonsOf(text) : d < 1} = {} /\ \A c \in ColonsOf(text) : ~(c < 1)
    BY <1>2
  <2>2. Cardinality({d \in ColonsOf(text) : d < 1}) = 0
    BY <2>1, FS_EmptySet
  <2>3. IsSeq(<<>>) /\ Len(<<>>) = 0
    <3>1. <<>> \in Seq({})
      OBVIOUS
    <3> QED
      BY <3>1 DEF IsSeq
  <2> QED
    BY <2>1, <2>2, <2>3 DEF StoredIn
<1> QED
  BY <1>1, <1>2, <1>3 DEF TextInv

\* A colon begins an entry.
LEMMA ColonStep == TextInv /\ Colon => TextInv'
<1> SUFFICES ASSUME TextInv, Colon
             PROVE  TextInv'
  OBVIOUS
<1>1. /\ switch = "blocks" /\ sw = "colon" /\ at <= Len(text) /\ text[at] = ":"
      /\ at' = at + 1 /\ sw' = "num" /\ ptmp1' = <<>> /\ ptmp2' = <<>>
      /\ switch' = switch /\ text' = text /\ g_pHexBlock' = g_pHexBlock
  BY DEF Colon, More, Here
<1>2. /\ text \in BlockTexts /\ at \in 1..(Len(text) + 1)
      /\ StoredIn(text, g_pHexBlock, at)
  BY <1>1 DEF TextInv
<1>3. /\ Len(text) \in Nat /\ DOMAIN text = 1..Len(text) /\ text \in Seq(Char)
  BY <1>2, ColonsIn
<1>4. at \in ColonsOf(text) /\ at < at + 1 /\ at + 1 \in 1..(Len(text) + 1)
  BY <1>1, <1>2, <1>3 DEF ColonsOf
<1>5. NumIn(text, at + 1, <<>>, <<>>, at)
  <2>1. at + 1 > (at + 1) - 1 /\ (at + 1)..((at + 1) - 1) = {}
    BY <1>2, <1>3
  <2>2. SubSeq(text, at + 1, (at + 1) - 1) = <<>>
    BY <1>2, <1>3, <2>1, SubSeqEmpty
  <2> QED
    BY <2>1, <2>2 DEF NumIn
<1> QED
  BY <1>1, <1>2, <1>4, <1>5 DEF TextInv

\* One character more of a part.
LEMMA OneMore ==
  ASSUME NEW t \in BlockTexts, NEW m \in 1..(Len(t) + 1), NEW a \in m..Len(t)
  PROVE  Append(SubSeq(t, m, a - 1), t[a]) = SubSeq(t, m, (a + 1) - 1)
<1>1. t \in Seq(Char) /\ Len(t) \in Nat
  BY ColonsIn
<1>2. PICK p : p = SubSeq(t, m, a - 1)
  OBVIOUS
<1>3. PICK q : q = SubSeq(t, m, a)
  OBVIOUS
<1>4. PICK n \in Nat : n = a - m
  BY <1>1
<1>5. p \in Seq(Char) /\ Len(p) = n /\ q \in Seq(Char) /\ Len(q) = n + 1
  BY <1>1, <1>2, <1>3, <1>4
<1>6. \A k \in 1..n : p[k] = q[k]
  <2> TAKE k \in 1..n
  <2>1. PICK e \in (m - 1)..Len(t) : e = a - 1
    BY <1>1
  <2>2. k \in 1..((e - m) + 1)
    BY <1>1, <1>4, <2>1
  <2>3. SubSeq(t, m, e)[k] = t[(m + k) - 1]
    BY <1>1, <2>2, PartAt
  <2>4. a \in (m - 1)..Len(t) /\ k \in 1..((a - m) + 1)
    BY <1>1, <1>4
  <2>5. SubSeq(t, m, a)[k] = t[(m + k) - 1]
    BY <1>1, <2>4, PartAt
  <2> QED
    BY <1>2, <1>3, <2>1, <2>3, <2>5
<1>7. q[n + 1] = t[a]
  <2>1. a \in (m - 1)..Len(t) /\ n + 1 \in 1..((a - m) + 1) /\ (m + (n + 1)) - 1 = a
    BY <1>1, <1>4
  <2>2. SubSeq(t, m, a)[n + 1] = t[(m + (n + 1)) - 1]
    BY <1>1, <2>1, PartAt
  <2> QED
    BY <1>3, <2>1, <2>2
<1>8. t[a] \in Char
  BY <1>1
<1>9. Append(p, t[a]) = q
  <2>1. PICK r \in Char : r = t[a]
    BY <1>8
  <2>2. /\ Append(p, r) \in Seq(Char) /\ Len(Append(p, r)) = n + 1
        /\ Append(p, r)[n + 1] = r
        /\ \A k \in 1..n : Append(p, r)[k] = p[k]
    BY <1>5
  <2>3. \A k \in 1..(n + 1) : Append(p, r)[k] = q[k]
    BY <1>6, <1>7, <2>1, <2>2
  <2> QED
    BY <1>5, <2>1, <2>2, <2>3, SeqEqual
<1>10. (a + 1) - 1 = a
  BY <1>1
<1> QED
  BY <1>2, <1>3, <1>9, <1>10

\* The number of bytes grows by a digit, and the count does.
LEMMA NumGrows ==
  ASSUME NEW t \in BlockTexts, NEW c \in ColonsOf(t), NEW a \in (c + 1)..Len(t),
         NEW p1, NEW p2, t[a] \in Digit
  PROVE  /\ NumIn(t, a, p1, p2, c) => NumIn(t, a + 1, Append(p1, t[a]), p2, c)
         /\ CntIn(t, a, p1, p2, c) => CntIn(t, a + 1, p1, Append(p2, t[a]), c)
<1>1. Len(t) \in Nat /\ c \in 1..Len(t) /\ a \in Nat
  BY ColonsIn
<1>2. \A k \in (c + 1)..((a + 1) - 1) : k = a \/ k \in (c + 1)..(a - 1)
  BY <1>1
<1>3. ASSUME NumIn(t, a, p1, p2, c)
      PROVE  NumIn(t, a + 1, Append(p1, t[a]), p2, c)
  <2>1. \A k \in (c + 1)..((a + 1) - 1) : t[k] \in Digit
    BY <1>2, <1>3 DEF NumIn
  <2>2. PICK m \in 1..(Len(t) + 1) : m = c + 1
    BY <1>1
  <2>3. Append(SubSeq(t, m, a - 1), t[a]) = SubSeq(t, m, (a + 1) - 1)
    BY <2>2, OneMore
  <2> QED
    BY <1>3, <2>1, <2>2, <2>3 DEF NumIn
<1>4. ASSUME CntIn(t, a, p1, p2, c)
      PROVE  CntIn(t, a + 1, p1, Append(p2, t[a]), c)
  <2>1. PICK x \in (c + 1)..(a - 1) :
          /\ t[x] = "X"
          /\ p1 = SubSeq(t, c + 1, x - 1) /\ p2 = SubSeq(t, x + 1, a - 1)
          /\ \A k \in (c + 1)..(a - 1) : k # x => t[k] \in Digit
    BY <1>4 DEF CntIn
  <2>2. \A k \in (c + 1)..((a + 1) - 1) : k # x => t[k] \in Digit
    BY <1>2, <2>1
  <2>3. PICK m \in 1..(Len(t) + 1) : m = x + 1
    BY <1>1
  <2>4. a \in m..Len(t) /\ x \in (c + 1)..((a + 1) - 1)
    BY <1>1, <2>3
  <2>5. Append(SubSeq(t, m, a - 1), t[a]) = SubSeq(t, m, (a + 1) - 1)
    BY <2>4, OneMore
  <2> QED
    BY <2>1, <2>2, <2>3, <2>4, <2>5 DEF CntIn
<1> QED
  BY <1>3, <1>4

\* An X begins the count.
LEMMA CntBegins ==
  ASSUME NEW t \in BlockTexts, NEW c \in ColonsOf(t), NEW a \in (c + 1)..Len(t),
         NEW p1, NEW p2, NumIn(t, a, p1, p2, c), t[a] = "X"
  PROVE  CntIn(t, a + 1, p1, p2, c)
<1>1. Len(t) \in Nat /\ c \in 1..Len(t) /\ a \in Nat /\ t \in Seq(Char)
  BY ColonsIn
<1>2. a \in (c + 1)..((a + 1) - 1) /\ a + 1 > (a + 1) - 1
  BY <1>1
<1>3. \A k \in (c + 1)..((a + 1) - 1) : k # a => t[k] \in Digit
  <2> TAKE k \in (c + 1)..((a + 1) - 1)
  <2>1. k = a \/ k \in (c + 1)..(a - 1)
    BY <1>1
  <2> QED
    BY <2>1 DEF NumIn
<1>4. SubSeq(t, a + 1, (a + 1) - 1) = <<>>
  BY <1>1, <1>2, SubSeqEmpty
<1>5. p1 = SubSeq(t, c + 1, a - 1) /\ p2 = <<>>
  BY DEF NumIn
<1> QED
  BY <1>2, <1>3, <1>4, <1>5 DEF CntIn

\* What an entry that is being read has of the text.
InField ==
  /\ switch = "blocks" /\ text \in BlockTexts /\ at \in 1..(Len(text) + 1)
  /\ \E c \in ColonsOf(text) :
       /\ c < at /\ at \in (c + 1)..(Len(text) + 1)
       /\ StoredIn(text, g_pHexBlock, c)
       /\ \/ sw = "num" /\ NumIn(text, at, ptmp1, ptmp2, c)
          \/ sw = "cnt" /\ CntIn(text, at, ptmp1, ptmp2, c)

LEMMA EntryHasColon == TextInv /\ InEntry => InField
<1> SUFFICES ASSUME TextInv, InEntry
             PROVE  InField
  OBVIOUS
<1>1. /\ switch = "blocks" /\ text \in BlockTexts /\ at \in 1..(Len(text) + 1)
      /\ sw \in {"num", "cnt"}
  BY DEF TextInv, InEntry
<1>2. ColonsOf(text) \subseteq 1..Len(text) /\ Len(text) \in Nat
  BY <1>1, ColonsIn
<1>3. \A c \in ColonsOf(text) : c < at => at \in (c + 1)..(Len(text) + 1)
  BY <1>1, <1>2
<1>4. PICK c \in ColonsOf(text) :
        /\ c < at /\ StoredIn(text, g_pHexBlock, c)
        /\ \/ sw = "num" /\ NumIn(text, at, ptmp1, ptmp2, c)
           \/ sw = "cnt" /\ CntIn(text, at, ptmp1, ptmp2, c)
  <2>1. CASE sw = "num"
    BY <1>1, <2>1 DEF TextInv
  <2>2. CASE sw = "cnt"
    BY <1>1, <2>2 DEF TextInv
  <2> QED
    BY <1>1, <2>1, <2>2
<1>5. at \in (c + 1)..(Len(text) + 1)
  BY <1>3, <1>4
<1> QED
  BY <1>1, <1>4, <1>5 DEF InField

\* A digit is of the entry.
LEMMA DigitStep == TextInv /\ NumDigit => TextInv'
<1> SUFFICES ASSUME TextInv, NumDigit
             PROVE  TextInv'
  OBVIOUS
<1>1. /\ switch = "blocks" /\ at <= Len(text) /\ text[at] \in Digit
      /\ at' = at + 1 /\ sw' = sw /\ sw \in {"num", "cnt"}
      /\ switch' = switch /\ text' = text /\ g_pHexBlock' = g_pHexBlock
      /\ sw = "num" => ptmp1' = Append(ptmp1, text[at]) /\ ptmp2' = ptmp2
      /\ sw # "num" => ptmp2' = Append(ptmp2, text[at]) /\ ptmp1' = ptmp1
  BY DEF NumDigit, InEntry, Ends, More, Here
<1>2. /\ text \in BlockTexts /\ at \in 1..(Len(text) + 1)
      /\ \E c \in ColonsOf(text) :
           /\ c < at /\ at \in (c + 1)..(Len(text) + 1)
           /\ StoredIn(text, g_pHexBlock, c)
           /\ \/ sw = "num" /\ NumIn(text, at, ptmp1, ptmp2, c)
              \/ sw = "cnt" /\ CntIn(text, at, ptmp1, ptmp2, c)
  BY EntryHasColon DEF InField, NumDigit
<1>3. PICK c \in ColonsOf(text) :
        /\ c < at /\ at \in (c + 1)..(Len(text) + 1)
        /\ StoredIn(text, g_pHexBlock, c)
        /\ \/ sw = "num" /\ NumIn(text, at, ptmp1, ptmp2, c)
           \/ sw = "cnt" /\ CntIn(text, at, ptmp1, ptmp2, c)
  BY <1>2
<1>4. /\ Len(text) \in Nat /\ c \in Nat
      /\ at \in (c + 1)..Len(text) /\ at + 1 \in 1..(Len(text) + 1) /\ c < at + 1
  BY <1>1, <1>2, <1>3, ColonsIn
<1>5. /\ NumIn(text, at, ptmp1, ptmp2, c)
           => NumIn(text, at + 1, Append(ptmp1, text[at]), ptmp2, c)
      /\ CntIn(text, at, ptmp1, ptmp2, c)
           => CntIn(text, at + 1, ptmp1, Append(ptmp2, text[at]), c)
  BY <1>1, <1>2, <1>4, NumGrows
<1>6. CASE sw = "num"
  BY <1>1, <1>2, <1>3, <1>4, <1>5, <1>6 DEF TextInv
<1>7. CASE sw = "cnt"
  BY <1>1, <1>2, <1>3, <1>4, <1>5, <1>7 DEF TextInv
<1> QED
  BY <1>1, <1>6, <1>7

\* An X is of the entry once.
LEMMA CountStep == TextInv /\ ToCount => TextInv'
<1> SUFFICES ASSUME TextInv, ToCount
             PROVE  TextInv'
  OBVIOUS
<1>1. /\ switch = "blocks" /\ at <= Len(text) /\ text[at] = "X"
      /\ at' = at + 1 /\ sw = "num" /\ sw' = "cnt" /\ ptmp1' = ptmp1 /\ ptmp2' = ptmp2
      /\ switch' = switch /\ text' = text /\ g_pHexBlock' = g_pHexBlock
  BY DEF ToCount, InEntry, Ends, More, Here
<1>2. text \in BlockTexts /\ at \in 1..(Len(text) + 1)
  BY EntryHasColon DEF InField, ToCount
<1>3. PICK c \in ColonsOf(text) :
        /\ c < at /\ at \in (c + 1)..(Len(text) + 1)
        /\ StoredIn(text, g_pHexBlock, c)
        /\ NumIn(text, at, ptmp1, ptmp2, c)
  BY <1>1, EntryHasColon DEF InField, ToCount
<1>4. /\ Len(text) \in Nat /\ c \in Nat
      /\ at \in (c + 1)..Len(text) /\ at + 1 \in 1..(Len(text) + 1) /\ c < at + 1
  BY <1>1, <1>2, <1>3, ColonsIn
<1>5. CntIn(text, at + 1, ptmp1, ptmp2, c)
  BY <1>1, <1>2, <1>3, <1>4, CntBegins
<1> QED
  BY <1>1, <1>2, <1>3, <1>4, <1>5 DEF TextInv

\* What is refused is no list.
LEMMA RefuseStep == TextInv /\ BadBlock => TextInv'
<1> SUFFICES ASSUME TextInv, BadBlock
             PROVE  TextInv'
  OBVIOUS
<1>1. /\ switch = "blocks" /\ at <= Len(text) /\ text[at] # ":"
      /\ text[at] \notin Digit /\ ~(sw = "num" /\ text[at] = "X")
      /\ at' = at /\ sw' = "refused" /\ switch' = switch /\ text' = text
  BY DEF BadBlock, Refuse, InEntry, Ends, More, Here
<1>2. text \in BlockTexts /\ at \in 1..(Len(text) + 1)
  BY EntryHasColon DEF InField, BadBlock
<1>3. PICK c \in ColonsOf(text) :
        /\ c < at /\ at \in (c + 1)..(Len(text) + 1)
        /\ \/ sw = "num" /\ NumIn(text, at, ptmp1, ptmp2, c)
           \/ sw = "cnt" /\ CntIn(text, at, ptmp1, ptmp2, c)
  BY EntryHasColon DEF InField, BadBlock
<1>4. Len(text) \in Nat /\ c \in Nat /\ at \in (c + 1)..Len(text)
  BY <1>1, <1>2, <1>3, ColonsIn
<1>5. ~IsEntry(FieldOf(text, c))
  BY <1>1, <1>2, <1>3, <1>4, BadField
<1>6. BlocksAsTyped'
  BY <1>1, <1>5 DEF BlocksAsTyped, Colons, ColonsOf, Field, FieldOf
<1> QED
  BY <1>1, <1>2, <1>6 DEF TextInv

\* An entry that is read is in the list.
LEMMA StoringStep == TextInv /\ Store => TextInv'
<1> SUFFICES ASSUME TextInv, Store
             PROVE  TextInv'
  OBVIOUS
<1>1. /\ switch = "blocks" /\ (at <= Len(text) => text[at] = ":")
      /\ g_pHexBlock' = Append(g_pHexBlock, [num |-> Given(ptmp1), cnt |-> Given(ptmp2)])
      /\ at' = at /\ sw' = "colon" /\ switch' = switch /\ text' = text
  BY DEF Store, InEntry, Ends, More, Here
<1>2. text \in BlockTexts /\ at \in 1..(Len(text) + 1)
  BY EntryHasColon DEF InField, Store
<1>3. PICK c \in ColonsOf(text) :
        /\ c < at /\ at \in (c + 1)..(Len(text) + 1)
        /\ StoredIn(text, g_pHexBlock, c)
        /\ \/ sw = "num" /\ NumIn(text, at, ptmp1, ptmp2, c)
           \/ sw = "cnt" /\ CntIn(text, at, ptmp1, ptmp2, c)
  BY EntryHasColon DEF InField, Store
<1>4. /\ IsEntry(FieldOf(text, c))
      /\ Raw(FieldOf(text, c)) = [num |-> Given(ptmp1), cnt |-> Given(ptmp2)]
      /\ \A k \in (c + 1)..(at - 1) : text[k] # ":"
  <2>1. CASE NumIn(text, at, ptmp1, ptmp2, c)
    BY <1>1, <1>2, <1>3, <2>1, NumStored
  <2>2. CASE CntIn(text, at, ptmp1, ptmp2, c)
    BY <1>1, <1>2, <1>3, <2>2, CntStored
  <2> QED
    BY <1>3, <2>1, <2>2
<1>5. StoredIn(text, Append(g_pHexBlock, Raw(FieldOf(text, c))), at)
  BY <1>2, <1>3, <1>4, StoreStep
<1>6. StoredIn(text, g_pHexBlock', at)
  BY <1>1, <1>4, <1>5
<1> QED
  BY <1>1, <1>2, <1>6 DEF TextInv

\* The whole text has been read.
LEMMA DoneStep == TextInv /\ BlocksDone => TextInv'
<1> SUFFICES ASSUME TextInv, BlocksDone
             PROVE  TextInv'
  OBVIOUS
<1>1. /\ switch = "blocks" /\ sw = "colon" /\ ~(at <= Len(text))
      /\ g_pHexBlock' = [k \in DOMAIN g_pHexBlock |->
                            [num |-> NotZero(g_pHexBlock[k].num),
                             cnt |-> NotZero(g_pHexBlock[k].cnt)]]
      /\ at' = at /\ sw' = "taken" /\ switch' = switch /\ text' = text
  BY DEF BlocksDone, More
<1>2. /\ text \in BlockTexts /\ at \in 1..(Len(text) + 1)
      /\ StoredIn(text, g_pHexBlock, at)
  BY <1>1 DEF TextInv
<1>3. at = Len(text) + 1
  BY <1>1, <1>2, ColonsIn
<1>4. /\ Len(g_pHexBlock') = Cardinality(ColonsOf(text))
      /\ \A c \in ColonsOf(text) :
           /\ IsEntry(FieldOf(text, c))
           /\ g_pHexBlock'[Rank(text, c)] = Entry(FieldOf(text, c))
  BY <1>1, <1>2, <1>3, Taken
<1>5. BlocksAsTyped'
  BY <1>1, <1>4 DEF BlocksAsTyped, Colons, ColonsOf, Field, FieldOf, Rank
<1> QED
  BY <1>1, <1>2, <1>5 DEF TextInv

\* The other switch is not about blocks, and the display leaves the list alone.
LEMMA OtherSteps ==
  TextInv /\ (Verbosity \/ SetLimit \/ BadLimit \/ BmpDone \/ Turns \/ Dump
             \/ UNCHANGED <<vars, switchVars>>) => TextInv'
<1>1. ASSUME Verbosity \/ SetLimit \/ BadLimit \/ BmpDone
      PROVE  TextInv'
  <2>1. switch = "bmp" /\ switch' = switch
    BY <1>1 DEF Verbosity, SetLimit, BadLimit, BmpDone, Refuse, InBmp
  <2> QED
    BY <2>1 DEF TextInv
<1>2. ASSUME TextInv, UNCHANGED switchVars, g_pHexBlock' = g_pHexBlock
      PROVE  TextInv'
  <2>1. BlocksAsTyped' <=> BlocksAsTyped
    BY <1>2 DEF switchVars, BlocksAsTyped, Colons, Field
  <2>2. /\ switch' = switch /\ text' = text /\ at' = at /\ sw' = sw
        /\ ptmp1' = ptmp1 /\ ptmp2' = ptmp2 /\ g_pHexBlock' = g_pHexBlock
    BY <1>2 DEF switchVars
  <2> QED
    BY <1>2, <2>1, <2>2 DEF TextInv
<1>3. ASSUME Turns \/ Dump \/ UNCHANGED <<vars, switchVars>>
      PROVE  UNCHANGED switchVars /\ g_pHexBlock' = g_pHexBlock
  BY <1>3 DEF Turns, Dump, vars, input, Step, ShowWhole, NextEntry, ShowBlock, ShowTail,
              OutputByteOrDword, Remaining
<1> QED
  BY <1>1, <1>2, <1>3

\* -BLOCKS of Do_BLOCK_CMD, for every text: the list that HexDump follows has one
\* entry for each colon, with the numbers behind it, and what is no list is refused.
THEOREM EveryBlockIsTaken == SwitchSpec => []BlocksAsTyped
<1>1. SwitchInit => TextInv
  BY SwitchBegins
<1>2. TextInv /\ [SwitchNext]_<<vars, switchVars>> => TextInv'
  BY ColonStep, DigitStep, CountStep, RefuseStep, StoringStep, DoneStep, OtherSteps
  DEF SwitchNext, Parse
<1>3. TextInv => BlocksAsTyped
  <2>1. sw \in {"taken", "refused"} /\ switch = "blocks" /\ TextInv => BlocksAsTyped
    BY DEF TextInv
  <2>2. ~(sw \in {"taken", "refused"} /\ switch = "blocks") => BlocksAsTyped
    BY DEF BlocksAsTyped
  <2> QED
    BY <2>1, <2>2
<1> QED
  BY <1>1, <1>2, <1>3, PTL DEF SwitchSpec

===============================================================================

---------------------------- MODULE Readers_proofs ----------------------------
(***************************************************************************)
(* Proofs about the readers of Readers: each has an invariant of its own,  *)
(* and in the end they are put side by side as there. As they share        *)
(* variables, each names them as its module does.                          *)
(***************************************************************************)
EXTENDS Readers, SequenceTheorems, FiniteSetTheorems, WellFoundedInduction, TLAPS

files == s1
fileNo == s2
tsPc == s3
ptp == s4
cnt == s5
aligned_units == s6
pidlist == s7
pads == s8
told == s9
left == s10

lpb == s1
vosPc == s2
dwi == s3
v_sBlks == s4
dwb == s5
printed == s6

wave == s1
behind == s2
wavPc == s3
tmp == s4
pwd == s5
dumped == s6

gif == s1
gifPc == s2
ddOff == s3
glen == s4
dwoff == s5
icnt == s6
shown == s7

USE DEF files, fileNo, tsPc, ptp, cnt, aligned_units, pidlist, pads, told, left,
        lpb, vosPc, dwi, v_sBlks, dwb, printed, wave, behind, wavPc, tmp, pwd, dumped,
        gif, gifPc, ddOff, glen, dwoff, icnt, shown

\* Cardinality is the same operator in the modules that are instanced.
LEMMA SameCardinality ==
  \A S : Ts!Cardinality(S) = Cardinality(S) /\ Vos!Cardinality(S) = Cardinality(S)
  BY DEF Ts!Cardinality, Vos!Cardinality, Cardinality

-------------------------------------------------------------------------------
(* Transport streams *)

\* What was printed and left out is of the files so far.
Kept ==
  /\ files \in Seq(StreamFile) /\ files # <<>>
  /\ told \in Seq([file : Nat, packet : Nat])
  /\ \A k \in DOMAIN told : /\ told[k].file \in 1..fileNo
                            /\ told[k].packet \in 1..Len(files[told[k].file].packets)
  /\ IsFiniteSet(left) /\ \A t \in left : t.file \in 1..fileNo

\* Where a file is: nothing of it is printed before it is accepted, and then every packet
\* in front of ptp is printed or left out.
Position ==
  /\ tsPc = "look" =>
       /\ Ts!ToldOf(fileNo) = {} /\ Ts!LeftOf(fileNo) = {} /\ cnt = (ptp - 1) % AlignedUnit
       /\ \A p \in 1..(ptp - 1) : Ts!File.packets[p].sync
  /\ tsPc = "show" =>
       /\ Ts!Accepted(Ts!File) /\ ptp <= Ts!Packets => Ts!LeftOf(fileNo) = {}
       /\ Ts!Accepted(Ts!File)
       /\ Cardinality(Ts!ToldOf(fileNo)) + Cardinality(Ts!LeftOf(fileNo)) = ptp - 1
  /\ tsPc = "done" => fileNo = Len(files)

\* The units of the files before file n, and m of that.
UnitsTo(fs, n, m) ==
  {x \in [file : 1..n, unit : Nat \ {0}] :
     x.unit \in 1..(IF x.file = n THEN m ELSE Ts!Synced(fs[x.file]) \div AlignedUnit)}
UnitsHere ==
  IF tsPc = "look" THEN (ptp - 1) \div AlignedUnit ELSE Ts!Synced(Ts!File) \div AlignedUnit
UnitInv ==
  /\ IsFiniteSet(UnitsTo(files, fileNo, UnitsHere))
  /\ aligned_units = Cardinality(UnitsTo(files, fileNo, UnitsHere))

TsInv ==
  /\ StreamTypes /\ Ts!TypeOK /\ Kept /\ Position /\ UnitInv /\ Ts!PacketsShown /\ Ts!PidsCounted

-------------------------------------------------------------------------------

\* Every set of numbers that is not empty has a least one.
LEMMA LeastNumber ==
  ASSUME NEW T \in SUBSET Nat, T # {}
  PROVE  \E n \in T : \A m \in T : n <= m
<1> DEFINE R == OpToRel(<, Nat)
<1>1. IsWellFoundedOn(R, Nat)
  BY NatLessThanWellFounded
<1>2. \A m, n \in Nat : m < n => <<m, n>> \in R
  BY DEF OpToRel
<1> HIDE DEF R
<1>3. PICK n \in T : \A m \in T : <<m, n>> \notin R
  BY <1>1, WFMin
<1>4. ASSUME NEW m \in T PROVE n <= m
  <2>1. m \in Nat /\ n \in Nat /\ ~(m < n)
    BY <1>2, <1>3
  <2> QED
    BY <2>1
<1> QED
  BY <1>4

\* Quotient and rest.
LEMMA Division ==
  ASSUME NEW x \in Nat, NEW n \in Nat \ {0}
  PROVE  /\ x \div n \in Nat /\ x % n \in 0..(n - 1)
         /\ x = n * (x \div n) + (x % n)
OBVIOUS

\* The multiple of a greater number is greater by one time at least.
LEMMA NextMultiple ==
  ASSUME NEW n \in Nat \ {0}, NEW a \in Nat, NEW b \in Nat, a > b
  PROVE  a * n >= b * n + n
OBVIOUS

\* Each number has one quotient and one rest.
LEMMA OneWay ==
  ASSUME NEW n \in Nat \ {0}, NEW a \in Nat, NEW b \in Nat,
         NEW r \in 0..(n - 1), NEW q \in 0..(n - 1), a * n + r = b * n + q
  PROVE  a = b /\ r = q
<1>1. CASE a > b
  BY <1>1, NextMultiple
<1>2. CASE b > a
  BY <1>2, NextMultiple
<1>3. CASE a = b
  BY <1>3
<1> QED
  BY <1>1, <1>2, <1>3

\* The next number, of a unit begun or of the next one.
LEMMA NextInUnit ==
  ASSUME NEW x \in Nat, NEW n \in Nat \ {0}
  PROVE  /\ (x + 1) % n = ((x % n) + 1) % n
         /\ (x + 1) \div n = (x \div n) + (IF ((x % n) + 1) % n = 0 THEN 1 ELSE 0)
<1>1. PICK a \in Nat, r \in 0..(n - 1) : a = x \div n /\ r = x % n /\ x = n * a + r
  BY Division
<1>2. PICK b \in Nat, q \in 0..(n - 1) :
        b = (x + 1) \div n /\ q = (x + 1) % n /\ x + 1 = n * b + q
  <2>1. x + 1 \in Nat
    OBVIOUS
  <2> QED
    BY <2>1, Division
<1>3. PICK c \in Nat, s \in 0..(n - 1) : s = (r + 1) % n /\ c = (r + 1) \div n /\ r + 1 = n * c + s
  <2>1. r + 1 \in Nat
    OBVIOUS
  <2> QED
    BY <2>1, Division
<1>4. n * a = a * n /\ n * b = b * n /\ n * c = c * n /\ a * n \in Nat
  OBVIOUS
<1>5. CASE r < n - 1
  <2>1. r + 1 \in 0..(n - 1) /\ 0 * n + (r + 1) = c * n + s
    BY <1>3, <1>4, <1>5
  <2>2. s = r + 1 /\ s # 0
    BY <2>1, OneWay
  <2>3. a * n + (r + 1) = b * n + q
    BY <1>1, <1>2, <1>4
  <2>4. b = a /\ q = r + 1
    BY <2>1, <2>3, OneWay
  <2>5. b = a + 0
    BY <2>4
  <2> QED
    BY <1>1, <1>2, <1>3, <2>2, <2>4, <2>5, Zenon
<1>6. CASE r = n - 1
  <2>1. 0 \in 0..(n - 1) /\ 1 * n + 0 = c * n + s
    BY <1>3, <1>4, <1>6
  <2>2. s = 0
    BY <2>1, OneWay
  <2>3. (a + 1) * n + 0 = b * n + q
    <3>1. (a + 1) * n = a * n + n
      OBVIOUS
    <3> QED
      BY <1>1, <1>2, <1>4, <1>6, <3>1
  <2>4. b = a + 1 /\ q = 0
    BY <2>1, <2>3, OneWay
  <2> QED
    BY <1>1, <1>2, <1>3, <2>2, <2>4, Zenon
<1> QED
  BY <1>1, <1>5, <1>6

\* The file that is read, and its packets.
LEMMA FileTypes ==
  ASSUME Kept, Ts!TypeOK
  PROVE  /\ Len(files) \in Nat \ {0} /\ fileNo \in 1..Len(files)
         /\ Ts!File \in StreamFile /\ Ts!File.packets \in Seq(StreamPacket)
         /\ Ts!Packets \in Nat /\ Ts!File.rest \in BOOLEAN
         /\ \A p \in 1..Ts!Packets : Ts!File.packets[p] \in StreamPacket
<1>1. Len(files) \in Nat \ {0}
  BY EmptySeq, LenProperties DEF Kept
<1>2. fileNo \in 1..Len(files)
  BY DEF Ts!TypeOK
<1>3. Ts!File \in StreamFile
  BY <1>2, ElementOfSeq DEF Kept, Ts!File
<1>4. Ts!File.packets \in Seq(StreamPacket) /\ Ts!File.rest \in BOOLEAN
  BY <1>3 DEF StreamFile
<1> QED
  BY <1>1, <1>2, <1>3, <1>4, ElementOfSeq, LenProperties DEF Ts!Packets

\* Synced is the number of packets in front of the first without its sync byte.
LEMMA SyncedIs ==
  ASSUME NEW f \in StreamFile, NEW n \in 0..Len(f.packets),
         \A p \in 1..n : f.packets[p].sync,
         n = Len(f.packets) \/ ~f.packets[n + 1].sync
  PROVE  Ts!Synced(f) = n
<1> DEFINE upTo == {m \in 0..Len(f.packets) : \A p \in 1..m : f.packets[p].sync}
<1>1. Len(f.packets) \in Nat
  BY LenProperties DEF StreamFile
<1>2. n \in upTo
  OBVIOUS
<1>3. ASSUME NEW m \in upTo PROVE m <= n
  <2>1. ASSUME m > n PROVE FALSE
    <3>1. n + 1 \in 1..m /\ n # Len(f.packets)
      BY <1>1, <2>1
    <3> QED
      BY <3>1
  <2> QED
    BY <1>1, <2>1
<1>4. \A m \in upTo : m \in Int
  BY <1>1
<1> HIDE DEF upTo
<1>5. \A m \in upTo : (\A k \in upTo : k <= m) => m = n
  BY <1>1, <1>2, <1>3, <1>4
<1>6. (CHOOSE m \in upTo : \A k \in upTo : k <= m) = n
  BY <1>2, <1>3, <1>5
<1> QED
  BY <1>6 DEF Ts!Synced, upTo

\* All units of a file that is done with are those up to the next file.
LEMMA UnitsOfNext ==
  ASSUME NEW fs, NEW n \in Nat \ {0}
  PROVE  UnitsTo(fs, n + 1, 0) = UnitsTo(fs, n, Ts!Synced(fs[n]) \div AlignedUnit)
<1> DEFINE all == Ts!Synced(fs[n]) \div AlignedUnit
<1>1. ASSUME NEW x
      PROVE  x \in UnitsTo(fs, n + 1, 0) <=> x \in UnitsTo(fs, n, all)
  <2>1. CASE x \notin [file : 1..(n + 1), unit : Nat \ {0}]
    BY <2>1 DEF UnitsTo
  <2>2. CASE x \in [file : 1..(n + 1), unit : Nat \ {0}] /\ x.file = n + 1
    <3>1. x.unit \notin 1..0 /\ n + 1 \notin 1..n
      BY <2>2
    <3> QED
      BY <2>2, <3>1 DEF UnitsTo
  <2>3. CASE x \in [file : 1..(n + 1), unit : Nat \ {0}] /\ x.file # n + 1
    <3>1. x \in [file : 1..n, unit : Nat \ {0}]
      BY <2>3
    <3> QED
      BY <2>3, <3>1 DEF UnitsTo
  <2> QED
    BY <2>1, <2>2, <2>3
<1> QED
  BY <1>1

\* There always is such a number.
LEMMA SyncedIsNumber ==
  ASSUME NEW f \in StreamFile
  PROVE  Ts!Synced(f) \in Nat
<1> DEFINE lost == {p \in 1..Len(f.packets) : ~f.packets[p].sync}
<1>1. Len(f.packets) \in Nat
  BY LenProperties DEF StreamFile
<1>2. CASE lost = {}
  BY <1>1, <1>2, SyncedIs
<1>3. CASE lost # {}
  <2>1. lost \in SUBSET Nat
    BY <1>1
  <2>2. PICK p \in lost : \A q \in lost : p <= q
    BY <1>3, <2>1, LeastNumber
  <2>3. PICK n \in 0..Len(f.packets) : n + 1 = p
    BY <1>1
  <2>4. ~f.packets[n + 1].sync /\ \A q \in 1..n : f.packets[q].sync
    BY <1>1, <2>2, <2>3
  <2>5. Ts!Synced(f) = n
    BY <2>4, SyncedIs
  <2> QED
    BY <1>1, <2>5
<1> QED
  BY <1>2, <1>3

\* When no file before the last has a unit, the units are those of the last.
LEMMA UnitsOfLast ==
  ASSUME Len(files) \in Nat \ {0}, NEW m \in Nat,
         \A n \in 1..(Len(files) - 1) : Ts!UnitsOf(files[n]) = 0
  PROVE  Cardinality(UnitsTo(files, Len(files), m)) = m
<1> DEFINE last == Len(files)
           f == [u \in 1..m |-> [file |-> last, unit |-> u]]
           T == UnitsTo(files, last, m)
<1>1. ASSUME NEW x \in T PROVE x.unit \in 1..m /\ x = [file |-> last, unit |-> x.unit]
  <2>1. /\ x \in [file : 1..last, unit : Nat \ {0}]
        /\ x.unit \in 1..(IF x.file = last THEN m ELSE Ts!UnitsOf(files[x.file]))
    BY DEF UnitsTo, Ts!UnitsOf
  <2>2. x.file = last
    <3>1. SUFFICES ASSUME x.file # last PROVE FALSE
      OBVIOUS
    <3>2. x.file \in 1..(last - 1)
      BY <2>1, <3>1
    <3>3. Ts!UnitsOf(files[x.file]) = 0
      BY <3>2
    <3>4. x.unit \in 1..0
      BY <2>1, <3>1, <3>3
    <3> QED
      BY <3>4
  <2> QED
    BY <2>1, <2>2
<1>2. ASSUME NEW u \in 1..m PROVE f[u] \in T
  BY <1>2 DEF UnitsTo
<1>3. f \in [1..m -> T]
  BY <1>2
<1>4. \A u, v \in 1..m : f[u] = f[v] => u = v
  <2>1. \A u \in 1..m : f[u].unit = u
    OBVIOUS
  <2> QED
    BY <2>1
<1>5. \A x \in T : \E u \in 1..m : f[u] = x
  BY <1>1
<1>6. ExistsBijection(1..m, T)
  <2> HIDE DEF f, T
  <2> QED
    BY <1>3, <1>4, <1>5 DEF ExistsBijection, Bijection, Injection, Surjection, IsInjective
<1>7. IsFiniteSet(1..m) /\ Cardinality(1..m) = m
  <2>1. 1 \in Int /\ m \in Int
    OBVIOUS
  <2>2. Cardinality(1..m) = IF 1 > m THEN 0 ELSE m - 1 + 1
    BY <2>1, FS_Interval
  <2> QED
    BY <2>1, <2>2, FS_Interval
<1> QED
  BY <1>6, <1>7, FS_Bijection

\* One unit more.
LEMMA OneMoreUnit ==
  ASSUME NEW fs, NEW n \in Nat \ {0}, NEW m \in Nat, IsFiniteSet(UnitsTo(fs, n, m))
  PROVE  /\ IsFiniteSet(UnitsTo(fs, n, m + 1))
         /\ Cardinality(UnitsTo(fs, n, m + 1)) = Cardinality(UnitsTo(fs, n, m)) + 1
<1> DEFINE e == [file |-> n, unit |-> m + 1]
<1>1. UnitsTo(fs, n, m + 1) = UnitsTo(fs, n, m) \cup {e}
  <2>1. e \in UnitsTo(fs, n, m + 1)
    BY DEF UnitsTo
  <2>2. ASSUME NEW x \in UnitsTo(fs, n, m) PROVE x \in UnitsTo(fs, n, m + 1)
    BY <2>2 DEF UnitsTo
  <2>3. ASSUME NEW x \in UnitsTo(fs, n, m + 1), x \notin UnitsTo(fs, n, m)
        PROVE  x = e
    <3>1. /\ x \in [file : 1..n, unit : Nat \ {0}]
          /\ x.unit \in 1..(IF x.file = n THEN m + 1
                                          ELSE Ts!Synced(fs[x.file]) \div AlignedUnit)
          /\ x.unit \notin 1..(IF x.file = n THEN m
                                             ELSE Ts!Synced(fs[x.file]) \div AlignedUnit)
      BY <2>3 DEF UnitsTo
    <3>2. x.file = n /\ x.unit = m + 1
      BY <3>1
    <3>3. x = [file |-> x.file, unit |-> x.unit]
      BY <3>1
    <3> QED
      BY <3>2, <3>3
  <2> QED
    BY <2>1, <2>2, <2>3
<1>2. e \notin UnitsTo(fs, n, m)
  BY DEF UnitsTo
<1> HIDE DEF e
<1> QED
  BY <1>1, <1>2, FS_AddElement

\* The first file is looked at.
LEMMA InitTs == StreamTypes /\ Ts!Init => TsInv
<1> SUFFICES ASSUME StreamTypes, Ts!Init PROVE TsInv
  OBVIOUS
<1>1. files \in Seq(StreamFile) /\ files # <<>>
  BY DEF StreamTypes, Ts!Init
<1>2. /\ fileNo = 1 /\ tsPc = "look" /\ ptp = 1 /\ cnt = 0 /\ aligned_units = 0
      /\ pidlist = <<>> /\ pads = 0 /\ told = <<>> /\ left = {}
  BY DEF Ts!Init
<1>3. AlignedUnit \in Nat \ {0}
  BY DEF StreamTypes
<1>4. Len(files) \in Nat \ {0}
  BY <1>1, EmptySeq, LenProperties
<1>5. Kept
  BY <1>1, <1>2, EmptySeq, FS_EmptySet DEF Kept
<1>6. Ts!TypeOK
  <2>1. Ts!Packets \in Nat
    <3>1. Ts!File \in StreamFile
      BY <1>1, <1>2, <1>4, ElementOfSeq DEF Ts!File
    <3> QED
      BY <3>1, LenProperties DEF Ts!Packets, StreamFile
  <2> QED
    BY <1>2, <1>3, <1>4, <2>1, EmptySeq DEF Ts!TypeOK
<1>7. \A n : Ts!ToldOf(n) = {} /\ Ts!LeftOf(n) = {}
  BY <1>2 DEF Ts!ToldOf, Ts!LeftOf
<1>8. Position
  BY <1>2, <1>3, <1>7, Division DEF Position
<1>9. UnitInv
  <2>1. UnitsTo(files, 1, 0) = {}
    BY DEF UnitsTo
  <2>2. UnitsHere = 0
    BY <1>2, <1>3 DEF UnitsHere
  <2> QED
    BY <1>2, <2>1, <2>2, FS_EmptySet DEF UnitInv
<1>10. Ts!PacketsShown
  BY <1>2, <1>7, SameCardinality DEF Ts!PacketsShown
<1>11. Ts!PidsCounted
  BY <1>2, SameCardinality, SMTT(30) DEF Ts!PidsCounted
<1> QED
  BY <1>5, <1>6, <1>8, <1>9, <1>10, <1>11 DEF TsInv

\* PidsCounted of the files fs, what was told of them, ts, and a list.
At(fs, t) == fs[t.file].packets[t.packet]
WithOf(fs, ts, pid, level) ==
  {k \in DOMAIN ts : At(fs, ts[k]).pid = pid /\ (level = 1 => ~At(fs, ts[k]).payload)}
PidsAre(fs, ts, list) ==
  /\ \A i, j \in DOMAIN list :
       i # j => <<list[i].pid, list[i].level>> # <<list[j].pid, list[j].level>>
  /\ \A i \in DOMAIN list :
       list[i].cnt = Cardinality(WithOf(fs, ts, list[i].pid, list[i].level))
  /\ \A k \in DOMAIN ts, level \in {0, 1} :
       WithOf(fs, ts, At(fs, ts[k]).pid, level) # {} =>
         \E i \in DOMAIN list : list[i].pid = At(fs, ts[k]).pid /\ list[i].level = level

\* That is what is said of what was told.
LEMMA PidsAreCounted == Ts!PidsCounted <=> PidsAre(files, told, pidlist)
BY SameCardinality, SMTT(30) DEF Ts!PidsCounted, PidsAre, Ts!With, WithOf, Ts!PacketAt, At

\* And in the next state.
LEMMA PidsAreCountedNext == Ts!PidsCounted' <=> PidsAre(files', told', pidlist')
BY SameCardinality DEF Ts!PidsCounted, PidsAre, Ts!With, WithOf, Ts!PacketAt, At

\* Counting goes on only where packets are printed.
LEMMA PidsStay ==
  ASSUME Ts!PidsCounted, UNCHANGED <<files, pidlist, told>>
  PROVE  Ts!PidsCounted'
BY PidsAreCounted, PidsAreCountedNext

\* The same holds of what was printed of the files so far.
LEMMA PacketsStay ==
  ASSUME Ts!PacketsShown, UNCHANGED <<files, fileNo, told, left>>, tsPc' # "done"
  PROVE  Ts!PacketsShown'
<1>1. \A n : Ts!ToldOf(n)' = Ts!ToldOf(n) /\ Ts!LeftOf(n)' = Ts!LeftOf(n)
  BY DEF Ts!ToldOf, Ts!LeftOf
<1>2. \A f : Ts!Accepted(f)' = Ts!Accepted(f)
  BY DEF Ts!Accepted
<1> QED
  BY <1>1, <1>2, SameCardinality DEF Ts!PacketsShown

\* The next file, or none.
Moves ==
  /\ \/ fileNo < Len(files) /\ fileNo' = fileNo + 1 /\ tsPc' = "look"
     \/ fileNo = Len(files) /\ fileNo' = fileNo /\ tsPc' = "done"
  /\ ptp' = 1 /\ cnt' = 0 /\ pads' \in Nat
  /\ UNCHANGED <<files, aligned_units, pidlist, told, left>>

\* A file is done with once all of its units are counted and, if it was accepted, all of
\* its packets are.
LEMMA MovesKeep ==
  ASSUME TsInv, Moves, tsPc # "done",
         IsFiniteSet(UnitsTo(files, fileNo, Ts!Synced(Ts!File) \div AlignedUnit)),
         aligned_units = Cardinality(UnitsTo(files, fileNo, Ts!Synced(Ts!File) \div AlignedUnit)),
         Ts!Accepted(Ts!File) =>
           Cardinality(Ts!ToldOf(fileNo)) + Cardinality(Ts!LeftOf(fileNo)) = Ts!Packets
  PROVE  TsInv'
<1>1. /\ Len(files) \in Nat \ {0} /\ fileNo \in 1..Len(files) /\ AlignedUnit \in Nat \ {0}
      /\ Ts!File \in StreamFile /\ fileNo \in Nat
  BY FileTypes DEF TsInv, StreamTypes
<1>2. /\ files' = files /\ told' = told /\ left' = left /\ pidlist' = pidlist
      /\ aligned_units' = aligned_units /\ ptp' = 1 /\ cnt' = 0 /\ pads' \in Nat
      /\ fileNo' \in 1..Len(files) /\ fileNo <= fileNo'
  BY <1>1 DEF Moves
<1>3. StreamTypes'
  BY DEF TsInv, StreamTypes
<1>4. Kept'
  BY <1>1, <1>2, SMTT(30) DEF TsInv, Kept
<1>5. Ts!TypeOK'
  <2>1. Ts!Packets' \in Nat
    <3>1. Ts!File' \in StreamFile
      BY <1>2, ElementOfSeq DEF TsInv, Kept, Ts!File
    <3> QED
      BY <3>1, LenProperties DEF Ts!Packets, StreamFile
  <2>2. 1 \in 1..(Ts!Packets' + 1)
    <3>1. PICK n \in Nat : n = Ts!Packets'
      BY <2>1
    <3>2. 1 \in 1..(n + 1)
      OBVIOUS
    <3> QED
      BY <3>1, <3>2
  <2>4. 0 \in 0..(AlignedUnit - 1)
    BY <1>1
  <2>3. tsPc' \in {"look", "show", "done"}
    BY DEF Moves
  <2> QED
    BY <1>2, <2>2, <2>3, <2>4 DEF TsInv, Ts!TypeOK
<1>6. \A n : Ts!ToldOf(n)' = Ts!ToldOf(n) /\ Ts!LeftOf(n)' = Ts!LeftOf(n)
  BY <1>2 DEF Ts!ToldOf, Ts!LeftOf
<1>7. ASSUME fileNo' = fileNo + 1
      PROVE  Ts!ToldOf(fileNo') = {} /\ Ts!LeftOf(fileNo') = {}
  <2>1. fileNo + 1 \notin 1..fileNo
    BY <1>1
  <2> QED
    BY <1>7, <2>1 DEF TsInv, Kept, Ts!ToldOf, Ts!LeftOf
<1>8. Position'
  <2>1. ASSUME tsPc' = "look"
        PROVE  /\ (Ts!ToldOf(fileNo) = {})' /\ (Ts!LeftOf(fileNo) = {})'
               /\ cnt' = (ptp' - 1) % AlignedUnit /\ 1..(ptp' - 1) = {}
    <3>1. fileNo' = fileNo + 1
      BY <2>1 DEF Moves
    <3>2. 0 % AlignedUnit = 0
      BY <1>1
    <3> QED
      BY <1>2, <1>7, <3>1, <3>2 DEF Ts!ToldOf, Ts!LeftOf
  <2> QED
    BY <2>1 DEF Position, Moves
<1>9. UnitInv'
  <2>1. CASE fileNo' = fileNo + 1 /\ tsPc' = "look"
    <3>1. UnitsHere' = 0
      BY <1>1, <1>2, <2>1 DEF UnitsHere
    <3>2. UnitsTo(files, fileNo + 1, 0) = UnitsTo(files, fileNo, Ts!Synced(Ts!File) \div AlignedUnit)
      BY <1>1, UnitsOfNext DEF Ts!File
    <3> QED
      BY <1>2, <2>1, <3>1, <3>2 DEF UnitInv
  <2>2. CASE fileNo' = fileNo /\ tsPc' = "done"
    <3>1. UnitsHere' = Ts!Synced(Ts!File) \div AlignedUnit
      BY <1>2, <2>2 DEF UnitsHere, Ts!File
    <3> QED
      BY <1>2, <2>2, <3>1 DEF UnitInv
  <2> QED
    BY <2>1, <2>2 DEF Moves
<1>10. Ts!PacketsShown'
  <2>1. \A f : Ts!Accepted(f)' = Ts!Accepted(f)
    BY DEF Ts!Accepted
  <2>2. ASSUME NEW n \in 1..Len(files), n < fileNo' \/ tsPc' = "done"
        PROVE  n < fileNo \/ n = fileNo
    BY <1>1, <1>2, <2>2 DEF Moves
  <2>3. ASSUME NEW n \in 1..Len(files)
        PROVE  /\ \A k \in Ts!ToldOf(n) : told[k].packet = Cardinality({j \in Ts!ToldOf(n) : j <= k})
               /\ Ts!ToldOf(n) # {} => Ts!Accepted(files[n])
               /\ (n < fileNo' \/ tsPc' = "done") /\ Ts!Accepted(files[n]) =>
                    Cardinality(Ts!ToldOf(n)) + Cardinality(Ts!LeftOf(n)) = Len(files[n].packets)
    BY <2>2, <2>3, SameCardinality DEF TsInv, Ts!PacketsShown, Ts!File, Ts!Packets
  <2> QED
    BY <1>2, <1>6, <2>1, <2>3, SameCardinality DEF Ts!PacketsShown
<1>11. Ts!PidsCounted'
  BY <1>2, PidsStay DEF TsInv
<1> QED
  BY <1>3, <1>4, <1>5, <1>8, <1>9, <1>10, <1>11 DEF TsInv

\* Looking for full units leaves what was printed and counted.
LEMMA LookKeeps ==
  ASSUME TsInv, Ts!Look
  PROVE  TsInv'
<1>1. /\ AlignedUnit \in Nat \ {0} /\ fileNo \in 1..Len(files) /\ Ts!File \in StreamFile
      /\ Ts!Packets \in Nat /\ ptp \in Nat \ {0} /\ Len(files) \in Nat \ {0}
  BY FileTypes DEF TsInv, StreamTypes, Ts!TypeOK
<1>2. /\ tsPc = "look" /\ ~Ts!Refused /\ ptp <= Ts!Packets /\ ptp' = ptp + 1
      /\ cnt' = (cnt + 1) % AlignedUnit
      /\ aligned_units' = IF cnt' = 0 THEN aligned_units + 1 ELSE aligned_units
      /\ UNCHANGED <<files, fileNo, tsPc, pidlist, pads, told, left>>
  BY DEF Ts!Look, Ts!More
<1>3. Ts!Packet.sync
  BY <1>2 DEF Ts!Refused, Ts!More
<1>4. PICK x \in Nat : x = ptp - 1
  BY <1>1
<1>5. /\ cnt = x % AlignedUnit /\ cnt' = (x + 1) % AlignedUnit
      /\ (x + 1) \div AlignedUnit = (x \div AlignedUnit) + (IF cnt' = 0 THEN 1 ELSE 0)
      /\ x \div AlignedUnit \in Nat /\ cnt' \in 0..(AlignedUnit - 1) /\ ptp' - 1 = x + 1
  <2>1. cnt = x % AlignedUnit
    BY <1>2, <1>4 DEF TsInv, Position
  <2>2. (x + 1) % AlignedUnit \in 0..(AlignedUnit - 1) /\ x \div AlignedUnit \in Nat
    <3>1. x + 1 \in Nat
      OBVIOUS
    <3> QED
      BY <1>1, <3>1, Division
  <2>3. cnt' = (x + 1) % AlignedUnit
    BY <1>1, <1>2, <2>1, NextInUnit
  <2>4. (x + 1) \div AlignedUnit = (x \div AlignedUnit) + (IF cnt' = 0 THEN 1 ELSE 0)
    BY <1>1, <1>2, <2>1, NextInUnit
  <2>5. ptp' - 1 = x + 1
    BY <1>1, <1>2, <1>4
  <2> QED
    BY <2>1, <2>2, <2>3, <2>4, <2>5
<1>6. StreamTypes'
  BY DEF TsInv, StreamTypes
<1>7. Kept'
  BY <1>2 DEF TsInv, Kept
<1>8. Ts!TypeOK'
  <2>1. ptp + 1 \in 1..(Ts!Packets + 1) /\ Ts!Packets' = Ts!Packets
    BY <1>1, <1>2 DEF Ts!Packets, Ts!File
  <2>2. aligned_units' \in Nat
    BY <1>2 DEF TsInv, Ts!TypeOK
  <2> QED
    BY <1>2, <1>5, <2>1, <2>2 DEF TsInv, Ts!TypeOK
<1>9. Position'
  <2>1. /\ Ts!ToldOf(fileNo) = {} /\ Ts!LeftOf(fileNo) = {}
        /\ \A p \in 1..(ptp - 1) : Ts!File.packets[p].sync
    BY <1>2 DEF TsInv, Position
  <2>2. \A p \in 1..(ptp' - 1) : p \in 1..(ptp - 1) \/ p = ptp
    BY <1>1, <1>2
  <2>3. \A p \in 1..(ptp' - 1) : Ts!File.packets[p].sync
    BY <1>3, <2>1, <2>2 DEF Ts!Packet
  <2>4. Ts!File' = Ts!File /\ (Ts!ToldOf(fileNo))' = Ts!ToldOf(fileNo) /\ (Ts!LeftOf(fileNo))' = Ts!LeftOf(fileNo)
    BY <1>2 DEF Ts!File, Ts!ToldOf, Ts!LeftOf
  <2> QED
    BY <1>2, <1>5, <2>1, <2>3, <2>4 DEF Position
<1>10. UnitInv'
  <2>1. /\ IsFiniteSet(UnitsTo(files, fileNo, x \div AlignedUnit))
        /\ aligned_units = Cardinality(UnitsTo(files, fileNo, x \div AlignedUnit))
    BY <1>2, <1>4 DEF TsInv, UnitInv, UnitsHere
  <2>2. UnitsHere' = (x + 1) \div AlignedUnit
    BY <1>2, <1>5 DEF UnitsHere
  <2>3. /\ IsFiniteSet(UnitsTo(files, fileNo, (x \div AlignedUnit) + 1))
        /\ Cardinality(UnitsTo(files, fileNo, (x \div AlignedUnit) + 1)) = aligned_units + 1
    BY <1>1, <1>5, <2>1, OneMoreUnit
  <2>4. CASE cnt' = 0
    <3>1. UnitsHere' = (x \div AlignedUnit) + 1
      BY <1>5, <2>2, <2>4
    <3> QED
      BY <1>2, <2>3, <2>4, <3>1 DEF UnitInv
  <2>5. CASE cnt' # 0
    <3>1. UnitsHere' = x \div AlignedUnit
      BY <1>5, <2>2, <2>5
    <3> QED
      BY <1>2, <2>1, <2>5, <3>1 DEF UnitInv
  <2> QED
    BY <2>4, <2>5
<1>11. Ts!PacketsShown'
  BY <1>2, PacketsStay DEF TsInv
<1>12. Ts!PidsCounted'
  BY <1>2, PidsStay DEF TsInv
<1> QED
  BY <1>6, <1>7, <1>8, <1>9, <1>10, <1>11, <1>12 DEF TsInv

\* A file is refused at the first packet without its sync byte, or at its end.
LEMMA RefuseKeeps ==
  ASSUME TsInv, Ts!Refuse
  PROVE  TsInv'
<1>1. /\ AlignedUnit \in Nat \ {0} /\ fileNo \in 1..Len(files) /\ Ts!File \in StreamFile
      /\ Ts!Packets \in Nat /\ ptp \in 1..(Ts!Packets + 1) /\ Len(files) \in Nat \ {0}
  BY FileTypes DEF TsInv, StreamTypes, Ts!TypeOK
<1>2. tsPc = "look" /\ Ts!Refused /\ Moves
  BY <1>1 DEF Ts!Refuse, Ts!Leave, Ts!NextFile, Moves
<1>3. cnt = (ptp - 1) % AlignedUnit /\ \A p \in 1..(ptp - 1) : Ts!File.packets[p].sync
  BY <1>2 DEF TsInv, Position
<1>4. ptp - 1 = Ts!Packets \/ ~Ts!File.packets[(ptp - 1) + 1].sync
  BY <1>1, <1>2 DEF Ts!Refused, Ts!More, Ts!Packet
<1>5. Ts!Synced(Ts!File) = ptp - 1
  <2>1. ptp - 1 \in 0..Len(Ts!File.packets)
    BY <1>1 DEF Ts!Packets
  <2> QED
    BY <1>1, <1>3, <1>4, <2>1, SyncedIs DEF Ts!Packets
<1>6. ~Ts!Accepted(Ts!File)
  <2>1. CASE Ts!More
    <3>1. ptp \in DOMAIN Ts!File.packets /\ ~Ts!File.packets[ptp].sync
      <4>1. ptp \in 1..Len(Ts!File.packets)
        BY <1>1, <2>1 DEF Ts!More, Ts!Packets
      <4>2. DOMAIN Ts!File.packets = 1..Len(Ts!File.packets)
        BY <1>1, LenProperties DEF StreamFile
      <4> QED
        BY <1>2, <2>1, <4>1, <4>2 DEF Ts!Refused, Ts!Packet
    <3> QED
      BY <3>1 DEF Ts!Accepted
  <2>2. CASE ~Ts!More
    <3>1. Ts!File.rest \/ cnt > 0
      BY <1>2, <2>2 DEF Ts!Refused
    <3>2. ptp - 1 = Ts!Packets
      BY <1>1, <2>2 DEF Ts!More
    <3> QED
      BY <1>3, <3>1, <3>2 DEF Ts!Accepted, Ts!Packets
  <2> QED
    BY <2>1, <2>2
<1>7. UnitsHere = Ts!Synced(Ts!File) \div AlignedUnit
  BY <1>2, <1>5 DEF UnitsHere
<1> QED
  BY <1>2, <1>6, <1>7, MovesKeep DEF TsInv, UnitInv

\* A file of full units is accepted; one of no packets has nothing to show.
LEMMA AcceptKeeps ==
  ASSUME TsInv, Ts!Accept
  PROVE  TsInv'
<1>1. /\ AlignedUnit \in Nat \ {0} /\ fileNo \in 1..Len(files) /\ Ts!File \in StreamFile
      /\ Ts!Packets \in Nat /\ ptp \in 1..(Ts!Packets + 1) /\ Len(files) \in Nat \ {0}
  BY FileTypes DEF TsInv, StreamTypes, Ts!TypeOK
<1>2. /\ tsPc = "look" /\ ~Ts!Refused /\ ~Ts!More /\ ptp' = 1
      /\ tsPc' = (IF Ts!Packets = 0 THEN Ts!NextFile ELSE "show")
      /\ fileNo' = (IF tsPc' = "look" THEN fileNo + 1 ELSE fileNo)
      /\ UNCHANGED <<files, cnt, aligned_units, pidlist, pads, told, left>>
  BY DEF Ts!Accept
<1>3. /\ cnt = (ptp - 1) % AlignedUnit /\ \A p \in 1..(ptp - 1) : Ts!File.packets[p].sync
      /\ Ts!ToldOf(fileNo) = {} /\ Ts!LeftOf(fileNo) = {}
  BY <1>2 DEF TsInv, Position
<1>4. ptp - 1 = Ts!Packets /\ ~Ts!File.rest /\ cnt = 0
  BY <1>1, <1>2 DEF Ts!More, Ts!Refused, TsInv, Ts!TypeOK
<1>5. Ts!Accepted(Ts!File)
  <2>1. DOMAIN Ts!File.packets = 1..Ts!Packets
    BY <1>1, LenProperties DEF StreamFile, Ts!Packets
  <2>2. Ts!Packets % AlignedUnit = 0
    BY <1>3, <1>4
  <2> QED
    BY <1>3, <1>4, <2>1, <2>2 DEF Ts!Accepted, Ts!Packets
<1>6. Ts!Synced(Ts!File) = Ts!Packets
  BY <1>1, <1>3, <1>4, SyncedIs, SMTT(30) DEF Ts!Packets
<1>7. UnitsHere = Ts!Synced(Ts!File) \div AlignedUnit
  BY <1>2, <1>4, <1>6 DEF UnitsHere
<1>8. CASE Ts!Packets = 0
  <2>1. Moves
    BY <1>1, <1>2, <1>4, <1>8 DEF Ts!NextFile, Moves, TsInv, Ts!TypeOK
  <2> QED
    BY <1>2, <1>3, <1>7, <1>8, <2>1, MovesKeep, FS_EmptySet DEF TsInv, UnitInv
<1>9. CASE Ts!Packets # 0
  <2>1. tsPc' = "show" /\ fileNo' = fileNo
    BY <1>2, <1>9
  <2>2. StreamTypes' /\ Kept'
    BY <1>2, <2>1 DEF TsInv, StreamTypes, Kept
  <2>3. Ts!TypeOK'
    <3>1. 1 \in 1..(Ts!Packets + 1) /\ Ts!Packets' = Ts!Packets
      BY <1>1, <1>2, <2>1 DEF Ts!Packets, Ts!File
    <3> QED
      BY <1>2, <2>1, <3>1 DEF TsInv, Ts!TypeOK
  <2>4. Position'
    <3>1. /\ Ts!File' = Ts!File /\ (Ts!ToldOf(fileNo))' = {} /\ (Ts!LeftOf(fileNo))' = {}
          /\ Ts!Accepted(Ts!File)' /\ ptp' - 1 = 0
      BY <1>2, <1>3, <1>5, <2>1 DEF Ts!File, Ts!ToldOf, Ts!LeftOf, Ts!Accepted
    <3> QED
      BY <2>1, <3>1, FS_EmptySet DEF Position
  <2>5. UnitInv'
    <3>1. UnitsHere' = UnitsHere
      BY <1>2, <1>7, <2>1 DEF UnitsHere, Ts!File
    <3> QED
      BY <1>2, <2>1, <3>1 DEF TsInv, UnitInv
  <2>6. Ts!PacketsShown'
    BY <1>2, <2>1, PacketsStay DEF TsInv
  <2>7. Ts!PidsCounted'
    BY <1>2, PidsStay DEF TsInv
  <2> QED
    BY <2>2, <2>3, <2>4, <2>5, <2>6, <2>7 DEF TsInv
<1> QED
  BY <1>8, <1>9

\* The totals are printed when no packet is left.
LEMMA TotalKeeps ==
  ASSUME TsInv, Ts!Total
  PROVE  TsInv'
<1>1. /\ Ts!Packets \in Nat /\ ptp \in 1..(Ts!Packets + 1) /\ fileNo \in 1..Len(files)
      /\ Len(files) \in Nat \ {0}
  BY FileTypes DEF TsInv, Ts!TypeOK
<1>2. tsPc = "show" /\ ptp - 1 = Ts!Packets /\ Moves
  BY <1>1 DEF Ts!Total, Ts!More, Ts!Leave, Ts!NextFile, Moves
<1>3. Cardinality(Ts!ToldOf(fileNo)) + Cardinality(Ts!LeftOf(fileNo)) = Ts!Packets
  BY <1>2 DEF TsInv, Position
<1> QED
  BY <1>2, <1>3, MovesKeep DEF TsInv, UnitInv, UnitsHere

\* The positions of a history of n elements, and one more.
LEMMA OnePosition ==
  ASSUME NEW n \in Nat, NEW A \in SUBSET (1..n), NEW c \in BOOLEAN
  PROVE  LET B == A \cup (IF c THEN {n + 1} ELSE {})
         IN  /\ IsFiniteSet(A) /\ Cardinality(A) \in Nat /\ IsFiniteSet(B)
             /\ Cardinality(B) = Cardinality(A) + (IF c THEN 1 ELSE 0)
<1>1. IsFiniteSet(A) /\ Cardinality(A) \in Nat
  <2>1. IsFiniteSet(1..n)
    BY FS_Interval
  <2> QED
    BY <2>1, FS_Subset, FS_CardinalityType
<1>2. n + 1 \notin A
  OBVIOUS
<1>3. CASE c
  BY <1>1, <1>2, <1>3, FS_AddElement
<1>4. CASE ~c
  BY <1>1, <1>4
<1> QED
  BY <1>3, <1>4

\* A list of PIDs has the count n for a PID and a level, and no two entries of the same.
PidEntry == [pid : Nat, level : {0, 1}, cnt : Nat \ {0}]
Has(list, p, l, n) ==
  /\ \A i \in DOMAIN list : list[i].pid = p /\ list[i].level = l => list[i].cnt = n
  /\ n # 0 => \E i \in DOMAIN list : list[i].pid = p /\ list[i].level = l
Distinct(list) ==
  \A i, j \in DOMAIN list :
    i # j => <<list[i].pid, list[i].level>> # <<list[j].pid, list[j].level>>

\* What add_to_pid_list does to the counts: that of the PID and level goes up by one, the
\* others stay, and no entry is made twice.
LEMMA AddedCounts ==
  ASSUME NEW list \in Seq(PidEntry), Distinct(list), NEW pid \in Nat, NEW level \in {0, 1}
  PROVE  /\ Ts!Added(list, pid, level) \in Seq(PidEntry)
         /\ Distinct(Ts!Added(list, pid, level))
         /\ \A p \in Nat, l \in {0, 1}, n \in Nat :
              Has(list, p, l, n) =>
                Has(Ts!Added(list, pid, level), p, l,
                    n + (IF p = pid /\ l = level THEN 1 ELSE 0))
<1> DEFINE new == Ts!Added(list, pid, level)
           e == [pid |-> pid, level |-> level, cnt |-> 1]
<1>1. /\ Len(list) \in Nat /\ DOMAIN list = 1..Len(list)
      /\ \A i \in DOMAIN list : list[i] \in PidEntry
  BY LenProperties, ElementOfSeq
<1>2. CASE \E i \in DOMAIN list : list[i].pid = pid /\ list[i].level = level
  <2>1. new = [i \in DOMAIN list |-> IF list[i].pid = pid /\ list[i].level = level
                                     THEN [list[i] EXCEPT !.cnt = @ + 1] ELSE list[i]]
    BY <1>2 DEF Ts!Added
  <2>2. /\ DOMAIN new = DOMAIN list
        /\ \A i \in DOMAIN list :
             /\ new[i] \in PidEntry
             /\ new[i].pid = list[i].pid /\ new[i].level = list[i].level
             /\ new[i].cnt = list[i].cnt + (IF list[i].pid = pid /\ list[i].level = level
                                            THEN 1 ELSE 0)
    BY <1>1, <2>1 DEF PidEntry
  <2> HIDE DEF new
  <2>3. new \in Seq(PidEntry)
    <3>1. new = [i \in 1..Len(list) |-> new[i]]
      BY <1>1, <2>1 DEF new
    <3>2. \A i \in 1..Len(list) : new[i] \in PidEntry
      BY <1>1, <2>2
    <3>3. [i \in 1..Len(list) |-> new[i]] \in Seq(PidEntry)
      BY <1>1, <3>2, IsASeq
    <3> QED
      BY <3>1, <3>3
  <2>4. Distinct(new)
    BY <2>2 DEF Distinct
  <2>5. ASSUME NEW p \in Nat, NEW l \in {0, 1}, NEW n \in Nat, Has(list, p, l, n)
        PROVE  Has(new, p, l, n + (IF p = pid /\ l = level THEN 1 ELSE 0))
    <3>1. ASSUME NEW i \in DOMAIN new, new[i].pid = p, new[i].level = l
          PROVE  new[i].cnt = n + (IF p = pid /\ l = level THEN 1 ELSE 0)
      <4>1. i \in DOMAIN list /\ list[i].pid = p /\ list[i].level = l /\ list[i].cnt = n
        BY <2>2, <2>5, <3>1 DEF Has
      <4> QED
        BY <2>2, <4>1
    <3>2. ASSUME n + (IF p = pid /\ l = level THEN 1 ELSE 0) # 0
          PROVE  \E i \in DOMAIN new : new[i].pid = p /\ new[i].level = l
      <4>1. \E i \in DOMAIN list : list[i].pid = p /\ list[i].level = l
        <5>1. CASE p = pid /\ l = level
          BY <1>2, <5>1
        <5>2. CASE ~(p = pid /\ l = level)
          BY <2>5, <3>2, <5>2 DEF Has
        <5> QED
          BY <5>1, <5>2
      <4> QED
        BY <2>2, <4>1
    <3> QED
      BY <3>1, <3>2 DEF Has
  <2> QED
    BY <2>3, <2>4, <2>5 DEF new
<1>3. CASE ~\E i \in DOMAIN list : list[i].pid = pid /\ list[i].level = level
  <2>1. new = Append(list, e)
    BY <1>3 DEF Ts!Added
  <2>2. e \in PidEntry /\ e.pid = pid /\ e.level = level /\ e.cnt = 1
    BY DEF PidEntry
  <2> HIDE DEF e, new
  <2>3. /\ new \in Seq(PidEntry) /\ DOMAIN new = 1..(Len(list) + 1)
        /\ \A i \in DOMAIN list : new[i] = list[i]
        /\ new[Len(list) + 1] = e
    BY <1>1, <2>1, <2>2, AppendProperties, LenProperties
  <2>4. \A i \in DOMAIN new : i \in DOMAIN list \/ i = Len(list) + 1
    BY <1>1, <2>3
  <2>5. Distinct(new)
    BY <1>3, <2>2, <2>3, <2>4 DEF Distinct
  <2>6. ASSUME NEW p \in Nat, NEW l \in {0, 1}, NEW n \in Nat, Has(list, p, l, n)
        PROVE  Has(new, p, l, n + (IF p = pid /\ l = level THEN 1 ELSE 0))
    <3>1. Len(list) + 1 \in DOMAIN new /\ DOMAIN list \subseteq DOMAIN new
      BY <1>1, <2>3
    <3>2. CASE p = pid /\ l = level
      <4>1. n = 0 /\ \A i \in DOMAIN list : ~(list[i].pid = p /\ list[i].level = l)
        BY <1>3, <2>6, <3>2 DEF Has
      <4>2. \A i \in DOMAIN new :
              new[i].pid = p /\ new[i].level = l => new[i].cnt = 1
        BY <2>2, <2>3, <2>4, <4>1
      <4>3. new[Len(list) + 1].pid = p /\ new[Len(list) + 1].level = l
        BY <2>2, <2>3, <3>2
      <4>4. n + (IF p = pid /\ l = level THEN 1 ELSE 0) = 1
        BY <3>2, <4>1
      <4> QED
        BY <3>1, <4>2, <4>3, <4>4 DEF Has
    <3>3. CASE ~(p = pid /\ l = level)
      <4>1. \A i \in DOMAIN new :
              new[i].pid = p /\ new[i].level = l => i \in DOMAIN list /\ new[i] = list[i]
        BY <2>2, <2>3, <2>4, <3>3
      <4>2. n + (IF p = pid /\ l = level THEN 1 ELSE 0) = n
        BY <3>3
      <4>3. \A i \in DOMAIN new : new[i].pid = p /\ new[i].level = l => new[i].cnt = n
        BY <2>6, <4>1 DEF Has
      <4>4. n # 0 => \E i \in DOMAIN new : new[i].pid = p /\ new[i].level = l
        BY <2>3, <2>6, <3>1 DEF Has
      <4> QED
        BY <4>2, <4>3, <4>4 DEF Has
    <3> QED
      BY <3>2, <3>3
  <2> QED
    BY <2>3, <2>5, <2>6 DEF new
<1> QED
  BY <1>2, <1>3

\* The counts of a list are those of what was printed.
LEMMA PidsAreHad ==
  ASSUME NEW fs, NEW ts, NEW n \in Nat, DOMAIN ts = 1..n, NEW list \in Seq(PidEntry),
         \A k \in 1..n : At(fs, ts[k]).pid \in Nat
  PROVE  PidsAre(fs, ts, list) <=>
           /\ Distinct(list)
           /\ \A p \in Nat, l \in {0, 1} : Has(list, p, l, Cardinality(WithOf(fs, ts, p, l)))
<1>1. \A i \in DOMAIN list : list[i].pid \in Nat /\ list[i].level \in {0, 1}
  <2>1. \A i \in DOMAIN list : list[i] \in PidEntry
    BY ElementOfSeq, LenProperties
  <2> QED
    BY <2>1 DEF PidEntry
<1>2. ASSUME NEW p, NEW l
      PROVE  Cardinality(WithOf(fs, ts, p, l)) = 0 <=> WithOf(fs, ts, p, l) = {}
  <2>1. WithOf(fs, ts, p, l) \in SUBSET (1..n)
    BY DEF WithOf
  <2>2. IsFiniteSet(WithOf(fs, ts, p, l))
    BY <2>1, FS_Interval, FS_Subset
  <2> QED
    BY <2>2, FS_EmptySet
<1>3. ASSUME PidsAre(fs, ts, list), NEW p \in Nat, NEW l \in {0, 1}
      PROVE  Has(list, p, l, Cardinality(WithOf(fs, ts, p, l)))
  <2>1. ASSUME Cardinality(WithOf(fs, ts, p, l)) # 0
        PROVE  \E i \in DOMAIN list : list[i].pid = p /\ list[i].level = l
    <3>1. PICK k \in WithOf(fs, ts, p, l) : TRUE
      BY <1>2, <2>1
    <3>2. k \in DOMAIN ts /\ At(fs, ts[k]).pid = p
      BY <3>1 DEF WithOf
    <3>3. WithOf(fs, ts, At(fs, ts[k]).pid, l) # {}
      BY <3>1, <3>2
    <3> QED
      BY <1>3, <3>2, <3>3 DEF PidsAre
  <2>2. \A i \in DOMAIN list : list[i].pid = p /\ list[i].level = l =>
          list[i].cnt = Cardinality(WithOf(fs, ts, p, l))
    BY <1>3 DEF PidsAre
  <2> QED
    BY <2>1, <2>2 DEF Has
<1>4. ASSUME Distinct(list),
             \A p \in Nat, l \in {0, 1} : Has(list, p, l, Cardinality(WithOf(fs, ts, p, l)))
      PROVE  PidsAre(fs, ts, list)
  <2>1. \A i \in DOMAIN list :
          list[i].cnt = Cardinality(WithOf(fs, ts, list[i].pid, list[i].level))
    BY <1>1, <1>4 DEF Has
  <2>2. ASSUME NEW k \in DOMAIN ts, NEW level \in {0, 1},
               WithOf(fs, ts, At(fs, ts[k]).pid, level) # {}
        PROVE  \E i \in DOMAIN list : list[i].pid = At(fs, ts[k]).pid /\ list[i].level = level
    <3>1. PICK p \in Nat : p = At(fs, ts[k]).pid
      OBVIOUS
    <3>2. Cardinality(WithOf(fs, ts, p, level)) # 0
      BY <1>2, <2>2, <3>1
    <3>3. Has(list, p, level, Cardinality(WithOf(fs, ts, p, level)))
      BY <1>4
    <3> QED
      BY <3>1, <3>2, <3>3 DEF Has
  <2> QED
    BY <1>4, <2>1, <2>2 DEF PidsAre, Distinct
<1>5. PidsAre(fs, ts, list) => Distinct(list)
  BY DEF PidsAre, Distinct
<1> QED
  BY <1>3, <1>4, <1>5

\* The packets of a file behind the current one.
Behind(n, a, b) == {[file |-> n, packet |-> p] : p \in a..b}

\* There are as many of them as there are numbers between.
LEMMA BehindCounted ==
  ASSUME NEW n, NEW a \in Nat, NEW b \in Nat, a <= b + 1
  PROVE  /\ IsFiniteSet(Behind(n, a, b)) /\ Cardinality(Behind(n, a, b)) = b - a + 1
         /\ \A t \in Behind(n, a, b) : t.file = n
<1> DEFINE f == [p \in a..b |-> [file |-> n, packet |-> p]]
<1>1. f \in Bijection(a..b, Behind(n, a, b))
  <2>1. f \in [a..b -> Behind(n, a, b)]
    BY DEF Behind
  <2>2. \A p, q \in a..b : f[p] = f[q] => p = q
    OBVIOUS
  <2>3. \A t \in Behind(n, a, b) : \E p \in a..b : f[p] = t
    BY DEF Behind
  <2> QED
    BY <2>1, <2>2, <2>3 DEF Bijection, Injection, Surjection, IsInjective
<1>2. ExistsBijection(a..b, Behind(n, a, b))
  BY <1>1 DEF ExistsBijection
<1>3. IsFiniteSet(a..b) /\ Cardinality(a..b) = b - a + 1
  BY FS_Interval
<1> QED
  BY <1>2, <1>3, FS_Bijection DEF Behind

\* A packet is printed: it is the next of its file. It is counted with its PID, once or
\* twice; those left out as padding are those behind it.
LEMMA ShowKeeps ==
  ASSUME TsInv, Ts!Show
  PROVE  TsInv'
<1> DEFINE t == [file |-> fileNo, packet |-> ptp]
           tn == Len(told)
<1>1. /\ AlignedUnit \in Nat \ {0} /\ fileNo \in 1..Len(files) /\ Ts!File \in StreamFile
      /\ Ts!File.packets \in Seq(StreamPacket)
      /\ Ts!Packets \in Nat /\ ptp \in 1..(Ts!Packets + 1) /\ Len(files) \in Nat \ {0}
      /\ cnt \in 0..(AlignedUnit - 1)
  BY FileTypes DEF TsInv, StreamTypes, Ts!TypeOK
<1>2. /\ tsPc = "show" /\ ptp <= Ts!Packets /\ tsPc' = "show" /\ told' = Append(told, t)
      /\ cnt' = (cnt + 1) % AlignedUnit
      /\ files' = files /\ fileNo' = fileNo /\ aligned_units' = aligned_units
  BY DEF Ts!Show, Ts!More
<1>3. ptp \in 1..Ts!Packets /\ Ts!Packet \in StreamPacket
  BY <1>1, <1>2, FileTypes DEF TsInv, Ts!Packet
<1>4. /\ Ts!LeftOf(fileNo) = {} /\ Ts!Accepted(Ts!File)
      /\ Cardinality(Ts!ToldOf(fileNo)) + Cardinality(Ts!LeftOf(fileNo)) = ptp - 1
  BY <1>2 DEF TsInv, Position
<1>5. \/ /\ pads' \in Nat /\ left' = left /\ ptp' = ptp + 1
      \/ /\ pads' \in Nat /\ left' = left \cup Behind(fileNo, ptp + 1, Ts!Packets)
         /\ ptp' = Ts!Packets + 1
  <2>1. pads \in Nat /\ Ts!PadsToEnd \in Nat
    BY <1>1, <1>3 DEF TsInv, Ts!TypeOK, Ts!PadsToEnd
  <2>2. CASE Ts!Packet.pad /\ Ts!PadsToEnd > 0
    BY <2>1, <2>2 DEF Ts!Show, Behind
  <2>3. CASE ~(Ts!Packet.pad /\ Ts!PadsToEnd > 0)
    BY <2>1, <2>3 DEF Ts!Show
  <2> QED
    BY <2>2, <2>3
<1>6. /\ tn \in Nat /\ DOMAIN told = 1..tn /\ DOMAIN told' = 1..(tn + 1)
      /\ t \in [file : Nat, packet : Nat] /\ told' \in Seq([file : Nat, packet : Nat])
      /\ \A k \in 1..tn : told'[k] = told[k]
      /\ told'[tn + 1] = t /\ tn + 1 \notin 1..tn
  <2>1. t \in [file : Nat, packet : Nat] /\ told \in Seq([file : Nat, packet : Nat])
    BY <1>1, <1>3 DEF TsInv, Kept
  <2> HIDE DEF t
  <2> QED
    BY <1>2, <2>1, AppendProperties, LenProperties
<1> HIDE DEF tn
<1>7. \A k \in DOMAIN told' : k \in DOMAIN told \/ k = tn + 1
  BY <1>6
<1>71. ASSUME NEW k \in 1..tn
       PROVE  /\ told[k].file \in 1..fileNo /\ told[k].file \in 1..Len(files)
              /\ told[k].packet \in 1..Len(files[told[k].file].packets)
  <2>1. /\ told[k].file \in 1..fileNo
        /\ told[k].packet \in 1..Len(files[told[k].file].packets)
    BY <1>6 DEF TsInv, Kept
  <2> QED
    BY <1>1, <2>1
<1>72. ASSUME NEW k \in 1..(tn + 1)
       PROVE  /\ told'[k].file \in 1..fileNo /\ told'[k].file \in 1..Len(files)
              /\ told'[k].packet \in 1..Len(files[told'[k].file].packets)
  <2>1. CASE k \in 1..tn
    BY <1>6, <1>71, <2>1
  <2>2. CASE k = tn + 1
    <3>1. told'[k].file = fileNo /\ told'[k].packet = ptp
      BY <1>6, <2>2
    <3>2. Len(files[fileNo].packets) = Ts!Packets
      BY DEF Ts!File, Ts!Packets
    <3> QED
      BY <1>1, <1>3, <3>1, <3>2
  <2> QED
    BY <1>6, <2>1, <2>2
<1>8. /\ IsFiniteSet(Behind(fileNo, ptp + 1, Ts!Packets))
      /\ Cardinality(Behind(fileNo, ptp + 1, Ts!Packets)) = Ts!Packets - ptp
      /\ \A x \in Behind(fileNo, ptp + 1, Ts!Packets) : x.file = fileNo
  <2>1. ptp + 1 \in Nat /\ ptp + 1 <= Ts!Packets + 1 /\ Ts!Packets - (ptp + 1) + 1 = Ts!Packets - ptp
    BY <1>1, <1>3
  <2> QED
    BY <1>1, <2>1, BehindCounted
<1>9. StreamTypes'
  BY DEF TsInv, StreamTypes
<1>10. Kept'
  <2>1. \A k \in DOMAIN told' : /\ told'[k].file \in 1..fileNo
                                /\ told'[k].packet \in 1..Len(files[told'[k].file].packets)
    BY <1>6, <1>72
  <2>2. IsFiniteSet(left') /\ \A x \in left' : x.file \in 1..fileNo
    <3>1. IsFiniteSet(left) /\ (\A x \in left : x.file \in 1..fileNo) /\ fileNo \in 1..fileNo
      BY <1>1 DEF TsInv, Kept
    <3>2. IsFiniteSet(left \cup Behind(fileNo, ptp + 1, Ts!Packets))
      BY <1>8, <3>1, FS_Union
    <3> QED
      BY <1>5, <1>8, <3>1, <3>2
  <2> QED
    BY <1>2, <1>6, <2>1, <2>2 DEF TsInv, Kept
<1>11. pidlist \in Seq(PidEntry)
  BY DEF TsInv, Ts!TypeOK, PidEntry
<1>12. /\ Ts!PacketAt(t) = Ts!Packet /\ At(files, t) = Ts!Packet /\ Ts!Packet.pid \in Nat
       /\ Ts!Packet.payload \in BOOLEAN
  BY <1>3 DEF Ts!PacketAt, At, Ts!Packet, Ts!File, StreamPacket
<1>13. pidlist' \in Seq(PidEntry) /\ Ts!PidsCounted'
  <2>1. /\ Distinct(pidlist)
        /\ \A p \in Nat, l \in {0, 1} :
             Has(pidlist, p, l, Cardinality(WithOf(files, told, p, l)))
    <3>1. \A k \in 1..tn : At(files, told[k]).pid \in Nat
      <4>1. ASSUME NEW k \in 1..tn PROVE At(files, told[k]).pid \in Nat
        <5>1. /\ told[k].file \in 1..Len(files)
              /\ told[k].packet \in 1..Len(files[told[k].file].packets)
          BY <1>71
        <5>2. files[told[k].file] \in StreamFile
          BY <5>1, ElementOfSeq DEF TsInv, Kept
        <5>3. At(files, told[k]) \in StreamPacket
          BY <5>1, <5>2, ElementOfSeq DEF At, StreamFile
        <5> QED
          BY <5>3 DEF StreamPacket
      <4> QED
        BY <4>1
    <3>2. PidsAre(files, told, pidlist)
      BY PidsAreCounted DEF TsInv
    <3>3. PidsAre(files, told, pidlist) <=>
            /\ Distinct(pidlist)
            /\ \A p \in Nat, l \in {0, 1} :
                 Has(pidlist, p, l, Cardinality(WithOf(files, told, p, l)))
      <4>1. tn \in Nat /\ DOMAIN told = 1..tn
        BY <1>6
      <4> QED
        BY <1>11, <3>1, <4>1, PidsAreHad
    <3> QED
      BY <3>2, <3>3
  <2> DEFINE once == Ts!Added(pidlist, Ts!Packet.pid, 0)
             twice == Ts!Added(once, Ts!Packet.pid, 1)
             one(p, l) == IF p = Ts!Packet.pid /\ l = 0 THEN 1 ELSE 0
             two(p, l) == IF p = Ts!Packet.pid /\ l = 1 THEN 1 ELSE 0
             more(p, l) == IF p = Ts!Packet.pid /\ (l = 1 => ~Ts!Packet.payload) THEN 1 ELSE 0
  <2>2. pidlist' = IF Ts!Packet.payload THEN once ELSE twice
    BY DEF Ts!Show
  <2>3. /\ once \in Seq(PidEntry) /\ Distinct(once)
        /\ \A p \in Nat, l \in {0, 1}, n \in Nat :
             Has(pidlist, p, l, n) => Has(once, p, l, n + one(p, l))
    BY <1>11, <1>12, <2>1, AddedCounts
  <2> HIDE DEF once
  <2>4. /\ twice \in Seq(PidEntry) /\ Distinct(twice)
        /\ \A p \in Nat, l \in {0, 1}, n \in Nat :
             Has(once, p, l, n) => Has(twice, p, l, n + two(p, l))
    BY <1>12, <2>3, AddedCounts
  <2> HIDE DEF twice
  <2>5. ASSUME NEW p \in Nat, NEW l \in {0, 1}
        PROVE  /\ Cardinality(WithOf(files, told, p, l)) \in Nat
               /\ Cardinality(WithOf(files, told', p, l)) =
                    Cardinality(WithOf(files, told, p, l)) + more(p, l)
    <3> DEFINE W == WithOf(files, told, p, l)
               c == p = Ts!Packet.pid /\ (l = 1 => ~Ts!Packet.payload)
    <3>1. W \in SUBSET (1..tn) /\ c \in BOOLEAN
      BY <1>6 DEF WithOf
    <3>2. WithOf(files, told', p, l) = W \cup (IF c THEN {tn + 1} ELSE {})
      BY <1>6, <1>7, <1>12 DEF WithOf
    <3> HIDE DEF W, c
    <3>3. /\ Cardinality(W) \in Nat
          /\ Cardinality(W \cup (IF c THEN {tn + 1} ELSE {})) =
               Cardinality(W) + (IF c THEN 1 ELSE 0)
      BY <1>6, <3>1, OnePosition
    <3> QED
      BY <3>2, <3>3 DEF W, c
  <2>6. Distinct(pidlist') /\ pidlist' \in Seq(PidEntry)
    BY <2>2, <2>3, <2>4
  <2>7. ASSUME NEW p \in Nat, NEW l \in {0, 1}
        PROVE  Has(pidlist', p, l, Cardinality(WithOf(files, told', p, l)))
    <3>1. PICK n \in Nat : n = Cardinality(WithOf(files, told, p, l))
      BY <2>5
    <3>2. Has(once, p, l, n + one(p, l)) /\ n + one(p, l) \in Nat
      BY <2>1, <2>3, <3>1
    <3>3. Has(twice, p, l, n + one(p, l) + two(p, l))
      BY <2>4, <3>2
    <3>4. CASE Ts!Packet.payload
      <4>1. n + one(p, l) = n + more(p, l)
        BY <3>4
      <4> QED
        BY <2>2, <2>5, <3>1, <3>2, <3>4, <4>1
    <3>5. CASE ~Ts!Packet.payload
      <4>1. n + one(p, l) + two(p, l) = n + more(p, l)
        BY <3>5
      <4> QED
        BY <2>2, <2>5, <3>1, <3>3, <3>5, <4>1
    <3> QED
      BY <3>4, <3>5
  <2>8. \A k \in 1..(tn + 1) : At(files, told'[k]).pid \in Nat
    <3>1. ASSUME NEW k \in 1..(tn + 1) PROVE At(files, told'[k]).pid \in Nat
      <4>1. /\ told'[k].file \in 1..Len(files)
            /\ told'[k].packet \in 1..Len(files[told'[k].file].packets)
        BY <1>72
      <4>2. files[told'[k].file] \in StreamFile
        BY <4>1, ElementOfSeq DEF TsInv, Kept
      <4>3. At(files, told'[k]) \in StreamPacket
        BY <4>1, <4>2, ElementOfSeq DEF At, StreamFile
      <4> QED
        BY <4>3 DEF StreamPacket
    <3> QED
      BY <3>1
  <2>9. PidsAre(files, told', pidlist')
    <3>1. tn + 1 \in Nat
      BY <1>6
    <3> QED
      BY <1>6, <2>6, <2>7, <2>8, <3>1, PidsAreHad
  <2> QED
    BY <1>2, <2>6, <2>9, PidsAreCountedNext
<1>14. Ts!TypeOK'
  <2>1. Ts!Packets' = Ts!Packets
    BY <1>2 DEF Ts!Packets, Ts!File
  <2>2. ptp' \in 1..(Ts!Packets + 1)
    BY <1>1, <1>3, <1>5
  <2>3. cnt' \in 0..(AlignedUnit - 1)
    <3>1. cnt + 1 \in Nat
      BY <1>1
    <3> QED
      BY <1>1, <1>2, <3>1, Division
  <2> QED
    BY <1>1, <1>2, <1>5, <1>13, <2>1, <2>2, <2>3 DEF TsInv, Ts!TypeOK, PidEntry
<1>15. /\ Ts!ToldOf(fileNo) \in SUBSET (1..tn)
       /\ (Ts!ToldOf(fileNo))' = Ts!ToldOf(fileNo) \cup {tn + 1}
       /\ Cardinality(Ts!ToldOf(fileNo)) = ptp - 1 /\ Cardinality((Ts!ToldOf(fileNo))') = ptp
       /\ \A n : n # fileNo => Ts!ToldOf(n)' = Ts!ToldOf(n)
  <2>1. Ts!ToldOf(fileNo) \in SUBSET (1..tn)
    BY <1>6 DEF Ts!ToldOf
  <2>2. (Ts!ToldOf(fileNo))' = Ts!ToldOf(fileNo) \cup {tn + 1}
    BY <1>2, <1>6, <1>7 DEF Ts!ToldOf
  <2>3. \A n : n # fileNo => Ts!ToldOf(n)' = Ts!ToldOf(n)
    BY <1>6, <1>7 DEF Ts!ToldOf
  <2>4. Cardinality(Ts!ToldOf(fileNo)) \in Nat
    BY <1>6, <2>1, OnePosition
  <2>5. Cardinality(Ts!ToldOf(fileNo)) = ptp - 1
    BY <1>1, <1>4, <2>4, FS_EmptySet
  <2>6. Cardinality(Ts!ToldOf(fileNo) \cup {tn + 1}) = Cardinality(Ts!ToldOf(fileNo)) + 1
    <3>1. IsFiniteSet(Ts!ToldOf(fileNo)) /\ tn + 1 \notin Ts!ToldOf(fileNo)
      BY <1>6, <2>1, OnePosition
    <3> QED
      BY <3>1, FS_AddElement
  <2> QED
    BY <1>1, <2>1, <2>2, <2>3, <2>5, <2>6
<1>16. /\ \/ ptp' = ptp + 1 /\ (Ts!LeftOf(fileNo))' = {}
          \/ ptp' = Ts!Packets + 1 /\ (Ts!LeftOf(fileNo))' = Behind(fileNo, ptp + 1, Ts!Packets)
       /\ \A n : n # fileNo => Ts!LeftOf(n)' = Ts!LeftOf(n)
  BY <1>2, <1>4, <1>5, <1>8 DEF Ts!LeftOf
<1>17. Position'
  <2>1. /\ ptp' <= Ts!Packets => (Ts!LeftOf(fileNo))' = {}
        /\ Cardinality((Ts!ToldOf(fileNo))') + Cardinality((Ts!LeftOf(fileNo))') = ptp' - 1
    <3>1. CASE ptp' = ptp + 1 /\ (Ts!LeftOf(fileNo))' = {}
      BY <1>1, <1>15, <3>1, FS_EmptySet
    <3>2. CASE ptp' = Ts!Packets + 1 /\ (Ts!LeftOf(fileNo))' = Behind(fileNo, ptp + 1, Ts!Packets)
      BY <1>1, <1>8, <1>15, <3>2
    <3> QED
      BY <1>16, <3>1, <3>2
  <2>2. Ts!File' = Ts!File /\ Ts!Packets' = Ts!Packets /\ (Ts!Accepted(Ts!File))' = Ts!Accepted(Ts!File)
    BY <1>2 DEF Ts!File, Ts!Packets, Ts!Accepted
  <2> QED
    BY <1>2, <1>4, <2>1, <2>2 DEF Position
<1>18. UnitInv'
  <2>1. UnitsHere' = UnitsHere
    BY <1>2 DEF UnitsHere, Ts!File
  <2> QED
    BY <1>2, <2>1 DEF TsInv, UnitInv
<1>19. Ts!PacketsShown'
  <2>1. \A f : Ts!Accepted(f)' = Ts!Accepted(f)
    BY DEF Ts!Accepted
  <2>2. ASSUME NEW k \in Ts!ToldOf(fileNo)'
        PROVE  told'[k].packet = Cardinality({j \in Ts!ToldOf(fileNo)' : j <= k})
    <3>1. CASE k = tn + 1
      <4>1. {j \in Ts!ToldOf(fileNo)' : j <= k} = Ts!ToldOf(fileNo)'
        BY <1>6, <1>15, <3>1
      <4>2. told'[k].packet = ptp
        BY <1>6, <3>1
      <4> QED
        BY <1>15, <4>1, <3>1, <4>2
    <3>2. CASE k # tn + 1
      <4>1. k \in Ts!ToldOf(fileNo) /\ k \in 1..tn
        BY <1>15, <2>2, <3>2
      <4>2. {j \in Ts!ToldOf(fileNo)' : j <= k} = {j \in Ts!ToldOf(fileNo) : j <= k}
        BY <1>6, <1>15, <4>1
      <4> QED
        BY <1>1, <1>6, <4>1, <4>2, SameCardinality DEF TsInv, Ts!PacketsShown
    <3> QED
      BY <3>1, <3>2
  <2>3. ASSUME NEW n \in 1..Len(files), n # fileNo
        PROVE  /\ \A k \in Ts!ToldOf(n)' : told'[k].packet = Cardinality({j \in Ts!ToldOf(n)' : j <= k})
               /\ Ts!ToldOf(n)' # {} => Ts!Accepted(files[n])
               /\ (n < fileNo' \/ tsPc' = "done") /\ Ts!Accepted(files[n]) =>
                    Cardinality(Ts!ToldOf(n)') + Cardinality(Ts!LeftOf(n)') = Len(files[n].packets)
    <3>1. Ts!ToldOf(n)' = Ts!ToldOf(n) /\ Ts!LeftOf(n)' = Ts!LeftOf(n)
      BY <1>15, <1>16, <2>3
    <3>2. \A k \in Ts!ToldOf(n) : told'[k] = told[k]
      BY <1>6 DEF Ts!ToldOf
    <3> QED
      BY <1>2, <3>1, <3>2, SameCardinality DEF TsInv, Ts!PacketsShown
  <2>4. Ts!Accepted(files[fileNo]) /\ ~(fileNo < fileNo') /\ tsPc' # "done"
    BY <1>1, <1>2, <1>4 DEF Ts!File
  <2> QED
    BY <1>2, <2>1, <2>2, <2>3, <2>4, SameCardinality DEF Ts!PacketsShown
<1> QED
  BY <1>9, <1>10, <1>13, <1>14, <1>17, <1>18, <1>19 DEF TsInv

\* What a stream's file is like stays when nothing happens.
LEMMA StutterTs ==
  ASSUME TsInv, UNCHANGED Ts!tsVars
  PROVE  TsInv'
<1>1. UNCHANGED <<files, fileNo, tsPc, ptp, cnt, aligned_units, pidlist, pads, told, left>>
  BY DEF Ts!tsVars
<1>2. /\ Ts!File' = Ts!File /\ Ts!Packets' = Ts!Packets /\ UnitsHere' = UnitsHere
      /\ \A n : Ts!ToldOf(n)' = Ts!ToldOf(n) /\ Ts!LeftOf(n)' = Ts!LeftOf(n)
      /\ \A f : Ts!Accepted(f)' = Ts!Accepted(f)
  BY <1>1 DEF Ts!File, Ts!Packets, UnitsHere, Ts!ToldOf, Ts!LeftOf, Ts!Accepted
<1>3. StreamTypes' /\ Ts!TypeOK' /\ Kept' /\ UnitInv'
  BY <1>1, <1>2 DEF TsInv, StreamTypes, Ts!TypeOK, Kept, UnitInv
<1>4. Position'
  BY <1>1, <1>2 DEF TsInv, Position
<1>5. Ts!PacketsShown'
  BY <1>1, <1>2, SameCardinality DEF TsInv, Ts!PacketsShown
<1>6. Ts!PidsCounted'
  BY <1>1, PidsStay DEF TsInv
<1> QED
  BY <1>3, <1>4, <1>5, <1>6 DEF TsInv

\* Every step keeps all of it.
LEMMA StepTs == TsInv /\ [Ts!Next]_(Ts!tsVars) => TsInv'
BY RefuseKeeps, LookKeeps, AcceptKeeps, ShowKeeps, TotalKeeps, StutterTs DEF Ts!Next

\* What is counted holds in every state.
LEMMA CountedAlways == TsInv => Ts!StreamsCounted
<1> SUFFICES ASSUME TsInv PROVE Ts!UnitsCounted
  BY DEF TsInv, Ts!StreamsCounted
<1> SUFFICES ASSUME tsPc = "done", \A n \in 1..(Len(files) - 1) : Ts!UnitsOf(files[n]) = 0
             PROVE  aligned_units = Ts!UnitsOf(files[Len(files)])
  BY DEF Ts!UnitsCounted
<1>1. Len(files) \in Nat \ {0} /\ fileNo = Len(files)
  BY FileTypes DEF TsInv, Position
<1>2. UnitsHere = Ts!UnitsOf(files[Len(files)])
  BY <1>1 DEF UnitsHere, Ts!File, Ts!UnitsOf
<1>3. UnitsHere \in Nat
  <2>1. Ts!File \in StreamFile
    BY FileTypes DEF TsInv
  <2>2. Ts!Synced(Ts!File) \in Nat
    BY <2>1, SyncedIsNumber
  <2> QED
    BY <2>2, Division, StreamsAssumption DEF UnitsHere, StreamTypes
<1>4. aligned_units = Cardinality(UnitsTo(files, Len(files), UnitsHere))
  BY <1>1 DEF TsInv, UnitInv
<1> QED
  BY <1>1, <1>2, <1>3, <1>4, UnitsOfLast

-------------------------------------------------------------------------------
(* VOS tables *)

\* The list has the sizes that were come to so far, in order, at which a block is ended and
\* which divide the file, and their counts.
Fits(size) == Vos!PairAt(size) /\ Vos!Divides(size)
Sizes ==
  /\ \A k \in DOMAIN v_sBlks :
       /\ v_sBlks[k].size \in 2..(dwi - 1) /\ v_sBlks[k].size >= 2 * k
       /\ Fits(v_sBlks[k].size) /\ v_sBlks[k].cnt = Vos!Fitting(v_sBlks[k].size)
  /\ \A j, k \in DOMAIN v_sBlks : j < k => v_sBlks[j].size < v_sBlks[k].size
  /\ \A size \in 2..(dwi - 1) : Fits(size) => \E k \in DOMAIN v_sBlks : v_sBlks[k].size = size

Printed ==
  /\ Len(printed) = dwb - 1 /\ printed \in Seq([size : Nat, cnt : Nat, times : SUBSET Nat])
  /\ \A k \in DOMAIN printed :
       /\ printed[k].size = v_sBlks[k].size /\ printed[k].cnt = v_sBlks[k].cnt
       /\ printed[k].times = Vos!Times(k)

VosInv ==
  /\ lpb \in Seq({"cr", "lf", "x"}) /\ Vos!TypeOK /\ Sizes /\ Printed
  /\ vosPc \in {"scan", "show", "shown"} => Vos!IsVosTab
  /\ vosPc \in {"show", "shown"} => dwi = Vos!rd + 1
  /\ vosPc = "shown" => dwb = Len(v_sBlks) + 1
  /\ vosPc = "declined" => \A size \in 2..Vos!rd : ~Vos!IsBlock(size)

-------------------------------------------------------------------------------

\* A size that divides the file is at most half of it.
LEMMA Halves ==
  ASSUME NEW n \in Nat, NEW size \in Nat \ {0}, size < n, n % size = 0
  PROVE  /\ n \div size \in Nat /\ n \div size >= 2 /\ size * (n \div size) = n
         /\ (n \div size) * size = n /\ 2 * size <= n
<1>1. PICK q \in Nat : q = n \div size
  OBVIOUS
<1>2. n = size * q
  BY <1>1
<1>3. q # 0 /\ q # 1
  BY <1>2
<1>4. q >= 2
  BY <1>3
<1>5. PICK r \in Nat : q = r + 2
  BY <1>4
<1>6. size * q = size * r + 2 * size /\ size * r >= 0
  BY <1>5
<1> QED
  BY <1>1, <1>2, <1>4, <1>6

\* The bytes are those of a sequence, and two sizes at which a pair ends are not neighbours.
LEMMA Pairs ==
  ASSUME lpb \in Seq({"cr", "lf", "x"})
  PROVE  /\ Vos!rd \in Nat
         /\ \A n \in Nat : ~(Vos!PairAt(n) /\ Vos!PairAt(n + 1))
         /\ \A n \in Nat : Vos!PairAt(n) => n >= 2
<1>1. Vos!rd \in Nat
  BY LenProperties DEF Vos!rd
<1>2. \A n \in Nat : ~(Vos!PairAt(n) /\ Vos!PairAt(n + 1))
  BY DEF Vos!PairAt
<1> QED
  BY <1>1, <1>2 DEF Vos!PairAt

\* The count of a size: the blocks up to the first that is not ended, or to the last one.
LEMMA FittingIs ==
  ASSUME NEW n \in Nat, n = Vos!rd, NEW size \in Nat \ {0}, size <= n
  PROVE  LET q == n \div size
         IN  /\ Vos!Fitting(size) \in 1..q
             /\ \A k \in 1..(Vos!Fitting(size) - 1) : Vos!PairAt(k * size)
             /\ Vos!Fitting(size) = q \/ ~Vos!PairAt(Vos!Fitting(size) * size)
<1> DEFINE q == n \div size
<1>1. q \in Nat /\ q >= 1
  <2>1. PICK x \in Nat : x = q
    OBVIOUS
  <2>2. n = size * x + (n % size) /\ n % size < size
    BY <2>1
  <2>3. x # 0
    BY <2>2
  <2> QED
    BY <2>1, <2>3
<1> HIDE DEF q
<1> DEFINE T == {m \in 1..q : m = q \/ ~Vos!PairAt(m * size)}
<1>2. PICK m \in T : \A k \in T : m <= k
  <2>1. T \in SUBSET Nat /\ q \in T
    BY <1>1
  <2> HIDE DEF T
  <2> QED
    BY <2>1, LeastNumber
<1>3. \A k \in 1..(m - 1) : Vos!PairAt(k * size)
  BY <1>1, <1>2
<1>4. \E x \in 1..q : /\ \A k \in 1..(x - 1) : Vos!PairAt(k * size)
                      /\ x = q \/ ~Vos!PairAt(x * size)
  BY <1>2, <1>3
<1>5. Vos!rd \div size = q
  BY DEF q
<1>6. /\ Vos!Fitting(size) \in 1..q
      /\ \A k \in 1..(Vos!Fitting(size) - 1) : Vos!PairAt(k * size)
      /\ Vos!Fitting(size) = q \/ ~Vos!PairAt(Vos!Fitting(size) * size)
  BY <1>4, <1>5 DEF Vos!Fitting
<1> QED
  BY <1>6 DEF q

\* What the list says of a size, once it is found.
LEMMA SizeOf ==
  ASSUME VosInv, NEW k \in DOMAIN v_sBlks
  PROVE  /\ v_sBlks[k].size \in 2..Vos!rd /\ v_sBlks[k].size \in Nat \ {0}
         /\ Vos!rd \in Nat /\ Vos!Divides(v_sBlks[k].size) /\ Vos!PairAt(v_sBlks[k].size)
         /\ v_sBlks[k].cnt = Vos!Fitting(v_sBlks[k].size)
<1>1. Vos!rd \in Nat /\ dwi \in 1..(Vos!rd + 1)
  BY Pairs DEF VosInv, Vos!TypeOK
<1>2. /\ v_sBlks[k].size \in 2..(dwi - 1) /\ Fits(v_sBlks[k].size)
      /\ v_sBlks[k].cnt = Vos!Fitting(v_sBlks[k].size)
  BY DEF VosInv, Sizes
<1> QED
  BY <1>1, <1>2 DEF Fits

\* The files are looked at from their first byte.
LEMMA InitVos == TableTypes /\ Vos!Init => VosInv
<1> SUFFICES ASSUME TableTypes, Vos!Init PROVE VosInv
  OBVIOUS
<1>1. lpb \in Seq({"cr", "lf", "x"})
  BY DEF TableTypes, Vos!Init
<1>2. Vos!rd \in Nat
  BY <1>1, Pairs
<1>3. Len(v_sBlks) = 0 /\ DOMAIN v_sBlks = {} /\ Len(printed) = 0 /\ DOMAIN printed = {}
  BY DEF Vos!Init
<1>4. Vos!TypeOK
  BY <1>2, <1>3 DEF Vos!Init, Vos!TypeOK
<1>5. Sizes
  BY <1>3 DEF Sizes, Vos!Init
<1>6. Printed
  BY <1>3 DEF Printed, Vos!Init
<1> QED
  BY <1>1, <1>4, <1>5, <1>6 DEF VosInv, Vos!Init

SameTable == lpb' = lpb

\* What is said of the bytes stays as long as they do.
LEMMA TableStays ==
  ASSUME SameTable
  PROVE  /\ Vos!rd' = Vos!rd /\ Vos!IsVosTab' = Vos!IsVosTab
         /\ \A n : (Fits(n) <=> Fits(n)') /\ Vos!Fitting(n)' = Vos!Fitting(n)
         /\ \A n : Vos!IsBlock(n) <=> Vos!IsBlock(n)'
<1>1. lpb' = lpb
  BY DEF SameTable
<1>2. Vos!rd' = Vos!rd
  BY <1>1 DEF Vos!rd
<1>3. \A n : Vos!PairAt(n) <=> Vos!PairAt(n)'
  BY <1>1 DEF Vos!PairAt
<1>4. \A n : Vos!Divides(n) <=> Vos!Divides(n)'
  BY <1>2 DEF Vos!Divides
<1>5. Vos!IsVosTab' = Vos!IsVosTab
  BY <1>1 DEF Vos!IsVosTab, Vos!PairAt, Vos!rd
<1>6. \A n : Vos!Fitting(n)' = Vos!Fitting(n)
  BY <1>1 DEF Vos!Fitting, Vos!PairAt, Vos!rd
<1>7. \A n : Vos!IsBlock(n) <=> Vos!IsBlock(n)'
  BY <1>1 DEF Vos!IsBlock, Vos!AllEnded, Vos!Divides, Vos!PairAt, Vos!rd
<1> QED
  BY <1>2, <1>3, <1>4, <1>5, <1>6, <1>7 DEF Fits

\* So do the list and what is printed.
LEMMA ListStays ==
  ASSUME VosInv, SameTable, dwi' = dwi, v_sBlks' = v_sBlks
  PROVE  /\ Sizes' /\ (dwb' = dwb /\ printed' = printed => Printed')
         /\ \A k : Vos!Times(k)' = Vos!Times(k)
<1>1. \A n : (Fits(n) <=> Fits(n)') /\ Vos!Fitting(n)' = Vos!Fitting(n)
  BY TableStays
<1>2. Sizes'
  BY <1>1 DEF VosInv, Sizes
<1>3. \A k : Vos!Times(k)' = Vos!Times(k)
  BY DEF Vos!Times
<1> QED
  BY <1>2, <1>3 DEF VosInv, Printed

\* A file that does not end in a pair has no blocks.
LEMMA CheckKeeps == VosInv /\ Vos!Check => VosInv'
<1> SUFFICES ASSUME VosInv, Vos!Check PROVE VosInv'
  OBVIOUS
<1>1. SameTable /\ UNCHANGED <<lpb, dwi, v_sBlks, dwb, printed>>
  BY DEF Vos!Check, SameTable
<1>2. Vos!rd \in Nat
  BY Pairs DEF VosInv
<1>3. ASSUME NEW size \in 2..Vos!rd, Vos!IsBlock(size) PROVE Vos!IsVosTab
  <2>1. PICK n \in Nat, s \in Nat \ {0} : n = Vos!rd /\ s = size /\ s >= 2
    BY <1>2
  <2>2. s < n /\ n % s = 0
    BY <1>3, <2>1 DEF Vos!IsBlock, Vos!Divides
  <2>3. n \div s \in Nat /\ n \div s >= 1 /\ (n \div s) * s = n
    BY <2>2, Halves
  <2>4. Vos!PairAt((n \div s) * s)
    <3>1. n \div s \in 1..(n \div s)
      BY <2>3
    <3> QED
      BY <1>3, <2>1, <3>1 DEF Vos!IsBlock, Vos!AllEnded
  <2> QED
    BY <2>1, <2>2, <2>3, <2>4 DEF Vos!IsVosTab
<1>4. vosPc' \in {"scan", "declined"} /\ (vosPc' = "scan" <=> Vos!IsVosTab)
  BY DEF Vos!Check
<1>5. Vos!TypeOK'
  BY <1>1, <1>4, TableStays DEF VosInv, Vos!TypeOK
<1>6. Sizes' /\ Printed'
  BY <1>1, ListStays DEF VosInv
<1> QED
  BY <1>1, <1>3, <1>4, <1>5, <1>6, TableStays DEF VosInv

\* A size that fits is put in the list: there is room for it.
LEMMA ScanKeeps == VosInv /\ Vos!Scan => VosInv'
<1> SUFFICES ASSUME VosInv, Vos!Scan PROVE VosInv'
  OBVIOUS
<1>1. SameTable /\ UNCHANGED <<lpb, vosPc, dwb, printed>> /\ dwi' = dwi + 1 /\ vosPc = "scan"
  BY DEF Vos!Scan, SameTable
<1>2. PICK n \in Nat, d \in Nat : n = Vos!rd /\ d = dwi /\ d \in 1..n
  BY Pairs DEF VosInv, Vos!TypeOK, Vos!Scan
<1>3. v_sBlks \in Seq([size : 1..n, cnt : 1..n]) /\ DOMAIN v_sBlks = 1..Len(v_sBlks)
       /\ Len(v_sBlks) \in Nat /\ n >= 2
  BY <1>1, <1>2, LenProperties DEF VosInv, Vos!TypeOK, Vos!IsVosTab
<1>7. \A k \in DOMAIN v_sBlks : v_sBlks[k].size \in 1..n
  <2>1. ASSUME NEW k \in DOMAIN v_sBlks PROVE v_sBlks[k] \in [size : 1..n, cnt : 1..n]
    BY <1>3, ElementOfSeq
  <2> QED
    BY <2>1
<1>4. \A size \in Nat \ {0} : size < n => 2 * size <= n \/ n % size # 0
  BY Halves
<1>5. CASE ~Fits(d)
  <2>1. v_sBlks' = v_sBlks
    BY <1>2, <1>5 DEF Vos!Scan, Fits
  <2>2. Sizes'
    <3>1. \A size \in 2..(dwi' - 1) : Fits(size) => size \in 2..(dwi - 1)
      BY <1>1, <1>2, <1>5
    <3>2. \A k \in DOMAIN v_sBlks : v_sBlks[k].size \in 2..(dwi - 1) => v_sBlks[k].size \in 2..(dwi' - 1)
      BY <1>1, <1>2
    <3>3. \A x : (Fits(x) <=> Fits(x)') /\ Vos!Fitting(x)' = Vos!Fitting(x)
      BY <1>1, TableStays
    <3> QED
      BY <2>1, <3>1, <3>2, <3>3 DEF VosInv, Sizes
  <2>3. Printed'
    BY <1>1, <2>1 DEF VosInv, Printed, Vos!Times
  <2>4. Vos!TypeOK'
    BY <1>1, <1>2, <2>1, TableStays DEF VosInv, Vos!TypeOK
  <2> QED
    BY <1>1, <2>1, <2>2, <2>3, <2>4, TableStays DEF VosInv
<1>6. CASE Fits(d)
  <2> DEFINE new == [size |-> d, cnt |-> Vos!Fitting(d)]
  <2>1. d >= 2 /\ d < n /\ 2 * d <= n /\ n % d = 0
    BY <1>2, <1>4, <1>6, Pairs DEF VosInv, Fits, Vos!Divides
  <2>2. \A k \in DOMAIN v_sBlks : v_sBlks[k].size + 2 <= d /\ v_sBlks[k].size >= 2 * k
    <3> SUFFICES ASSUME NEW k \in DOMAIN v_sBlks
                 PROVE  v_sBlks[k].size + 2 <= d /\ v_sBlks[k].size >= 2 * k
      OBVIOUS
    <3>1. PICK s \in 2..(d - 1) : s = v_sBlks[k].size
      BY <1>2 DEF VosInv, Sizes
    <3>2. s >= 2 * k /\ Vos!PairAt(s)
      BY <3>1 DEF VosInv, Sizes, Fits
    <3>3. s + 1 # d
      BY <1>6, <3>1, <3>2, Pairs DEF VosInv, Fits
    <3> QED
      BY <2>1, <3>1, <3>2, <3>3
  <2>3. d >= 2 * (Len(v_sBlks) + 1)
    <3>1. CASE Len(v_sBlks) = 0
      BY <2>1, <3>1
    <3>2. CASE Len(v_sBlks) # 0
      <4>1. Len(v_sBlks) \in DOMAIN v_sBlks
        BY <1>3, <3>2
      <4>2. PICK s \in 1..n : s = v_sBlks[Len(v_sBlks)].size
        BY <1>7, <4>1, SMTT(30)
      <4>3. PICK l \in Nat : l = Len(v_sBlks)
        BY <1>3
      <4>4. s + 2 <= d /\ s >= 2 * l
        BY <2>2, <4>1, <4>2, <4>3, SMTT(30)
      <4>5. d >= 2 * (l + 1)
        BY <4>4
      <4> QED
        BY <4>3, <4>5
    <3> QED
      BY <3>1, <3>2
  <2>4. Vos!Room
    <3>1. PICK l \in Nat : l = Len(v_sBlks)
      BY <1>3
    <3>2. l + 1 < (n + 5) \div 3
      BY <2>1, <2>3, <3>1
    <3> QED
      BY <1>2, <3>1, <3>2 DEF Vos!Room, Vos!dwmbs
  <2>5. v_sBlks' = Append(v_sBlks, new)
    BY <1>2, <1>6, <2>4 DEF Vos!Scan, Fits
  <2>6. Vos!Fitting(d) \in 1..n
    <3>1. PICK q \in Nat : q = n \div d /\ q <= n
      <4>1. n \div d \in Nat /\ d * (n \div d) = n
        BY <2>1, Halves
      <4>2. PICK q \in Nat : q = n \div d
        BY <4>1
      <4>3. PICK r \in Nat : d = r + 1
        BY <2>1
      <4>4. d * q = r * q + q /\ r * q >= 0
        BY <4>3
      <4> QED
        BY <4>1, <4>2, <4>4
    <3>2. Vos!Fitting(d) \in 1..q
      BY <1>2, <2>1, <3>1, FittingIs
    <3> QED
      BY <3>1, <3>2
  <2>7. new \in [size : 1..n, cnt : 1..n]
    BY <1>2, <2>6
  <2> HIDE DEF new
  <2>8. /\ v_sBlks' \in Seq([size : 1..n, cnt : 1..n]) /\ Len(v_sBlks') = Len(v_sBlks) + 1
        /\ DOMAIN v_sBlks' = DOMAIN v_sBlks \cup {Len(v_sBlks) + 1}
        /\ \A k \in DOMAIN v_sBlks : v_sBlks'[k] = v_sBlks[k]
        /\ v_sBlks'[Len(v_sBlks) + 1] = new
    BY <1>3, <2>5, <2>7, AppendProperties
  <2>9. new.size = d /\ new.cnt = Vos!Fitting(d)
    BY DEF new
  <2>10. Sizes'
    <3>1. \A x : (Fits(x) <=> Fits(x)') /\ Vos!Fitting(x)' = Vos!Fitting(x)
      BY <1>1, TableStays
    <3>2. ASSUME NEW k \in DOMAIN v_sBlks'
          PROVE  /\ v_sBlks'[k].size \in 2..(dwi' - 1) /\ v_sBlks'[k].size >= 2 * k
                 /\ Fits(v_sBlks'[k].size) /\ v_sBlks'[k].cnt = Vos!Fitting(v_sBlks'[k].size)
      <4>1. CASE k = Len(v_sBlks) + 1
        BY <1>1, <1>2, <1>6, <2>1, <2>3, <2>8, <2>9, <4>1
      <4>2. CASE k \in DOMAIN v_sBlks
        BY <1>1, <1>2, <2>8, <4>2, SMTT(30) DEF VosInv, Sizes
      <4> QED
        BY <2>8, <4>1, <4>2
    <3>3. ASSUME NEW j \in DOMAIN v_sBlks', NEW k \in DOMAIN v_sBlks', j < k
          PROVE  v_sBlks'[j].size < v_sBlks'[k].size
      <4>1. CASE k = Len(v_sBlks) + 1
        <5>1. j \in DOMAIN v_sBlks /\ v_sBlks[j].size \in 1..n
          <6>1. PICK l \in Nat : l = Len(v_sBlks) /\ DOMAIN v_sBlks = 1..l
            BY <1>3
          <6>2. j \in (1..l) \cup {l + 1} /\ j < l + 1
            BY <2>8, <3>3, <4>1, <6>1
          <6> QED
            BY <1>7, <6>1, <6>2
        <5> QED
          BY <1>2, <2>2, <2>8, <2>9, <4>1, <5>1, SMTT(30)
      <4>2. CASE k \in DOMAIN v_sBlks
        <5>1. j \in DOMAIN v_sBlks
          BY <1>3, <2>8, <3>3, <4>2
        <5> QED
          BY <2>8, <3>3, <4>2, <5>1 DEF VosInv, Sizes
      <4> QED
        BY <2>8, <4>1, <4>2
    <3>4. ASSUME NEW size \in 2..(dwi' - 1), Fits(size)
          PROVE  \E k \in DOMAIN v_sBlks' : v_sBlks'[k].size = size
      <4>1. CASE size = d
        BY <2>8, <2>9, <4>1
      <4>2. CASE size # d
        <5>1. size \in 2..(dwi - 1)
          BY <1>1, <1>2, <4>2
        <5>2. PICK k \in DOMAIN v_sBlks : v_sBlks[k].size = size
          BY <3>4, <5>1 DEF VosInv, Sizes
        <5> QED
          BY <2>8, <5>2
      <4> QED
        BY <4>1, <4>2
    <3> QED
      BY <3>1, <3>2, <3>3, <3>4 DEF Sizes
  <2>11. Vos!TypeOK'
    BY <1>1, <1>2, <1>3, <2>8, TableStays DEF VosInv, Vos!TypeOK
  <2>12. Printed'
    <3>1. \A k \in DOMAIN printed : k \in DOMAIN v_sBlks /\ \A j \in 1..(k - 1) : j \in DOMAIN v_sBlks
      <4>1. PICK l \in Nat, d1 \in Nat : l = Len(v_sBlks) /\ DOMAIN v_sBlks = 1..l
                                      /\ d1 = dwb - 1 /\ d1 <= l
        <5>1. PICK l \in Nat : l = Len(v_sBlks) /\ DOMAIN v_sBlks = 1..l
          BY <1>3
        <5>2. dwb \in 1..(l + 1)
          BY <5>1 DEF VosInv, Vos!TypeOK
        <5>3. dwb - 1 \in Nat /\ dwb - 1 <= l
          BY <5>1, <5>2
        <5> QED
          BY <5>1, <5>3
      <4>2. DOMAIN printed = 1..d1
        BY <4>1, LenProperties DEF VosInv, Printed
      <4> QED
        BY <4>1, <4>2
    <3>2. ASSUME NEW k \in DOMAIN printed PROVE Vos!Times(k)' = Vos!Times(k)
      BY <2>8, <3>1 DEF Vos!Times
    <3> QED
      BY <1>1, <2>8, <3>1, <3>2 DEF VosInv, Printed
  <2> QED
    BY <1>1, <2>10, <2>11, <2>12, TableStays DEF VosInv
<1> QED
  BY <1>5, <1>6

\* At the end of the file the list has all sizes of blocks.
LEMMA ScannedKeeps == VosInv /\ Vos!Scanned => VosInv'
<1> SUFFICES ASSUME VosInv, Vos!Scanned PROVE VosInv'
  OBVIOUS
<1>1. SameTable /\ UNCHANGED <<lpb, dwi, v_sBlks, dwb, printed>> /\ vosPc = "scan"
  BY DEF Vos!Scanned, SameTable
<1>2. Vos!rd \in Nat /\ dwi = Vos!rd + 1
  BY Pairs DEF VosInv, Vos!TypeOK, Vos!Scanned
<1>3. ASSUME NEW size \in 2..Vos!rd, Vos!IsBlock(size) PROVE v_sBlks # <<>>
  <2>1. PICK n \in Nat, s \in Nat \ {0} : n = Vos!rd /\ s = size /\ s >= 2
    BY <1>2
  <2>2. s < n /\ n % s = 0
    BY <1>3, <2>1 DEF Vos!IsBlock, Vos!Divides
  <2>3. n \div s \in Nat /\ n \div s >= 1 /\ 1 * s = s
    BY <2>2, Halves
  <2>4. Vos!PairAt(s)
    <3>1. 1 \in 1..(n \div s)
      BY <2>3
    <3> QED
      BY <1>3, <2>1, <2>3, <3>1 DEF Vos!IsBlock, Vos!AllEnded
  <2>5. PICK k \in DOMAIN v_sBlks : v_sBlks[k].size = size
    BY <1>2, <1>3, <2>1, <2>4 DEF VosInv, Sizes, Fits, Vos!IsBlock
  <2> QED
    BY <2>5
<1>4. vosPc' \in {"declined", "show"} /\ (vosPc' = "declined" => v_sBlks = <<>>)
  BY DEF Vos!Scanned
<1>5. Vos!TypeOK'
  BY <1>1, <1>4, TableStays DEF VosInv, Vos!TypeOK
<1>6. Sizes' /\ Printed'
  BY <1>1, ListStays DEF VosInv
<1> QED
  BY <1>1, <1>2, <1>3, <1>4, <1>5, <1>6, TableStays DEF VosInv

\* One size of the list is printed, the next one.
LEMMA ShowBlkKeeps == VosInv /\ Vos!ShowBlk => VosInv'
<1> SUFFICES ASSUME VosInv, Vos!ShowBlk PROVE VosInv'
  OBVIOUS
<1>1. SameTable /\ UNCHANGED <<lpb, vosPc, dwi, v_sBlks>> /\ dwb' = dwb + 1 /\ vosPc = "show"
  BY DEF Vos!ShowBlk, SameTable
<1>2. PICK n \in Nat, l \in Nat, d \in Nat :
        n = Vos!rd /\ l = Len(v_sBlks) /\ DOMAIN v_sBlks = 1..l /\ d = dwb /\ d \in 1..l
  <2>1. v_sBlks \in Seq([size : 1..Vos!rd, cnt : 1..Vos!rd]) /\ Vos!rd \in Nat
    BY Pairs DEF VosInv, Vos!TypeOK
  <2>2. PICK l \in Nat : l = Len(v_sBlks) /\ DOMAIN v_sBlks = 1..l
    BY <2>1, LenProperties
  <2>3. dwb \in 1..(l + 1) /\ dwb <= l
    BY <2>2 DEF VosInv, Vos!TypeOK, Vos!ShowBlk
  <2>4. PICK d \in Nat : d = dwb /\ d \in 1..l
    BY <2>3
  <2> QED
    BY <2>1, <2>2, <2>4
<1> DEFINE new == [size |-> v_sBlks[d].size, cnt |-> v_sBlks[d].cnt, times |-> Vos!Times(d)]
<1>3. printed' = Append(printed, new)
  BY <1>2 DEF Vos!ShowBlk
<1>4. ASSUME NEW k \in 1..l
      PROVE  v_sBlks[k].size \in 1..n /\ v_sBlks[k].cnt \in 1..n
  <2>1. v_sBlks[k] \in [size : 1..n, cnt : 1..n]
    BY <1>2, <1>4, ElementOfSeq DEF VosInv, Vos!TypeOK
  <2> QED
    BY <2>1
<1>5. Vos!Times(d) \in SUBSET Nat
  <2>1. \A j \in 1..(d - 1) : v_sBlks[j].cnt \div v_sBlks[d].cnt \in Nat
    <3> SUFFICES ASSUME NEW j \in 1..(d - 1)
                 PROVE  v_sBlks[j].cnt \div v_sBlks[d].cnt \in Nat
      OBVIOUS
    <3>1. PICK a \in Nat, b \in Nat \ {0} : a = v_sBlks[j].cnt /\ b = v_sBlks[d].cnt
      BY <1>2, <1>4
    <3> QED
      BY <3>1
  <2> QED
    BY <2>1 DEF Vos!Times
<1>6. new \in [size : Nat, cnt : Nat, times : SUBSET Nat]
  BY <1>2, <1>4, <1>5
<1>7. new.size = v_sBlks[d].size /\ new.cnt = v_sBlks[d].cnt /\ new.times = Vos!Times(d)
  OBVIOUS
<1> HIDE DEF new
<1>8. /\ printed' \in Seq([size : Nat, cnt : Nat, times : SUBSET Nat])
      /\ Len(printed) = d - 1 /\ Len(printed') = d
      /\ DOMAIN printed' = 1..d /\ DOMAIN printed = 1..(d - 1)
      /\ \A k \in DOMAIN printed : printed'[k] = printed[k]
      /\ printed'[d] = new
  <2>1. /\ printed \in Seq([size : Nat, cnt : Nat, times : SUBSET Nat])
        /\ Len(printed) = d - 1
    BY <1>2 DEF VosInv, Printed
  <2>2. /\ printed' \in Seq([size : Nat, cnt : Nat, times : SUBSET Nat])
        /\ Len(printed') = Len(printed) + 1
        /\ DOMAIN printed = 1..Len(printed) /\ DOMAIN printed' = 1..Len(printed')
        /\ \A k \in 1..Len(printed) : printed'[k] = printed[k]
        /\ printed'[Len(printed) + 1] = new
    BY <1>3, <1>6, <2>1, AppendProperties, LenProperties
  <2> QED
    BY <1>2, <2>1, <2>2
<1>9. Printed'
  <2>1. \A k : Vos!Times(k)' = Vos!Times(k)
    BY <1>1, ListStays
  <2>2. ASSUME NEW k \in DOMAIN printed'
        PROVE  /\ printed'[k].size = v_sBlks[k].size /\ printed'[k].cnt = v_sBlks[k].cnt
               /\ printed'[k].times = Vos!Times(k)
    <3>1. CASE k = d
      BY <1>7, <1>8, <3>1
    <3>2. CASE k # d
      <4>1. k \in DOMAIN printed
        BY <1>2, <1>8, <3>2
      <4> QED
        BY <1>8, <4>1 DEF VosInv, Printed
    <3> QED
      BY <3>1, <3>2
  <2>3. Len(printed') = dwb' - 1
    BY <1>1, <1>2, <1>8
  <2> QED
    BY <1>1, <1>8, <2>1, <2>2, <2>3 DEF Printed
<1>10. Sizes'
  BY <1>1, ListStays
<1>11. dwb' \in 1..(Len(v_sBlks') + 1)
  BY <1>1, <1>2
<1>12. Vos!TypeOK'
  BY <1>1, <1>11, TableStays DEF VosInv, Vos!TypeOK
<1> QED
  BY <1>1, <1>9, <1>10, <1>12, TableStays DEF VosInv

\* When all are printed they are shown.
LEMMA ShownKeeps == VosInv /\ Vos!Shown => VosInv'
<1> SUFFICES ASSUME VosInv, Vos!Shown PROVE VosInv'
  OBVIOUS
<1>1. SameTable /\ UNCHANGED <<lpb, dwi, v_sBlks, dwb, printed>> /\ vosPc = "show" /\ vosPc' = "shown"
  BY DEF Vos!Shown, SameTable
<1>2. dwb = Len(v_sBlks) + 1
  <2>1. v_sBlks \in Seq([size : 1..Vos!rd, cnt : 1..Vos!rd])
    BY DEF VosInv, Vos!TypeOK
  <2>2. PICK l \in Nat : l = Len(v_sBlks)
    BY <2>1, LenProperties
  <2>3. dwb \in 1..(l + 1) /\ dwb > l
    BY <2>2 DEF VosInv, Vos!TypeOK, Vos!Shown
  <2> QED
    BY <2>2, <2>3
<1>3. Vos!TypeOK'
  BY <1>1, TableStays DEF VosInv, Vos!TypeOK
<1>4. Sizes' /\ Printed'
  BY <1>1, ListStays DEF VosInv
<1> QED
  BY <1>1, <1>2, <1>3, <1>4, TableStays DEF VosInv

\* Every step keeps all of it, and so does none.
LEMMA StepVos == VosInv /\ [Vos!Next]_(Vos!vosVars) => VosInv'
<1> SUFFICES ASSUME VosInv, UNCHANGED Vos!vosVars PROVE VosInv'
  BY CheckKeeps, ScanKeeps, ScannedKeeps, ShowBlkKeeps, ShownKeeps DEF Vos!Next
<1>1. SameTable /\ UNCHANGED <<lpb, vosPc, dwi, v_sBlks, dwb, printed>>
  BY DEF Vos!vosVars, SameTable
<1>2. Vos!TypeOK'
  BY <1>1, TableStays DEF VosInv, Vos!TypeOK
<1>3. Sizes' /\ Printed'
  BY <1>1, ListStays DEF VosInv
<1> QED
  BY <1>1, <1>2, <1>3, TableStays DEF VosInv

-------------------------------------------------------------------------------

\* When all is shown, each size printed is one of the list.
LEMMA PrintedIs ==
  ASSUME VosInv, vosPc = "shown"
  PROVE  /\ DOMAIN printed = DOMAIN v_sBlks
         /\ \E l \in Nat : DOMAIN printed = 1..l
         /\ \A k \in DOMAIN printed :
              /\ printed[k].size = v_sBlks[k].size /\ printed[k].cnt = v_sBlks[k].cnt
              /\ printed[k].times = Vos!Times(k)
<1>1. v_sBlks \in Seq([size : 1..Vos!rd, cnt : 1..Vos!rd])
  BY DEF VosInv, Vos!TypeOK
<1>2. PICK l \in Nat : l = Len(v_sBlks) /\ DOMAIN v_sBlks = 1..l
  BY <1>1, LenProperties
<1>3. Len(printed) = l /\ printed \in Seq([size : Nat, cnt : Nat, times : SUBSET Nat])
  BY <1>2 DEF VosInv, Printed
<1>4. DOMAIN printed = 1..l
  BY <1>3, LenProperties
<1> QED
  BY <1>2, <1>4 DEF VosInv, Printed

\* A size of the list is that of blocks if and only if all of them are counted.
LEMMA BlocksCounted ==
  ASSUME VosInv, Vos!IsVosTab, NEW k \in DOMAIN v_sBlks
  PROVE  LET s == v_sBlks[k].size
             c == v_sBlks[k].cnt
         IN  /\ c \in 1..(Vos!rd \div s) /\ Vos!AllEnded(s, c - 1) /\ c > 1
             /\ Vos!IsBlock(s) => c = Vos!rd \div s
             /\ ~Vos!IsBlock(s) => ~Vos!PairAt(s * c)
<1>1. PICK n \in Nat, s \in Nat \ {0}, c \in {v_sBlks[k].cnt} : n = Vos!rd /\ s = v_sBlks[k].size
  BY SizeOf
<1>2. s < n /\ n % s = 0 /\ s <= n /\ Vos!PairAt(s) /\ c = Vos!Fitting(s) /\ Vos!Divides(s)
  BY <1>1, SizeOf DEF Vos!Divides
<1>3. PICK q \in Nat : /\ q = n \div s /\ q >= 2 /\ q * s = n
  BY <1>1, <1>2, Halves, ZenonT(30)
<1>4. /\ c \in 1..q /\ \A i \in 1..(c - 1) : Vos!PairAt(i * s)
      /\ c = q \/ ~Vos!PairAt(c * s)
  BY <1>1, <1>2, <1>3, FittingIs
<1>5. Vos!AllEnded(s, c - 1)
  BY <1>4 DEF Vos!AllEnded
<1>6. 1 * s = s /\ c * s = s * c
  BY <1>1, <1>4
<1>7. c > 1
  BY <1>2, <1>3, <1>4, <1>6
<1>8. ASSUME Vos!IsBlock(s) PROVE c = q
  <2>1. Vos!PairAt(c * s)
    BY <1>1, <1>3, <1>4, <1>8 DEF Vos!IsBlock, Vos!AllEnded
  <2> QED
    BY <1>4, <2>1
<1>9. ASSUME ~Vos!IsBlock(s), Vos!PairAt(s * c) PROVE FALSE
  <2>1. c = q /\ Vos!PairAt(q * s)
    BY <1>4, <1>6, <1>9
  <2>2. \A i \in 1..q : i \in 1..(c - 1) \/ i = q
    BY <1>4, <2>1
  <2>3. Vos!AllEnded(s, q)
    BY <1>4, <2>1, <2>2 DEF Vos!AllEnded
  <2> QED
    BY <1>1, <1>2, <1>3, <1>9, <2>3 DEF Vos!IsBlock
<1> QED
  BY <1>1, <1>3, <1>4, <1>5, <1>7, <1>8, <1>9

\* Every size of blocks has its one place in what is printed.
LEMMA StridesAre == VosInv => Vos!StridesFound
<1> SUFFICES ASSUME VosInv PROVE Vos!StridesFound
  OBVIOUS
<1>1. ASSUME vosPc = "shown", NEW size \in 2..Vos!rd, Vos!IsBlock(size)
      PROVE  Cardinality({k \in DOMAIN printed :
                            printed[k].size = size /\ printed[k].cnt = Vos!rd \div size}) = 1
  <2>1. Vos!rd \in Nat /\ dwi = Vos!rd + 1 /\ Vos!IsVosTab
    BY <1>1, Pairs DEF VosInv
  <2>2. PICK n \in Nat, s \in Nat \ {0} : n = Vos!rd /\ s = size /\ s >= 2
    BY <2>1
  <2>3. s < n /\ n % s = 0
    BY <1>1, <2>2 DEF Vos!IsBlock, Vos!Divides
  <2>4. n \div s \in Nat /\ n \div s >= 1 /\ 1 * s = s
    BY <2>3, Halves
  <2>5. Vos!PairAt(s)
    <3>1. 1 \in 1..(n \div s)
      BY <2>4
    <3> QED
      BY <1>1, <2>2, <2>4, <3>1 DEF Vos!IsBlock, Vos!AllEnded
  <2>6. PICK k \in DOMAIN v_sBlks : v_sBlks[k].size = size
    BY <1>1, <2>1, <2>2, <2>5 DEF VosInv, Sizes, Fits, Vos!IsBlock
  <2>7. v_sBlks[k].cnt = Vos!rd \div size
    BY <1>1, <2>1, <2>6, BlocksCounted
  <2>8. \A j \in DOMAIN v_sBlks : v_sBlks[j].size = size => j = k
    <3> SUFFICES ASSUME NEW j \in DOMAIN v_sBlks, v_sBlks[j].size = size, j # k PROVE FALSE
      OBVIOUS
    <3>1. j \in Nat /\ k \in Nat
      BY <1>1, PrintedIs
    <3>2. v_sBlks[j].size < v_sBlks[k].size \/ v_sBlks[k].size < v_sBlks[j].size
      BY <3>1 DEF VosInv, Sizes
    <3> QED
      BY <2>2, <2>6, <3>2
  <2>9. {j \in DOMAIN printed : printed[j].size = size /\ printed[j].cnt = Vos!rd \div size} = {k}
    BY <1>1, <2>6, <2>7, <2>8, PrintedIs
  <2> QED
    BY <2>9, FS_Singleton
<1>2. ASSUME vosPc = "shown"
      PROVE  \A j, k \in DOMAIN printed : j < k => printed[j].size < printed[k].size
  BY <1>2, PrintedIs DEF VosInv, Sizes
<1>3. ASSUME vosPc = "shown", NEW k \in DOMAIN printed, ~Vos!IsBlock(printed[k].size)
      PROVE  /\ Vos!AllEnded(printed[k].size, printed[k].cnt - 1) /\ printed[k].cnt > 1
             /\ ~Vos!PairAt(printed[k].size * printed[k].cnt)
  <2>1. k \in DOMAIN v_sBlks /\ Vos!IsVosTab
    BY <1>3, PrintedIs DEF VosInv
  <2> QED
    BY <1>3, <2>1, BlocksCounted, PrintedIs
<1>4. vosPc = "declined" => ~\E size \in 2..Vos!rd : Vos!IsBlock(size)
  BY DEF VosInv
<1> QED
  BY <1>1, <1>2, <1>3, <1>4, SameCardinality DEF Vos!StridesFound

\* Counts of two sizes of which one is a multiple of the other.
LEMMA Multiples ==
  ASSUME NEW a \in Nat \ {0}, NEW b \in Nat \ {0}, NEW c \in Nat \ {0}, NEW d \in Nat \ {0},
         a * c = b * d, b % a = 0
  PROVE  c % d = 0 /\ c \div d = b \div a
<1>1. PICK m \in Nat : m = b \div a
  OBVIOUS
<1>2. b = a * m
  BY <1>1
<1>3. a * c = a * (m * d)
  BY <1>2
<1>4. c = m * d
  <2>1. PICK e \in Nat : e = m * d
    BY <1>1
  <2>2. a * c = a * e
    BY <1>3, <2>1
  <2> QED
    BY <2>1, <2>2
<1>5. c % d = 0 /\ c \div d = m
  BY <1>1, <1>4
<1> QED
  BY <1>1, <1>5

\* The times are those told.
LEMMA TimesAre == VosInv => Vos!MultiplesTold
<1> SUFFICES ASSUME VosInv, vosPc = "shown", NEW j \in DOMAIN printed, NEW k \in DOMAIN printed,
                    Vos!IsBlock(printed[j].size), Vos!IsBlock(printed[k].size), j < k,
                    printed[k].size % printed[j].size = 0
             PROVE  (printed[k].size \div printed[j].size) \in printed[k].times
  BY DEF Vos!MultiplesTold
<1>1. Vos!IsVosTab /\ j \in DOMAIN v_sBlks /\ k \in DOMAIN v_sBlks /\ j \in Nat \ {0} /\ k \in Nat
  BY PrintedIs DEF VosInv
<1>2. PICK n \in Nat, a \in Nat \ {0}, b \in Nat \ {0} :
        /\ n = Vos!rd /\ a = v_sBlks[j].size /\ b = v_sBlks[k].size
  BY <1>1, SizeOf
<1>3. a < n /\ n % a = 0 /\ b < n /\ n % b = 0
  BY <1>1, <1>2, SizeOf DEF Vos!Divides
<1>4. PICK c \in Nat \ {0}, d \in Nat \ {0} :
        c = n \div a /\ d = n \div b /\ a * c = n /\ b * d = n
  BY <1>3, Halves
<1>5. v_sBlks[j].cnt = c /\ v_sBlks[k].cnt = d
  BY <1>1, <1>2, <1>4, BlocksCounted, PrintedIs
<1>6. b % a = 0
  BY <1>2, PrintedIs
<1>7. c % d = 0 /\ c \div d = b \div a
  <2>1. a * c = b * d
    BY <1>4
  <2> QED
    BY <1>6, <2>1, Multiples
<1>8. j \in 1..(k - 1)
  BY <1>1
<1>9. (b \div a) \in Vos!Times(k)
  BY <1>5, <1>7, <1>8 DEF Vos!Times
<1> QED
  BY <1>2, <1>9, PrintedIs

-------------------------------------------------------------------------------
(* Sound files *)

\* The cells that are passed over on the way to the data: S is closed but for its last one.
InFront(q) == Wav!IsKnown(q) /\ Wav!Name(q) # "data"
Trail(S) == \A q \in S \ {tmp} : InFront(q) /\ Wav!Step(q) \in S /\ Wav!Step(q) # q
Way(S) == \A q \in S : Wav!Name(q) # "data" => InFront(q) /\ Wav!Step(q) \in S /\ Wav!Step(q) # q

\* IsWAVFile walks along them, and DumpWAV comes along the same cells.
Walked ==
  /\ wavPc = "probe" => \E S \in SUBSET (Nat \ {0}) : tmp \in S /\ 1 + wave.extra \in S /\ Trail(S)
  /\ wavPc \in {"check", "probe"} => told = <<>>
  /\ wavPc = "walk" =>
       /\ \E S \in SUBSET (Nat \ {0}) : tmp \in S /\ Way(S)
       /\ Wav!Name(tmp) = "data" => pwd = tmp
       /\ told # <<>> => tmp = told[Len(told)] + 1 + wave.cells[told[Len(told)]].size

\* The chunks told follow each other and are none of the data.
Chain ==
  /\ \A k \in DOMAIN told : Wav!Name(told[k]) # "data"
  /\ \A k \in 1..(Len(told) - 1) : told[k + 1] = told[k] + 1 + wave.cells[told[k]].size

\* What is shown, also of what is not the file's: as many cells as the file has behind the first.
Spread ==
  wavPc = "done" =>
    /\ Wav!Name(pwd) = "data" /\ pwd \in 1..Wav!Cells
    /\ \A k \in DOMAIN told : Wav!Name(told[k]) # "data"
    /\ \A k \in DOMAIN told : (IF k < Len(told) THEN told[k + 1] ELSE pwd)
                               = told[k] + 1 + wave.cells[told[k]].size
    /\ dumped[1].from = pwd + 1
    /\ wave.cells[pwd].size <= Wav!Cells - pwd => dumped[1].to = pwd + wave.cells[pwd].size
    /\ dumped[Len(dumped)].to = Wav!Cells + pwd - 1
    /\ Len(dumped) = 2 => dumped[2].from = dumped[1].to + 1

WavInv ==
  /\ WaveTypes /\ Wav!TypeOK /\ Walked /\ Chain /\ Spread
  /\ wave \in WaveFile
  /\ wavPc \in {"probe", "walk", "done"} => Wav!Cells > 1

-------------------------------------------------------------------------------

\* The cells of a file. A step is one to the next chunk, unless the sum of the size and the
\* head is more than a DWORD.
LEMMA CellsAre ==
  ASSUME WavInv
  PROVE  /\ Wav!Cells \in Nat
         /\ \A q \in Nat : Wav!Name(q) \in Known => q <= Wav!Cells
         /\ \A q \in 1..Wav!Cells :
              /\ wave.cells[q].size \in 0..(Width - 1) /\ Wav!Step(q) \in Nat \ {0}
              /\ Wav!Step(q) # q => Wav!Step(q) = q + 1 + wave.cells[q].size
<1>1. wave.cells \in Seq([id : STRING, size : 0..(Width - 1)]) /\ Width \in Nat \ {0}
  BY DEF WavInv, WaveTypes, WaveFile
<1>2. Wav!Cells \in Nat /\ Wav!Cells = Len(wave.cells)
  BY <1>1, LenProperties DEF Wav!Cells
<1>3. ASSUME NEW q \in Nat, Wav!Name(q) \in Known PROVE q <= Wav!Cells
  BY <1>2, <1>3 DEF Wav!Name, WavInv, WaveTypes
<1>4. ASSUME NEW q \in 1..Wav!Cells
      PROVE  /\ wave.cells[q].size \in 0..(Width - 1) /\ Wav!Step(q) \in Nat \ {0}
             /\ Wav!Step(q) # q => Wav!Step(q) = q + 1 + wave.cells[q].size
  <2>1. wave.cells[q] \in [id : STRING, size : 0..(Width - 1)]
    BY <1>1, <1>2, <1>4, ElementOfSeq
  <2>2. PICK s \in Nat, w \in Nat \ {0} : s = wave.cells[q].size /\ w = Width /\ s < w
    BY <1>1, <2>1
  <2>3. Wav!Step(q) = q + ((1 + s) % w)
    BY <2>2 DEF Wav!Step
  <2>4. (1 + s) % w \in Nat /\ (1 + s < w => (1 + s) % w = 1 + s) /\ (1 + s = w => (1 + s) % w = 0)
    BY <2>2
  <2>5. PICK p \in Nat : p = q
    BY <1>2
  <2>6. Wav!Step(q) \in Nat \ {0}
    BY <1>4, <2>3, <2>4, <2>5
  <2>7. Wav!Step(q) # q => Wav!Step(q) = q + 1 + s
    <3>1. CASE 1 + s < w
      BY <2>3, <2>4, <2>5, <3>1
    <3>2. CASE 1 + s = w
      BY <2>3, <2>4, <2>5, <3>2
    <3> QED
      BY <2>2, <3>1, <3>2
  <2> QED
    BY <2>1, <2>2, <2>6, <2>7
<1> QED
  BY <1>2, <1>3, <1>4

\* No chunk is told yet.
LEMMA InitWav == WaveTypes /\ Wav!Init => WavInv
<1> SUFFICES ASSUME WaveTypes, Wav!Init PROVE WavInv
  OBVIOUS
<1>1. /\ wave \in WaveFile
      /\ Len(told) = 0 /\ DOMAIN told = {} /\ told \in Seq(Nat)
      /\ dumped \in Seq([from : Nat, to : Nat])
  BY DEF WaveTypes, Wav!Init
<1>2. Wav!TypeOK
  BY <1>1 DEF Wav!Init, Wav!TypeOK
<1>3. Walked /\ Chain /\ Spread
  BY <1>1 DEF Wav!Init, Walked, Chain, Spread
<1> QED
  BY <1>1, <1>2, <1>3 DEF WavInv, Wav!Init

SameWave == wave' = wave

\* What is said of the cells stays as long as they do.
LEMMA WaveStays ==
  ASSUME SameWave
  PROVE  /\ Wav!Cells' = Wav!Cells
         /\ \A q : /\ Wav!Name(q)' = Wav!Name(q) /\ Wav!Step(q)' = Wav!Step(q)
                   /\ InFront(q) <=> InFront(q)'
         /\ \A S : Way(S) <=> Way(S)'
<1>1. \A q : Wav!Name(q)' = Wav!Name(q) /\ Wav!Step(q)' = Wav!Step(q)
  BY DEF SameWave, Wav!Name, Wav!Step, Wav!Cells
<1>2. \A q : InFront(q) <=> InFront(q)'
  BY <1>1 DEF InFront, Wav!IsKnown
<1>3. \A S : Way(S) <=> Way(S)'
  BY <1>1, <1>2 DEF Way
<1> QED
  BY <1>1, <1>2, <1>3 DEF SameWave, Wav!Cells

\* Where nothing is shown and no chunk is told all that is said of them stays.
LEMMA WavStill ==
  ASSUME WavInv, SameWave, UNCHANGED <<behind, pwd, told, dumped>>
  PROVE  Chain' /\ (wavPc' # "done" => Spread') /\ WaveTypes'
         /\ wave' \in WaveFile
<1>1. Chain'
  BY WaveStays DEF WavInv, Chain, SameWave
<1>2. wavPc' # "done" => Spread'
  BY DEF Spread
<1> QED
  BY <1>1, <1>2 DEF WavInv, WaveTypes, SameWave

\* The walk begins behind the format.
LEMMA CheckWav == WavInv /\ Wav!Check => WavInv'
<1> SUFFICES ASSUME WavInv, Wav!Check PROVE WavInv'
  OBVIOUS
<1>1. SameWave /\ UNCHANGED <<behind, pwd, told, dumped>> /\ wavPc' \in {"probe", "declined"}
  BY DEF Wav!Check, SameWave
<1>2. wavPc' = "probe" => tmp' = 1 + wave.extra /\ Wav!Cells > 1
  BY DEF Wav!Check
<1>3. wave.extra \in Nat /\ tmp' \in Nat /\ 1 + wave.extra \in Nat \ {0}
  BY DEF WavInv, WaveFile, Wav!Check, Wav!TypeOK
<1>4. Walked'
  <2>1. ASSUME wavPc' = "probe"
        PROVE  \E S \in SUBSET (Nat \ {0}) : tmp' \in S /\ 1 + wave'.extra \in S /\ Trail(S)'
    <3>1. PICK S \in SUBSET (Nat \ {0}) : S = {tmp'} /\ 1 + wave'.extra \in S
      BY <1>1, <1>2, <1>3, <2>1 DEF SameWave
    <3>2. Trail(S)'
      BY <3>1 DEF Trail
    <3> QED
      BY <3>1, <3>2
  <2> QED
    BY <1>1, <2>1 DEF WavInv, Walked, Wav!Check
<1>5. Wav!TypeOK'
  BY <1>1, <1>3 DEF WavInv, Wav!TypeOK
<1> QED
  BY <1>1, <1>2, <1>4, <1>5, WavStill, WaveStays DEF WavInv

\* One chunk in front of the data is passed over.
LEMMA ProbeWav == WavInv /\ Wav!Probe => WavInv'
<1> SUFFICES ASSUME WavInv, Wav!Probe PROVE WavInv'
  OBVIOUS
<1>1. /\ SameWave /\ UNCHANGED <<behind, wavPc, pwd, told, dumped>>
      /\ wavPc = "probe" /\ InFront(tmp) /\ tmp' = Wav!Step(tmp)
  BY DEF Wav!Probe, SameWave, InFront
<1>2. PICK S \in SUBSET (Nat \ {0}) : tmp \in S /\ 1 + wave.extra \in S /\ Trail(S)
  BY <1>1 DEF WavInv, Walked
<1>3. tmp \in 1..Wav!Cells
  <2>1. tmp \in Nat \ {0} /\ Wav!Name(tmp) \in Known
    BY <1>1, <1>2 DEF InFront, Wav!IsKnown
  <2> QED
    BY <2>1, CellsAre
<1>4. tmp' \in Nat \ {0}
  BY <1>1, <1>3, CellsAre
<1>5. \E T \in SUBSET (Nat \ {0}) : tmp' \in T /\ 1 + wave'.extra \in T /\ Trail(T)'
  <2>1. PICK T \in SUBSET (Nat \ {0}) : T = S \cup {tmp'} /\ 1 + wave'.extra \in T
    BY <1>1, <1>2, <1>4 DEF SameWave
  <2>2. ASSUME NEW q \in T \ {tmp'}
        PROVE  InFront(q)' /\ Wav!Step(q)' \in T /\ Wav!Step(q)' # q
    <3>1. CASE q = tmp
      BY <1>1, <2>1, <2>2, <3>1, WaveStays
    <3>2. CASE q # tmp
      <4>1. InFront(q) /\ Wav!Step(q) \in S /\ Wav!Step(q) # q
        BY <1>2, <2>1, <2>2, <3>2 DEF Trail
      <4> QED
        BY <1>1, <2>1, <4>1, WaveStays
    <3> QED
      BY <3>1, <3>2
  <2>3. Trail(T)'
    BY <2>2 DEF Trail
  <2> QED
    BY <2>1, <2>3
<1>6. Walked'
  BY <1>1, <1>5 DEF WavInv, Walked
<1>7. Wav!TypeOK'
  BY <1>1, <1>4 DEF WavInv, Wav!TypeOK
<1> QED
  BY <1>1, <1>6, <1>7, WavStill, WaveStays DEF WavInv

\* The data is found, and DumpWAV begins where IsWAVFile did: it comes along the same cells.
LEMMA AcceptWav == WavInv /\ Wav!Accept => WavInv'
<1> SUFFICES ASSUME WavInv, Wav!Accept PROVE WavInv'
  OBVIOUS
<1>1. /\ SameWave /\ UNCHANGED <<behind, told, dumped>> /\ wavPc = "probe" /\ wavPc' = "walk"
      /\ Wav!Name(tmp) = "data" /\ tmp' = 1 + wave.extra /\ pwd' = tmp'
  BY DEF Wav!Accept, SameWave
<1>2. PICK S \in SUBSET (Nat \ {0}) : tmp \in S /\ 1 + wave.extra \in S /\ Trail(S)
  BY <1>1 DEF WavInv, Walked
<1>3. Way(S)
  BY <1>1, <1>2 DEF Way, Trail
<1>4. Way(S)' /\ tmp' \in S
  BY <1>1, <1>2, <1>3, WaveStays
<1>5. told = <<>>
  BY <1>1 DEF WavInv, Walked
<1>6. Walked'
  BY <1>1, <1>2, <1>4, <1>5 DEF Walked
<1>7. Wav!TypeOK'
  BY <1>1, <1>2 DEF WavInv, Wav!TypeOK
<1>8. Chain'
  BY <1>1, <1>5 DEF Chain
<1>9. Spread'
  BY <1>1 DEF Spread
<1> QED
  BY <1>1, <1>6, <1>7, <1>8, <1>9, WaveStays DEF WavInv, WaveTypes, SameWave

\* The reader stops.
LEMMA StopWav == WavInv /\ (Wav!Kill \/ Wav!Refuse) => WavInv'
<1> SUFFICES ASSUME WavInv, Wav!Kill \/ Wav!Refuse PROVE WavInv'
  OBVIOUS
<1>1. SameWave /\ UNCHANGED <<behind, tmp, pwd, told, dumped>> /\ wavPc' \in {"killed", "declined"}
  BY DEF Wav!Kill, Wav!Refuse, SameWave
<1>2. Walked'
  BY <1>1 DEF Walked
<1>3. Wav!TypeOK'
  BY <1>1 DEF WavInv, Wav!TypeOK
<1> QED
  BY <1>1, <1>2, <1>3, WavStill DEF WavInv

\* One chunk in front of the data is told.
LEMMA WalkWav == WavInv /\ Wav!Walk => WavInv'
<1> SUFFICES ASSUME WavInv, Wav!Walk PROVE WavInv'
  OBVIOUS
<1>1. /\ SameWave /\ UNCHANGED <<behind, wavPc, dumped>> /\ wavPc = "walk" /\ InFront(tmp)
      /\ tmp' = Wav!Step(tmp) /\ told' = Append(told, tmp)
      /\ pwd' = IF Wav!Name(tmp') = "data" THEN tmp' ELSE pwd
  BY DEF Wav!Walk, SameWave, InFront
<1>2. PICK S \in SUBSET (Nat \ {0}) : tmp \in S /\ Way(S)
  BY <1>1 DEF WavInv, Walked
<1>3. tmp \in 1..Wav!Cells
  <2>1. tmp \in Nat \ {0} /\ Wav!Name(tmp) \in Known
    BY <1>1, <1>2 DEF InFront, Wav!IsKnown
  <2> QED
    BY <2>1, CellsAre
<1>4. tmp' \in S /\ tmp' # tmp
  BY <1>1, <1>2 DEF Way, InFront
<1>5. tmp' = tmp + 1 + wave.cells[tmp].size
  BY <1>1, <1>3, <1>4, CellsAre
<1>6. PICK l \in Nat :
        /\ l = Len(told) /\ Len(told') = l + 1 /\ told' \in Seq(Nat)
        /\ DOMAIN told' = 1..(l + 1) /\ DOMAIN told = 1..l
        /\ \A k \in 1..l : told'[k] = told[k]
        /\ told'[l + 1] = tmp
  <2>1. told \in Seq(Nat) /\ tmp \in Nat
    BY DEF WavInv, Wav!TypeOK
  <2> QED
    BY <1>1, <2>1, AppendProperties, LenProperties
<1>7. l > 0 => tmp = told[l] + 1 + wave.cells[told[l]].size
  <2>1. l > 0 => told # <<>>
    BY <1>6
  <2> QED
    BY <1>1, <1>6, <2>1 DEF WavInv, Walked
<1>8. Chain'
  <2>1. ASSUME NEW k \in 1..(l + 1) PROVE Wav!Name(told[k])' # "data"
    <3>1. CASE k = l + 1
      BY <1>1, <1>6, <3>1 DEF InFront, SameWave, Wav!Name, Wav!Cells
    <3>2. CASE k \in 1..l
      <4>1. Wav!Name(told[k]) # "data" /\ told'[k] = told[k]
        BY <1>6, <3>2 DEF WavInv, Chain
      <4> QED
        BY <1>1, <4>1 DEF SameWave, Wav!Name, Wav!Cells
    <3> QED
      BY <3>1, <3>2
  <2>2. ASSUME NEW k \in 1..l
        PROVE  told'[k + 1] = told'[k] + 1 + wave'.cells[told'[k]].size
    <3>1. CASE k = l
      BY <1>1, <1>6, <1>7, <3>1 DEF SameWave
    <3>2. CASE k # l
      <4>1. k \in 1..(l - 1) /\ k + 1 \in 1..l
        BY <2>2, <3>2
      <4> QED
        BY <1>1, <1>6, <4>1 DEF WavInv, Chain, SameWave
    <3> QED
      BY <3>1, <3>2
  <2>3. Len(told') - 1 = l
    BY <1>6, SMTT(30)
  <2> QED
    BY <1>6, <2>1, <2>2, <2>3 DEF Chain
<1>9. Walked'
  <2>1. Way(S)'
    BY <1>1, <1>2, WaveStays
  <2>2. tmp' = told'[Len(told')] + 1 + wave'.cells[told'[Len(told')]].size
    BY <1>1, <1>5, <1>6 DEF SameWave
  <2>3. (Wav!Name(tmp) = "data")' => pwd' = tmp'
    BY <1>1, WaveStays
  <2> QED
    BY <1>1, <1>2, <1>4, <2>1, <2>2, <2>3 DEF Walked
<1>10. Wav!TypeOK'
  BY <1>1, <1>2, <1>4, <1>6 DEF WavInv, Wav!TypeOK
<1>11. Spread'
  BY <1>1 DEF Spread
<1> QED
  BY <1>1, <1>8, <1>9, <1>10, <1>11, WaveStays DEF WavInv, WaveTypes, SameWave

\* The data and the rest are shown.
LEMMA ShowWav == WavInv /\ Wav!Show => WavInv'
<1> SUFFICES ASSUME WavInv, Wav!Show PROVE WavInv'
  OBVIOUS
<1>1. /\ SameWave /\ UNCHANGED <<behind, tmp, pwd, told>> /\ wavPc = "walk"
      /\ wavPc' \in {"killed", "done"} /\ (Wav!IsKnown(tmp) => Wav!Name(tmp) = "data")
  BY DEF Wav!Show, SameWave
<1>2. PICK S \in SUBSET (Nat \ {0}) : tmp \in S /\ Way(S)
  BY <1>1 DEF WavInv, Walked
<1>3. Wav!Name(tmp) = "data" /\ pwd = tmp /\ tmp \in 1..Wav!Cells
  <2>1. Wav!Name(tmp) = "data"
    BY <1>1, <1>2 DEF Way, InFront
  <2>2. tmp \in Nat \ {0} /\ "data" \in Known
    BY <1>2 DEF WavInv, WaveTypes
  <2> QED
    BY <1>1, <2>1, <2>2, CellsAre DEF WavInv, Walked
<1>4. PICK n \in Nat, d \in Nat, c \in Nat, at \in Nat :
        n = Wav!Cells /\ d = n - 1 /\ n > 1 /\ c = wave.cells[pwd].size /\ at = pwd
  <2>1. PICK n \in Nat : n = Wav!Cells /\ n > 1
    BY <1>1, CellsAre DEF WavInv
  <2>2. n - 1 \in Nat /\ pwd \in Nat
    BY <1>3, <2>1
  <2>3. PICK c \in Nat : c = wave.cells[pwd].size
    <3>1. wave.cells[pwd].size \in 0..(Width - 1) /\ Width \in Nat
      BY <1>3, CellsAre DEF WavInv, WaveTypes
    <3> QED
      BY <3>1
  <2> QED
    BY <2>1, <2>2, <2>3
<1> DEFINE len == IF c > d THEN d ELSE c
           data == [from |-> at + 1, to |-> at + len]
           rest == [from |-> at + len + 1, to |-> at + d]
<1>5. dumped' = IF d > len THEN <<data, rest>> ELSE <<data>>
  BY <1>4 DEF Wav!Show
<1>6. len \in Nat /\ len <= d
  BY <1>4
<1>7. data \in [from : Nat, to : Nat] /\ rest \in [from : Nat, to : Nat]
  BY <1>4, <1>6
<1>8. /\ data.from = at + 1 /\ data.to = at + len
      /\ rest.from = data.to + 1 /\ rest.to = at + d
  BY <1>4, <1>6
<1> HIDE DEF data, rest
<1>9. /\ dumped' \in Seq([from : Nat, to : Nat]) /\ dumped'[1].from = at + 1
      /\ dumped'[1].to = at + len /\ dumped'[Len(dumped')].to = n + at - 1
      /\ Len(dumped') = 2 => dumped'[2].from = dumped'[1].to + 1
  <2>1. CASE d > len
    BY <1>4, <1>5, <1>7, <1>8, <2>1
  <2>2. CASE ~(d > len)
    <3>1. d = len /\ dumped' = <<data>>
      BY <1>4, <1>5, <1>6, <2>2
    <3> QED
      BY <1>4, <1>7, <1>8, <3>1
  <2> QED
    BY <2>1, <2>2
<1>10. Spread'
  <2>1. Wav!Name(pwd)' = "data" /\ \A k \in DOMAIN told' : Wav!Name(told[k])' # "data"
    BY <1>1, <1>3 DEF WavInv, Chain, SameWave, Wav!Name, Wav!Cells
  <2>2. ASSUME NEW k \in DOMAIN told
        PROVE  (IF k < Len(told) THEN told[k + 1] ELSE pwd) = told[k] + 1 + wave.cells[told[k]].size
    <3>1. told \in Seq(Nat)
      BY DEF WavInv, Wav!TypeOK
    <3>2. Len(told) \in Nat /\ k \in 1..Len(told) /\ told # <<>>
      BY <2>2, <3>1, LenProperties
    <3>3. CASE k < Len(told)
      BY <3>2, <3>3 DEF WavInv, Chain
    <3>4. CASE k = Len(told)
      BY <1>1, <1>3, <3>2, <3>4 DEF WavInv, Walked
    <3> QED
      BY <3>2, <3>3, <3>4
  <2>3. Wav!Cells' = n /\ pwd' = at /\ wave' = wave /\ told' = told /\ at \in 1..n
    BY <1>1, <1>3, <1>4, WaveStays DEF SameWave
  <2> QED
    BY <1>1, <1>4, <1>9, <2>1, <2>2, <2>3 DEF Spread
<1>11. Wav!TypeOK'
  BY <1>1, <1>9 DEF WavInv, Wav!TypeOK
<1>12. Walked' /\ Chain'
  BY <1>1, WaveStays DEF WavInv, Walked, Chain, SameWave
<1> QED
  BY <1>1, <1>10, <1>11, <1>12, WaveStays DEF WavInv, WaveTypes, SameWave

\* Every step keeps all of it, and so does none.
LEMMA StepWav == WavInv /\ [Wav!Next]_(Wav!wavVars) => WavInv'
<1> SUFFICES ASSUME WavInv, UNCHANGED Wav!wavVars PROVE WavInv'
  BY CheckWav, ProbeWav, AcceptWav, StopWav, WalkWav, ShowWav DEF Wav!Next
<1>1. SameWave /\ UNCHANGED <<behind, wavPc, tmp, pwd, told, dumped>>
  BY DEF Wav!wavVars, SameWave
<1>2. \A S : Trail(S) <=> Trail(S)'
  BY <1>1, WaveStays DEF Trail
<1>3. Walked'
  BY <1>1, <1>2, WaveStays DEF WavInv, Walked, SameWave
<1>4. Wav!TypeOK'
  BY <1>1 DEF WavInv, Wav!TypeOK
<1>5. Spread'
  BY <1>1, WaveStays DEF WavInv, Spread, SameWave
<1> QED
  BY <1>1, <1>3, <1>4, <1>5, WavStill, WaveStays DEF WavInv

-------------------------------------------------------------------------------
(* GIF pictures *)

\* What goes from the lower ranks to the next holds of all.
LEMMA RankInduction ==
  ASSUME NEW D, NEW S, NEW rank \in [D -> Nat],
         \A p \in D : (\A q \in D : rank[q] < rank[p] => q \in S) => p \in S
  PROVE  D \subseteq S
<1>1. ASSUME NEW p \in D, p \notin S PROVE FALSE
  <2> DEFINE T == {rank[q] : q \in D \ S}
  <2>1. T \in SUBSET Nat /\ rank[p] \in T
    BY <1>1
  <2> HIDE DEF T
  <2>2. PICK n \in T : \A m \in T : n <= m
    BY <2>1, LeastNumber
  <2> USE DEF T
  <2>3. PICK q \in D \ S : n = rank[q]
    OBVIOUS
  <2>4. \A x \in D \ S : rank[x] \in T
    OBVIOUS
  <2> HIDE DEF T
  <2>5. ASSUME NEW x \in D, rank[x] < rank[q] PROVE x \in S
    <3>1. rank[x] \in Nat /\ rank[q] \in Nat
      BY <2>3
    <3> QED
      BY <2>2, <2>3, <2>4, <2>5, <3>1
  <2> QED
    BY <2>3, <2>5
<1> QED
  BY <1>1

\* A function is defined by its equation where that looks only at places of a lower rank.
LooksBelow(D, O, G, rank) ==
  \A p \in D : \A f, g \in [D -> O] :
    (\A q \in D : rank[q] < rank[p] => f[q] = g[q]) => G[<<p, f>>] = G[<<p, g>>]

IsRecursion(D, O, G, rank, top) ==
  /\ O # {} /\ G \in [D \X [D -> O] -> O] /\ rank \in [D -> 0..top]
  /\ LooksBelow(D, O, G, rank)
Solves(D, O, G, f) == f \in [D -> O] /\ \A p \in D : f[p] = G[<<p, f>>]

\* There is one.
LEMMA RecursionExists ==
  ASSUME NEW D, NEW O, NEW G, NEW rank, NEW top \in Nat, IsRecursion(D, O, G, rank, top)
  PROVE  \E f : Solves(D, O, G, f)
<1> USE DEF IsRecursion
<1>0. \A p \in D : rank[p] \in Nat
  OBVIOUS
<1> DEFINE Right(k, f) == \A p \in D : rank[p] < k => f[p] = G[<<p, f>>]
           T == {k \in Nat : ~\E f \in [D -> O] : Right(k, f)}
<1>1. 0 \notin T
  <2> PICK o \in O : TRUE
    OBVIOUS
  <2> DEFINE f == [p \in D |-> o]
  <2>1. f \in [D -> O]
    OBVIOUS
  <2> HIDE DEF f
  <2>2. Right(0, f)
    BY <1>0
  <2> QED
    BY <2>1, <2>2
<1>2. ASSUME NEW k \in Nat, k \notin T PROVE k + 1 \notin T
  <2>1. PICK f \in [D -> O] : Right(k, f)
    BY <1>2
  <2> DEFINE g == [p \in D |-> IF rank[p] = k THEN G[<<p, f>>] ELSE f[p]]
  <2>2. /\ g \in [D -> O]
        /\ \A p \in D : g[p] = IF rank[p] = k THEN G[<<p, f>>] ELSE f[p]
    OBVIOUS
  <2> HIDE DEF g
  <2>3. ASSUME NEW p \in D, rank[p] < k + 1 PROVE g[p] = G[<<p, g>>]
    <3>1. \A q \in D : rank[q] < rank[p] => f[q] = g[q]
      <4>1. ASSUME NEW q \in D, rank[q] < rank[p] PROVE rank[q] # k
        BY <1>0, <2>3, <4>1
      <4> QED
        BY <2>2, <4>1
    <3>2. G[<<p, f>>] = G[<<p, g>>]
      BY <2>2, <3>1 DEF LooksBelow
    <3>3. CASE rank[p] = k
      BY <2>2, <3>2, <3>3
    <3>4. CASE rank[p] # k
      <4>1. PICK r \in Nat : r = rank[p]
        BY <1>0
      <4>2. r < k + 1 /\ r # k
        BY <2>3, <3>4, <4>1
      <4>3. r < k
        BY <4>2, SMTT(30)
      <4>4. f[p] = G[<<p, f>>]
        BY <2>1, <4>1, <4>3
      <4> QED
        BY <2>2, <3>2, <3>4, <4>4
    <3> QED
      BY <3>3, <3>4
  <2>4. Right(k + 1, g)
    BY <2>3
  <2> QED
    BY <2>2, <2>4
<1>3. T = {}
  <2>1. ASSUME T # {} PROVE FALSE
    <3>1. T \in SUBSET Nat
      OBVIOUS
    <3> HIDE DEF T
    <3>2. PICK k \in T : \A m \in T : k <= m
      BY <2>1, <3>1, LeastNumber
    <3>3. k \in Nat /\ k # 0
      BY <1>1, <3>1, <3>2
    <3>4. k - 1 \in Nat /\ k = (k - 1) + 1 /\ ~(k <= k - 1)
      BY <3>3
    <3>5. k - 1 \notin T
      BY <3>2, <3>4
    <3>6. (k - 1) + 1 \notin T
      BY <1>2, <3>4, <3>5
    <3> QED
      BY <3>2, <3>4, <3>6
  <2> QED
    BY <2>1
<1>4. top + 1 \in Nat /\ top + 1 \notin T
  <2>1. top + 1 \in Nat
    OBVIOUS
  <2> HIDE DEF T
  <2> QED
    BY <1>3, <2>1
<1> PICK f \in [D -> O] : Right(top + 1, f)
  BY <1>4
<1>5. \A p \in D : rank[p] < top + 1
  BY <1>0
<1> QED
  BY <1>5 DEF Solves

\* What EndOfExtension and WrittenFrom are, of any sequence of bytes.
Byte(g, off) == IF off < Len(g) THEN g[off + 1] ELSE 0
EndBody(g, e, k) ==
  IF k >= Len(g) THEN -1
  ELSE IF g[k + 1] = 0 THEN k + 1
  ELSE IF k + 1 + g[k + 1] > Len(g) THEN -1
  ELSE e[k + 1 + g[k + 1]]
EndIn(g) == CHOOSE e : e = [k \in 0..(Len(g) + 1) |-> EndBody(g, e, k)]

\* An extension ends behind its first sub-block that is empty, or nowhere.
LEMMA EndIs ==
  ASSUME NEW g \in Seq(Nat)
  PROVE  /\ EndIn(g) \in [0..(Len(g) + 1) -> Nat \cup {-1}]
         /\ \A k \in 0..(Len(g) + 1) : EndIn(g)[k] = EndBody(g, EndIn(g), k)
<1> DEFINE D == 0..(Len(g) + 1)
           O == Nat \cup {-1}
           H == [x \in D \X [D -> O] |-> EndBody(g, x[2], x[1])]
           rank == [k \in D |-> Len(g) + 1 - k]
<1>0. Len(g) \in Nat /\ \A k \in 0..(Len(g) - 1) : g[k + 1] \in Nat
  OBVIOUS
<1>1. ASSUME NEW k \in D, NEW e \in [D -> O] PROVE EndBody(g, e, k) \in O
  BY <1>0 DEF EndBody
<1>2. H \in [D \X [D -> O] -> O] /\ rank \in [D -> Nat] /\ -1 \in O
  BY <1>0, <1>1
<1>3. /\ \A k \in D : rank[k] = Len(g) + 1 - k
      /\ \A k \in D, e \in [D -> O] : H[<<k, e>>] = EndBody(g, e, k)
  OBVIOUS
<1>5. LooksBelow(D, O, H, rank)
  <2>1. ASSUME NEW k \in D, NEW e \in [D -> O], NEW f \in [D -> O],
               \A q \in D : rank[q] < rank[k] => e[q] = f[q]
        PROVE  H[<<k, e>>] = H[<<k, f>>]
    <3>1. ASSUME NEW q \in D, q > k PROVE e[q] = f[q]
      <4>1. rank[q] < rank[k]
        BY <1>0, <1>3, <3>1
      <4> QED
        BY <2>1, <4>1
    <3>2. EndBody(g, e, k) = EndBody(g, f, k)
      BY <1>0, <3>1 DEF EndBody
    <3> QED
      BY <1>3, <3>2
  <2> HIDE DEF D, O, H, rank
  <2> QED
    BY <2>1 DEF LooksBelow
<1>6. PICK e : Solves(D, O, H, e)
  <2>1. Len(g) + 1 \in Nat /\ IsRecursion(D, O, H, rank, Len(g) + 1)
    BY <1>0, <1>2, <1>3, <1>5 DEF IsRecursion
  <2> HIDE DEF D, O, H, rank
  <2> QED
    BY <2>1, RecursionExists
<1>7. e = [k \in D |-> EndBody(g, e, k)]
  BY <1>3, <1>6 DEF Solves
<1>8. EndIn(g) = [k \in D |-> EndBody(g, EndIn(g), k)]
  BY <1>7 DEF EndIn
<1>9. \A k \in D : EndIn(g)[k] = EndBody(g, EndIn(g), k)
  BY <1>8, Zenon
<1> DEFINE S == {k \in D : EndIn(g)[k] \in O}
<1>10. D \subseteq S
  <2>1. ASSUME NEW k \in D, \A q \in D : rank[q] < rank[k] => EndIn(g)[q] \in O
        PROVE  EndIn(g)[k] \in O
    <3>1. ASSUME NEW q \in D, q > k PROVE EndIn(g)[q] \in O
      <4>1. rank[q] < rank[k]
        BY <1>0, <1>3, <3>1
      <4> QED
        BY <2>1, <4>1
    <3>2. EndBody(g, EndIn(g), k) \in O
      BY <1>0, <3>1 DEF EndBody
    <3> QED
      BY <1>9, <3>2
  <2>2. \A k \in D : (\A q \in D : rank[q] < rank[k] => q \in S) => k \in S
    BY <2>1
  <2> HIDE DEF D, O, H, rank, S
  <2> QED
    BY <1>2, <2>2, RankInduction
<1> QED
  BY <1>8, <1>9, <1>10

\* What is written from a place on, as WrittenFrom has it.
SubBlocks == Seq([at : Nat, size : Nat \ {0}])
Outcomes == [subs : SubBlocks, images : Nat] \cup {Gif!NoGif}
PlaceIn(g) == [off : 0..Len(g), want : {"marker", "sub"}]
ThenIn(g, f, off, want, subs, n) ==
  IF off >= Len(g) \/ f[[off |-> off, want |-> want]] = Gif!NoGif THEN Gif!NoGif
  ELSE [subs |-> subs \o f[[off |-> off, want |-> want]].subs,
        images |-> n + f[[off |-> off, want |-> want]].images]
DataIn(g, off) == off + 1 + DescriptorSize + (Byte(g, off + DescriptorSize) % 2) * ColourMapSize
WrittenBody(g, f, p) ==
  CASE p.want = "sub" /\ Byte(g, p.off) = 0 -> ThenIn(g, f, p.off + 1, "marker", <<>>, 0)
    [] p.want = "sub" /\ Byte(g, p.off) # 0 ->
         ThenIn(g, f, p.off + 1 + Byte(g, p.off), "sub",
                <<[at |-> p.off, size |-> Byte(g, p.off)]>>, 0)
    [] p.want = "marker" /\ Byte(g, p.off) = Gif!Terminator -> [subs |-> <<>>, images |-> 0]
    [] p.want = "marker" /\ Byte(g, p.off) = Gif!Introducer ->
         ThenIn(g, f, p.off + 2, "sub", <<>>, 0)
    [] p.want = "marker" /\ Byte(g, p.off) = Gif!Separator
         /\ Gif!CodeSizeOK(Byte(g, DataIn(g, p.off))) ->
         ThenIn(g, f, DataIn(g, p.off) + 1, "sub", <<>>, 1)
    [] OTHER -> Gif!NoGif
WrittenIn(g) == CHOOSE f : f = [p \in PlaceIn(g) |-> WrittenBody(g, f, p)]

\* What follows is an outcome, if what is written there is one.
LEMMA ThenType ==
  ASSUME NEW g \in Seq(Nat), NEW f, NEW off \in Nat, NEW want \in {"marker", "sub"},
         NEW subs \in SubBlocks, NEW n \in Nat,
         off < Len(g) => f[[off |-> off, want |-> want]] \in Outcomes
  PROVE  ThenIn(g, f, off, want, subs, n) \in Outcomes
<1>1. CASE off >= Len(g) \/ f[[off |-> off, want |-> want]] = Gif!NoGif
  BY <1>1 DEF ThenIn, Outcomes
<1>2. CASE ~(off >= Len(g) \/ f[[off |-> off, want |-> want]] = Gif!NoGif)
  <2>1. PICK w : w = f[[off |-> off, want |-> want]]
    OBVIOUS
  <2>2. w \in [subs : SubBlocks, images : Nat]
    BY <1>2, <2>1 DEF Outcomes
  <2>3. subs \o w.subs \in SubBlocks /\ n + w.images \in Nat
    BY <2>2 DEF SubBlocks
  <2>4. ThenIn(g, f, off, want, subs, n) = [subs |-> subs \o w.subs, images |-> n + w.images]
    BY <1>2, <2>1 DEF ThenIn
  <2> QED
    BY <2>3, <2>4 DEF Outcomes
<1> QED
  BY <1>1, <1>2

\* It is looked for behind the place.
LEMMA DataBehind ==
  ASSUME NEW g \in Seq(Nat), NEW off \in Nat, GifTypes
  PROVE  /\ Byte(g, off) \in Nat
         /\ DataIn(g, off) \in Nat /\ DataIn(g, off) > off
<1>1. \A k \in Nat : Byte(g, k) \in Nat
  BY DEF Byte
<1>2. off + DescriptorSize \in Nat
  BY DEF GifTypes
<1>3. PICK b \in Nat : b = Byte(g, off + DescriptorSize)
  BY <1>1, <1>2
<1>4. b % 2 \in {0, 1}
  OBVIOUS
<1>5. PICK c \in Nat : c = (b % 2) * ColourMapSize
  BY <1>4 DEF GifTypes
<1>6. DataIn(g, off) = off + 1 + DescriptorSize + c
  BY <1>3, <1>5 DEF DataIn
<1> QED
  BY <1>1, <1>2, <1>6 DEF GifTypes

\* So what is written from a place on is an outcome if it is one from every place behind it.
LEMMA WrittenType ==
  ASSUME NEW g \in Seq(Nat), GifTypes, NEW f, NEW p \in PlaceIn(g),
         \A q \in PlaceIn(g) : q.off > p.off => f[q] \in Outcomes
  PROVE  WrittenBody(g, f, p) \in Outcomes
<1>1. p.off \in Nat /\ p.want \in {"marker", "sub"}
  BY DEF PlaceIn
<1>2. PICK b \in Nat, d \in Nat :
        b = Byte(g, p.off) /\ d = DataIn(g, p.off) /\ d > p.off
  BY <1>1, DataBehind
<1>3. ASSUME NEW off \in Nat, off > p.off, NEW want \in {"marker", "sub"},
             NEW subs \in SubBlocks, NEW n \in Nat
      PROVE  ThenIn(g, f, off, want, subs, n) \in Outcomes
  <2>1. ASSUME off < Len(g) PROVE f[[off |-> off, want |-> want]] \in Outcomes
    <3>1. [off |-> off, want |-> want] \in PlaceIn(g)
      BY <2>1 DEF PlaceIn
    <3> QED
      BY <1>3, <3>1
  <2> QED
    BY <2>1, ThenType
<1>4. <<>> \in SubBlocks /\ [subs |-> <<>>, images |-> 0] \in Outcomes /\ Gif!NoGif \in Outcomes
  BY DEF SubBlocks, Outcomes
<1>5. CASE p.want = "sub" /\ b = 0
  <2>1. ThenIn(g, f, p.off + 1, "marker", <<>>, 0) \in Outcomes
    BY <1>1, <1>3, <1>4
  <2> QED
    BY <1>2, <1>5, <2>1 DEF WrittenBody
<1>6. CASE p.want = "sub" /\ b # 0
  <2>1. [at |-> p.off, size |-> b] \in [at : Nat, size : Nat \ {0}]
    BY <1>1, <1>6
  <2>2. <<[at |-> p.off, size |-> b]>> \in SubBlocks
    BY <2>1 DEF SubBlocks
  <2>3. p.off + 1 + b \in Nat /\ p.off + 1 + b > p.off
    BY <1>1
  <2>4. ThenIn(g, f, p.off + 1 + b, "sub", <<[at |-> p.off, size |-> b]>>, 0) \in Outcomes
    BY <1>3, <2>2, <2>3
  <2> QED
    BY <1>2, <1>6, <2>4 DEF WrittenBody
<1>7. CASE p.want = "marker"
  <2>1. ThenIn(g, f, p.off + 2, "sub", <<>>, 0) \in Outcomes
    BY <1>1, <1>3, <1>4
  <2>2. ThenIn(g, f, d + 1, "sub", <<>>, 1) \in Outcomes
    <3>1. d + 1 \in Nat /\ d + 1 > p.off
      BY <1>1, <1>2
    <3> QED
      BY <1>3, <1>4, <3>1
  <2> QED
    BY <1>2, <1>4, <1>7, <2>1, <2>2 DEF WrittenBody
<1> QED
  BY <1>1, <1>5, <1>6, <1>7

\* It depends on what is written behind the place only.
LEMMA WrittenLooksBehind ==
  ASSUME NEW g \in Seq(Nat), GifTypes, NEW f, NEW h, NEW p \in PlaceIn(g),
         \A q \in PlaceIn(g) : q.off > p.off => f[q] = h[q]
  PROVE  WrittenBody(g, f, p) = WrittenBody(g, h, p)
<1>1. p.off \in Nat /\ p.want \in {"marker", "sub"}
  BY DEF PlaceIn
<1>2. PICK b \in Nat, d \in Nat :
        b = Byte(g, p.off) /\ d = DataIn(g, p.off) /\ d > p.off
  BY <1>1, DataBehind
<1>3. ASSUME NEW off \in Nat, off > p.off, NEW want \in {"marker", "sub"}, NEW subs, NEW n
      PROVE  ThenIn(g, f, off, want, subs, n) = ThenIn(g, h, off, want, subs, n)
  <2>1. CASE off >= Len(g)
    BY <2>1 DEF ThenIn
  <2>2. CASE ~(off >= Len(g))
    <3>1. [off |-> off, want |-> want] \in PlaceIn(g)
      BY <2>2 DEF PlaceIn
    <3>2. f[[off |-> off, want |-> want]] = h[[off |-> off, want |-> want]]
      BY <1>3, <3>1
    <3> QED
      BY <3>2 DEF ThenIn
  <2> QED
    BY <2>1, <2>2
<1>4. /\ p.off + 1 > p.off /\ p.off + 1 + b > p.off /\ p.off + 2 > p.off /\ d + 1 > p.off
      /\ p.off + 1 \in Nat /\ p.off + 1 + b \in Nat /\ p.off + 2 \in Nat /\ d + 1 \in Nat
  BY <1>1, <1>2
<1>5. /\ ThenIn(g, f, p.off + 1, "marker", <<>>, 0) = ThenIn(g, h, p.off + 1, "marker", <<>>, 0)
      /\ ThenIn(g, f, p.off + 2, "sub", <<>>, 0) = ThenIn(g, h, p.off + 2, "sub", <<>>, 0)
      /\ ThenIn(g, f, d + 1, "sub", <<>>, 1) = ThenIn(g, h, d + 1, "sub", <<>>, 1)
  BY <1>3, <1>4
<1>6. ThenIn(g, f, p.off + 1 + b, "sub", <<[at |-> p.off, size |-> b]>>, 0)
        = ThenIn(g, h, p.off + 1 + b, "sub", <<[at |-> p.off, size |-> b]>>, 0)
  BY <1>3, <1>4
<1> QED
  BY <1>2, <1>5, <1>6 DEF WrittenBody

\* WrittenFrom obeys its equation, and is an outcome everywhere.
LEMMA WrittenIs ==
  ASSUME NEW g \in Seq(Nat), GifTypes
  PROVE  /\ WrittenIn(g) \in [PlaceIn(g) -> Outcomes]
         /\ \A p \in PlaceIn(g) : WrittenIn(g)[p] = WrittenBody(g, WrittenIn(g), p)
<1> DEFINE D == PlaceIn(g)
           O == Outcomes
           H == [x \in D \X [D -> O] |-> WrittenBody(g, x[2], x[1])]
           rank == [p \in D |-> Len(g) - p.off]
           S == {p \in D : WrittenIn(g)[p] \in O}
<1>0. Len(g) \in Nat /\ \A p \in D : p.off \in 0..Len(g)
  BY DEF PlaceIn
<1>1. ASSUME NEW p \in D, NEW f \in [D -> O] PROVE WrittenBody(g, f, p) \in O
  BY <1>1, WrittenType
<1>2. H \in [D \X [D -> O] -> O] /\ rank \in [D -> 0..Len(g)] /\ O # {}
  <2>1. H \in [D \X [D -> O] -> O]
    BY <1>1
  <2>2. rank \in [D -> 0..Len(g)]
    BY <1>0
  <2>3. O # {}
    BY DEF Outcomes
  <2> QED
    BY <2>1, <2>2, <2>3
<1>3. /\ \A p \in D : rank[p] = Len(g) - p.off
      /\ \A p \in D, f \in [D -> O] : H[<<p, f>>] = WrittenBody(g, f, p)
  OBVIOUS
<1>4. \A p, q \in D : q.off > p.off => rank[q] < rank[p]
  BY <1>0, <1>3
<1> HIDE DEF D, O, H, rank
<1>5. LooksBelow(D, O, H, rank)
  <2>1. ASSUME NEW p \in D, NEW f \in [D -> O], NEW h \in [D -> O],
               \A q \in D : rank[q] < rank[p] => f[q] = h[q]
        PROVE  H[<<p, f>>] = H[<<p, h>>]
    <3>1. \A q \in D : q.off > p.off => f[q] = h[q]
      BY <1>4, <2>1
    <3>2. WrittenBody(g, f, p) = WrittenBody(g, h, p)
      BY <3>1, WrittenLooksBehind DEF D
    <3> QED
      BY <1>3, <3>2
  <2> QED
    BY <2>1 DEF LooksBelow
<1>6. PICK f : Solves(D, O, H, f)
  <2>1. IsRecursion(D, O, H, rank, Len(g))
    BY <1>2, <1>5 DEF IsRecursion
  <2> QED
    BY <1>0, <2>1, RecursionExists
<1>7. f = [p \in D |-> WrittenBody(g, f, p)]
  BY <1>3, <1>6 DEF Solves
<1>8. WrittenIn(g) = [p \in D |-> WrittenBody(g, WrittenIn(g), p)]
  BY <1>7 DEF WrittenIn, D
<1>9. \A p \in D : WrittenIn(g)[p] = WrittenBody(g, WrittenIn(g), p)
  BY <1>8, Zenon
<1>10. D \subseteq S
  <2>1. ASSUME NEW p \in D, \A q \in D : rank[q] < rank[p] => q \in S
        PROVE  p \in S
    <3>1. \A q \in D : q.off > p.off => WrittenIn(g)[q] \in O
      BY <1>4, <2>1
    <3>2. WrittenBody(g, WrittenIn(g), p) \in O
      BY <3>1, WrittenType DEF D, O
    <3> QED
      BY <1>9, <3>2
  <2>2. rank \in [D -> Nat]
    BY <1>0, <1>2
  <2> HIDE DEF S
  <2> QED
    BY <2>1, <2>2, RankInduction
<1> QED
  BY <1>8, <1>9, <1>10 DEF D, O

\* They are what GifWalk has them to be, now and in the next state.
LEMMA EndOfIs ==
  /\ \A off : Gif!EndOfExtension(off) = EndIn(gif)[off]
  /\ \A off : Gif!EndOfExtension(off)' = EndIn(gif')[off]
  BY DEF Gif!EndOfExtension, Gif!N, EndIn, EndBody

\* Written is one of them.
WrittenOf(g) ==
  IF Len(g) = 0 THEN Gif!NoGif ELSE WrittenIn(g)[[off |-> 0, want |-> "marker"]]
LEMMA WrittenOfIs == Gif!Written = WrittenOf(gif) /\ Gif!Written' = WrittenOf(gif')
<1>1. Gif!WrittenFrom = WrittenIn(gif)
  BY DEF Gif!WrittenFrom, Gif!Place, Gif!N, Gif!ByteAt, WrittenIn, PlaceIn, WrittenBody, ThenIn,
         DataIn, Byte
<1>2. Gif!WrittenFrom' = WrittenIn(gif')
  BY DEF Gif!WrittenFrom, Gif!Place, Gif!N, Gif!ByteAt, WrittenIn, PlaceIn, WrittenBody, ThenIn,
         DataIn, Byte
<1> QED
  BY <1>1, <1>2 DEF Gif!Written, Gif!N, WrittenOf

-------------------------------------------------------------------------------

\* Of a file that is a GIF, s and n were written up to a place, and the rest is from there on.
Rest(g, off, want) == WrittenIn(g)[[off |-> off, want |-> want]]
UpToHere(g, s, n, off, want) ==
  /\ off \in 0..(Len(g) - 1)
  /\ Rest(g, off, want) \in [subs : SubBlocks, images : Nat]
  /\ WrittenOf(g).subs = s \o Rest(g, off, want).subs
  /\ WrittenOf(g).images = n + Rest(g, off, want).images

\* "Not one" is no list and number.
LEMMA NoGifIs ==
  /\ \A w \in [subs : SubBlocks, images : Nat] : w # Gif!NoGif
  /\ \A w \in Outcomes : w # Gif!NoGif => w \in [subs : SubBlocks, images : Nat]
<1>1. Gif!NoGif \notin [subs : SubBlocks, images : Nat]
  <2>1. Gif!NoGif.images = -1
    BY DEF Gif!NoGif
  <2> QED
    BY <2>1
<1> QED
  BY <1>1 DEF Outcomes

\* Sub-blocks may be joined in any order.
LEMMA SubsJoined ==
  ASSUME NEW s \in SubBlocks, NEW t \in SubBlocks, NEW u \in SubBlocks
  PROVE  s \o (t \o u) = (s \o t) \o u
<1>1. PICK S : SubBlocks = Seq(S)
  BY DEF SubBlocks
<1> QED
  BY <1>1, ConcatAssociative

\* What follows it is written behind it.
LEMMA ThenUpTo ==
  ASSUME NEW g \in Seq(Nat), GifTypes, NEW s \in SubBlocks, NEW n \in Nat, NEW off, NEW want,
         UpToHere(g, s, n, off, want),
         NEW next \in Nat, NEW also \in {"marker", "sub"}, NEW t \in SubBlocks, NEW m \in Nat,
         Rest(g, off, want) = ThenIn(g, WrittenIn(g), next, also, t, m)
  PROVE  UpToHere(g, s \o t, n + m, next, also)
<1>1. PICK w : w = Rest(g, next, also)
  OBVIOUS
<1>2. ThenIn(g, WrittenIn(g), next, also, t, m) # Gif!NoGif
  BY NoGifIs DEF UpToHere
<1>3. /\ next < Len(g) /\ w # Gif!NoGif
      /\ Rest(g, off, want) = [subs |-> t \o w.subs, images |-> m + w.images]
  BY <1>1, <1>2 DEF ThenIn, Rest
<1>4. w \in [subs : SubBlocks, images : Nat]
  <2>1. [off |-> next, want |-> also] \in PlaceIn(g)
    BY <1>3 DEF PlaceIn
  <2>2. w \in Outcomes
    BY <1>1, <2>1, WrittenIs DEF Rest
  <2> QED
    BY <1>3, <2>2, NoGifIs
<1>5. WrittenOf(g).subs = (s \o t) \o w.subs
  <2>1. Rest(g, off, want).subs = t \o w.subs
    BY <1>3, SMTT(30)
  <2>2. WrittenOf(g).subs = s \o (t \o w.subs)
    BY <2>1 DEF UpToHere
  <2>3. PICK u \in SubBlocks : u = w.subs
    BY <1>4
  <2> QED
    BY <2>2, <2>3, SubsJoined
<1>6. WrittenOf(g).images = (n + m) + w.images
  BY <1>3, <1>4 DEF UpToHere
<1>7. next \in 0..(Len(g) - 1)
  BY <1>3
<1> QED
  BY <1>1, <1>4, <1>5, <1>6, <1>7 DEF UpToHere

\* From a marker on.
LEMMA FromMarker ==
  ASSUME NEW g \in Seq(Nat), GifTypes, NEW s \in SubBlocks, NEW n \in Nat, NEW off,
         UpToHere(g, s, n, off, "marker")
  PROVE  /\ Byte(g, off) = Gif!Terminator =>
              WrittenOf(g).subs = s /\ WrittenOf(g).images = n
         /\ Byte(g, off) = Gif!Introducer => UpToHere(g, s, n, off + 2, "sub")
         /\ Byte(g, off) = Gif!Separator =>
              /\ Gif!CodeSizeOK(Byte(g, DataIn(g, off)))
              /\ UpToHere(g, s, n + 1, DataIn(g, off) + 1, "sub")
         /\ Byte(g, off) \in {Gif!Terminator, Gif!Introducer, Gif!Separator}
<1>1. off \in Nat /\ [off |-> off, want |-> "marker"] \in PlaceIn(g)
  BY DEF UpToHere, PlaceIn
<1>2. PICK p : /\ p.off = off /\ p.want = "marker"
               /\ Rest(g, off, "marker") = WrittenBody(g, WrittenIn(g), p)
  BY <1>1, WrittenIs DEF Rest
<1>3. PICK b \in Nat, d \in Nat : b = Byte(g, off) /\ d = DataIn(g, off)
  BY <1>1, DataBehind
<1>4. <<>> \in SubBlocks /\ s \o <<>> = s /\ n + 0 = n
  BY DEF SubBlocks
<1>5. /\ 44 = Gif!Separator /\ 33 = Gif!Introducer /\ 59 = Gif!Terminator
  BY DEF Gif!Separator, Gif!Introducer, Gif!Terminator
<1>6. CASE b = Gif!Terminator
  <2>1. Rest(g, off, "marker") = [subs |-> <<>>, images |-> 0]
    BY <1>2, <1>3, <1>5, <1>6 DEF WrittenBody
  <2>2. Rest(g, off, "marker").subs = <<>> /\ Rest(g, off, "marker").images = 0
    BY <2>1
  <2>3. WrittenOf(g).subs = s \o <<>> /\ WrittenOf(g).images = n + 0
    BY <2>2 DEF UpToHere
  <2> QED
    BY <1>3, <1>4, <1>5, <1>6, <2>3
<1>7. CASE b = Gif!Introducer
  <2>1. Rest(g, off, "marker") = ThenIn(g, WrittenIn(g), off + 2, "sub", <<>>, 0)
    BY <1>2, <1>3, <1>5, <1>7 DEF WrittenBody
  <2>2. off + 2 \in Nat
    BY <1>1
  <2>3. UpToHere(g, s \o <<>>, n + 0, off + 2, "sub")
    BY <1>4, <2>1, <2>2, ThenUpTo
  <2> QED
    BY <1>3, <1>4, <1>5, <1>7, <2>3
<1>8. CASE b = Gif!Separator
  <2>1. CASE Gif!CodeSizeOK(Byte(g, d))
    <3>1. Rest(g, off, "marker") = ThenIn(g, WrittenIn(g), d + 1, "sub", <<>>, 1)
      BY <1>2, <1>3, <1>5, <1>8, <2>1 DEF WrittenBody
    <3>2. UpToHere(g, s \o <<>>, n + 1, d + 1, "sub")
      <4>1. d + 1 \in Nat /\ 1 \in Nat
        OBVIOUS
      <4> QED
        BY <1>4, <3>1, <4>1, ThenUpTo
    <3> QED
      BY <1>3, <1>4, <1>5, <1>8, <2>1, <3>2
  <2>2. CASE ~Gif!CodeSizeOK(Byte(g, d))
    <3>1. Rest(g, off, "marker") = Gif!NoGif
      BY <1>2, <1>3, <1>5, <1>8, <2>2 DEF WrittenBody
    <3> QED
      BY <3>1, NoGifIs DEF UpToHere
  <2> QED
    BY <2>1, <2>2
<1>9. CASE b \notin {Gif!Terminator, Gif!Introducer, Gif!Separator}
  <2>1. Rest(g, off, "marker") = Gif!NoGif
    BY <1>2, <1>3, <1>9 DEF WrittenBody
  <2> QED
    BY <2>1, NoGifIs DEF UpToHere
<1> QED
  BY <1>6, <1>7, <1>8, <1>9

\* And from a sub-block on.
LEMMA FromSub ==
  ASSUME NEW g \in Seq(Nat), GifTypes, NEW s \in SubBlocks, NEW n \in Nat, NEW off,
         UpToHere(g, s, n, off, "sub"), NEW b, b = Byte(g, off)
  PROVE  /\ b = 0 => UpToHere(g, s, n, off + 1, "marker")
         /\ b # 0 => UpToHere(g, Append(s, [at |-> off, size |-> b]), n, off + 1 + b, "sub")
<1>1. off \in Nat /\ [off |-> off, want |-> "sub"] \in PlaceIn(g)
  BY DEF UpToHere, PlaceIn
<1>2. Rest(g, off, "sub") = WrittenBody(g, WrittenIn(g), [off |-> off, want |-> "sub"])
  BY <1>1, WrittenIs DEF Rest
<1>3. b \in Nat
  BY <1>1, DataBehind
<1>4. CASE b = 0
  <2>1. Rest(g, off, "sub") = ThenIn(g, WrittenIn(g), off + 1, "marker", <<>>, 0)
    BY <1>2, <1>4 DEF WrittenBody
  <2>2. <<>> \in SubBlocks /\ s \o <<>> = s /\ n + 0 = n /\ off + 1 \in Nat
    BY <1>1 DEF SubBlocks
  <2>3. UpToHere(g, s \o <<>>, n + 0, off + 1, "marker")
    BY <2>1, <2>2, ThenUpTo
  <2> QED
    BY <1>4, <2>2, <2>3
<1>5. CASE b # 0
  <2>1. PICK x \in [at : Nat, size : Nat \ {0}] : x = [at |-> off, size |-> b]
    BY <1>1, <1>3, <1>5
  <2>2. Rest(g, off, "sub") = ThenIn(g, WrittenIn(g), off + 1 + b, "sub", <<x>>, 0)
    BY <1>2, <1>5, <2>1 DEF WrittenBody
  <2>3. <<x>> \in SubBlocks /\ s \o <<x>> = Append(s, x) /\ n + 0 = n /\ off + 1 + b \in Nat
    BY <1>1, <1>3 DEF SubBlocks
  <2>4. UpToHere(g, s \o <<x>>, n + 0, off + 1 + b, "sub")
    BY <2>2, <2>3, ThenUpTo
  <2> QED
    BY <1>5, <2>1, <2>3, <2>4
<1> QED
  BY <1>4, <1>5

-------------------------------------------------------------------------------

\* The walk is where what was printed is all that is written in front of it; and the reader
\* of extensions is where the sub-blocks will have an end.
WalkedSoFar ==
  WrittenOf(gif) # Gif!NoGif =>
    /\ gifPc # "killed" /\ ddOff + glen <= Len(gif)
    /\ gifPc = "marker" => UpToHere(gif, shown, icnt, ddOff, "marker")
    /\ gifPc \in {"sub", "data"} => UpToHere(gif, shown, icnt, ddOff + glen, "sub")
    /\ gifPc \in {"shown", "declined"} =>
         WrittenOf(gif).subs = shown /\ WrittenOf(gif).images = icnt
    /\ gifPc = "declined" => icnt = 0
ExtensionSoFar ==
  gifPc = "sub" => ddOff + glen <= Len(gif) + 1 /\ dwoff = EndIn(gif)[ddOff + glen]
GifInv ==
  /\ GifTypes /\ Gif!TypeOK /\ WalkedSoFar /\ ExtensionSoFar
  /\ gifPc = "marker" => glen = 0

\* The walk starts at the first marker.
LEMMA InitGif == GifTypes /\ Gif!Init => GifInv
<1> SUFFICES ASSUME GifTypes, Gif!Init PROVE GifInv
  OBVIOUS
<1>1. gif \in Seq(Nat) /\ shown = <<>> /\ shown \in SubBlocks /\ icnt = 0 /\ ddOff = 0 /\ glen = 0
  BY DEF GifTypes, Gif!Init, SubBlocks
<1>2. Gif!TypeOK
  BY <1>1 DEF Gif!Init, Gif!TypeOK, SubBlocks
<1>3. ASSUME WrittenOf(gif) # Gif!NoGif PROVE UpToHere(gif, shown, icnt, ddOff, "marker")
  <2>1. Len(gif) \in Nat /\ Len(gif) # 0 /\ WrittenOf(gif) = Rest(gif, 0, "marker")
    BY <1>1, <1>3 DEF WrittenOf, Rest
  <2>2. [off |-> 0, want |-> "marker"] \in PlaceIn(gif)
    BY <2>1 DEF PlaceIn
  <2>3. PICK w \in [subs : SubBlocks, images : Nat] : w = WrittenOf(gif)
    BY <1>1, <1>3, <2>1, <2>2, WrittenIs, NoGifIs DEF Rest
  <2>4. <<>> \o w.subs = w.subs /\ 0 + w.images = w.images
    BY DEF SubBlocks
  <2>5. ddOff \in 0..(Len(gif) - 1)
    BY <1>1, <2>1
  <2> QED
    BY <1>1, <2>1, <2>3, <2>4, <2>5 DEF UpToHere
<1>4. WalkedSoFar
  <2>1. gifPc = "marker" /\ ddOff + glen <= Len(gif)
    BY <1>1 DEF Gif!Init
  <2> QED
    BY <1>3, <2>1 DEF WalkedSoFar
<1> QED
  BY <1>2, <1>4 DEF GifInv, ExtensionSoFar, Gif!Init

\* Numbers of the walk, and the bytes of the file and of the page behind it.
LEMMA NumbersAre ==
  ASSUME GifInv
  PROVE  /\ gif \in Seq(Nat) /\ Len(gif) \in Nat /\ Gif!N = Len(gif)
         /\ shown \in SubBlocks /\ icnt \in Nat /\ ddOff \in Nat /\ glen \in Nat
         /\ DescriptorSize \in Nat /\ ColourMapSize \in Nat
  BY DEF GifInv, Gif!TypeOK, Gif!N, SubBlocks, GifTypes

\* They are numbers, too.
LEMMA BytesAre ==
  ASSUME GifInv
  PROVE  /\ \A off : Gif!ByteAt(off) = Byte(gif, off)
         /\ \A off \in Nat : Byte(gif, off) \in Nat /\ (Byte(gif, off) # 0 => off < Len(gif))
<1>1. \A off \in Nat : Byte(gif, off) \in Nat /\ (Byte(gif, off) # 0 => off < Len(gif))
  BY NumbersAre DEF Byte
<1> QED
  BY <1>1 DEF Gif!N, Gif!ByteAt, Byte

\* Nobody looks behind the page in a file that is a GIF.
LEMMA KilledGif == GifInv /\ Gif!Killed => GifInv'
<1> SUFFICES ASSUME GifInv, Gif!Killed PROVE GifInv'
  OBVIOUS
<1>1. /\ gifPc \in {"marker", "sub", "data"} /\ gifPc' = "killed"
      /\ UNCHANGED <<gif, ddOff, glen, dwoff, icnt, shown>>
  BY DEF Gif!Killed
<1>2. ddOff + glen > Len(gif) + 1
  BY NumbersAre, BytesAre DEF Gif!Killed, Gif!Fault
<1>3. WrittenOf(gif) = Gif!NoGif
  <2>1. ~(ddOff + glen <= Len(gif))
    BY <1>2, NumbersAre
  <2> QED
    BY <2>1 DEF GifInv, WalkedSoFar
<1>4. Gif!TypeOK'
  BY <1>1 DEF GifInv, Gif!TypeOK
<1> QED
  BY <1>1, <1>3, <1>4 DEF GifInv, WalkedSoFar, ExtensionSoFar

\* The terminator ends the walk where the file is written to an end.
LEMMA EndGif == GifInv /\ Gif!End => GifInv'
<1> SUFFICES ASSUME GifInv, Gif!End PROVE GifInv'
  OBVIOUS
<1>1. /\ gifPc = "marker" /\ Byte(gif, ddOff) = Gif!Terminator
      /\ gifPc' = (IF icnt > 0 THEN "shown" ELSE "declined") /\ ddOff' = ddOff + 1
      /\ UNCHANGED <<gif, glen, dwoff, icnt, shown>>
  BY NumbersAre, BytesAre DEF Gif!End
<1>2. glen = 0 /\ ddOff < Len(gif)
  BY <1>1, NumbersAre, BytesAre DEF GifInv, Gif!Terminator
<1>3. Gif!TypeOK'
  BY <1>1, NumbersAre DEF GifInv, Gif!TypeOK
<1>4. WalkedSoFar'
  <2>1. SUFFICES ASSUME WrittenOf(gif) # Gif!NoGif PROVE WalkedSoFar'
    BY <1>1 DEF WalkedSoFar
  <2>2. WrittenOf(gif).subs = shown /\ WrittenOf(gif).images = icnt
    BY <1>1, <2>1, NumbersAre, FromMarker DEF GifInv, WalkedSoFar
  <2>3. ddOff' + glen' <= Len(gif)
    BY <1>1, <1>2, NumbersAre
  <2>4. gifPc' = "declined" => icnt = 0
    BY <1>1, NumbersAre
  <2> QED
    BY <1>1, <2>2, <2>3, <2>4 DEF WalkedSoFar
<1> QED
  BY <1>1, <1>3, <1>4 DEF GifInv, ExtensionSoFar

\* The reader of extensions is sent to the end of the first sub-blocks there.
LEMMA ExtensionGif == GifInv /\ Gif!Extension => GifInv'
<1> SUFFICES ASSUME GifInv, Gif!Extension PROVE GifInv'
  OBVIOUS
<1>1. /\ gifPc = "marker" /\ Byte(gif, ddOff) = Gif!Introducer
      /\ dwoff' = (IF ddOff + 1 >= Len(gif) THEN -1 ELSE EndIn(gif)[ddOff + 2])
      /\ ddOff' = ddOff + 2 /\ glen' = 0 /\ gifPc' = "sub"
      /\ UNCHANGED <<gif, icnt, shown>>
  <2>1. dwoff' = IF ddOff + 1 >= Len(gif) THEN -1 ELSE Gif!EndOfExtension(ddOff + 2)
    BY NumbersAre DEF Gif!Extension
  <2> QED
    BY <2>1, BytesAre, EndOfIs DEF Gif!Extension
<1>2. ddOff < Len(gif) /\ ddOff + 2 \in 0..(Len(gif) + 1)
  <2>1. Byte(gif, ddOff) # 0
    BY <1>1 DEF Gif!Introducer
  <2>2. ddOff < Len(gif)
    BY <2>1, NumbersAre, BytesAre
  <2> QED
    BY <2>2, NumbersAre
<1>3. EndIn(gif)[ddOff + 2] \in Nat \cup {-1} /\ dwoff' = EndIn(gif)[ddOff + 2]
  <2>1. ddOff + 1 >= Len(gif) => EndIn(gif)[ddOff + 2] = -1
    <3>1. ASSUME ddOff + 1 >= Len(gif) PROVE ddOff + 2 >= Len(gif)
      BY <3>1, NumbersAre
    <3> QED
      BY <1>2, <3>1, NumbersAre, EndIs DEF EndBody
  <2> QED
    BY <1>1, <1>2, <2>1, NumbersAre, EndIs
<1>4. Gif!TypeOK'
  BY <1>1, <1>3, NumbersAre DEF GifInv, Gif!TypeOK
<1>5. ddOff' + glen' = ddOff + 2
  BY <1>1, NumbersAre
<1>6. ExtensionSoFar'
  BY <1>1, <1>2, <1>3, <1>5, NumbersAre, SMTT(30) DEF ExtensionSoFar
<1>7. WalkedSoFar'
  <2>1. SUFFICES ASSUME WrittenOf(gif) # Gif!NoGif PROVE WalkedSoFar'
    BY <1>1 DEF WalkedSoFar
  <2>2. UpToHere(gif, shown, icnt, ddOff + 2, "sub")
    BY <1>1, <2>1, NumbersAre, FromMarker DEF GifInv, WalkedSoFar
  <2>3. ddOff + 2 <= Len(gif)
    BY <2>2, NumbersAre DEF UpToHere
  <2> QED
    BY <1>1, <1>5, <2>2, <2>3 DEF WalkedSoFar
<1> QED
  BY <1>1, <1>4, <1>6, <1>7 DEF GifInv

\* What is behind the descriptor is behind the colours, too, if there are any.
LEMMA PastIs == GifInv => Gif!PastDescriptor = DataIn(gif, ddOff)
<1> SUFFICES ASSUME GifInv PROVE Gif!PastDescriptor = DataIn(gif, ddOff)
  OBVIOUS
<1>1. ddOff + DescriptorSize \in Nat /\ ColourMapSize \in Nat
  BY NumbersAre DEF GifInv, GifTypes
<1>2. PICK b \in Nat : b = Byte(gif, ddOff + DescriptorSize)
  BY <1>1, BytesAre
<1>3. (b % 2) * ColourMapSize = IF b % 2 = 1 THEN ColourMapSize ELSE 0
  <2>1. b % 2 \in {0, 1}
    OBVIOUS
  <2> QED
    BY <1>1, <2>1
<1>4. Gif!ByteAt(ddOff + DescriptorSize) = b
  BY <1>2, BytesAre
<1> QED
  BY <1>2, <1>3, <1>4 DEF Gif!PastDescriptor, Gif!HasColours, DataIn

\* An image is counted where one is written.
LEMMA ImageGif == GifInv /\ Gif!Image => GifInv'
<1> SUFFICES ASSUME GifInv, Gif!Image PROVE GifInv'
  OBVIOUS
<1>1. PICK d \in Nat : d = DataIn(gif, ddOff)
  BY NumbersAre, BytesAre, DataBehind DEF GifInv
<1>2. /\ gifPc = "marker" /\ Byte(gif, ddOff) = Gif!Separator
      /\ UNCHANGED <<gif, dwoff, shown>>
      /\ IF \/ ddOff + 1 + DescriptorSize > Len(gif) \/ d > Len(gif)
            \/ ~Gif!CodeSizeOK(Byte(gif, d))
         THEN gifPc' = "declined" /\ UNCHANGED <<ddOff, glen, icnt>>
         ELSE /\ ddOff' = d + 1 /\ glen' = 0 /\ icnt' = icnt + 1 /\ gifPc' = "data"
  BY <1>1, NumbersAre, BytesAre, PastIs DEF Gif!Image, Gif!Fail
<1>3. Gif!TypeOK' /\ gifPc' \in {"data", "declined"}
  BY <1>2, NumbersAre, SMTT(30) DEF GifInv, Gif!TypeOK
<1>4. WalkedSoFar'
  <2>1. SUFFICES ASSUME WrittenOf(gif) # Gif!NoGif PROVE WalkedSoFar'
    BY <1>2 DEF WalkedSoFar
  <2>2. /\ Gif!CodeSizeOK(Byte(gif, d)) /\ UpToHere(gif, shown, icnt + 1, d + 1, "sub")
    BY <1>1, <1>2, <2>1, NumbersAre, FromMarker DEF GifInv, WalkedSoFar
  <2>3. d + 1 <= Len(gif) /\ d <= Len(gif)
    BY <2>2, NumbersAre, SMTT(30) DEF UpToHere
  <2>4. ddOff + 1 + DescriptorSize <= d
    <3>1. PICK b \in Nat : b = Byte(gif, ddOff + DescriptorSize)
      <4>1. ddOff + DescriptorSize \in Nat
        BY NumbersAre
      <4> QED
        BY <4>1, BytesAre
    <3>2. PICK c \in Nat : c = (b % 2) * ColourMapSize
      <4>1. b % 2 \in {0, 1}
        OBVIOUS
      <4> QED
        BY <4>1 DEF GifInv, GifTypes
    <3>3. d = ddOff + 1 + DescriptorSize + c
      BY <1>1, <3>1, <3>2 DEF DataIn
    <3> QED
      BY <3>3, NumbersAre
  <2>5. ~(ddOff + 1 + DescriptorSize > Len(gif)) /\ ~(d > Len(gif))
    BY <2>3, <2>4, NumbersAre, SMTT(30) DEF GifInv, GifTypes
  <2>6. ddOff' = d + 1 /\ glen' = 0 /\ icnt' = icnt + 1 /\ gifPc' = "data"
    BY <1>2, <2>2, <2>5
  <2>7. ddOff' + glen' = d + 1
    BY <2>6
  <2> QED
    BY <1>2, <2>2, <2>3, <2>6, <2>7 DEF WalkedSoFar
<1> QED
  BY <1>2, <1>3, <1>4 DEF GifInv, ExtensionSoFar

\* No other byte stands for a marker in a file that is a GIF.
LEMMA OtherGif == GifInv /\ Gif!Other => GifInv'
<1> SUFFICES ASSUME GifInv, Gif!Other PROVE GifInv'
  OBVIOUS
<1>1. /\ gifPc = "marker" /\ ddOff' = ddOff + 1
      /\ Byte(gif, ddOff) \notin {Gif!Terminator, Gif!Introducer, Gif!Separator}
      /\ UNCHANGED <<gif, gifPc, glen, dwoff, icnt, shown>>
  BY NumbersAre, BytesAre DEF Gif!Other
<1>2. WrittenOf(gif) = Gif!NoGif
  BY <1>1, NumbersAre, FromMarker DEF GifInv, WalkedSoFar
<1>3. Gif!TypeOK'
  BY <1>1, NumbersAre DEF GifInv, Gif!TypeOK
<1> QED
  BY <1>1, <1>2, <1>3 DEF GifInv, WalkedSoFar, ExtensionSoFar

\* A sub-block is printed where one is written, and both readers go on behind it.
LEMMA SubBlockGif == GifInv /\ Gif!SubBlock => GifInv' /\ Gif!ExtensionAgrees
<1> SUFFICES ASSUME GifInv, Gif!SubBlock PROVE GifInv' /\ Gif!ExtensionAgrees
  OBVIOUS
<1>1. PICK at \in Nat : at = ddOff + glen
  BY NumbersAre
<1>2. PICK b \in Nat : b = Byte(gif, at)
  BY BytesAre
<1>3. /\ gifPc \in {"sub", "data"} /\ b > 0 /\ at < Len(gif)
      /\ shown' = Append(shown, [at |-> at, size |-> b])
      /\ glen' = glen + b + 1
      /\ gifPc' = (IF ddOff + glen' > Len(gif) THEN "declined" ELSE gifPc)
      /\ UNCHANGED <<gif, ddOff, dwoff, icnt>>
  <2>1. Gif!ByteAt(ddOff + glen) = b /\ Gif!N = Len(gif)
    BY <1>1, <1>2, NumbersAre, BytesAre
  <2>2. b > 0
    BY <2>1 DEF Gif!SubBlock
  <2>3. at < Len(gif)
    BY <1>2, <2>2, BytesAre
  <2> QED
    BY <1>1, <2>1, <2>2, <2>3 DEF Gif!SubBlock, Gif!RunsOver, Gif!Fail
<1>4. ddOff' + glen' = at + 1 + b /\ ddOff + glen' = at + 1 + b
  <2>1. glen' = glen + b + 1 /\ ddOff' = ddOff
    BY <1>3
  <2>2. ddOff + (glen + b + 1) = at + 1 + b
    BY <1>1, NumbersAre
  <2> QED
    BY <2>1, <2>2
<1>5. Gif!TypeOK'
  <2>1. [at |-> at, size |-> b] \in [at : Nat, size : Nat \ {0}]
    BY <1>3
  <2>2. shown' \in SubBlocks /\ glen' \in Nat
    BY <1>3, <2>1, NumbersAre, SMTT(30) DEF SubBlocks
  <2>3. gifPc' \in {"sub", "data", "declined"}
    BY <1>3
  <2> QED
    BY <1>3, <2>2, <2>3 DEF GifInv, Gif!TypeOK, SubBlocks
<1>6. gifPc = "sub" =>
        dwoff = IF at + 1 + b > Len(gif) THEN -1 ELSE EndIn(gif)[at + 1 + b]
  <2>1. at \in 0..(Len(gif) + 1) /\ gif[at + 1] = b
    BY <1>2, <1>3, NumbersAre, BytesAre DEF Byte
  <2>2. EndIn(gif)[at] = EndBody(gif, EndIn(gif), at)
    BY <2>1, NumbersAre, EndIs
  <2>3. EndIn(gif)[at] = IF at + 1 + b > Len(gif) THEN -1 ELSE EndIn(gif)[at + 1 + b]
    BY <1>3, <2>1, <2>2, NumbersAre, BytesAre DEF EndBody
  <2> QED
    BY <1>1, <2>3 DEF GifInv, ExtensionSoFar
<1>7. ExtensionSoFar'
  <2>1. SUFFICES ASSUME gifPc' = "sub"
                 PROVE  at + 1 + b <= Len(gif) + 1 /\ dwoff = EndIn(gif)[at + 1 + b]
    BY <1>3, <1>4 DEF ExtensionSoFar
  <2>2. gifPc = "sub" /\ ~(at + 1 + b > Len(gif))
    BY <1>3, <1>4, <2>1
  <2> QED
    BY <1>6, <2>2, NumbersAre
<1>8. WalkedSoFar'
  <2>1. SUFFICES ASSUME WrittenOf(gif) # Gif!NoGif PROVE WalkedSoFar'
    BY <1>3 DEF WalkedSoFar
  <2>2. UpToHere(gif, shown, icnt, at, "sub")
    BY <1>1, <1>3, <2>1 DEF GifInv, WalkedSoFar
  <2>3. UpToHere(gif, Append(shown, [at |-> at, size |-> b]), icnt, at + 1 + b, "sub")
    <3>1. b # 0 /\ GifTypes
      BY <1>3 DEF GifInv
    <3> QED
      BY <1>2, <2>2, <3>1, NumbersAre, FromSub
  <2>4. at + 1 + b <= Len(gif)
    BY <2>3, NumbersAre DEF UpToHere
  <2>5. gifPc' = gifPc
    BY <1>3, <1>4, <2>4, NumbersAre
  <2> QED
    BY <1>3, <1>4, <2>3, <2>4, <2>5 DEF WalkedSoFar
<1>9. Gif!ExtensionAgrees
  <2>1. SUFFICES ASSUME gifPc = "sub", gifPc' # "sub" PROVE gifPc' = "declined" /\ dwoff = -1
    BY <1>3 DEF Gif!ExtensionAgrees
  <2> QED
    BY <1>3, <1>4, <1>6, <2>1
<1>10. gifPc' # "marker"
  BY <1>3
<1> QED
  BY <1>5, <1>7, <1>8, <1>9, <1>10 DEF GifInv

\* An empty one ends what both read, at the same place.
LEMMA LastSubBlockGif == GifInv /\ Gif!LastSubBlock => GifInv' /\ Gif!ExtensionAgrees
<1> SUFFICES ASSUME GifInv, Gif!LastSubBlock PROVE GifInv' /\ Gif!ExtensionAgrees
  OBVIOUS
<1>1. PICK at \in Nat : at = ddOff + glen
  BY NumbersAre
<1>2. /\ gifPc \in {"sub", "data"} /\ Byte(gif, at) = 0 /\ at <= Len(gif) + 1
      /\ ddOff' = at + 1 /\ glen' = 0
      /\ gifPc' = (IF at + 1 > Len(gif) THEN "declined" ELSE "marker")
      /\ UNCHANGED <<gif, dwoff, icnt, shown>>
  <2>1. Gif!ByteAt(ddOff + glen) = Byte(gif, at) /\ Gif!N = Len(gif)
    BY <1>1, NumbersAre, BytesAre
  <2> QED
    BY <1>1, <2>1, NumbersAre DEF Gif!LastSubBlock, Gif!Fault, Gif!Fail
<1>3. Gif!TypeOK'
  BY <1>2 DEF GifInv, Gif!TypeOK
<1>4. gifPc = "sub" => dwoff = IF at >= Len(gif) THEN -1 ELSE at + 1
  <2>1. at \in 0..(Len(gif) + 1) /\ (at < Len(gif) => gif[at + 1] = 0)
    BY <1>2, NumbersAre, BytesAre DEF Byte
  <2>2. EndIn(gif)[at] = EndBody(gif, EndIn(gif), at)
    BY <2>1, NumbersAre, EndIs
  <2>3. EndIn(gif)[at] = IF at >= Len(gif) THEN -1 ELSE at + 1
    BY <2>1, <2>2, NumbersAre, BytesAre DEF EndBody
  <2> QED
    BY <1>1, <2>3 DEF GifInv, ExtensionSoFar
<1>5. Gif!ExtensionAgrees
  BY <1>2, <1>4, NumbersAre DEF Gif!ExtensionAgrees
<1>6. WalkedSoFar'
  <2>1. SUFFICES ASSUME WrittenOf(gif) # Gif!NoGif PROVE WalkedSoFar'
    BY <1>2 DEF WalkedSoFar
  <2>2. UpToHere(gif, shown, icnt, at, "sub")
    BY <1>1, <1>2, <2>1 DEF GifInv, WalkedSoFar
  <2>3. UpToHere(gif, shown, icnt, at + 1, "marker")
    BY <1>2, <2>2, NumbersAre, FromSub DEF GifInv
  <2>4. at + 1 <= Len(gif)
    BY <2>3, NumbersAre DEF UpToHere
  <2>5. gifPc' = "marker" /\ ddOff' + glen' = at + 1
    BY <1>2, <2>4, NumbersAre
  <2> QED
    BY <1>2, <2>3, <2>4, <2>5 DEF WalkedSoFar
<1>7. gifPc' # "sub"
  BY <1>2
<1> QED
  BY <1>2, <1>3, <1>5, <1>6, <1>7 DEF GifInv, ExtensionSoFar

\* Every step keeps all of it, and so does none.
LEMMA StepGif == GifInv /\ [Gif!Next]_(Gif!gifVars) => GifInv' /\ Gif!ExtensionAgrees
<1> SUFFICES ASSUME GifInv, [Gif!Next]_(Gif!gifVars) PROVE GifInv' /\ Gif!ExtensionAgrees
  OBVIOUS
<1>1. CASE Gif!SubBlock \/ Gif!LastSubBlock
  BY <1>1, SubBlockGif, LastSubBlockGif
<1>2. CASE Gif!Killed
  <2>1. gifPc' = "killed"
    BY <1>2 DEF Gif!Killed
  <2> QED
    BY <1>2, <2>1, KilledGif DEF Gif!ExtensionAgrees
<1>3. CASE Gif!End \/ Gif!Extension \/ Gif!Image \/ Gif!Other
  <2>1. gifPc = "marker"
    BY <1>3 DEF Gif!End, Gif!Extension, Gif!Image, Gif!Other
  <2> QED
    BY <1>3, <2>1, EndGif, ExtensionGif, ImageGif, OtherGif DEF Gif!ExtensionAgrees
<1>4. CASE UNCHANGED Gif!gifVars
  <2>1. UNCHANGED <<gif, gifPc, ddOff, glen, dwoff, icnt, shown>>
    BY <1>4 DEF Gif!gifVars
  <2>2. Gif!TypeOK'
    BY <2>1, SMTT(30) DEF GifInv, Gif!TypeOK
  <2> QED
    BY <2>1, <2>2 DEF GifInv, WalkedSoFar, ExtensionSoFar, Gif!ExtensionAgrees
<1> QED
  BY <1>1, <1>2, <1>3, <1>4 DEF Gif!Next

\* What it says of a file that is a GIF.
LEMMA WalkedAsWritten == GifInv => Gif!BlocksAsWritten
<1> SUFFICES ASSUME GifInv, WrittenOf(gif) # Gif!NoGif
             PROVE  /\ gifPc # "killed" /\ ddOff + glen <= Len(gif)
                    /\ shown = SubSeq(WrittenOf(gif).subs, 1, Len(shown))
                    /\ icnt <= WrittenOf(gif).images
                    /\ gifPc = "shown" =>
                         shown = WrittenOf(gif).subs /\ icnt = WrittenOf(gif).images
                    /\ gifPc = "declined" =>
                         WrittenOf(gif).images = 0 /\ shown = WrittenOf(gif).subs
  BY WrittenOfIs DEF Gif!BlocksAsWritten, Gif!N
<1>1. \E t \in SubBlocks, m \in Nat :
        WrittenOf(gif).subs = shown \o t /\ WrittenOf(gif).images = icnt + m
  <2>1. CASE gifPc \in {"marker", "sub", "data"}
    <3>1. PICK off, want : UpToHere(gif, shown, icnt, off, want)
      BY <2>1 DEF GifInv, WalkedSoFar
    <3> QED
      BY <3>1 DEF UpToHere
  <2>2. CASE gifPc \in {"shown", "declined"}
    <3>1. <<>> \in SubBlocks /\ shown \o <<>> = shown /\ icnt + 0 = icnt
      BY NumbersAre, BytesAre DEF SubBlocks
    <3> QED
      BY <2>2, <3>1 DEF GifInv, WalkedSoFar
  <2> QED
    BY <2>1, <2>2 DEF GifInv, WalkedSoFar, Gif!TypeOK
<1>2. PICK t \in SubBlocks, m \in Nat :
        WrittenOf(gif).subs = shown \o t /\ WrittenOf(gif).images = icnt + m
  BY <1>1
<1>3. shown = SubSeq(shown \o t, 1, Len(shown))
  BY NumbersAre, BytesAre DEF SubBlocks
<1>4. icnt <= icnt + m
  BY NumbersAre, BytesAre
<1> QED
  BY <1>2, <1>3, <1>4 DEF GifInv, WalkedSoFar

-------------------------------------------------------------------------------
(* The readers side by side *)

\* What each reader keeps, of the file that was given to it.
ReadersInv ==
  /\ which = "ts" => TsInv
  /\ which = "vos" => VosInv
  /\ which = "wav" => WavInv
  /\ which = "gif" => GifInv

\* A step is one of the reader that was given the file.
LEMMA Turns ==
  [Next]_readerVars =>
    /\ which' = which
    /\ which = "ts" => [Ts!Next]_(Ts!tsVars)
    /\ which = "vos" => [Vos!Next]_(Vos!vosVars)
    /\ which = "wav" => [Wav!Next]_(Wav!wavVars)
    /\ which = "gif" => [Gif!Next]_(Gif!gifVars)
<1> SUFFICES ASSUME [Next]_readerVars
             PROVE  /\ which' = which
                    /\ which = "ts" => [Ts!Next]_(Ts!tsVars)
                    /\ which = "vos" => [Vos!Next]_(Vos!vosVars)
                    /\ which = "wav" => [Wav!Next]_(Wav!wavVars)
                    /\ which = "gif" => [Gif!Next]_(Gif!gifVars)
  OBVIOUS
<1>1. CASE Next
  BY <1>1 DEF Next
<1>2. CASE UNCHANGED readerVars
  BY <1>2 DEF readerVars, Ts!tsVars, Vos!vosVars, Wav!wavVars, Gif!gifVars
<1> QED
  BY <1>1, <1>2

\* Every reader starts with what it keeps.
LEMMA InitReaders == Init => ReadersInv
<1> SUFFICES ASSUME Init PROVE ReadersInv
  OBVIOUS
<1>1. which = "ts" => Ts!Init
  BY DEF Init
<1>2. which = "vos" => Vos!Init
  BY DEF Init
<1>3. which = "wav" => Wav!Init
  BY DEF Init
<1>4. which = "gif" => Gif!Init
  BY DEF Init
<1> QED
  BY <1>1, <1>2, <1>3, <1>4, InitTs, InitVos, InitWav, InitGif, StreamsAssumption,
     TablesAssumption, WavesAssumption, GifsAssumption DEF ReadersInv

\* No step takes it from any of them.
LEMMA StepReaders == ReadersInv /\ [Next]_readerVars => ReadersInv'
BY Turns, StepTs, StepVos, StepWav, StepGif DEF ReadersInv

\* What the readers keep and tell has its type, for files of any bytes, packets or chunks.
THEOREM ReadersTypes ==
  Spec => [](/\ which = "ts" => Ts!TypeOK
             /\ which = "vos" => Vos!TypeOK
             /\ which = "wav" => Wav!TypeOK
             /\ which = "gif" => Gif!TypeOK)
<1>1. ReadersInv => /\ which = "ts" => Ts!TypeOK
                    /\ which = "vos" => Vos!TypeOK
                    /\ which = "wav" => Wav!TypeOK
                    /\ which = "gif" => Gif!TypeOK
  BY DEF ReadersInv, TsInv, VosInv, WavInv, GifInv
<1> QED
  BY <1>1, InitReaders, StepReaders, PTL DEF Spec

\* The PIDs and the packets of transport streams are counted as they are printed, over all
\* the files of a command, and the units of a file as they stand at its begin, where no file
\* before it begins with one; for commands and files of any length.
THEOREM StreamsAreCounted == Spec => []StreamsCounted
<1>1. ReadersInv => StreamsCounted
  BY CountedAlways DEF ReadersInv, StreamsCounted
<1> QED
  BY <1>1, InitReaders, StepReaders, PTL DEF Spec

\* A sound file is shown by the chunk that is its data up to its end, behind chunks that follow
\* each other by their true sizes: where the sum of a size and the head is too large for a DWORD,
\* IsWAVFile does not come to the data, and DumpWAV is not asked. A table is declined only
\* if it has no blocks; otherwise each size of its blocks is shown once with their number,
\* whatever impostors are shown, too: the list has room for all. And a size that is a
\* multiple of another is told to be one, with the right number.
THEOREM TablesAreShown == Spec => []TablesShown
<1>1. WavInv => Wav!DataShown
  <2> SUFFICES ASSUME WavInv, wavPc = "done" PROVE Wav!DataShown
    BY DEF Wav!DataShown
  <2>1. PICK n \in Nat, at \in Nat \ {0} : n = Wav!Cells /\ at = pwd
    BY CellsAre DEF WavInv, Spread
  <2>2. at >= 1 /\ n + at - 1 >= n /\ (at = 1 => n + at - 1 = n)
    BY <2>1
  <2> QED
    BY <2>1, <2>2 DEF WavInv, Spread, Wav!DataShown
<1>2. ReadersInv => TablesShown
  BY <1>1, StridesAre, TimesAre DEF ReadersInv, TablesShown
<1> QED
  BY <1>2, InitReaders, StepReaders, PTL DEF Spec

\* A file that is a GIF is walked from block to block: every sub-block that is written is
\* printed once and in order, no byte behind the end is looked at, and the file is shown if
\* it holds an image, with all that is written in it. The two readers of an extension agree
\* about where it ends in any file. All this for files of any bytes and of any length, and
\* whatever the sizes of descriptors and colour maps are.
THEOREM GifsAreWalked == Spec => GifsWalked
<1>1. ReadersInv => (which = "gif" => Gif!BlocksAsWritten)
  BY WalkedAsWritten DEF ReadersInv
<1>2. ReadersInv /\ [Next]_readerVars => (which = "gif" => Gif!ExtensionAgrees)
  BY Turns, StepGif DEF ReadersInv
<1> QED
  BY <1>1, <1>2, InitReaders, StepReaders, PTL DEF Spec, GifsWalked
===============================================================================

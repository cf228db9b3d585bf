------------------------------ MODULE TarFields -------------------------------
(***************************************************************************)
(* What the reader of TAR archives makes of the fields of a member:        *)
(* from_header and decode_header of src/src/DumpTar2.c for the numbers of  *)
(* its header, and DumpTarX.c for the records of the extended headers that *)
(* stand before it. A tape is what read_header_primitive finds in all      *)
(* archives of a command, one after the other, as TarWalk walks them; the  *)
(* block "end" is the beginning of another archive. Texts are sequences of *)
(* bytes. A keyword is one letter here.                                    *)
(***************************************************************************)
EXTENDS Integers, Sequences, SequencesExt

CONSTANTS
  Tapes,           \* the sequences of headers to be read
  UintBits,        \* bits of an uintmax_t, off64_t and size_t, and of a signed time_t
  FractionDigits   \* LOG10_BILLION

\* An extended header is the list of its records, each with the bytes it has in the file.
\* A number with the highest bit set fills its field from the first byte.
Byte == 0..255
Pax == [keyword : Seq(Byte), value : Seq(Byte), bytes : Seq(Byte)]
Header == [type : {"member"}, size : Seq(Byte), mtime : Seq(Byte)]
          \cup [type : {"ext", "global"}, records : Seq(Pax)]
          \cup [type : {"other", "end"}]

VARIABLES
  tape,      \* the headers
  next,      \* the one to be read next
  fieldPc,
  xhdr,      \* the text of the extended header in front of the member
  global,    \* its global_header_override_list, the head of the list first
  stat,      \* current_stat_info
  p,         \* where the next record is expected
  shown      \* history: the members listed, with the header each is

fieldVars == <<tape, next, fieldPc, xhdr, global, stat, p, shown>>

UintMax == 2^UintBits - 1
TimeMax == 2^(UintBits - 1) - 1
TimeMin == -(2^(UintBits - 1))
Signed(u) == IF u > TimeMax THEN u - 2^UintBits ELSE u

Blank == {32, 9}
White == (9..13) \cup {32}
Digit == 48..57
Octal == 48..55
Newline == 10
Equals == 61
Comma == 44
Point == 46
Plus == 43
Minus == 45
KeywordOf == [mtime |-> <<109>>, size |-> <<115>>, numblocks |-> <<110>>,
              offset |-> <<111>>, numbytes |-> <<98>>, map |-> <<112>>]

\* The byte behind the end of a text is 0.
At(s, i) == IF i <= Len(s) THEN s[i] ELSE 0
\* The first place from i on that holds no byte of S.
Past(S, s, i) ==
  LET past[j \in Nat] == IF j <= Len(s) /\ s[j] \in S THEN past[j + 1] ELSE j
  IN  past[i]
Number(base, s) == FoldLeft(LAMBDA v, c : v * base + c - 48, 0, s)
Decimal(s) == Number(10, s)
CString(s) == SubSeq(s, 1, Past(1..255, s, 1) - 1)

-------------------------------------------------------------------------------
(* The numbers of a header: all ones where there is none *)

NoNumber == UintMax

Base64Digit(c) ==
  CASE c \in 65..90 -> c - 65
    [] c \in 97..122 -> c - 71
    [] c \in Digit -> c + 4
    [] c = Plus -> 62
    [] c = 47 -> 63
    [] OTHER -> 64
Base64Bytes == {c \in Byte : Base64Digit(c) < 64}

\* A digit is not taken where the shift before it loses bits.
Over == -1
Add64(v, c) == IF v = Over \/ v >= 2^(UintBits - 6) THEN Over ELSE v * 64 + Base64Digit(c)

\* Bytes of two's complement: the value must be what it is after a shift there and
\* back, with the sign in its highest byte, before another byte is taken.
TopBits(negative) == IF negative THEN 255 * 2^(UintBits - 8) ELSE 0
Fits256(v, negative) == (v % 2^(UintBits - 8)) + TopBits(negative) = v
Shift256(v, c) == (v * 256 + c) % 2^UintBits
Add256_Unchecked(v, c, negative) == Shift256(v, c)
Add256(v, c, negative) ==
  IF v = Over \/ ~Fits256(v, negative) THEN Over ELSE Shift256(v, c)
Base256(f, w) ==
  LET negative == f[w] = 255
  IN  FoldLeft(LAMBDA v, c : Add256(v, c, negative), IF negative THEN UintMax ELSE 0,
               SubSeq(f, w + 1, Len(f)))

\* What is behind the digits, the value and its sign decide: a value with a sign may
\* be as great as the least one of its type, and the others as the greatest.
Verdict(f, end, value, negative, minus_minval, maxval) ==
  IF \/ value = Over
     \/ At(f, end) \notin White \cup {0}
     \/ value > (IF negative THEN minus_minval ELSE maxval)
  THEN NoNumber
  ELSE IF negative THEN (2^UintBits - value) % 2^UintBits ELSE value

\* Buggy writers leave a NUL in front, older ones blanks. Octal digits of the fields
\* there are do not fill an uintmax_t.
from_header(f, minus_minval, maxval) ==
  LET w == Past(White, f, IF f[1] = 0 THEN 2 ELSE 1)
      octal == Past(Octal, f, w)
      base64 == Past(Base64Bytes, f, w + 1)
      sum256 == Base256(f, w)
  IN  CASE w > Len(f) -> NoNumber
        [] f[w] \in Octal ->
             Verdict(f, octal, Number(8, SubSeq(f, w, octal - 1)), FALSE, minus_minval, maxval)
        [] f[w] \in {Plus, Minus} ->
             Verdict(f, base64, FoldLeft(Add64, 0, SubSeq(f, w + 1, base64 - 1)),
                     f[w] = Minus, minus_minval, maxval)
        [] f[w] = 128 -> Verdict(f, Len(f) + 1, sum256, FALSE, minus_minval, maxval)
        [] f[w] = 255 ->
             Verdict(f, Len(f) + 1,
                     IF sum256 = Over THEN Over ELSE (2^UintBits - sum256) % 2^UintBits,
                     TRUE, minus_minval, maxval)
        [] OTHER -> Verdict(f, w, 0, FALSE, minus_minval, maxval)

off_from_header(f) == from_header(f, 0, UintMax)
time_from_header(f) == Signed(from_header(f, -TimeMin, TimeMax))

-------------------------------------------------------------------------------
(* The values of records *)

\* decode_num: digits and nothing else.
IsNumber(s, maxval) ==
  s # <<>> /\ Past(Digit, s, 1) > Len(s) /\ Decimal(s) <= maxval

\* _decode_time: seconds and a fraction that is cut towards the past.
NoTime == [sec |-> 0, nsec |-> -1]
Billion == 10^FractionDigits
Nanoseconds(digits) ==
  Decimal([k \in 1..FractionDigits |-> IF k <= Len(digits) THEN digits[k] ELSE 48])
CutOff(digits) == \E k \in (FractionDigits + 1)..Len(digits) : digits[k] # 48
Before_TowardsZero(s, ns) == [sec |-> s, nsec |-> ns % Billion]
Before(s, ns) == IF ns = 0 THEN [sec |-> s, nsec |-> 0] ELSE [sec |-> s - 1, nsec |-> Billion - ns]
decode_time(s) ==
  LET first == IF At(s, 1) = Minus THEN 2 ELSE 1
      lim == Past(Digit, s, first)
      end == IF At(s, lim) = Point THEN Past(Digit, s, lim + 1) ELSE lim
      whole == Decimal(SubSeq(s, first, lim - 1))
      fraction == SubSeq(s, lim + 1, end - 1)
      ns == Nanoseconds(fraction)
      earlier == Before(-whole, ns + IF CutOff(fraction) THEN 1 ELSE 0)
  IN  CASE lim = first \/ end <= Len(s) -> NoTime
        [] first = 2 -> IF -whole < TimeMin \/ earlier.sec < TimeMin THEN NoTime ELSE earlier
        [] OTHER -> IF whole > TimeMax THEN NoTime ELSE [sec |-> whole, nsec |-> ns]

\* sparse_map_decoder: the numbers between the commas, up to one that is none.
Numbers(s) ==
  LET n[i \in 1..(Len(s) + 1)] ==
        LET end == Past(Digit, s, i)
            number == SubSeq(s, i, end - 1)
        IN  IF ~IsNumber(number, UintMax) THEN <<>>
            ELSE <<Decimal(number)>> \o IF At(s, end) = Comma THEN n[end + 1] ELSE <<>>
  IN  n[1]
Fewer(a, b) == IF a < b THEN a ELSE b
Mapped(st, n) ==
  LET pairs == Fewer(Len(n) \div 2, Len(st.map))
  IN  [st EXCEPT !.avail = pairs,
                 !.map = [k \in DOMAIN @ |->
                            IF k <= pairs THEN [offset |-> n[2 * k - 1], numbytes |-> n[2 * k]]
                            ELSE @[k]]]

\* The decoders of xhdr_tab that set a number; a value that is none changes nothing. The
\* map of 1.14 comes in records of its own, an offset before its number of bytes.
Slot == [offset |-> 0, numbytes |-> 0]
decx(st, keyword, value) ==
  LET v == CString(value)
      k == KeywordOf
      number == IsNumber(v, UintMax)
      free == st.avail < Len(st.map)
  IN  CASE keyword = k.mtime /\ decode_time(v) # NoTime -> [st EXCEPT !.mtime = decode_time(v)]
        [] keyword = k.size /\ number -> [st EXCEPT !.size = Decimal(v)]
        [] keyword = k.numblocks /\ number ->
             [st EXCEPT !.map = [i \in 1..Decimal(v) |-> Slot], !.avail = 0]
        [] keyword = k.offset /\ IsNumber(v, TimeMax) /\ free ->
             [st EXCEPT !.map[st.avail + 1].offset = Decimal(v)]
        [] keyword = k.numbytes /\ number /\ free ->
             [st EXCEPT !.map[st.avail + 1].numbytes = Decimal(v), !.avail = @ + 1]
        [] keyword = k.map -> Mapped(st, Numbers(v))
        [] OTHER -> st

-------------------------------------------------------------------------------
(* The records *)

\* decode_record: a length that counts itself, a blank, a keyword, an equals sign, a value
\* and the end of the line.
Text(records) == FlattenSeq([i \in DOMAIN records |-> records[i].bytes])
PastRecord_OneLess(start, len) == start + len - 1
PastRecord(start, len) == start + len
Record(s, start) ==
  LET first == Past(Blank, s, start)
      lim == Past(Digit, s, first)
      len == Decimal(SubSeq(s, first, lim - 1))
      key == Past(Blank, s, lim)
      eq == Past((1..255) \ {Equals}, s, key)
      nextp == PastRecord(start, len)
      ok == /\ lim > first /\ len <= Len(s) + 1 - start
            /\ key > lim
            /\ At(s, eq) = Equals /\ eq < nextp
            /\ s[nextp - 1] = Newline
  IN  IF ok THEN [ok |-> TRUE, keyword |-> SubSeq(s, key, eq - 1),
                  value |-> SubSeq(s, eq + 1, nextp - 2), nextp |-> nextp]
            ELSE [ok |-> FALSE]

\* decg puts a record in front of the list, and the list is run from its head.
decg(list, keyword, value) == <<[keyword |-> keyword, value |-> CString(value)]>> \o list
run_override_list(list, st) == FoldLeft(LAMBDA acc, r : decx(acc, r.keyword, r.value), st, list)

-------------------------------------------------------------------------------

NoStat == [size |-> 0, mtime |-> [sec |-> 0, nsec |-> 0], map |-> <<>>, avail |-> 0]

Reading(type) == fieldPc = "head" /\ next <= Len(tape) /\ tape[next].type = type

\* xheader_read; another extended header takes the place of an earlier one.
ReadExtended ==
  /\ Reading("ext")
  /\ xhdr' = Text(tape[next].records)
  /\ next' = next + 1
  /\ UNCHANGED <<tape, fieldPc, global, stat, p, shown>>

\* xheader_decode_global: the records of the last global header are forgotten.
ReadGlobal_Kept ==
  /\ Reading("global")
  /\ p' = 1 /\ fieldPc' = "global"
  /\ UNCHANGED <<tape, next, xhdr, global, stat, shown>>
ReadGlobal ==
  /\ Reading("global")
  /\ global' = <<>> /\ p' = 1 /\ fieldPc' = "global"
  /\ UNCHANGED <<tape, next, xhdr, stat, shown>>

\* decode_record has no record: the next header.
GlobalRecord ==
  /\ fieldPc = "global"
  /\ \E r \in {Record(Text(tape[next].records), p)} :
         IF r.ok THEN global' = decg(global, r.keyword, r.value) /\ p' = r.nextp
                      /\ UNCHANGED <<fieldPc, next>>
                 ELSE fieldPc' = "head" /\ next' = next + 1 /\ UNCHANGED <<global, p>>
  /\ UNCHANGED <<tape, xhdr, stat, shown>>

\* decode_header takes the header first and then the global list, before any record.
ReadMember ==
  /\ Reading("member")
  /\ stat' = run_override_list(global,
               [NoStat EXCEPT !.size = off_from_header(tape[next].size),
                              !.mtime.sec = time_from_header(tape[next].mtime)])
  /\ p' = 1 /\ fieldPc' = "records"
  /\ UNCHANGED <<tape, next, xhdr, global, shown>>

MemberRecord ==
  /\ fieldPc = "records"
  /\ \E r \in {Record(xhdr, p)} :
       r.ok /\ stat' = decx(stat, r.keyword, r.value) /\ p' = r.nextp
  /\ UNCHANGED <<tape, next, fieldPc, xhdr, global, shown>>

\* print_header; the next turn of DumpTAR begins with tar_stat_destroy.
PrintHeader ==
  /\ fieldPc = "records" /\ ~Record(xhdr, p).ok
  /\ shown' = Append(shown, [at |-> next, stat |-> stat])
  /\ xhdr' = <<>> /\ stat' = NoStat /\ fieldPc' = "head" /\ next' = next + 1
  /\ UNCHANGED <<tape, global, p>>

\* A block that is no header, and another archive: the global list is kept.
Forget_NotTheText ==
  /\ Reading("other") \/ Reading("end")
  /\ stat' = NoStat /\ next' = next + 1
  /\ UNCHANGED <<tape, fieldPc, xhdr, global, p, shown>>
Forget ==
  /\ Reading("other") \/ Reading("end")
  /\ xhdr' = <<>> /\ stat' = NoStat /\ next' = next + 1
  /\ UNCHANGED <<tape, fieldPc, global, p, shown>>

Init ==
  /\ tape \in Tapes
  /\ next = 1 /\ fieldPc = "head" /\ xhdr = <<>> /\ global = <<>> /\ stat = NoStat
  /\ p = 1 /\ shown = <<>>

Next == ReadExtended \/ ReadGlobal \/ GlobalRecord \/ ReadMember \/ MemberRecord
        \/ PrintHeader \/ Forget

Spec == Init /\ [][Next]_fieldVars /\ WF_fieldVars(Next)

-------------------------------------------------------------------------------
(* Properties *)

Stat == [size : 0..UintMax, mtime : [sec : TimeMin..TimeMax, nsec : 0..(Billion - 1)],
         map : Seq([offset : 0..UintMax, numbytes : 0..UintMax]), avail : Nat]
TypeOK ==
  /\ tape \in Seq(Header) /\ next \in 1..(Len(tape) + 1) /\ p \in Nat \ {0}
  /\ fieldPc \in {"head", "global", "records"}
  /\ xhdr \in Seq(Byte) /\ global \in Seq([keyword : Seq(Byte), value : Seq(Byte)])
  /\ stat \in Stat /\ stat.avail <= Len(stat.map)
  /\ shown \in Seq([at : 1..Len(tape), stat : Stat])

\* What a field means, with integers that have no end; 0 is not written as all ones.
Sum256(s) == FoldLeft(LAMBDA v, c : v * 256 + c, 0, s)
Meant(f) ==
  LET digits == SelectSeq(f, LAMBDA c : c \notin White \cup {0, Plus, Minus})
  IN  CASE f[1] = 128 -> Sum256(Tail(f))
        [] f[1] = 255 -> Sum256(Tail(f)) - 256^(Len(f) - 1)
        [] Plus \in ToSet(f) -> FoldLeft(LAMBDA v, c : v * 64 + Base64Digit(c), 0, digits)
        [] Minus \in ToSet(f) -> -FoldLeft(LAMBDA v, c : v * 64 + Base64Digit(c), 0, digits)
        [] OTHER -> Number(8, digits)
\* Blanks or a NUL, a number in one of four forms, and blanks or NULs.
WellWritten(f) ==
  \/ f[1] \in {128, 255} /\ Meant(f) # -(2^UintBits)
  \/ \E i \in 0..1, n \in 1..Len(f) :
       /\ i + n <= Len(f)
       /\ \A k \in 1..i : f[k] \in {32, 0}
       /\ \A k \in (i + n + 1)..Len(f) : f[k] \in {32, 0}
       /\ \/ \A k \in (i + 1)..(i + n) : f[k] \in Octal
          \/ f[i + 1] \in {Plus, Minus}
             /\ \A k \in (i + 2)..(i + n) : f[k] \in Base64Bytes \ {Plus}
InRange(n, low, high) == IF n \in low..high THEN n ELSE -1

\* Every number that fits is read as what it means, whatever its form, and every other one
\* is told apart from it: no shift loses a bit unseen. Nothing is said of one number, the
\* negative of the first that is too great for an uintmax_t (see WellWritten).
NumbersRead ==
  (fieldPc = "head" /\ next <= Len(tape) /\ tape[next].type = "member") =>
    /\ WellWritten(tape[next].size) =>
         off_from_header(tape[next].size) =
           InRange(Meant(tape[next].size), 0, UintMax) % 2^UintBits
    /\ WellWritten(tape[next].mtime) =>
         time_from_header(tape[next].mtime) = InRange(Meant(tape[next].mtime), TimeMin, TimeMax)

\* A record as tar writes it: its length is the least that counts itself.
Width10(n) == CHOOSE w \in 1..9 : 10^(w - 1) <= n /\ n < 10^w
Written(keyword, value) ==
  LET rest == Len(keyword) + Len(value) + 3
      w == CHOOSE k \in 1..3 : /\ Width10(rest + k) = k
                               /\ \A j \in 1..(k - 1) : Width10(rest + j) # j
      n == rest + w
  IN  [k \in 1..w |-> 48 + ((n \div 10^(w - k)) % 10)]
        \o <<32>> \o keyword \o <<Equals>> \o value \o <<Newline>>
\* The records up to the first one that is damaged.
Sound(records) ==
  LET bad == {i \in DOMAIN records :
                records[i].bytes # Written(records[i].keyword, records[i].value)}
  IN  IF bad = {} THEN records
      ELSE SubSeq(records, 1, (CHOOSE i \in bad : \A j \in bad : i <= j) - 1)

\* The last place before i with a header of one of these types, or 0.
LastOf(types, i) ==
  LET S == {j \in 1..(i - 1) : tape[j].type \in types}
  IN  IF S = {} THEN 0 ELSE CHOOSE j \in S : \A k \in S : k <= j
GlobalOf(i) == IF LastOf({"global"}, i) = 0 THEN <<>>
               ELSE Sound(tape[LastOf({"global"}, i)].records)
OwnOf(i) == LET j == LastOf({"ext"}, i)
            IN  IF j > LastOf({"member", "other", "end"}, i) THEN Sound(tape[j].records) ELSE <<>>

\* A time, in the units of its fraction, rounded down; or none.
Floor(v) ==
  LET bare == SelectSeq(v, LAMBDA c : c \in Digit)
      point == {i \in DOMAIN v : v[i] = Point}
      decimals == IF point = {} THEN 0 ELSE Len(v) - CHOOSE i \in point : TRUE
  IN  ((IF v[1] = Minus THEN -Decimal(bare) ELSE Decimal(bare)) * Billion) \div 10^decimals
Units(time) == time.sec * Billion + time.nsec
TimeOf(v) ==
  LET s == IF v # <<>> /\ v[1] = Minus THEN Tail(v) ELSE v
  IN  /\ s # <<>> /\ s[1] \in Digit /\ ToSet(s) \subseteq Digit \cup {Point}
      /\ \A i, j \in DOMAIN s : s[i] = Point /\ s[j] = Point => i = j
TimeFits(v) == TimeOf(v) /\ Floor(v) \div Billion \in TimeMin..TimeMax
NumberFits(v) == IsNumber(v, UintMax)

Of(records, keyword, Fits(_)) ==
  SelectSeq(records, LAMBDA r : r.keyword = keyword /\ Fits(r.value))

\* What the records say by the rule that of those in conflict the last one takes precedence:
\* a member has what the last record of its own extended header gives, else the last one of
\* the last global header of its archive, else what its header says.
Ruling(own, global_, header, meaning(_)) ==
  CASE own # <<>> -> meaning(Last(own).value)
    [] own = <<>> /\ global_ # <<>> -> meaning(Last(global_).value)
    [] OTHER -> header
\* Two cases are left out, as the code does not keep to the rule there: records of one global
\* header that are in conflict, and a member whose archive has no global header, behind
\* an archive that has one.
Agreed(records) == \A i, j \in DOMAIN records : records[i].value = records[j].value
ForeignGlobal(i) == LastOf({"global"}, i) \in 1..LastOf({"end"}, i)

\* A member has the time and the size its records and its header say. A time is rounded
\* towards the past.
MembersDescribed ==
  \A k \in DOMAIN shown :
    LET i == shown[k].at
        st == shown[k].stat
        time(records) == Of(records, KeywordOf.mtime, TimeFits)
        size(records) == Of(records, KeywordOf.size, NumberFits)
    IN  /\ (time(OwnOf(i)) # <<>> \/ (Agreed(time(GlobalOf(i))) /\ ~ForeignGlobal(i))) =>
             Units(st.mtime) = Ruling(time(OwnOf(i)), time(GlobalOf(i)),
                                      time_from_header(tape[i].mtime) * Billion, Floor)
        /\ (size(OwnOf(i)) # <<>> \/ (Agreed(size(GlobalOf(i))) /\ ~ForeignGlobal(i))) =>
             st.size = Ruling(size(OwnOf(i)), size(GlobalOf(i)),
                              off_from_header(tape[i].size), Decimal)

\* The text of the pairs of a map.
Digits10(n) == LET w == IF n = 0 THEN 1 ELSE Width10(n)
               IN  [k \in 1..w |-> 48 + ((n \div 10^(w - k)) % 10)]
Pairs(map) ==
  FlattenSeq([k \in DOMAIN map |-> (IF k = 1 THEN <<>> ELSE <<Comma>>)
                \o Digits10(map[k].offset) \o <<Comma>> \o Digits10(map[k].numbytes)])
Commas(v) == Len(SelectSeq(v, LAMBDA c : c = Comma))
Paired(v) ==
  /\ ToSet(v) \subseteq Digit \cup {Comma} /\ Commas(v) % 2 = 1
  /\ \A i \in DOMAIN v : v[i] = Comma => At(v, i + 1) \in Digit /\ i > 1
Alternating(own) ==
  \A i \in 2..Len(own) :
    /\ own[i].keyword = IF i % 2 = 0 THEN KeywordOf.offset ELSE KeywordOf.numbytes
    /\ IsNumber(own[i].value, TimeMax)

\* The map of a sparse member has the pairs of its records, in their order and no more of
\* them than its number of blocks says, whether they come one by one or in one record.
MapsKept ==
  \A k \in DOMAIN shown :
    LET own == OwnOf(shown[k].at)
        st == shown[k].stat
        n == Decimal(own[1].value)
        pairs == Fewer(n, (Len(own) - 1) \div 2)
        map == SubSeq(st.map, 1, st.avail)
    IN  (own # <<>> /\ own[1].keyword = KeywordOf.numblocks /\ GlobalOf(shown[k].at) = <<>>) =>
          /\ Alternating(own) =>
               map = [j \in 1..pairs |-> [offset |-> Decimal(own[2 * j].value),
                                          numbytes |-> Decimal(own[2 * j + 1].value)]]
          /\ (Len(own) = 2 /\ own[2].keyword = KeywordOf.map /\ Paired(own[2].value)) =>
               /\ SubSeq(own[2].value, 1, Len(Pairs(map))) = Pairs(map)
               /\ st.avail = Fewer(n, (Commas(own[2].value) + 1) \div 2)

Ended == fieldPc = "head" /\ next > Len(tape)
===============================================================================

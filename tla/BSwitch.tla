------------------------------- MODULE BSwitch --------------------------------
(***************************************************************************)
(* The switches -BLOCKS:nn[Xn]:... and -BMP[n][:br=nn:...], Do_BLOCK_CMD   *)
(* and Do_B_Opt of src/src/DumpHelp.c, and the display that the first of   *)
(* them rules: HexDump, which shows the file by the list of blocks         *)
(* g_pHexBlock. The text is read one character at a time.                  *)
(***************************************************************************)
EXTENDS HexDump, FiniteSets

CONSTANTS
  BlockTexts,  \* texts behind -BLOCKS; Do_B_Opt has made sure of their first colon
  BmpTexts     \* texts behind -BMP

Digits == <<"0", "1", "2", "3", "4", "5", "6", "7", "8", "9">>
Digit == ToSet(Digits)
Letter == {"B", "R", "C", "E", "X"}     \* X stands for every other letter
Char == Digit \cup Letter \cup {":", "=", "?"}

ASSUME TextsAssumption ==
  /\ BlockTexts \subseteq {s \in Seq(Char) : s # <<>> /\ s[1] = ":"}
  /\ BmpTexts \subseteq Seq(Char)

\* The list of blocks is what the switch makes of its text.
ASSUME ListAssumption == BlockLists = {}

VARIABLES
  switch,          \* "blocks" or "bmp"
  text, at,        \* the text and the position in it
  sw,              \* where the switch is: "colon", "num", "cnt", "taken", "refused"
  ptmp1, ptmp2,    \* the digits of a number of bytes, and of a count
  giBmpVerb, g_BmpBgnEnd

switchVars == <<switch, text, at, sw, ptmp1, ptmp2, giBmpVerb, g_BmpBgnEnd>>
hexVars == <<rd, gdwBgnOff, gdwEndOff, g_DoAsDWORDS, g_SwapBytes,
             pc, walk, ir, dwe, line, rows>>

-------------------------------------------------------------------------------

More == at <= Len(text)
Here == text[at]

\* atoi, whose result is kept in a DWORD.
DigitValue(d) == CHOOSE n \in 0..9 : Digits[n + 1] = d
Value(digits) == FoldLeft(LAMBDA n, d : (10 * n + DigitValue(d)) % Modulus, 0, digits)

\* A number that is not there is 1.
Given(digits) == IF digits = <<>> THEN 1 ELSE Value(digits)

\* UsageX: the program ends.
Refuse ==
  /\ sw' = "refused"
  /\ UNCHANGED <<hexVars, g_pHexBlock, switch, text, at, ptmp1, ptmp2,
                 giBmpVerb, g_BmpBgnEnd>>

-------------------------------------------------------------------------------
(* Do_BLOCK_CMD *)

\* The colon before an entry.
Colon ==
  /\ switch = "blocks" /\ sw = "colon" /\ More /\ Here = ":"
  /\ at' = at + 1 /\ sw' = "num" /\ ptmp1' = <<>> /\ ptmp2' = <<>>
  /\ UNCHANGED <<hexVars, g_pHexBlock, switch, text, giBmpVerb, g_BmpBgnEnd>>

InEntry == switch = "blocks" /\ sw \in {"num", "cnt"}
Ends == More => Here = ":"

NumDigit ==
  /\ InEntry /\ ~Ends /\ Here \in Digit
  /\ IF sw = "num" THEN ptmp1' = Append(ptmp1, Here) /\ UNCHANGED ptmp2
                   ELSE ptmp2' = Append(ptmp2, Here) /\ UNCHANGED ptmp1
  /\ at' = at + 1
  /\ UNCHANGED <<hexVars, g_pHexBlock, switch, text, sw, giBmpVerb, g_BmpBgnEnd>>

ToCount ==
  /\ InEntry /\ sw = "num" /\ ~Ends /\ Here = "X"
  /\ sw' = "cnt" /\ at' = at + 1
  /\ UNCHANGED <<hexVars, g_pHexBlock, switch, text, ptmp1, ptmp2, giBmpVerb, g_BmpBgnEnd>>

BadBlock ==
  /\ InEntry /\ ~Ends /\ Here \notin Digit /\ ~(sw = "num" /\ Here = "X")
  /\ Refuse

\* The entry is stored as it was given, with a zero if it has one.
Store ==
  /\ InEntry /\ Ends
  /\ g_pHexBlock' = Append(g_pHexBlock, [num |-> Given(ptmp1), cnt |-> Given(ptmp2)])
  /\ sw' = "colon"
  /\ UNCHANGED <<hexVars, switch, text, at, ptmp1, ptmp2, giBmpVerb, g_BmpBgnEnd>>

\* A zero would end the list, and becomes 1.
NotZero_Kept(n) == n
NotZero(n) == IF n = 0 THEN 1 ELSE n
BlocksDone ==
  /\ switch = "blocks" /\ sw = "colon" /\ ~More
  /\ g_pHexBlock' = [k \in DOMAIN g_pHexBlock |->
                       [num |-> NotZero(g_pHexBlock[k].num),
                        cnt |-> NotZero(g_pHexBlock[k].cnt)]]
  /\ sw' = "taken"
  /\ UNCHANGED <<hexVars, switch, text, at, ptmp1, ptmp2, giBmpVerb, g_BmpBgnEnd>>

-------------------------------------------------------------------------------
(* Do_B_Opt: one turn of its loop over the text behind -BMP *)

\* The first position from p on that is not in S.
Past(p, S) ==
  CHOOSE q \in p..(Len(text) + 1) :
    /\ q <= Len(text) => text[q] \notin S
    /\ \A k \in p..(q - 1) : text[k] \in S
Number(p) == Value(SubSeq(text, p, Past(p, Digit) - 1))

InBmp == switch = "bmp" /\ sw = "colon" /\ More

Verbosity ==
  /\ InBmp /\ Here \in Digit
  /\ giBmpVerb' = Number(at)
  /\ at' = Past(at, Digit)
  /\ UNCHANGED <<hexVars, g_pHexBlock, switch, text, sw, ptmp1, ptmp2, g_BmpBgnEnd>>

\* What stands behind a colon: two letters, an equal sign and a digit.
Limits == {"B", "E"} \X {"R", "C"}
Limit == SubSeq(text, at + 1, at + 2)
LimitGiven ==
  /\ Past(at + 1, Letter) = at + 3 /\ Limit \in Limits
  /\ at + 4 <= Len(text) /\ text[at + 3] = "=" /\ text[at + 4] \in Digit

SetLimit ==
  /\ InBmp /\ Here = ":" /\ LimitGiven
  /\ g_BmpBgnEnd' = [g_BmpBgnEnd EXCEPT ![Limit] = Number(at + 4)]
  /\ at' = Past(at + 4, Digit)
  /\ UNCHANGED <<hexVars, g_pHexBlock, switch, text, sw, ptmp1, ptmp2, giBmpVerb>>

BadLimit == InBmp /\ Here = ":" /\ ~LimitGiven /\ Refuse

BmpDone ==
  /\ switch = "bmp" /\ sw = "colon" /\ ~More
  /\ sw' = "taken"
  /\ UNCHANGED <<hexVars, g_pHexBlock, switch, text, at, ptmp1, ptmp2, giBmpVerb, g_BmpBgnEnd>>

\* Any other character is looked at again and again.
Stuck == InBmp /\ Here \notin Digit \cup {":"}
Turns == Stuck /\ UNCHANGED <<vars, switchVars>>

-------------------------------------------------------------------------------

SwitchInit ==
  /\ Init
  /\ \/ switch = "blocks" /\ text \in BlockTexts
     \/ switch = "bmp" /\ text \in BmpTexts
  /\ at = 1 /\ sw = "colon" /\ ptmp1 = <<>> /\ ptmp2 = <<>>
  /\ giBmpVerb = 0 /\ g_BmpBgnEnd = [l \in Limits |-> 0]

Parse ==
  \/ Colon \/ NumDigit \/ ToCount \/ BadBlock \/ Store \/ BlocksDone
  \/ Verbosity \/ SetLimit \/ BadLimit \/ BmpDone \/ Turns

\* ProcessData is called once the command has been parsed.
Dump == sw = "taken" /\ Step /\ UNCHANGED switchVars

SwitchNext == Parse \/ Dump

\* One thread, and nothing it waits for.
SwitchSpec ==
  /\ SwitchInit /\ [][SwitchNext]_<<vars, switchVars>>
  /\ WF_<<vars, switchVars>>(SwitchNext)

-------------------------------------------------------------------------------
(* Properties *)

\* Entries of a list of blocks, as the help describes them: what stands between
\* two colons is a number of bytes and, behind an X, a count; each is 1 if it is
\* missing or zero.
Colons == {k \in DOMAIN text : text[k] = ":"}
Field(c) ==
  LET past == {d \in Colons : d > c} \cup {Len(text) + 1}
  IN  SubSeq(text, c + 1, (CHOOSE d \in past : \A e \in past : d <= e) - 1)
IsEntry(f) ==
  /\ \A k \in DOMAIN f : f[k] \in Digit \cup {"X"}
  /\ \A j, k \in DOMAIN f : f[j] = "X" /\ f[k] = "X" => j = k
Amount(digits) == IF digits = <<>> \/ Value(digits) = 0 THEN 1 ELSE Value(digits)
Entry(f) ==
  LET x == {k \in DOMAIN f : f[k] = "X"}
      n == IF x = {} THEN Len(f) + 1 ELSE CHOOSE k \in x : TRUE
  IN  [num |-> Amount(SubSeq(f, 1, n - 1)), cnt |-> Amount(SubSeq(f, n + 1, Len(f)))]

\* The list that HexDump follows has one entry for each colon, with the numbers
\* behind it, and a text that is no list is refused. No entry ends the list early.
BlocksAsTyped ==
  switch = "blocks" =>
    /\ sw = "refused" => \E c \in Colons : ~IsEntry(Field(c))
    /\ sw = "taken" =>
         /\ \A c \in Colons : IsEntry(Field(c))
         /\ Len(g_pHexBlock) = Cardinality(Colons)
         /\ \A c \in Colons :
              g_pHexBlock[Cardinality({d \in Colons : d <= c})] = Entry(Field(c))

\* A program that is given a list of blocks refuses it or dumps the file, however
\* the sum of cursor and block size wraps; one that is given -BMP goes on, unless it
\* meets a character that is neither a digit nor a colon.
EndsUnlessStuck == <>(sw = "refused" \/ pc = "done" \/ Stuck)
===============================================================================

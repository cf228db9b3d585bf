------------------------------- MODULE TeleList -------------------------------
(***************************************************************************)
(* Telephone lists: DoGeoff of src/src/Dump4g.c for one file after the     *)
(* other, and OutLineMem at the end of the program. A file is a sequence   *)
(* of blocks, each ended by a boundary line. The part of a block before    *)
(* its first comma, the head, is a sequence of words; what is behind it is *)
(* one token. A text is a sequence of tokens, compared token by token as   *)
(* strcmp does with their characters; spaces are left out. The heads kept  *)
(* for the next entries are buffers that only some blocks set anew.        *)
(***************************************************************************)
EXTENDS Integers, Sequences, FiniteSets, SequencesExt, TLC

CONSTANT Books  \* sequences of blocks: [head, comma, far, tail], where comma says that
                \* there is one and far that it is behind the NMMX2C-th character

\* Words are [fst, snd], snd being 0 unless there is a hyphen; names are tokens from 10 on.
Amp == 1
Star == 2
Title == 3   \* MR, MRS, MS, MISS of glpSalutes
Firm == 4    \* LTD, or a word of digits: IsSal knows it whatever is behind it
See == 5
Plus == 6
Hyphen == 7
Comma == 8

VARIABLES
  book,        \* the blocks of all the files
  opt,         \* [extra, see]: gbDoExtra, gbUseSee
  telePc,
  blockNo,
  head1,       \* gcHead1: the last head that was taken
  lnCnt,       \* giLnCnt
  headX1, headX2,
  entry,       \* the texts in memory, [text, block], by address
  gsLines,     \* [Flink, Blink], 0 being the head of the list
  iRank,
  pass,        \* i of OutLineMem
  written      \* history: the addresses of the texts written

teleVars == <<book, opt, telePc, blockNo, head1, lnCnt, headX1, headX2, entry, gsLines,
              iRank, pass, written>>

-------------------------------------------------------------------------------
(* Heads *)

WordText(w) == IF w.snd = 0 THEN <<w.fst>> ELSE <<w.fst, Hyphen, w.snd>>
TextOf(words) == FlattenSeq([i \in DOMAIN words |-> WordText(words[i])])

\* GetWdCnt: an ampersand is no word
GetWdCnt(words) == Cardinality({i \in DOMAIN words : words[i].fst # Amp})

\* Check4Ms: a title is moved behind the name.
Check4Ms(words) ==
  IF Len(words) > 1 /\ words[1].fst = Title THEN Tail(words) \o <<words[1]>> ELSE words

\* CheckBlock: two names before one family name.
GotTwo(words) ==
  /\ GetWdCnt(words) >= 3
  /\ words[1].fst # Amp /\ \E i \in DOMAIN words : words[i].fst = Amp
FirstOf(words) ==
  IF GotTwo(words) THEN <<words[1]>> \o SubSeq(words, 4, Len(words)) ELSE words
SecondOf(words) == SubSeq(words, 3, Len(words))

IsSal(w, last) == w.fst = Firm \/ (w.fst = Title /\ ~last)

\* Where the family name begins. The head that is asked ends with the comma, so that a title
\* at its end is not known as one.
FamilyAt(words) ==
  LET n == Len(words)
  IN  CASE GetWdCnt(words) < 2 -> 0
        [] ~IsSal(words[n], TRUE) -> n
        [] GetWdCnt(words) > 2 /\ ~IsSal(words[n - 1], FALSE) -> n - 1
        [] OTHER -> 0

\* grtrimall
Trimmed(text) ==
  LET kept == {0} \cup {i \in DOMAIN text : text[i] \notin {Amp, Star, Plus, Hyphen, Comma}}
  IN  SubSeq(text, 1, CHOOSE i \in kept : \A j \in kept : j <= i)

\* GetXHdrs: the family name to the front; each part of one with a hyphen by itself.
Rotated(words) ==
  LET k == FamilyAt(words)
      w == words[k]
      rest == TextOf(SubSeq(words, k + 1, Len(words))) \o <<Comma>>
      front == <<Star>> \o TextOf(SubSeq(words, 1, k - 1))
  IN  CASE k = 0 -> <<>>
        [] k > 0 /\ w.snd = 0 -> <<Trimmed(<<w.fst>> \o rest \o front)>>
        [] OTHER -> <<Trimmed(<<w.fst, Plus>> \o front),
                      Trimmed(<<w.snd>> \o rest \o <<Plus>> \o front)>>

-------------------------------------------------------------------------------
(* The list *)

InsertTailList_HeadStays(list, e) ==
  LET last == list.Blink[0]
  IN  [Flink |-> (last :> e) @@ (e :> 0) @@ list.Flink,
       Blink |-> (e :> last) @@ list.Blink]
InsertTailList(list, e) ==
  LET last == list.Blink[0]
  IN  [Flink |-> (last :> e) @@ (e :> 0) @@ list.Flink,
       Blink |-> (0 :> e) @@ (e :> last) @@ list.Blink]

RemoveHeadList(list) ==
  LET first == list.Flink[0]
      second == list.Flink[first]
      left == DOMAIN list.Flink \ {first}
  IN  [Flink |-> [x \in left |-> IF x = 0 THEN second ELSE list.Flink[x]],
       Blink |-> [x \in left |-> IF x = second THEN 0 ELSE list.Blink[x]]]

IsListEmpty(list) == list.Flink[0] = 0

\* The addresses on the way along Flink
Traversed ==
  LET from[x \in DOMAIN gsLines.Flink] ==
        IF x = 0 THEN <<>> ELSE <<x>> \o from[gsLines.Flink[x]]
  IN  from[gsLines.Flink[0]]
Listed == Range(Traversed)

\* strcmp
Less(s, t) ==
  \/ IsStrictPrefix(s, t)
  \/ \E i \in DOMAIN s \cap DOMAIN t : s[i] < t[i] /\ \A j \in 1..(i - 1) : s[j] = t[j]

-------------------------------------------------------------------------------

Block == book[blockNo]
More == blockNo <= Len(book)

\* The head the block is given by CheckBlock: one that is too long to be copied is replaced
\* by what is in the buffer.
HeadOf(b) == IF b.far THEN head1 ELSE FirstOf(Check4Ms(b.head))

\* bAdd2List: an entry, one for the second name, and one for each of the heads rotated.
Texts(b, head, lns, x1, x2) ==
  LET tail == <<Comma, b.tail>>
      other == IF opt.see THEN <<Comma, See>> \o TextOf(head) \o <<Comma>> ELSE tail
  IN  <<TextOf(head) \o tail>>
      \o (IF ~b.far /\ GotTwo(Check4Ms(b.head))
          THEN <<TextOf(SecondOf(Check4Ms(b.head))) \o other>> ELSE <<>>)
      \o (IF lns > 1 THEN <<x1 \o other>> ELSE <<>>)
      \o (IF lns > 2 THEN <<x2 \o other>> ELSE <<>>)

Add2List(added) ==
  \E texts \in {added} :
    /\ entry' = entry \o [i \in DOMAIN texts |-> [text |-> texts[i], block |-> blockNo]]
    /\ gsLines' = FoldLeft(InsertTailList, gsLines,
                           [i \in DOMAIN texts |-> Len(entry) + i])

\* OutBlock of a block without a comma: one entry, and no head is touched.
Plain ==
  /\ telePc = "read" /\ More /\ ~Block.comma
  /\ Add2List(<<TextOf(Block.head) \o <<Block.tail>>>>)
  /\ blockNo' = blockNo + 1
  /\ UNCHANGED <<book, opt, telePc, head1, lnCnt, headX1, headX2, iRank, pass, written>>

\* GetHdrs: the heads are built anew.
GetHdrs_Kept(head) ==
  \E r \in {IF opt.extra THEN Rotated(head) ELSE <<>>} :
    IF r = <<>> THEN UNCHANGED <<lnCnt, headX1, headX2>>
    ELSE /\ lnCnt' = 1 + Len(r)
         /\ headX1' = r[1]
         /\ headX2' = IF Len(r) = 2 THEN r[2] ELSE <<>>
GetHdrs(head) ==
  \E r \in {IF opt.extra THEN Rotated(head) ELSE <<>>} :
    /\ lnCnt' = 1 + Len(r)
    /\ headX1' = IF r # <<>> THEN r[1] ELSE <<>>
    /\ headX2' = IF Len(r) = 2 THEN r[2] ELSE <<>>

\* ... of a block with a comma. One that begins with it leaves the heads as they are.
Named ==
  /\ telePc = "read" /\ More /\ Block.comma
  /\ \E head \in {HeadOf(Block)} :
       /\ head1' = head
       /\ IF head = <<>> THEN UNCHANGED <<lnCnt, headX1, headX2>> ELSE GetHdrs(head)
       /\ Add2List(Texts(Block, head, lnCnt', headX1', headX2'))
  /\ blockNo' = blockNo + 1
  /\ UNCHANGED <<book, opt, telePc, iRank, pass, written>>

\* SetRank: one more than the texts before this one, and 0 if there is no other.
SetRank_Unequal(e) ==
  Cardinality({o \in Listed : entry[o].text # entry[e].text /\ ~Less(entry[e].text, entry[o].text)})
  + Cardinality({o \in Listed : o < e})
SetRank(e) ==
  IF Listed = {e} THEN 0
  ELSE 1 + Cardinality({o \in Listed \ {e} : Less(entry[o].text, entry[e].text)})

SortList ==
  /\ telePc = "read" /\ ~More
  /\ iRank' = [e \in Listed |-> SetRank(e)]
  /\ telePc' = IF IsListEmpty(gsLines) THEN "done" ELSE "write"
  /\ UNCHANGED <<book, opt, blockNo, head1, lnCnt, headX1, headX2, entry, gsLines, pass,
                 written>>

\* OutLineMem: one way through the list for each rank.
Pass ==
  /\ telePc = "write" /\ pass <= Cardinality(Listed) + 1
  /\ written' = written \o SelectSeq(Traversed, LAMBDA e : iRank[e] = pass)
  /\ pass' = pass + 1
  /\ UNCHANGED <<book, opt, telePc, blockNo, head1, lnCnt, headX1, headX2, entry, gsLines,
                 iRank>>

Passed ==
  /\ telePc = "write" /\ pass > Cardinality(Listed) + 1
  /\ telePc' = "delete"
  /\ UNCHANGED <<book, opt, blockNo, head1, lnCnt, headX1, headX2, entry, gsLines, iRank,
                 pass, written>>

\* DeleteListMem
Delete ==
  /\ telePc = "delete"
  /\ gsLines' = RemoveHeadList(gsLines)
  /\ telePc' = IF IsListEmpty(gsLines') THEN "done" ELSE "delete"
  /\ UNCHANGED <<book, opt, blockNo, head1, lnCnt, headX1, headX2, entry, iRank, pass,
                 written>>

-------------------------------------------------------------------------------

Init ==
  /\ book \in Books /\ opt \in [extra : BOOLEAN, see : BOOLEAN]
  /\ telePc = "read" /\ blockNo = 1
  /\ head1 = <<>> /\ lnCnt = 0 /\ headX1 = <<>> /\ headX2 = <<>>
  /\ entry = <<>> /\ gsLines = [Flink |-> [x \in {0} |-> 0], Blink |-> [x \in {0} |-> 0]]
  /\ iRank = <<>> /\ pass = 0 /\ written = <<>>

Next == Plain \/ Named \/ SortList \/ Pass \/ Passed \/ Delete

Spec == Init /\ [][Next]_teleVars /\ WF_teleVars(Next)

-------------------------------------------------------------------------------
(* Properties *)

TypeOK ==
  /\ telePc \in {"read", "write", "delete", "done"} /\ blockNo \in 1..(Len(book) + 1)
  /\ lnCnt \in 0..3 /\ headX1 \in Seq(Nat) /\ headX2 \in Seq(Nat)
  /\ \A e \in DOMAIN entry : entry[e].text \in Seq(Nat) /\ entry[e].block \in DOMAIN book
  /\ gsLines \in [Flink : [DOMAIN gsLines.Flink -> 0..Len(entry)],
                  Blink : [DOMAIN gsLines.Flink -> 0..Len(entry)]]
  /\ pass \in 0..(Len(entry) + 2) /\ written \in Seq(DOMAIN entry)

\* The links of the list make one ring, in the order the entries were added, and an entry
\* is in it until the list is deleted.
Ring ==
  /\ \A x \in DOMAIN gsLines.Flink :
       /\ gsLines.Blink[gsLines.Flink[x]] = x /\ gsLines.Flink[gsLines.Blink[x]] = x
       /\ gsLines.Flink[x] = 0 \/ gsLines.Flink[x] > x
  /\ telePc \in {"read", "write"} => DOMAIN gsLines.Flink = 0..Len(entry)

\* A name of an entry is one of its own block, unless that begins with its comma or has a
\* head that is too long: then the heads of an earlier block are used again.
OwnNames ==
  \A e \in DOMAIN entry :
    LET b == book[entry[e].block]
        own == Range(TextOf(b.head))
    IN  ~(b.comma /\ (b.far \/ b.head = <<>>)) =>
          \A i \in DOMAIN entry[e].text : entry[e].text[i] >= 10 =>
             entry[e].text[i] \in own \cup {b.tail}

\* Every entry is written once, each one before those greater than it, and equal ones in the
\* order of their files and blocks.
WrittenSorted ==
  telePc = "done" =>
    /\ Len(written) = Len(entry) /\ Range(written) = DOMAIN entry
    /\ \A i, j \in DOMAIN written : i < j =>
         LET s == entry[written[i]].text
             t == entry[written[j]].text
         IN  Less(s, t) \/ (s = t /\ written[i] < written[j])

Ended == telePc = "done"
===============================================================================

-------------------------------- MODULE CisBook --------------------------------
(***************************************************************************)
(* CompuServe address books: chkcis of src/src/Dumpcis.c, which walks from *)
(* entry to entry, and chkcis2, which looks at the first one. Nothing is   *)
(* compared with the size of the file. The files are books, encoded as     *)
(* they are written or as the structures of the program are laid out.      *)
(***************************************************************************)
EXTENDS Integers, Sequences, SequencesExt

CONSTANTS
  Books,   \* [packed, cnt, entries]: whether the structures are laid out without gaps,
           \* the number of entries the header claims, and the entries, [num, items,
           \* group]: the lengths of up to three items, and the size of a group or -1
  Base     \* 256 in the code: the values of a byte

CISECNT == 3
Half == (Base * Base) \div 2   \* the bit of a group

VARIABLES
  cisbook, bytes,   \* the book, and what stands in its file
  behind,    \* what reading behind the file does: zeros, or the end of the program
  cisPc,
  lps,       \* where the walk is
  dwi,       \* the length of the item there
  dwk,       \* items of the entry so far
  wNum, wI, bGrp,
  put,       \* the line: the places of the items
  shown      \* history: the entries shown, [num, items]

cisVars == <<cisbook, bytes, behind, cisPc, lps, dwi, dwk, wNum, wI, bGrp, put, shown>>

-------------------------------------------------------------------------------
(* The file *)

Word(n) == <<n % Base, n \div Base>>
Text(n) == [i \in 1..n |-> 1]
Gap == IF cisbook.packed THEN <<>> ELSE <<0>>
ItemBytes(e) == FlattenSeq([i \in DOMAIN e.items |-> <<e.items[i]>> \o Text(e.items[i])])
EntryBytes(e) ==
  IF e.group < 0
  THEN Word(e.num) \o ItemBytes(e) \o (IF Len(e.items) < CISECNT THEN <<0>> ELSE <<>>)
  ELSE Word(e.num + Half) \o ItemBytes(e) \o <<e.group>> \o Gap \o Text(2 * e.group) \o <<0>>
File == <<2>> \o Gap \o Word(cisbook.cnt)
          \o FlattenSeq([i \in DOMAIN cisbook.entries |-> EntryBytes(cisbook.entries[i])])

\* The places are counted from 0.
N == Len(bytes)
Byte(p) == IF p < N THEN bytes[p + 1] ELSE 0
WordAt(p) == Byte(p) + Base * Byte(p + 1)
Faults(p) == p >= N /\ behind = "fault"

-------------------------------------------------------------------------------

\* The structures as they are compiled: a WORD begins at an even place.
HeaderSize == 4
GroupSize(cnt) == 3 + 2 * cnt
wCnt == WordAt(2)

\* chkcis2
Recognised ==
  /\ Byte(0) = 2 /\ wCnt # 0
  /\ WordAt(HeaderSize) % Half = 1 /\ Byte(HeaderSize + 2) # 0
Check ==
  /\ cisPc = "check"
  /\ IF Recognised
     THEN /\ cisPc' = "items"
          /\ bGrp' = (WordAt(HeaderSize) >= Half)
          /\ dwi' = Byte(HeaderSize + 2) /\ lps' = HeaderSize + 3
     ELSE cisPc' = "declined" /\ UNCHANGED <<bGrp, dwi, lps>>
  /\ UNCHANGED <<cisbook, bytes, behind, dwk, wNum, wI, put, shown>>

\* An item and the byte behind it, which is the length of the next one, the size of the
\* group, or already a part of the number of the next entry.
AfterItem == lps + dwi
PastGroup_Packed == AfterItem + GroupSize(Byte(AfterItem)) - 1
PastGroup == AfterItem + GroupSize(Byte(AfterItem))
Item ==
  /\ cisPc = "items" /\ dwi > 0 /\ ~Faults(AfterItem)
  /\ put' = Append(put, [at |-> lps, len |-> dwi])
  /\ IF Byte(AfterItem) = 0
     THEN cisPc' = "line" /\ lps' = AfterItem + 1 /\ UNCHANGED <<dwi, dwk>>
     ELSE /\ dwk' = dwk + 1
          /\ cisPc' = IF bGrp \/ dwk' >= CISECNT THEN "line" ELSE "items"
          /\ lps' = CASE bGrp -> PastGroup
                      [] dwk' >= CISECNT -> AfterItem
                      [] OTHER -> AfterItem + 1
          /\ dwi' = Byte(AfterItem)
  /\ UNCHANGED <<cisbook, bytes, behind, wNum, wI, bGrp, shown>>

NoItem ==
  /\ cisPc = "items" /\ dwi = 0
  /\ cisPc' = "line"
  /\ UNCHANGED <<cisbook, bytes, behind, lps, dwi, dwk, wNum, wI, bGrp, put, shown>>

\* The line is printed, and the next entry is looked for where the items ended. Its number has
\* to follow. The byte behind the number is the length of the first item, or is told when the
\* number does not follow: it is read in either case.
AtEnd == wNum = wCnt
Counted == wI' = wI + 1 /\ cisPc' = IF wI + 1 = wCnt THEN "listed" ELSE "items"
Follow ==
  /\ wNum' = wNum + 1
  /\ bGrp' = (WordAt(lps) >= Half)
  /\ IF ~Faults(lps + 2) /\ WordAt(lps) % Half = wNum + 1
     THEN Counted /\ lps' = lps + 3 /\ dwi' = Byte(lps + 2)
     ELSE /\ cisPc' = IF Faults(lps + 2) THEN "killed" ELSE "broken"
          /\ UNCHANGED <<lps, dwi, wI>>
EntryLine ==
  /\ cisPc = "line"
  /\ shown' = IF put = <<>> THEN shown ELSE Append(shown, [num |-> wNum, items |-> put])
  /\ put' = <<>> /\ dwk' = 0
  /\ IF AtEnd THEN Counted /\ UNCHANGED <<lps, dwi, wNum, bGrp>> ELSE Follow
  /\ UNCHANGED <<cisbook, bytes, behind>>

Kill ==
  /\ cisPc = "items" /\ dwi > 0 /\ Faults(AfterItem)
  /\ cisPc' = "killed"
  /\ UNCHANGED <<cisbook, bytes, behind, lps, dwi, dwk, wNum, wI, bGrp, put, shown>>

-------------------------------------------------------------------------------

Init ==
  /\ cisbook \in Books /\ bytes = File /\ behind \in {"zeros", "fault"}
  /\ cisPc = "check" /\ lps = 0 /\ dwi = 0 /\ dwk = 0 /\ wNum = 1 /\ wI = 0
  /\ bGrp = FALSE /\ put = <<>> /\ shown = <<>>

Next == Check \/ Item \/ NoItem \/ EntryLine \/ Kill

Spec == Init /\ [][Next]_cisVars /\ WF_cisVars(Next)

-------------------------------------------------------------------------------
(* Properties *)

TypeOK ==
  /\ cisPc \in {"check", "items", "line", "declined", "listed", "broken", "killed"}
  /\ lps \in Nat /\ dwi \in 0..(Base - 1) /\ dwk \in 0..CISECNT
  /\ wNum \in Nat \ {0} /\ wI \in 0..wNum /\ bGrp \in BOOLEAN
  /\ \A i \in DOMAIN put : put[i] \in [at : Nat, len : 1..(Base - 1)]

\* A book whose entries are numbered from 1 up to the number in its header.
Numbered ==
  /\ cisbook.entries # <<>> /\ cisbook.cnt = Len(cisbook.entries)
  /\ \A i \in DOMAIN cisbook.entries : cisbook.entries[i].num = i

\* The low byte of the number of an entry is taken for an item of the entry before it, when
\* this has all its items: a zero there is skipped, and the walk is lost.
Skips == \E i \in DOMAIN cisbook.entries :
           /\ (i + 1) % Base = 0 /\ i < Len(cisbook.entries)
           /\ cisbook.entries[i].group < 0 /\ Len(cisbook.entries[i].items) = CISECNT

\* A numbered book is shown entry by entry with the items of each, if it is laid out as the
\* structures are, up to its end or to where an entry is skipped.
Lengths(items) == [i \in DOMAIN items |-> items[i].len]
EntriesListed ==
  (Numbered /\ ~cisbook.packed) =>
    /\ \A k \in DOMAIN shown :
         shown[k].num = k /\ Lengths(shown[k].items) = cisbook.entries[k].items
    /\ cisPc = "listed" => Len(shown) = cisbook.cnt
    /\ cisPc # "declined" /\ (cisPc = "broken" => Skips)
    /\ cisPc = "killed" => Len(shown) = cisbook.cnt - 1 \/ Skips

\* The book at the head of chkcis, which has no gaps, is one that is listed.
BooksTaken == Numbered => cisPc # "declined"

Ended == cisPc \in {"declined", "listed", "broken", "killed"}
===============================================================================

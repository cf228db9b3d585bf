------------------------------ MODULE AsciiLines ------------------------------
(***************************************************************************)
(* The display of a file as text, without offsets and digits (-XOH):       *)
(* ProcessAscii of src/src/Dump4.c. Characters gather in the line lpo; a   *)
(* line longer than BGNCHK ends at the next character that is not part of  *)
(* a word; one longer than CHKEND is cut after its last such character.    *)
(* A character is its class here, and lpo and what is printed hold the     *)
(* positions of characters in the file.                                    *)
(***************************************************************************)
EXTENDS Integers, Sequences, SequencesExt

CONSTANTS
  Files,          \* the files, sequences of classes
  BGNCHK, CHKEND, \* 60 and 78 in the code
  Offsets         \* the values of -B; -E is at its default, the largest DWORD

\* Letters, digits and _; the other printable ones; control characters (and
\* those above 7F, which are negative chars); and 7F.
Class == {"word", "sign", "control", "del"}

ASSUME FilesAssumption == Files \subseteq Seq(Class)
ASSUME LimitsAssumption == /\ BGNCHK \in Nat /\ CHKEND \in Nat /\ BGNCHK < CHKEND
                           /\ Offsets \subseteq Nat

VARIABLES
  lpb, bUni, dwBgn, \* the file and the switches -XU and -B
  ir,               \* characters read
  lpo, pc,          \* the line; the class of the previous character
  done,
  printed,          \* history: the positions of all lines, in order
  line,             \* history: the last line
  unbroken          \* history: a line without a place to cut has been met

input == <<lpb, bUni, dwBgn>>
vars == <<input, ir, lpo, pc, done, printed, line, unbroken>>

-------------------------------------------------------------------------------

\* ISSIGCHAR; at the start pc is -1, which is not significant.
Significant(class) == class \in {"word", "sign"}

\* foff, which the code compares with the range and never advances.
foff == 0
InRange == foff >= dwBgn

\* With -XU a control character after a printable one is the high half of a
\* UNICODE character.
HighHalf_Sticky(class, before) == class = "control"
HighHalf(class, before) == class = "control" /\ Significant(before)

\* The place to cut a line: after its last character that is not of a word (a dot
\* stands for the unprintable ones). The rest begins the next line.
IsCut_NoBump(text, cut) ==
  /\ cut < Len(text)
  /\ lpb[text[cut + 1]] # "word"
  /\ \A i \in (cut + 2)..Len(text) : lpb[text[i]] = "word"
IsCut(text, cut) ==
  /\ lpb[text[cut]] # "word"
  /\ \A i \in (cut + 1)..Len(text) : lpb[text[i]] = "word"

Rest_OneShort(text, cut) == SubSeq(text, cut + 2, Len(text))
Rest(text, cut) == SubSeq(text, cut + 1, Len(text))

PutLine(text) == printed' = printed \o text /\ line' = text
KeepShown == UNCHANGED <<printed, line>>

TooLong_Late(text) == Len(text) > CHKEND + 1
TooLong(text) == Len(text) > CHKEND

\* The three ends of a line, text being the line with the character just added.
EndOfWord(text) ==
  /\ Len(text) > BGNCHK
  /\ lpb[ir + 1] # "word"
  /\ PutLine(text)
  /\ lpo' = <<>>
  /\ pc' = lpb[ir + 1]
  /\ UNCHANGED unbroken

CutBack(text) ==
  /\ TooLong(text)
  /\ lpb[ir + 1] = "word"
  /\ \E cut \in 1..Len(text) :
       /\ IsCut(text, cut)
       /\ PutLine(SubSeq(text, 1, cut))
       /\ lpo' = Rest(text, cut)
  /\ pc' = "sign"
  /\ UNCHANGED unbroken

\* Nothing to cut at: the line is printed and stays in lpo.
NoCut(text) ==
  /\ TooLong(text)
  /\ lpb[ir + 1] = "word"
  /\ \A cut \in 1..Len(text) : ~IsCut(text, cut)
  /\ PutLine(text)
  /\ lpo' = text
  /\ pc' = "word"
  /\ unbroken' = TRUE

GoOn(text) ==
  /\ \/ Len(text) <= BGNCHK
     \/ lpb[ir + 1] = "word" /\ ~TooLong(text)
  /\ lpo' = text
  /\ pc' = lpb[ir + 1]
  /\ KeepShown /\ UNCHANGED unbroken

ShowChar ==
  /\ ir < Len(lpb) /\ InRange
  /\ ~(bUni /\ HighHalf(lpb[ir + 1], pc))
  /\ LET text == Append(lpo, ir + 1)
     IN  EndOfWord(text) \/ CutBack(text) \/ NoCut(text) \/ GoOn(text)
  /\ ir' = ir + 1
  /\ UNCHANGED <<input, done>>

SkipHalf ==
  /\ ir < Len(lpb) /\ InRange
  /\ bUni /\ HighHalf(lpb[ir + 1], pc)
  /\ pc' = lpb[ir + 1]
  /\ ir' = ir + 1
  /\ KeepShown /\ UNCHANGED <<input, lpo, done, unbroken>>

SkipOutOfRange ==
  /\ ir < Len(lpb) /\ ~InRange
  /\ ir' = ir + 1
  /\ KeepShown /\ UNCHANGED <<input, lpo, pc, done, unbroken>>

Finish ==
  /\ ir = Len(lpb) /\ ~done
  /\ done' = TRUE
  /\ IF lpo # <<>> THEN PutLine(lpo) ELSE KeepShown
  /\ lpo' = <<>>
  /\ UNCHANGED <<input, ir, pc, unbroken>>

Init ==
  /\ lpb \in Files /\ bUni \in BOOLEAN /\ dwBgn \in Offsets
  /\ ir = 0 /\ lpo = <<>> /\ pc = "none" /\ done = FALSE
  /\ printed = <<>> /\ line = <<>> /\ unbroken = FALSE

Next == ShowChar \/ SkipHalf \/ SkipOutOfRange \/ Finish

Spec == Init /\ [][Next]_vars

-------------------------------------------------------------------------------
(* Properties *)

TypeOK ==
  /\ lpb \in Files /\ bUni \in BOOLEAN /\ dwBgn \in Offsets
  /\ ir \in 0..Len(lpb)
  /\ lpo \in Seq(1..ir) /\ printed \in Seq(1..ir) /\ line \in Seq(1..ir)
  /\ ~unbroken => Len(lpo) <= CHKEND
  /\ pc \in Class \cup {"none"}
  /\ done \in BOOLEAN /\ unbroken \in BOOLEAN

\* The positions among the first n that are to be seen: all of them, but with
\* -XU no control character right after a printable one of the file.
Visible(n) == {i \in 1..n : ~(/\ bUni /\ i > 1
                              /\ lpb[i] = "control"
                              /\ lpb[i - 1] \in {"word", "sign"})}

\* What has been printed and gathered is what is to be seen of the file so far, and
\* nothing else.
NothingLost == dwBgn = 0 => Range(printed) \cup Range(lpo) = Visible(ir)

\* Every character read is in a printed line or in the line being gathered, and,
\* unless a line had no place to cut, once and in order, wherever the lines were
\* cut and whatever pc was left at by a cut.
EveryCharOnce ==
  dwBgn = 0 =>
    LET all == printed \o lpo
    IN  /\ Range(all) = Visible(ir)
        /\ ~unbroken => \A i, j \in 1..Len(all) : i < j => all[i] < all[j]

\* In front of the end of the file a line ends behind a character that is of no word. One
\* of up to BGNCHK characters is only printed where what is put into the next line is a
\* word that would have made it longer than CHKEND; and the character behind a word of
\* that length is the most a line is longer. (Left out are files in which a line was met
\* that is one word.)
LinesCutAtWords ==
  [][(line' # line /\ ~unbroken' /\ ~done') =>
       /\ lpb[Last(line')] # "word"
       /\ Len(line') <= CHKEND + 1
       /\ Len(line') <= BGNCHK =>
            /\ Len(line') + Len(lpo') > CHKEND
            /\ \A i \in DOMAIN lpo' : lpb[lpo'[i]] = "word"]_vars

\* -B: the display begins at that offset and goes on to the end.
BeginsAtOffset == (done /\ ~bUni) => Range(printed) = (dwBgn + 1)..Len(lpb)
===============================================================================

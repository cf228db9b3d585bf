----------------------------- MODULE AsciiStrings -----------------------------
(***************************************************************************)
(* The strings of a file (-a): ProcessASCII of src/src/DumpASCII.c.        *)
(* Characters of a run gather in lpd; a run of giMinASCII or more goes to  *)
(* prta, which packs short strings into a line and prints a long one on a  *)
(* line of its own. A character is its class here, and a string is the     *)
(* sequence of its positions in the file.                                  *)
(***************************************************************************)
EXTENDS Integers, Sequences, FiniteSets, SequencesExt

CONSTANTS
  Files,         \* the files, sequences of classes
  Mins,          \* the values of giMinASCII; Do_A_Opt refuses 0
  MXDIAG,        \* MXDIAGBUF - 24, 1000 in the code: the longest piece of a run
  giKeepInLine   \* 65 in the code

\* Letters and digits, the other printable characters, and the rest.
Class == {"alnum", "sign", "other"}

ASSUME FilesAssumption == Files \subseteq Seq(Class)
ASSUME LimitsAssumption == /\ Mins \subseteq Nat \ {0}
                           /\ MXDIAG \in Nat \ {0} /\ giKeepInLine \in Nat

VARIABLES
  pb, gfDoASCII2, giMinASCII,  \* the file and the switches
  dwi, lpd,                    \* characters read; the run
  s_buf,                       \* the packed strings, not printed yet
  tot, shtr, cnt,
  done,
  out                          \* history: the strings printed, in order

input == <<pb, gfDoASCII2, giMinASCII>>
vars == <<input, dwi, lpd, s_buf, tot, shtr, cnt, done, out>>

-------------------------------------------------------------------------------

ISMYCHAR(class) == IF gfDoASCII2 THEN class = "alnum" ELSE class # "other"

\* The places of the characters of the packed line: string and place in it.
Places(strings) == UNION {{k} \X DOMAIN strings[k] : k \in DOMAIN strings}

\* The length of the packed line: its strings and the spaces between them.
Width(strings) ==
  Cardinality(Places(strings)) + (IF strings = <<>> THEN 0 ELSE Len(strings) - 1)

TooWide_Packed(strings, s) == Width(strings) > giKeepInLine
TooWide(strings, s) == Width(strings) + Len(s) > giKeepInLine

\* prta(s): what it leaves packed and what it prints.
prta_KeepsPacked(s) ==
  IF Len(s) > giKeepInLine
  THEN out' = Append(out, s) /\ UNCHANGED s_buf
  ELSE IF TooWide(s_buf, s)
       THEN out' = out \o s_buf /\ s_buf' = <<s>>
       ELSE s_buf' = Append(s_buf, s) /\ UNCHANGED out
prta(s) ==
  IF Len(s) > giKeepInLine
  THEN out' = Append(out \o s_buf, s) /\ s_buf' = <<>>
  ELSE IF TooWide(s_buf, s)
       THEN out' = out \o s_buf /\ s_buf' = <<s>>
       ELSE s_buf' = Append(s_buf, s) /\ UNCHANGED out

LongEnough_Exclusive(s) == Len(s) > giMinASCII
LongEnough(s) == Len(s) >= giMinASCII

Full_Late(s) == Len(s) > MXDIAG
Full(s) == Len(s) >= MXDIAG

Counted_Strings(s) == tot + 1
Counted(s) == tot + Len(s)

\* A character of a run. A run that fills lpd goes out as it is, without being
\* counted, and the rest of it is a new run.
InRun ==
  /\ dwi < Len(pb) /\ ISMYCHAR(pb[dwi + 1])
  /\ IF Full(lpd)
     THEN prta(lpd) /\ tot' = Counted(lpd) /\ lpd' = <<dwi + 1>>
     ELSE lpd' = Append(lpd, dwi + 1) /\ UNCHANGED <<out, s_buf, tot>>
  /\ dwi' = dwi + 1
  /\ UNCHANGED <<input, shtr, cnt, done>>

\* The character after a run.
EndOfRun ==
  /\ dwi < Len(pb) /\ ~ISMYCHAR(pb[dwi + 1])
  /\ lpd # <<>>
  /\ IF LongEnough(lpd)
     THEN prta(lpd) /\ tot' = Counted(lpd) /\ cnt' = cnt + 1 /\ UNCHANGED shtr
     ELSE shtr' = shtr + 1 /\ UNCHANGED <<out, s_buf, tot, cnt>>
  /\ lpd' = <<>>
  /\ dwi' = dwi + 1
  /\ UNCHANGED <<input, done>>

OutOfRun ==
  /\ dwi < Len(pb) /\ ~ISMYCHAR(pb[dwi + 1])
  /\ lpd = <<>>
  /\ dwi' = dwi + 1
  /\ UNCHANGED <<input, lpd, s_buf, tot, shtr, cnt, done, out>>

\* At the end of the file the last run is printed by prt, and so before the
\* packed line; no run at all counts as a short one.
Finish ==
  /\ dwi = Len(pb) /\ ~done
  /\ done' = TRUE
  /\ IF LongEnough(lpd)
     THEN /\ out' = Append(out, lpd) \o s_buf
          /\ tot' = Counted(lpd) /\ cnt' = cnt + 1 /\ lpd' = <<>>
          /\ UNCHANGED shtr
     ELSE out' = out \o s_buf /\ shtr' = shtr + 1 /\ UNCHANGED <<tot, cnt, lpd>>
  /\ s_buf' = <<>>
  /\ UNCHANGED <<input, dwi>>

Init ==
  /\ pb \in Files /\ gfDoASCII2 \in BOOLEAN /\ giMinASCII \in Mins
  /\ dwi = 0 /\ lpd = <<>> /\ s_buf = <<>>
  /\ tot = 0 /\ shtr = 0 /\ cnt = 0
  /\ done = FALSE /\ out = <<>>

Next == InRun \/ EndOfRun \/ OutOfRun \/ Finish

Spec == Init /\ [][Next]_vars

-------------------------------------------------------------------------------
(* Properties *)

TypeOK ==
  /\ pb \in Seq(Class) /\ gfDoASCII2 \in BOOLEAN /\ giMinASCII \in Mins
  /\ dwi \in 0..Len(pb)
  /\ lpd \in Seq(1..dwi) /\ Len(lpd) <= MXDIAG
  /\ s_buf \in Seq(Seq(1..dwi)) /\ out \in Seq(Seq(1..dwi))
  /\ {tot, shtr, cnt} \subseteq Nat
  /\ done \in BOOLEAN

\* The runs of the file, each as an interval of positions that cannot be made
\* longer.
Runs ==
  {r \in (1..Len(pb)) \X (1..Len(pb)) :
     /\ r[1] <= r[2]
     /\ \A i \in r[1]..r[2] : ISMYCHAR(pb[i])
     /\ r[1] > 1 => ~ISMYCHAR(pb[r[1] - 1])
     /\ r[2] < Len(pb) => ~ISMYCHAR(pb[r[2] + 1])}
Size(r) == r[2] - r[1] + 1
AsString(r) == [i \in 1..Size(r) |-> r[1] + i - 1]
LongRuns == {r \in Runs : Size(r) >= giMinASCII}

NoSplit == \A r \in Runs : Size(r) <= MXDIAG

\* In the end every run of the least length, and no other, has been printed once,
\* whole, and been counted, if none is too long for the buffer.
EveryStringOnce ==
  (done /\ NoSplit) =>
    /\ ToSet(out) = {AsString(r) : r \in LongRuns}
    /\ Len(out) = Cardinality(LongRuns)
    /\ cnt = Cardinality(LongRuns)

Rising(s) == \A i, j \in DOMAIN s : i < j => s[i] < s[j]
Before(s, t) == \A p \in ToSet(s), q \in ToSet(t) : p < q
InOrder(strings) == /\ \A k \in DOMAIN strings : Rising(strings[k])
                    /\ \A j, k \in DOMAIN strings :
                         j < k => Before(strings[j], strings[k])

\* Until the end strings are printed and packed in the order of the file, be they
\* packed or on a line of their own.
InFileOrder == ~done => InOrder(Append(out \o s_buf, lpd))

\* No string is lost, cut, shown twice or overtaken by a later one.
StringsInOrder == EveryStringOnce /\ InFileOrder

Chars(strings) == UNION {ToSet(s) : s \in ToSet(strings)}

\* tot is the number of characters of the file that were printed or packed, those
\* of split runs included and none counted twice.
TotalCounts == tot = Cardinality(Chars(out \o s_buf))

\* A packed line is at most one wider than giKeepInLine, as the space between two
\* strings is not counted.
PackedFits == Width(s_buf) <= giKeepInLine + 1
===============================================================================

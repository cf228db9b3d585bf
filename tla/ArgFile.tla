------------------------------- MODULE ArgFile --------------------------------
(***************************************************************************)
(* The reader of a file of arguments (@file): the loop over fb inside      *)
(* ProcessCommand of src/src/DumpHelp.c. The text is cut into strings in   *)
(* place: a NUL ends an argument, and pch->pPtrs keeps where each begins.  *)
(* A character is its class, and the C index i is position i + 1 here.     *)
(***************************************************************************)
EXTENDS Integers, Sequences, SequencesExt, FiniteSetsExt

CONSTANTS
  Texts,    \* the files, sequences of characters, none empty
  MXPTRS    \* 256 in the code: the table holds the arguments 1..MXPTRS-1

\* "line" is every control character except the tab, and every byte above 127,
\* which is negative as the code's signed char.
Char == {"letter", "quote", ";", " ", "tab", "line"}

ASSUME TextsAssumption == Texts \subseteq Seq(Char) \ {<<>>}
ASSUME TableAssumption == MXPTRS \in Nat \ {0, 1}

VARIABLES
  text,   \* the file as it was read; no action changes it
  fb,     \* the buffer: the file and, behind it, zeros
  fii,    \* the next position
  ptrs,   \* where the arguments begin
  pc      \* "scan", "parsed" or "refused"

vars == <<text, fb, fii, ptrs, pc>>

-------------------------------------------------------------------------------

fs == Len(text)

Blank == {" ", "tab", "line", "nul"}
EndsField_Spaces == Blank \cup {";"}
EndsField == {"tab", "line", "nul", ";"}

\* The first position of the file from p on with one of these characters, or fs + 1.
First(p, chars) == Min({i \in p..fs : fb[i] \in chars} \cup {fs + 1})

\* "Throw the comment line".
SkipComment ==
  /\ pc = "scan" /\ fii <= fs /\ fb[fii] = ";"
  /\ fii' = First(fii + 1, {"line", "nul"}) + 1
  /\ UNCHANGED <<text, fb, ptrs, pc>>

SkipBlank ==
  /\ pc = "scan" /\ fii <= fs /\ fb[fii] \in Blank
  /\ fii' = fii + 1
  /\ UNCHANGED <<text, fb, ptrs, pc>>

\* The table of pointers is full: pgm_exit(1).
TableFull_Late(n) == n > MXPTRS
TableFull(n) == n >= MXPTRS
AddPointer(p) ==
  /\ ptrs' = Append(ptrs, p)
  /\ pc' = IF TableFull(Len(ptrs) + 2) THEN "refused" ELSE "scan"

\* The first character of an argument is not looked at again. Its end and the
\* blanks before it become zeros; an argument that ends with the file keeps them.
Trimmed_OneMore(p, e) == Max({i \in p..(e - 1) : fb[i] \notin Blank})
Trimmed(p, e) == Max({i \in p..(e - 1) : fb[i] \notin Blank}) + 1
TakeWord ==
  /\ pc = "scan" /\ fii <= fs /\ fb[fii] \notin Blank \cup {";", "quote"}
  /\ AddPointer(fii)
  /\ IF pc' = "refused" THEN UNCHANGED <<fb, fii>>
     ELSE LET e == First(fii + 1, EndsField)
          IN  /\ fb' = IF e > fs THEN fb
                       ELSE [i \in DOMAIN fb |->
                               IF i \in Trimmed(fii, e)..e THEN "nul" ELSE fb[i]]
              /\ fii' = e + 1
  /\ UNCHANGED text

\* "bump past tailing '"' char": the zero is put behind the second quote, which
\* stays in the argument, and the character that was there is lost.
ClosedAt_NoEnd(e) == fb
ClosedAt(e) == [fb EXCEPT ![e + 1] = "nul"]
TakeQuoted ==
  /\ pc = "scan" /\ fii <= fs /\ fb[fii] = "quote"
  /\ AddPointer(fii + 1)
  /\ IF pc' = "refused" THEN UNCHANGED <<fb, fii>>
     ELSE LET e == First(fii + 2, {"quote"})
          IN  /\ fb' = IF e > fs THEN fb ELSE ClosedAt(e)
              /\ fii' = e + 2
  /\ UNCHANGED text

Finish ==
  /\ pc = "scan" /\ fii > fs
  /\ pc' = "parsed"
  /\ UNCHANGED <<text, fb, fii, ptrs>>

Init ==
  /\ text \in Texts
  /\ fb = Append(text, "nul")
  /\ fii = 1 /\ ptrs = <<>> /\ pc = "scan"

Next == SkipComment \/ SkipBlank \/ TakeWord \/ TakeQuoted \/ Finish

Spec == Init /\ [][Next]_vars

-------------------------------------------------------------------------------
(* Properties *)

TypeOK ==
  /\ text \in Seq(Char) \ {<<>>}
  /\ fb \in [1..(fs + 1) -> Char \cup {"nul"}] /\ fb[fs + 1] = "nul"
  /\ fii \in 1..(fs + 3)
  /\ ptrs \in Seq(1..(fs + 1))
  /\ Len(ptrs) < (IF pc = "refused" THEN MXPTRS ELSE MXPTRS - 1)
  /\ pc \in {"scan", "parsed", "refused"}

\* The positions of an argument as a C string: up to the next NUL.
EndOf(p) == Min({i \in p..(fs + 1) : fb[i] = "nul"})
Chars(p) == p..(EndOf(p) - 1)
Args == [k \in DOMAIN ptrs |-> Chars(ptrs[k])]

\* Arguments do not overlap and stand in the order of the file.
ArgsApart ==
  \A k \in 1..(Len(ptrs) - 1) : pc # "refused" => EndOf(ptrs[k]) < ptrs[k + 1]

\* The buffer is edited in place: no later edit reaches an argument that is
\* already in the table.
ArgsStay == [][\A k \in DOMAIN ptrs : Args'[k] = Args[k]]_vars

\* In a file without comments every letter is in an argument, except one right
\* behind the quote that ends a quoted one.
LettersKept ==
  (pc = "parsed" /\ ~Contains(text, ";")) =>
    \A i \in 1..fs :
      text[i] = "letter" =>
        \/ \E k \in DOMAIN ptrs : i \in Args[k]
        \/ i > 1 /\ text[i - 1] = "quote"

\* No letter is lost, and none is in two arguments.
LettersOnce == ArgsApart /\ LettersKept

\* A file with no quotes, whose comments have a line or a field of their own and
\* whose last line is ended.
FieldStart(i) ==
  Max({j \in 1..(i - 1) : text[j] \in {"tab", "line"}} \cup {0}) + 1
InComment(i) ==
  \E j \in 1..i : text[j] = ";" /\ \A n \in j..i : text[n] # "line"
Plain ==
  /\ ~Contains(text, "quote") /\ text[fs] = "line"
  /\ \A i \in 1..fs :
       (text[i] = ";" /\ ~(i > 1 /\ InComment(i - 1))) =>
         \A j \in FieldStart(i)..(i - 1) : text[j] = " "
\* The fields of such a file, without the spaces around them.
Fields ==
  {s \in {i..j : i, j \in 1..fs} :
     /\ s # {} /\ text[Min(s)] = "letter" /\ text[Max(s)] = "letter"
     /\ \A i \in s : text[i] \notin {"tab", "line"} /\ ~InComment(i)
     /\ \A i \in FieldStart(Min(s))..(Min(s) - 1) : text[i] = " "
     /\ \A i \in (Max(s) + 1)..fs :
          text[i] = "letter" => \E j \in Max(s)..i : text[j] \in {"tab", "line"}}

\* The arguments of a plain file are its fields, each once.
FieldsAreArgs ==
  (pc = "parsed" /\ Plain) => ToSet(Args) = Fields /\ Len(Args) = Cardinality(Fields)

\* "bump past tailing '"' char": where a letter follows the quote that closes an argument of
\* at least one character, the argument ends in front of the quote, and the letter is the
\* beginning of the next one.
Closes(k, e) ==
  /\ ptrs[k] > 1 /\ text[ptrs[k] - 1] = "quote"
  /\ e > ptrs[k] /\ text[e] = "quote" /\ \A i \in ptrs[k]..(e - 1) : text[i] # "quote"
QuotesTaken ==
  pc = "parsed" =>
    \A k \in DOMAIN ptrs : \A e \in 2..(fs - 1) :
      (Closes(k, e) /\ text[e + 1] = "letter") =>
        /\ Args[k] = ptrs[k]..(e - 1)
        /\ e + 1 \in ToSet(ptrs)
===============================================================================

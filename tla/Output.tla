------------------------------- MODULE Output -------------------------------
(***************************************************************************)
(* The output path of dump4, src/src/DumpFile.c. Everything the program    *)
(* says goes through prt, which turns every kind of line end into CR LF    *)
(* and hands pieces of about MAXIO characters to oi; oi writes a piece to  *)
(* stdout, to the diagnostic file TEMPDUMP.TXT (opened with the first      *)
(* piece, in builds without NDEBUG) and to the file of -O, if any. A file  *)
(* whose write fails is closed and never written again; stdout is not.     *)
(***************************************************************************)
EXTENDS Integers, Sequences, SequencesExt

CONSTANTS
  Chars,      \* the characters that are no line end
  CR, LF,     \* carriage return and line feed
  Nul,        \* the value of d and of lps[dwl]: no character
  Texts,      \* the strings the program prints
  MAXIO,      \* 256 in the code
  OldText,    \* what the file of -O holds before the program starts
  MaxCalls    \* bound on the calls of prt and the -O switches of a run

ASSUME CharsAssumption == /\ CR \notin Chars /\ LF \notin Chars /\ CR # LF
                          /\ Nul \notin Chars \cup {CR, LF}
ASSUME TextsAssumption == /\ Texts \subseteq Seq(Chars \cup {CR, LF})
                          /\ OldText \in Seq(Chars \cup {CR, LF})
ASSUME LimitsAssumption == /\ MAXIO \in Nat \ {0}
                           /\ MaxCalls \in Nat

VARIABLES
  pc, calls,           \* "idle", in prt ("prt", or "last" when the program
                       \* ends after it) or "exit"; calls made
  lps, dwi, d, pb,     \* in prt: the string, the next character, the one
                       \* before, the piece (off = Len(pb))
  g_hOutFile, outFile, \* the file of -O: handle, and its content
  g_bAppend,
  hDbgFile, dbgFile,   \* TEMPDUMP.TXT
  sent,                \* history: all that oi was given
  said,                \* history: all that prt was given, with its lines ended
  outBase, dbgBase     \* history: sent when the file was opened

prtVars == <<lps, dwi, d, pb>>
outVars == <<g_hOutFile, outFile, g_bAppend, outBase>>
dbgVars == <<hDbgFile, dbgFile, dbgBase>>
vars == <<pc, calls, prtVars, outVars, dbgVars, sent, said>>

Char == Chars \cup {CR, LF}

-----------------------------------------------------------------------------
(* Writing *)

\* A handle after writing: one that failed is closed for good. VFH holds of
\* "open" only; 0 is "null" and INVALID_HANDLE_VALUE is "invalid".
AfterWrite_StaysOpen(h, n, s) == h
AfterWrite(h, n, s) == IF h = "open" /\ n < Len(s) THEN "invalid" ELSE h

\* What a file holds after fwrite put the first n characters of s there.
Written(h, old, n, s) == IF h = "open" THEN old \o SubSeq(s, 1, n) ELSE old

\* oi(s): stdout first, whose failures nothing remembers, then the diagnostic
\* file, which is created when its handle is still 0, then the file of -O.
\* Each write may end early.
oi(s) ==
  /\ \E h \in (IF hDbgFile = "null" THEN {"null", "open"} ELSE {hDbgFile}),
        n \in 0..Len(s) :
       LET old == IF hDbgFile = "null" THEN <<>> ELSE dbgFile
       IN  /\ hDbgFile' = AfterWrite(h, n, s)
           /\ dbgFile' = Written(h, old, n, s)
           /\ dbgBase' = IF hDbgFile = "null" THEN sent ELSE dbgBase
  /\ \E n \in 0..Len(s) :
       /\ g_hOutFile' = AfterWrite(g_hOutFile, n, s)
       /\ outFile' = Written(g_hOutFile, outFile, n, s)
  /\ sent' = sent \o s
  /\ UNCHANGED <<outBase, g_bAppend>>

-----------------------------------------------------------------------------
(* prt, one character a step *)

NextChar(s, i) == IF i < Len(s) THEN s[i + 1] ELSE Nul

\* The characters prt puts into the piece for the character c.
Put_NoLookAhead(c, before, after) ==
  IF c = LF THEN IF before # CR THEN <<CR, LF>> ELSE <<LF>> ELSE <<c>>
Put_NextChar(c, before, after) ==
  CASE c = LF /\ before # CR -> <<CR, LF>>
    [] c = CR /\ after # LF  -> <<CR, after>>
    [] OTHER                 -> <<c>>
Put(c, before, after) ==
  CASE c = LF /\ before # CR -> <<CR, LF>>
    [] c = CR /\ after # LF  -> <<CR, LF>>
    [] OTHER                 -> <<c>>

\* A piece goes out as soon as it holds MAXIO characters.
PieceFull_Double(p) == Len(p) >= MAXIO + MAXIO
PieceFull(p) == Len(p) >= MAXIO

\* What a text is to look like: CR LF for each of its line ends CR LF, CR, LF.
Normal(s) ==
  LET from[i \in 1..(Len(s) + 2)] ==
        IF i > Len(s) THEN <<>>
        ELSE IF s[i] \notin {CR, LF} THEN <<s[i]>> \o from[i + 1]
        ELSE <<CR, LF>> \o from[IF s[i] = CR /\ NextChar(s, i) = LF
                                THEN i + 2 ELSE i + 1]
  IN  from[1]

\* prt is called; what it was given will have been said.
Call(s, as) ==
  /\ pc = "idle"
  /\ calls < MaxCalls
  /\ calls' = calls + 1
  /\ pc' = as
  /\ lps' = s /\ dwi' = 1 /\ d' = Nul /\ pb' = <<>>
  /\ said' = said \o Normal(s)
  /\ UNCHANGED <<dbgVars, sent>>

Prt(s) == Call(s, "prt") /\ UNCHANGED outVars

InPrt == pc \in {"prt", "last"}

PutChar ==
  /\ InPrt
  /\ dwi <= Len(lps)
  /\ LET put   == Put(lps[dwi], d, NextChar(lps, dwi))
         piece == pb \o put
     IN  /\ d' = put[Len(put)]
         /\ IF PieceFull(piece)
            THEN oi(piece) /\ pb' = <<>>
            ELSE pb' = piece /\ UNCHANGED <<outVars, dbgVars, sent>>
  /\ dwi' = dwi + 1
  /\ UNCHANGED <<pc, calls, lps, said>>

EndPrt ==
  /\ InPrt
  /\ dwi > Len(lps)
  /\ IF pb # <<>> THEN oi(pb)
     ELSE UNCHANGED <<outVars, dbgVars, sent>>
  /\ pc' = IF pc = "last" THEN "exit" ELSE "idle"
  /\ pb' = <<>>
  /\ UNCHANGED <<calls, lps, dwi, d, said>>

-----------------------------------------------------------------------------
(* The switch -O[+|-]file, Get_O_Sw and OpenOut *)

\* The switch sets g_bAppend and never takes a + back without a -.
AppendFlag(sign) == sign = "+" \/ (sign = "" /\ g_bAppend)

\* What the file holds once it is open: on Unix grmOpenFile(.., 1), which -O+
\* uses, opens with "w" and so empties the file, as grmCreateFile does.
Opened(append) == <<>>

\* A file opened before is left to exit().
OpenOut(sign) ==
  /\ pc = "idle"
  /\ calls < MaxCalls
  /\ calls' = calls + 1
  /\ g_bAppend' = AppendFlag(sign)
  /\ g_hOutFile' = "open"
  /\ outFile' = Opened(g_bAppend')
  /\ outBase' = sent
  /\ UNCHANGED <<pc, prtVars, dbgVars, sent, said>>

\* One that does not open ends the program, after a message that still goes to
\* the file opened before.
OpenOutFails(sign, message) ==
  /\ Call(message, "last")
  /\ g_bAppend' = AppendFlag(sign)
  /\ UNCHANGED <<g_hOutFile, outFile, outBase>>

Init ==
  /\ pc = "idle" /\ calls = 0
  /\ lps = <<>> /\ dwi = 1 /\ d = Nul /\ pb = <<>>
  /\ sent = <<>> /\ said = <<>>
  /\ g_hOutFile = "null" /\ outFile = OldText /\ g_bAppend = FALSE
  /\ hDbgFile = "null" /\ dbgFile = <<>>
  /\ outBase = <<>> /\ dbgBase = <<>>

Next ==
  \/ \E s \in Texts : Prt(s)
  \/ PutChar
  \/ EndPrt
  \/ \E sign \in {"", "+", "-"} : \/ OpenOut(sign)
                                 \/ \E s \in Texts : OpenOutFails(sign, s)

Spec == Init /\ [][Next]_vars

-----------------------------------------------------------------------------
(* Properties *)

Handle == {"null", "open", "invalid"}

TypeOK ==
  /\ pc \in {"idle", "prt", "last", "exit"}
  /\ calls \in 0..MaxCalls
  /\ lps \in Seq(Char) /\ dwi \in Nat \ {0} /\ d \in Char \cup {Nul}
  /\ {pb, outFile, dbgFile, sent, outBase, dbgBase} \subseteq Seq(Char)
  /\ {g_hOutFile, hDbgFile} \subseteq Handle
  /\ g_bAppend \in BOOLEAN

\* tbuf has room for MAXIO + 8: a pair CR LF makes a piece at most one longer
\* than MAXIO, and the terminating 0 comes after it.
PieceFitsBuffer == [][Len(sent') - Len(sent) <= MAXIO + 1]_vars

\* The file of -O holds, from the moment it was opened, all the program has
\* said, without a gap, up to the write that failed.
Segment(h, file, base, all) ==
  /\ h = "open" => all = base \o file
  /\ h = "invalid" => IsPrefix(base \o file, all)
OutFileComplete == Segment(g_hOutFile, outFile, outBase, sent)

\* So does TEMPDUMP.TXT.
DiagFileComplete == Segment(hDbgFile, dbgFile, dbgBase, sent)

\* Neither of the two files has a gap, whichever of them fails and when: a failure
\* of the one leaves the other as it is.
FilesComplete == OutFileComplete /\ DiagFileComplete

\* What goes out is what was said, in order and with every line ended by one
\* CR LF, wherever the pieces were cut; after prt returns, all of it.
LinesNormalised == /\ IsPrefix(sent \o pb, said)
                   /\ ~InPrt => sent = said
=============================================================================

----------------------------- MODULE MCAsciiLines -----------------------------
(***************************************************************************)
(* Instance of AsciiLines for TLC: every file of up to MaxLen characters,  *)
(* with lines so short that a file makes several.                          *)
(***************************************************************************)
EXTENDS AsciiLines

CONSTANT MaxLen

MCFiles == UNION {[1..n -> Class] : n \in 1..MaxLen}
===============================================================================

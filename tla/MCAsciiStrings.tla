---------------------------- MODULE MCAsciiStrings ----------------------------
(***************************************************************************)
(* Instance of AsciiStrings for TLC: every file of up to MaxLen characters,*)
(* with a buffer that one run overflows and lines that few strings fill.   *)
(***************************************************************************)
EXTENDS AsciiStrings

CONSTANT MaxLen

MCFiles == UNION {[1..n -> Class] : n \in 1..MaxLen}
===============================================================================

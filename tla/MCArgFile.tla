------------------------------ MODULE MCArgFile -------------------------------
(***************************************************************************)
(* Instance of ArgFile for TLC: every file of up to MaxLen characters, and *)
(* a table that the longer ones fill.                                      *)
(***************************************************************************)
EXTENDS ArgFile

CONSTANT MaxLen

MCTexts == UNION {[1..n -> Char] : n \in 1..MaxLen}
===============================================================================

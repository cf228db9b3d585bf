------------------------------ MODULE MCCisBook -------------------------------
(***************************************************************************)
(* Books like the one in the comment at the head of chkcis, for TLC: three *)
(* items an entry, with and without the gaps of the structures below that  *)
(* comment. A byte has four values.                                        *)
(***************************************************************************)
EXTENDS CisBook

CommentBooks ==
  {[packed |-> p, cnt |-> n, entries |-> [i \in 1..n |-> [num |-> i, items |-> s, group |-> -1]]] :
     p \in BOOLEAN, n \in 1..4, s \in [1..CISECNT -> 1..2]}
===============================================================================

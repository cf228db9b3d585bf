------------------------------ MODULE ByteCover ------------------------------
(***************************************************************************)
(* What a dump of a range of a file promises: the bytes begin..end-1 are   *)
(* shown once each and in order, at most Width of them at a time, and the  *)
(* dump is over only when all of them have been shown.                     **)
(***************************************************************************)
EXTENDS Integers, Sequences

CONSTANT Width

VARIABLES begin, end, shown, done
vars == <<begin, end, shown, done>>

next == begin + Len(shown)

Init == /\ begin \in Nat
        /\ end \in Nat
        /\ shown = <<>>
        /\ done = FALSE

Show == /\ ~done
        /\ \E n \in 1..Width :
             /\ next + n <= end
             /\ shown' = shown \o [i \in 1..n |-> next + i - 1]
             /\ done' \in {FALSE, next + n = end}
        /\ UNCHANGED <<begin, end>>

Finish == /\ ~done
          /\ next >= end
          /\ done' = TRUE
          /\ UNCHANGED <<begin, end, shown>>

Next == Show \/ Finish

Spec == Init /\ [][Next]_vars
=============================================================================

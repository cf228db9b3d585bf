------------------------------ MODULE FileQueue -------------------------------
(***************************************************************************)
(* What the program promises of the names it is given, whatever it shows   *)
(* of each: names are collected, and then every one of them is reported    *)
(* on once, in the order they were given.                                  *)
(***************************************************************************)
EXTENDS Sequences

CONSTANT Name

VARIABLES
  queue,    \* the names not reported on
  report    \* those reported on, in order

Init == queue = <<>> /\ report = <<>>

Collect(n) ==
  /\ report = <<>>
  /\ queue' = Append(queue, n)
  /\ UNCHANGED report

Report ==
  /\ queue # <<>>
  /\ report' = Append(report, Head(queue))
  /\ queue' = Tail(queue)

Next == (\E n \in Name : Collect(n)) \/ Report

Spec == Init /\ [][Next]_<<queue, report>>
===============================================================================

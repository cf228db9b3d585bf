--------------------------------- MODULE VosTab ---------------------------------
(***************************************************************************)
(* VOS tables: ChkVosTab of src/src/Dump4v.c looks for the sizes of blocks *)
(* that a file may consist of, each block ended by a Cr/Lf pair, and       *)
(* ShowBlks says which of them may be multiples of another.                *)
(***************************************************************************)
EXTENDS Integers, Sequences, FiniteSets

CONSTANT Files  \* sequences of "cr", "lf" and "x", which is any other byte

VARIABLES
  lpb,
  vosPc,
  dwi,       \* the byte looked at, counted from 1
  v_sBlks,   \* the sizes found behind the unity block, [size, cnt]
  dwb,       \* ShowBlks: the next one to print
  printed    \* history: those printed, [size, cnt, times]; times are the multiples told

vosVars == <<lpb, vosPc, dwi, v_sBlks, dwb, printed>>

-------------------------------------------------------------------------------

rd == Len(lpb)
PairAt(n) == n > 1 /\ lpb[n - 1] = "cr" /\ lpb[n] = "lf"
dwmbs == (rd + 5) \div 3

IsVosTab == rd > 2 /\ PairAt(rd)

Check ==
  /\ vosPc = "check"
  /\ vosPc' = IF IsVosTab THEN "scan" ELSE "declined"
  /\ UNCHANGED <<lpb, dwi, v_sBlks, dwb, printed>>

\* The blocks of a size are counted up to the first that is not ended, and with it.
Fitting_OneLess(size) ==
  CHOOSE n \in 1..(rd \div size) :
    /\ \A k \in 1..(n - 1) : PairAt((k + 1) * size)
    /\ n = rd \div size \/ ~PairAt((n + 1) * size)
Fitting(size) ==
  CHOOSE n \in 1..(rd \div size) :
    /\ \A k \in 1..(n - 1) : PairAt(k * size)
    /\ n = rd \div size \/ ~PairAt(n * size)

Divides(size) == size < rd /\ rd % size = 0
Room == Len(v_sBlks) + 1 < dwmbs
Scan ==
  /\ vosPc = "scan" /\ dwi <= rd
  /\ v_sBlks' = IF PairAt(dwi) /\ Divides(dwi) /\ Room
                THEN Append(v_sBlks, [size |-> dwi, cnt |-> Fitting(dwi)]) ELSE v_sBlks
  /\ dwi' = dwi + 1
  /\ UNCHANGED <<lpb, vosPc, dwb, printed>>

Scanned ==
  /\ vosPc = "scan" /\ dwi > rd
  /\ vosPc' = IF v_sBlks = <<>> THEN "declined" ELSE "show"
  /\ UNCHANGED <<lpb, dwi, v_sBlks, dwb, printed>>

\* ShowBlks: the counts printed before that are multiples of this one are told with it.
Times(k) ==
  {v_sBlks[j].cnt \div v_sBlks[k].cnt :
     j \in {i \in 1..(k - 1) : v_sBlks[i].cnt % v_sBlks[k].cnt = 0}}
ShowBlk ==
  /\ vosPc = "show" /\ dwb <= Len(v_sBlks)
  /\ printed' = Append(printed, [size |-> v_sBlks[dwb].size, cnt |-> v_sBlks[dwb].cnt,
                                 times |-> Times(dwb)])
  /\ dwb' = dwb + 1
  /\ UNCHANGED <<lpb, vosPc, dwi, v_sBlks>>

Shown ==
  /\ vosPc = "show" /\ dwb > Len(v_sBlks)
  /\ vosPc' = "shown"
  /\ UNCHANGED <<lpb, dwi, v_sBlks, dwb, printed>>

-------------------------------------------------------------------------------

Init ==
  /\ lpb \in Files
  /\ vosPc = "check" /\ dwi = 1 /\ v_sBlks = <<>> /\ dwb = 1 /\ printed = <<>>

Next == Check \/ Scan \/ Scanned \/ ShowBlk \/ Shown

Spec == Init /\ [][Next]_vosVars /\ WF_vosVars(Next)

-------------------------------------------------------------------------------
(* Properties *)

TypeOK ==
  /\ vosPc \in {"check", "scan", "show", "declined", "shown"}
  /\ dwi \in 1..(rd + 1) /\ dwb \in 1..(Len(v_sBlks) + 1)
  /\ v_sBlks \in Seq([size : 1..rd, cnt : 1..rd])

\* A file is a table if it can be cut into equal blocks that all end in a Cr/Lf pair, and
\* each size of such blocks is printed once with their true number, for every one the room
\* for the list is enough. What else is printed is an impostor: the first of its blocks is
\* ended, and one of those counted is not.
AllEnded(size, n) == \A k \in 1..n : PairAt(k * size)
IsBlock(size) == Divides(size) /\ AllEnded(size, rd \div size)
StridesFound ==
  /\ vosPc = "declined" => ~\E size \in 2..rd : IsBlock(size)
  /\ vosPc = "shown" =>
       /\ \A size \in 2..rd : IsBlock(size) =>
            Cardinality({k \in DOMAIN printed :
                           printed[k].size = size /\ printed[k].cnt = rd \div size}) = 1
       /\ \A j, k \in DOMAIN printed : j < k => printed[j].size < printed[k].size
       /\ \A k \in DOMAIN printed : ~IsBlock(printed[k].size) =>
            /\ AllEnded(printed[k].size, printed[k].cnt - 1) /\ printed[k].cnt > 1
            /\ ~PairAt(printed[k].size * printed[k].cnt)

\* The times told are those of true multiples: a block size that is one of another is told
\* so, with the right number.
MultiplesTold ==
  vosPc = "shown" =>
    \A j, k \in DOMAIN printed :
      (IsBlock(printed[j].size) /\ IsBlock(printed[k].size) /\ j < k
        /\ printed[k].size % printed[j].size = 0) =>
         (printed[k].size \div printed[j].size) \in printed[k].times

Ended == vosPc \in {"declined", "shown"}
===============================================================================

------------------------------- MODULE WavWalk --------------------------------
(***************************************************************************)
(* WAV files: IsWAVFile and DumpWAV of src/src/DumpWAV.c. What follows the *)
(* headers of a file is a sequence of cells, each as long as the head of a *)
(* chunk; a chunk is a cell with its name and the number of cells behind   *)
(* it that it claims. The sum of that number and the head has the width of *)
(* the code's DWORD.                                                       *)
(***************************************************************************)
EXTENDS Integers, Sequences

CONSTANTS
  Waves,   \* [ok, extra, cells]: valid headers, cells added to the format, cells
  Width,   \* 2^32 in the code
  Known    \* the names Known_Chunk_ID knows, "data" being one of them

VARIABLES
  wave,
  behind,   \* what reading behind the file does: zeros, or the end of the program
  wavPc,
  tmp,      \* the cell looked at
  pwd,      \* the cell taken for the head of the data
  told,     \* history: the chunks shown by DumpWAV
  dumped    \* history: the cells shown as hex, [from, to]

wavVars == <<wave, behind, wavPc, tmp, pwd, told, dumped>>

-------------------------------------------------------------------------------

Cells == Len(wave.cells)

Faults(p) == p > Cells /\ behind = "fault"
\* Known_Chunk_ID
Name(p) == IF p <= Cells THEN wave.cells[p].id ELSE "none"
IsKnown(p) == Name(p) \in Known
Step_Head(p) == p + wave.cells[p].size
Step(p) == p + ((1 + wave.cells[p].size) % Width)

Kill ==
  /\ wavPc \in {"probe", "walk"} /\ Faults(tmp)
  /\ wavPc' = "killed"
  /\ UNCHANGED <<wave, behind, tmp, pwd, told, dumped>>

\* IsWAVFile: the size and the two headers.
Check ==
  /\ wavPc = "check"
  /\ IF wave.ok /\ Cells > 1
     THEN wavPc' = "probe" /\ tmp' = 1 + wave.extra
     ELSE wavPc' = "declined" /\ UNCHANGED tmp
  /\ UNCHANGED <<wave, behind, pwd, told, dumped>>

\* ... and the chunks up to the data.
Probe ==
  /\ wavPc = "probe" /\ ~Faults(tmp) /\ IsKnown(tmp) /\ Name(tmp) # "data"
  /\ tmp' = Step(tmp)
  /\ UNCHANGED <<wave, behind, wavPc, pwd, told, dumped>>

Refuse ==
  /\ wavPc = "probe" /\ ~Faults(tmp) /\ ~IsKnown(tmp)
  /\ wavPc' = "declined"
  /\ UNCHANGED <<wave, behind, tmp, pwd, told, dumped>>

Accept ==
  /\ wavPc = "probe" /\ ~Faults(tmp) /\ Name(tmp) = "data"
  /\ wavPc' = "walk" /\ tmp' = 1 + wave.extra /\ pwd' = 1 + wave.extra
  /\ UNCHANGED <<wave, behind, told, dumped>>

\* DumpWAV: one chunk in front of the data.
Walk ==
  /\ wavPc = "walk" /\ ~Faults(tmp) /\ IsKnown(tmp) /\ Name(tmp) # "data"
  /\ told' = Append(told, tmp)
  /\ tmp' = Step(tmp)
  /\ pwd' = IF Name(tmp') = "data" THEN tmp' ELSE pwd
  /\ UNCHANGED <<wave, behind, wavPc, dumped>>

\* The data, and the rest of the file: what is left is counted as if the data followed the
\* format at once.
Show ==
  /\ wavPc = "walk" /\ ~Faults(tmp) /\ (IsKnown(tmp) => Name(tmp) = "data")
  /\ LET dwmax == Cells - 1
         claimed == wave.cells[pwd].size
         len == IF claimed > dwmax THEN dwmax ELSE claimed
         data == [from |-> pwd + 1, to |-> pwd + len]
         rest == [from |-> pwd + len + 1, to |-> pwd + dwmax]
     IN  /\ dumped' = IF dwmax > len THEN <<data, rest>> ELSE <<data>>
         /\ wavPc' = IF Faults(pwd + dwmax) THEN "killed" ELSE "done"
  /\ UNCHANGED <<wave, behind, tmp, pwd, told>>

-------------------------------------------------------------------------------

Init ==
  /\ wave \in Waves /\ behind \in {"zeros", "fault"}
  /\ wavPc = "check" /\ tmp = 1 /\ pwd = 1 /\ told = <<>> /\ dumped = <<>>

Next == Kill \/ Check \/ Probe \/ Refuse \/ Accept \/ Walk \/ Show

Spec == Init /\ [][Next]_wavVars /\ WF_wavVars(Next)

-------------------------------------------------------------------------------
(* Properties *)

TypeOK ==
  /\ wavPc \in {"check", "probe", "walk", "declined", "killed", "done"}
  /\ behind \in {"zeros", "fault"} /\ tmp \in Nat /\ pwd \in Nat
  /\ told \in Seq(Nat) /\ dumped \in Seq([from : Nat, to : Nat])

\* A file is shown by the chunk that is its data, the chunks told are those in front of it,
\* and nothing behind the head of the data is left out, up to the end of the file: the data, by
\* as much as it claims and the file has, and the rest behind it. When the data follows the
\* format at once, it ends there; of what is shown beyond it otherwise nothing is said.
DataShown ==
  wavPc = "done" =>
    /\ Name(pwd) = "data" /\ \A k \in DOMAIN told : Name(told[k]) # "data"
    /\ \A k \in DOMAIN told : (IF k < Len(told) THEN told[k + 1] ELSE pwd)
                               = told[k] + 1 + wave.cells[told[k]].size
    /\ dumped[1].from = pwd + 1
    /\ wave.cells[pwd].size <= Cells - pwd => dumped[1].to = pwd + wave.cells[pwd].size
    /\ dumped[Len(dumped)].to >= Cells
    /\ pwd = 1 => dumped[Len(dumped)].to = Cells
    /\ Len(dumped) = 2 => dumped[2].from = dumped[1].to + 1

\* IsWAVFile ends unless a chunk in front of the data claims so much that with its head
\* nothing is left of the sum.
Ended == wavPc \in {"declined", "killed", "done"}
Turning == wavPc = "probe" /\ IsKnown(tmp) /\ Step(tmp) = tmp
===============================================================================

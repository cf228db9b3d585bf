------------------------------ MODULE Dump4_proofs ------------------------------
(***************************************************************************)
(* Proofs about Commands and Dump4, for every command, whatever the files  *)
(* of arguments contain, and for every files and handlers.                 *)
(***************************************************************************)
EXTENDS Dump4, SequenceTheorems, WellFoundedInduction, TLAPS

-------------------------------------------------------------------------------
(* The command line *)

\* The inductive invariant: one file for each call but the first.
CommandInv == CommandTypeOK /\ NamesFit /\ OneFilePerCall

-------------------------------------------------------------------------------

\* The argument that comes next is one, and the calls are left as before but for
\* it.
LEMMA NextArgument ==
  ASSUME CommandTypeOK, Head(stack) # <<>>
  PROVE  /\ Head(stack) \in Seq(Arg) /\ Tail(stack) \in Seq(Seq(Arg))
         /\ Head(Head(stack)) \in Arg
         /\ Taken \in Seq(Seq(Arg)) /\ Len(Taken) = Len(stack) /\ Taken # <<>>
<1>1. stack \in Seq(Seq(Arg)) /\ stack # <<>>
  BY DEF CommandTypeOK
<1>2. /\ Head(stack) \in Seq(Arg) /\ Tail(stack) \in Seq(Seq(Arg))
      /\ Len(Tail(stack)) = Len(stack) - 1
  BY <1>1, HeadTailProperties
<1>3. Head(Head(stack)) \in Arg /\ Tail(Head(stack)) \in Seq(Arg)
  BY <1>2, HeadTailProperties
<1>4. <<Tail(Head(stack))>> \in Seq(Seq(Arg)) /\ Len(<<Tail(Head(stack))>>) = 1
  BY <1>3
<1>5. /\ Taken \in Seq(Seq(Arg))
      /\ Len(Taken) = 1 + Len(Tail(stack))
  BY <1>2, <1>4, ConcatProperties DEF Taken
<1>6. Len(stack) \in Nat /\ Len(stack) > 0
  BY <1>1, EmptySeq, LenProperties
<1>7. Len(Taken) = Len(stack)
  BY <1>2, <1>5, <1>6
<1>8. Taken # <<>>
  BY <1>5, <1>6, <1>7, EmptySeq
<1> QED
  BY <1>2, <1>3, <1>5, <1>7, <1>8

\* What an argument of each kind stands for.
LEMMA ArgumentOfKind ==
  ASSUME NEW a \in Arg
  PROVE  /\ a.kind = "mode" => a.of \subseteq Modes
         /\ a.kind \in {"name", "iname"} => a.of \in Names
         /\ a.kind = "at" => a.of \in ArgFiles
BY DEF Arg

\* main starts with no name and no open file.
LEMMA ParseInitHolds == ParseInit => CommandInv
<1> SUFFICES ASSUME ParseInit PROVE CommandInv
  OBVIOUS
<1>1. argv \in Seq(Arg)
  BY ArgsAssumption DEF ParseInit
<1>2. stack \in Seq(Seq(Arg)) /\ Len(stack) = 1 /\ stack # <<>>
  BY <1>1 DEF ParseInit
<1>3. gpFilNames \in Seq(StoredNames) /\ Len(gpFilNames) = 0
  BY EmptySeq DEF ParseInit
<1>4. CommandTypeOK
  BY <1>1, <1>2, <1>3 DEF ParseInit, CommandTypeOK
<1>5. NamesFit
  BY <1>3, LimitsAssumption DEF NamesFit, giInCount
<1>6. OneFilePerCall
  BY <1>2, LimitsAssumption DEF ParseInit, OneFilePerCall
<1> QED
  BY <1>4, <1>5, <1>6 DEF CommandInv

\* Leaving the program, as its state stays.
LEMMA ExitKeeps ==
  ASSUME CommandInv, NEW code \in {"exit0", "exit1"}, Exit(code)
  PROVE  CommandInv'
BY DEF Exit, CommandInv, CommandTypeOK, NamesFit, OneFilePerCall, giInCount

\* Every argument, and every return of a call, keeps the invariant.
LEMMA ParseStep == CommandInv /\ [ParseNext]_commandVars => CommandInv'
<1> SUFFICES ASSUME CommandInv, [ParseNext]_commandVars PROVE CommandInv'
  OBVIOUS
<1> USE DEF CommandInv
<1>1. CASE Mode
  <2>1. Head(Head(stack)).kind = "mode" /\ Head(stack) # <<>>
    BY <1>1 DEF Mode, Next1
  <2>2. modes' \subseteq Modes
    BY <1>1, <2>1, NextArgument, ArgumentOfKind DEF Mode, Arg1, CommandTypeOK
  <2>3. stack' \in Seq(Seq(Arg)) /\ Len(stack') = Len(stack) /\ stack' # <<>>
    BY <1>1, <2>1, NextArgument DEF Mode
  <2> QED
    BY <1>1, <2>2, <2>3 DEF Mode, CommandTypeOK, NamesFit, OneFilePerCall, giInCount
<1>2. CASE Help
  BY <1>2, ExitKeeps DEF Help
<1>3. CASE Wrong
  BY <1>3, ExitKeeps DEF Wrong
<1>4. CASE AddName
  <2>1. /\ Head(Head(stack)).kind \in {"name", "iname"} /\ Head(stack) # <<>>
        /\ status = "parse"
    BY <1>4 DEF AddName, Next1
  <2>2. Arg1 \in Names
    BY <2>1, NextArgument, ArgumentOfKind DEF Arg1
  <2>3. Stored(Head(Head(stack)).kind, Arg1) \in StoredNames
    BY <2>1, <2>2 DEF StoredNames
  <2>4. gpFilNames' \in Seq(StoredNames) /\ Len(gpFilNames') = Len(gpFilNames) + 1
    BY <1>4, <2>3, AppendProperties DEF AddName, CommandTypeOK
  <2>5. Len(gpFilNames) \in Nat
    BY LenProperties DEF CommandTypeOK
  <2>6. CASE TooMany(giInCount + 1)
    BY <1>4, <2>4, <2>6
    DEF AddName, CommandTypeOK, NamesFit, OneFilePerCall
  <2>7. CASE ~TooMany(giInCount + 1)
    <3>1. stack' \in Seq(Seq(Arg)) /\ Len(stack') = Len(stack) /\ stack' # <<>>
      BY <1>4, <2>1, <2>7, NextArgument DEF AddName
    <3>2. status' = status /\ fds' = fds /\ argv' = argv /\ modes' = modes
      BY <1>4, <2>7 DEF AddName
    <3>3. Len(gpFilNames') < MXFILNAMES
      BY <2>4, <2>5, <2>7, LimitsAssumption DEF TooMany, giInCount
    <3> QED
      BY <2>4, <3>1, <3>2, <3>3 DEF CommandTypeOK, NamesFit, OneFilePerCall, giInCount
  <2> QED
    BY <2>6, <2>7
<1>5. CASE EmptyName
  <2>1. stack' \in Seq(Seq(Arg)) /\ Len(stack') = Len(stack) /\ stack' # <<>>
    BY <1>5, NextArgument DEF EmptyName, Next1
  <2> QED
    BY <1>5, <2>1
    DEF EmptyName, CommandTypeOK, NamesFit, OneFilePerCall, giInCount
<1>6. CASE AtFile
  <2>1. Head(Head(stack)).kind = "at" /\ Head(stack) # <<>>
    BY <1>6 DEF AtFile, Next1
  <2>2. /\ Taken \in Seq(Seq(Arg)) /\ Len(Taken) = Len(stack) /\ Taken # <<>>
        /\ Arg1 \in ArgFiles
    BY <2>1, NextArgument, ArgumentOfKind DEF Arg1
  <2>3. CASE ArgsOf[Arg1] = <<>>
    BY <1>6, <2>2, <2>3
    DEF AtFile, CommandTypeOK, NamesFit, OneFilePerCall, giInCount
  <2>4. CASE ArgsOf[Arg1] # <<>>
    <3>1. <<ArgsOf[Arg1]>> \in Seq(Seq(Arg)) /\ Len(<<ArgsOf[Arg1]>>) = 1
      BY <2>2, ArgsAssumption
    <3>2. stack' \in Seq(Seq(Arg)) /\ Len(stack') = 1 + Len(stack)
      <4>1. stack' = <<ArgsOf[Arg1]>> \o Taken
        BY <1>6, <2>4 DEF AtFile, ReadArgs
      <4>2. /\ <<ArgsOf[Arg1]>> \o Taken \in Seq(Seq(Arg))
            /\ Len(<<ArgsOf[Arg1]>> \o Taken) = 1 + Len(Taken)
        BY <2>2, <3>1, ConcatProperties
      <4> QED
        BY <2>2, <4>1, <4>2
    <3>3. Len(stack) \in Nat
      BY LenProperties DEF CommandTypeOK
    <3>4. stack' # <<>>
      BY <3>2, <3>3, EmptySeq
    <3>5. fds' = fds + 1 /\ fds < MaxOpen
      BY <1>6, <2>4 DEF AtFile, CanOpen
    <3>6. fds' = Len(stack') - 1 /\ fds' <= MaxOpen /\ fds' \in Nat
      BY <3>2, <3>3, <3>5, LimitsAssumption DEF CommandTypeOK, OneFilePerCall
    <3> QED
      BY <1>6, <3>2, <3>4, <3>6
      DEF AtFile, CommandTypeOK, NamesFit, OneFilePerCall, giInCount
  <2> QED
    BY <2>3, <2>4
<1>7. CASE AtFileFails
  BY <1>7, ExitKeeps DEF AtFileFails
<1>8. CASE Return
  <2>1. CASE Tail(stack) # <<>>
    <3>1. /\ Tail(stack) \in Seq(Seq(Arg)) /\ Len(Tail(stack)) = Len(stack) - 1
      BY HeadTailProperties DEF CommandTypeOK
    <3>2. Len(Tail(stack)) \in Nat \ {0}
      BY <2>1, <3>1, EmptySeq
    <3>3. stack' = Tail(stack) /\ fds' = fds - 1
      BY <1>8, <2>1 DEF Return, Closed
    <3>4. fds' = Len(stack') - 1 /\ fds' \in Nat /\ fds' <= MaxOpen
      BY <3>1, <3>2, <3>3, LenProperties, LimitsAssumption DEF CommandTypeOK, OneFilePerCall
    <3> QED
      BY <1>8, <2>1, <3>1, <3>3, <3>4
      DEF Return, CommandTypeOK, NamesFit, OneFilePerCall, giInCount
  <2>2. CASE Tail(stack) = <<>>
    BY <1>8, <2>2
    DEF Return, CommandTypeOK, NamesFit, OneFilePerCall, giInCount
  <2> QED
    BY <2>1, <2>2
<1>9. CASE UNCHANGED commandVars
  BY <1>9 DEF commandVars, CommandTypeOK, NamesFit, OneFilePerCall, giInCount
<1> QED
  BY <1>1, <1>2, <1>3, <1>4, <1>5, <1>6, <1>7, <1>8, <1>9 DEF ParseNext

\* The invariant holds of every state of ProcessCommand.
THEOREM CommandInductive == ParseSpec => []CommandInv
<1> QED
  BY ParseInitHolds, ParseStep, PTL DEF ParseSpec

\* The variables of ProcessCommand keep their types.
THEOREM CommandTypes == ParseSpec => []CommandTypeOK
<1>1. CommandInv => CommandTypeOK
  BY DEF CommandInv
<1> QED
  BY <1>1, CommandInductive, PTL

\* A name is stored in gpFilNames only where the table has room for it, however
\* the names are spread over the command and the files it reads.
THEOREM NamesAlwaysFit == ParseSpec => []NamesFit
<1>1. CommandInv => NamesFit
  BY DEF CommandInv
<1> QED
  BY <1>1, CommandInductive, PTL

\* The nested calls of ProcessCommand hold one open file each, and so end when
\* no more can be opened.
THEOREM CallsHoldOneFile == ParseSpec => []OneFilePerCall
<1>1. CommandInv => OneFilePerCall
  BY DEF CommandInv
<1> QED
  BY <1>1, CommandInductive, PTL

-------------------------------------------------------------------------------
(* The loop over the names *)

\* Every set of numbers that is not empty has a least one.
LEMMA LeastNumber ==
  ASSUME NEW T \in SUBSET Nat, T # {}
  PROVE  \E n \in T : \A m \in T : n <= m
<1> DEFINE R == OpToRel(<, Nat)
<1>1. IsWellFoundedOn(R, Nat)
  BY NatLessThanWellFounded
<1>2. \A m, n \in Nat : m < n => <<m, n>> \in R
  BY DEF OpToRel
<1> HIDE DEF R
<1>3. PICK n \in T : \A m \in T : <<m, n>> \notin R
  BY <1>1, WFMin
<1>4. ASSUME NEW m \in T PROVE n <= m
  <2>1. m \in Nat /\ n \in Nat /\ ~(m < n)
    BY <1>2, <1>3
  <2> QED
    BY <2>1
<1> QED
  BY <1>4

IsSeq(s) == \E S : s \in Seq(S)

\* While the command is parsed nothing of the loop over the names has happened.
NotStarted ==
  status = "parse" =>
    OneFilePerCall /\ i = 0 /\ pc = "next" /\ report = <<>> /\ heap = 1..giInCount

\* A file is only open in the loop over the names, and belongs to one of them.
InLoop == pc # "next" => status = "parsed" /\ i < giInCount

Reported == IsSeq(report) /\ Len(report) = i

IInv ==
  /\ CommandTypeOK /\ NamesFit
  /\ i \in Nat /\ i <= giInCount /\ pc \in {"next", "opened", "mapped"}
  /\ heap \subseteq 1..giInCount /\ gbGotWild \in BOOLEAN
  /\ Reported /\ NotStarted /\ InLoop /\ NothingHeld

-------------------------------------------------------------------------------

\* giInCount is a number.
LEMMA CountIsNat == CommandTypeOK => giInCount \in Nat
BY LenProperties DEF CommandTypeOK, giInCount

\* main starts with nothing reported and nothing held.
LEMMA InitHolds == Init => IInv
<1> SUFFICES ASSUME Init PROVE IInv
  OBVIOUS
<1>1. CommandInv
  BY ParseInitHolds DEF Init
<1>2. gpFilNames = <<>> /\ giInCount = 0
  BY DEF Init, ParseInit, giInCount
<1>3. Reported
  BY EmptySeq DEF Init, Reported, IsSeq
<1>4. 1..giInCount = {}
  BY <1>2
<1>5. NotStarted
  BY <1>1, <1>4 DEF Init, NotStarted, CommandInv
<1>6. InLoop /\ NothingHeld
  BY <1>1, <1>4 DEF Init, ParseInit, InLoop, NothingHeld, CommandInv
<1>7. gbGotWild \in BOOLEAN
  BY DEF Init
<1>8. i \in Nat /\ i <= giInCount /\ pc = "next" /\ heap \subseteq 1..giInCount
  BY <1>2 DEF Init
<1> QED
  BY <1>1, <1>3, <1>5, <1>6, <1>7, <1>8 DEF IInv, CommandInv

\* ProcessCommand acts only until the command is parsed.
LEMMA OnlyWhileParsing ==
  ParseNext => /\ status = "parse"
               /\ status' \in {"parse", "parsed", "exit0", "exit1"}
BY DEF ParseNext, Mode, Help, Wrong, AddName, EmptyName, AtFile, AtFileFails,
       Return, Next1, Exit

\* The command is parsed when the first call returns: no file is open.
LEMMA ParsedClosesAll ==
  ASSUME CommandInv, ParseNext, status' = "parsed"
  PROVE  fds' = 0
<1>1. status = "parse"
  BY OnlyWhileParsing
<1>2. Return /\ Tail(stack) = <<>> /\ fds' = fds
  BY <1>1 DEF ParseNext, Mode, Help, Wrong, AddName, EmptyName, AtFile, AtFileFails,
              Return, Next1, Exit
<1>3. Len(Tail(stack)) = Len(stack) - 1
  BY HeadTailProperties DEF CommandInv, CommandTypeOK
<1>4. Len(stack) \in Nat
  BY LenProperties DEF CommandInv, CommandTypeOK
<1>5. Len(stack) = 1
  <2>1. Tail(stack) = <<>>
    BY <1>2
  <2>2. Len(Tail(stack)) = 0
    BY <2>1, EmptySeq
  <2> QED
    BY <1>3, <1>4, <2>2
<1> QED
  BY <1>2, <1>5 DEF CommandInv, OneFilePerCall

LEMMA ParseKeeps ==
  ASSUME IInv, Parse
  PROVE  IInv'
<1>1. status = "parse" /\ status' \in {"parse", "parsed", "exit0", "exit1"}
  BY OnlyWhileParsing DEF Parse
<1>2. CommandInv
  BY <1>1 DEF IInv, NotStarted, CommandInv
<1>3. CommandInv'
  BY <1>2, ParseStep DEF Parse
<1>4. i = 0 /\ pc = "next" /\ report = <<>>
  BY <1>1 DEF IInv, NotStarted
<1>5. /\ i' = 0 /\ pc' = "next" /\ report' = <<>> /\ gbGotWild' = gbGotWild
      /\ heap' = 1..giInCount'
  BY <1>4 DEF Parse, giInCount
<1>6. giInCount' \in Nat
  BY <1>3, LenProperties DEF CommandInv, CommandTypeOK, giInCount
<1>7. Reported'
  BY <1>4, <1>5 DEF IInv, Reported, IsSeq
<1>8. NotStarted'
  BY <1>3, <1>5 DEF NotStarted, CommandInv
<1>9. NothingHeld'
  <2>1. status' = "parsed" => fds' = 0
    BY <1>2, ParsedClosesAll DEF Parse
  <2>2. heap' = (i' + 1)..giInCount'
    BY <1>5
  <2> QED
    BY <1>3, <1>5, <2>1, <2>2 DEF NothingHeld, CommandInv
<1> QED
  BY <1>3, <1>5, <1>6, <1>7, <1>8, <1>9 DEF IInv, InLoop, CommandInv

\* What DoneWith leaves behind, wherever it is used.
LEMMA DoneKeeps ==
  ASSUME IInv, NEW all, DoneWith(all), status = "parsed", i < giInCount,
         status' = status, fds' = 0, gbGotWild' \in BOOLEAN,
         UNCHANGED <<argv, stack, modes, gpFilNames>>
  PROVE  IInv'
<1>1. giInCount \in Nat /\ i \in Nat /\ giInCount' = giInCount
  BY CountIsNat DEF IInv, giInCount
<1>2. i' = i + 1 /\ pc' = "next" /\ heap' = heap \ {i + 1}
  BY DEF DoneWith, Following
<1>3. heap = (i + 1)..giInCount
  BY DEF IInv, NothingHeld
<1>4. heap' = (i' + 1)..giInCount'
  BY <1>1, <1>2, <1>3
<1>5. CommandTypeOK' /\ NamesFit'
  BY DEF IInv, CommandTypeOK, NamesFit, giInCount
<1>6. Reported'
  <2> DEFINE r == [name |-> FileName, shown |-> all]
  <2>1. PICK S : report \in Seq(S)
    BY DEF IInv, Reported, IsSeq
  <2>2. report \in Seq(S \cup {r})
    BY <2>1, SeqMonotonic
  <2>3. report' = Append(report, r)
    BY DEF DoneWith
  <2>4. report' \in Seq(S \cup {r}) /\ Len(report') = Len(report) + 1
    BY <2>2, <2>3, AppendProperties
  <2> QED
    BY <1>2, <2>4 DEF IInv, Reported, IsSeq
<1>7. NotStarted' /\ InLoop' /\ NothingHeld'
  BY <1>2, <1>4 DEF NotStarted, InLoop, NothingHeld
<1> QED
  BY <1>1, <1>2, <1>5, <1>6, <1>7 DEF IInv

\* Every step of the program keeps the invariant.
LEMMA StepHolds == IInv /\ [Next]_vars => IInv'
<1> SUFFICES ASSUME IInv, [Next]_vars PROVE IInv'
  OBVIOUS
<1>1. CASE Parse
  BY <1>1, ParseKeeps
<1>2. CASE NoNames
  BY <1>2
  DEF NoNames, fileVars, IInv, CommandTypeOK, NamesFit, giInCount, Reported, IsSeq,
      NotStarted, InLoop, NothingHeld
<1>3. CASE OpenFile
  <2>1. status = "parsed" /\ pc = "next" /\ i < giInCount /\ fds = 0
    BY <1>3 DEF OpenFile, Running, IInv, NothingHeld
  <2>2. fds' = 1 /\ pc' = "opened"
    BY <1>3, <2>1 DEF OpenFile
  <2> QED
    BY <1>3, <2>1, <2>2
    DEF OpenFile, IInv, CommandTypeOK, NamesFit, giInCount, Reported, IsSeq,
        NotStarted, InLoop, NothingHeld
<1>4. CASE OpenFails
  <2>1. status = "parsed" /\ pc = "next" /\ i < giInCount /\ fds = 0
    BY <1>4 DEF OpenFails, Running, IInv, NothingHeld
  <2>2. gbGotWild' \in BOOLEAN
    BY <1>4 DEF OpenFails, GotWild
  <2> QED
    BY <1>4, <2>1, <2>2, DoneKeeps DEF OpenFails, commandVars
<1>5. CASE MapFails
  <2>1. status = "parsed" /\ i < giInCount /\ fds = 1
    BY <1>5 DEF MapFails, IInv, InLoop, NothingHeld
  <2>2. fds' = 0 /\ gbGotWild' \in BOOLEAN
    BY <1>5, <2>1 DEF MapFails, Close, IInv
  <2> QED
    BY <1>5, <2>1, <2>2, DoneKeeps DEF MapFails
<1>6. CASE Map
  <2>1. status = "parsed" /\ i < giInCount
    BY <1>6 DEF Map, IInv, InLoop
  <2> QED
    BY <1>6, <2>1
    DEF Map, commandVars, IInv, CommandTypeOK, NamesFit, giInCount, Reported, IsSeq,
        NotStarted, InLoop, NothingHeld
<1>7. ASSUME NEW all, Unmap(all), pc = "mapped", gbGotWild' = gbGotWild,
             UNCHANGED <<argv, stack, modes, gpFilNames, status>>
      PROVE  IInv'
  <2>1. status = "parsed" /\ i < giInCount /\ fds = 1
    BY <1>7 DEF IInv, InLoop, NothingHeld
  <2>2. fds' = 0 /\ gbGotWild' \in BOOLEAN
    BY <1>7, <2>1 DEF Unmap, Close, IInv
  <2> QED
    BY <1>7, <2>1, <2>2, DoneKeeps DEF Unmap
<1>8. CASE ShowStrings \/ ShowRest
  BY <1>7, <1>8 DEF ShowStrings, ShowRest
<1>9. CASE AskHandler
  <2>1. CASE \E all : Unmap(all)
    BY <1>7, <1>9, <2>1 DEF AskHandler
  <2>2. CASE UNCHANGED <<fds, i, pc, heap, report>>
    BY <1>9, <2>2
    DEF AskHandler, IInv, CommandTypeOK, NamesFit, giInCount, Reported, IsSeq,
        NotStarted, InLoop, NothingHeld
  <2> QED
    BY <1>9, <2>1, <2>2 DEF AskHandler
<1>10. CASE Finish
  <2>1. giInCount \in Nat /\ i = giInCount /\ fds = 0 /\ heap = (i + 1)..giInCount
    BY <1>10, CountIsNat DEF Finish, AllDone, IInv, NothingHeld
  <2>2. heap = {}
    BY <2>1
  <2> QED
    BY <1>10, <2>1, <2>2
    DEF Finish, fileVars, IInv, CommandTypeOK, NamesFit, giInCount, Reported, IsSeq,
        NotStarted, InLoop, NothingHeld
<1>11. CASE UNCHANGED vars
  BY <1>11
  DEF vars, commandVars, fileVars, IInv, CommandTypeOK, NamesFit, OneFilePerCall,
      giInCount, Reported, IsSeq, NotStarted, InLoop, NothingHeld
<1> QED
  BY <1>1, <1>2, <1>3, <1>4, <1>5, <1>6, <1>8, <1>9, <1>10, <1>11 DEF Next

\* The invariant holds of every state of the program.
THEOREM Inductive == Spec => []IInv
<1> QED
  BY InitHolds, StepHolds, PTL DEF Spec

\* Whatever files are named, missing or not to be mapped, the program has no more
\* than one of them open, closes it before the next, and frees each name once.
THEOREM HoldsNothing == Spec => []NothingHeld
<1>1. IInv => NothingHeld
  BY DEF IInv
<1> QED
  BY <1>1, Inductive, PTL
-------------------------------------------------------------------------------
(* The program implements FileQueue *)

\* Taking the first of what is left of a sequence.
LEMMA FirstOfRest ==
  ASSUME NEW S, NEW s \in Seq(S), NEW n \in Nat, n < Len(s)
  PROVE  /\ SubSeq(s, n + 1, Len(s)) # <<>>
         /\ Head(SubSeq(s, n + 1, Len(s))) = s[n + 1]
         /\ Tail(SubSeq(s, n + 1, Len(s))) = SubSeq(s, n + 2, Len(s))
<1>1. Len(s) \in Nat /\ n + 1 \in 1..Len(s) /\ Len(s) \in (n + 1)..Len(s)
  BY LenProperties
<1>2. /\ Head(SubSeq(s, n + 1, Len(s))) = s[n + 1]
      /\ Tail(SubSeq(s, n + 1, Len(s))) = SubSeq(s, (n + 1) + 1, Len(s))
  BY <1>1, HeadTailOfSubSeq
<1>3. (n + 1) + 1 = n + 2
  OBVIOUS
<1>4. SubSeq(s, n + 1, Len(s)) # <<>>
  <2>1. \A k \in (n + 1)..Len(s) : s[k] \in S
    <3>1. \A k \in (n + 1)..Len(s) : k \in 1..Len(s)
      BY <1>1
    <3> QED
      BY <3>1, ElementOfSeq
  <2>2. Len(SubSeq(s, n + 1, Len(s))) = Len(s) - (n + 1) + 1
    BY <1>1, <2>1, SubSeqProperties
  <2>3. Len(s) - (n + 1) + 1 # 0
    BY <1>1
  <2> QED
    BY <2>2, <2>3, EmptySeq
<1> QED
  BY <1>2, <1>3, <1>4

NamesIn(r) == [k \in DOMAIN r |-> r[k].name]

\* The names of a report, one for each entry.
LEMMA NamesAreSeq ==
  ASSUME NEW S, NEW r \in Seq(S)
  PROVE  /\ NamesIn(r) \in Seq({e.name : e \in S}) /\ Len(NamesIn(r)) = Len(r)
         /\ \A k \in 1..Len(r) : NamesIn(r)[k] = r[k].name
<1>1. DOMAIN r = 1..Len(r) /\ Len(r) \in Nat
  BY LenProperties
<1>2. \A k \in 1..Len(r) : r[k].name \in {e.name : e \in S}
  BY ElementOfSeq
<1>3. NamesIn(r) \in [1..Len(r) -> {e.name : e \in S}]
  BY <1>1, <1>2 DEF NamesIn
<1>4. NamesIn(r) \in Seq({e.name : e \in S}) /\ Len(NamesIn(r)) = Len(r)
  BY <1>1, <1>3
<1> QED
  BY <1>1, <1>4 DEF NamesIn

\* One more entry is one more name.
LEMMA NamesOfAppend ==
  ASSUME NEW S, NEW r \in Seq(S), NEW x
  PROVE  NamesIn(Append(r, x)) = Append(NamesIn(r), x.name)
<1> DEFINE T == S \cup {x}
           N == {e.name : e \in T}
           a == NamesIn(Append(r, x))
           b == Append(NamesIn(r), x.name)
<1>1. /\ r \in Seq(T) /\ x \in T /\ Len(r) \in Nat
  BY SeqMonotonic, LenProperties
<1>2. /\ Append(r, x) \in Seq(T) /\ Len(Append(r, x)) = Len(r) + 1
      /\ \A k \in 1..Len(r) : Append(r, x)[k] = r[k]
      /\ Append(r, x)[Len(r) + 1] = x
  BY <1>1, AppendProperties
<1>3. /\ a \in Seq(N) /\ Len(a) = Len(r) + 1
      /\ \A k \in 1..(Len(r) + 1) : a[k] = Append(r, x)[k].name
  BY <1>2, NamesAreSeq
<1>4. /\ NamesIn(r) \in Seq(N) /\ Len(NamesIn(r)) = Len(r)
      /\ \A k \in 1..Len(r) : NamesIn(r)[k] = r[k].name
  BY <1>1, NamesAreSeq
<1>5. x.name \in N
  BY <1>1
<1>6. /\ b \in Seq(N) /\ Len(b) = Len(r) + 1
      /\ \A k \in 1..Len(r) : b[k] = NamesIn(r)[k]
      /\ b[Len(r) + 1] = x.name
  BY <1>4, <1>5, AppendProperties
<1>7. ASSUME NEW k \in 1..(Len(r) + 1) PROVE a[k] = b[k]
  <2>1. k \in 1..Len(r) \/ k = Len(r) + 1
    BY <1>1
  <2> QED
    BY <1>2, <1>3, <1>4, <1>6, <2>1
<1>8. a = b
  BY <1>3, <1>6, <1>7, SeqEqual
<1> QED
  BY <1>8

\* An empty report has no names.
LEMMA NoNamesYet == NamesIn(<<>>) = <<>>
<1>1. NamesIn(<<>>) \in Seq({e.name : e \in {}}) /\ Len(NamesIn(<<>>)) = 0
  BY EmptySeq, NamesAreSeq
<1> QED
  BY <1>1, EmptySeq

queue == SubSeq(gpFilNames, i + 1, giInCount)

\* At the start the queue and the report of FileQueue are empty.
LEMMA InitImplements == Init => Queue!Init
<1> SUFFICES ASSUME Init PROVE Queue!Init
  OBVIOUS
<1>1. gpFilNames = <<>> /\ i = 0 /\ report = <<>>
  BY DEF Init, ParseInit
<1>2. gpFilNames \in Seq(StoredNames)
  BY <1>1, EmptySeq
<1>3. queue = <<>>
  BY <1>1, <1>2, SubSeqFull DEF queue, giInCount
<1> QED
  BY <1>1, <1>3, NoNamesYet DEF Queue!Init, queue, NamesIn

\* A name that is parsed joins the queue.
LEMMA ParseImplements ==
  ASSUME IInv, Parse
  PROVE  [Queue!Next]_<<queue, NamesIn(report)>>
<1>1. /\ status = "parse" /\ i = 0 /\ report = <<>> /\ i' = i /\ report' = report
  BY OnlyWhileParsing DEF Parse, IInv, NotStarted
<1>2. gpFilNames \in Seq(StoredNames)
  BY DEF IInv, CommandTypeOK
<1>3. queue = gpFilNames
  BY <1>1, <1>2, SubSeqFull DEF queue, giInCount
<1>4. CASE UNCHANGED gpFilNames
  BY <1>1, <1>4 DEF queue, giInCount
<1>5. CASE AddName
  <2>1. Head(stack) # <<>> /\ Head(Head(stack)).kind \in {"name", "iname"}
    BY <1>5 DEF AddName, Next1
  <2>2. Arg1 \in Names
    BY <2>1, NextArgument, ArgumentOfKind DEF Arg1, IInv
  <2>3. Stored(Head(Head(stack)).kind, Arg1) \in StoredNames
    BY <2>1, <2>2 DEF StoredNames
  <2>4. PICK n \in StoredNames : gpFilNames' = Append(gpFilNames, n)
    BY <1>5, <2>3 DEF AddName
  <2>5. gpFilNames' \in Seq(StoredNames)
    BY <1>2, <2>4, AppendProperties
  <2>6. queue' = gpFilNames'
    BY <1>1, <2>5, SubSeqFull DEF queue, giInCount
  <2>7. NamesIn(report) = <<>> /\ NamesIn(report)' = NamesIn(report)
    BY <1>1, NoNamesYet
  <2>8. Queue!Collect(n)
    BY <1>3, <2>4, <2>6, <2>7 DEF Queue!Collect, queue, NamesIn
  <2> QED
    BY <2>8 DEF Queue!Next
<1> QED
  BY <1>4, <1>5
  DEF Parse, ParseNext, Mode, Help, Wrong, EmptyName, AtFile, AtFileFails, Return, Exit

\* A name that is done with is the first of the queue, whatever became of it.
LEMMA DoneImplements ==
  ASSUME IInv, NEW all, DoneWith(all), i < giInCount, UNCHANGED gpFilNames
  PROVE  Queue!Report
<1>1. gpFilNames \in Seq(StoredNames) /\ i \in Nat
  BY DEF IInv, CommandTypeOK
<1>2. /\ queue # <<>> /\ Head(queue) = gpFilNames[i + 1]
      /\ Tail(queue) = SubSeq(gpFilNames, i + 2, giInCount)
  BY <1>1, FirstOfRest DEF queue, giInCount
<1>3. i' + 1 = i + 2 /\ giInCount' = giInCount
  BY <1>1 DEF DoneWith, Following, giInCount
<1>4. queue' = Tail(queue)
  BY <1>2, <1>3 DEF queue
<1>5. NamesIn(report)' = Append(NamesIn(report), Head(queue))
  <2>1. PICK S : report \in Seq(S)
    BY DEF IInv, Reported, IsSeq
  <2>2. report' = Append(report, [name |-> FileName, shown |-> all])
    BY DEF DoneWith
  <2>3. NamesIn(report') = Append(NamesIn(report), FileName)
    BY <2>1, <2>2, NamesOfAppend
  <2> QED
    BY <1>2, <2>3 DEF FileName
<1> QED
  BY <1>2, <1>4, <1>5 DEF Queue!Report, queue, NamesIn

\* Every step collects a name, reports one, or leaves FileQueue alone.
LEMMA StepImplements ==
  IInv /\ [Next]_vars => [Queue!Next]_<<queue, NamesIn(report)>>
<1> SUFFICES ASSUME IInv, [Next]_vars PROVE [Queue!Next]_<<queue, NamesIn(report)>>
  OBVIOUS
<1>1. CASE Parse
  BY <1>1, ParseImplements
<1>2. CASE UNCHANGED <<gpFilNames, i, report>>
  BY <1>2 DEF queue, giInCount
<1>3. CASE OpenFails
  <2>1. Queue!Report
    BY <1>3, DoneImplements DEF OpenFails, Running, commandVars
  <2> QED
    BY <2>1 DEF Queue!Next
<1>4. CASE MapFails
  <2>1. Queue!Report
    BY <1>4, DoneImplements DEF MapFails, IInv, InLoop
  <2> QED
    BY <2>1 DEF Queue!Next
<1>5. ASSUME NEW all, Unmap(all), pc = "mapped", UNCHANGED gpFilNames
      PROVE  Queue!Next
  <2>1. Queue!Report
    BY <1>5, DoneImplements DEF Unmap, IInv, InLoop
  <2> QED
    BY <2>1 DEF Queue!Next
<1>6. CASE ShowStrings \/ ShowRest
  BY <1>5, <1>6 DEF ShowStrings, ShowRest
<1>7. CASE AskHandler
  <2>1. CASE \E all : Unmap(all)
    BY <1>5, <1>7, <2>1 DEF AskHandler
  <2>2. CASE UNCHANGED <<fds, i, pc, heap, report>>
    BY <1>2, <1>7, <2>2 DEF AskHandler
  <2> QED
    BY <1>7, <2>1, <2>2 DEF AskHandler
<1> QED
  BY <1>1, <1>2, <1>3, <1>4, <1>6, <1>7
  DEF Next, NoNames, OpenFile, Map, Finish, vars, commandVars, fileVars

\* The program implements the queue of files: every name of the command and of
\* the files it reads is reported on once, in order, for every command.
THEOREM Implements == Spec => InOrder
<1>1. IInv /\ [Next]_vars => [Queue!Next]_<<SubSeq(gpFilNames, i + 1, giInCount),
                                           [k \in DOMAIN report |-> report[k].name]>>
  BY StepImplements DEF queue, NamesIn
<1> QED
  BY <1>1, InitImplements, Inductive, PTL DEF Spec, InOrder, Queue!Spec
-------------------------------------------------------------------------------
(* What is shown of each file *)

Display == ToSet(Handlers) \cup {"ascii", "text", "hex"}
Entry == [name : StoredNames, shown : Seq(Display)]

ShowTypes ==
  /\ asked \in 0..Len(Handlers) /\ shown \in Seq(ToSet(Handlers))
  /\ report \in Seq(Entry)

\* Every mapped file begins with no handler asked.
AskedAnew == pc # "mapped" => asked = 0 /\ shown = <<>>

\* The handlers asked so far did not have the last word.
NoneDone ==
  pc = "mapped" =>
    \A j \in 1..asked :
      Handlers[j] \in modes => ~IsDone(Handlers[j], Looks[FileName][Handlers[j]])

\* gbGotWild tells of a name before this one.
WildBefore == gbGotWild => \E j \in 1..i : gpFilNames[j] \in Absent \cap Wild

ShowInv == /\ ShowTypes /\ AskedAnew /\ NoneDone /\ WildBefore
           /\ ShownSomehow /\ HexOnlyUntaken

\* A handler takes the file at position k as a whole.
Taken4(k) == \E h \in (ToSet(Handlers) \cap modes) \ {"prof", "mk4"} :
               Looks[gpFilNames[k]][h] = "whole"

\* There is a reason why nothing is shown of the file at position k.
Reason(p) == \/ {"geoff", "vosonly"} \cap modes # {}
             \/ "vos" \in modes /\ \E j \in 1..(p - 1) : gpFilNames[j] \in Absent \cap Wild

\* A name before it that could not be opened is such a reason.
LEMMA WildReason ==
  ASSUME NEW p, "vos" \in modes, \E j \in 1..(p - 1) : gpFilNames[j] \in Absent \cap Wild
  PROVE  Reason(p)
BY DEF Reason

\* The table of handlers, and what each of them answers.
LEMMA HandlersTable ==
  /\ Len(Handlers) \in Nat /\ DOMAIN Handlers = 1..Len(Handlers)
  /\ \A k \in DOMAIN Handlers : Handlers[k] \in ToSet(Handlers)
  /\ \A h \in ToSet(Handlers) : \E k \in DOMAIN Handlers : Handlers[k] = h
  /\ ToSet(Handlers) \cap {"ascii", "text", "hex"} = {}
<1>1. Len(Handlers) = 14 /\ DOMAIN Handlers = 1..14
  BY DEF Handlers
<1>2. ToSet(Handlers) = {Handlers[k] : k \in 1..14}
  BY <1>1 DEF ToSet
<1>3. \A k \in 1..14 : Handlers[k] \notin {"ascii", "text", "hex"}
  BY DEF Handlers
<1> QED
  BY <1>1, <1>2, <1>3

\* A handler that has the last word without showing anything is one of a telephone
\* list or a VOS table; one that shows the whole file has the last word.
LEMMA LastWord ==
  ASSUME NEW h \in ToSet(Handlers), NEW look \in {"whole", "part", "none"}
  PROVE  /\ (IsDone(h, look) /\ (look = "none" \/ h = "mk4")) =>
              \/ h = "geoff"
              \/ h = "vos" /\ (gbGotWild \/ "vosonly" \in modes)
         /\ (look = "whole" /\ h \notin {"prof", "mk4"}) => IsDone(h, look)
BY DEF IsDone

\* What one more report must say for the files shown to be as they should.
LEMMA OneMoreReport ==
  ASSUME IInv, ShowTypes, ShownSomehow, HexOnlyUntaken, i < giInCount,
         NEW all \in Seq(Display), DoneWith(all), UNCHANGED <<modes, gpFilNames>>,
         Mapped(i + 1) /\ all = <<>> => Reason(i + 1),
         Mapped(i + 1) /\ ToSet(all) \cap {"text", "hex"} # {} => ~Taken4(i + 1)
  PROVE  ShowTypes' /\ ShownSomehow' /\ HexOnlyUntaken'
<1> DEFINE e == [name |-> FileName, shown |-> all]
<1>1. /\ i \in Nat /\ gpFilNames \in Seq(StoredNames) /\ giInCount \in Nat
      /\ report \in Seq(Entry) /\ Len(report) = i
      /\ report' = Append(report, e) /\ asked' = 0 /\ shown' = <<>>
  BY CountIsNat DEF IInv, CommandTypeOK, Reported, ShowTypes, DoneWith
<1>2. FileName \in StoredNames
  <2>1. i + 1 \in 1..Len(gpFilNames)
    BY <1>1 DEF giInCount
  <2> QED
    BY <1>1, <2>1, ElementOfSeq DEF FileName
<1>3. e \in Entry
  BY <1>2 DEF Entry
<1> HIDE DEF e
<1>4. /\ report' \in Seq(Entry) /\ DOMAIN report = 1..i /\ DOMAIN report' = 1..(i + 1)
      /\ \A k \in 1..i : report'[k] = report[k]
      /\ report'[i + 1] = e
  <2>1. /\ Append(report, e) \in Seq(Entry) /\ Len(Append(report, e)) = Len(report) + 1
        /\ \A k \in 1..Len(report) : Append(report, e)[k] = report[k]
        /\ Append(report, e)[Len(report) + 1] = e
    BY <1>1, <1>3, AppendProperties
  <2> QED
    BY <1>1, <2>1, LenProperties
<1>5. ShowTypes'
  <2>1. asked' \in 0..Len(Handlers) /\ shown' \in Seq(ToSet(Handlers))
    BY <1>1, HandlersTable, EmptySeq
  <2> QED
    BY <1>4, <2>1 DEF ShowTypes
<1>6. /\ \A k : Mapped(k)' = Mapped(k) /\ Taken4(k)' = Taken4(k)
      /\ \A k : Reason(k)' = Reason(k)
  BY DEF Mapped, Taken4, Reason
<1>7. \A k \in 1..(i + 1) : k \in 1..i \/ k = i + 1
  BY <1>1
<1>8. ShownSomehow'
  <2>1. ASSUME NEW k \in 1..(i + 1), Mapped(k), report'[k].shown = <<>>
        PROVE  Reason(k)
    <3>1. CASE k \in 1..i
      BY <1>4, <2>1, <3>1 DEF ShownSomehow, Reason
    <3>2. CASE k = i + 1
      BY <1>4, <2>1, <3>2 DEF e
    <3> QED
      BY <1>7, <3>1, <3>2
  <2> QED
    BY <1>4, <1>6, <2>1 DEF ShownSomehow, Reason
<1>9. HexOnlyUntaken'
  <2>1. ASSUME NEW k \in 1..(i + 1), Mapped(k),
               ToSet(report'[k].shown) \cap {"text", "hex"} # {}
        PROVE  ~Taken4(k)
    <3>1. CASE k \in 1..i
      BY <1>4, <2>1, <3>1 DEF HexOnlyUntaken, Taken4
    <3>2. CASE k = i + 1
      BY <1>4, <2>1, <3>2 DEF e
    <3> QED
      BY <1>7, <3>1, <3>2
  <2> QED
    BY <1>4, <1>6, <2>1 DEF HexOnlyUntaken, Taken4
<1> QED
  BY <1>5, <1>8, <1>9

\* A file that is done with leaves no handler asked for the next one.
LEMMA DoneShown ==
  ASSUME IInv, ShowInv, i < giInCount, gbGotWild' = gbGotWild,
         NEW all \in Seq(Display), DoneWith(all), UNCHANGED <<modes, gpFilNames>>,
         Mapped(i + 1) /\ all = <<>> => Reason(i + 1),
         Mapped(i + 1) /\ ToSet(all) \cap {"text", "hex"} # {} => ~Taken4(i + 1)
  PROVE  ShowInv'
<1>1. ShowTypes' /\ ShownSomehow' /\ HexOnlyUntaken'
  BY OneMoreReport DEF ShowInv
<1>2. i \in Nat /\ i' = i + 1 /\ pc' = "next" /\ asked' = 0 /\ shown' = <<>>
  BY DEF DoneWith, Following, IInv
<1>3. AskedAnew' /\ NoneDone'
  BY <1>2 DEF AskedAnew, NoneDone
<1>4. WildBefore'
  <2>1. 1..i \subseteq 1..(i + 1)
    BY <1>2
  <2> QED
    BY <1>2, <2>1 DEF ShowInv, WildBefore
<1> QED
  BY <1>1, <1>3, <1>4 DEF ShowInv

\* The handler that is asked next is one that is on and comes after those asked, with
\* none that is on between them.
LEMMA NextHandler ==
  ASSUME ShowTypes, Waiting # {}
  PROVE  LET k == Min(Waiting)
         IN  /\ k \in DOMAIN Handlers /\ k > asked /\ Handlers[k] \in modes
             /\ Handlers[k] \in ToSet(Handlers)
             /\ \A j \in (asked + 1)..(k - 1) : Handlers[j] \notin modes
<1>1. Waiting \in SUBSET Nat /\ asked \in Nat
  BY HandlersTable DEF Waiting, ShowTypes
<1>2. \E k \in Waiting : \A m \in Waiting : k <= m
  BY <1>1, LeastNumber
<1>3. PICK k : k = Min(Waiting) /\ k \in Waiting /\ \A m \in Waiting : k <= m
  BY <1>2 DEF Min
<1>4. k \in DOMAIN Handlers /\ k > asked /\ Handlers[k] \in modes
  BY <1>3 DEF Waiting
<1>5. ASSUME NEW j \in (asked + 1)..(k - 1) PROVE Handlers[j] \notin modes
  <2>1. j \in DOMAIN Handlers /\ j > asked /\ ~(k <= j)
    BY <1>1, <1>4, <1>5, HandlersTable
  <2> QED
    BY <1>3, <2>1 DEF Waiting
<1> QED
  BY <1>3, <1>4, <1>5, HandlersTable

\* What is shown after one more handler.
LEMMA ShownByType ==
  ASSUME ShowTypes, NEW h \in ToSet(Handlers), NEW look
  PROVE  /\ ShownBy(h, look) \in Seq(ToSet(Handlers))
         /\ ShownBy(h, look) = <<>> => look = "none" \/ h = "mk4"
BY AppendProperties DEF ShownBy, ShowTypes

\* A sequence of handlers is one of displays, and none of the two that show any file.
LEMMA HandlersShown ==
  ASSUME NEW all \in Seq(ToSet(Handlers))
  PROVE  all \in Seq(Display) /\ ToSet(all) \cap {"text", "hex"} = {}
<1>1. all \in Seq(Display)
  BY SeqMonotonic DEF Display
<1>2. \A x \in ToSet(all) : x \in ToSet(Handlers)
  BY ElementOfSeq, LenProperties DEF ToSet
<1> QED
  BY <1>1, <1>2, HandlersTable

\* One handler after the other is asked until one has the last word.
LEMMA AskKeeps ==
  ASSUME IInv, ShowInv, AskHandler
  PROVE  ShowInv'
<1> DEFINE k == Min(Waiting)
           h == Handlers[k]
           look == Looks[FileName][h]
<1>1. /\ k \in DOMAIN Handlers /\ k > asked /\ h \in modes /\ h \in ToSet(Handlers)
      /\ \A j \in (asked + 1)..(k - 1) : Handlers[j] \notin modes
  BY NextHandler DEF AskHandler, ShowInv
<1>2. FileName = gpFilNames[i + 1] /\ FileName \in StoredNames /\ i < giInCount
  <2>1. /\ i < giInCount /\ i \in Nat /\ giInCount \in Nat
        /\ gpFilNames \in Seq(StoredNames)
    BY CountIsNat DEF AskHandler, IInv, InLoop, CommandTypeOK
  <2>2. i + 1 \in 1..Len(gpFilNames)
    BY <2>1 DEF giInCount
  <2> QED
    BY <2>1, <2>2, ElementOfSeq DEF FileName
<1>3. look \in {"whole", "part", "none"}
  BY <1>1, <1>2, FilesAssumption
<1>4. /\ ShownBy(h, look) \in Seq(ToSet(Handlers))
      /\ ShownBy(h, look) = <<>> => look = "none" \/ h = "mk4"
  BY <1>1, ShownByType DEF ShowInv
<1>5. /\ UNCHANGED <<modes, gpFilNames>> /\ gbGotWild' = gbGotWild /\ status' = status
      /\ IF IsDone(h, look) THEN Unmap(ShownBy(h, look))
         ELSE /\ asked' = k /\ shown' = ShownBy(h, look)
              /\ UNCHANGED <<fds, i, pc, heap, report>>
  BY DEF AskHandler
<1>6. CASE IsDone(h, look)
  <2>1. ASSUME ShownBy(h, look) = <<>>
        PROVE  Reason(i + 1)
    <3>1. h = "geoff" \/ (h = "vos" /\ (gbGotWild \/ "vosonly" \in modes))
      BY <1>1, <1>3, <1>4, <1>6, <2>1, LastWord
    <3>2. gbGotWild => \E j \in 1..((i + 1) - 1) : gpFilNames[j] \in Absent \cap Wild
      <4>1. (i + 1) - 1 = i
        BY DEF IInv
      <4> QED
        BY <4>1 DEF ShowInv, WildBefore
    <3> HIDE DEF k, h, look
    <3>3. ASSUME h = "geoff"
          PROVE  Reason(i + 1)
      BY <1>1, <3>3 DEF Reason
    <3>4. ASSUME h = "vos", gbGotWild
          PROVE  Reason(i + 1)
      <4>1. "vos" \in modes
        BY <1>1, <3>4
      <4>2. \E j \in 1..((i + 1) - 1) : gpFilNames[j] \in Absent \cap Wild
        BY <3>2, <3>4, Zenon
      <4> QED
        BY <4>1, <4>2, WildReason
    <3>5. ASSUME "vosonly" \in modes
          PROVE  Reason(i + 1)
      BY <3>5 DEF Reason
    <3> QED
      BY <3>1, <3>3, <3>4, <3>5
  <2>2. /\ ShownBy(h, look) \in Seq(Display)
        /\ ToSet(ShownBy(h, look)) \cap {"text", "hex"} = {}
    BY <1>4, HandlersShown
  <2> QED
    BY <1>2, <1>5, <1>6, <2>1, <2>2, DoneShown DEF Unmap
<1>7. CASE ~IsDone(h, look)
  <2>1. /\ asked' = k /\ shown' = ShownBy(h, look) /\ pc = "mapped"
        /\ UNCHANGED <<i, pc, report>>
    BY <1>5, <1>7 DEF AskHandler
  <2>2. ShowTypes'
    BY <1>1, <1>4, <2>1, HandlersTable DEF ShowInv, ShowTypes
  <2>3. NoneDone'
    <3>1. ASSUME NEW j \in 1..k, Handlers[j] \in modes
          PROVE  ~IsDone(Handlers[j], Looks[FileName][Handlers[j]])
      <4>1. asked \in Nat /\ k \in Nat
        BY <1>1, HandlersTable DEF ShowInv, ShowTypes
      <4>2. j \in 1..asked \/ j \in (asked + 1)..(k - 1) \/ j = k
        BY <1>1, <3>1, <4>1
      <4>3. CASE j \in 1..asked
        BY <2>1, <3>1, <4>3 DEF ShowInv, NoneDone
      <4>4. CASE j = k
        BY <1>7, <4>4
      <4> QED
        BY <1>1, <3>1, <4>2, <4>3, <4>4
    <3>2. \A g, l : IsDone(g, l)' = IsDone(g, l)
      BY <1>5 DEF IsDone
    <3>3. FileName' = FileName
      BY <1>5, <2>1 DEF FileName
    <3> QED
      BY <1>5, <2>1, <3>1, <3>2, <3>3 DEF NoneDone
  <2>4. AskedAnew' /\ WildBefore' /\ ShownSomehow' /\ HexOnlyUntaken'
    BY <1>5, <2>1
    DEF ShowInv, AskedAnew, WildBefore, ShownSomehow, HexOnlyUntaken, Mapped
  <2> QED
    BY <2>2, <2>3, <2>4 DEF ShowInv
<1> QED
  BY <1>6, <1>7

\* A file is shown as hex or text only when every handler that is on was asked, and
\* none took it.
LEMMA RestKeeps ==
  ASSUME IInv, ShowInv, ShowRest
  PROVE  ShowInv'
<1>1. /\ i < giInCount /\ i \in Nat /\ giInCount \in Nat /\ pc = "mapped"
      /\ gpFilNames \in Seq(StoredNames) /\ Waiting = {}
      /\ Unmap(Append(shown, Fallback))
      /\ UNCHANGED <<modes, gpFilNames>> /\ gbGotWild' = gbGotWild
  BY CountIsNat DEF ShowRest, IInv, InLoop, CommandTypeOK
<1>2. FileName = gpFilNames[i + 1] /\ FileName \in StoredNames
  <2>1. i + 1 \in 1..Len(gpFilNames)
    BY <1>1 DEF giInCount
  <2> QED
    BY <1>1, <2>1, ElementOfSeq DEF FileName
<1>3. Append(shown, Fallback) \in Seq(Display) /\ Append(shown, Fallback) # <<>>
  <2>1. shown \in Seq(Display)
    BY HandlersShown DEF ShowInv, ShowTypes
  <2>2. Fallback \in Display
    BY DEF Fallback, Display
  <2> QED
    BY <2>1, <2>2, AppendProperties
<1>4. ~Taken4(i + 1)
  <2>1. ASSUME NEW h \in (ToSet(Handlers) \cap modes) \ {"prof", "mk4"}
        PROVE  Looks[FileName][h] # "whole"
    <3>1. PICK j \in DOMAIN Handlers : Handlers[j] = h
      BY <2>1, HandlersTable
    <3>2. ~(j > asked)
      BY <1>1, <2>1, <3>1 DEF Waiting
    <3>3. j \in 1..asked
      BY <3>1, <3>2, HandlersTable DEF ShowInv, ShowTypes
    <3>4. ~IsDone(h, Looks[FileName][h])
      BY <1>1, <2>1, <3>1, <3>3 DEF ShowInv, NoneDone
    <3>5. Looks[FileName][h] \in {"whole", "part", "none"}
      BY <1>2, <2>1, FilesAssumption
    <3> QED
      BY <2>1, <3>4, <3>5, LastWord
  <2> QED
    BY <1>2, <2>1 DEF Taken4
<1> QED
  BY <1>1, <1>3, <1>4, DoneShown DEF Unmap

\* Strings are shown of any file.
LEMMA StringsKeep ==
  ASSUME IInv, ShowInv, ShowStrings
  PROVE  ShowInv'
<1>1. /\ i < giInCount /\ Unmap(<<"ascii">>)
      /\ UNCHANGED <<modes, gpFilNames>> /\ gbGotWild' = gbGotWild
  BY DEF ShowStrings, IInv, InLoop
<1>2. <<"ascii">> \in Seq(Display) /\ <<"ascii">> # <<>>
  BY DEF Display
<1>3. ToSet(<<"ascii">>) \cap {"text", "hex"} = {}
  BY DEF ToSet
<1> QED
  BY <1>1, <1>2, <1>3, DoneShown DEF Unmap

\* A name that cannot be opened or mapped has nothing to show, and gbGotWild tells
\* of it.
LEMMA FailureKeeps ==
  ASSUME IInv, ShowInv, OpenFails \/ MapFails
  PROVE  ShowInv'
<1>1. /\ i < giInCount /\ i \in Nat /\ DoneWith(<<>>) /\ UNCHANGED <<modes, gpFilNames>>
  BY DEF OpenFails, MapFails, Running, IInv, InLoop, commandVars
<1>2. ~Mapped(i + 1)
  <2>1. CASE OpenFails
    <3>1. fds = 0 /\ MaxOpen \in Nat \ {0}
      BY <2>1, LimitsAssumption DEF OpenFails, Running, IInv, NothingHeld
    <3> QED
      BY <2>1, <3>1 DEF OpenFails, FileName, Mapped
  <2>2. CASE MapFails
    BY <2>2 DEF MapFails, FileName, Mapped
  <2> QED
    BY <2>1, <2>2
<1>3. <<>> \in Seq(Display)
  BY EmptySeq
<1>4. ShowTypes' /\ ShownSomehow' /\ HexOnlyUntaken'
  BY <1>1, <1>2, <1>3, OneMoreReport DEF ShowInv
<1>5. i' = i + 1 /\ pc' = "next" /\ asked' = 0 /\ shown' = <<>>
  BY <1>1 DEF DoneWith, Following
<1>6. AskedAnew' /\ NoneDone'
  BY <1>5 DEF AskedAnew, NoneDone
<1>7. WildBefore'
  <2>1. 1..i \subseteq 1..(i + 1) /\ i + 1 \in 1..(i + 1)
    BY <1>1
  <2>2. CASE OpenFails
    <3>1. FileName \in Absent
      BY <2>2, <1>2, LimitsAssumption DEF OpenFails, Running, IInv, NothingHeld
    <3> QED
      BY <1>1, <1>5, <2>1, <2>2, <3>1 DEF OpenFails, GotWild, FileName, WildBefore
  <2>3. CASE MapFails
    BY <1>1, <1>5, <2>1, <2>3 DEF MapFails, ShowInv, WildBefore
  <2> QED
    BY <2>2, <2>3
<1> QED
  BY <1>4, <1>6, <1>7 DEF ShowInv

\* main starts with nothing shown.
LEMMA InitShown == Init => ShowInv
<1> SUFFICES ASSUME Init PROVE ShowInv
  OBVIOUS
<1>1. asked = 0 /\ shown = <<>> /\ report = <<>> /\ gbGotWild = FALSE /\ pc = "next"
  BY DEF Init
<1>2. ShowTypes
  BY <1>1, EmptySeq, HandlersTable DEF ShowTypes
<1>3. DOMAIN report = {}
  BY <1>1
<1> QED
  BY <1>1, <1>2, <1>3
  DEF ShowInv, AskedAnew, NoneDone, WildBefore, ShownSomehow, HexOnlyUntaken

\* Every step of the program shows files as it should.
LEMMA StepShows == IInv /\ ShowInv /\ [Next]_vars => ShowInv'
<1> SUFFICES ASSUME IInv, ShowInv, [Next]_vars PROVE ShowInv'
  OBVIOUS
<1>1. CASE Parse
  <2>1. /\ i = 0 /\ pc = "next" /\ report = <<>>
        /\ UNCHANGED <<i, pc, asked, shown, gbGotWild, report>>
    BY <1>1, OnlyWhileParsing DEF Parse, IInv, NotStarted
  <2>2. ~gbGotWild /\ DOMAIN report' = {}
    BY <2>1 DEF ShowInv, WildBefore
  <2> QED
    BY <2>1, <2>2 DEF ShowInv, ShowTypes, AskedAnew, NoneDone, WildBefore,
                      ShownSomehow, HexOnlyUntaken
<1>2. CASE UNCHANGED <<modes, gpFilNames, i, asked, shown, gbGotWild, report>>
           /\ (pc' = "mapped" => asked = 0 \/ pc = "mapped")
           /\ (pc' # "mapped" => pc # "mapped")
  <2>1. \A g, l : IsDone(g, l)' = IsDone(g, l)
    BY <1>2 DEF IsDone
  <2>2. NoneDone'
    BY <1>2, <2>1 DEF ShowInv, NoneDone, FileName
  <2>3. ShowTypes' /\ AskedAnew' /\ WildBefore'
    BY <1>2 DEF ShowInv, ShowTypes, AskedAnew, WildBefore
  <2>4. ShownSomehow' /\ HexOnlyUntaken'
    BY <1>2 DEF ShowInv, ShownSomehow, HexOnlyUntaken, Mapped
  <2> QED
    BY <2>2, <2>3, <2>4 DEF ShowInv
<1>3. CASE OpenFails \/ MapFails
  BY <1>3, FailureKeeps
<1>4. CASE ShowStrings
  BY <1>4, StringsKeep
<1>5. CASE AskHandler
  BY <1>5, AskKeeps
<1>6. CASE ShowRest
  BY <1>6, RestKeeps
<1>7. CASE NoNames \/ OpenFile \/ Map \/ Finish \/ UNCHANGED vars
  BY <1>2, <1>7 DEF NoNames, OpenFile, Running, Map, Finish, vars, commandVars,
                    fileVars, ShowInv, AskedAnew
<1> QED
  BY <1>1, <1>3, <1>4, <1>5, <1>6, <1>7 DEF Next

\* The displays are right in every state.
LEMMA Shows == Spec => []ShowInv
<1> QED
  BY InitShown, StepShows, Inductive, PTL DEF Spec

\* The program keeps its types, for every command, files and handlers.
THEOREM TypeCorrect == Spec => []TypeOK
<1>1. ASSUME IInv, ShowInv PROVE TypeOK
  <2>1. heap \subseteq 1..giInCount /\ i \in 0..giInCount
    BY <1>1, CountIsNat DEF IInv
  <2> QED
    BY <1>1, <2>1 DEF IInv, ShowInv, ShowTypes, TypeOK, Entry, Display
<1> QED
  BY <1>1, Inductive, Shows, PTL

\* A file that was mapped is shown in some way, whatever the handlers make of it,
\* but for those that a telephone list, a VOS table or an earlier name account for.
THEOREM AlwaysShown == Spec => []ShownSomehow
<1>1. ShowInv => ShownSomehow
  BY DEF ShowInv
<1> QED
  BY <1>1, Shows, PTL

\* A file is shown as hex or text only if no handler that was asked for took it as a
\* whole, whatever the handlers make of it.
THEOREM HexIsLast == Spec => []HexOnlyUntaken
<1>1. ShowInv => HexOnlyUntaken
  BY DEF ShowInv
<1> QED
  BY <1>1, Shows, PTL

-------------------------------------------------------------------------------
(* What a command means *)

Outcome == [names : Seq(StoredNames), end : {"parsed", "exit0", "exit1"}]

\* The point of the recursion that args, named and more make.
Point(args, named, more) == [args |-> args, named |-> named, more |-> more]

\* The equation of Meaning, of any function f in its place.
MeaningBody(f, r) ==
  LET a == Head(r.args)
      Over(code) == [names |-> r.named, end |-> code]
      Then(names) == f[Point(Tail(r.args), names, r.more)]
      with == Append(r.named, Stored(a.kind, a.of))
      inner == f[Point(ArgsOf[a.of], r.named, r.more - 1)]
  IN  CASE r.args = <<>> -> Over("parsed")
        [] r.args # <<>> /\ a.kind = "help" -> Over("exit0")
        [] r.args # <<>> /\ a.kind = "wrong" -> Over("exit1")
        [] r.args # <<>> /\ a.kind \in {"mode", "empty"} -> Then(r.named)
        [] r.args # <<>> /\ a.kind \in {"name", "iname"} ->
             IF Len(with) >= MXFILNAMES THEN [names |-> with, end |-> "exit1"]
                                        ELSE Then(with)
        [] r.args # <<>> /\ a.kind = "at" ->
             IF r.more = 0 \/ a.of \in Unreadable THEN Over("exit1")
             ELSE IF inner.end # "parsed" THEN inner ELSE Then(inner.names)

\* Fewer files can be opened, or as many with fewer arguments to go.
Below(y, x) ==
  y.more < x.more \/ (y.more = x.more /\ Len(y.args) < Len(x.args))

\* The parts of a point.
LEMMA PointIs ==
  ASSUME NEW args \in Seq(Arg), NEW named \in Seq(StoredNames), NEW more \in 0..MaxOpen
  PROVE  /\ Point(args, named, more) \in Reading
         /\ Point(args, named, more).args = args
         /\ Point(args, named, more).named = named
         /\ Point(args, named, more).more = more
BY DEF Point, Reading

\* The kinds of arguments there are.
LEMMA KindsOfArguments ==
  ASSUME NEW a \in Arg
  PROVE  a.kind \in {"mode", "name", "iname", "at", "empty", "wrong", "help"}
BY DEF Arg

\* What a name adds to the names.
LEMMA NameAdded ==
  ASSUME NEW a \in Arg, a.kind \in {"name", "iname"}, NEW named \in Seq(StoredNames)
  PROVE  Append(named, Stored(a.kind, a.of)) \in Seq(StoredNames)
<1>1. a.of \in Names
  BY ArgumentOfKind
<1>2. Stored(a.kind, a.of) \in StoredNames
  BY <1>1 DEF StoredNames
<1> QED
  BY <1>2, AppendProperties

\* The points at which Meaning is used are below the one it is used for.
LEMMA PointsBelow ==
  ASSUME NEW x \in Reading, x.args # <<>>
  PROVE  /\ Head(x.args) \in Arg
         /\ \A names \in Seq(StoredNames) :
              /\ Point(Tail(x.args), names, x.more) \in Reading
              /\ Below(Point(Tail(x.args), names, x.more), x)
         /\ (Head(x.args).kind = "at" /\ x.more # 0) =>
              /\ Point(ArgsOf[Head(x.args).of], x.named, x.more - 1) \in Reading
              /\ Below(Point(ArgsOf[Head(x.args).of], x.named, x.more - 1), x)
<1>1. x.args \in Seq(Arg) /\ x.named \in Seq(StoredNames) /\ x.more \in 0..MaxOpen
  BY DEF Reading
<1>2. /\ Head(x.args) \in Arg /\ Tail(x.args) \in Seq(Arg)
      /\ Len(Tail(x.args)) = Len(x.args) - 1 /\ Len(x.args) \in Nat
  BY <1>1, HeadTailProperties, LenProperties
<1>3. ASSUME NEW names \in Seq(StoredNames)
      PROVE  /\ Point(Tail(x.args), names, x.more) \in Reading
             /\ Below(Point(Tail(x.args), names, x.more), x)
  <2>1. PICK rest \in Seq(Arg) : rest = Tail(x.args)
    BY <1>2
  <2>2. /\ Point(rest, names, x.more) \in Reading
        /\ Point(rest, names, x.more).args = rest
        /\ Point(rest, names, x.more).more = x.more
    BY <1>1, <1>3, PointIs
  <2>3. Len(rest) < Len(x.args)
    BY <1>2, <2>1
  <2>4. Below(Point(rest, names, x.more), x)
    BY <2>2, <2>3 DEF Below
  <2> QED
    BY <2>1, <2>2, <2>4, Zenon
<1>4. ASSUME Head(x.args).kind = "at", x.more # 0
      PROVE  /\ Point(ArgsOf[Head(x.args).of], x.named, x.more - 1) \in Reading
             /\ Below(Point(ArgsOf[Head(x.args).of], x.named, x.more - 1), x)
  <2>1. ArgsOf[Head(x.args).of] \in Seq(Arg)
    BY <1>2, <1>4, ArgumentOfKind, ArgsAssumption
  <2>2. x.more - 1 \in 0..MaxOpen /\ x.more - 1 < x.more
    BY <1>1, <1>4, LimitsAssumption
  <2>3. /\ Point(ArgsOf[Head(x.args).of], x.named, x.more - 1) \in Reading
        /\ Point(ArgsOf[Head(x.args).of], x.named, x.more - 1).more = x.more - 1
    BY <1>1, <2>1, <2>2, PointIs
  <2> QED
    BY <2>2, <2>3 DEF Below
<1> QED
  BY <1>2, <1>3, <1>4

\* The equation asks for an outcome only of points below.
LEMMA BodyLooksBelow ==
  ASSUME NEW f, NEW g \in [Reading -> Outcome], NEW x \in Reading,
         \A y \in Reading : Below(y, x) => f[y] = g[y]
  PROVE  MeaningBody(f, x) = MeaningBody(g, x)
<1>1. CASE x.args = <<>>
  BY <1>1 DEF MeaningBody
<1>2. CASE x.args # <<>>
  <2> DEFINE a == Head(x.args)
             with == Append(x.named, Stored(a.kind, a.of))
             file == Point(ArgsOf[a.of], x.named, x.more - 1)
  <2>1. /\ a \in Arg /\ x.named \in Seq(StoredNames)
        /\ a.kind \in {"mode", "name", "iname", "at", "empty", "wrong", "help"}
    BY <1>2, PointsBelow, KindsOfArguments DEF Reading
  <2>2. \A names \in Seq(StoredNames) :
          f[Point(Tail(x.args), names, x.more)] = g[Point(Tail(x.args), names, x.more)]
    BY <1>2, PointsBelow
  <2>3. (a.kind = "at" /\ x.more # 0) =>
           file \in Reading /\ f[file] = g[file] /\ g[file].names \in Seq(StoredNames)
    BY <1>2, PointsBelow DEF Outcome
  <2>4. a.kind \in {"name", "iname"} => with \in Seq(StoredNames)
    BY <2>1, NameAdded
  <2>5. CASE a.kind \in {"help", "wrong"}
    BY <1>2, <2>5 DEF MeaningBody
  <2>6. CASE a.kind \in {"mode", "empty"}
    BY <1>2, <2>1, <2>2, <2>6 DEF MeaningBody
  <2>7. CASE a.kind \in {"name", "iname"}
    BY <1>2, <2>2, <2>4, <2>7 DEF MeaningBody
  <2>8. CASE a.kind = "at"
    BY <1>2, <2>2, <2>3, <2>8 DEF MeaningBody
  <2> QED
    BY <2>1, <2>5, <2>6, <2>7, <2>8
<1> QED
  BY <1>1, <1>2

\* The equation gives an outcome where f does.
LEMMA BodyType ==
  ASSUME NEW f \in [Reading -> Outcome], NEW x \in Reading
  PROVE  MeaningBody(f, x) \in Outcome
<1>0. x.named \in Seq(StoredNames)
  BY DEF Reading
<1>1. CASE x.args = <<>>
  BY <1>0, <1>1 DEF MeaningBody, Outcome
<1>2. CASE x.args # <<>>
  <2> DEFINE a == Head(x.args)
             with == Append(x.named, Stored(a.kind, a.of))
             file == Point(ArgsOf[a.of], x.named, x.more - 1)
  <2>1. /\ a \in Arg
        /\ a.kind \in {"mode", "name", "iname", "at", "empty", "wrong", "help"}
    BY <1>2, PointsBelow, KindsOfArguments
  <2>2. \A names \in Seq(StoredNames) : f[Point(Tail(x.args), names, x.more)] \in Outcome
    BY <1>2, PointsBelow
  <2>3. (a.kind = "at" /\ x.more # 0) =>
           f[file] \in Outcome /\ f[file].names \in Seq(StoredNames)
    BY <1>2, PointsBelow DEF Outcome
  <2>4. a.kind \in {"name", "iname"} => with \in Seq(StoredNames)
    BY <1>0, <2>1, NameAdded
  <2>5. CASE a.kind \in {"help", "wrong"}
    BY <1>0, <1>2, <2>5 DEF MeaningBody, Outcome
  <2>6. CASE a.kind \in {"mode", "empty"}
    BY <1>0, <1>2, <2>2, <2>6 DEF MeaningBody
  <2>7. CASE a.kind \in {"name", "iname"}
    <3>1. [names |-> with, end |-> "exit1"] \in Outcome
      BY <2>4, <2>7 DEF Outcome
    <3> QED
      BY <1>2, <2>2, <2>4, <2>7, <3>1 DEF MeaningBody
  <2>8. CASE a.kind = "at"
    <3>1. [names |-> x.named, end |-> "exit1"] \in Outcome
      BY <1>0 DEF Outcome
    <3> QED
      BY <1>2, <2>2, <2>3, <2>8, <3>1 DEF MeaningBody
  <2> QED
    BY <2>1, <2>5, <2>6, <2>7, <2>8
<1> QED
  BY <1>1, <1>2

\* Every set of points that is not empty has one with none of the others below it.
LEMMA LowestPoint ==
  ASSUME NEW T \in SUBSET Reading, T # {}
  PROVE  \E x \in T : \A y \in T : ~Below(y, x)
<1> DEFINE M == {r.more : r \in T}
<1>1. M \in SUBSET Nat /\ M # {}
  BY DEF Reading
<1> HIDE DEF M
<1>2. PICK m \in M : \A n \in M : m <= n
  BY <1>1, LeastNumber
<1> DEFINE S == {r \in T : r.more = m}
           L == {Len(r.args) : r \in S}
<1>3. S # {}
  BY <1>2 DEF M
<1>4. L \in SUBSET Nat /\ L # {}
  <2>1. \A r \in S : Len(r.args) \in Nat
    BY LenProperties DEF Reading
  <2> QED
    BY <1>3, <2>1
<1> HIDE DEF L
<1>5. PICK l \in L : \A n \in L : l <= n
  BY <1>4, LeastNumber
<1>6. PICK x \in S : Len(x.args) = l
  BY <1>5 DEF L
<1>7. ASSUME NEW y \in T PROVE ~Below(y, x)
  <2>1. m <= y.more /\ y.more \in Nat /\ x.more = m /\ m \in Nat
    BY <1>1, <1>2, <1>6 DEF M
  <2>2. y.more = m => l <= Len(y.args) /\ Len(y.args) \in Nat /\ l \in Nat
    BY <1>4, <1>5 DEF L
  <2> QED
    BY <1>6, <2>1, <2>2 DEF Below
<1> QED
  BY <1>6, <1>7

\* f satisfies the equation at x and at every point below.
Solves(f, x) ==
  /\ f \in [Reading -> Outcome]
  /\ \A y \in Reading : y = x \/ Below(y, x) => f[y] = MeaningBody(f, y)

\* What is below a point below is below.
LEMMA BelowTransitive ==
  ASSUME NEW x \in Reading, NEW y \in Reading, NEW z \in Reading, Below(z, y), Below(y, x)
  PROVE  Below(z, x)
<1>1. /\ x.more \in Nat /\ y.more \in Nat /\ z.more \in Nat
  BY DEF Reading
<1>2. /\ Len(x.args) \in Nat /\ Len(y.args) \in Nat /\ Len(z.args) \in Nat
  BY LenProperties DEF Reading
<1> QED
  BY <1>1, <1>2 DEF Below

\* Two functions that satisfy it as far as x agree there.
LEMMA SolutionsAgree ==
  ASSUME NEW x \in Reading, NEW f, NEW g, Solves(f, x), Solves(g, x)
  PROVE  f[x] = g[x]
<1> DEFINE T == {y \in Reading : (y = x \/ Below(y, x)) /\ f[y] # g[y]}
<1>1. ASSUME T # {} PROVE FALSE
  <2>1. PICK y \in T : \A z \in T : ~Below(z, y)
    <3>1. T \in SUBSET Reading
      OBVIOUS
    <3> HIDE DEF T
    <3> QED
      BY <1>1, <3>1, LowestPoint
  <2>2. y \in Reading /\ (y = x \/ Below(y, x)) /\ f[y] # g[y]
    OBVIOUS
  <2>3. ASSUME NEW z \in Reading, Below(z, y) PROVE f[z] = g[z]
    <3>1. Below(z, x)
      BY <2>2, <2>3, BelowTransitive
    <3> QED
      BY <2>1, <2>3, <3>1
  <2>4. MeaningBody(f, y) = MeaningBody(g, y)
    BY <2>2, <2>3, BodyLooksBelow DEF Solves
  <2> QED
    BY <2>2, <2>4 DEF Solves
<1> QED
  BY <1>1

\* Some function satisfies the equation at every point.
LEMMA MeaningExists ==
  \E f \in [Reading -> Outcome] : f = [r \in Reading |-> MeaningBody(f, r)]
<1> DEFINE T == {x \in Reading : ~\E f : Solves(f, x)}
           H == [y \in Reading |->
                   IF y \in T THEN [names |-> <<>>, end |-> "parsed"]
                              ELSE (CHOOSE f : Solves(f, y))[y]]
<1>1. ASSUME NEW y \in Reading, y \notin T
      PROVE  Solves(CHOOSE f : Solves(f, y), y)
  BY <1>1
<1>2. H \in [Reading -> Outcome]
  <2>1. [names |-> <<>>, end |-> "parsed"] \in Outcome
    BY EmptySeq DEF Outcome
  <2>2. ASSUME NEW y \in Reading, y \notin T
        PROVE  (CHOOSE f : Solves(f, y))[y] \in Outcome
    <3>1. (CHOOSE f : Solves(f, y)) \in [Reading -> Outcome]
      BY <1>1, <2>2 DEF Solves
    <3> QED
      BY <3>1
  <2> QED
    BY <2>1, <2>2
<1>3. ASSUME NEW x \in Reading, \A z \in T : ~Below(z, x)
      PROVE  \A y \in Reading : Below(y, x) => H[y] = MeaningBody(H, y)
  <2>1. ASSUME NEW y \in Reading, Below(y, x)
        PROVE  H[y] = MeaningBody(H, y)
    <3>1. y \notin T
      BY <1>3, <2>1
    <3>2. PICK f : f = CHOOSE h : Solves(h, y)
      OBVIOUS
    <3>3. Solves(f, y) /\ H[y] = f[y] /\ f \in [Reading -> Outcome]
      BY <1>1, <3>1, <3>2 DEF Solves
    <3>4. ASSUME NEW z \in Reading, Below(z, y) PROVE f[z] = H[z]
      <4>1. Below(z, x)
        BY <2>1, <3>4, BelowTransitive
      <4>2. z \notin T
        BY <1>3, <4>1
      <4>3. PICK g : g = CHOOSE h : Solves(h, z)
        OBVIOUS
      <4>4. Solves(g, z) /\ H[z] = g[z]
        BY <1>1, <4>2, <4>3
      <4>5. Solves(f, z)
        BY <3>3, <3>4, BelowTransitive DEF Solves
      <4> QED
        BY <4>4, <4>5, SolutionsAgree
    <3> HIDE DEF H, T
    <3>5. MeaningBody(f, y) = MeaningBody(H, y)
      BY <1>2, <3>3, <3>4, BodyLooksBelow
    <3> QED
      BY <3>3, <3>5 DEF Solves
  <2> QED
    BY <2>1
<1>4. T = {}
  <2>1. ASSUME T # {} PROVE FALSE
    <3>1. PICK x \in T : \A z \in T : ~Below(z, x)
      <4>1. T \in SUBSET Reading
        OBVIOUS
      <4> HIDE DEF T, H
      <4> QED
        BY <2>1, <4>1, LowestPoint
    <3> DEFINE G == [H EXCEPT ![x] = MeaningBody(H, x)]
    <3>2. x \in Reading /\ ~\E f : Solves(f, x)
      OBVIOUS
    <3>3. \A y \in Reading : Below(y, x) => H[y] = MeaningBody(H, y)
      BY <1>3, <3>1, <3>2
    <3> HIDE DEF H, T
    <3>4. /\ G \in [Reading -> Outcome] /\ G[x] = MeaningBody(H, x)
          /\ \A y \in Reading : y # x => G[y] = H[y]
      BY <1>2, <3>2, BodyType
    <3> HIDE DEF G
    <3>5. ASSUME NEW y \in Reading, y = x \/ Below(y, x)
          PROVE  G[y] = MeaningBody(G, y)
      <4>1. ASSUME NEW z \in Reading, Below(z, y) PROVE H[z] = G[z]
        <5>1. Below(z, x)
          BY <3>2, <3>5, <4>1, BelowTransitive
        <5>2. z # x
          BY <3>2, <5>1 DEF Below, Reading
        <5> QED
          BY <3>4, <5>2
      <4>2. MeaningBody(H, y) = MeaningBody(G, y)
        BY <1>2, <3>4, <4>1, BodyLooksBelow
      <4>3. G[y] = MeaningBody(H, y)
        BY <3>3, <3>4, <3>5
      <4> QED
        BY <4>2, <4>3
    <3>6. Solves(G, x)
      BY <3>4, <3>5 DEF Solves
    <3> QED
      BY <3>2, <3>6
  <2> QED
    BY <2>1
<1>5. ASSUME NEW x \in Reading PROVE H[x] = MeaningBody(H, x)
  <2>1. \A z \in T : ~Below(z, x)
    BY <1>4
  <2>2. PICK f : f = CHOOSE h : Solves(h, x)
    OBVIOUS
  <2>3. Solves(f, x) /\ H[x] = f[x] /\ f \in [Reading -> Outcome]
    BY <1>1, <1>4, <2>2 DEF Solves
  <2>4. ASSUME NEW z \in Reading, Below(z, x) PROVE f[z] = H[z]
    <3>1. PICK g : g = CHOOSE h : Solves(h, z)
      OBVIOUS
    <3>2. Solves(g, z) /\ H[z] = g[z]
      BY <1>1, <1>4, <3>1
    <3>3. Solves(f, z)
      BY <2>3, <2>4, BelowTransitive DEF Solves
    <3> QED
      BY <3>2, <3>3, SolutionsAgree
  <2> HIDE DEF H, T
  <2>5. MeaningBody(f, x) = MeaningBody(H, x)
    BY <1>2, <2>3, <2>4, BodyLooksBelow
  <2> QED
    BY <2>3, <2>5 DEF Solves
<1> HIDE DEF H
<1>6. H = [r \in Reading |-> MeaningBody(H, r)]
  BY <1>2, <1>5
<1> QED
  BY <1>2, <1>6

\* Meaning satisfies its equation.
LEMMA MeaningIs ==
  /\ Meaning \in [Reading -> Outcome]
  /\ \A r \in Reading : Meaning[r] = MeaningBody(Meaning, r)
<1>1. Meaning = CHOOSE f : f = [r \in Reading |-> MeaningBody(f, r)]
  BY DEF Meaning, MeaningBody, Point
<1>2. Meaning = [r \in Reading |-> MeaningBody(Meaning, r)]
  BY <1>1, MeaningExists
<1> DEFINE default == [names |-> <<>>, end |-> "parsed"]
           g == [r \in Reading |-> IF Meaning[r] \in Outcome THEN Meaning[r] ELSE default]
           T == {r \in Reading : Meaning[r] \notin Outcome}
<1>3. default \in Outcome
  BY EmptySeq DEF Outcome
<1>4. g \in [Reading -> Outcome]
  BY <1>3
<1>5. ASSUME T # {} PROVE FALSE
  <2>1. PICK x \in T : \A y \in T : ~Below(y, x)
    <3>1. T \in SUBSET Reading
      OBVIOUS
    <3> HIDE DEF T
    <3> QED
      BY <1>5, <3>1, LowestPoint
  <2>2. x \in Reading /\ Meaning[x] \notin Outcome
    OBVIOUS
  <2>3. \A y \in Reading : Below(y, x) => Meaning[y] = g[y]
    BY <2>1
  <2> HIDE DEF g
  <2>4. MeaningBody(Meaning, x) = MeaningBody(g, x)
    BY <1>4, <2>2, <2>3, BodyLooksBelow
  <2>5. Meaning[x] \in Outcome
    BY <1>2, <1>4, <2>2, <2>4, BodyType
  <2> QED
    BY <2>2, <2>5
<1>6. \A r \in Reading : Meaning[r] \in Outcome
  BY <1>5
<1> QED
  BY <1>2, <1>6

\* The points that the calls on the stack have still to do, from the latest: each is
\* read with the names its caller's turn comes to, and with one more file to open.
CallPoint(s, k, named) == Point(s[k], named, MaxOpen - Len(s) + k)

\* w tells what the calls of the stack s come to, each with those it was called from.
ComesTo(w, s, named) ==
  /\ w \in [1..Len(s) -> Outcome]
  /\ w[1] = Meaning[CallPoint(s, 1, named)]
  /\ \A k \in 1..(Len(s) - 1) :
       w[k + 1] = IF w[k].end # "parsed" THEN w[k]
                  ELSE Meaning[CallPoint(s, k + 1, w[k].names)]

\* A sequence with an element more in front.
LEMMA Pushed ==
  ASSUME NEW S, NEW s \in Seq(S), NEW e \in S
  PROVE  LET t == <<e>> \o s
         IN  /\ t \in Seq(S) /\ Len(t) = Len(s) + 1 /\ t[1] = e
             /\ \A k \in 1..Len(s) : t[k + 1] = s[k]
<1> DEFINE t == <<e>> \o s
<1>1. <<e>> \in Seq(S) /\ Len(<<e>>) = 1 /\ <<e>>[1] = e /\ Len(s) \in Nat
  BY LenProperties
<1>2. /\ t \in Seq(S) /\ Len(t) = 1 + Len(s)
      /\ \A k \in 1..Len(t) : t[k] = IF k <= 1 THEN <<e>>[k] ELSE s[k - 1]
  BY <1>1, ConcatProperties
<1> HIDE DEF t
<1>3. t[1] = e
  <2>1. 1 \in 1..Len(t) /\ 1 <= 1
    BY <1>1, <1>2
  <2>2. t[1] = <<e>>[1]
    BY <1>2, <2>1
  <2> QED
    BY <1>1, <2>2
<1>4. ASSUME NEW k \in 1..Len(s) PROVE t[k + 1] = s[k]
  <2>1. k + 1 \in 1..Len(t) /\ ~(k + 1 <= 1) /\ (k + 1) - 1 = k
    BY <1>1, <1>2
  <2> QED
    BY <1>2, <2>1
<1>5. Len(t) = Len(s) + 1
  BY <1>1, <1>2
<1> QED
  BY <1>2, <1>3, <1>4, <1>5 DEF t

\* A sequence with another first element.
LEMMA Replaced ==
  ASSUME NEW S, NEW s \in Seq(S), s # <<>>, NEW e \in S
  PROVE  LET t == <<e>> \o Tail(s)
         IN  /\ t \in Seq(S) /\ Len(t) = Len(s) /\ t[1] = e
             /\ \A k \in 1..(Len(s) - 1) : t[k + 1] = s[k + 1]
<1>1. /\ Len(s) \in Nat /\ Len(s) > 0 /\ Len(Tail(s)) = Len(s) - 1 /\ Tail(s) \in Seq(S)
      /\ \A k \in 1..(Len(s) - 1) : Tail(s)[k] = s[k + 1]
  BY EmptySeq, LenProperties, HeadTailProperties
<1>2. /\ <<e>> \o Tail(s) \in Seq(S)
      /\ Len(<<e>> \o Tail(s)) = Len(Tail(s)) + 1 /\ (<<e>> \o Tail(s))[1] = e
      /\ \A k \in 1..Len(Tail(s)) : (<<e>> \o Tail(s))[k + 1] = Tail(s)[k]
  BY <1>1, Pushed
<1> QED
  BY <1>1, <1>2

\* Nothing is left to do: the names stay as they are.
LEMMA NothingToDo ==
  ASSUME NEW named \in Seq(StoredNames), NEW more \in 0..MaxOpen
  PROVE  Meaning[Point(<<>>, named, more)] = [names |-> named, end |-> "parsed"]
<1>1. PICK none \in Seq(Arg) : none = <<>>
  BY EmptySeq
<1>2. /\ Point(none, named, more) \in Reading
      /\ Point(none, named, more).args = none
      /\ Point(none, named, more).named = named
  BY PointIs
<1>3. Meaning[Point(none, named, more)] = MeaningBody(Meaning, Point(none, named, more))
  BY <1>2, MeaningIs
<1> QED
  BY <1>1, <1>2, <1>3 DEF MeaningBody

\* The latest call has its next argument behind it: the calls come to the same.
LEMMA SameOutcome ==
  ASSUME NEW s \in Seq(Seq(Arg)), s # <<>>, NEW args \in Seq(Arg),
         NEW named, NEW names, NEW w, ComesTo(w, s, named),
         Meaning[CallPoint(s, 1, named)] =
           Meaning[Point(args, names, MaxOpen - Len(s) + 1)]
  PROVE  ComesTo(w, <<args>> \o Tail(s), names)
<1> DEFINE t == <<args>> \o Tail(s)
<1>1. Len(s) \in Nat /\ Len(s) > 0
  BY EmptySeq, LenProperties
<1>2. /\ Len(t) = Len(s) /\ t[1] = args
      /\ \A k \in 1..(Len(s) - 1) : t[k + 1] = s[k + 1]
  BY <1>1, Replaced
<1> HIDE DEF t
<1>3. ComesTo(w, t, names)
  <2>1. /\ w \in [1..Len(s) -> Outcome] /\ w[1] = Meaning[CallPoint(s, 1, named)]
        /\ \A k \in 1..(Len(s) - 1) :
             w[k + 1] = IF w[k].end # "parsed" THEN w[k]
                        ELSE Meaning[CallPoint(s, k + 1, w[k].names)]
    BY DEF ComesTo
  <2>2. w[1] = Meaning[CallPoint(t, 1, names)]
    BY <1>2, <2>1 DEF CallPoint
  <2>3. \A k \in 1..(Len(t) - 1) :
             w[k + 1] = IF w[k].end # "parsed" THEN w[k]
                        ELSE Meaning[CallPoint(t, k + 1, w[k].names)]
    BY <1>2, <2>1 DEF CallPoint
  <2> QED
    BY <1>2, <2>1, <2>2, <2>3 DEF ComesTo
<1> QED
  BY <1>3 DEF t

\* A call more, for a file of arguments, comes to what the file and then the rest do.
LEMMA OutcomeOfCall ==
  ASSUME NEW s \in Seq(Seq(Arg)), s # <<>>, NEW args \in Seq(Arg),
         NEW rest \in Seq(Arg), NEW named \in Seq(StoredNames), NEW w,
         ComesTo(w, s, named), NEW inner \in Outcome,
         inner = Meaning[Point(args, named, MaxOpen - Len(s))],
         w[1] = IF inner.end # "parsed" THEN inner
                ELSE Meaning[Point(rest, inner.names, MaxOpen - Len(s) + 1)]
  PROVE  \E v : /\ ComesTo(v, <<args>> \o (<<rest>> \o Tail(s)), named)
                /\ v[Len(s) + 1] = w[Len(s)]
<1> DEFINE u == <<rest>> \o Tail(s)
           t == <<args>> \o u
           v == [k \in 1..(Len(s) + 1) |-> IF k = 1 THEN inner ELSE w[k - 1]]
<1>1. Len(s) \in Nat /\ Len(s) > 0 /\ Len(Tail(s)) = Len(s) - 1 /\ Tail(s) \in Seq(Seq(Arg))
  BY EmptySeq, LenProperties, HeadTailProperties
<1>2. /\ u \in Seq(Seq(Arg)) /\ Len(u) = Len(s)
      /\ u[1] = rest /\ \A k \in 1..(Len(s) - 1) : u[k + 1] = s[k + 1]
  BY <1>1, Replaced
<1> HIDE DEF u
<1>3. /\ Len(t) = Len(s) + 1 /\ t[1] = args
      /\ \A k \in 1..Len(s) : t[k + 1] = u[k]
  BY <1>1, <1>2, Pushed
<1> HIDE DEF t
<1>4. /\ w \in [1..Len(s) -> Outcome] /\ w[1] = Meaning[CallPoint(s, 1, named)]
      /\ \A k \in 1..(Len(s) - 1) :
           w[k + 1] = IF w[k].end # "parsed" THEN w[k]
                      ELSE Meaning[CallPoint(s, k + 1, w[k].names)]
  BY DEF ComesTo
<1>5. /\ v \in [1..(Len(s) + 1) -> Outcome] /\ v[1] = inner
      /\ \A k \in 1..Len(s) : v[k + 1] = w[k]
  <2>1. v \in [1..(Len(s) + 1) -> Outcome]
    BY <1>1, <1>4
  <2>2. v[1] = inner
    BY <1>1
  <2>3. ASSUME NEW k \in 1..Len(s) PROVE v[k + 1] = w[k]
    BY <1>1, <2>3
  <2> QED
    BY <2>1, <2>2, <2>3
<1> HIDE DEF v
<1>6. v[1] = Meaning[CallPoint(t, 1, named)]
  <2>1. MaxOpen - Len(t) + 1 = MaxOpen - Len(s)
    BY <1>1, <1>3, LimitsAssumption
  <2> QED
    BY <1>3, <1>5, <2>1 DEF CallPoint
<1>7. ASSUME NEW k \in 1..(Len(t) - 1)
      PROVE  v[k + 1] = IF v[k].end # "parsed" THEN v[k]
                        ELSE Meaning[CallPoint(t, k + 1, v[k].names)]
  <2>1. k \in 1..Len(s)
    BY <1>1, <1>3
  <2>2. CASE k = 1
    <3>1. \A names : CallPoint(t, 2, names) = Point(rest, names, MaxOpen - Len(s) + 1)
      <4>1. t[2] = rest
        BY <1>1, <1>2, <1>3, <2>1, <2>2
      <4>2. MaxOpen - Len(t) + 2 = MaxOpen - Len(s) + 1
        BY <1>1, <1>3, LimitsAssumption
      <4> QED
        BY <4>1, <4>2 DEF CallPoint
    <3>2. v[2] = w[1] /\ v[1] = inner
      BY <1>5, <2>1, <2>2
    <3> QED
      BY <2>2, <3>1, <3>2
  <2>3. CASE k # 1
    <3>1. PICK j \in 1..(Len(s) - 1) : k = j + 1
      <4>1. k - 1 \in 1..(Len(s) - 1) /\ k = (k - 1) + 1
        BY <1>1, <2>1, <2>3
      <4> QED
        BY <4>1
    <3>2. v[k] = w[j] /\ v[k + 1] = w[j + 1]
      BY <1>1, <1>5, <2>1, <3>1
    <3>3. \A names : CallPoint(t, k + 1, names) = CallPoint(s, j + 1, names)
      <4>1. t[k + 1] = s[j + 1]
        BY <1>2, <1>3, <2>1, <3>1
      <4>2. MaxOpen - Len(t) + (k + 1) = MaxOpen - Len(s) + (j + 1)
        BY <1>1, <1>3, <3>1, LimitsAssumption
      <4> QED
        BY <4>1, <4>2 DEF CallPoint
    <3> QED
      BY <1>4, <3>2, <3>3
  <2> QED
    BY <2>2, <2>3
<1>8. ComesTo(v, t, named)
  BY <1>3, <1>5, <1>6, <1>7 DEF ComesTo
<1>9. v[Len(s) + 1] = w[Len(s)]
  <2>1. Len(s) \in 1..Len(s)
    BY <1>1
  <2> QED
    BY <1>5, <2>1
<1> QED
  BY <1>8, <1>9 DEF t, u

\* A call that returns leaves the others to come to what they would.
LEMMA OutcomeOfReturn ==
  ASSUME NEW s \in Seq(Seq(Arg)), Tail(s) # <<>>, s # <<>>, Head(s) = <<>>,
         NEW named \in Seq(StoredNames), NEW w, ComesTo(w, s, named),
         Len(s) <= MaxOpen + 1
  PROVE  \E v : ComesTo(v, Tail(s), named) /\ v[Len(Tail(s))] = w[Len(s)]
<1> DEFINE t == Tail(s)
           v == [k \in 1..(Len(s) - 1) |-> w[k + 1]]
<1>1. /\ Len(s) \in Nat /\ Len(t) = Len(s) - 1 /\ Len(t) > 0 /\ s[1] = <<>>
      /\ \A k \in 1..(Len(s) - 1) : t[k] = s[k + 1]
  BY EmptySeq, LenProperties, HeadTailProperties
<1> HIDE DEF t
<1>2. /\ w \in [1..Len(s) -> Outcome] /\ w[1] = Meaning[CallPoint(s, 1, named)]
      /\ \A k \in 1..(Len(s) - 1) :
           w[k + 1] = IF w[k].end # "parsed" THEN w[k]
                      ELSE Meaning[CallPoint(s, k + 1, w[k].names)]
  BY DEF ComesTo
<1>3. w[1] = [names |-> named, end |-> "parsed"]
  <2>1. MaxOpen - Len(s) + 1 \in 0..MaxOpen
    BY <1>1, LimitsAssumption
  <2> QED
    BY <1>1, <1>2, <2>1, EmptySeq, NothingToDo DEF CallPoint
<1>4. /\ v \in [1..Len(t) -> Outcome]
      /\ \A k \in 1..Len(t) : v[k] = w[k + 1]
  <2>1. ASSUME NEW k \in 1..(Len(s) - 1) PROVE w[k + 1] \in Outcome
    <3>1. k + 1 \in 1..Len(s)
      BY <1>1
    <3> QED
      BY <1>2, <3>1
  <2> QED
    BY <1>1, <2>1
<1> HIDE DEF v
<1>5. \A k \in 1..Len(t) : \A names : CallPoint(t, k, names) = CallPoint(s, k + 1, names)
  <2>1. ASSUME NEW k \in 1..Len(t)
        PROVE  MaxOpen - Len(t) + k = MaxOpen - Len(s) + (k + 1)
    BY <1>1, LimitsAssumption
  <2> QED
    BY <1>1, <2>1 DEF CallPoint
<1>6. v[1] = Meaning[CallPoint(t, 1, named)]
  <2>1. 1 \in 1..(Len(s) - 1) /\ 1 \in 1..Len(t) /\ 1 + 1 = 2
    BY <1>1
  <2>2. v[1] = w[2] /\ w[2] = Meaning[CallPoint(s, 2, named)]
    BY <1>2, <1>3, <1>4, <2>1
  <2> QED
    BY <1>5, <2>1, <2>2
<1>7. ASSUME NEW k \in 1..(Len(t) - 1)
      PROVE  v[k + 1] = IF v[k].end # "parsed" THEN v[k]
                        ELSE Meaning[CallPoint(t, k + 1, v[k].names)]
  <2>1. k \in 1..Len(t) /\ k + 1 \in 1..Len(t) /\ k + 1 \in 1..(Len(s) - 1)
    BY <1>1
  <2>2. v[k] = w[k + 1] /\ v[k + 1] = w[(k + 1) + 1]
    BY <1>4, <2>1
  <2>3. CallPoint(t, k + 1, v[k].names) = CallPoint(s, (k + 1) + 1, v[k].names)
    BY <1>5, <2>1
  <2>4. w[(k + 1) + 1] = IF w[k + 1].end # "parsed" THEN w[k + 1]
                         ELSE Meaning[CallPoint(s, (k + 1) + 1, w[k + 1].names)]
    BY <1>2, <2>1
  <2> QED
    BY <2>2, <2>3, <2>4
<1>8. v[Len(t)] = w[Len(s)]
  BY <1>1, <1>4
<1>9. ComesTo(v, t, named)
  BY <1>4, <1>6, <1>7 DEF ComesTo
<1> QED
  BY <1>8, <1>9 DEF t

\* An end that one call comes to is the end of all.
LEMMA EndOfAll ==
  ASSUME NEW s \in Seq(Seq(Arg)), s # <<>>, NEW named, NEW w, ComesTo(w, s, named),
         w[1].end # "parsed"
  PROVE  w[Len(s)] = w[1]
<1>1. Len(s) \in Nat /\ Len(s) > 0
  BY EmptySeq, LenProperties
<1> DEFINE T == {k \in 1..Len(s) : w[k] # w[1]}
<1>2. ASSUME T # {} PROVE FALSE
  <2>1. PICK k \in T : \A n \in T : k <= n
    <3>1. T \in SUBSET Nat
      BY <1>1
    <3> HIDE DEF T
    <3> QED
      BY <1>2, <3>1, LeastNumber
  <2>2. k \in 1..Len(s) /\ w[k] # w[1]
    OBVIOUS
  <2>3. PICK j \in 1..(Len(s) - 1) : k = j + 1
    <3>1. k - 1 \in 1..(Len(s) - 1) /\ k = (k - 1) + 1
      BY <1>1, <2>2
    <3> QED
      BY <3>1
  <2>4. w[j] = w[1]
    BY <1>1, <2>1, <2>3
  <2> QED
    BY <2>2, <2>3, <2>4 DEF ComesTo
<1> QED
  BY <1>1, <1>2

\* What the command of the program comes to.
Command == Meaning[Point(argv, <<>>, MaxOpen)]

\* While the command is parsed, the calls under way come to what it means; then the
\* names are those it means, and the program ends as it does.
StackMeans ==
  status = "parse" =>
    \E w : ComesTo(w, stack, gpFilNames) /\ w[Len(stack)] = Command
MeansInv ==
  argv # <<>> =>
    /\ argv \in Seq(Arg)
    /\ StackMeans
    /\ status # "parse" =>
         /\ gpFilNames = Command.names
         /\ Command.end # "parsed" => status = Command.end /\ report = <<>>
         /\ Command.end = "parsed" =>
              status \in IF Command.names = <<>> THEN {"parsed", "exit1"}
                                                 ELSE {"parsed", "exit0"}

\* The latest call and the point it has come to.
LEMMA LatestCall ==
  ASSUME IInv, status = "parse", NEW w, ComesTo(w, stack, gpFilNames)
  PROVE  LET p == Point(Head(stack), gpFilNames, MaxOpen - fds)
         IN  /\ p \in Reading /\ p.args = Head(stack)
             /\ p.named = gpFilNames /\ p.more = MaxOpen - fds
             /\ CallPoint(stack, 1, gpFilNames) = p
             /\ w[1] = MeaningBody(Meaning, p)
<1>1. /\ stack \in Seq(Seq(Arg)) /\ stack # <<>> /\ gpFilNames \in Seq(StoredNames)
      /\ fds = Len(stack) - 1 /\ fds <= MaxOpen /\ fds \in Nat
  BY DEF IInv, NotStarted, OneFilePerCall, CommandTypeOK
<1>2. stack[1] = Head(stack) /\ Head(stack) \in Seq(Arg) /\ Len(stack) \in Nat
  BY <1>1, HeadTailProperties, LenProperties
<1>3. MaxOpen - fds \in 0..MaxOpen /\ MaxOpen - Len(stack) + 1 = MaxOpen - fds
  BY <1>1, <1>2, LimitsAssumption
<1>4. LET p == Point(Head(stack), gpFilNames, MaxOpen - fds)
      IN  /\ p \in Reading /\ p.args = Head(stack)
          /\ p.named = gpFilNames /\ p.more = MaxOpen - fds
  BY <1>1, <1>2, <1>3, PointIs
<1>5. CallPoint(stack, 1, gpFilNames) = Point(Head(stack), gpFilNames, MaxOpen - fds)
  BY <1>2, <1>3 DEF CallPoint
<1> QED
  BY <1>4, <1>5, MeaningIs DEF ComesTo

\* An argument is taken: the calls come to the same as before.
LEMMA TakenMeans ==
  ASSUME IInv, status = "parse", Head(stack) # <<>>,
         NEW w, ComesTo(w, stack, gpFilNames), NEW names,
         w[1] = Meaning[Point(Tail(Head(stack)), names, MaxOpen - fds)]
  PROVE  ComesTo(w, Taken, names) /\ Len(Taken) = Len(stack)
<1>1. /\ stack \in Seq(Seq(Arg)) /\ stack # <<>> /\ Len(stack) \in Nat
      /\ fds = Len(stack) - 1 /\ Tail(Head(stack)) \in Seq(Arg)
  <2>1. stack \in Seq(Seq(Arg)) /\ stack # <<>> /\ fds = Len(stack) - 1
    BY DEF IInv, NotStarted, OneFilePerCall, CommandTypeOK
  <2>2. Head(stack) \in Seq(Arg) /\ Len(stack) \in Nat
    BY <2>1, HeadTailProperties, LenProperties
  <2> QED
    BY <2>1, <2>2, HeadTailProperties
<1>2. MaxOpen - Len(stack) + 1 = MaxOpen - fds
  BY <1>1, LimitsAssumption
<1>3. Meaning[CallPoint(stack, 1, gpFilNames)] =
        Meaning[Point(Tail(Head(stack)), names, MaxOpen - Len(stack) + 1)]
  BY <1>2 DEF ComesTo
<1>4. Len(Taken) = Len(stack)
  BY NextArgument DEF IInv
<1> QED
  BY <1>1, <1>3, <1>4, SameOutcome DEF Taken

\* Each step of ProcessCommand leaves what the command comes to.
LEMMA ParseMeans ==
  ASSUME IInv, MeansInv, ParseNext, argv # <<>>
  PROVE  /\ (StackMeans)'
         /\ (status' # "parse" =>
               gpFilNames' = Command.names /\ status' = Command.end)
<1>1. status = "parse" /\ argv' = argv
  BY OnlyWhileParsing DEF ParseNext, Mode, Help, Wrong, AddName, EmptyName, AtFile,
       AtFileFails, Return, Next1, Exit
<1>2. PICK w : ComesTo(w, stack, gpFilNames) /\ w[Len(stack)] = Command
  BY <1>1 DEF MeansInv, StackMeans
<1> DEFINE p == Point(Head(stack), gpFilNames, MaxOpen - fds)
           a == Head(Head(stack))
<1>3. /\ p \in Reading /\ p.args = Head(stack)
      /\ p.named = gpFilNames /\ p.more = MaxOpen - fds
      /\ w[1] = MeaningBody(Meaning, p)
  BY <1>1, <1>2, LatestCall
<1> HIDE DEF p
<1>4. /\ stack \in Seq(Seq(Arg)) /\ stack # <<>> /\ gpFilNames \in Seq(StoredNames)
      /\ fds = Len(stack) - 1 /\ fds <= MaxOpen /\ fds \in Nat
  BY <1>1 DEF IInv, NotStarted, OneFilePerCall, CommandTypeOK
<1>5. Command' = Command
  BY <1>1 DEF Command
<1>6. ASSUME NEW names, NEW t, ComesTo(w, t, names), Len(t) = Len(stack),
             status' = "parse", stack' = t, gpFilNames' = names
      PROVE  (StackMeans)'
  BY <1>2, <1>5, <1>6 DEF StackMeans
<1>7. ASSUME w[1].end # "parsed", gpFilNames' = w[1].names, status' = w[1].end
      PROVE  /\ (StackMeans)'
             /\ gpFilNames' = Command.names /\ status' = Command.end
  <2>1. w[Len(stack)] = w[1]
    BY <1>2, <1>4, <1>7, EndOfAll
  <2>2. w[1] \in Outcome
    BY <1>3, BodyType, MeaningIs
  <2> QED
    BY <1>2, <1>7, <2>1, <2>2 DEF StackMeans, Outcome
<1>8. CASE Mode \/ EmptyName
  <2>1. /\ a.kind \in {"mode", "empty"} /\ Head(stack) # <<>>
        /\ stack' = Taken /\ gpFilNames' = gpFilNames /\ status' = "parse"
    BY <1>1, <1>8 DEF Mode, EmptyName, Next1
  <2>2. w[1] = Meaning[Point(Tail(Head(stack)), gpFilNames, MaxOpen - fds)]
    BY <1>3, <2>1 DEF MeaningBody
  <2>3. ComesTo(w, Taken, gpFilNames) /\ Len(Taken) = Len(stack)
    BY <1>1, <1>2, <2>1, <2>2, TakenMeans
  <2> QED
    BY <1>6, <2>1, <2>3
<1>9. CASE Help \/ Wrong
  <2>1. /\ a.kind \in {"help", "wrong"} /\ Head(stack) # <<>>
        /\ status' = (IF a.kind = "help" THEN "exit0" ELSE "exit1")
        /\ gpFilNames' = gpFilNames
    BY <1>9 DEF Help, Wrong, Next1, Exit
  <2>2. w[1] = [names |-> gpFilNames,
                end |-> IF a.kind = "help" THEN "exit0" ELSE "exit1"]
    BY <1>3, <2>1 DEF MeaningBody
  <2> QED
    BY <1>7, <2>1, <2>2
<1>10. CASE AddName
  <2> DEFINE with == Append(gpFilNames, Stored(a.kind, a.of))
  <2>1. /\ a.kind \in {"name", "iname"} /\ Head(stack) # <<>> /\ gpFilNames' = with
        /\ IF TooMany(giInCount + 1) THEN status' = "exit1" /\ UNCHANGED stack
                                     ELSE stack' = Taken /\ UNCHANGED status
    BY <1>10 DEF AddName, Next1, Arg1
  <2>2. w[1] = IF Len(with) >= MXFILNAMES THEN [names |-> with, end |-> "exit1"]
               ELSE Meaning[Point(Tail(Head(stack)), with, MaxOpen - fds)]
    BY <1>3, <2>1 DEF MeaningBody
  <2>3. TooMany(giInCount + 1) <=> Len(with) >= MXFILNAMES
    <3>1. Len(with) = giInCount + 1
      <4>1. a \in Arg
        BY <2>1, NextArgument DEF IInv
      <4>2. Stored(a.kind, a.of) \in StoredNames
        <5>1. a.of \in Names
          BY <2>1, <4>1, ArgumentOfKind
        <5> QED
          BY <2>1, <5>1 DEF StoredNames
      <4> QED
        BY <1>4, <4>2, AppendProperties DEF giInCount
    <3> QED
      BY <3>1 DEF TooMany
  <2> HIDE DEF with
  <2>4. CASE TooMany(giInCount + 1)
    <3>1. w[1] = [names |-> with, end |-> "exit1"]
      BY <2>2, <2>3, <2>4
    <3> QED
      BY <1>7, <2>1, <2>4, <3>1
  <2>5. CASE ~TooMany(giInCount + 1)
    <3>1. ComesTo(w, Taken, with) /\ Len(Taken) = Len(stack)
      BY <1>1, <1>2, <2>1, <2>2, <2>3, <2>5, TakenMeans
    <3> QED
      BY <1>1, <1>6, <2>1, <2>5, <3>1
  <2> QED
    BY <2>4, <2>5
<1>11. CASE AtFile
  <2>1. /\ a.kind = "at" /\ Head(stack) # <<>> /\ gpFilNames' = gpFilNames
        /\ fds < MaxOpen /\ a.of \notin Unreadable /\ status' = "parse"
        /\ IF ArgsOf[a.of] = <<>> THEN stack' = Taken
           ELSE stack' = <<ArgsOf[a.of]>> \o Taken
    BY <1>1, <1>11 DEF AtFile, Next1, Arg1, CanOpen, ReadArgs
  <2> DEFINE inner == Meaning[Point(ArgsOf[a.of], gpFilNames, MaxOpen - fds - 1)]
  <2>2. MaxOpen - fds # 0 /\ MaxOpen - fds - 1 \in 0..MaxOpen
    BY <1>4, <2>1, LimitsAssumption
  <2>3. w[1] = IF inner.end # "parsed" THEN inner
               ELSE Meaning[Point(Tail(Head(stack)), inner.names, MaxOpen - fds)]
    BY <1>3, <2>1, <2>2 DEF MeaningBody
  <2>4. ArgsOf[a.of] \in Seq(Arg)
    BY <2>1, NextArgument, ArgumentOfKind, ArgsAssumption DEF IInv
  <2>5. CASE ArgsOf[a.of] = <<>>
    <3>1. inner = [names |-> gpFilNames, end |-> "parsed"]
      BY <1>4, <2>2, <2>5, NothingToDo
    <3> HIDE DEF inner
    <3>2. w[1] = Meaning[Point(Tail(Head(stack)), gpFilNames, MaxOpen - fds)]
      BY <2>3, <3>1
    <3>3. ComesTo(w, Taken, gpFilNames) /\ Len(Taken) = Len(stack)
      BY <1>1, <1>2, <2>1, <3>2, TakenMeans
    <3> QED
      BY <1>6, <2>1, <2>5, <3>3
  <2>6. CASE ArgsOf[a.of] # <<>>
    <3>1. inner \in Outcome
      <4>1. Point(ArgsOf[a.of], gpFilNames, MaxOpen - fds - 1) \in Reading
        BY <1>4, <2>2, <2>4, PointIs
      <4> QED
        BY <4>1, MeaningIs
    <3>2. Tail(Head(stack)) \in Seq(Arg) /\ Len(stack) \in Nat
      BY <1>4, <2>1, HeadTailProperties, LenProperties
    <3>3. MaxOpen - fds - 1 = MaxOpen - Len(stack)
          /\ MaxOpen - fds = MaxOpen - Len(stack) + 1
      BY <1>4, <3>2, LimitsAssumption
    <3>4. PICK rest \in Seq(Arg), file \in Seq(Arg) :
             rest = Tail(Head(stack)) /\ file = ArgsOf[a.of]
      BY <2>4, <3>2
    <3>5. PICK m \in Outcome : m = inner
      BY <3>1
    <3>6. \E v : /\ ComesTo(v, <<file>> \o (<<rest>> \o Tail(stack)), gpFilNames)
                 /\ v[Len(stack) + 1] = w[Len(stack)]
      <4>1. /\ m = Meaning[Point(file, gpFilNames, MaxOpen - Len(stack))]
            /\ w[1] = IF m.end # "parsed" THEN m
                      ELSE Meaning[Point(rest, m.names, MaxOpen - Len(stack) + 1)]
        BY <2>3, <3>3, <3>4, <3>5
      <4> QED
        BY <1>2, <1>4, <4>1, OutcomeOfCall
    <3>7. stack' = <<file>> \o (<<rest>> \o Tail(stack))
      BY <2>1, <2>6, <3>4 DEF Taken
    <3>8. Len(stack') = Len(stack) + 1
      <4>1. Taken \in Seq(Seq(Arg)) /\ Len(Taken) = Len(stack)
        BY <2>1, NextArgument DEF IInv
      <4> QED
        BY <2>1, <2>4, <2>6, <4>1, Pushed
    <3> QED
      BY <1>2, <1>5, <2>1, <3>6, <3>7, <3>8 DEF StackMeans
  <2> QED
    BY <2>5, <2>6
<1>12. CASE AtFileFails
  <2>1. /\ a.kind = "at" /\ Head(stack) # <<>> /\ gpFilNames' = gpFilNames
        /\ status' = "exit1" /\ (~(fds < MaxOpen) \/ a.of \in Unreadable)
    BY <1>12 DEF AtFileFails, Next1, Arg1, CanOpen, Exit
  <2>2. MaxOpen - fds = 0 \/ a.of \in Unreadable
    BY <1>4, <2>1, LimitsAssumption
  <2>3. w[1] = [names |-> gpFilNames, end |-> "exit1"]
    BY <1>3, <2>1, <2>2 DEF MeaningBody
  <2> QED
    BY <1>7, <2>1, <2>3
<1>13. CASE Return
  <2>1. Head(stack) = <<>> /\ gpFilNames' = gpFilNames
    BY <1>13 DEF Return
  <2>2. CASE Tail(stack) # <<>>
    <3>1. stack' = Tail(stack) /\ status' = "parse"
      BY <1>1, <1>13, <2>2 DEF Return
    <3>2. Len(stack) <= MaxOpen + 1
      BY <1>4, LenProperties, LimitsAssumption
    <3>3. \E v : ComesTo(v, Tail(stack), gpFilNames) /\ v[Len(Tail(stack))] = w[Len(stack)]
      BY <1>2, <1>4, <2>1, <2>2, <3>2, OutcomeOfReturn
    <3> QED
      BY <1>2, <1>5, <2>1, <3>1, <3>3 DEF StackMeans
  <2>3. CASE Tail(stack) = <<>>
    <3>1. status' = "parsed"
      BY <1>13, <2>3 DEF Return
    <3>2. Len(stack) = 1
      <4>1. Len(Tail(stack)) = Len(stack) - 1 /\ Len(Tail(stack)) = 0 /\ Len(stack) \in Nat
        BY <1>4, <2>3, HeadTailProperties, EmptySeq, LenProperties
      <4> QED
        BY <4>1
    <3>3. w[1] = [names |-> gpFilNames, end |-> "parsed"]
      BY <1>3, <2>1 DEF MeaningBody
    <3> QED
      BY <1>2, <2>1, <3>1, <3>2, <3>3 DEF StackMeans
  <2> QED
    BY <2>2, <2>3
<1> QED
  BY <1>8, <1>9, <1>10, <1>11, <1>12, <1>13 DEF ParseNext

\* main starts with the whole command to do.
LEMMA InitMeans == Init => MeansInv
<1> SUFFICES ASSUME Init, argv # <<>> PROVE MeansInv
  BY DEF MeansInv
<1>1. argv \in Seq(Arg) /\ stack = <<argv>> /\ gpFilNames = <<>> /\ status = "parse"
  BY ArgsAssumption DEF Init, ParseInit
<1> DEFINE w == [k \in 1..1 |-> Command]
<1>2. Command \in Outcome
  <2>1. PICK none \in Seq(StoredNames) : none = <<>>
    BY EmptySeq
  <2>2. Point(argv, none, MaxOpen) \in Reading
    <3>1. MaxOpen \in 0..MaxOpen
      BY LimitsAssumption
    <3> QED
      BY <1>1, <3>1, PointIs
  <2> QED
    BY <2>1, <2>2, MeaningIs DEF Command
<1>3. /\ Len(stack) = 1 /\ stack[1] = argv
      /\ MaxOpen - Len(stack) + 1 = MaxOpen
  BY <1>1, LimitsAssumption
<1>4. CallPoint(stack, 1, gpFilNames) = Point(argv, <<>>, MaxOpen)
  BY <1>1, <1>3 DEF CallPoint
<1>5. w \in [1..Len(stack) -> Outcome] /\ w[1] = Command
  BY <1>2, <1>3
<1> HIDE DEF w
<1>6. ComesTo(w, stack, gpFilNames) /\ w[Len(stack)] = Command
  BY <1>3, <1>4, <1>5 DEF ComesTo, Command
<1> QED
  BY <1>1, <1>6 DEF MeansInv, StackMeans

\* No step of the program changes what the command means, and none shows a file
\* unless all of it was understood.
LEMMA StepMeans == IInv /\ MeansInv /\ [Next]_vars => MeansInv'
<1> SUFFICES ASSUME IInv, MeansInv, [Next]_vars, argv' # <<>> PROVE MeansInv'
  BY DEF MeansInv
<1>1. argv' = argv
  BY DEF Next, Parse, ParseNext, Mode, Help, Wrong, AddName, EmptyName, AtFile,
         AtFileFails, Return, Exit, NoNames, OpenFile, OpenFails, MapFails, Map,
         ShowStrings, AskHandler, ShowRest, Finish, vars, commandVars
<1>2. Command' = Command /\ argv \in Seq(Arg)
  BY <1>1 DEF Command, MeansInv
<1>3. CASE Parse
  <2>1. /\ StackMeans'
        /\ (status' # "parse" => gpFilNames' = Command.names /\ status' = Command.end)
    BY <1>1, <1>3, ParseMeans DEF Parse
  <2>2. report' = <<>>
    BY <1>3, OnlyWhileParsing DEF Parse, IInv, NotStarted
  <2> QED
    BY <1>1, <1>2, <2>1, <2>2 DEF MeansInv
<1>4. CASE NoNames
  <2>1. /\ status = "parsed" /\ status' = "exit1" /\ gpFilNames' = gpFilNames
        /\ report' = report /\ giInCount = 0
    BY <1>4 DEF NoNames, fileVars
  <2>2. gpFilNames = <<>>
    <3>1. gpFilNames \in Seq(StoredNames) /\ Len(gpFilNames) = 0
      BY <2>1 DEF giInCount, IInv, CommandTypeOK
    <3> QED
      BY <3>1, EmptySeq
  <2> QED
    BY <1>1, <1>2, <2>1, <2>2 DEF MeansInv, StackMeans
<1>5. CASE Finish
  <2>1. /\ status = "parsed" /\ status' = "exit0" /\ gpFilNames' = gpFilNames
        /\ report' = report /\ giInCount > 0
    BY <1>5 DEF Finish, fileVars
  <2>2. gpFilNames # <<>>
    BY <2>1, EmptySeq DEF giInCount
  <2> QED
    BY <1>1, <1>2, <2>1, <2>2 DEF MeansInv, StackMeans
<1>6. CASE OpenFile \/ OpenFails \/ MapFails \/ Map \/ ShowStrings \/ AskHandler \/ ShowRest
  <2>1. status = "parsed" /\ status' = status /\ gpFilNames' = gpFilNames
    BY <1>6 DEF OpenFile, OpenFails, MapFails, Map, ShowStrings, AskHandler, ShowRest,
                Running, IInv, InLoop, commandVars
  <2> QED
    BY <1>1, <1>2, <2>1 DEF MeansInv, StackMeans
<1>7. CASE UNCHANGED vars
  <2>1. UNCHANGED <<status, stack, gpFilNames, report>>
    BY <1>7 DEF vars, commandVars, fileVars
  <2> QED
    BY <1>1, <1>2, <2>1 DEF MeansInv, StackMeans
<1> QED
  BY <1>3, <1>4, <1>5, <1>6, <1>7 DEF Next

\* The names that are dumped are those the command means, every file of arguments read
\* in full in its place, and none is when the command cannot be understood; for every
\* command and whatever the files of arguments contain.
THEOREM CommandMeansWhatItSays == Spec => []MeansWhatItSays
<1>1. Spec => []MeansInv
  BY InitMeans, StepMeans, Inductive, PTL DEF Spec
<1>2. MeansInv => MeansWhatItSays
  BY DEF MeansInv, MeansWhatItSays, Command, Point
<1> QED
  BY <1>1, <1>2, PTL
===============================================================================

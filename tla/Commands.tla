------------------------------- MODULE Commands -------------------------------
(***************************************************************************)
(* The command line: ProcessCommand and the switches of                    *)
(* src/src/DumpHelp.c. Arguments are taken from the left; @file puts the   *)
(* arguments of a file in its place, by a recursive call that keeps the    *)
(* file open. An argument is what it does: ArgFile shows how the strings   *)
(* of a file are found, and the value a switch takes is left out.          *)
(***************************************************************************)
EXTENDS Integers, Sequences

CONSTANTS
  CommandLines,  \* the sequences of arguments the program can be started with
  Modes,         \* what a switch can turn on
  Names,         \* the names of files to dump
  ArgFiles,      \* the names of files of arguments
  ArgsOf,        \* the arguments in each of them
  Unreadable,    \* those that cannot be opened, are empty or a directory
  MXFILNAMES,    \* 200 in the code
  MaxOpen        \* how many files fopen can have open at once, 8 or more in C

Arg == [kind : {"mode"}, of : SUBSET Modes]           \* a switch
         \cup [kind : {"name", "iname"}, of : Names]  \* a name; -iname
         \cup [kind : {"at"}, of : ArgFiles]          \* @file, -@file
         \cup [kind : {"empty", "wrong", "help"}]

\* -iname stores its "i" too, so that the name is not the one that was asked for.
Stored(kind, name) == IF kind = "iname" THEN <<"i", name>> ELSE <<name>>
StoredNames == {Stored(kind, name) : kind \in {"name", "iname"}, name \in Names}

ASSUME ArgsAssumption ==
  /\ CommandLines \subseteq Seq(Arg) /\ ArgsOf \in [ArgFiles -> Seq(Arg)]
  /\ Unreadable \subseteq ArgFiles
ASSUME LimitsAssumption == MXFILNAMES \in Nat \ {0} /\ MaxOpen \in Nat \ {0}

VARIABLES
  argv,      \* the arguments of main
  stack,     \* the calls: what each has still to do, the latest call first
  modes,     \* the switches turned on
  gpFilNames,
  fds,       \* files open
  status     \* "parse", "parsed", or the exit code, "exit0" or "exit1"

commandVars == <<argv, stack, modes, gpFilNames, fds, status>>

-------------------------------------------------------------------------------

giInCount == Len(gpFilNames)

\* The argument that comes next, of the latest call.
Next1(kinds) ==
  /\ status = "parse" /\ Head(stack) # <<>>
  /\ Head(Head(stack)).kind \in kinds
Arg1 == Head(Head(stack)).of
Taken_SameAgain ==
  IF Head(Head(stack)).kind = "empty" THEN stack ELSE <<Tail(Head(stack))>> \o Tail(stack)
Taken == <<Tail(Head(stack))>> \o Tail(stack)

\* pgm_exit: the rest of the command is not looked at.
Exit(code) ==
  /\ status' = code
  /\ UNCHANGED <<argv, stack, modes, gpFilNames, fds>>

Mode ==
  /\ Next1({"mode"})
  /\ modes' = modes \cup Arg1
  /\ stack' = Taken
  /\ UNCHANGED <<argv, gpFilNames, fds, status>>

\* -h, -?, -hh and --version.
Help == Next1({"help"}) /\ Exit("exit0")

\* A switch that does not exist, or whose value is wrong: UsageX.
Wrong == Next1({"wrong"}) /\ Exit("exit1")

\* "Too many INPUT file names!", which is looked for after the name is stored.
TooMany_Late(n) == n > MXFILNAMES
TooMany(n) == n >= MXFILNAMES
AddName ==
  /\ Next1({"name", "iname"})
  /\ gpFilNames' = Append(gpFilNames, Stored(Head(Head(stack)).kind, Arg1))
  /\ IF TooMany(giInCount + 1) THEN status' = "exit1" /\ UNCHANGED stack
                               ELSE stack' = Taken /\ UNCHANGED status
  /\ UNCHANGED <<argv, modes, fds>>

\* An argument of no characters is passed over.
EmptyName ==
  /\ Next1({"empty"})
  /\ stack' = Taken
  /\ UNCHANGED <<argv, modes, gpFilNames, fds, status>>

\* A file of arguments with nothing but comments is opened and closed again.
CanOpen == fds < MaxOpen /\ Arg1 \notin Unreadable
ReadArgs_AtEnd(args) == <<Tail(Head(stack)) \o args>> \o Tail(stack)
ReadArgs(args) == <<args>> \o Taken
AtFile ==
  /\ Next1({"at"}) /\ CanOpen
  /\ IF ArgsOf[Arg1] = <<>> THEN stack' = Taken /\ UNCHANGED fds
     ELSE stack' = ReadArgs(ArgsOf[Arg1]) /\ fds' = fds + 1
  /\ UNCHANGED <<argv, modes, gpFilNames, status>>

AtFileFails == Next1({"at"}) /\ ~CanOpen /\ Exit("exit1")

\* A call returns, to the call that opened the file and closes it, or to main.
Closed_Leaks == fds
Closed_Twice == fds - 2
Closed == fds - 1
Return ==
  /\ status = "parse" /\ Head(stack) = <<>>
  /\ IF Tail(stack) # <<>>
     THEN stack' = Tail(stack) /\ fds' = Closed /\ UNCHANGED status
     ELSE status' = "parsed" /\ UNCHANGED <<stack, fds>>
  /\ UNCHANGED <<argv, modes, gpFilNames>>

ParseInit ==
  /\ argv \in CommandLines
  /\ stack = <<argv>> /\ modes = {} /\ gpFilNames = <<>> /\ fds = 0
  \* With no argument at all main shows the help.
  /\ status = IF argv = <<>> THEN "exit0" ELSE "parse"

ParseNext ==
  Mode \/ Help \/ Wrong \/ AddName \/ EmptyName \/ AtFile \/ AtFileFails \/ Return

\* One thread, and nothing it waits for.
ParseSpec ==
  ParseInit /\ [][ParseNext]_commandVars /\ WF_commandVars(ParseNext)

-------------------------------------------------------------------------------
(* Properties *)

CommandTypeOK ==
  /\ argv \in Seq(Arg)
  /\ stack \in Seq(Seq(Arg)) /\ stack # <<>>
  /\ modes \subseteq Modes
  /\ gpFilNames \in Seq(StoredNames)
  /\ fds \in Nat
  /\ status \in {"parse", "parsed", "exit0", "exit1"}

\* The table of names has room for the next name as long as arguments are read.
NamesFit == status \in {"parse", "parsed"} => giInCount < MXFILNAMES

\* Every call but the first has a file open, and no call leaves one open: a file
\* that names itself is opened until no more can be, and the program ends.
OneFilePerCall == fds = Len(stack) - 1 /\ fds <= MaxOpen

\* What arguments come to, taken from the left, each @file in full before the rest: the
\* names in order and how it ends, given the names so far and how many files can still
\* be opened.
Reading == [args : Seq(Arg), named : Seq(StoredNames), more : 0..MaxOpen]
Meaning[r \in Reading] ==
  LET a == Head(r.args)
      Ends(code) == [names |-> r.named, end |-> code]
      Then(names) == Meaning[[args |-> Tail(r.args), named |-> names, more |-> r.more]]
      with == Append(r.named, Stored(a.kind, a.of))
      inner == Meaning[[args |-> ArgsOf[a.of], named |-> r.named, more |-> r.more - 1]]
  IN  CASE r.args = <<>> -> Ends("parsed")
        [] r.args # <<>> /\ a.kind = "help" -> Ends("exit0")
        [] r.args # <<>> /\ a.kind = "wrong" -> Ends("exit1")
        [] r.args # <<>> /\ a.kind \in {"mode", "empty"} -> Then(r.named)
        [] r.args # <<>> /\ a.kind \in {"name", "iname"} ->
             IF Len(with) >= MXFILNAMES THEN [names |-> with, end |-> "exit1"] ELSE Then(with)
        [] r.args # <<>> /\ a.kind = "at" ->
             IF r.more = 0 \/ a.of \in Unreadable THEN Ends("exit1")
             ELSE IF inner.end # "parsed" THEN inner ELSE Then(inner.names)
===============================================================================

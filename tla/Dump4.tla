-------------------------------- MODULE Dump4 ---------------------------------
(***************************************************************************)
(* The program as a whole: main, ProcessFile, DoFile and ProcessDataStr of *)
(* src/src/Dump4.c, as built without WIN32. The command is parsed, then    *)
(* each name in turn is opened, mapped and shown: by the handlers that the *)
(* switches turned on, asked one after the other, or as hex or text.       *)
(* HexDump, AsciiLines and AsciiStrings show what these displays do.       *)
(***************************************************************************)
EXTENDS Commands, SequencesExt, FiniteSetsExt

CONSTANTS
  Absent,      \* the names that cannot be opened
  Wild,        \* the names with a ? or a * in them
  Unmappable,  \* files that mmap refuses: empty ones and directories
  Looks        \* Looks[n][h]: what handler h makes of file n

Handlers == <<"cis", "geoff", "vos", "prof", "bmp", "mk4", "ppm", "m2ts",
              "gif", "rgb", "dfs", "tar", "sonic", "wav">>

\* A handler shows the whole file, or a part of it before it gives up, or nothing.
ASSUME FilesAssumption ==
  /\ Absent \cup Wild \cup Unmappable \subseteq StoredNames
  /\ Looks \in [StoredNames -> [ToSet(Handlers) -> {"whole", "part", "none"}]]
ASSUME ModesAssumption ==
  ToSet(Handlers) \cup {"ascii", "vosonly", "lib", "lnk", "avi", "obj",
                        "p", "xo", "xh", "xa"} \subseteq Modes

VARIABLES
  i,            \* the names done
  pc,           \* of a name: "next", "opened" or "mapped"
  heap,         \* the names whose memory is allocated, as positions
  asked,        \* of a mapped file: the handlers asked, as a position in Handlers
  shown,        \* what they showed of it
  gbGotWild,    \* kept from one file to the next
  report        \* history: each name done and what was shown of it

fileVars == <<i, pc, heap, asked, shown, gbGotWild, report>>
vars == <<commandVars, fileVars>>

-------------------------------------------------------------------------------

FileName == gpFilNames[i + 1]

\* ProcessFile and DoFile are done with a name: main frees it and goes on.
Following_Skips == i + 2
Following == i + 1
DoneWith(all) ==
  /\ report' = Append(report, [name |-> FileName, shown |-> all])
  /\ asked' = 0 /\ shown' = <<>>
  /\ heap' = heap \ {i + 1}
  /\ i' = Following
  /\ pc' = "next"

Parse ==
  /\ ParseNext
  /\ heap' = 1..Len(gpFilNames')
  /\ UNCHANGED <<i, pc, asked, shown, gbGotWild, report>>

\* The loop of main over the names.
Running == status = "parsed" /\ pc = "next" /\ giInCount > 0 /\ i < giInCount

NoNames ==
  /\ status = "parsed" /\ giInCount = 0
  /\ status' = "exit1"
  /\ UNCHANGED <<argv, stack, modes, gpFilNames, fds, fileVars>>

OpenFile ==
  /\ Running /\ FileName \notin Absent /\ fds < MaxOpen
  /\ fds' = fds + 1 /\ pc' = "opened"
  /\ UNCHANGED <<argv, stack, modes, gpFilNames, status,
                 i, heap, asked, shown, gbGotWild, report>>

\* Wildcards are not expanded here ("NOT yet suuported in NOT WIN32").
GotWild == FileName \in Wild
OpenFails ==
  /\ Running /\ (FileName \in Absent \/ fds >= MaxOpen)
  /\ gbGotWild' = GotWild
  /\ DoneWith(<<>>)
  /\ UNCHANGED <<commandVars>>

\* DoFile returns early, and ProcessFile closes the file.
Close_NotOnError == fds
Close == fds - 1
MapFails ==
  /\ pc = "opened" /\ FileName \in Unmappable
  /\ fds' = Close
  /\ DoneWith(<<>>)
  /\ UNCHANGED <<argv, stack, modes, gpFilNames, status, gbGotWild>>

Map ==
  /\ pc = "opened" /\ FileName \notin Unmappable
  /\ pc' = "mapped"
  /\ UNCHANGED <<commandVars, i, heap, asked, shown, gbGotWild, report>>

\* Handler h has the last word on the file. -g has it even on a file that is no
\* telephone list, -prof and -mk4 on no file at all.
IsDone_Mk4(h, look) ==
  CASE h \in {"geoff", "mk4"} -> TRUE
    [] h = "prof" -> FALSE
    [] h = "vos" -> look = "whole" \/ gbGotWild \/ "vosonly" \in modes
    [] OTHER -> look = "whole"
IsDone_NotTar(h, look) ==
  CASE h = "geoff" -> TRUE
    [] h \in {"prof", "mk4", "tar"} -> FALSE
    [] h = "vos" -> look = "whole" \/ gbGotWild \/ "vosonly" \in modes
    [] OTHER -> look = "whole"
IsDone(h, look) ==
  CASE h = "geoff" -> TRUE
    [] h \in {"prof", "mk4"} -> FALSE
    [] h = "vos" -> look = "whole" \/ gbGotWild \/ "vosonly" \in modes
    [] OTHER -> look = "whole"

\* ProcessDataStr returns: munmap and grmCloseFile.
Unmap(all) == fds' = Close /\ DoneWith(all)

ShowStrings ==
  /\ pc = "mapped" /\ "ascii" \in modes
  /\ Unmap(<<"ascii">>)
  /\ UNCHANGED <<argv, stack, modes, gpFilNames, status, gbGotWild>>

\* The handlers that the switches turned on and that were not asked yet.
Waiting == {k \in DOMAIN Handlers : k > asked /\ Handlers[k] \in modes}

\* The entries of a telephone list are only gathered, and printed by OutLineMem at
\* the end of the program.
ShownBy(h, look) ==
  IF look = "none" \/ h = "mk4" THEN shown ELSE Append(shown, h)

AskHandler ==
  /\ pc = "mapped" /\ "ascii" \notin modes /\ Waiting # {}
  /\ LET k == Min(Waiting)
         h == Handlers[k]
         look == Looks[FileName][h]
     IN  IF IsDone(h, look) THEN Unmap(ShownBy(h, look))
         ELSE /\ asked' = k /\ shown' = ShownBy(h, look)
              /\ UNCHANGED <<fds, i, pc, heap, report>>
  /\ UNCHANGED <<argv, stack, modes, gpFilNames, status, gbGotWild>>

\* "ELSE just do it as a HEX DUMP".
Fallback ==
  IF {"xo", "xh"} \subseteq modes /\ {"xa", "p"} \cap modes = {} THEN "text" ELSE "hex"
ShowRest ==
  /\ pc = "mapped" /\ "ascii" \notin modes /\ Waiting = {}
  /\ Unmap(Append(shown, Fallback))
  /\ UNCHANGED <<argv, stack, modes, gpFilNames, status, gbGotWild>>

AllDone_OffByOne == i > giInCount
AllDone == i = giInCount
Finish ==
  /\ status = "parsed" /\ pc = "next" /\ giInCount > 0 /\ AllDone
  /\ status' = "exit0"
  /\ UNCHANGED <<argv, stack, modes, gpFilNames, fds, fileVars>>

Init ==
  /\ ParseInit
  /\ i = 0 /\ pc = "next" /\ heap = {} /\ asked = 0 /\ shown = <<>>
  /\ gbGotWild = FALSE /\ report = <<>>

Next ==
  \/ Parse \/ NoNames \/ OpenFile \/ OpenFails \/ MapFails \/ Map
  \/ ShowStrings \/ AskHandler \/ ShowRest \/ Finish

\* One thread, and nothing it waits for.
Spec == Init /\ [][Next]_vars /\ WF_vars(Next)

-------------------------------------------------------------------------------
(* Properties *)

TypeOK ==
  /\ CommandTypeOK
  /\ i \in 0..giInCount /\ pc \in {"next", "opened", "mapped"}
  /\ heap \subseteq 1..giInCount
  /\ asked \in 0..Len(Handlers) /\ shown \in Seq(ToSet(Handlers))
  /\ gbGotWild \in BOOLEAN
  /\ report \in Seq([name : StoredNames,
                     shown : Seq(ToSet(Handlers) \cup {"ascii", "text", "hex"})])

\* The names collected are those the command means, and the program goes on to
\* them only when the whole command was understood.
MeansWhatItSays ==
  (status # "parse" /\ argv # <<>>) =>
    LET meant == Meaning[[args |-> argv, named |-> <<>>, more |-> MaxOpen]]
    IN  /\ gpFilNames = meant.names
        /\ meant.end # "parsed" => status = meant.end /\ report = <<>>
        /\ meant.end = "parsed" =>
             status \in IF meant.names = <<>> THEN {"parsed", "exit1"}
                                              ELSE {"parsed", "exit0"}

\* While the command is parsed each nested call holds its own file, and a file
\* that names itself is opened until no more can be. Between two names no file is
\* open, and during one only its own; a name is freed when it is done with, and a
\* program that has reported on all of them holds none of them and no file.
NothingHeld ==
  /\ status = "parse" => OneFilePerCall
  /\ status = "parsed" =>
       fds = (IF pc = "next" THEN 0 ELSE 1) /\ heap = (i + 1)..giInCount
  /\ (status = "exit0" /\ report # <<>>) => fds = 0 /\ heap = {}

\* The names are reported on once each, in the order of the command.
Queue == INSTANCE FileQueue WITH
  Name <- StoredNames,
  queue <- SubSeq(gpFilNames, i + 1, giInCount),
  report <- [k \in DOMAIN report |-> report[k].name]
InOrder == Queue!Spec

\* A mapped file is shown in some way, unless it was to be taken for a telephone
\* list, or for nothing but a VOS table, or a name before it could not be opened.
Mapped(k) == gpFilNames[k] \notin Absent \cup Unmappable
ShownSomehow ==
  \A k \in DOMAIN report :
    (Mapped(k) /\ report[k].shown = <<>>) =>
      \/ {"geoff", "vosonly"} \cap modes # {}
      \/ "vos" \in modes /\ \E j \in 1..(k - 1) : gpFilNames[j] \in Absent \cap Wild

\* A file that a handler took is not shown a second time as hex or text; and one
\* that is shown as hex or text was taken by none of those asked for.
HexOnlyUntaken ==
  \A k \in DOMAIN report :
    LET taken == \E h \in (ToSet(Handlers) \cap modes) \ {"prof", "mk4"} :
                   Looks[gpFilNames[k]][h] = "whole"
    IN  (Mapped(k) /\ ToSet(report[k].shown) \cap {"text", "hex"} # {}) => ~taken

\* "Try first as a VOS Table file": a file that is none is shown as hex.
VosTriedFirst ==
  \A k \in DOMAIN report :
    (modes = {"vos"} /\ Mapped(k)) => report[k].shown # <<>>

\* The program comes to its end.
Ends == <>(status \in {"exit0", "exit1"})
===============================================================================

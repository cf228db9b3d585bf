------------------------------- MODULE PeFollow -------------------------------
(***************************************************************************)
(* The files a program imports, followed (-exe:F; DumpPE.cxx, the build    *)
(* for Windows): the names its imports section gives are put in a list,    *)
(* looked for in the directory of the program and those of PATH, and each  *)
(* file found is shown, too, with its imports put in the list in turn.     *)
(* The files of a command are shown one after the other. A file is a       *)
(* directory and a name, and names are compared without case, so they are  *)
(* taken as equal or not.                                                  *)
(***************************************************************************)
EXTENDS Integers, SequencesExt

CONSTANT Commands   \* what is given: files, the disk, PATH and the switch

VARIABLES
  cmd, fileNo, peFoPc,
  pathList, Done_Import_Init,   \* directories to look in, kept over the files
  dllList, foundList,           \* names and files to do
  cDll, cFound,                 \* those being done
  doneDll, doneFound,
  dumped                        \* the files shown for each file given

peFoVars == <<cmd, fileNo, peFoPc, pathList, Done_Import_Init, dllList, foundList, cDll, cFound,
              doneDll, doneFound, dumped>>

File(dir, name) == [dir |-> dir, name |-> name]
Is_in_List(list, x) == Contains(list, x)
Add_2_list(list, x) == IF Is_in_List(list, x) THEN list ELSE Append(list, x)

\* Get_List_Copy: what was in ph goes to the end of pc, the names that are there already away.
Get_List_Copy(pc, ph) == FoldLeft(Add_2_list, pc, ph)

\* What DumpImportsSection puts in the list of names, once each.
DumpImportsSection(list, f) ==
  IF cmd.follow THEN FoldLeft(Add_2_list, list, cmd.imports[f]) ELSE list

Exists(f) == f \in DOMAIN cmd.imports
Shows(f) == f \notin cmd.empty   \* a file of no bytes is not mapped

Show(f) == dumped' = [dumped EXCEPT ![fileNo] = Append(@, f)]

-------------------------------------------------------------------------------

Init ==
  /\ cmd \in Commands
  /\ fileNo = 1
  /\ peFoPc = "file"
  /\ Done_Import_Init = FALSE
  /\ pathList = <<>> /\ dllList = <<>> /\ foundList = <<>> /\ cDll = <<>> /\ cFound = <<>>
  /\ doneDll = <<>> /\ doneFound = <<>>
  /\ dumped = [i \in DOMAIN cmd.files |-> <<>>]

\* A file of the command: its imports, and then Process_Import_List.
DumpFile ==
  /\ peFoPc = "file"
  /\ fileNo <= Len(cmd.files)
  /\ LET f == cmd.files[fileNo]
     IN  IF Shows(f)
         THEN /\ Show(f)
              /\ dllList' = DumpImportsSection(dllList, f)
              /\ peFoPc' = "names"
              /\ UNCHANGED fileNo
         ELSE /\ fileNo' = fileNo + 1
              /\ UNCHANGED <<dumped, dllList, peFoPc>>
  /\ UNCHANGED <<cmd, pathList, Done_Import_Init, foundList, cDll, cFound, doneDll, doneFound>>

\* The names that came in are taken to be looked for.
TakeNames ==
  /\ peFoPc = "names"
  /\ cmd.follow /\ dllList # <<>>
  /\ cDll' = Get_List_Copy(cDll, dllList)
  /\ dllList' = <<>>
  /\ peFoPc' = "look"
  /\ UNCHANGED <<cmd, fileNo, pathList, Done_Import_Init, foundList, cFound, doneDll, doneFound,
                 dumped>>

Do_Import_Init_PathOnly ==
  IF Done_Import_Init THEN pathList ELSE FoldLeft(Add_2_list, pathList, cmd.path)

\* Do_Import_Init: the directory of the file, and those of PATH. It is done once.
Do_Import_Init ==
  IF Done_Import_Init THEN pathList
  ELSE FoldLeft(Add_2_list, pathList, <<cmd.files[fileNo].dir>> \o cmd.path)

\* The files a name stands for, in the order of the directories.
Candidates(paths, name) ==
  SelectSeq([i \in DOMAIN paths |-> File(paths[i], name)], Exists)

\* Process_Next_Import: the first of them, unless it was shown.
Process_Next_Import(name) ==
  LET found == Candidates(Do_Import_Init, name)
  IN  /\ pathList' = Do_Import_Init
      /\ Done_Import_Init' = TRUE
      /\ foundList' = IF found = <<>> \/ Is_in_List(doneFound, found[1]) THEN foundList
                      ELSE Add_2_list(foundList, found[1])

\* One name of those taken. A name that was done before is passed over. cDll keeps what is
\* still to be looked for, and doneDll is given each name at once: nothing looks in between.
LookFor ==
  /\ peFoPc = "look" /\ cDll # <<>>
  /\ IF Is_in_List(doneDll, cDll[1])
     THEN UNCHANGED <<pathList, Done_Import_Init, foundList>>
     ELSE Process_Next_Import(cDll[1])
  /\ cDll' = Tail(cDll)
  /\ doneDll' = Add_2_list(doneDll, cDll[1])
  /\ UNCHANGED <<cmd, fileNo, peFoPc, dllList, cFound, doneFound, dumped>>

TakeFound ==
  /\ peFoPc = "look" /\ cDll = <<>>
  /\ cFound' = Get_List_Copy(cFound, foundList)
  /\ foundList' = <<>>
  /\ peFoPc' = "found"
  /\ UNCHANGED <<cmd, fileNo, pathList, Done_Import_Init, dllList, cDll, doneDll, doneFound, dumped>>

\* Process_Found_Import: one file that was found is shown. The Process_Import_List in it
\* returns at once, because this one is at work; its imports wait in dllList. cFound is
\* given to doneFound at the end of the loop, here with each file: no two of them are equal.
ShowFound ==
  /\ peFoPc = "found" /\ cFound # <<>>
  /\ LET f == cFound[1]
     IN  IF ~Is_in_List(doneFound, f) /\ Shows(f)
         THEN Show(f) /\ dllList' = DumpImportsSection(dllList, f)
         ELSE UNCHANGED <<dumped, dllList>>
  /\ cFound' = Tail(cFound)
  /\ doneFound' = Add_2_list(doneFound, cFound[1])
  /\ UNCHANGED <<cmd, fileNo, peFoPc, pathList, Done_Import_Init, foundList, cDll, doneDll>>

Again ==
  /\ peFoPc = "found" /\ cFound = <<>>
  /\ peFoPc' = "names"
  /\ UNCHANGED <<cmd, fileNo, pathList, Done_Import_Init, dllList, foundList, cDll, cFound, doneDll,
                 doneFound, dumped>>

\* All is done: the lists are emptied, the one of directories with them.
AllDone ==
  /\ peFoPc = "names"
  /\ ~(cmd.follow /\ dllList # <<>>)
  /\ pathList' = <<>> /\ foundList' = <<>> /\ dllList' = <<>> /\ doneDll' = <<>> /\ doneFound' = <<>>
  /\ fileNo' = fileNo + 1
  /\ peFoPc' = "file"
  /\ UNCHANGED <<cmd, Done_Import_Init, cDll, cFound, dumped>>

Next == DumpFile \/ TakeNames \/ LookFor \/ TakeFound \/ ShowFound \/ Again \/ AllDone

Spec == Init /\ [][Next]_peFoVars /\ WF_peFoVars(Next)

-------------------------------------------------------------------------------
(* Properties *)

\* Every variable has its type.
TypeOK ==
  /\ fileNo \in 1..(Len(cmd.files) + 1)
  /\ peFoPc \in {"file", "names", "look", "found"}
  /\ Done_Import_Init \in BOOLEAN
  /\ \A list \in {pathList, dllList, cDll, doneDll} : IsInjective(list)
  /\ \A list \in {foundList, cFound, doneFound} : IsInjective(list)
  /\ \A i \in DOMAIN dumped : \A k \in DOMAIN dumped[i] : Exists(dumped[i][k])

Ended == peFoPc = "file" /\ fileNo > Len(cmd.files)

\* The directories of the first file that has a name to look for, and the file a name means there.
Searcher == {i \in DOMAIN cmd.files : Shows(cmd.files[i]) /\ cmd.imports[cmd.files[i]] # <<>>}
FirstSearcher == CHOOSE i \in Searcher : \A k \in Searcher : i <= k
Means(i, name, g) ==
  LET dirs == <<cmd.files[i].dir>> \o cmd.path
  IN  \E k \in DOMAIN dirs :
        g = File(dirs[k], name) /\ \A j \in 1..(k - 1) : ~Exists(File(dirs[j], name))
Imported(i, f) ==
  {g \in DOMAIN cmd.imports :
     Shows(g) /\ \E n \in ToSet(cmd.imports[f]) : Means(i, n, g)}

\* What is shown for a file of the command: nothing but the file itself without the switch, and
\* with it only files that one shown before them imports, none twice but the given one, if it
\* is imported itself. With the first file that imports anything, every file shown comes with
\* all that it imports, directly or through others, also when imports go round in circles. Of
\* the imports of later files nothing is said: the help promises them, and the list of
\* directories, made once, is empty by then.
TrailFollowed ==
  /\ \A i \in DOMAIN dumped :
       LET s == dumped[i]
       IN  /\ s # <<>> => s[1] = cmd.files[i]
           /\ ~cmd.follow => Len(s) <= 1
           /\ \A k \in 2..Len(s) : \E j \in 1..(k - 1) : s[k] \in Imported(i, s[j])
           /\ s # <<>> => IsInjective(Tail(s))
  /\ (Ended /\ cmd.follow /\ Searcher # {}) =>
       LET s == dumped[FirstSearcher]
       IN  \A f \in ToSet(s) : Imported(FirstSearcher, f) \subseteq ToSet(Tail(s))
===============================================================================

------------------------------- MODULE PeFiles --------------------------------
(***************************************************************************)
(* What the reader of executables, objects, debug files and libraries      *)
(* keeps from one to the next (DumpPE.cxx, the build for Windows): the      *)
(* table of symbols, the header of symbols a debug directory named, the    *)
(* CodeView entry and the long names of a library. DumpMemoryMap shows one *)
(* file after the other, without following imports (PeFollow); a library   *)
(* is walked member by member, and a member is given by its offset, in     *)
(* cells of two bytes. A pointer is the number of the file it points into. *)
(***************************************************************************)
EXTENDS Integers, FiniteSets, SequencesExt

CONSTANTS
  PeFileSets,   \* commands: files and switches
  HeaderCells   \* cells of the header of a member

VARIABLES
  cmd, fileNo, pePc,
  g_pCOFFHeader, g_pCVHeader, PszLongnames,   \* a file, or 0
  g_pCOFFSymbolTable,          \* "none", "live" or "deleted"
  at, links,                   \* the member, and the linker members seen
  vExports,
  told,                        \* what was shown of each file
  faults                       \* reads of what is gone, and deletes of it

peFiVars == <<cmd, fileNo, pePc, g_pCOFFHeader, g_pCVHeader, PszLongnames, g_pCOFFSymbolTable,
              at, links, vExports, told, faults>>
globals == <<g_pCOFFHeader, g_pCVHeader, PszLongnames, g_pCOFFSymbolTable>>

Current == cmd.files[fileNo]
Part(what) == <<[what |-> what]>>
Parts(things, conditions) ==
  FlattenSeq([i \in DOMAIN things |-> IF conditions[i] THEN Part(things[i]) ELSE <<>>])
Tell(parts) == told' = [told EXCEPT ![fileNo] = @ \o parts]

\* What is read through a pointer: it is that of this file, or the file is not mapped any more.
Stale(pointer) == pointer # 0 /\ pointer # fileNo
Faulty(what, conditions) ==
  {<<fileNo, what[i]>> : i \in {j \in DOMAIN what : conditions[j]}}

\* The program may be ended by any of these, or go on as if nothing was.
After(new, pc) ==
  /\ faults' = faults \cup new
  /\ \/ pePc' = pc
     \/ new # {} /\ pePc' = "killed"

-------------------------------------------------------------------------------

Init ==
  /\ cmd \in PeFileSets
  /\ fileNo = 1
  /\ pePc = "file"
  /\ g_pCOFFHeader = 0 /\ g_pCVHeader = 0 /\ PszLongnames = 0
  /\ g_pCOFFSymbolTable = "none"
  /\ at = 0 /\ links = 0
  /\ vExports = <<>>
  /\ told = [i \in DOMAIN cmd.files |-> <<>>]
  /\ faults = {}

DebugHeader_First(f) ==
  IF g_pCOFFHeader # 0 THEN g_pCOFFHeader ELSE IF f.coff THEN fileNo ELSE 0

\* DumpDebugDirectory: the entries give the two headers.
DebugHeader(f) == IF f.coff THEN fileNo ELSE g_pCOFFHeader
CodeView(f) == IF f.cv THEN fileNo ELSE g_pCVHeader

\* DumpExeFile. The header is forgotten when the file has no symbols; with a header, also
\* with one of an earlier file, a table is made of this file's symbols. Whatever table there
\* is is deleted at the end, and the pointer kept.
DumpExeFile ==
  /\ pePc = "file" /\ fileNo <= Len(cmd.files)
  /\ Current.kind = "exe"
  /\ LET header == IF Current.symbols THEN DebugHeader(Current) ELSE 0
         table == IF header # 0 THEN "live" ELSE g_pCOFFSymbolTable
         listed == Current.symbols /\ table # "none"
     IN  /\ g_pCOFFHeader' = header
         /\ g_pCVHeader' = CodeView(Current)
         /\ g_pCOFFSymbolTable' = IF table = "none" THEN "none" ELSE "deleted"
         /\ Tell(Parts(<<"codeview", "coff", "symbols">>,
                       <<cmd.symtab /\ CodeView(Current) # 0, cmd.symtab /\ header # 0, listed>>))
         /\ After(Faulty(<<"codeview", "coff", "table", "delete">>,
                         <<cmd.symtab /\ Stale(CodeView(Current)), cmd.symtab /\ Stale(header),
                           listed /\ table = "deleted", table = "deleted">>), "file")
  /\ fileNo' = fileNo + 1
  /\ UNCHANGED <<cmd, PszLongnames, at, links, vExports>>

\* DumpDbgFile: the table is made of what the header says, if there is any.
DumpDbgFile ==
  /\ pePc = "file" /\ fileNo <= Len(cmd.files)
  /\ Current.kind = "dbg"
  /\ LET header == DebugHeader(Current)
     IN  /\ g_pCOFFHeader' = header
         /\ g_pCOFFSymbolTable' = IF header = 0 THEN g_pCOFFSymbolTable ELSE "deleted"
         /\ Tell(Parts(<<"coff", "symbols">>, <<header # 0, header # 0>>))
         /\ After(Faulty(<<"coff">>, <<Stale(header)>>), "file")
  /\ g_pCVHeader' = CodeView(Current)
  /\ fileNo' = fileNo + 1
  /\ UNCHANGED <<cmd, PszLongnames, at, links, vExports>>

\* DumpObjFile: a table for an object with symbols, and always a delete, but for an object
\* of an import library (its number of sections is 0xffff) when relocations are shown.
Skips(obj) == cmd.relocs /\ obj.import
DumpObjFile(obj, heading, headFaults, pc) ==
  IF Skips(obj)
  THEN /\ Tell(heading)
       /\ After(headFaults, pc)
       /\ UNCHANGED g_pCOFFSymbolTable
  ELSE LET table == IF obj.symbols THEN "live" ELSE g_pCOFFSymbolTable
       IN  /\ Tell(heading \o Parts(<<"symbols">>, <<obj.symbols>>))
           /\ g_pCOFFSymbolTable' = IF table = "none" THEN "none" ELSE "deleted"
           /\ After(headFaults \cup Faulty(<<"delete">>, <<table = "deleted">>), pc)

DumpObject ==
  /\ pePc = "file" /\ fileNo <= Len(cmd.files)
  /\ Current.kind = "obj"
  /\ DumpObjFile(Current, Part("object"), {}, "file")
  /\ fileNo' = fileNo + 1
  /\ UNCHANGED <<cmd, g_pCOFFHeader, g_pCVHeader, PszLongnames, at, links, vExports>>

-------------------------------------------------------------------------------
(* A library: members by offset *)

\* DumpLibFile: the first header stands behind the signature, and its end is not looked at.
DumpLibFile ==
  /\ pePc = "file" /\ fileNo <= Len(cmd.files)
  /\ Current.kind = "lib"
  /\ at' = 0 /\ links' = 0
  /\ pePc' = "member"
  /\ UNCHANGED <<cmd, fileNo, globals, vExports, told, faults>>

Member == Current.members[at]

\* DisplayArchiveMemberHeader: a name, or what stands at an offset in the long names; nothing
\* when only exports are wanted. The long names may be those of another library.
LooksUp == Member.name = "long" /\ ~cmd.exportsOnly
Heading ==
  <<[what |-> "member", at |-> at,
     name |-> CASE cmd.exportsOnly -> "not shown"
                [] LooksUp /\ PszLongnames = 0 -> "no long names"
                [] LooksUp /\ Stale(PszLongnames) -> "a name of another"
                [] OTHER -> Member.name]>>
HeadFaults == Faulty(<<"long names">>, <<LooksUp /\ Stale(PszLongnames)>>)

\* add_to_exports: a name is listed once.
add_to_exports(list, name) == IF Contains(list, name) THEN list ELSE Append(list, name)

\* The first linker member lists what is exported, and so does the second, unless nothing
\* but exports is wanted. Another one is passed over.
LinkerMember ==
  /\ pePc = "member" /\ Member.name = "/"
  /\ links' = IF links < 2 THEN links + 1 ELSE links
  /\ vExports' = IF links = 0 \/ (links = 1 /\ ~cmd.exportsOnly)
                 THEN FoldLeft(add_to_exports, vExports, Member.exports) ELSE vExports
  /\ Tell(Heading)
  /\ pePc' = "next"
  /\ UNCHANGED <<cmd, fileNo, globals, at, faults>>

LongnamesMember ==
  /\ pePc = "member" /\ Member.name = "//"
  /\ PszLongnames' = fileNo
  /\ Tell(Heading)
  /\ pePc' = "next"
  /\ UNCHANGED <<cmd, fileNo, g_pCOFFHeader, g_pCVHeader, g_pCOFFSymbolTable, at, links, vExports,
                 faults>>

ObjectMember ==
  /\ pePc = "member" /\ Member.name \notin {"/", "//"}
  /\ DumpObjFile(Member, Heading, HeadFaults, "next")
  /\ UNCHANGED <<cmd, fileNo, g_pCOFFHeader, g_pCVHeader, PszLongnames, at, links, vExports>>

PastMember_NoPadding == at + HeaderCells + Member.size \div 2

\* The next header: behind the contents, at an even offset.
PastMember == at + HeaderCells + (Member.size + 1) \div 2

\* It has to end as a header does.
NextMember ==
  /\ pePc = "next"
  /\ LET past == PastMember
     IN  IF past \in DOMAIN Current.members
         THEN /\ at' = past
              /\ pePc' = "member"
              /\ UNCHANGED <<fileNo, vExports, told>>
         ELSE /\ Tell(<<[what |-> "exports", list |-> vExports]>>)   \* show_export_list
              /\ vExports' = <<>>
              /\ fileNo' = fileNo + 1
              /\ pePc' = "file"
              /\ UNCHANGED at
  /\ UNCHANGED <<cmd, globals, links, faults>>

Next ==
  \/ DumpExeFile \/ DumpDbgFile \/ DumpObject \/ DumpLibFile
  \/ LinkerMember \/ LongnamesMember \/ ObjectMember \/ NextMember

Spec == Init /\ [][Next]_peFiVars /\ WF_peFiVars(Next)

-------------------------------------------------------------------------------
(* Properties *)

\* Every variable has its type.
TypeOK ==
  /\ fileNo \in 1..(Len(cmd.files) + 1)
  /\ pePc \in {"file", "member", "next", "killed"}
  /\ {g_pCOFFHeader, g_pCVHeader, PszLongnames} \subseteq 0..fileNo
  /\ g_pCOFFSymbolTable \in {"none", "live", "deleted"}
  /\ pePc \in {"member", "next"} => at \in DOMAIN Current.members
  /\ links \in 0..2
  /\ faults \subseteq
       ((DOMAIN cmd.files) \X {"codeview", "coff", "table", "delete", "long names"})

Ended == pePc = "killed" \/ (pePc = "file" /\ fileNo > Len(cmd.files))

Done == {j \in DOMAIN cmd.files : j < fileNo}
Kind(j) == cmd.files[j].kind
\* The members of a library dealt with, in order.
Visited(j) == SelectSeq(told[j], LAMBDA part : part.what = "member")
Offsets(j) == {Visited(j)[i].at : i \in DOMAIN Visited(j)}

\* In a library written without a gap, each header behind the contents before it at an even
\* offset, every member is shown once and in order; its name is shown, where the library has
\* its long names before a member that is named by one; and what is exported is listed once,
\* of this library alone.
Tidy(m) ==
  \A o \in DOMAIN m : o = 0 \/ \E p \in DOMAIN m : o = p + HeaderCells + (m[p].size + 1) \div 2
HasLongNames(j, o) ==
  \E p \in Offsets(j) : p < o /\ cmd.files[j].members[p].name = "//"
LongNamed(j) == {o \in Offsets(j) : cmd.files[j].members[o].name = "long"}
LibraryListed ==
  \A j \in Done :
    (Kind(j) = "lib" /\ pePc # "killed") =>
      LET m == cmd.files[j].members
          v == Visited(j)
          linkers == SelectSeq(v, LAMBDA part : m[part.at].name = "/")
          first == IF cmd.exportsOnly THEN 1 ELSE 2
          exported == FlattenSeq([i \in 1..(IF Len(linkers) < first THEN Len(linkers) ELSE first) |->
                                    m[linkers[i].at].exports])
      IN  /\ Tidy(m) => Offsets(j) = DOMAIN m
          /\ \A i \in DOMAIN v :
               (v[i].at \in LongNamed(j) => HasLongNames(j, v[i].at)) =>
                 v[i].name = IF cmd.exportsOnly THEN "not shown" ELSE m[v[i].at].name
          /\ \A i, k \in DOMAIN v : i < k => v[i].at < v[k].at
          /\ Last(told[j]).what = "exports"
          /\ LET list == Last(told[j]).list
             IN  IsInjective(list) /\ ToSet(list) = ToSet(exported)

\* The objects of a file, and those of them a table of symbols is made for.
Objects(j) ==
  CASE Kind(j) = "obj" -> {cmd.files[j]}
    [] Kind(j) = "lib" ->
         LET m == cmd.files[j].members
         IN  {m[o] : o \in {p \in Offsets(j) : m[p].name \notin {"/", "//"}}}
    [] OTHER -> {}
Tabled(j) == {obj \in Objects(j) : obj.symbols /\ ~Skips(obj)}

\* What a file has itself to be shown, and whether it leaves anything to the files behind it.
Own(j) ==
  LET f == cmd.files[j]
  IN  CASE f.kind = "exe" ->
             {what \in {"codeview", "coff", "symbols"} :
                CASE what = "codeview" -> cmd.symtab /\ f.cv
                  [] what = "coff" -> cmd.symtab /\ f.coff /\ f.symbols
                  [] OTHER -> f.coff /\ f.symbols}
        [] f.kind = "dbg" -> IF f.coff THEN {"coff", "symbols"} ELSE {}
        [] OTHER -> {"object"} \cup (IF Tabled(j) # {} THEN {"symbols"} ELSE {})
LeavesNothing(j) ==
  CASE Kind(j) \in {"exe", "dbg"} -> ~cmd.files[j].coff /\ ~cmd.files[j].cv
    [] OTHER -> Tabled(j) = {}

\* What a file has itself is always shown, whatever was shown before it: its own header is
\* read and no earlier one, the table made of its own symbols is listed and deleted once, and
\* its members are named by the long names of its own library. Behind files that leave
\* nothing nothing else is shown either. Of a file that has none itself behind one that has,
\* nothing is said: what is read or deleted then is gone.
OwnUsed ==
  \A j \in Done :
    LET f == cmd.files[j]
        shown == {told[j][i].what : i \in DOMAIN told[j]}
        faulty == {fault[2] : fault \in {g \in faults : g[1] = j}}
        untouched == \A k \in 1..(j - 1) : LeavesNothing(k)
    IN  /\ Kind(j) # "lib" => Own(j) \subseteq shown /\ (untouched => shown = Own(j) /\ faulty = {})
        /\ Kind(j) \in {"exe", "dbg"} =>
             /\ f.cv => "codeview" \notin faulty
             /\ f.coff => {"coff", "table"} \cap faulty = {}
        /\ (IF Kind(j) = "exe" THEN f.coff /\ f.symbols ELSE Objects(j) = Tabled(j)) =>
             "delete" \notin faulty
        /\ (\A o \in LongNamed(j) : HasLongNames(j, o)) => "long names" \notin faulty
===============================================================================

------------------------------- MODULE TarWalk --------------------------------
(***************************************************************************)
(* The reader of TAR archives: IsTARFile of src/src/DumpTar.c, DumpTAR of  *)
(* DumpTar4.c, and what is left of GNU tar in DumpTar2.c, DumpTarSp.c and  *)
(* DumpTarX.c, with its buffer reduced to the mapped file. A block is what *)
(* its first fields make it; the contents of names and of extended headers *)
(* are left out, but for whether they name the member they stand before.   *)
(***************************************************************************)
EXTENDS Integers, Sequences

CONSTANT Archives   \* the files: sequences of blocks

\* Headers have a size, in blocks. "ustar" is a header of a file with the magic whose
\* checksum is wrong, and "nameless" one whose name is empty, too; "blank" is data whose
\* name field is empty, "data" any other block that is no header. An extension of a sparse
\* map has more = TRUE when another one follows it.
Member == {"reg", "dir", "link", "sparse"}
Named == {"long", "ext"}
Broken == {"ustar", "nameless"}
Block == [type : Member \cup Named \cup Broken, size : Nat, more : BOOLEAN]
           \cup [type : {"zero", "blank", "data"}, more : BOOLEAN]

VARIABLES
  arch,       \* the file
  whole,      \* its size is a multiple of BLOCKSIZE
  behind,     \* reading behind it: "zero", or "fault" where the mapping ends
  tarPc,
  count,      \* the block IsTARFile looks at
  current_block, current_header, status, blocks,
  lone,       \* the header is read behind a block of zeros
  left,       \* blocks of a long name still to be copied
  named,      \* what the next member is named by: "own", "long" or "ext"
  members,    \* history: the members printed, [at, by]
  rest        \* history: the blocks behind the last header that were looked at

tarVars == <<arch, whole, behind, tarPc, count, current_block, current_header,
             status, blocks, lone, left, named, members, rest>>
input == <<arch, whole, behind>>

-------------------------------------------------------------------------------

N == Len(arch)
WholeBlocks == IF whole THEN N ELSE N - 1

\* Set_Start_and_End: the block behind the file when its size is a multiple of a
\* block, and the last one of the file when not.
record_end == WholeBlocks + 1
At(b) == IF b <= N THEN arch[b].type ELSE behind

\* set_next_block_after, where the program may be ended by abort().
MoveTo(b, then) ==
  IF b > record_end THEN tarPc' = "aborted" /\ UNCHANGED current_block
                    ELSE tarPc' = then /\ current_block' = b

\* The next turn of the loop of DumpTAR, or what follows it.
Following == IF blocks > 0 THEN "turn" ELSE "after"

-------------------------------------------------------------------------------
(* IsTARFile: one header *)

\* The first block must be a good header, or have the magic; the others are not tested. The
\* block that ends the headers has no name; another one must stand behind it.
Begins == At(1) \in Member \cup Named \cup Broken
Verdict == IF count + 1 <= WholeBlocks THEN "turn" ELSE "declined"
Skipped == IF At(count) \in {"reg", "ustar"} THEN arch[count].size ELSE 0
PastHeader == count + Skipped + 1
Check ==
  /\ tarPc = "check"
  /\ UNCHANGED <<input, current_block, current_header, status, blocks, lone, left,
                 named, members, rest>>
  /\ IF count > WholeBlocks \/ (count = 1 /\ ~Begins)
     THEN tarPc' = "declined" /\ UNCHANGED count
     ELSE IF At(count) \in {"zero", "blank", "nameless"}
     THEN tarPc' = Verdict /\ UNCHANGED count
     ELSE IF count + Skipped > WholeBlocks
     THEN tarPc' = "declined" /\ UNCHANGED count
     ELSE count' = PastHeader /\ UNCHANGED tarPc

-------------------------------------------------------------------------------
(* DumpTAR *)

Turn ==
  /\ tarPc = "turn"
  /\ blocks' = blocks - 1 /\ named' = "own" /\ lone' = FALSE
  /\ tarPc' = "read"
  /\ UNCHANGED <<input, count, current_block, current_header, status, left, members, rest>>

\* read_header_primitive, one turn of its loop: the header is the next block.
Reading == tarPc = "read"
Header(types) ==
  /\ Reading /\ At(current_block) \in types
  /\ current_header' = current_block
  /\ UNCHANGED <<input, count, blocks, lone, members, rest>>

ReadFault ==
  /\ Reading /\ At(current_block) = "fault"
  /\ tarPc' = "killed"
  /\ UNCHANGED <<input, count, current_block, current_header, status, blocks, lone,
                 left, named, members, rest>>

\* tar_checksum fails, or finds nothing but zeros; or the header is that of a member.
ReadOther ==
  /\ Header(Member \cup Broken \cup {"zero", "blank", "data"})
  /\ status' = CASE At(current_block) \in Member -> "success"
                 [] At(current_block) = "zero" -> "zero"
                 [] OTHER -> "failure"
  /\ tarPc' = "switch"
  /\ UNCHANGED <<current_block, left, named>>

\* A long name is copied, up to record_end at the most.
ReadLong ==
  /\ Header({"long"})
  /\ MoveTo(current_block + 1, "copy")
  /\ left' = arch[current_block].size
  /\ named' = IF named = "own" THEN "long" ELSE named
  /\ UNCHANGED status

Lesser(a, b) == IF a < b THEN a ELSE b
CopyLong ==
  /\ tarPc = "copy"
  /\ IF left = 0 THEN tarPc' = "read" /\ UNCHANGED <<current_block, left>>
     ELSE LET written == Lesser(left, record_end - current_block)
          IN  /\ current_block' = current_block + written
              /\ left' = left - written
              /\ UNCHANGED tarPc
  /\ UNCHANGED <<input, count, current_header, status, blocks, lone, named, members, rest>>

\* xheader_read takes the header with the blocks behind it.
BehindExtended_SizeOnly(b) == b + arch[b].size
BehindExtended(b) == b + 1 + arch[b].size
ReadExtended ==
  /\ Header({"ext"})
  /\ MoveTo(BehindExtended(current_block), "read")
  /\ named' = "ext"
  /\ UNCHANGED <<status, left>>

\* The extensions of the map of a sparse member: the first block that says no other
\* one follows it ends them, or record_end.
PastMap(b) ==
  LET p[k \in b..(record_end + 1)] ==
        IF k >= record_end THEN record_end + 1
        ELSE IF arch[k].more THEN p[k + 1] ELSE k + 1
  IN  p[b]
\* skip_member: the blocks of the member, whose size a link and a directory lack.
PastMember_Dir(b) ==
  CASE arch[b].type = "link" -> b + 1
    [] arch[b].type = "sparse" /\ arch[b].more -> PastMap(b + 1) + arch[b].size
    [] OTHER -> b + 1 + arch[b].size
PastMember(b) ==
  CASE arch[b].type \in {"link", "dir"} -> b + 1
    [] arch[b].type = "sparse" /\ arch[b].more -> PastMap(b + 1) + arch[b].size
    [] OTHER -> b + 1 + arch[b].size

\* list_archive prints the member and skips it.
ListMember ==
  /\ tarPc = "switch" /\ ~lone /\ status = "success"
  /\ members' = Append(members, [at |-> current_header, by |-> named])
  /\ MoveTo(PastMember(current_header), Following)
  /\ UNCHANGED <<input, count, current_header, status, blocks, lone, left, named, rest>>

\* Behind a block of zeros another header is read, and the loop is left whatever
\* it is.
ZeroBlock ==
  /\ tarPc = "switch" /\ ~lone /\ status = "zero"
  /\ MoveTo(current_header + 1, "read")
  /\ lone' = TRUE
  /\ UNCHANGED <<input, count, current_header, status, blocks, left, named, members, rest>>

SecondHeader ==
  /\ tarPc = "switch" /\ lone
  /\ tarPc' = "after"
  /\ UNCHANGED <<input, count, current_block, current_header, status, blocks, lone, left,
                 named, members, rest>>

SkipBad ==
  /\ tarPc = "switch" /\ ~lone /\ status = "failure"
  /\ MoveTo(current_header + 1, Following)
  /\ UNCHANGED <<input, count, current_header, status, blocks, lone, left, named,
                 members, rest>>

\* What stands behind the last header is looked at block by block.
Greater(a, b) == IF a > b THEN a ELSE b
After ==
  /\ tarPc = "after"
  /\ MoveTo(Greater(current_block, current_header + 1), "rest")
  /\ current_header' = IF tarPc' = "rest" THEN current_block' ELSE current_header
  /\ UNCHANGED <<input, count, status, blocks, lone, left, named, members, rest>>

Rest ==
  /\ tarPc = "rest"
  /\ IF current_header < record_end
     THEN /\ rest' = Append(rest, current_header)
          /\ MoveTo(current_header + 1, "rest")
          /\ current_header' = current_header + 1
     ELSE tarPc' = "done" /\ UNCHANGED <<rest, current_block, current_header>>
  /\ UNCHANGED <<input, count, status, blocks, lone, left, named, members>>

-------------------------------------------------------------------------------

Init ==
  /\ arch \in Archives /\ whole \in BOOLEAN
  /\ behind \in (IF whole THEN {"zero", "fault"} ELSE {"zero"})
  /\ tarPc = "check" /\ count = 1
  /\ current_block = 1 /\ current_header = 1 /\ status = "unread" /\ blocks = N
  /\ lone = FALSE /\ left = 0 /\ named = "own" /\ members = <<>> /\ rest = <<>>

Next ==
  \/ Check \/ Turn \/ ReadFault \/ ReadOther \/ ReadLong \/ CopyLong \/ ReadExtended
  \/ ListMember \/ ZeroBlock \/ SecondHeader \/ SkipBad \/ After \/ Rest

Spec == Init /\ [][Next]_tarVars /\ WF_tarVars(Next)

-------------------------------------------------------------------------------
(* Properties *)

TypeOK ==
  /\ arch \in Seq(Block) /\ whole \in BOOLEAN /\ behind \in {"zero", "fault"}
  /\ tarPc \in {"check", "declined", "turn", "read", "copy", "switch", "after", "rest",
                "done", "killed", "aborted"}
  /\ count \in Nat \ {0} /\ blocks \in 0..N /\ left \in Nat
  /\ current_block \in 1..record_end /\ current_header \in 1..record_end
  /\ status \in {"unread", "success", "zero", "failure"}
  /\ lone \in BOOLEAN /\ named \in {"own", "long", "ext"}
  /\ members \in Seq([at : 1..N, by : {"own", "long", "ext"}])
  /\ rest \in Seq(1..N)

\* What a tar program would have written: member after member, each behind the long
\* name and the extended header that belong to it, and two blocks of zeros. Content
\* is the list of the members; one of them is Bad when this is no archive.
Bad == [at |-> 0, by |-> "bad"]
MapBlocks(b) == IF arch[b].more
                THEN CHOOSE k \in 1..(N + 1) :
                       /\ b + k > N \/ ~arch[b + k].more
                       /\ \A j \in 1..(k - 1) : b + j <= N /\ arch[b + j].more
                ELSE 0
Contents(b) == CASE At(b) \in {"reg"} \cup Named -> arch[b].size
                 [] At(b) = "sparse" -> MapBlocks(b) + arch[b].size
                 [] OTHER -> 0
Content ==
  LET c[b \in 1..(N + 1), by \in {"own", "long", "ext"}] ==
        LET Then(name) == IF b + 1 + Contents(b) > N THEN <<Bad>>
                          ELSE c[b + 1 + Contents(b), name]
        IN  CASE At(b) = "long" -> Then(IF by = "ext" THEN "ext" ELSE "long")
              [] At(b) = "ext" -> Then("ext")
              [] At(b) \in Member -> <<[at |-> b, by |-> by]>> \o Then("own")
              [] At(b) = "zero" /\ b < N /\ At(b + 1) = "zero" /\ by = "own" -> <<>>
              [] OTHER -> <<Bad>>
  IN  c[1, "own"]
WellFormed == whole /\ Content # <<>> /\ \A k \in DOMAIN Content : Content[k] # Bad

Last == LET m == members[Len(members)].at IN m + 1 + Contents(m)

\* An archive as tar writes it is listed member by member, each under its own name or
\* the one that stands before it, and what is behind its end is looked at once, up to
\* the end of the file.
MembersListed ==
  (WellFormed /\ tarPc \notin {"check", "declined"}) =>
    /\ tarPc \notin {"killed", "aborted"}
    /\ \E k \in 0..Len(Content) : members = SubSeq(Content, 1, k)
    /\ tarPc = "done" => /\ members = Content
                         /\ rest = [k \in 1..(N - Last - 1) |-> Last + 1 + k]

\* The block behind the file is only read as a header, and where no two blocks of
\* zeros ended the archive.
ReadsBehindOnlyUnended ==
  (current_header > N /\ tarPc \notin {"rest", "done"}) => ~WellFormed

\* The listing comes to an end unless a long name is longer than the archive: then
\* nothing is left to be copied, and the copying goes on for ever.
NameRunsOver == tarPc = "copy" /\ left > 0 /\ current_block = record_end
Ended == tarPc \in {"declined", "done", "killed", "aborted"}
===============================================================================

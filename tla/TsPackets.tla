------------------------------ MODULE TsPackets -------------------------------
(***************************************************************************)
(* Transport streams: DumpM2TS of src/src/DumpM2TS.c for one file after    *)
(* the other. What it counts is kept in static variables from file to      *)
(* file. A packet is whether it begins with the sync byte, whether a       *)
(* payload is found in it, whether it holds nothing but 0xFF, and its PID. *)
(***************************************************************************)
EXTENDS Integers, Sequences, FiniteSets

CONSTANTS
  Streams,     \* sequences of files: [packets, rest], where rest says that some bytes,
               \* but no packet, are left behind the last packet
  AlignedUnit  \* 32 in the code: packets to a unit

VARIABLES
  files, fileNo,
  tsPc,
  ptp,         \* the packet looked at
  cnt,         \* packets of the current unit
  aligned_units, pidlist,
  pads,        \* packets of padding in this file
  told,        \* history: the packets printed, [file, packet]
  left         \* history: those left out as padding up to the end

tsVars == <<files, fileNo, tsPc, ptp, cnt, aligned_units, pidlist, pads, told, left>>

-------------------------------------------------------------------------------

File == files[fileNo]
Packets == Len(File.packets)
Packet == File.packets[ptp]
More == ptp <= Packets

NextFile == IF fileNo < Len(files) THEN "look" ELSE "done"
Leave ==
  /\ tsPc' = NextFile
  /\ fileNo' = IF fileNo < Len(files) THEN fileNo + 1 ELSE fileNo
  /\ ptp' = 1 /\ cnt' = 0 /\ pads' = 0

\* LooksLikeM2TS: full units of packets are asked for, and counted on the way.
Refused == IF More THEN ~Packet.sync ELSE File.rest \/ cnt > 0
Refuse ==
  /\ tsPc = "look" /\ Refused
  /\ Leave
  /\ UNCHANGED <<files, aligned_units, pidlist, told, left>>

Look ==
  /\ tsPc = "look" /\ ~Refused /\ More
  /\ ptp' = ptp + 1
  /\ cnt' = (cnt + 1) % AlignedUnit
  /\ aligned_units' = IF cnt' = 0 THEN aligned_units + 1 ELSE aligned_units
  /\ UNCHANGED <<files, fileNo, tsPc, pidlist, pads, told, left>>

Accept ==
  /\ tsPc = "look" /\ ~Refused /\ ~More
  /\ tsPc' = IF Packets = 0 THEN NextFile ELSE "show"
  /\ fileNo' = IF tsPc' = "look" THEN fileNo + 1 ELSE fileNo
  /\ ptp' = 1
  /\ UNCHANGED <<files, cnt, aligned_units, pidlist, pads, told, left>>

\* add_to_pid_list
Added_AnyLevel(list, pid, level) ==
  IF \E i \in DOMAIN list : list[i].pid = pid
  THEN [i \in DOMAIN list |-> IF list[i].pid = pid
                              THEN [list[i] EXCEPT !.cnt = @ + 1] ELSE list[i]]
  ELSE Append(list, [pid |-> pid, level |-> level, cnt |-> 1])
Added(list, pid, level) ==
  IF \E i \in DOMAIN list : list[i].pid = pid /\ list[i].level = level
  THEN [i \in DOMAIN list |-> IF list[i].pid = pid /\ list[i].level = level
                              THEN [list[i] EXCEPT !.cnt = @ + 1] ELSE list[i]]
  ELSE Append(list, [pid |-> pid, level |-> level, cnt |-> 1])

\* is_pads_to_end is given the current packet and the bytes behind it, and so looks at
\* as many packets as are behind it, beginning with the current one.
PadsToEnd ==
  IF \A i \in ptp..(Packets - 1) : File.packets[i].pad THEN Packets - ptp ELSE 0

\* ProcessM2TS: one packet. One without a payload is counted on a second level, too.
Show ==
  /\ tsPc = "show" /\ More
  /\ LET once == Added(pidlist, Packet.pid, 0)
     IN  pidlist' = IF Packet.payload THEN once ELSE Added(once, Packet.pid, 1)
  /\ told' = Append(told, [file |-> fileNo, packet |-> ptp])
  /\ cnt' = (cnt + 1) % AlignedUnit
  /\ IF Packet.pad /\ PadsToEnd > 0
     THEN /\ pads' = pads + PadsToEnd
          /\ left' = left \cup {[file |-> fileNo, packet |-> p] : p \in (ptp + 1)..Packets}
          /\ ptp' = Packets + 1
     ELSE /\ pads' = IF Packet.pad THEN pads + 1 ELSE pads
          /\ ptp' = ptp + 1 /\ UNCHANGED left
  /\ UNCHANGED <<files, fileNo, tsPc, aligned_units>>

\* The totals are printed.
Total ==
  /\ tsPc = "show" /\ ~More
  /\ Leave
  /\ UNCHANGED <<files, aligned_units, pidlist, told, left>>

-------------------------------------------------------------------------------

Init ==
  /\ files \in Streams
  /\ fileNo = 1 /\ tsPc = "look" /\ ptp = 1 /\ cnt = 0
  /\ aligned_units = 0 /\ pidlist = <<>> /\ pads = 0 /\ told = <<>> /\ left = {}

Next == Refuse \/ Look \/ Accept \/ Show \/ Total

Spec == Init /\ [][Next]_tsVars /\ WF_tsVars(Next)

-------------------------------------------------------------------------------
(* Properties *)

TypeOK ==
  /\ fileNo \in 1..Len(files) /\ tsPc \in {"look", "show", "done"}
  /\ ptp \in 1..(Packets + 1) /\ cnt \in 0..(AlignedUnit - 1)
  /\ aligned_units \in Nat /\ pads \in Nat
  /\ pidlist \in Seq([pid : Nat, level : {0, 1}, cnt : Nat \ {0}])

PacketAt(t) == files[t.file].packets[t.packet]

\* Each PID is listed once, with the packets printed that have it, of all files so far;
\* the second level counts those of them that have no payload.
With(pid, level) == {k \in DOMAIN told : /\ PacketAt(told[k]).pid = pid
                                         /\ level = 1 => ~PacketAt(told[k]).payload}
PidsCounted ==
  /\ \A i, j \in DOMAIN pidlist :
       i # j => <<pidlist[i].pid, pidlist[i].level>> # <<pidlist[j].pid, pidlist[j].level>>
  /\ \A i \in DOMAIN pidlist :
       pidlist[i].cnt = Cardinality(With(pidlist[i].pid, pidlist[i].level))
  /\ \A k \in DOMAIN told, level \in {0, 1} :
       With(PacketAt(told[k]).pid, level) # {} =>
         \E i \in DOMAIN pidlist :
           pidlist[i].pid = PacketAt(told[k]).pid /\ pidlist[i].level = level

\* In a file that is accepted every packet is printed, in order, or is behind a packet of
\* padding; and only files of full units, all with their sync byte, are.
Accepted(f) == /\ \A p \in DOMAIN f.packets : f.packets[p].sync
               /\ ~f.rest /\ Len(f.packets) % AlignedUnit = 0
ToldOf(n) == {k \in DOMAIN told : told[k].file = n}
LeftOf(n) == {t \in left : t.file = n}
PacketsShown ==
  \A n \in 1..Len(files) :
    /\ \A k \in ToldOf(n) : told[k].packet = Cardinality({j \in ToldOf(n) : j <= k})
    /\ ToldOf(n) # {} => Accepted(files[n])
    /\ (n < fileNo \/ tsPc = "done") /\ Accepted(files[n]) =>
         Cardinality(ToldOf(n)) + Cardinality(LeftOf(n)) = Len(files[n].packets)

\* The number of units printed with the last file is that of the full units all with their
\* sync bytes at its begin, when no file before it began with one. What is printed behind
\* files that did is not said: the number is never set back.
Synced(f) == LET upTo == {n \in 0..Len(f.packets) : \A p \in 1..n : f.packets[p].sync}
             IN  CHOOSE n \in upTo : \A m \in upTo : m <= n
UnitsOf(f) == Synced(f) \div AlignedUnit
UnitsCounted ==
  (tsPc = "done" /\ \A n \in 1..(Len(files) - 1) : UnitsOf(files[n]) = 0) =>
    aligned_units = UnitsOf(files[Len(files)])

\* Packets are printed once and counted by PID, and the units of a file are counted.
StreamsCounted == PidsCounted /\ PacketsShown /\ UnitsCounted

Ended == tsPc = "done"
===============================================================================

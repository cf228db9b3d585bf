-------------------------------- MODULE Readers ---------------------------------
(***************************************************************************)
(* Readers of other formats, side by side: GifWalk, TsPackets, WavWalk and *)
(* VosTab. A file is given to one of them; they share nothing but that     *)
(* file, and so they share these variables, too: each has as many of them  *)
(* as it has of its own.                                                   *)
(***************************************************************************)
EXTENDS Integers, Sequences

CONSTANTS
  Gifs, DescriptorSize, ColourMapSize, GifBits,   \* of GifWalk
  Streams, AlignedUnit,                           \* of TsPackets
  Waves, Width, Known,                            \* of WavWalk
  Tables                                          \* of VosTab

\* The bytes of a picture, and the sizes of what stands in it.
GifTypes ==
  /\ DescriptorSize \in Nat /\ ColourMapSize \in Nat /\ GifBits \in Nat
  /\ Gifs \subseteq Seq(Nat)
ASSUME GifsAssumption == GifTypes

\* The files and the packets of a command; every command names at least one file.
StreamPacket == [sync : BOOLEAN, payload : BOOLEAN, pad : BOOLEAN, pid : Nat]
StreamFile == [packets : Seq(StreamPacket), rest : BOOLEAN]
StreamTypes ==
  /\ AlignedUnit \in Nat \ {0}
  /\ Streams \subseteq Seq(StreamFile) \ {<<>>}
ASSUME StreamsAssumption == StreamTypes

\* The size of a chunk is a DWORD, and "none" is no name.
WaveFile == [ok : BOOLEAN, extra : Nat, cells : Seq([id : STRING, size : 0..(Width - 1)])]
WaveTypes ==
  /\ Width \in Nat \ {0} /\ "data" \in Known /\ "none" \notin Known
  /\ Waves \subseteq WaveFile
ASSUME WavesAssumption == WaveTypes

TableTypes == Tables \subseteq Seq({"cr", "lf", "x"})
ASSUME TablesAssumption == TableTypes

VARIABLES which, s1, s2, s3, s4, s5, s6, s7, s8, s9, s10

Gif ==
  INSTANCE GifWalk WITH
    MAX_LZW_BITS <- GifBits, gif <- s1, gifPc <- s2, ddOff <- s3, glen <- s4, dwoff <- s5,
    icnt <- s6, shown <- s7

Ts ==
  INSTANCE TsPackets WITH
    files <- s1, fileNo <- s2, tsPc <- s3, ptp <- s4, cnt <- s5, aligned_units <- s6,
    pidlist <- s7, pads <- s8, told <- s9, left <- s10

Wav ==
  INSTANCE WavWalk WITH
    wave <- s1, behind <- s2, wavPc <- s3, tmp <- s4, pwd <- s5, dumped <- s6, told <- s9

Vos ==
  INSTANCE VosTab WITH
    Files <- Tables, lpb <- s1, vosPc <- s2, dwi <- s3, v_sBlks <- s4, dwb <- s5,
    printed <- s6

-------------------------------------------------------------------------------

Init ==
  \/ which = "gif" /\ Gif!Init /\ s8 = 0 /\ s9 = 0 /\ s10 = 0
  \/ which = "ts" /\ Ts!Init
  \/ which = "wav" /\ Wav!Init /\ s7 = 0 /\ s8 = 0 /\ s10 = 0
  \/ which = "vos" /\ Vos!Init /\ s7 = 0 /\ s8 = 0 /\ s9 = 0 /\ s10 = 0

Next ==
  \/ which = "gif" /\ Gif!Next /\ UNCHANGED <<which, s8, s9, s10>>
  \/ which = "ts" /\ Ts!Next /\ UNCHANGED <<which>>
  \/ which = "wav" /\ Wav!Next /\ UNCHANGED <<which, s7, s8, s10>>
  \/ which = "vos" /\ Vos!Next /\ UNCHANGED <<which, s7, s8, s9, s10>>

readerVars == <<which, s1, s2, s3, s4, s5, s6, s7, s8, s9, s10>>

Spec == Init /\ [][Next]_readerVars /\ WF_readerVars(Next)

-------------------------------------------------------------------------------
(* Properties *)

\* A file that is a GIF is walked from block to block, every sub-block once and nothing
\* behind its end, and the two readers of an extension agree about where that ends.
GifsWalked ==
  /\ [](which = "gif" => Gif!BlocksAsWritten)
  /\ [][which = "gif" => Gif!ExtensionAgrees]_readerVars

\* The packets of transport streams are printed in order or behind padding, and counted by
\* PID and by units over all the files of a command.
StreamsCounted == which = "ts" => Ts!StreamsCounted

\* Sound files are shown from the data chunk on, and tables of fixed blocks with every size
\* of blocks that fits.
TablesShown ==
  /\ which = "wav" => Wav!DataShown
  /\ which = "vos" => Vos!StridesFound /\ Vos!MultiplesTold
===============================================================================

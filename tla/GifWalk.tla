------------------------------- MODULE GifWalk --------------------------------
(***************************************************************************)
(* The walk over the blocks of a GIF file: ProcessGIF and Gif_Count of     *)
(* src/src/DumpGif.c, from behind the colours of the header on, and        *)
(* DoExtensionExt2, which reads every extension a second time with an      *)
(* offset of its own. Colours, names and what the fields say are left out. *)
(***************************************************************************)
EXTENDS Integers, Sequences

CONSTANTS
  Gifs,             \* the files: sequences of bytes, behind header and colours
  DescriptorSize,   \* 9 in the code: the bytes behind the comma
  ColourMapSize,    \* of a local colour map
  MAX_LZW_BITS

VARIABLES
  gif,      \* the file
  gifPc,
  ddOff,    \* bytes gone through
  glen,     \* and those of the sub-blocks after it
  dwoff,    \* where the reader of extensions has got to; -1 after an error
  icnt,     \* images
  shown     \* history: the sub-blocks printed, [at, size]

gifVars == <<gif, gifPc, ddOff, glen, dwoff, icnt, shown>>

Separator == 44   \* ','
Introducer == 33  \* '!'
Terminator == 59  \* ';'

-------------------------------------------------------------------------------

N == Len(gif)
\* Nothing keeps Gif_Count from reading behind the file: there are zeros up to the end
\* of a page, and then nothing.
ByteAt(off) == IF off < N THEN gif[off + 1] ELSE 0
Fault(off) == off > N + 1

Fail == gifPc' = "declined"

\* ReadByte2 and ReadOK2 stop at the end of the file; the sub-blocks of an extension
\* are read until one is empty.
EndOfExtension(off) ==
  LET e[k \in 0..(N + 1)] ==
        IF k >= N THEN -1
        ELSE IF gif[k + 1] = 0 THEN k + 1
        ELSE IF k + 1 + gif[k + 1] > N THEN -1
        ELSE e[k + 1 + gif[k + 1]]
  IN  e[off]

Killed ==
  /\ gifPc \in {"marker", "sub", "data"} /\ Fault(ddOff + glen)
  /\ gifPc' = "killed"
  /\ UNCHANGED <<gif, ddOff, glen, dwoff, icnt, shown>>

\* One turn of the loop: the byte says what follows.
End ==
  /\ gifPc = "marker" /\ ByteAt(ddOff) = Terminator
  /\ gifPc' = IF icnt > 0 THEN "shown" ELSE "declined"
  /\ ddOff' = ddOff + 1
  /\ UNCHANGED <<gif, glen, dwoff, icnt, shown>>

Extension ==
  /\ gifPc = "marker" /\ ByteAt(ddOff) = Introducer
  /\ dwoff' = IF ddOff + 1 >= N THEN -1 ELSE EndOfExtension(ddOff + 2)
  /\ ddOff' = ddOff + 2 /\ glen' = 0
  /\ gifPc' = "sub"
  /\ UNCHANGED <<gif, icnt, shown>>

\* The last byte of the descriptor is odd when a colour map follows.
HasColours == ByteAt(ddOff + DescriptorSize) % 2 = 1
PastDescriptor_NoColours == ddOff + 1 + DescriptorSize
PastDescriptor == ddOff + 1 + DescriptorSize + (IF HasColours THEN ColourMapSize ELSE 0)
CodeSizeOK(size) == size >= 2 /\ size < MAX_LZW_BITS
Image ==
  /\ gifPc = "marker" /\ ByteAt(ddOff) = Separator
  /\ IF \/ ddOff + 1 + DescriptorSize > N \/ PastDescriptor > N
        \/ ~CodeSizeOK(ByteAt(PastDescriptor))
     THEN Fail /\ UNCHANGED <<ddOff, glen, icnt>>
     ELSE /\ ddOff' = PastDescriptor + 1 /\ glen' = 0
          /\ icnt' = icnt + 1
          /\ gifPc' = "data"
  /\ UNCHANGED <<gif, dwoff, shown>>

\* Any other byte is passed over.
Other ==
  /\ gifPc = "marker" /\ ~Fault(ddOff)
  /\ ByteAt(ddOff) \notin {Terminator, Introducer, Separator}
  /\ ddOff' = ddOff + 1
  /\ UNCHANGED <<gif, gifPc, glen, dwoff, icnt, shown>>

\* A sub-block is printed before it is known to lie in the file.
RunsOver(len) == ddOff + len > N
SubBlock ==
  /\ gifPc \in {"sub", "data"} /\ ByteAt(ddOff + glen) > 0
  /\ shown' = Append(shown, [at |-> ddOff + glen, size |-> ByteAt(ddOff + glen)])
  /\ glen' = glen + ByteAt(ddOff + glen) + 1
  /\ IF RunsOver(glen') THEN Fail ELSE UNCHANGED gifPc
  /\ UNCHANGED <<gif, ddOff, dwoff, icnt>>

LastSubBlock ==
  /\ gifPc \in {"sub", "data"} /\ ~Fault(ddOff + glen) /\ ByteAt(ddOff + glen) = 0
  /\ ddOff' = ddOff + glen + 1 /\ glen' = 0
  /\ IF ddOff' > N THEN Fail ELSE gifPc' = "marker"
  /\ UNCHANGED <<gif, dwoff, icnt, shown>>

-------------------------------------------------------------------------------

Init ==
  /\ gif \in Gifs
  /\ gifPc = "marker" /\ ddOff = 0 /\ glen = 0 /\ dwoff = 0 /\ icnt = 0
  /\ shown = <<>>

Next == Killed \/ End \/ Extension \/ Image \/ Other \/ SubBlock \/ LastSubBlock

Spec == Init /\ [][Next]_gifVars /\ WF_gifVars(Next)

-------------------------------------------------------------------------------
(* Properties *)

TypeOK ==
  /\ gif \in Seq(Nat) /\ gifPc \in {"marker", "sub", "data", "shown", "declined", "killed"}
  /\ ddOff \in Nat /\ glen \in Nat /\ dwoff \in Nat \cup {-1} /\ icnt \in Nat
  /\ shown \in Seq([at : Nat, size : Nat \ {0}])

\* What the format promises: extensions and images, each with sub-blocks up to an empty
\* one, then the terminator. What is written from an offset on, where a marker or a sub-block
\* is wanted, is a list of sub-blocks and a number of images, or "not one" when that is no
\* GIF.
NoGif == [subs |-> <<>>, images |-> -1]
Place == [off : 0..N, want : {"marker", "sub"}]
WrittenFrom[p \in Place] ==
  LET b == ByteAt(p.off)
      data == p.off + 1 + DescriptorSize + (ByteAt(p.off + DescriptorSize) % 2) * ColourMapSize
      Then(off, want, subs, n) ==
        LET w == WrittenFrom[[off |-> off, want |-> want]]
        IN  IF off >= N \/ w = NoGif THEN NoGif
            ELSE [subs |-> subs \o w.subs, images |-> n + w.images]
  IN  CASE p.want = "sub" /\ b = 0 -> Then(p.off + 1, "marker", <<>>, 0)
        [] p.want = "sub" /\ b # 0 ->
             Then(p.off + 1 + b, "sub", <<[at |-> p.off, size |-> b]>>, 0)
        [] p.want = "marker" /\ b = Terminator -> [subs |-> <<>>, images |-> 0]
        [] p.want = "marker" /\ b = Introducer -> Then(p.off + 2, "sub", <<>>, 0)
        [] p.want = "marker" /\ b = Separator /\ CodeSizeOK(ByteAt(data)) ->
             Then(data + 1, "sub", <<>>, 1)
        [] OTHER -> NoGif
Written == IF N = 0 THEN NoGif ELSE WrittenFrom[[off |-> 0, want |-> "marker"]]

\* A file that is a GIF is walked from block to block, every sub-block printed once and
\* no byte behind its end looked at; it is shown if it holds an image.
BlocksAsWritten ==
  LET w == Written
  IN  w # NoGif =>
        /\ gifPc # "killed" /\ ddOff + glen <= N
        /\ shown = SubSeq(w.subs, 1, Len(shown)) /\ icnt <= w.images
        /\ gifPc = "shown" => shown = w.subs /\ icnt = w.images
        /\ gifPc = "declined" => w.images = 0 /\ shown = w.subs

\* The two readers of an extension, each with its own offset, agree about where it ends,
\* unless it has no end in the file: then the file is declined.
ExtensionAgrees ==
  (gifPc = "sub" /\ gifPc' \notin {"sub", "killed"}) =>
    IF gifPc' = "marker" THEN dwoff = ddOff' ELSE dwoff = -1

\* The walk ends for every file, if only behind it.
Ended == gifPc \in {"shown", "declined", "killed"}
===============================================================================

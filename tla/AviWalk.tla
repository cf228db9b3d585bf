------------------------------- MODULE AviWalk --------------------------------
(***************************************************************************)
(* The reader of AVI files (DumpAVI.c, the build for Windows, with         *)
(* pointers of 64 bits): LooksLikeAVI walks over the chunks of the file by *)
(* their sizes, ProcessAVI goes into the lists by what stands in them. A   *)
(* file is what stands at offsets: an identifier, the number behind it,    *)
(* for a stream its kind, for a format the length that its fields give,    *)
(* and the entries of an index. Elsewhere it is zeros, and so is what is   *)
(* mapped behind its end, up to that of the page. It begins with RIFF.     *)
(***************************************************************************)
EXTENDS Integers, SequencesExt

CONSTANTS
  Avis,         \* files
  MainSize, StreamSize, WaveSize,   \* sizes of AVIMAINHEADER, AVISTREAMHEADER, WAVEFORMATEX
  ChunkIds      \* what is_known_fourcc, is_movi_fourcc and is_a_codec_4cc know

VARIABLES
  avi, aviPc,
  pchk, len, pmh, got_movi,   \* LooksLikeAVI: its chunk, what is left, what was seen
  p,                          \* plchk2 and pb of ProcessAVI
  stream_type,
  pmovi,                      \* not set: 0
  told,                       \* the offsets of the chunks told, a list when it is come to
  checked                     \* what was said of each entry of an index

aviVars == <<avi, aviPc, pchk, len, pmh, got_movi, p, stream_type, pmovi, told, checked>>

Fourcc == 4
ChunkHead == 8
ListHead == 12

pend == avi.size
At(q) ==
  IF q \in DOMAIN avi.at /\ q + Fourcc <= pend
  THEN [avi.at[q] EXCEPT !.n = IF q + Fourcc < pend THEN @ ELSE 0]
  ELSE [id |-> "", n |-> 0, kind |-> "other", format |-> 0, index |-> <<>>]
Id(q) == At(q).id
Type(q) == Id(q + ChunkHead)
Readable(q) == q + ChunkHead <= pend + avi.page
is_valid_chunk(q) == q + ChunkHead <= pend /\ Id(q) \in ChunkIds
Even(n) == n + (n % 2)

Past_Exact(q) == q + ChunkHead + At(q).n

\* Behind the chunk at q, at an even offset.
Past(q) == q + ChunkHead + Even(At(q).n)

-------------------------------------------------------------------------------

Init ==
  /\ avi \in Avis
  /\ aviPc = "look"
  /\ pchk = ListHead /\ len = avi.riff
  /\ pmh = FALSE /\ got_movi = FALSE
  /\ p = 0 /\ stream_type = "other" /\ pmovi = 0
  /\ told = <<>> /\ checked = <<>>

\* The walk goes on at a negative len, too: it is compared as an unsigned one.
Looking == aviPc = "look" /\ (len < 0 \/ len >= ChunkHead) /\ pchk + ChunkHead < pend

\* Of the header list only what stands in front of the first stream is passed over.
PastHeaders ==
  LET first == pchk + ListHead + MainSize
      size == first - (pchk + ChunkHead)
  IN  IF first + ChunkHead < pend /\ Id(first) = "LIST" /\ At(pchk).n > size THEN size ELSE At(pchk).n

\* The chunk behind the format of a stream, found with a few guesses, rules the size of its
\* list. Where the format and that chunk should be is read without a look at the end.
Stream == pchk + ListHead
Format == Stream + StreamSize
Guess ==
  LET size == At(Format).n
  IN  CASE is_valid_chunk(Format + ChunkHead + size) -> Format + ChunkHead + size
        [] is_valid_chunk(Format + size) -> Format + size
        [] OTHER -> Format + size + 2
HasStream == Type(pchk) = "strl" /\ Stream + ChunkHead < pend /\ Id(Stream) = "strh"
HasFormat == HasStream /\ Id(Format) = "strf"
PastStream ==
  IF HasFormat /\ Id(Guess) \in {"LIST", "JUNK"} THEN Guess - (pchk + ChunkHead) ELSE At(pchk).n
Unmapped == (HasStream /\ ~Readable(Format)) \/ (HasFormat /\ ~Readable(Guess))

\* When no chunk is found by the size of a list, but four bytes behind where its size ends
\* when it is counted from the head, that is taken.
Corrected(size) ==
  LET counted == pchk + size + 4
  IN  IF /\ ~\E q \in {pchk + ChunkHead + size, pchk + ListHead, pchk + size} : is_valid_chunk(q)
         /\ is_valid_chunk(counted)
      THEN counted - (pchk + ChunkHead) ELSE size

Step(size) ==
  /\ pchk' = pchk + ChunkHead + size
  /\ len' = len - ChunkHead - size

LookList ==
  /\ Looking /\ Id(pchk) = "LIST"
  /\ ~(Type(pchk) = "hdrl" /\ pmh) /\ ~Unmapped
  /\ pmh' = (pmh \/ Type(pchk) = "hdrl")
  /\ got_movi' = (got_movi \/ Type(pchk) = "movi")
  /\ Step(Corrected(CASE Type(pchk) = "hdrl" -> PastHeaders
                      [] Type(pchk) = "strl" -> PastStream
                      [] OTHER -> At(pchk).n))
  /\ UNCHANGED <<avi, aviPc, p, stream_type, pmovi, told, checked>>

LookTwice ==
  /\ Looking /\ Id(pchk) = "LIST"
  /\ \/ Type(pchk) = "hdrl" /\ pmh /\ aviPc' = "refused"
     \/ Unmapped /\ aviPc' = "killed"
  /\ UNCHANGED <<avi, pchk, len, pmh, got_movi, p, stream_type, pmovi, told, checked>>

LookChunk ==
  /\ Looking /\ Id(pchk) # "LIST"
  /\ Step(At(pchk).n)
  /\ UNCHANGED <<avi, aviPc, pmh, got_movi, p, stream_type, pmovi, told, checked>>

Decide ==
  /\ aviPc = "look" /\ ~Looking
  /\ aviPc' = IF pmh /\ got_movi THEN "outer" ELSE "refused"
  /\ p' = ListHead
  /\ UNCHANGED <<avi, pchk, len, pmh, got_movi, stream_type, pmovi, told, checked>>

-------------------------------------------------------------------------------
(* ProcessAVI *)

looked == <<pchk, len, pmh, got_movi>>

\* The chunk at q is read and told. One that is not mapped ends the program.
Tell(q, pc) ==
  IF Readable(q) THEN p' = q /\ told' = Append(told, q) /\ aviPc' = pc
  ELSE aviPc' = "killed" /\ UNCHANGED <<p, told>>

\* Whatever list is at hand, the first one of the file is asked for its type.
HeadersAtHand ==
  avi.riff > 0 /\ p + ChunkHead < pend /\ Id(p) = "LIST" /\ Type(ListHead) = "hdrl"

\* The list of headers: its first chunk, and the one behind it.
Headers ==
  /\ aviPc = "outer" /\ HeadersAtHand
  /\ LET first == 2 * ListHead
     IN  CASE Id(first) # "avih" -> p' = first /\ UNCHANGED <<told, aviPc>>
           [] Id(first) = "avih" /\ Readable(first + MainSize) ->
                /\ p' = first + MainSize
                /\ told' = <<ListHead, first, p'>>
                /\ aviPc' = "inner"
           [] OTHER -> aviPc' = "killed" /\ UNCHANGED <<p, told>>
  /\ UNCHANGED <<avi, looked, stream_type, pmovi, checked>>

\* Another list, another chunk, or the end.
Leave ==
  /\ aviPc = "outer" /\ ~HeadersAtHand
  /\ aviPc' = "done"
  /\ UNCHANGED <<avi, looked, p, stream_type, pmovi, told, checked>>

InList(type) == aviPc = "inner" /\ Id(p) = "LIST" /\ Type(p) = type

\* The first of the places where a chunk stands, or the last of them.
FirstValid(places) ==
  LET valid == SelectSeq(places, is_valid_chunk)
  IN  IF valid = <<>> THEN Last(places) ELSE valid[1]

StreamList ==
  /\ InList("strl")
  /\ Tell(p + ListHead, "strh")
  /\ UNCHANGED <<avi, looked, stream_type, pmovi, checked>>

StreamHeader ==
  /\ aviPc = "strh" /\ Id(p) = "strh"
  /\ stream_type' = At(p).kind
  /\ Tell(FirstValid(<<p + StreamSize, p + ChunkHead + At(p).n, p + StreamSize>>), "strf")
  /\ UNCHANGED <<avi, looked, pmovi, checked>>

\* The size of a picture's format is computed from its fields, that of a sound's is guessed.
StreamFormat ==
  /\ aviPc = "strf" /\ Id(p) = "strf" /\ stream_type # "other"
  /\ LET computed == p + ChunkHead + At(p).format
     IN  Tell(IF stream_type = "video" THEN computed
              ELSE FirstValid(<<computed, p + ChunkHead + At(p).n, p + ChunkHead + WaveSize,
                                computed>>), "strn")
  /\ UNCHANGED <<avi, looked, stream_type, pmovi, checked>>

\* What may follow a format, in this order. Indexes are only looked for behind a picture's.
Behind == [strn |-> "strd", strd |-> "indx", indx |-> "junk"]
Takes == Id(p) = aviPc /\ (aviPc = "indx" => stream_type = "video")
Optional ==
  /\ aviPc \in DOMAIN Behind
  /\ IF Takes THEN Tell(Past(p), Behind[aviPc])
     ELSE aviPc' = Behind[aviPc] /\ UNCHANGED <<p, told>>
  /\ UNCHANGED <<avi, looked, stream_type, pmovi, checked>>

\* No header of a stream, no format, or one of neither kind.
NoStream ==
  /\ aviPc \in {"strh", "strf"}
  /\ ~(Id(p) = aviPc /\ (aviPc = "strf" => stream_type # "other"))
  /\ aviPc' = "junk"
  /\ UNCHANGED <<avi, looked, p, stream_type, pmovi, told, checked>>

MovieList_BehindType ==
  /\ InList("movi")
  /\ pmovi' = p + ListHead
  /\ Tell(p + ListHead, "movi")
  /\ UNCHANGED <<avi, looked, stream_type, checked>>

\* The index of a movie counts from the type of the list.
MovieList ==
  /\ InList("movi")
  /\ pmovi' = p + ChunkHead
  /\ Tell(p + ListHead, "movi")
  /\ UNCHANGED <<avi, looked, stream_type, checked>>

OdmlList ==
  /\ InList("odml")
  /\ Tell(Past(p), "junk")
  /\ UNCHANGED <<avi, looked, stream_type, pmovi, checked>>

\* A list of any other type: nothing moves on.
OtherList ==
  /\ aviPc = "inner" /\ Id(p) = "LIST" /\ Type(p) \notin {"strl", "movi", "odml"}
  /\ aviPc' = "junk"
  /\ UNCHANGED <<avi, looked, p, stream_type, pmovi, told, checked>>

NoList ==
  /\ aviPc = "inner" /\ Id(p) # "LIST"
  /\ aviPc' = "outer"
  /\ UNCHANGED <<avi, looked, p, stream_type, pmovi, told, checked>>

\* The chunks of a movie, without a look at the size of its list or the end of the file.
MovieChunk ==
  /\ aviPc = "movi" /\ Id(p) \notin {"LIST", "idx1"}
  /\ Tell(Past(p), "movi")
  /\ UNCHANGED <<avi, looked, stream_type, pmovi, checked>>

\* show_indx1: the chunk of an entry is looked for at its offset in the file, and then at
\* that in the movie. pmovi is not set before a movie.
EntrySize == 16
Verdict(entry) ==
  CASE entry.offset + ChunkHead < pend /\ Id(entry.offset) = entry.id -> "Ok1"
    [] pmovi = 0 -> "undefined"
    [] pmovi + entry.offset + ChunkHead > pend -> "beyond"
    [] OTHER -> IF Id(pmovi + entry.offset) = entry.id THEN "Ok" ELSE "??"
PointsBeyond == p + ChunkHead + EntrySize >= pend
show_indx1 ==
  IF PointsBeyond THEN <<>>
  ELSE LET whole(k) == p + ChunkHead + EntrySize * k <= pend
           entries == At(p).index
       IN  [k \in {j \in DOMAIN entries : whole(j)} |-> Verdict(entries[k])]

Index ==
  /\ Id(p) = "idx1"
  /\ checked' = checked \o show_indx1
  /\ UNCHANGED <<avi, looked, stream_type, pmovi>>

MovieIndex == aviPc = "movi" /\ Index /\ Tell(Past(p), "junk")

MovieEnd ==
  /\ aviPc = "movi" /\ Id(p) = "LIST"
  /\ aviPc' = "junk"
  /\ UNCHANGED <<avi, looked, p, stream_type, pmovi, told, checked>>

\* Behind each list: fillers, whose odd sizes are not rounded up, and an index.
Junk ==
  /\ aviPc = "junk" /\ Id(p) = "JUNK"
  /\ Tell(p + ChunkHead + At(p).n, "junk")
  /\ UNCHANGED <<avi, looked, stream_type, pmovi, checked>>

LateIndex == aviPc = "junk" /\ Index /\ Tell(Past(p), "inner")

\* The message that an index points beyond the end takes an argument it is not given, and an
\* entry may be looked for with a pmovi that was never set: either may end the program.
UndefinedIndex ==
  /\ aviPc \in {"movi", "junk"} /\ Id(p) = "idx1"
  /\ PointsBeyond \/ "undefined" \in ToSet(show_indx1)
  /\ aviPc' = "killed"
  /\ UNCHANGED <<avi, looked, p, stream_type, pmovi, told, checked>>

NoJunk ==
  /\ aviPc = "junk" /\ Id(p) \notin {"JUNK", "idx1"}
  /\ aviPc' = "inner"
  /\ UNCHANGED <<avi, looked, p, stream_type, pmovi, told, checked>>

Next ==
  \/ LookList \/ LookTwice \/ LookChunk \/ Decide
  \/ Headers \/ Leave \/ StreamList \/ StreamHeader \/ StreamFormat \/ Optional \/ NoStream
  \/ MovieList \/ OdmlList \/ OtherList \/ NoList
  \/ MovieChunk \/ MovieIndex \/ MovieEnd \/ Junk \/ LateIndex \/ UndefinedIndex \/ NoJunk

Spec == Init /\ [][Next]_aviVars /\ WF_aviVars(Next)

-------------------------------------------------------------------------------
(* Properties *)

\* Every variable has its type.
TypeOK ==
  /\ aviPc \in {"look", "refused", "outer", "inner", "strh", "strf", "strn", "strd", "indx",
               "movi", "junk", "done", "killed"}
  /\ pchk >= ListHead /\ len \in Int
  /\ pmh \in BOOLEAN /\ got_movi \in BOOLEAN
  /\ p \in 0..(pend + avi.page)
  /\ stream_type \in {"video", "audio", "other"}
  /\ pmovi \in 0..pend
  /\ \A k \in DOMAIN told : told[k] \in 0..(pend + avi.page)
  /\ \A k \in DOMAIN checked : checked[k] \in {"Ok1", "Ok", "??", "beyond", "undefined"}

Ended == aviPc \in {"refused", "done", "killed"}

\* A list of headers that does not begin with avih but with a list, and any list among the
\* others that the reader does not know: both are looked at for ever.
Turning ==
  \/ aviPc = "outer" /\ p = 2 * ListHead /\ Id(p) = "LIST"
  \/ aviPc \in {"inner", "junk"} /\ Id(p) = "LIST" /\ Type(p) \notin {"strl", "movi", "odml"}

\* The chunks of a file by the rule of RIFF: behind the head of a list, or behind a chunk.
After(q) ==
  IF Id(q) = "LIST" /\ Type(q) # "odml" THEN q + ListHead ELSE q + ChunkHead + Even(At(q).n)
Chunks ==
  LET from[q \in Nat] == IF q + ChunkHead > pend THEN <<>> ELSE <<q>> \o from[After(q)]
  IN  from[ListHead]

\* Files as they are written: the headers of the streams, with formats as long as they say and
\* fillers of even sizes, one movie of single chunks, and an index behind it that ends the file.
Orderly ==
  LET c == Chunks
      types == [k \in DOMAIN c |-> IF Id(c[k]) = "LIST" THEN Type(c[k]) ELSE Id(c[k])]
  IN  /\ Len(c) > 2 /\ types[1] = "hdrl" /\ types[2] = "avih" /\ types[3] = "strl"
      /\ At(c[2]).n = MainSize - ChunkHead
      /\ After(Last(c)) = pend
      /\ \E m \in DOMAIN c :
           /\ types[m] = "movi"
           /\ \A k \in (m + 1)..(Len(c) - 1) : types[k] \in {"00dc", "01wb", "ix00"}
           /\ Last(types) = "idx1"
           /\ \A k \in 3..(m - 1) :
                CASE types[k] = "strl" -> types[k + 1] = "strh"
                  [] types[k] = "strh" -> /\ types[k - 1] = "strl"
                                          /\ At(c[k]).n = StreamSize - ChunkHead
                                          /\ types[k + 1] = "strf" /\ At(c[k]).kind # "other"
                  [] types[k] = "strf" -> /\ types[k - 1] = "strh"
                                          /\ At(c[k]).n = At(c[k]).format /\ At(c[k]).n % 2 = 0
                  [] types[k] = "strn" -> types[k - 1] = "strf"
                  [] types[k] = "indx" -> /\ types[k - 1] \in {"strf", "strn"}
                                          /\ \E j \in 3..(k - 1) :
                                               /\ types[j] = "strh" /\ At(c[j]).kind = "video"
                                               /\ \A i \in j..k : types[i] # "strl"
                  [] types[k] = "JUNK" -> At(c[k]).n % 2 = 0
                  [] OTHER -> types[k] = "odml"

\* A file as it is written is taken for an AVI file, and all its chunks are told, once and in
\* order, and the end as one more. The program only ends early when nothing is mapped behind
\* the file, or its index is of one entry or none.
ChunksListed ==
  Orderly =>
    /\ aviPc # "refused"
    /\ IsPrefix(told, Append(Chunks, pend))
    /\ aviPc = "done" => told = Append(Chunks, pend)
    /\ aviPc = "killed" => /\ told = Chunks
                           /\ avi.page < ChunkHead \/ Last(Chunks) + ChunkHead + EntrySize >= pend

\* In such a file an entry of the index is right when there is such a chunk at its offset,
\* counted from the beginning of the file or from the type of the movie.
IndexChecked ==
  (Orderly /\ checked # <<>>) =>
    LET entries == At(Last(Chunks)).index
        movie == CHOOSE q \in ToSet(Chunks) : Id(q) = "LIST" /\ Type(q) = "movi"
    IN  /\ Len(checked) = Len(entries)
        /\ \A k \in DOMAIN entries :
             checked[k] \in {"Ok1", "Ok"} <=>
               \E base \in {0, movie + ChunkHead} : Id(base + entries[k].offset) = entries[k].id
===============================================================================

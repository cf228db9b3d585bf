------------------------------- MODULE MCReaders --------------------------------
(***************************************************************************)
(* Readers for TLC, and beside them TarWalk and TarFields, GifLzw,         *)
(* TeleList, BmpRows, RgbRows, PpmRows and CisBook, and PeFiles, PeFollow  *)
(* and AviWalk of the build for Windows. What is instanced for a reader    *)
(* are files put together from pieces that are right, wrong and cut off.   *)
(***************************************************************************)
EXTENDS Readers, FiniteSets, SequencesExt

CONSTANTS
  MaxBlocks,   \* blocks of an archive of any blocks
  MaxMembers,  \* headers of one whose blocks are in order
  MaxTapes,    \* headers of archives in a row
  MaxPieces,   \* pieces of a GIF file
  MaxPackets,  \* packets of the first transport stream
  MaxEntries,  \* blocks of telephone lists
  MaxCells,    \* cells of a sound file
  MaxNumbers,  \* entries of an address book
  MaxExes,     \* executables, objects and small libraries in a row
  MaxArchived, \* members of a library
  MaxLines,    \* lines of a table, and of the header of a pixmap
  Lost         \* of RgbRows

UpTo(n, S) == UNION {[1..k -> S] : k \in 0..n}
Joined(n, S) == {FlattenSeq(s) : s \in UpTo(n, S)}

-------------------------------------------------------------------------------
(* TarWalk *)

TarHeaders ==
  {[type |-> t, size |-> 1, more |-> FALSE] : t \in {"reg", "dir", "long", "ext"}}
    \cup {[type |-> "long", size |-> 9, more |-> FALSE],
          [type |-> "sparse", size |-> 1, more |-> TRUE]}
TarBroken == {[type |-> "ustar", size |-> 1, more |-> FALSE],
              [type |-> "nameless", size |-> 0, more |-> FALSE]}
TarOthers == {[type |-> "zero", more |-> FALSE], [type |-> "blank", more |-> FALSE],
              [type |-> "data", more |-> TRUE]}
TarBlock(type, size) == [type |-> type, size |-> size, more |-> FALSE]
TarData(more) == [type |-> "data", more |-> more]
TarZero == [type |-> "zero", more |-> FALSE]
TarPieces ==   \* a header with its contents, which may look like a header
  {<<TarBlock("reg", 1), TarData(TRUE)>>, <<TarBlock("reg", 1), TarBlock("dir", 1)>>,
   <<TarBlock("dir", 1)>>, <<TarBlock("link", 1)>>, <<TarBlock("long", 1), TarData(FALSE)>>,
   <<TarBlock("ext", 1), TarData(TRUE)>>, <<TarBlock("ext", 1), TarBlock("reg", 1)>>,
   <<[type |-> "sparse", size |-> 1, more |-> TRUE], TarData(TRUE), TarData(FALSE),
     TarData(TRUE)>>}
Archives ==
  {<<first>> \o s : first \in TarHeaders \cup TarBroken,
                    s \in UpTo(MaxBlocks - 1, TarHeaders \cup TarOthers)}
    \cup {<<first>> \o s : first \in TarHeaders \cup TarOthers,
                           s \in UpTo(2, TarBroken \cup {TarBlock("reg", 1), TarZero})}
    \cup {s \o end : s \in Joined(MaxMembers, TarPieces) \ {<<>>},
                    end \in {<<TarZero>>, <<TarZero, TarZero>>,
                            <<TarZero, TarZero, TarBlock("dir", 1)>>}}

(* TarFields: fields of four bytes for a number of 16 bits, times with two decimals. *)

CodesFrom(first, s) ==
  [c \in {SubSeq(s, i, i) : i \in 1..Len(s)} |->
     first - 1 + CHOOSE i \in 1..Len(s) : SubSeq(s, i, i) = c]
Ascii == CodesFrom(43, "+,-./0123456789:;<=") @@ CodesFrom(65, "ABCDEFGHIJKLMNOPQRSTUVWXYZ")
           @@ CodesFrom(97, "abcdefghijklmnopqrstuvwxyz") @@ CodesFrom(32, " ")
TextOf(s) == [i \in 1..Len(s) |-> Ascii[SubSeq(s, i, i)]]
Plain == TextOf("0017")
FieldTexts ==
  {TextOf(s) : s \in {"0000", "7777", " 17 ", "017 ", "0 17", "1 7x", "    ", "8888", "17x ",
                      "-B1 ", "+7/+", "+P//", "+QAA", "-H//", "-IAA", "-IAB", "-Q  ", "+A-B", "-   "}}
    \cup {<<0>> \o TextOf("017"), <<0, 0, 0, 0>>, <<32, 55, 0, 0>>, <<0, 32, 53, 32>>}
    \cup {<<b, x, y, z>> : b \in {128, 255}, x \in {0, 1, 254, 255}, y \in {0, 127, 128, 255},
                          z \in {0, 1, 255}}
Member(size, mtime) == [type |-> "member", size |-> size, mtime |-> mtime]
Extended(type, records) == [type |-> type, records |-> records]
EndOfTape == [type |-> "end"]
NoHeader == [type |-> "other"]
PaxRecord(keyword, value) ==
  LET rest == Len(value) + 4
      n == IF rest + 1 < 10 THEN rest + 1 ELSE rest + 2
  IN  [keyword |-> TextOf(keyword), value |-> value,
       bytes |-> TextOf(ToString(n)) \o <<32>> \o TextOf(keyword) \o TextOf("=") \o value \o <<10>>]
Damaged(before, after) ==
  [keyword |-> <<>>, value |-> <<>>, bytes |-> TextOf(before) \o <<10>> \o TextOf(after)]
Times == {"5", "-5", "0", "-0.5", "1.25", "-1.25", "-1.250001", "1.259", "-1.999", "32767.99",
          "32768", "-32768", "-32768.5", "-32769", "7.", "-1.00", "x", "-", "1.2.3", ".5", "5x"}
Sizes == {"0", "9", "65535", "65536", "-1", "1x", ""}
PaxRecords ==
  {PaxRecord("m", TextOf(s)) : s \in Times} \cup {PaxRecord("s", TextOf(s)) : s \in Sizes}
    \cup {PaxRecord("z", TextOf("5")), PaxRecord("s", TextOf("3=4")), PaxRecord("s", TextOf("7") \o <<10>>)}
    \cup {Damaged("5 s=8", ""), Damaged("8 s=8", ""), Damaged("99 s=8", ""), Damaged("5s=8", ""),
          Damaged("6 s:8", ""), Damaged("0 s=8", ""), Damaged("s=8", ""), Damaged("6 s=8 ", "")}
SparseRecords ==
  {PaxRecord("o", TextOf(s)) : s \in {"3", "40000"}}
    \cup {PaxRecord("b", TextOf("4")), PaxRecord("n", TextOf("1"))}
    \cup {PaxRecord("p", TextOf(s)) : s \in {"1,2", "1,2,3,4", "1,2,3,4,5,6", "1,2,3", "1,2,x", ",", ""}}
OfTime(s) == PaxRecord("m", TextOf(s))
TapePieces ==
  {<<Member(Plain, Plain)>>, <<NoHeader>>, <<EndOfTape>>}
    \cup {<<Extended("global", s)>> : s \in {<<>>, <<OfTime("5")>>, <<OfTime("5"), OfTime("6")>>,
                                           <<PaxRecord("s", TextOf("1")), OfTime("x"), OfTime("7")>>}}
    \cup {<<Extended("ext", s)>> : s \in {<<OfTime("8"), OfTime("9")>>, <<PaxRecord("s", TextOf("2"))>>}}
Tapes ==
  {<<Member(f, f)>> : f \in FieldTexts}
    \cup {<<Extended("ext", s), Member(Plain, Plain)>> : s \in UpTo(2, PaxRecords)}
    \cup {<<Extended("ext", <<PaxRecord("n", TextOf("2"))>> \o s), Member(Plain, Plain)>> :
            s \in UpTo(5, {r \in SparseRecords : r.keyword # TextOf("p")}) \cup UpTo(2, SparseRecords)}
    \cup Joined(MaxTapes, TapePieces)

(* GifWalk: extensions and images with one byte of a descriptor, a colour map of one. *)

MCGifs ==
  Joined(MaxPieces,
         {<<33, 1, 0>>, <<33, 0, 1, 2, 0>>, <<33, 1, 2, 44>>, <<33>>, <<44, 0, 2, 0>>,
          <<44, 1, 0, 2, 1, 44, 0>>, <<44, 0, 3, 2, 33, 1, 0>>, <<44, 0, 1, 0>>,
          <<44, 0, 2, 59>>, <<59>>, <<0>>}) \ {<<>>}

(* GifLzw: bytes of two bits; codes of an encoder, and others. *)

ByteBits == 2
Bits(code, n) == [i \in 1..n |-> (code \div 2^(i - 1)) % 2]
Encoded(codeSeq) ==
  LET bits == FlattenSeq([k \in DOMAIN codeSeq |-> Bits(codeSeq[k], IF k <= 3 THEN 3 ELSE 4)])
  IN  [i \in 1..((Len(bits) + 1) \div 2) |->
         bits[2 * i - 1] + (IF 2 * i <= Len(bits) THEN 2 * bits[2 * i] ELSE 0)]
Cut(s, n) ==
  [k \in 1..((Len(s) + n - 1) \div n) |->
     SubSeq(s, (k - 1) * n + 1, IF k * n < Len(s) THEN k * n ELSE Len(s))]
Image(w, h, interlaced, write, blocks) ==
  [bits |-> 2, width |-> w, height |-> h, interlaced |-> interlaced, write |-> write,
   blocks |-> blocks]
Codes == {<<0, 6, 7, 8, 9, 10, 11, 12, 13, 14, 15, 6, 3, 15>>,
          <<1, 2, 6, 8, 3, 7, 10, 6, 9, 12, 0, 3, 14, 15, 15, 8>>, <<3, 3, 6, 7, 8, 4>>}
Noise == {[i \in 1..24 |-> (i * i * a + b * i + c + (i \div 5)) % 4] : a, b, c \in 0..3}
Images ==
  {Image(5, 9, TRUE, TRUE, Cut(Encoded(s), 3)) : s \in Codes}
    \cup {Image(6, 13, FALSE, TRUE, Cut(Encoded(s), n)) : s \in Codes, n \in 2..3}
    \cup {Image(2, 3, FALSE, TRUE, Cut(s, 2)) : s \in [1..5 -> 0..3]}
    \cup {Image(2, 10, TRUE, TRUE, Cut(s, 3)) : s \in Noise}
    \cup {Image(1, 13, TRUE, FALSE, Cut(s, 3)) : s \in Noise}
    \cup {Image(1, 5, TRUE, TRUE, <<SubSeq(s, 1, 1)>> \o Cut(SubSeq(s, 2, 7), 3)) : s \in Noise}

(* TsPackets: two files, one after the other. *)

Packet(sync, payload, pad, pid) == [sync |-> sync, payload |-> payload, pad |-> pad, pid |-> pid]
Packets == {Packet(TRUE, TRUE, FALSE, 0), Packet(TRUE, FALSE, FALSE, 1),
            Packet(TRUE, TRUE, TRUE, 1), Packet(FALSE, TRUE, FALSE, 0)}
Stream(n) == {[packets |-> s, rest |-> r] : s \in UpTo(n, Packets), r \in BOOLEAN}
MCStreams == {<<f, g>> : f \in Stream(2), g \in Stream(MaxPackets)}

(* TeleList: names 10 to 13, far ones behind the commas from 20 on. *)

Word(n) == [fst |-> n, snd |-> 0]
Entry(words, comma, far, tail) == [head |-> words, comma |-> comma, far |-> far, tail |-> tail]
Phonebooks ==
  UpTo(MaxEntries,
       {Entry(<<Word(10)>>, FALSE, FALSE, 20),
        Entry(<<Word(11), Word(12)>>, TRUE, FALSE, 20),
        Entry(<<Word(3), Word(10)>>, TRUE, FALSE, 21),             \* a title
        Entry(<<Word(12), Word(1), Word(10), [fst |-> 11, snd |-> 13]>>, TRUE, FALSE, 20),
        Entry(<<>>, TRUE, FALSE, 20),
        Entry(<<Word(10), Word(11)>>, TRUE, TRUE, 21),
        Entry(<<Word(13), [fst |-> 10, snd |-> 12], Word(4)>>, TRUE, FALSE, 22),
        Entry(<<Word(11), Word(1), Word(12)>>, TRUE, FALSE, 20),   \* an ampersand
        Entry(<<Word(11), Word(4)>>, TRUE, FALSE, 20)})            \* a firm

(* BmpRows *)

WrapSize == 6
Bitmaps ==
  {[bits |-> b, width |-> w, height |-> h, data |-> [i \in 1..n |-> (i * i + (i \div 4)) % 3]] :
     b \in {1, 8, 24}, w \in 1..3, h \in {-2, 0, 1, 2, 3}, n \in 0..26}

(* RgbRows: pictures two pixels wide. *)

Half == 4
TmpSize == 6
RgbRow == {<<2, 5, 0>>, <<6, 1, 3, 0>>, <<1, 5, 1, 6, 0>>, <<5, 3, 0>>, <<2, 7>>, <<0>>, Lost}
Picture(z, y, open, encoded, data) ==
  [open |-> open, rle |-> data = <<>>, xsize |-> 2, ysize |-> y, zsize |-> z,
   rows |-> encoded, data |-> data]
Pictures ==
  {Picture(3, 1, TRUE, s, <<>>) : s \in [1..3 -> RgbRow]}
    \cup {Picture(4, 1, TRUE, s \o <<<<2, 1, 0>>>>, <<>>) : s \in [1..3 -> RgbRow]}
    \cup {Picture(z, 2, TRUE, s, <<>>) : z \in {0, 1}, s \in [1..2 -> RgbRow]}
    \cup {Picture(2, 2, TRUE, <<<<2, 1, 0>>>> \o s, <<>>) : s \in [1..3 -> RgbRow]}
    \cup {Picture(z, y, o, <<>>, [i \in 1..n |-> (3 * i) % 8]) :
            z \in 0..5, y \in 0..2, o \in BOOLEAN, n \in 1..16}

(* PpmRows *)

Line(kind, cr) == [kind |-> kind, cr |-> cr]
PpmLines ==
  {Line(k, FALSE) : k \in {"P6", "blank", "comment", "numbers", "255", "other"}}
    \cup {Line("P6", TRUE), Line("255", TRUE)}
Pixmaps ==
  {[lines |-> s, width |-> 2, height |-> 3, data |-> n] :
     s \in {t \in UpTo(4, PpmLines) : \A i \in 1..(Len(t) - 1) : t[i].kind # "255"},
     n \in {17, 18}}
    \cup {[lines |-> <<Line("P6", FALSE), Line("numbers", FALSE), Line("255", FALSE)>>,
           width |-> w, height |-> h, data |-> n] : w \in 0..2, h \in 0..3, n \in {0, 6, 20}}
Writes == {0, 1, 4, 6}

(* WavWalk: the sum of a head and 7 cells is 0. *)

MCKnown == {"data", "cue"}
MCWaves ==
  {[ok |-> o, extra |-> x, cells |-> c] :
     o \in BOOLEAN, x \in 0..1,
     c \in UpTo(MaxCells, [id : {"data", "cue", "none"}, size : {0, 1, 2, 7}])}

(* CisBook: a byte has the values 0 to 3. *)

Base == 4
EntryShapes == {[items |-> <<1, 2, 1>>, group |-> -1], [items |-> <<3>>, group |-> -1],
                [items |-> <<2>>, group |-> 1], [items |-> <<1, 1>>, group |-> -1]}
Address(shape, n) == [num |-> n, items |-> shape.items, group |-> shape.group]
Addresses ==
  {[packed |-> p, cnt |-> Len(s),
    entries |-> [i \in DOMAIN s |-> Address(s[i], IF i = wrong THEN i + 1 ELSE i)]] :
     p \in BOOLEAN, wrong \in {0, 2}, s \in UpTo(MaxNumbers, EntryShapes)}
    \cup {[packed |-> FALSE, cnt |-> c, entries |-> <<Address(s, 1)>>] :
            c \in {0, 2}, s \in EntryShapes}

(* VosTab *)

MCTables == Joined(MaxLines, {<<"x">>, <<"cr", "lf">>, <<"x", "cr", "lf">>,
                            <<"x", "x", "cr", "lf">>, <<"lf">>, <<"cr">>})

(* PeFiles: libraries with two cells for a header, and a gap behind odd contents or not. *)

HeaderCells == 2
Archived(name, size, symbols, import, exports) ==
  [name |-> name, size |-> size, symbols |-> symbols, import |-> import, exports |-> exports]
ArchivedMembers ==
  {Archived("/", 2, FALSE, FALSE, <<"a", "b", "a">>), Archived("/", 3, FALSE, FALSE, <<"b", "c">>),
   Archived("//", 1, FALSE, FALSE, <<>>), Archived("long", 3, TRUE, FALSE, <<>>),
   Archived("short", 4, FALSE, TRUE, <<>>)}
Library(s, gap) ==
  [kind |-> "lib",
   members |->
     FoldLeft(LAMBDA acc, x :
                [map |-> acc.map @@ (acc.next :> x),
                 next |-> acc.next + HeaderCells + (x.size + 1) \div 2
                            + IF gap THEN x.size % 2 ELSE 0],
              [map |-> <<>>, next |-> 0], s).map]
SmallLibraries ==
  {Library(s, FALSE) :
     s \in {<<Archived("long", 3, TRUE, FALSE, <<>>)>>,
            <<Archived("//", 1, FALSE, FALSE, <<>>), Archived("long", 1, FALSE, FALSE, <<>>)>>}}
Portables ==
  [kind : {"exe"}, coff : BOOLEAN, cv : BOOLEAN, symbols : BOOLEAN]
    \cup [kind : {"dbg"}, coff : BOOLEAN, cv : {FALSE}]
    \cup [kind : {"obj"}, symbols : BOOLEAN, import : BOOLEAN]
    \cup SmallLibraries
PeCommand(f, symtab, relocs, only) ==
  [files |-> f, symtab |-> symtab, relocs |-> relocs, exportsOnly |-> only]
PeCommands ==
  {PeCommand(f, TRUE, TRUE, FALSE) : f \in UpTo(MaxExes, Portables) \ {<<>>}}
    \cup {PeCommand(<<Library(s, g), f>>, FALSE, FALSE, o) :
            s \in UpTo(MaxArchived, ArchivedMembers) \ {<<>>}, g \in BOOLEAN, o \in BOOLEAN,
            f \in SmallLibraries}

(* PeFollow: three directories; every file on the disk may import what it likes. *)

OnDisk(dir, name) == [dir |-> dir, name |-> name]
Disk == {OnDisk("a", "m"), OnDisk("a", "n"), OnDisk("w", "n"), OnDisk("w", "o"), OnDisk("x", "m")}
Imports == {<<>>, <<"o", "n">>, <<"m", "q">>}
FollowCommand(f, path, follow, imports, empty) ==
  [files |-> f, path |-> path, follow |-> follow, imports |-> imports, empty |-> empty]
OneAndTwo == {<<OnDisk("a", "m")>>, <<OnDisk("a", "n"), OnDisk("a", "m")>>}
FollowCommands ==
  {FollowCommand(f, <<"w", "x", "w">>, TRUE, i, {}) : f \in OneAndTwo, i \in [Disk -> Imports]}
    \cup {FollowCommand(f, <<"w">>, b, i, {OnDisk("a", "n")}) :
            f \in OneAndTwo, b \in BOOLEAN, i \in [Disk -> {<<>>, <<"n", "o">>}]}

(* AviWalk: pieces are laid one behind the other; a file may be cut off. *)

AviPiece(id, n, long) ==
  [id |-> id, n |-> n, kind |-> "other", format |-> 0, index |-> <<>>, long |-> long]
AviChunk(id, n) == <<AviPiece(id, n, 8 + n + (n % 2))>>
AviLong(s) == FoldLeft(LAMBDA sum, x : sum + x.long, 0, s)
AviList(type, s) == <<AviPiece("LIST", 4 + AviLong(s), 8), AviPiece(type, 0, 4)>> \o s
Strh(kind) == <<[AviPiece("strh", 4, 12) EXCEPT !.kind = kind]>>
Strf(n, format) == <<[AviPiece("strf", n, 8 + n) EXCEPT !.format = format]>>
IndexOf(id, offset) == [id |-> id, offset |-> offset]
Idx1(s) == <<[AviPiece("idx1", 16 * Len(s), 8 + 16 * Len(s)) EXCEPT !.index = s]>>
VideoStream == AviList("strl", Strh("video") \o Strf(6, 6))
StreamLists ==
  {VideoStream, AviList("strl", Strh("audio") \o Strf(4, 4)),
   AviList("strl", Strh("video") \o Strf(6, 6) \o AviChunk("strn", 3) \o AviChunk("indx", 4))}
OtherLists ==
  {AviList("strl", Strh("audio") \o Strf(6, 2) \o AviChunk("strd", 2)),
   AviList("strl", Strh("video") \o Strf(6, 4)), AviList("strl", AviChunk("JUNK", 2)),
   AviList("strl", Strh("other") \o Strf(2, 2)), AviList("odml", AviChunk("dmlh", 4)),
   AviChunk("JUNK", 2), AviChunk("JUNK", 3), AviList("INFO", AviChunk("JUNK", 2))}
Movies == {AviList("movi", AviChunk("00dc", 3) \o AviChunk("01wb", 2)),
           AviList("movi", AviChunk("00dc", 0)),
           AviList("movi", AviList("rec", AviChunk("00dc", 2)))}
IndexAtEnd ==
  {<<>>} \cup {Idx1(s) : s \in {<<>>, <<IndexOf("00dc", 4)>>,
                               <<IndexOf("00dc", 4), IndexOf("01wb", 16)>>,
                               <<IndexOf("01wb", 15), IndexOf("00dc", 400)>>}}
Hdrl(s) == AviList("hdrl", AviChunk("avih", 4) \o s)
AviContents ==
  {Hdrl(s) \o m \o i : s \in Joined(2, StreamLists) \cup Joined(1, OtherLists), m \in Movies,
                     i \in IndexAtEnd}
    \cup {Hdrl(s \o VideoStream) \o m \o Idx1(<<IndexOf("00dc", 4)>>) \o AviChunk("JUNK", 20) :
            s \in OtherLists, m \in Movies}
    \cup {AviList("hdrl", VideoStream) \o m : m \in Movies}
    \cup {Hdrl(<<>>) \o Hdrl(<<>>) \o m : m \in Movies} \cup Movies
    \cup {Hdrl(VideoStream \o Idx1(<<IndexOf("avih", 24), IndexOf("00dc", 4)>>)) \o m : m \in Movies}
AviFile(s, page, cut) ==
  LET laid == FoldLeft(LAMBDA acc, x : [at |-> acc.at @@ (acc.next :> x), next |-> acc.next + x.long],
                       [at |-> <<>>, next |-> 12], s)
  IN  [at |-> laid.at, size |-> laid.next - cut, riff |-> laid.next - 8, page |-> page]
AviFiles == {AviFile(s, page, cut) : s \in AviContents, page \in {0, 20}, cut \in {0, 15}}
AviIds == {"RIFF", "LIST", "hdrl", "movi", "avih", "strl", "strh", "strf", "strn", "strd", "indx",
           "idx1", "odml", "JUNK", "dmlh", "00dc", "01wb"}

-------------------------------------------------------------------------------

VARIABLES s11, s12, s13, s14, s15, s16, s17, s18, s19, s20

Tar ==
  INSTANCE TarWalk WITH
    arch <- s1, whole <- s2, behind <- s3, tarPc <- s4, count <- s5, current_block <- s6,
    current_header <- s7, status <- s8, blocks <- s9, lone <- s10, left <- s11,
    named <- s12, members <- s13, rest <- s14

Fields ==
  INSTANCE TarFields WITH
    UintBits <- 16, FractionDigits <- 2, tape <- s1, next <- s2, fieldPc <- s3, xhdr <- s4,
    global <- s5, stat <- s6, p <- s7, shown <- s8

Lzw ==
  INSTANCE GifLzw WITH
    MAX_LZW_BITS <- 4, img <- s1, lzwPc <- s2, blk <- s3, code_buf <- s4, last_byte <- s5,
    last_bit <- s6, cur_bit <- s7, out_of_blocks <- s8, taken <- s9, code_size <- s10,
    limit_code <- s11, max_code <- s12, head <- s13, tail <- s14, stack <- s15,
    oldcode <- s16, firstcode <- s17, pixels <- s18, rows <- s19, codes <- s20

Tele ==
  INSTANCE TeleList WITH
    Books <- Phonebooks, book <- s1, opt <- s2, telePc <- s3, blockNo <- s4, head1 <- s5,
    lnCnt <- s6, headX1 <- s7, headX2 <- s8, entry <- s9, gsLines <- s10, iRank <- s11,
    pass <- s12, written <- s13

Bmp ==
  INSTANCE BmpRows WITH
    bmp <- s1, giBmpVerb <- s2, bmpPc <- s3, ir <- s4, ui <- s5, ia <- s6, iC <- s7,
    iRow <- s8, inewrow <- s9, lpd <- s10, ucnt <- s11, rgb24 <- s12, prgb24 <- s13,
    warned <- s14, lines <- s15

Rgb ==
  INSTANCE RgbRows WITH
    image <- s1, rgbPc <- s2, row <- s3, comp <- s4, df_dwOff <- s5, tmp <- s6,
    iPtr <- s7, total <- s8, buf <- s9, base <- s10, bitmap <- s11

Ppm ==
  INSTANCE PpmRows WITH
    map <- s1, room <- s2, ppmPc <- s3, dwi <- s4, h <- s5, file <- s6

Cis ==
  INSTANCE CisBook WITH
    Books <- Addresses, cisbook <- s1, bytes <- s2, behind <- s3, cisPc <- s4, lps <- s5,
    dwi <- s6, dwk <- s7, wNum <- s8, wI <- s9, bGrp <- s10, put <- s11, shown <- s12

Pe ==
  INSTANCE PeFiles WITH
    PeFileSets <- PeCommands, cmd <- s1, fileNo <- s2, pePc <- s3, g_pCOFFHeader <- s4,
    g_pCVHeader <- s5, PszLongnames <- s6, g_pCOFFSymbolTable <- s7, at <- s8, links <- s9,
    vExports <- s10, told <- s11, faults <- s12

Fol ==
  INSTANCE PeFollow WITH
    Commands <- FollowCommands, cmd <- s1, fileNo <- s2, peFoPc <- s3, pathList <- s4,
    Done_Import_Init <- s5, dllList <- s6, foundList <- s7, cDll <- s8, cFound <- s9,
    doneDll <- s10, doneFound <- s11, dumped <- s12

Avi ==
  INSTANCE AviWalk WITH
    Avis <- AviFiles, MainSize <- 12, StreamSize <- 12, WaveSize <- 4, ChunkIds <- AviIds,
    avi <- s1, aviPc <- s2, pchk <- s3, len <- s4, pmh <- s5, got_movi <- s6, p <- s7,
    stream_type <- s8, pmovi <- s9, told <- s10, checked <- s11

-------------------------------------------------------------------------------

moreVars == <<s11, s12, s13, s14, s15, s16, s17, s18, s19, s20>>

AllInit ==
  \/ Init /\ s11 = 0 /\ s12 = 0 /\ s13 = 0 /\ s14 = 0 /\ s15 = 0 /\ s16 = 0 /\ s17 = 0
     /\ s18 = 0 /\ s19 = 0 /\ s20 = 0
  \/ which = "tar" /\ Tar!Init /\ s15 = 0 /\ s16 = 0 /\ s17 = 0 /\ s18 = 0 /\ s19 = 0
     /\ s20 = 0
  \/ which = "fields" /\ Fields!Init /\ s9 = 0 /\ s10 = 0 /\ s11 = 0 /\ s12 = 0
     /\ s13 = 0 /\ s14 = 0 /\ s15 = 0 /\ s16 = 0 /\ s17 = 0 /\ s18 = 0 /\ s19 = 0
     /\ s20 = 0
  \/ which = "lzw" /\ Lzw!Init
  \/ which = "tele" /\ Tele!Init /\ s14 = 0 /\ s15 = 0 /\ s16 = 0 /\ s17 = 0
     /\ s18 = 0 /\ s19 = 0 /\ s20 = 0
  \/ which = "bmp" /\ Bmp!Init /\ s16 = 0 /\ s17 = 0 /\ s18 = 0 /\ s19 = 0 /\ s20 = 0
  \/ which = "rgb" /\ Rgb!Init /\ s12 = 0 /\ s13 = 0 /\ s14 = 0 /\ s15 = 0 /\ s16 = 0
     /\ s17 = 0 /\ s18 = 0 /\ s19 = 0 /\ s20 = 0
  \/ which = "ppm" /\ Ppm!Init /\ s7 = 0 /\ s8 = 0 /\ s9 = 0 /\ s10 = 0 /\ s11 = 0
     /\ s12 = 0 /\ s13 = 0 /\ s14 = 0 /\ s15 = 0 /\ s16 = 0 /\ s17 = 0 /\ s18 = 0
     /\ s19 = 0 /\ s20 = 0
  \/ which = "cis" /\ Cis!Init /\ s13 = 0 /\ s14 = 0 /\ s15 = 0 /\ s16 = 0 /\ s17 = 0
     /\ s18 = 0 /\ s19 = 0 /\ s20 = 0
  \/ which = "pe" /\ Pe!Init /\ s13 = 0 /\ s14 = 0 /\ s15 = 0 /\ s16 = 0 /\ s17 = 0
     /\ s18 = 0 /\ s19 = 0 /\ s20 = 0
  \/ which = "follow" /\ Fol!Init /\ s13 = 0 /\ s14 = 0 /\ s15 = 0 /\ s16 = 0
     /\ s17 = 0 /\ s18 = 0 /\ s19 = 0 /\ s20 = 0
  \/ which = "avi" /\ Avi!Init /\ s12 = 0 /\ s13 = 0 /\ s14 = 0 /\ s15 = 0 /\ s16 = 0
     /\ s17 = 0 /\ s18 = 0 /\ s19 = 0 /\ s20 = 0

AllNext ==
  \/ Next /\ UNCHANGED moreVars
  \/ which = "tar" /\ Tar!Next /\ UNCHANGED <<which, s15, s16, s17, s18, s19, s20>>
  \/ which = "fields" /\ Fields!Next /\ UNCHANGED <<which, s9, s10, s11, s12, s13,
     s14, s15, s16, s17, s18, s19, s20>>
  \/ which = "lzw" /\ Lzw!Next /\ UNCHANGED <<which>>
  \/ which = "tele" /\ Tele!Next /\ UNCHANGED <<which, s14, s15, s16, s17, s18, s19,
     s20>>
  \/ which = "bmp" /\ Bmp!Next /\ UNCHANGED <<which, s16, s17, s18, s19, s20>>
  \/ which = "rgb" /\ Rgb!Next /\ UNCHANGED <<which, s12, s13, s14, s15, s16, s17,
     s18, s19, s20>>
  \/ which = "ppm" /\ Ppm!Next /\ UNCHANGED <<which, s7, s8, s9, s10, s11, s12, s13,
     s14, s15, s16, s17, s18, s19, s20>>
  \/ which = "cis" /\ Cis!Next /\ UNCHANGED <<which, s13, s14, s15, s16, s17, s18,
     s19, s20>>
  \/ which = "pe" /\ Pe!Next /\ UNCHANGED <<which, s13, s14, s15, s16, s17, s18, s19,
     s20>>
  \/ which = "follow" /\ Fol!Next /\ UNCHANGED <<which, s13, s14, s15, s16, s17, s18,
     s19, s20>>
  \/ which = "avi" /\ Avi!Next /\ UNCHANGED <<which, s12, s13, s14, s15, s16, s17,
     s18, s19, s20>>

AllSpec ==
  /\ AllInit /\ [][AllNext]_<<readerVars, moreVars>>
  /\ WF_<<readerVars, moreVars>>(AllNext)

-------------------------------------------------------------------------------
(* Properties *)

\* Every variable of a reader has its type: one invariant for all of them.
TypesOK ==
  /\ which = "tar" => Tar!TypeOK
  /\ which = "fields" => Fields!TypeOK
  /\ which = "gif" => Gif!TypeOK
  /\ which = "lzw" => Lzw!TypeOK
  /\ which = "ts" => Ts!TypeOK
  /\ which = "tele" => Tele!TypeOK
  /\ which = "bmp" => Bmp!TypeOK
  /\ which = "rgb" => Rgb!TypeOK
  /\ which = "ppm" => Ppm!TypeOK
  /\ which = "wav" => Wav!TypeOK
  /\ which = "cis" => Cis!TypeOK
  /\ which = "vos" => Vos!TypeOK
  /\ which = "pe" => Pe!TypeOK
  /\ which = "follow" => Fol!TypeOK
  /\ which = "avi" => Avi!TypeOK

\* An archive as tar writes it is listed member by member, each under its own name or the
\* one that stands before it, and the block behind the file is read as a header only where
\* no two blocks of zeros end the archive. The numbers of a header mean what they were
\* written for or are told apart; the records of extended headers give a member its time,
\* its size and its map, the last of a kind that stands before it.
ArchivesListed ==
  /\ which = "tar" => Tar!MembersListed /\ Tar!ReadsBehindOnlyUnended
  /\ which = "fields" => Fields!NumbersRead /\ Fields!MembersDescribed /\ Fields!MapsKept

\* The decoder of images: no code makes a loop in its table, each code is the right bits of
\* the blocks wherever they are cut, what they stand for is printed, and interlaced rows
\* come in the order of the image.
ImagesDecoded ==
  which = "lzw" =>
    Lzw!ChainsEnd /\ Lzw!CodesDecoded /\ Lzw!CodesAreBits /\ Lzw!RowsInOrder

\* The entries of all telephone lists are kept in one list, have names of their own blocks
\* and are written once and sorted; an address book is listed entry by entry.
ListsSorted ==
  /\ which = "tele" => Tele!Ring /\ Tele!OwnNames /\ Tele!WrittenSorted
  /\ which = "cis" => Cis!EntriesListed


\* The members of a library are listed under their own names, and what a file has itself is
\* shown of it, not what an earlier one left. Nothing is shown that is not imported, and the
\* first file that imports anything is followed to the end. The chunks of a film are listed
\* in order, and the entries of its index checked against them.
ExecutablesShown ==
  /\ which = "pe" => Pe!LibraryListed /\ Pe!OwnUsed
  /\ which = "follow" => Fol!TrailFollowed
  /\ which = "avi" => Avi!ChunksListed /\ Avi!IndexChecked

\* Whatever the file, its reader stops, unless a long name is longer than its archive, the
\* size of a chunk of a sound file wraps to nothing, or a film has a list it does not know.
Stopped ==
  CASE which = "tar" -> Tar!Ended \/ Tar!NameRunsOver
    [] which = "fields" -> Fields!Ended
    [] which = "gif" -> Gif!Ended
    [] which = "lzw" -> Lzw!Ended
    [] which = "ts" -> Ts!Ended
    [] which = "tele" -> Tele!Ended
    [] which = "bmp" -> Bmp!Ended
    [] which = "rgb" -> Rgb!Ended
    [] which = "ppm" -> Ppm!Ended
    [] which = "wav" -> Wav!Ended \/ Wav!Turning
    [] which = "cis" -> Cis!Ended
    [] which = "pe" -> Pe!Ended
    [] which = "follow" -> Fol!Ended
    [] which = "avi" -> Avi!Ended \/ Avi!Turning
    [] OTHER -> Vos!Ended
===============================================================================

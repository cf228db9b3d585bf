-------------------------------- MODULE GifLzw --------------------------------
(***************************************************************************)
(* The decoder of GIF images in src/src/DumpGif.c: GetDataBlock, GetCode,  *)
(* LZWReadByte2, and the loops of Gif_Count that ask for one index after   *)
(* the other and put the rows of an interlaced image in order. A byte has  *)
(* ByteBits bits, and codes up to MAX_LZW_BITS; the code has 8 and 12. The *)
(* colours, and one index put for another (-gifT), are left out.           *)
(***************************************************************************)
EXTENDS Integers, Sequences, FiniteSets, SequencesExt

CONSTANTS
  Images,        \* [bits, width, height, interlaced, write, blocks]
  ByteBits, MAX_LZW_BITS

VARIABLES
  img,           \* the image; its blocks hold bytes, an empty one behind them
  lzwPc,
  blk,           \* blocks read
  code_buf, last_byte, last_bit, cur_bit, out_of_blocks,
  code_size, limit_code, max_code,
  head, tail,    \* symbol_head and symbol_tail, from max_code down
  stack,         \* symbol_stack up to sp
  oldcode, firstcode,
  pixels,        \* pbiti: the indexes as they came
  rows,          \* the rows printed, in the order of the image
  codes,         \* history: the codes since the last Clear code
  taken          \* history: the bits of all the codes

input == <<blk, code_buf, last_byte, last_bit, cur_bit, out_of_blocks, taken>>
table == <<code_size, limit_code, max_code, head, tail>>
lzwVars == <<img, lzwPc, input, table, stack, oldcode, firstcode, pixels, rows, codes>>

-------------------------------------------------------------------------------

clear_code == 2^img.bits
end_code == clear_code + 1
LZW_TABLE_SIZE == 2^MAX_LZW_BITS
Size == img.width * img.height

\* GetCode: a block is taken when the bits left are too few, and once only.
Short == cur_bit + code_size > last_bit
NextBlock == IF blk < Len(img.blocks) THEN img.blocks[blk + 1] ELSE <<>>
Dry == Short /\ (out_of_blocks \/ NextBlock = <<>>)
\* The last two bytes are kept in front of the new ones.
Refilled == [i \in DOMAIN code_buf |->
               CASE i < 2 -> code_buf[last_byte - 2 + i]
                 [] i \in 2..(1 + Len(NextBlock)) -> NextBlock[i - 1]
                 [] OTHER -> code_buf[i]]
BitsAt(buf, bit, size) ==
  LET offs == bit \div ByteBits
      accum == buf[offs] + buf[offs + 1] * 2^ByteBits + buf[offs + 2] * 2^(2 * ByteBits)
  IN  (accum \div 2^(bit % ByteBits)) % 2^size
From_Moved == IF Short THEN cur_bit - last_bit + ByteBits ELSE cur_bit
From == IF Short THEN cur_bit - last_bit + 2 * ByteBits ELSE cur_bit
Code == IF Dry THEN end_code
        ELSE BitsAt(IF Short THEN Refilled ELSE code_buf, From, code_size)
Fetch ==
  /\ taken' = IF Dry THEN taken ELSE taken + code_size
  /\ cur_bit' = IF Dry THEN cur_bit ELSE From + code_size
  /\ IF Short /\ ~Dry
     THEN /\ code_buf' = Refilled /\ last_byte' = 2 + Len(NextBlock)
          /\ last_bit' = ByteBits * last_byte'
     ELSE UNCHANGED <<code_buf, last_byte, last_bit>>
GetCode ==
  /\ Fetch
  /\ blk' = IF Short /\ ~Dry THEN blk + 1 ELSE blk
  /\ out_of_blocks' = (out_of_blocks \/ Dry)

\* What LZWReadByte2 returns goes to the next place of the current row; a row of an
\* image that is not interlaced is printed at once.
Put(index) ==
  LET p == Append(pixels, index)
  IN  /\ pixels' = p
      /\ rows' = IF ~img.interlaced /\ Len(p) % img.width = 0
                 THEN Append(rows, SubSeq(p, Len(p) - img.width + 1, Len(p))) ELSE rows
      /\ lzwPc' = IF Len(p) < Size THEN "byte" ELSE IF img.interlaced THEN "rows" ELSE "done"

Reading == lzwPc = "byte" /\ stack = <<>>

Pop ==
  /\ lzwPc = "byte" /\ stack # <<>>
  /\ stack' = SubSeq(stack, 1, Len(stack) - 1)
  /\ Put(stack[Len(stack)])
  /\ UNCHANGED <<img, input, table, oldcode, firstcode, codes>>

\* ReInitLZW
ClearCode ==
  /\ Reading /\ Code = clear_code /\ GetCode
  /\ code_size' = img.bits + 1 /\ limit_code' = 2 * clear_code
  /\ max_code' = clear_code + 2
  /\ lzwPc' = "first" /\ codes' = <<>>
  /\ UNCHANGED <<img, head, tail, stack, oldcode, firstcode, pixels, rows>>

\* More Clear codes are swallowed; the next code is a raw byte, or taken for 0.
FirstCode ==
  /\ lzwPc = "first" /\ GetCode
  /\ IF Code = clear_code THEN UNCHANGED <<lzwPc, oldcode, firstcode, pixels, rows, codes>>
     ELSE /\ oldcode' = IF Code > clear_code THEN 0 ELSE Code
          /\ firstcode' = oldcode'
          /\ codes' = <<Code>>
          /\ Put(oldcode')
  /\ UNCHANGED <<img, table, stack>>

\* SkipDataBlocks does not stop at the empty block but at the end of the file.
EndCode ==
  /\ Reading /\ Code = end_code /\ Fetch
  /\ blk' = Len(img.blocks) /\ out_of_blocks' = TRUE
  /\ Put(0)
  /\ codes' = Append(codes, end_code)
  /\ UNCHANGED <<img, table, stack, oldcode, firstcode>>

\* The chain of a symbol, its last byte first, ends with a raw byte. A code that is not
\* in the table yet stands for the last one and its first byte; any greater one is bad,
\* and is remembered as 0.
Expanded(code) ==
  LET chain[c \in DOMAIN head] ==
        IF c < clear_code THEN <<c>> ELSE <<tail[c]>> \o chain[head[c]]
  IN  IF code >= max_code THEN <<firstcode>> \o chain[oldcode] ELSE chain[code]
Kept_Bad(code) == code
Kept(code) == IF code > max_code THEN 0 ELSE code

\* The last code and the first byte of this one make a new symbol, if there is room.
Grows_AnySize == max_code + 1 >= limit_code
Grows == max_code + 1 >= limit_code /\ code_size < MAX_LZW_BITS
Define(first) ==
  IF max_code = LZW_TABLE_SIZE THEN UNCHANGED table
  ELSE /\ head' = [head EXCEPT ![max_code] = oldcode]
       /\ tail' = [tail EXCEPT ![max_code] = first]
       /\ max_code' = max_code + 1
       /\ code_size' = IF Grows THEN code_size + 1 ELSE code_size
       /\ limit_code' = IF Grows THEN 2 * limit_code ELSE limit_code
Symbol ==
  /\ Reading /\ Code \notin {clear_code, end_code} /\ GetCode
  /\ LET chain == Expanded(Code)
         first == chain[Len(chain)]
     IN  /\ stack' = SubSeq(chain, 1, Len(chain) - 1)
         /\ firstcode' = first /\ Define(first) /\ Put(first)
  /\ oldcode' = Kept(Code)
  /\ codes' = Append(codes, Code)
  /\ UNCHANGED img

-------------------------------------------------------------------------------
(* The second scan of an interlaced image *)

pass2_offset == (img.height + 7) \div 8
pass3_offset == pass2_offset + (img.height + 3) \div 8
pass4_offset == pass3_offset + (img.height + 1) \div 4
get_interlace_row(cur_row_number) ==
  CASE cur_row_number % 8 = 0 -> cur_row_number \div 8
    [] cur_row_number % 8 = 4 -> cur_row_number \div 8 + pass2_offset
    [] cur_row_number % 4 = 2 -> cur_row_number \div 4 + pass3_offset
    [] OTHER -> cur_row_number \div 2 + pass4_offset

\* Without a bitmap to write, the index read last is printed all over.
PlaceRow ==
  /\ lzwPc = "rows"
  /\ LET rown == get_interlace_row(Len(rows))
     IN  rows' = Append(rows, [c \in 1..img.width |->
                   pixels[IF img.write THEN rown * img.width + c ELSE Size]])
  /\ lzwPc' = IF Len(rows') = img.height THEN "done" ELSE "rows"
  /\ UNCHANGED <<img, input, table, stack, oldcode, firstcode, pixels, codes>>

-------------------------------------------------------------------------------

\* InitLZWCode; the first call begins as behind a Clear code.
Init ==
  /\ img \in Images
  /\ lzwPc = "first" /\ blk = 0
  /\ code_buf = [i \in 0..(2^ByteBits + 4) |-> 0]
  /\ last_byte = 2 /\ last_bit = 0 /\ cur_bit = 0 /\ out_of_blocks = FALSE
  /\ code_size = img.bits + 1 /\ limit_code = 2 * clear_code /\ max_code = clear_code + 2
  /\ head = [i \in 0..(LZW_TABLE_SIZE - 1) |-> 0] /\ tail = head
  /\ stack = <<>> /\ oldcode = 0 /\ firstcode = 0
  /\ pixels = <<>> /\ rows = <<>> /\ codes = <<>> /\ taken = 0

Next == Pop \/ ClearCode \/ FirstCode \/ EndCode \/ Symbol \/ PlaceRow

Spec == Init /\ [][Next]_lzwVars /\ WF_lzwVars(Next)

-------------------------------------------------------------------------------
(* Properties *)

TypeOK ==
  /\ lzwPc \in {"first", "byte", "rows", "done"}
  /\ blk \in 0..Len(img.blocks) /\ out_of_blocks \in BOOLEAN
  /\ code_size \in (img.bits + 1)..MAX_LZW_BITS /\ limit_code = 2^code_size
  /\ max_code \in (clear_code + 2)..LZW_TABLE_SIZE
  /\ \A c \in DOMAIN head : head[c] \in 0..(LZW_TABLE_SIZE - 1) /\ tail[c] < clear_code
  /\ oldcode \in 0..(LZW_TABLE_SIZE - 1) /\ firstcode \in 0..(clear_code - 1)
  /\ pixels \in Seq(0..(clear_code - 1)) /\ Len(pixels) <= Size

\* Whatever the codes, a symbol only stands on one defined before it, or on a raw byte:
\* there is no loop in the table, and the stack has room for every chain.
ChainsEnd ==
  /\ \A c \in (clear_code + 2)..(max_code - 1) : head[c] < c
  /\ lzwPc # "first" => oldcode < max_code
  /\ Len(stack) < LZW_TABLE_SIZE

\* What the codes since the last Clear code mean: each adds its string to the image, and
\* a string made of the one before and its own first byte to the table.
Strings ==
  LET Add(s, code) ==
        IF code < clear_code THEN <<code>>
        ELSE LET j == code - end_code   \* the j-th string of the table
             IN  IF j = Len(s) THEN s[j] \o <<s[j][1]>> ELSE s[j] \o <<s[j + 1][1]>>
  IN  FoldLeft(LAMBDA s, code : Append(s, Add(s, code)), <<>>, codes)
Sound == codes # <<>> /\ \A k \in DOMAIN codes :
           codes[k] < clear_code \/ codes[k] \in (end_code + 1)..(end_code + k - 1)
\* As long as the codes are sound, what is printed and what is still on the stack end
\* with the string of the last code.
CodesDecoded ==
  Sound => LET last == Strings[Len(codes)]
               out == pixels \o Reverse(stack)
           IN  IsSuffix(last, out)

\* The codes are the bits of the blocks, one behind the other, wherever the blocks are
\* cut, as long as every block but the last has room for a code: the position, counted
\* over all blocks, is where the codes before end, and the bytes kept are the right ones.
LongBlocks == \A b \in 1..(Len(img.blocks) - 1) : Len(img.blocks[b]) * ByteBits >= MAX_LZW_BITS
BytesOf == FlattenSeq(SubSeq(img.blocks, 1, blk))
CodesAreBits ==
  (LongBlocks /\ ~out_of_blocks /\ blk > 0) =>
    LET begin == Len(BytesOf) - last_byte
    IN  /\ cur_bit <= last_bit /\ begin * ByteBits + cur_bit = taken
        /\ \A i \in 0..(last_byte - 1) :
             begin + i >= 0 => code_buf[i] = BytesOf[begin + i + 1]

\* The rows of an interlaced image come in four passes: those at 0, 8, 16..., then at 4,
\* 12..., at 2, 6..., and the odd ones. A bitmap has them all in their order.
Pass(r) == CASE r % 8 = 0 -> 1 [] r % 8 = 4 -> 2 [] r % 4 = 2 -> 3 [] OTHER -> 4
Before(r) ==
  IF ~img.interlaced THEN r
  ELSE Cardinality({q \in 0..(img.height - 1) :
                      Pass(q) < Pass(r) \/ (Pass(q) = Pass(r) /\ q < r)})
RowsInOrder ==
  (lzwPc = "done" /\ img.write) =>
    /\ Len(rows) = img.height
    /\ \A r \in 0..(img.height - 1) :
         rows[r + 1] = SubSeq(pixels, Before(r) * img.width + 1, (Before(r) + 1) * img.width)

\* Every image is done, also when its codes end too early: then it is filled with zeros.
Ended == lzwPc = "done"
===============================================================================

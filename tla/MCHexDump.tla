------------------------------ MODULE MCHexDump ------------------------------
(***************************************************************************)
(* Instance of HexDump for TLC. Rows of 4 bytes and DWORDs of 2 keep the  *)
(* files short: MaxRd = 9 is two full rows and a short one.                *)
(***************************************************************************)
EXTENDS HexDump

Block(n, c) == [num |-> n, cnt |-> c]

\* Blocks shorter, as long as and longer than a row, repeated and mixed;
\* none of them makes the cursor wrap (BSwitch does).
MCBlockLists ==
  {<<Block(1, 2)>>, <<Block(3, 1), Block(2, 2)>>, <<Block(4, 2)>>,
   <<Block(5, 1), Block(4, 1)>>, <<Block(2, 3), Block(5, 1)>>}
=============================================================================

------------------------------ MODULE MCBSwitch -------------------------------
(***************************************************************************)
(* Instance of BSwitch for TLC. A DWORD has four bits, so that two digits  *)
(* name block sizes that make the cursor wrap; texts of -BMP are put       *)
(* together from pieces, right and wrong ones.                             *)
(***************************************************************************)
EXTENDS BSwitch

CONSTANT MaxText

\* The file is shown to its end, as bytes: what blocks do to the rest is for HexDump.
MCInit == SwitchInit /\ gdwEndOff = 0 /\ gdwBgnOff \in 0..1 /\ ~g_DoAsDWORDS
MCSpec ==
  /\ MCInit /\ [][SwitchNext]_<<vars, switchVars>>
  /\ WF_<<vars, switchVars>>(SwitchNext)

BlockChar == {":", "X", "?", "0", "1", "3"}
MCBlockTexts ==
  {<<":">> \o s : s \in UNION {[1..n -> BlockChar] : n \in 0..(MaxText - 1)}}

Pieces == {<<"1">>, <<":">>, <<":", "B", "R", "=", "3">>, <<":", "E", "C", "=", "1", "2">>,
           <<":", "B", "R", "=">>, <<":", "B", "X", "=", "1">>, <<"X">>}
MCBmpTexts ==
  {FlattenSeq(s) : s \in UNION {[1..n -> Pieces] : n \in 0..3}}
===============================================================================

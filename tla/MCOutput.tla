------------------------------- MODULE MCOutput -------------------------------
(***************************************************************************)
(* Instance of Output for TLC: one ordinary character, every text of up to *)
(* two characters, the longer ones that begin with it, and pieces of two,  *)
(* so that texts are cut, also between a CR and its LF.                    *)
(***************************************************************************)
EXTENDS Output

CONSTANT MaxText

MCTexts == UNION {{s \in [1..n -> Char] : n > 2 => s[1] \in Chars} : n \in 1..MaxText}
MCOldText == <<LF>>
==============================================================================

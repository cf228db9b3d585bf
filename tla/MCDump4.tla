------------------------------- MODULE MCDump4 --------------------------------
(***************************************************************************)
(* Instance of Dump4 for TLC. Commands are either a choice of switches and *)
(* up to MaxNames names of files of every kind (absent, with a wildcard,   *)
(* empty, taken by one handler or begun by another), or any MaxArgs        *)
(* arguments, with files of arguments that hold nothing, names and another *)
(* file, a wrong switch, and their own name.                               *)
(***************************************************************************)
EXTENDS Dump4

CONSTANTS MaxNames, MaxArgs

mode(s) == [kind |-> "mode", of |-> s]
name(n) == [kind |-> "name", of |-> n]
iname(n) == [kind |-> "iname", of |-> n]
at(f) == [kind |-> "at", of |-> f]
other(k) == [kind |-> k]

MCModes ==
  ToSet(Handlers) \cup {"ascii", "vosonly", "lib", "lnk", "avi", "obj",
                        "p", "xo", "xh", "xa"}
MCNames == {"absent", "wild", "empty", "plain", "gif", "cistar", "vos"}

MCArgFiles == {"comments", "two", "nested", "bad", "self", "missing"}
MCUnreadable == {"missing"}
MCArgsOf ==
  [f \in MCArgFiles |->
     CASE f = "two" -> <<name("gif"), mode({"gif"})>>
       [] f = "nested" -> <<at("two"), name("plain")>>
       [] f = "bad" -> <<name("plain"), other("wrong"), name("gif")>>
       [] f = "self" -> <<name("gif"), at("self")>>
       [] OTHER -> <<>>]

Switches ==
  {{"ascii"}, {"cis"}, {"geoff"}, {"vos"}, {"vos", "vosonly"}, {"gif"}, {"prof"},
   {"mk4"}, {"bmp"}, {"tar"}, {"xo"}, {"xh"}, {"xa"}, {"p"}, {"lnk"}}
MCCommandLines ==
  {<<mode(s), mode(t)>> \o [k \in DOMAIN ns |-> name(ns[k])] :
     s, t \in Switches, ns \in UNION {[1..n -> MCNames] : n \in 0..MaxNames}}
  \cup UNION {[1..n -> {mode({"gif"}), name("plain"), iname("vos"),
                        other("empty"), other("wrong"), other("help")}
                          \cup {at(f) : f \in MCArgFiles}] : n \in 0..MaxArgs}

MCAbsent == {<<"absent">>, <<"wild">>} \cup {<<"i", n>> : n \in MCNames}
MCWild == {<<"wild">>, <<"i", "wild">>}
MCUnmappable == {<<"empty">>}
MCLooks ==
  [n \in {<<m>> : m \in MCNames} \cup {<<"i", m>> : m \in MCNames} |->
     [h \in ToSet(Handlers) |->
        CASE n = <<"gif">> /\ h = "gif" -> "whole"
          [] n = <<"vos">> /\ h = "vos" -> "whole"
          [] n = <<"cistar">> /\ h = "cis" -> "part"
          [] n = <<"cistar">> /\ h = "tar" -> "whole"
          [] n = <<"gif">> /\ h = "bmp" -> "part"
          [] n = <<"plain">> /\ h = "geoff" -> "whole"
          [] h = "prof" -> "part"
          [] OTHER -> "none"]]
===============================================================================

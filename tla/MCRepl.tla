------------------------------- MODULE MCRepl -------------------------------
(***************************************************************************)
(* Commands with names of one letter.  The lines are all those of up to    *)
(* four characters over two words and a space, the set commands with these *)
(* words (names of commands are words like any other), and some more.      *)
(***************************************************************************)
EXTENDS Repl, SequencesExt

MCSpaces == {" ", "t"}

MCWords == {<<"x">>, <<"p">>, <<"g">>, <<"s">>, <<"d">>, <<"f">>, <<"s", "s">>}

MCExit == <<"x">>
MCPing == <<"p">>
MCGet == <<"g">>
MCSet == <<"s">>
MCDel == <<"d">>
MCFlush == <<"f">>

MCLines ==
  {l \in BoundedSeq({"s", "g", " "}, 4) :
     \A r \in Stretches(l) : SubSeq(l, r[1], r[2]) \in MCWords} \cup
  {<<"s", " ", k, " ", v>> : k \in {"s", "g"}, v \in {"s", "g"}} \cup
  {<<"x">>, <<"x", " ">>, <<" ", "x", " ", "s">>, <<"p">>, <<"t", "p", "t", "t">>,
   <<"f">>, <<"f", "t", "g">>, <<"d", " ", "g">>, <<"d", "t", "t", "s">>, <<"d">>,
   <<"s", " ", "g", " ", "s", " ", "s">>, <<"s", "t", "t", "s", " ", " ", "g", "t">>}
=============================================================================

----------------------------- MODULE MCOptions -----------------------------
(***************************************************************************)
(* All lists of up to four arguments of the server and the client, and for *)
(* the benchmark a backend and a workload in either order, with up to two  *)
(* arguments anywhere that set, repeat, misuse or are missing something.   *)
(***************************************************************************)
EXTENDS Options, TLC, SequencesExt

MCNumber == ("0" :> 0) @@ ("7" :> 7) @@ ("101" :> 101) @@ ("70000" :> 70000)

Lists(n, arguments) == UNION {[1 .. m -> arguments] : m \in 0 .. n}

SmallArguments == {"--help", "--repl", "--host", "--port", "0", "7", "70000"}

Settings ==
  {"--help"} \X {"--port"} \cup {"--port", "--host", "--clients", "--get-ratio", "--seed", "--what"} \X
  {"0", "7", "101", "--port"} \cup {<<"--backend", "redis">>, <<"--workload", "nothing">>}

\* The list with two arguments put in at position p, or one at its end.
With(list, p, pair) == SubSeq(list, 1, p) \o pair \o SubSeq(list, p + 1, Len(list))

Required == {<<"--backend", b, "--workload", "set">> : b \in {"attokv", "redis"}} \cup
            {<<"--workload", "set", "--backend", "attokv">>}

Extended(lists) == lists \cup {With(l, p, s) : l \in lists, p \in {0, 2, 4}, s \in Settings}

MCCommandLines ==
  [p \in {"server", "client", "benchmark"} |->
     IF p = "benchmark"
       THEN Extended(Extended(Required)) \cup Lists(2, {"--backend", "redis", "--help"})
            \cup {Append(l, "--port") : l \in Required}
       ELSE Lists(4, SmallArguments)]
=============================================================================

------------------------------ MODULE MCServer ------------------------------
(***************************************************************************)
(* Two clients that set, get and delete one key, send a line that is no    *)
(* command (the answer is longer than the line, too long for u), the empty *)
(* line and exit.  For liveness there are three, one of which sends a ping *)
(* to a server that has descriptors for two: one client stalls with its    *)
(* command or its answer half sent, one is admitted when another leaves.   *)
(***************************************************************************)
EXTENDS ClientServer, TLC

CONSTANTS c1, c2, c3

MCClients == {c1, c2}

MCThreeClients == {c1, c2, c3}

MCSpaces == {" "}

MCExit == <<"x">>
MCPing == <<"p">>
MCGet == <<"g">>
MCSet == <<"s">>
MCDel == <<"d">>
MCFlush == <<"f">>

MCWords == {MCExit, MCPing, MCGet, MCSet, MCDel, MCFlush, <<"u">>}

GetLine == <<"g", " ", "f">>
SetLine == <<"s", " ", "f", " ", "p">>
UnknownLine == <<"u">>

MCLines == {<<>>, GetLine, SetLine, MCExit, UnknownLine}

MCRequestSize == <<>> :> 0 @@ GetLine :> 1 @@ SetLine :> 1 @@ MCExit :> 1 @@ UnknownLine :> 1 @@
                 MCPing :> 1

\* An unknown line is quoted in the error message.
MCAnswerSize ==
  [p \in (MCLines \cup {MCPing}) \X Outputs |->
     IF p[2] = Nothing THEN 0 ELSE IF p[1] = UnknownLine THEN 2 ELSE 1]

\* One client sends two commands, the other one.
MCMaxAsked == c1 :> 2 @@ c2 :> 1

MCFewLines == {SetLine, GetLine, MCExit}

MCPingLine == {MCPing}

MCStalled == {c2, c3}

MCFewAsked == c1 :> 1 @@ c2 :> 1 @@ c3 :> 0
=============================================================================

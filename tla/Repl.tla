-------------------------------- MODULE Repl --------------------------------
(***************************************************************************)
(* run_repl (server/src/main.cpp): a line is read, run and answered until  *)
(* the exit command or the end of the input.                               *)
(***************************************************************************)
EXTENDS Executor, FiniteSets

CONSTANT Lines   (* the lines that may be typed                             *)

\* The words of a line, said without a position that moves: its longest
\* stretches without whitespace, from left to right.
Stretches(l) ==
  {r \in (1 .. Len(l)) \X (1 .. Len(l)) :
     /\ r[1] <= r[2]
     /\ \A i \in r[1] .. r[2] : l[i] \notin Spaces
     /\ r[1] = 1 \/ l[r[1] - 1] \in Spaces
     /\ r[2] = Len(l) \/ l[r[2] + 1] \in Spaces}

\* Lines are strings, and of such words.
ASSUME LinesAssumption ==
  /\ <<>> \notin Words
  /\ \A l \in Lines :
       /\ l \in Seq({l[i] : i \in DOMAIN l})
       /\ \A r \in Stretches(l) : SubSeq(l, r[1], r[2]) \in Words

VARIABLES
  store,    (* the contents of the store                                    *)
  line,     (* the last line                                                *)
  result,   (* what run_command returned for it                             *)
  running   (* FALSE once the loop was left                                 *)

vars == <<store, line, result, running>>

Init ==
  /\ store = [w \in Words |-> NoValue]
  /\ line = <<>>
  /\ result = Rejected(store)
  /\ running = TRUE

RunLine(l) ==
  /\ running
  /\ line' = l
  /\ result' = RunCommand(l, store)
  /\ store' = result'.store
  /\ running' = (result'.error \/ ~result'.stop)

EndOfInput ==
  /\ running
  /\ running' = FALSE
  /\ UNCHANGED <<store, line, result>>

Next == (\E l \in Lines : RunLine(l)) \/ EndOfInput

Spec == Init /\ [][Next]_vars

-----------------------------------------------------------------------------
(* Properties.                                                             *)

\* next_token called again and again finds every word of the line once, in
\* order, whatever whitespace stands before, between and behind them.
TokensAreStretches ==
  LET tokens == Tokens(line) IN
  /\ Len(tokens) = Cardinality(Stretches(line))
  /\ \A r \in Stretches(line) :
       tokens[Cardinality({q \in Stretches(line) : q[1] <= r[1]})] = SubSeq(line, r[1], r[2])

\* A line is run if and only if it is a command with exactly its arguments:
\* surplus words are never dropped, missing ones never made up.
AcceptedExactly ==
  LET words == Cardinality(Stretches(line)) IN
  line # <<>> =>
    (~result.error <=>
       \E r \in Stretches(line) :
         /\ \A q \in Stretches(line) : r[1] <= q[1]
         /\ SubSeq(line, r[1], r[2]) \in Names
         /\ words = 1 + RequiredArgs(SubSeq(line, r[1], r[2])))

\* The operation of the dictionary that the last line was, if it was one.
Operation == IF result.error THEN <<>> ELSE Tokens(line)[1]

ReplyOf ==
  LET k == IF Operation \in {GetName, SetName, DelName} THEN Tokens(line)[2] ELSE <<>> IN
  [op |-> CASE Operation = GetName   -> "get"
            [] Operation = SetName   -> "set"
            [] Operation = DelName   -> "del"
            [] Operation = FlushName -> "flush"
            [] OTHER -> "none",
   key |-> k,
   value |-> IF Operation = SetName THEN Tokens(line)[3] ELSE NoValue,
   out |-> result.output]

Dict == INSTANCE KVDict WITH Keys <- Words, Values <- Words, NoKey <- <<>>,
                             dict <- store, reply <- ReplyOf

\* The session is a dictionary: a line that is run is one operation of KVDict
\* with its output, and a line that is not changes nothing.
SessionIsDict ==
  [][\/ IF ReplyOf'.op = "none" THEN UNCHANGED store ELSE Dict!Next
     \/ UNCHANGED <<store, line, result>>]_vars
=============================================================================

------------------------------ MODULE Executor ------------------------------
(***************************************************************************)
(* The command executor (server/src/executor.cpp, command.cpp): it splits  *)
(* a line into words, finds the command and checks the number of its       *)
(* arguments, and runs it on the store.  A line is a sequence of           *)
(* characters and a word one without whitespace.  The store is seen as the *)
(* dictionary KVDict, which FastMap implements.                            *)
(***************************************************************************)
EXTENDS Integers, Sequences, FiniteSetsExt

CONSTANTS
  Spaces,   (* the characters is_whitespace accepts                         *)
  Words,    (* the words a line may hold                                    *)
  ExitName, PingName, GetName, SetName, DelName, FlushName,   (* builtins   *)
  NoValue,  (* NULL: std::nullopt of get, false of remove                   *)
  OK, Pong, (* the outputs of set, del and flush, and of ping               *)
  Nothing,  (* the empty output of exit                                     *)
  Invalid   (* the error messages of parseCommand                           *)

Names == {ExitName, PingName, GetName, SetName, DelName, FlushName}

ASSUME NamesAreWords == Names \subseteq Words

\* They are keys of one map.
ASSUME NamesAreDifferent ==
  /\ ExitName \notin {PingName, GetName, SetName, DelName, FlushName}
  /\ PingName \notin {GetName, SetName, DelName, FlushName}
  /\ GetName \notin {SetName, DelName, FlushName}
  /\ SetName \notin {DelName, FlushName}
  /\ DelName # FlushName

\* What a command may answer.
Outputs == Words \cup {NoValue, OK, Pong, Nothing, Invalid}

\* required_args of command::builtin.
RequiredArgs(name) ==
  CASE name \in {ExitName, PingName, FlushName} -> 0
    [] name \in {GetName, DelName} -> 1
    [] name = SetName -> 2

\* k_max_command_args, the size of the array of arguments.
MaxArgs == 2

-----------------------------------------------------------------------------
(* Splitting: next_token, and the loop of parseCommand that calls it.      *)

\* The first position from p on whose character is (not) whitespace, or the
\* one behind the line.
Skip(line, p, spaces) ==
  Min({q \in p .. Len(line) + 1 : q > Len(line) \/ (line[q] \in Spaces) # spaces})

NextToken(line, p) ==
  LET begin == Skip(line, p, TRUE)
      end   == Skip(line, begin, FALSE) IN
  [token |-> SubSeq(line, begin, end - 1), position |-> end]

\* Mutant: the search for the word starts without skipping whitespace.
TokensUnskipped(line) ==
  LET From[p \in 1 .. Len(line) + 1] ==
        LET end == Skip(line, p, FALSE) IN
        IF end = p THEN <<>> ELSE <<SubSeq(line, p, end - 1)>> \o From[end]
  IN From[1]

\* The words up to the first empty one, which is the end of the line.
Tokens(line) ==
  LET From[p \in 1 .. Len(line) + 1] ==
        LET next == NextToken(line, p) IN
        IF next.token = <<>> THEN <<>> ELSE <<next.token>> \o From[next.position]
  IN From[1]

-----------------------------------------------------------------------------
(* Results: CommandResult, and the store that the command leaves.          *)
Result(stop, error, output, store) ==
  [stop |-> stop, error |-> error, output |-> output, store |-> store]

Rejected(store) == Result(FALSE, TRUE, Invalid, store)

Command(valid, name, args) == [valid |-> valid, name |-> name, args |-> args]

\* Mutant: arguments that do not fit in the array are dropped.
ParseDropsArgs(tokens) ==
  LET name == Head(tokens)
      args == [i \in 1 .. Min({MaxArgs, Len(tokens) - 1}) |-> tokens[i + 1]] IN
  IF tokens # <<>> /\ name \in Names /\ Len(args) = RequiredArgs(name)
    THEN Command(TRUE, name, args) ELSE Command(FALSE, <<>>, <<>>)

\* parseCommand: an empty line, an unknown name and a wrong number of
\* arguments each give an error and no command.
Parse(tokens) ==
  LET name == Head(tokens)
      args == Tail(tokens) IN
  IF /\ tokens # <<>>
     /\ name \in Names
     /\ Len(args) <= MaxArgs
     /\ Len(args) = RequiredArgs(name)
    THEN Command(TRUE, name, args) ELSE Command(FALSE, <<>>, <<>>)

\* Mutant: set keeps the value a key has.
ExecuteKeepsOld(name, args, store) ==
  CASE name = ExitName  -> Result(TRUE, FALSE, Nothing, store)
    [] name = PingName  -> Result(FALSE, FALSE, Pong, store)
    [] name = GetName   -> Result(FALSE, FALSE, store[args[1]], store)
    [] name = SetName   -> Result(FALSE, FALSE, OK,
                              IF store[args[1]] = NoValue
                                THEN [store EXCEPT ![args[1]] = args[2]] ELSE store)
    [] name = DelName   -> Result(FALSE, FALSE, IF store[args[1]] = NoValue THEN NoValue ELSE OK,
                              [store EXCEPT ![args[1]] = NoValue])
    [] name = FlushName -> Result(FALSE, FALSE, OK, [w \in DOMAIN store |-> NoValue])

\* The _builtin functions.
Execute(name, args, store) ==
  CASE name = ExitName  -> Result(TRUE, FALSE, Nothing, store)
    [] name = PingName  -> Result(FALSE, FALSE, Pong, store)
    [] name = GetName   -> Result(FALSE, FALSE, store[args[1]], store)
    [] name = SetName   -> Result(FALSE, FALSE, OK, [store EXCEPT ![args[1]] = args[2]])
    [] name = DelName   -> Result(FALSE, FALSE, IF store[args[1]] = NoValue THEN NoValue ELSE OK,
                              [store EXCEPT ![args[1]] = NoValue])
    [] name = FlushName -> Result(FALSE, FALSE, OK, [w \in DOMAIN store |-> NoValue])

RunCommand(line, store) ==
  LET parsed == Parse(Tokens(line)) IN
  IF parsed.valid THEN Execute(parsed.name, parsed.args, store) ELSE Rejected(store)
=============================================================================

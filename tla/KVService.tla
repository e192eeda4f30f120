----------------------------- MODULE KVService ------------------------------
(***************************************************************************)
(* What the attokv server promises to its clients: a session for each of   *)
(* them, in which the commands run one at a time, each once, in the order  *)
(* they were sent, all sessions on one store; and the outputs come back in *)
(* that order.  Bytes, buffers, polling and connections are not seen here. *)
(***************************************************************************)
EXTENDS Executor

CONSTANTS
  Clients,     (* the sessions                                              *)
  Lines,       (* the commands, well-formed or not, that may be sent        *)
  AnswerSize,  (* the length of an output, given the line it answers        *)
  MaxMessage   (* MAX_MESSAGE_SIZE, the longest output that can be sent     *)

VARIABLES
  store,       (* the contents of the store                                 *)
  asked,       (* the lines each client has sent                            *)
  done,        (* the lines that have run for each client, with outputs     *)
  answers,     (* the outputs each client has got                           *)
  left,        (* the clients that have ended their session                 *)
  closed       (* the clients whose session the server has ended            *)

vars == <<store, asked, done, answers, left, closed>>

Init ==
  /\ store = [w \in Words |-> NoValue]
  /\ asked = [c \in Clients |-> <<>>]
  /\ done = [c \in Clients |-> <<>>]
  /\ answers = [c \in Clients |-> <<>>]
  /\ left = {}
  /\ closed = {}

Ask(c, l) ==
  /\ c \notin left
  /\ asked' = [asked EXCEPT ![c] = Append(@, l)]
  /\ UNCHANGED <<store, done, answers, left, closed>>

\* The next command of a session runs.  exit, and an output that is too long
\* to be sent, end the session.
Run(c) ==
  LET l == asked[c][Len(done[c]) + 1]
      result == RunCommand(l, store) IN
  /\ c \notin closed
  /\ Len(done[c]) < Len(asked[c])
  /\ store' = result.store
  /\ done' = [done EXCEPT ![c] = Append(@, [line |-> l, output |-> result.output])]
  /\ closed' = IF result.stop \/ AnswerSize[l, result.output] > MaxMessage THEN closed \cup {c} ELSE closed
  /\ UNCHANGED <<asked, answers, left>>

\* The output of a command that ended the session does not arrive.
Answer(c) ==
  LET next == done[c][Len(answers[c]) + 1] IN
  /\ c \notin left
  /\ Len(answers[c]) < Len(done[c])
  /\ c \in closed => Len(answers[c]) + 1 < Len(done[c])
  /\ answers' = [answers EXCEPT ![c] = Append(@, next.output)]
  /\ UNCHANGED <<store, asked, done, left, closed>>

Leave(c) ==
  /\ c \notin left
  /\ left' = left \cup {c}
  /\ UNCHANGED <<store, asked, done, answers, closed>>

\* Without a reason of its own the server ends only sessions left before.
Close(c) ==
  /\ c \in left \ closed
  /\ closed' = closed \cup {c}
  /\ UNCHANGED <<store, asked, done, answers, left>>

Next == \E c \in Clients : \/ \E l \in Lines : Ask(c, l)
                           \/ Run(c) \/ Answer(c) \/ Leave(c) \/ Close(c)

Spec == Init /\ [][Next]_vars
=============================================================================

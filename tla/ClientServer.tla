---------------------------- MODULE ClientServer ----------------------------
(***************************************************************************)
(* The server and its clients (client/src/client.cpp and the loop of       *)
(* client/src/main.cpp).  A client connects, sends commands and waits for  *)
(* the answer of each, until its input ends, an answer does not come, or   *)
(* it is killed.  client.cpp has one command in flight (Window = 1); the   *)
(* protocol does not ask for that, and Server takes any number.            *)
(***************************************************************************)
EXTENDS Server

CONSTANTS
  Lines,        (* the lines that may be typed                              *)
  RequestSize,  (* their lengths                                            *)
  MaxAsked,     (* bound: the commands that each client sends               *)
  Window,       (* the commands a client has in flight, 1 for client.cpp    *)
  Stalled       (* the clients that may stop reading and writing            *)

\* Only the empty line has no byte, and only exit an output without any: a
\* word, NULL, OK, PONG and the error messages are not empty.
ASSUME LinesAssumption ==
  \A l \in Lines : /\ Tokens(l) \in Seq(Words)
                   /\ RequestSize[l] \in Nat
                   /\ RequestSize[l] = 0 => l = <<>>
ASSUME AnswersAssumption ==
  /\ \A l \in Lines, o \in Outputs :
       AnswerSize[l, o] \in Nat /\ (AnswerSize[l, o] = 0 => o = Nothing)
  /\ Nothing \notin Words \cup {NoValue, OK, Pong, Invalid}

VARIABLES
  connected,    (* the clients that have called connect()                   *)
  left,         (* those that have closed their socket since                *)
  asked,        (* history: the lines given to command()                    *)
  out,          (* what write_message has still to send                     *)
  heard,        (* what read_message has received of the next answer        *)
  answers       (* history: what command() has returned                     *)

clientVars == <<connected, left, asked, out, heard, answers>>
vars == <<serverVars, backlog, connectionVars, clientVars>>

Init ==
  /\ ServerInit
  /\ ConnectionInit
  /\ connected = {}
  /\ left = {}
  /\ asked = [c \in Clients |-> <<>>]
  /\ out = [c \in Clients |-> <<>>]
  /\ heard = [c \in Clients |-> <<>>]
  /\ answers = [c \in Clients |-> <<>>]

Active(c) == c \in connected \ left

Waiting(c) == Len(answers[c]) < Len(asked[c])

Connect(c) ==
  /\ c \notin connected
  /\ connected' = connected \cup {c}
  /\ backlog' = Append(backlog, c)
  /\ UNCHANGED <<serverVars, connectionVars, left, asked, out, heard, answers>>

\* command() is called.  A line that is too long is never sent: command()
\* closes the socket, which is one of the reasons to Leave.
Ask(c, l) ==
  /\ Active(c)
  /\ out[c] = <<>>
  /\ Len(asked[c]) - Len(answers[c]) < Window
  /\ Len(asked[c]) < MaxAsked[c]
  /\ RequestSize[l] <= MaxMessage
  /\ asked' = [asked EXCEPT ![c] = Append(@, l)]
  /\ out' = [out EXCEPT ![c] = Frame(l, RequestSize[l])]
  /\ UNCHANGED <<serverVars, backlog, connectionVars, connected, left, heard, answers>>

\* A send() of write_message, which takes some of the bytes.
Send(c) ==
  /\ Active(c)
  /\ served[c] = "open"
  /\ \E n \in 1 .. Len(out[c]) :
       /\ Len(up[c]) + n <= BufferSize
       /\ up' = [up EXCEPT ![c] = @ \o SubSeq(out[c], 1, n)]
       /\ out' = [out EXCEPT ![c] = SubSeq(@, n + 1, Len(@))]
  /\ UNCHANGED <<serverVars, backlog, down, peer, served,
                 connected, left, asked, heard, answers>>

Heard(c) == heard[c] \o down[c]

\* A recv() of read_message, which takes what there is.  With one command in
\* flight there is nothing to receive before all of it was sent.
Receive(c) ==
  /\ Active(c)
  /\ Waiting(c)
  /\ down[c] # <<>>
  /\ IF IsComplete(Heard(c))
       THEN /\ answers' = [answers EXCEPT ![c] = Append(@, MessageOf(Heard(c)))]
            /\ heard' = [heard EXCEPT ![c] = <<>>]
            /\ down' = [down EXCEPT ![c] = Behind(Heard(c))]
       ELSE /\ heard' = [heard EXCEPT ![c] = Heard(c)]
            /\ down' = [down EXCEPT ![c] = <<>>]
            /\ UNCHANGED answers
  /\ UNCHANGED <<serverVars, backlog, up, peer, served, connected, left, asked, out>>

\* The socket is closed: a reset if bytes were left in it.
CloseSocket(c) ==
  /\ left' = left \cup {c}
  /\ peer' = [peer EXCEPT ![c] = IF down[c] = <<>> THEN "fin" ELSE "rst"]
  /\ down' = [down EXCEPT ![c] = <<>>]
  /\ out' = [out EXCEPT ![c] = <<>>]
  /\ heard' = [heard EXCEPT ![c] = <<>>]
  /\ UNCHANGED <<serverVars, backlog, up, served, connected, asked, answers>>

\* The end of the input, an overlong line, or a kill.
Leave(c) == Active(c) /\ CloseSocket(c)

\* command() fails, or returns nothing, because the server has hung up.
Fail(c) ==
  /\ Active(c)
  /\ Waiting(c)
  /\ \/ served[c] = "rst"
     \/ served[c] = "fin" /\ ~IsComplete(Heard(c))
  /\ CloseSocket(c)

\* Bytes that reach a closed socket are answered with a reset.
Reset(c) ==
  /\ peer[c] = "fin"
  /\ down[c] # <<>>
  /\ peer' = [peer EXCEPT ![c] = "rst"]
  /\ UNCHANGED <<serverVars, backlog, up, down, served, clientVars>>

ServerStep == ServerNext /\ UNCHANGED clientVars

Next == \/ ServerStep
        \/ \E c \in Clients : \/ Connect(c)
                              \/ \E l \in Lines : Ask(c, l)
                              \/ Send(c) \/ Receive(c) \/ Leave(c) \/ Fail(c) \/ Reset(c)

Spec == Init /\ [][Next]_vars

\* The server runs when poll() returns, bytes reach the other end, and a client
\* that has not stalled goes on with the command it has begun.
FairSpec ==
  /\ Spec
  /\ WF_vars(ServerStep)
  /\ \A c \in Clients : WF_vars(Reset(c))
  /\ \A c \in Clients \ Stalled :
       WF_vars(Send(c)) /\ WF_vars(Receive(c)) /\ WF_vars(Fail(c))

-----------------------------------------------------------------------------
(* Properties.                                                             *)

\* The frames of the commands that have not run, and those of the outputs of
\* the first n that have, as far as they have not been heard.
Requests(c) ==
  [i \in 1 .. Len(asked[c]) - Len(done[c]) |->
     LET l == asked[c][Len(done[c]) + i] IN Frame(l, RequestSize[l])]

Replies(c, n) ==
  [i \in 1 .. n - Len(answers[c]) |->
     LET d == done[c][Len(answers[c]) + i] IN
     Frame(d.output, AnswerSize[d.line, d.output])]

Bytes == [size : Nat, part : 1 .. HeaderSize] \cup
         [message : Lines \cup Outputs, part : Nat]

\* Every variable holds what its C++ counterpart can.
TypeOK ==
  /\ store \in [Words -> Words \cup {NoValue}]
  /\ Range(clients) \cup Range(backlog) \subseteq connected
  /\ Len(clients) <= DescriptorLimit
  /\ \A c \in Clients :
       /\ Range(reader[c]) \cup Range(writer[c]) \cup Range(up[c]) \cup Range(down[c])
            \cup Range(out[c]) \cup Range(heard[c]) \subseteq Bytes
       /\ Len(up[c]) <= BufferSize /\ Len(down[c]) <= BufferSize
       /\ {peer[c], served[c]} \subseteq {"open", "fin", "rst"}
  /\ left \subseteq connected

\* The index with which the loop goes on still is that of the client whose
\* descriptor was polled, although clients have been erased since.
EventsOfTheirClient ==
  \A d \in polled : d.index <= Len(clients) /\ clients[d.index] = d.fd

\* Each client is one connection: waiting, accepted or gone, never two.
ConnectedOnce ==
  \A c \in connected :
    Cardinality({i \in 1 .. Len(backlog) : backlog[i] = c}) +
    Cardinality({i \in 1 .. Len(clients) : clients[i] = c}) = IF served[c] = "open" THEN 1 ELSE 0

\* Between a client and the server no byte is lost, repeated or put in
\* another place, wherever a message was cut by the sockets: what is with the
\* reader, in the socket and still to be sent are the commands that have not
\* run, and likewise for the outputs that have not been heard.
BytesAccountedFor ==
  \A c \in Clients :
    Active(c) /\ served[c] = "open" =>
      /\ Received(c) \o out[c] = FlattenSeq(Requests(c))
      /\ Heard(c) \o writer[c] = FlattenSeq(Replies(c, Len(done[c])))

\* What the server promises, see KVService: commands run once, in order and
\* one at a time, outputs come back in order, sessions are not cut.
Service == INSTANCE KVService WITH closed <- {c \in Clients : served[c] # "open"}

ImplementsService == Service!Spec

\* A command sent by a client that is accepted and does not stall is answered,
\* or the client has left, whatever the other clients do or fail to do.
EveryoneServed ==
  \A c \in Clients \ Stalled : \A n \in 1 .. MaxAsked[c] :
    c \in Range(clients) /\ Len(asked[c]) >= n ~> (Len(answers[c]) >= n \/ c \in left)

\* If accept() has no descriptor for a client, the client waits for one to be
\* freed and no longer: as long as everyone who is accepted leaves at some
\* time, nobody stays in the backlog for ever, although all that the server
\* does about it is to try again.
EveryoneAdmitted ==
  (\A c \in Clients : c \in Range(clients) ~> c \in left)
    => \A c \in Clients : c \in Range(backlog) ~> c \notin Range(backlog)
=============================================================================

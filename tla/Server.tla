------------------------------- MODULE Server -------------------------------
(***************************************************************************)
(* The server (server/src/server.cpp): one thread that polls the listening *)
(* socket and those of the clients, reads and runs what has come, sends    *)
(* what is due and accepts new clients.  A handler is one step: a client   *)
(* acts on its own end of the connection, before or after the handler.     *)
(*                                                                         *)
(* A connection is a buffer of bytes for each direction.  Each end knows   *)
(* whether the other one is still "open", has been closed after all that   *)
(* it sent ("fin"), or was reset ("rst").                                  *)
(***************************************************************************)
EXTENDS Message, Executor, SequencesExt

CONSTANTS
  Clients,          (* the clients, each with one connection                *)
  AnswerSize,       (* the length of an output, given the line it answers   *)
  BufferSize,       (* the bytes a socket buffers                           *)
  DescriptorLimit   (* the clients that accept() has descriptors for        *)

ASSUME BufferAssumption == BufferSize \in Nat /\ DescriptorLimit \in Nat

VARIABLES
  store,     (* the contents of the store                                   *)
  clients,   (* m_clients                                                   *)
  reader,    (* m_header and m_payload of each reader, as far as received   *)
  writer,    (* m_header and m_payload of each writer, as far as unsent     *)
  running,   (* FALSE while the server is in poll()                         *)
  polled,    (* the descriptors with revents that are still to be handled   *)
  incoming,  (* the listening socket has POLLIN                             *)
  done,      (* history: the lines that were run for each client            *)
  backlog,   (* the connections waiting to be accepted                      *)
  up, down,  (* the bytes on their way to and from the server               *)
  peer,      (* the client's end, as the server gets to know it             *)
  served     (* the server's end, as the client gets to know it             *)

connectionVars == <<up, down, peer, served>>
serverVars == <<store, clients, reader, writer, running, polled, incoming, done>>

ServerInit ==
  /\ store = [w \in Words |-> NoValue]
  /\ clients = <<>>
  /\ reader = [c \in Clients |-> <<>>]
  /\ writer = [c \in Clients |-> <<>>]
  /\ running = FALSE
  /\ polled = {}
  /\ incoming = FALSE
  /\ done = [c \in Clients |-> <<>>]

ConnectionInit ==
  /\ backlog = <<>>
  /\ up = [c \in Clients |-> <<>>]
  /\ down = [c \in Clients |-> <<>>]
  /\ peer = [c \in Clients |-> "open"]
  /\ served = [c \in Clients |-> "open"]

-----------------------------------------------------------------------------
(* poll().                                                                 *)

HasPending(c) == writer[c] # <<>>

\* Mutant: a client is polled for both events at once.
EventsBoth(c) ==
  {e \in {"IN", "OUT", "ERR"} :
     \/ e = "ERR" /\ peer[c] = "rst"
     \/ e = "IN"  /\ (up[c] # <<>> \/ peer[c] # "open")
     \/ e = "OUT" /\ HasPending(c) /\ Len(down[c]) < BufferSize}

\* revents of a client: POLLOUT is asked for while a message is pending,
\* POLLIN otherwise, errors are always told.
Events(c) ==
  {e \in {"IN", "OUT", "ERR"} :
     \/ e = "ERR" /\ peer[c] = "rst"
     \/ e = "IN"  /\ ~HasPending(c) /\ (up[c] # <<>> \/ peer[c] # "open")
     \/ e = "OUT" /\ HasPending(c) /\ Len(down[c]) < BufferSize}

Poll ==
  LET descriptor(i) == [index |-> i, fd |-> clients[i], events |-> Events(clients[i])]
      all == {descriptor(i) : i \in 1 .. Len(clients)} IN
  /\ ~running
  /\ polled' = {d \in all : d.events # {}}
  /\ incoming' = (backlog # <<>>)
  /\ polled' # {} \/ incoming'
  /\ running' = TRUE
  /\ UNCHANGED <<store, clients, reader, writer, done, backlog, connectionVars>>

-----------------------------------------------------------------------------
(* handle_client_events, for the next descriptor that has any.             *)

\* Mutant: the clients are handled in the order they have in m_clients.
VisitForwards(d) == \A e \in polled : d.index <= e.index

\* The loop comes to the last client first.
Visit(d) == \A e \in polled : e.index <= d.index

\* Mutant: the last client is erased instead.
HandleDropLast(c, i) ==
  /\ clients' = RemoveAt(clients, Len(clients))
  /\ reader' = [reader EXCEPT ![c] = <<>>]
  /\ writer' = [writer EXCEPT ![c] = <<>>]

\* The client is erased from m_clients, with its reader and writer.
HandleDrop(c, i) ==
  /\ clients' = RemoveAt(clients, i)
  /\ reader' = [reader EXCEPT ![c] = <<>>]
  /\ writer' = [writer EXCEPT ![c] = <<>>]

\* The destructor of the socket.  Bytes that nobody read make it a reset.
Hangup(c, unread) ==
  /\ served' = [served EXCEPT ![c] = IF unread = <<>> THEN "fin" ELSE "rst"]
  /\ up' = [up EXCEPT ![c] = <<>>]
  /\ UNCHANGED <<down, peer>>

Handling(c, i, event) ==
  /\ running
  /\ c = clients[i]
  /\ \E d \in polled :
       /\ Visit(d)
       /\ i = d.index
       /\ event \in d.events
       /\ event # "ERR" => "ERR" \notin d.events
       /\ polled' = polled \ {d}
  /\ UNCHANGED <<running, incoming, backlog>>

HandleError(c, i) ==
  /\ Handling(c, i, "ERR")
  /\ HandleDrop(c, i)
  /\ Hangup(c, up[c])
  /\ UNCHANGED <<store, done>>

Received(c) == reader[c] \o up[c]

\* MessageReadStatus::incomplete: the bytes are kept for the next time.
ReadIncomplete(c, i) ==
  /\ Handling(c, i, "IN")
  /\ peer[c] = "open"
  /\ ~IsComplete(Received(c)) /\ ~Oversize(Received(c))
  /\ reader' = [reader EXCEPT ![c] = Received(c)]
  /\ up' = [up EXCEPT ![c] = <<>>]
  /\ UNCHANGED <<store, clients, writer, done, down, peer, served>>

\* Mutant: a message that is not complete yet is taken for a broken one.
ReadFailsEarly(c, i) ==
  /\ Handling(c, i, "IN")
  /\ ~IsComplete(Received(c))
  /\ HandleDrop(c, i)
  /\ Hangup(c, <<>>)
  /\ UNCHANGED <<store, done>>

\* Mutant: a closed connection is taken for one without bytes.
ReadClosedKept(c, i) ==
  /\ Handling(c, i, "IN")
  /\ ~IsComplete(Received(c))
  /\ reader' = [reader EXCEPT ![c] = Received(c)]
  /\ up' = [up EXCEPT ![c] = <<>>]
  /\ UNCHANGED <<store, clients, writer, done, down, peer, served>>

\* MessageReadStatus::closed, and the errors of read_from.
ReadFails(c, i) ==
  /\ Handling(c, i, "IN")
  /\ \/ Oversize(Received(c))
     \/ peer[c] # "open" /\ ~IsComplete(Received(c))
  /\ HandleDrop(c, i)
  /\ Hangup(c, <<>>)
  /\ UNCHANGED <<store, done>>

\* A command runs.  Only exit stops, and it has no output; close_after_write
\* is therefore FALSE whenever a message is queued.  queue() also refuses a
\* message while one is pending, or one that is too long.
ReadCommand(c, i) ==
  /\ Handling(c, i, "IN")
  /\ IsComplete(Received(c)) /\ ~Oversize(Received(c))
  /\ \E bytes \in {Received(c)} : \E line \in {MessageOf(bytes)} :
     \E result \in {RunCommand(line, store)} :
       /\ store' = result.store
       /\ done' = [done EXCEPT ![c] = Append(@, [line |-> line, output |-> result.output])]
       /\ IF result.stop \/ HasPending(c) \/ AnswerSize[line, result.output] > MaxMessage
            THEN /\ HandleDrop(c, i)
                 /\ Hangup(c, Behind(bytes))
            ELSE /\ reader' = [reader EXCEPT ![c] = <<>>]
                 /\ writer' = [writer EXCEPT ![c] = Frame(result.output, AnswerSize[line, result.output])]
                 /\ up' = [up EXCEPT ![c] = Behind(bytes)]
                 /\ UNCHANGED <<clients, down, peer, served>>

\* Mutant: the socket blocks until it has room for the whole message.
WriteBlocks(c, i) ==
  /\ Handling(c, i, "OUT")
  /\ peer[c] # "rst"
  /\ Len(down[c]) + Len(writer[c]) <= BufferSize
  /\ down' = [down EXCEPT ![c] = @ \o writer[c]]
  /\ writer' = [writer EXCEPT ![c] = <<>>]
  /\ UNCHANGED <<store, clients, reader, done, up, peer, served>>

\* MessageWriter::write_to, as far as the socket takes the bytes.
WriteAnswer(c, i) ==
  LET free == BufferSize - Len(down[c])
      n == IF Len(writer[c]) < free THEN Len(writer[c]) ELSE free IN
  /\ Handling(c, i, "OUT")
  /\ peer[c] # "rst"
  /\ down' = [down EXCEPT ![c] = @ \o SubSeq(writer[c], 1, n)]
  /\ writer' = [writer EXCEPT ![c] = SubSeq(@, n + 1, Len(@))]
  /\ UNCHANGED <<store, clients, reader, done, up, peer, served>>

WriteFails(c, i) ==
  /\ Handling(c, i, "OUT")
  /\ peer[c] = "rst"
  /\ HandleDrop(c, i)
  /\ Hangup(c, up[c])
  /\ UNCHANGED <<store, done>>

HandleClient ==
  \E c \in Clients, i \in 1 .. Len(clients) :
    \/ HandleError(c, i)
    \/ ReadIncomplete(c, i) \/ ReadFails(c, i) \/ ReadCommand(c, i)
    \/ WriteAnswer(c, i) \/ WriteFails(c, i)

-----------------------------------------------------------------------------
\* Mutant: what accept() returns is not checked.
AcceptUnchecked ==
  /\ running
  /\ polled = {}
  /\ IF incoming
       THEN clients' = clients \o backlog /\ backlog' = <<>>
       ELSE UNCHANGED <<clients, backlog>>
  /\ running' = FALSE
  /\ incoming' = FALSE
  /\ UNCHANGED <<store, reader, writer, polled, done, connectionVars>>

\* accept_clients: until nobody waits, or until accept() finds no descriptor
\* (it then warns, and poll() returns at once the next time).
AcceptClients ==
  LET free == DescriptorLimit - Len(clients)
      n == IF Len(backlog) < free THEN Len(backlog) ELSE free IN
  /\ running
  /\ polled = {}
  /\ IF incoming
       THEN /\ clients' = clients \o SubSeq(backlog, 1, n)
            /\ backlog' = SubSeq(backlog, n + 1, Len(backlog))
       ELSE UNCHANGED <<clients, backlog>>
  /\ running' = FALSE
  /\ incoming' = FALSE
  /\ UNCHANGED <<store, reader, writer, polled, done, connectionVars>>

ServerNext == Poll \/ HandleClient \/ AcceptClients
=============================================================================

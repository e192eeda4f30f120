----------------------------- MODULE Descriptors -----------------------------
(***************************************************************************)
(* Who owns which file descriptor in the server: Socket (lib/src/          *)
(* socket.cpp), which closes what it holds unless that was moved on, and   *)
(* the three places where the server keeps one (server/src/server.cpp): a  *)
(* local variable of start and accept_clients, m_listen_socket and the     *)
(* elements of m_clients.  Erasing an element of a vector assigns each     *)
(* later one to the place before it and destroys the last; here these are  *)
(* steps of their own.  The kernel hands out the lowest free descriptor,   *)
(* so one that was closed too early soon names another connection.         *)
(***************************************************************************)
EXTENDS Integers, Sequences, SequencesExt

CONSTANTS
  Fds,          (* the descriptors of the process                           *)
  Connections,  (* the connections that clients make                        *)
  Listening,    (* what the listening socket's descriptor names             *)
  Free          (* what a descriptor names that is not open                 *)

NoFd == -1

ASSUME FdsAssumption == Fds \subseteq Nat
ASSUME NamesAssumption == {Listening, Free} \cap Connections = {} /\ Listening # Free

VARIABLES
  open,      (* the kernel's table: what each descriptor names              *)
  local,     (* m_fd of the local Socket of start or accept_clients         *)
  listen,    (* m_fd of m_listen_socket                                     *)
  clients,   (* m_clients: m_fd of each socket, and bytes, the connections  *)
             (* from which the reader of that element has kept something    *)
  phase,     (* "new", "start", "run", "accept", "erase", "ended"           *)
  hole,      (* in "erase", the next element to be assigned or destroyed    *)
  erased,    (* in "erase", history: the index that was given to erase      *)
  known      (* history: the connections that were ever accepted            *)

vars == <<open, local, listen, clients, phase, hole, erased, known>>

Init ==
  /\ open = [f \in Fds |-> Free]
  /\ local = NoFd
  /\ listen = NoFd
  /\ clients = <<>>
  /\ phase = "new"
  /\ hole = 0
  /\ erased = 0
  /\ known = {}

-----------------------------------------------------------------------------
(* Socket.                                                                 *)

\* reset: the table after a Socket that holds fd was told to hold new, which
\* the destructor calls with -1 and move assignment with other.release().
Reset(fd, new) == IF fd = new \/ fd = NoFd THEN open ELSE [open EXCEPT ![fd] = Free]

\* What socket() and accept() return.
LowestFree(f) == f \in Fds /\ open[f] = Free /\ \A g \in Fds : g < f => open[g] # Free

-----------------------------------------------------------------------------
(* Server::start.                                                          *)

OpenSocket ==
  /\ phase = "new"
  /\ \E f \in Fds : LowestFree(f) /\ local' = f /\ open' = [open EXCEPT ![f] = Listening]
  /\ phase' = "start"
  /\ UNCHANGED <<listen, clients, hole, erased, known>>

\* bind, listen or fcntl fails, and err() ends the process without unwinding.
StartFails ==
  /\ phase = "start"
  /\ phase' = "ended"
  /\ UNCHANGED <<open, local, listen, clients, hole, erased, known>>

\* m_listen_socket = std::move(socket).
StartListening ==
  /\ phase = "start"
  /\ open' = Reset(listen, local)
  /\ listen' = local
  /\ local' = NoFd
  /\ phase' = "run"
  /\ UNCHANGED <<clients, hole, erased, known>>

-----------------------------------------------------------------------------
(* Server::accept_clients.                                                 *)

Accept(k) ==
  /\ phase = "run"
  /\ listen # NoFd
  /\ k \notin known
  /\ \E f \in Fds : LowestFree(f) /\ local' = f /\ open' = [open EXCEPT ![f] = k]
  /\ known' = known \cup {k}
  /\ phase' = "accept"
  /\ UNCHANGED <<listen, clients, hole, erased>>

\* set_nonblocking or set_nodelay fails: the local variable is destroyed.
SetUpFails ==
  /\ phase = "accept"
  /\ open' = Reset(local, NoFd)
  /\ local' = NoFd
  /\ phase' = "run"
  /\ UNCHANGED <<listen, clients, hole, erased, known>>

\* The socket is moved into a new element.  (A vector that has to grow moves
\* its elements to new ones in the same way, each once.)
PushBack ==
  /\ phase = "accept"
  /\ clients' = Append(clients, [fd |-> local, bytes |-> {}])
  /\ local' = NoFd
  /\ phase' = "run"
  /\ UNCHANGED <<open, listen, hole, erased, known>>

-----------------------------------------------------------------------------
(* Server::run.                                                            *)

\* A read that is incomplete leaves bytes in the reader, ...
ReadSome(i) ==
  /\ phase = "run"
  /\ clients' = [clients EXCEPT ![i].bytes = @ \cup {open[clients[i].fd]}]
  /\ UNCHANGED <<open, local, listen, phase, hole, erased, known>>

\* ... and one that completes a message resets it.
ReadAll(i) ==
  /\ phase = "run"
  /\ clients' = [clients EXCEPT ![i].bytes = {}]
  /\ UNCHANGED <<open, local, listen, phase, hole, erased, known>>

\* Mutant: the iterator is one too far.
EraseNext(i) ==
  /\ phase = "run"
  /\ hole' = i + 1
  /\ erased' = i
  /\ phase' = "erase"
  /\ UNCHANGED <<open, local, listen, clients, known>>

\* Mutant: the last element goes.
ErasePops(i) ==
  /\ phase = "run"
  /\ hole' = Len(clients)
  /\ erased' = i
  /\ phase' = "erase"
  /\ UNCHANGED <<open, local, listen, clients, known>>

\* m_clients.erase(m_clients.begin() + i).
Erase(i) ==
  /\ phase = "run"
  /\ hole' = i
  /\ erased' = i
  /\ phase' = "erase"
  /\ UNCHANGED <<open, local, listen, clients, known>>

\* Mutant: the descriptor is copied, and stays with the other one as well.
ShiftDownCopies ==
  /\ phase = "erase"
  /\ hole < Len(clients)
  /\ open' = Reset(clients[hole].fd, clients[hole + 1].fd)
  /\ clients' = [clients EXCEPT ![hole] = clients[hole + 1]]
  /\ hole' = hole + 1
  /\ UNCHANGED <<local, listen, phase, erased, known>>

\* Mutant: the socket is moved, the reader stays where it is.
ShiftDownSocket ==
  /\ phase = "erase"
  /\ hole < Len(clients)
  /\ open' = Reset(clients[hole].fd, clients[hole + 1].fd)
  /\ clients' = [clients EXCEPT ![hole].fd = clients[hole + 1].fd, ![hole + 1].fd = NoFd]
  /\ hole' = hole + 1
  /\ UNCHANGED <<local, listen, phase, erased, known>>

\* ClientConnection's move assignment, member by member.
ShiftDown ==
  /\ phase = "erase"
  /\ hole < Len(clients)
  /\ open' = Reset(clients[hole].fd, clients[hole + 1].fd)
  /\ clients' = [clients EXCEPT ![hole] = clients[hole + 1], ![hole + 1].fd = NoFd]
  /\ hole' = hole + 1
  /\ UNCHANGED <<local, listen, phase, erased, known>>

\* The last element is destroyed.
DestroyLast ==
  /\ phase = "erase"
  /\ hole = Len(clients)
  /\ open' = Reset(clients[hole].fd, NoFd)
  /\ clients' = SubSeq(clients, 1, Len(clients) - 1)
  /\ phase' = "run"
  /\ hole' = 0
  /\ erased' = 0
  /\ UNCHANGED <<local, listen, known>>

\* Server::close: m_clients.clear(), m_listen_socket.reset().
Close ==
  /\ phase = "run"
  /\ open' = [f \in Fds |-> IF \/ f = listen
                               \/ \E i \in DOMAIN clients : clients[i].fd = f
                              THEN Free ELSE open[f]]
  /\ clients' = <<>>
  /\ listen' = NoFd
  /\ phase' = "ended"
  /\ UNCHANGED <<local, hole, erased, known>>

Next ==
  \/ OpenSocket \/ StartFails \/ StartListening
  \/ \E k \in Connections : Accept(k)
  \/ SetUpFails \/ PushBack
  \/ \E i \in DOMAIN clients : ReadSome(i) \/ ReadAll(i) \/ Erase(i)
  \/ ShiftDown \/ DestroyLast
  \/ Close

Spec == Init /\ [][Next]_vars

-----------------------------------------------------------------------------
(* Properties.                                                             *)

Elements == [fd : Fds \cup {NoFd}, bytes : SUBSET Connections]

\* Every variable holds what its C++ counterpart can.
TypeOK ==
  /\ open \in [Fds -> Connections \cup {Listening, Free}]
  /\ local \in Fds \cup {NoFd}
  /\ listen \in Fds \cup {NoFd}
  /\ clients \in Seq(Elements)
  /\ phase \in {"new", "start", "run", "accept", "erase", "ended"}
  /\ hole \in Nat
  /\ erased \in Nat
  /\ phase = "erase" => hole \in 1 .. Len(clients)
  /\ known \subseteq Connections

HeldByClients(f) == {i \in DOMAIN clients : clients[i].fd = f}

\* A descriptor is open exactly as long as one Socket holds it, and never two:
\* none leaks and none is closed twice, also in the middle of an erase, when
\* each connection is passed down by one place.
OwnedOnce ==
  \A f \in Fds :
    /\ open[f] # Free <=> f \in {listen, local} \/ HeldByClients(f) # {}
    /\ f = listen => f # local
    /\ f \in {listen, local} => HeldByClients(f) = {}
    /\ \A i, j \in HeldByClients(f) : i = j

\* What a reader keeps of a command is from the connection it is to go on
\* reading from, whatever element it has been moved to since.
ReaderWithItsSocket ==
  \A i \in DOMAIN clients :
    clients[i].fd # NoFd => clients[i].bytes \subseteq {open[clients[i].fd]}

\* What each phase knows of the sockets, ...
PhaseKnows ==
  /\ phase \in {"new", "start"} => listen = NoFd /\ clients = <<>>
  /\ phase \in {"new", "run", "erase"} => local = NoFd
  /\ phase \in {"start", "accept"} => local \in Fds
  /\ phase \in {"run", "accept", "erase"} => listen \in Fds
  /\ phase = "accept" => open[local] \in Connections

\* ... and that an element without a descriptor is the one erase is about to
\* fill: with these the properties above are inductive.
OnlyHoleEmpty ==
  \A i \in DOMAIN clients :
    IF clients[i].fd = NoFd THEN phase = "erase" /\ i = hole
                            ELSE open[clients[i].fd] \in Connections

Inv == TypeOK /\ OwnedOnce /\ ReaderWithItsSocket /\ PhaseKnows /\ OnlyHoleEmpty

\* What the element names, if it was not moved from.
Names(c) == IF c.fd = NoFd THEN Free ELSE open[c.fd]

MovedFrom == {i \in DOMAIN clients : clients[i].fd = NoFd}

\* The connections of m_clients, without the element that was moved from, of
\* which there is at most one.
Served ==
  LET all == [i \in DOMAIN clients |-> Names(clients[i])] IN
  IF MovedFrom = {} THEN all ELSE RemoveAt(all, CHOOSE i \in MovedFrom : TRUE)

\* The list of connections changes at its end by accept, and by erase at the
\* index that was meant, all others keeping their order.
ListMovesTogether ==
  [][\/ Served' = Served
     \/ Len(Served') = Len(Served) + 1 /\ SubSeq(Served', 1, Len(Served)) = Served
     \/ phase = "erase" /\ Served' = RemoveAt(Served, erased)
     \/ phase' = "ended"]_vars
=============================================================================

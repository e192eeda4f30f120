------------------------- MODULE Descriptors_proofs -------------------------
(***************************************************************************)
(* Who owns a descriptor, for every set of descriptors and connections,    *)
(* that is, for any number of clients.                                     *)
(***************************************************************************)
EXTENDS Descriptors, SequenceLemmas

\* NoFd is no descriptor.
LEMMA FdsAreReal == Fds \subseteq Nat /\ NoFd \notin Fds
BY FdsAssumption DEF NoFd

\* The elements of m_clients, as a function.
LEMMA ClientsAreElements ==
  ASSUME TypeOK
  PROVE  /\ Len(clients) \in Nat
         /\ DOMAIN clients = 1 .. Len(clients)
         /\ \A i \in 1 .. Len(clients) : /\ clients[i] \in Elements
                                         /\ clients[i].fd \in Fds \cup {NoFd}
                                         /\ clients[i].bytes \subseteq Connections
<1>1. Len(clients) \in Nat /\ DOMAIN clients = 1 .. Len(clients)
  BY LenProperties DEF TypeOK
<1>2. \A i \in 1 .. Len(clients) : clients[i] \in Elements
  BY ElementOfSeq DEF TypeOK
<1> QED
  BY <1>1, <1>2 DEF Elements

\* A free descriptor is with nobody.
LEMMA FreeIsNotHeld ==
  ASSUME Inv, NEW f \in Fds, open[f] = Free
  PROVE  f \notin {listen, local} /\ \A i \in DOMAIN clients : clients[i].fd # f
BY DEF Inv, OwnedOnce, HeldByClients

-----------------------------------------------------------------------------
(* The invariant is inductive: one lemma for each operation.               *)

LEMMA InitInv ==
  ASSUME Init
  PROVE  Inv
<1>1. TypeOK
  BY EmptySeq DEF Init, TypeOK
<1>2. DOMAIN clients = {}
  BY DEF Init
<1> QED
  BY <1>1, <1>2, FdsAreReal
     DEF Init, Inv, OwnedOnce, HeldByClients, ReaderWithItsSocket, PhaseKnows, OnlyHoleEmpty

LEMMA OpenSocketInv ==
  ASSUME Inv, OpenSocket
  PROVE  Inv'
<1>1. PICK f \in Fds : open[f] = Free /\ local' = f /\ open' = [open EXCEPT ![f] = Listening]
  BY DEF OpenSocket, LowestFree
<1>2. clients = <<>> /\ DOMAIN clients = {} /\ listen = NoFd /\ local = NoFd
  BY DEF Inv, PhaseKnows, OpenSocket
<1>3. TypeOK'
  BY <1>1 DEF Inv, TypeOK, OpenSocket
<1>4. OwnedOnce'
  BY <1>1, <1>2, FdsAreReal, NamesAssumption
     DEF Inv, TypeOK, OpenSocket, OwnedOnce, HeldByClients
<1> QED
  BY <1>1, <1>2, <1>3, <1>4
     DEF Inv, OpenSocket, ReaderWithItsSocket, PhaseKnows, OnlyHoleEmpty

LEMMA StartFailsInv ==
  ASSUME Inv, StartFails
  PROVE  Inv'
BY DEF Inv, StartFails, TypeOK, OwnedOnce, HeldByClients, ReaderWithItsSocket, PhaseKnows, OnlyHoleEmpty

LEMMA StartListeningInv ==
  ASSUME Inv, StartListening
  PROVE  Inv'
<1>1. /\ clients = <<>> /\ DOMAIN clients = {} /\ listen = NoFd /\ local \in Fds
      /\ open' = open /\ listen' = local /\ local' = NoFd /\ clients' = clients
  BY DEF Inv, PhaseKnows, StartListening, Reset
<1> QED
  BY <1>1, FdsAreReal
     DEF Inv, StartListening, TypeOK, OwnedOnce, HeldByClients, ReaderWithItsSocket, PhaseKnows, OnlyHoleEmpty

LEMMA AcceptInv ==
  ASSUME Inv, NEW k \in Connections, Accept(k)
  PROVE  Inv'
<1>1. PICK f \in Fds : open[f] = Free /\ local' = f /\ open' = [open EXCEPT ![f] = k]
  BY DEF Accept, LowestFree
<1>2. /\ f \notin {listen, local} /\ \A i \in DOMAIN clients : clients[i].fd # f
      /\ local = NoFd /\ listen \in Fds
      /\ clients' = clients /\ listen' = listen /\ phase = "run" /\ phase' = "accept"
  BY <1>1, FreeIsNotHeld DEF Inv, PhaseKnows, Accept
<1>3. /\ open \in [Fds -> Connections \cup {Listening, Free}]
      /\ open'[f] = k /\ k # Free
      /\ \A g \in Fds : g # f => open'[g] = open[g]
  BY <1>1, NamesAssumption DEF Inv, TypeOK
<1>4. TypeOK'
  BY <1>1 DEF Inv, TypeOK, Accept
<1>5. OwnedOnce'
  BY <1>1, <1>2, <1>3, FdsAreReal DEF Inv, OwnedOnce, HeldByClients
<1>6. \A i \in DOMAIN clients : clients[i].fd \in Fds /\ open'[clients[i].fd] = open[clients[i].fd]
  BY <1>2, <1>3, ClientsAreElements DEF Inv, OnlyHoleEmpty
<1> QED
  BY <1>1, <1>2, <1>3, <1>4, <1>5, <1>6
     DEF Inv, ReaderWithItsSocket, PhaseKnows, OnlyHoleEmpty

LEMMA SetUpFailsInv ==
  ASSUME Inv, SetUpFails
  PROVE  Inv'
<1>1. /\ local \in Fds /\ local # NoFd /\ local' = NoFd
      /\ open' = [open EXCEPT ![local] = Free]
      /\ clients' = clients /\ listen' = listen /\ phase = "accept" /\ phase' = "run"
  BY FdsAreReal DEF Inv, PhaseKnows, SetUpFails, Reset
<1>2. local # listen /\ \A i \in DOMAIN clients : clients[i].fd # local
  BY <1>1 DEF Inv, OwnedOnce, HeldByClients
<1>3. /\ open \in [Fds -> Connections \cup {Listening, Free}]
      /\ open'[local] = Free
      /\ \A g \in Fds : g # local => open'[g] = open[g]
  BY <1>1 DEF Inv, TypeOK
<1>4. TypeOK'
  BY <1>1 DEF Inv, TypeOK, SetUpFails
<1>5. OwnedOnce'
  BY <1>1, <1>2, <1>3, FdsAreReal DEF Inv, OwnedOnce, HeldByClients
<1>6. \A i \in DOMAIN clients : clients[i].fd \in Fds /\ open'[clients[i].fd] = open[clients[i].fd]
  BY <1>1, <1>2, <1>3, ClientsAreElements DEF Inv, OnlyHoleEmpty
<1> QED
  BY <1>1, <1>4, <1>5, <1>6
     DEF Inv, ReaderWithItsSocket, PhaseKnows, OnlyHoleEmpty

LEMMA PushBackInv ==
  ASSUME Inv, PushBack
  PROVE  Inv'
<1> DEFINE n == Len(clients)
<1>1. /\ local \in Fds /\ local' = NoFd /\ open' = open /\ listen' = listen
      /\ open[local] \in Connections
      /\ phase = "accept" /\ phase' = "run"
      /\ clients' = Append(clients, [fd |-> local, bytes |-> {}])
  BY DEF Inv, PhaseKnows, PushBack
<1>2. [fd |-> local, bytes |-> {}] \in Elements
  BY <1>1 DEF Elements
<1>3. /\ clients' \in Seq(Elements) /\ Len(clients') = n + 1
      /\ DOMAIN clients = 1 .. n /\ DOMAIN clients' = 1 .. n + 1 /\ n \in Nat
      /\ clients'[n + 1].fd = local /\ clients'[n + 1].bytes = {}
      /\ \A i \in 1 .. n : clients'[i] = clients[i]
  <2>1. clients \in Seq(Elements) /\ n \in Nat /\ DOMAIN clients = 1 .. n
    BY ClientsAreElements DEF Inv, TypeOK
  <2>2. /\ clients' \in Seq(Elements) /\ Len(clients') = n + 1
        /\ clients'[n + 1] = [fd |-> local, bytes |-> {}]
        /\ \A i \in 1 .. n : clients'[i] = clients[i]
    BY <1>1, <1>2, <2>1, AppendProperties
  <2> QED
    BY <2>1, <2>2, LenProperties
<1>4. local # listen /\ \A i \in 1 .. n : clients[i].fd # local
  BY <1>1, <1>3 DEF Inv, OwnedOnce, HeldByClients
<1>5. TypeOK'
  BY <1>1, <1>3 DEF Inv, TypeOK, PushBack
<1>6. OwnedOnce'
  BY <1>1, <1>3, <1>4, FdsAreReal DEF Inv, OwnedOnce, HeldByClients
<1>7. ReaderWithItsSocket' /\ OnlyHoleEmpty'
  BY <1>1, <1>3, <1>4, FdsAreReal DEF Inv, ReaderWithItsSocket, OnlyHoleEmpty
<1> QED
  BY <1>1, <1>5, <1>6, <1>7 DEF Inv, PhaseKnows

\* What ReadSome and ReadAll share: the bytes of one element change.
LEMMA BytesInv ==
  ASSUME Inv, phase = "run", NEW i \in DOMAIN clients, NEW b,
         b \subseteq {open[clients[i].fd]},
         clients' = [clients EXCEPT ![i].bytes = b],
         UNCHANGED <<open, local, listen, phase, hole, erased, known>>
  PROVE  Inv'
<1>1. /\ clients \in Seq(Elements) /\ Len(clients) \in Nat /\ DOMAIN clients = 1 .. Len(clients)
      /\ clients[i] \in Elements
  BY ClientsAreElements DEF Inv, TypeOK
<1>2. clients[i].fd \in Fds /\ open[clients[i].fd] \in Connections
  BY <1>1 DEF Inv, OnlyHoleEmpty, Elements
<1>3. [clients[i] EXCEPT !.bytes = b] \in Elements
  BY <1>1, <1>2 DEF Elements
<1>4. clients' = [clients EXCEPT ![i] = [clients[i] EXCEPT !.bytes = b]]
  OBVIOUS
<1>5. /\ clients' \in Seq(Elements) /\ Len(clients') = Len(clients)
      /\ \A j \in 1 .. Len(clients) :
           clients'[j] = IF j = i THEN [clients[i] EXCEPT !.bytes = b] ELSE clients[j]
  BY <1>1, <1>3, <1>4, ExceptSeq
<1>6. /\ DOMAIN clients' = DOMAIN clients
      /\ \A j \in DOMAIN clients : /\ clients'[j].fd = clients[j].fd
                                   /\ clients'[j].bytes = IF j = i THEN b ELSE clients[j].bytes
  BY <1>1, <1>5 DEF Elements
<1>7. TypeOK'
  BY <1>5 DEF Inv, TypeOK
<1>8. OwnedOnce'
  BY <1>6 DEF Inv, OwnedOnce, HeldByClients
<1> QED
  BY <1>2, <1>6, <1>7, <1>8 DEF Inv, ReaderWithItsSocket, PhaseKnows, OnlyHoleEmpty

LEMMA ReadSomeInv ==
  ASSUME Inv, NEW i \in DOMAIN clients, ReadSome(i)
  PROVE  Inv'
<1>1. clients[i].fd # NoFd
  BY DEF Inv, OnlyHoleEmpty, ReadSome
<1>2. clients[i].bytes \cup {open[clients[i].fd]} \subseteq {open[clients[i].fd]}
  BY <1>1 DEF Inv, ReaderWithItsSocket
<1> QED
  BY <1>2, BytesInv DEF ReadSome

LEMMA ReadAllInv ==
  ASSUME Inv, NEW i \in DOMAIN clients, ReadAll(i)
  PROVE  Inv'
<1> DEFINE none == {}
<1>1. /\ phase = "run" /\ none \subseteq {open[clients[i].fd]}
      /\ clients' = [clients EXCEPT ![i].bytes = none]
      /\ UNCHANGED <<open, local, listen, phase, hole, erased, known>>
  BY DEF ReadAll
<1> HIDE DEF none
<1> QED
  BY <1>1, BytesInv

LEMMA EraseInv ==
  ASSUME Inv, NEW i \in DOMAIN clients, Erase(i)
  PROVE  Inv'
<1>1. i \in 1 .. Len(clients) /\ i \in Nat
  BY ClientsAreElements DEF Inv
<1> QED
  BY <1>1
     DEF Inv, Erase, TypeOK, OwnedOnce, HeldByClients, ReaderWithItsSocket, PhaseKnows, OnlyHoleEmpty

\* What moving an element down by one place makes of the vector.
LEMMA ShiftDownShape ==
  ASSUME Inv, ShiftDown
  PROVE  /\ hole \in DOMAIN clients /\ hole + 1 \in DOMAIN clients /\ hole # hole + 1
         /\ clients' \in Seq(Elements)
         /\ Len(clients') = Len(clients) /\ DOMAIN clients' = DOMAIN clients
         /\ clients'[hole] = clients[hole + 1]
         /\ clients'[hole + 1].fd = NoFd
         /\ clients[hole + 1].fd \in Fds
         /\ \A j \in DOMAIN clients \ {hole, hole + 1} : clients'[j] = clients[j]
<1> DEFINE moved == [clients EXCEPT ![hole] = clients[hole + 1]]
<1>1. /\ clients \in Seq(Elements) /\ Len(clients) \in Nat /\ DOMAIN clients = 1 .. Len(clients)
      /\ hole \in 1 .. Len(clients) /\ hole + 1 \in 1 .. Len(clients) /\ hole # hole + 1
  BY ClientsAreElements DEF Inv, TypeOK, ShiftDown
<1>2. clients[hole + 1] \in Elements /\ clients[hole + 1].fd \in Fds
  BY <1>1, ClientsAreElements DEF Inv, OnlyHoleEmpty
<1>3. /\ moved \in Seq(Elements) /\ Len(moved) = Len(clients)
      /\ \A j \in 1 .. Len(clients) : moved[j] = IF j = hole THEN clients[hole + 1] ELSE clients[j]
  BY <1>1, <1>2, ExceptSeq
<1>4. moved[hole + 1] = clients[hole + 1]
  BY <1>1, <1>3
<1>5. [clients[hole + 1] EXCEPT !.fd = NoFd] \in Elements
  BY <1>2 DEF Elements
<1>6. clients' = [moved EXCEPT ![hole + 1] = [clients[hole + 1] EXCEPT !.fd = NoFd]]
  BY <1>4 DEF ShiftDown
<1>7. /\ clients' \in Seq(Elements) /\ Len(clients') = Len(clients)
      /\ \A j \in 1 .. Len(clients) :
           clients'[j] = IF j = hole + 1 THEN [clients[hole + 1] EXCEPT !.fd = NoFd] ELSE moved[j]
  <2> HIDE DEF moved
  <2> QED
    BY <1>1, <1>3, <1>5, <1>6, ExceptSeq
<1>8. DOMAIN clients' = DOMAIN clients
  BY <1>1, <1>7, LenProperties
<1>9. [clients[hole + 1] EXCEPT !.fd = NoFd].fd = NoFd
  BY <1>2 DEF Elements
<1> QED
  BY <1>1, <1>2, <1>3, <1>7, <1>8, <1>9

LEMMA ShiftDownInv ==
  ASSUME Inv, ShiftDown
  PROVE  Inv'
<1> DEFINE old == clients[hole].fd
           passed == clients[hole + 1].fd
<1>1. /\ hole \in DOMAIN clients /\ hole + 1 \in DOMAIN clients /\ hole # hole + 1
      /\ DOMAIN clients' = DOMAIN clients
      /\ clients'[hole] = clients[hole + 1]
      /\ clients'[hole + 1].fd = NoFd
      /\ passed \in Fds
      /\ \A j \in DOMAIN clients \ {hole, hole + 1} : clients'[j] = clients[j]
  BY ShiftDownShape
<1>2. /\ local' = local /\ listen' = listen /\ phase = "erase" /\ phase' = "erase"
      /\ hole' = hole + 1 /\ local = NoFd
  BY DEF Inv, PhaseKnows, ShiftDown
<1>3. \A j \in DOMAIN clients : j # hole + 1 => clients[j].fd # passed
  BY <1>1 DEF Inv, OwnedOnce, HeldByClients
<1>4. old # NoFd => /\ old \in Fds
                    /\ old \notin {listen, local}
                    /\ \A j \in DOMAIN clients : j # hole => clients[j].fd # old
  BY <1>1, ClientsAreElements DEF Inv, OwnedOnce, HeldByClients
<1>5. /\ open \in [Fds -> Connections \cup {Listening, Free}]
      /\ open' = IF old = NoFd THEN open ELSE [open EXCEPT ![old] = Free]
  BY <1>1, <1>3 DEF Inv, TypeOK, ShiftDown, Reset
<1>6. \A f \in Fds : open'[f] = IF f = old THEN Free ELSE open[f]
  BY <1>5, FdsAreReal
<1>7. TypeOK'
  <2>1. open' \in [Fds -> Connections \cup {Listening, Free}]
    BY <1>5
  <2>2. hole' \in Nat /\ hole' \in 1 .. Len(clients')
    BY <1>1, <1>2, ShiftDownShape, ClientsAreElements DEF Inv, TypeOK
  <2> QED
    BY <1>2, <2>1, <2>2, ShiftDownShape DEF Inv, TypeOK, ShiftDown
<1>8. OwnedOnce'
  <2> SUFFICES ASSUME NEW f \in Fds
               PROVE  /\ open'[f] # Free <=> f = listen \/ \E i \in DOMAIN clients : clients'[i].fd = f
                      /\ f = listen => \A i \in DOMAIN clients : clients'[i].fd # f
                      /\ \A i, j \in DOMAIN clients : clients'[i].fd = f /\ clients'[j].fd = f => i = j
    BY <1>1, <1>2, FdsAreReal DEF OwnedOnce, HeldByClients
  <2>1. /\ open[f] # Free <=> f = listen \/ \E i \in DOMAIN clients : clients[i].fd = f
        /\ f = listen => \A i \in DOMAIN clients : clients[i].fd # f
        /\ \A i, j \in DOMAIN clients : clients[i].fd = f /\ clients[j].fd = f => i = j
    BY <1>2, FdsAreReal DEF Inv, OwnedOnce, HeldByClients
  <2>2. /\ \A i \in DOMAIN clients : clients'[i].fd = f =>
             \/ i = hole /\ f = passed
             \/ i \notin {hole, hole + 1} /\ clients[i].fd = f
        /\ f = passed => clients'[hole].fd = f
    BY <1>1, FdsAreReal
  <2>3. CASE f = old
    BY <1>1, <1>3, <1>4, <1>6, <2>1, <2>2, FdsAreReal
  <2>4. CASE f # old
    <3>1. open'[f] = open[f]
      BY <1>6, <2>4
    <3>2. \A i \in DOMAIN clients : clients[i].fd = f => i # hole
      BY <2>4
    <3>3. (\E i \in DOMAIN clients : clients'[i].fd = f) <=> (\E i \in DOMAIN clients : clients[i].fd = f)
      BY <1>1, <2>2, <3>2
    <3> QED
      BY <1>1, <1>3, <2>1, <2>2, <3>1, <3>3
  <2> QED
    BY <2>3, <2>4
<1>9. \A i \in DOMAIN clients :
        clients'[i].fd # NoFd => /\ i # hole + 1
                                 /\ clients'[i].fd # old
                                 /\ open'[clients'[i].fd] = open[clients'[i].fd]
  BY <1>1, <1>3, <1>4, <1>6, ClientsAreElements DEF Inv
<1>10. ReaderWithItsSocket' /\ OnlyHoleEmpty'
  BY <1>1, <1>2, <1>9, FdsAreReal DEF Inv, ReaderWithItsSocket, OnlyHoleEmpty
<1> QED
  BY <1>2, <1>7, <1>8, <1>10 DEF Inv, PhaseKnows

LEMMA DestroyLastInv ==
  ASSUME Inv, DestroyLast
  PROVE  Inv'
<1> DEFINE n == Len(clients)
           old == clients[n].fd
<1>1. /\ n \in Nat /\ n \in 1 .. n /\ DOMAIN clients = 1 .. n /\ hole = n
      /\ old \in Fds \cup {NoFd}
      /\ \A i \in 1 .. n : clients[i] \in Elements
  BY ClientsAreElements DEF Inv, TypeOK, DestroyLast
<1>2. /\ clients' \in Seq(Elements) /\ Len(clients') = n - 1 /\ DOMAIN clients' = 1 .. n - 1
      /\ \A i \in 1 .. n - 1 : clients'[i] = clients[i]
  <2>1. clients' = SubSeq(clients, 1, n - 1)
    BY DEF DestroyLast
  <2>2. /\ clients' \in Seq(Elements) /\ Len(clients') = n - 1
        /\ \A i \in 1 .. n - 1 : clients'[i] = clients[i]
    BY <1>1, <2>1, SubSeqProperties
  <2> QED
    BY <2>2, LenProperties
<1>3. /\ local' = local /\ listen' = listen /\ phase = "erase" /\ phase' = "run"
      /\ local = NoFd /\ hole' = 0
  BY DEF Inv, PhaseKnows, DestroyLast
<1>4. old # NoFd => /\ old \notin {listen, local}
                    /\ \A j \in 1 .. n - 1 : clients[j].fd # old
  BY <1>1 DEF Inv, OwnedOnce, HeldByClients
<1>5. /\ open \in [Fds -> Connections \cup {Listening, Free}]
      /\ open' = IF old = NoFd THEN open ELSE [open EXCEPT ![old] = Free]
  BY <1>1 DEF Inv, TypeOK, DestroyLast, Reset
<1>6. \A f \in Fds : open'[f] = IF f = old THEN Free ELSE open[f]
  BY <1>5, FdsAreReal
<1>7. TypeOK'
  <2>1. open' \in [Fds -> Connections \cup {Listening, Free}]
    BY <1>5
  <2> QED
    BY <1>2, <1>3, <2>1 DEF Inv, TypeOK, DestroyLast
<1>8. OwnedOnce'
  BY <1>1, <1>2, <1>3, <1>4, <1>6, FdsAreReal DEF Inv, OwnedOnce, HeldByClients
<1>9. \A i \in 1 .. n - 1 : /\ clients[i].fd \in Fds /\ clients[i].fd # old
                            /\ open'[clients[i].fd] = open[clients[i].fd]
  BY <1>1, <1>4, <1>6, ClientsAreElements, FdsAreReal DEF Inv, OnlyHoleEmpty
<1>10. ReaderWithItsSocket' /\ OnlyHoleEmpty'
  BY <1>1, <1>2, <1>3, <1>9, FdsAreReal DEF Inv, ReaderWithItsSocket, OnlyHoleEmpty
<1> QED
  BY <1>3, <1>7, <1>8, <1>10 DEF Inv, PhaseKnows

LEMMA CloseInv ==
  ASSUME Inv, Close
  PROVE  Inv'
<1>1. /\ clients' = <<>> /\ DOMAIN clients' = {} /\ clients' \in Seq(Elements)
      /\ listen' = NoFd /\ local' = local /\ local = NoFd /\ phase' = "ended"
  BY EmptySeq DEF Inv, PhaseKnows, Close
<1>2. \A f \in Fds : open'[f] = Free
  <2> SUFFICES ASSUME NEW f \in Fds, open'[f] # Free
               PROVE  FALSE
    OBVIOUS
  <2>1. open[f] # Free /\ f # listen /\ \A i \in DOMAIN clients : clients[i].fd # f
    BY DEF Close
  <2>2. open[f] = Free
    BY <1>1, <2>1, FdsAreReal DEF Inv, OwnedOnce, HeldByClients
  <2> QED
    BY <2>1, <2>2
<1>3. open' \in [Fds -> Connections \cup {Listening, Free}]
  BY DEF Inv, TypeOK, Close
<1>4. TypeOK'
  BY <1>1, <1>3 DEF Inv, TypeOK, Close
<1> QED
  BY <1>1, <1>2, <1>4, FdsAreReal
     DEF Inv, OwnedOnce, HeldByClients, ReaderWithItsSocket, PhaseKnows, OnlyHoleEmpty

LEMMA StutterInv ==
  ASSUME Inv, UNCHANGED vars
  PROVE  Inv'
BY DEF Inv, vars, TypeOK, OwnedOnce, HeldByClients, ReaderWithItsSocket, PhaseKnows, OnlyHoleEmpty

LEMMA NextInv ==
  ASSUME Inv, [Next]_vars
  PROVE  Inv'
<1>1. CASE Next
  BY <1>1, OpenSocketInv, StartFailsInv, StartListeningInv, AcceptInv, SetUpFailsInv, PushBackInv,
     ReadSomeInv, ReadAllInv, EraseInv, ShiftDownInv, DestroyLastInv, CloseInv DEF Next
<1>2. CASE UNCHANGED vars
  BY <1>2, StutterInv
<1> QED
  BY <1>1, <1>2

-----------------------------------------------------------------------------
(* The theorems.                                                           *)

\* The inductive invariant, for every set of descriptors and connections.
THEOREM Invariance == Spec => []Inv
<1>1. Init => Inv
  BY InitInv
<1>2. Inv /\ [Next]_vars => Inv'
  BY NextInv
<1> QED
  BY <1>1, <1>2, PTL DEF Spec

\* Sockets, the vector and what is left of an erase keep their types.
THEOREM TypeCorrect == Spec => []TypeOK
BY Invariance, PTL DEF Inv

\* Every descriptor is open exactly while one Socket holds it.
THEOREM NeverTwiceOrLost == Spec => []OwnedOnce
BY Invariance, PTL DEF Inv

\* A reader stays with the connection whose bytes it keeps.
THEOREM ReaderStays == Spec => []ReaderWithItsSocket
BY Invariance, PTL DEF Inv

-----------------------------------------------------------------------------
(* The list of connections.                                                *)

\* Erase is at the element that was given to it until the first move.
EraseBegins == phase = "erase" /\ clients[hole].fd # NoFd => hole = erased

\* It stays so.
LEMMA NextEraseBegins ==
  ASSUME Inv, EraseBegins, [Next]_vars
  PROVE  EraseBegins'
<1>1. CASE phase' # "erase"
  BY <1>1 DEF EraseBegins
<1>2. ASSUME NEW i \in DOMAIN clients, Erase(i) PROVE EraseBegins'
  BY <1>2 DEF EraseBegins, Erase
<1>3. ASSUME NEW i \in DOMAIN clients, ReadSome(i) \/ ReadAll(i) PROVE phase' # "erase"
  BY <1>3 DEF ReadSome, ReadAll
<1>4. CASE ShiftDown
  BY <1>4, ShiftDownShape DEF EraseBegins, ShiftDown
<1>5. CASE UNCHANGED vars
  BY <1>5 DEF EraseBegins, vars
<1>6. CASE \/ OpenSocket \/ StartFails \/ StartListening \/ (\E k \in Connections : Accept(k))
           \/ SetUpFails \/ PushBack \/ DestroyLast \/ Close
  BY <1>1, <1>6 DEF OpenSocket, StartFails, StartListening, Accept, SetUpFails, PushBack, DestroyLast, Close
<1> QED
  BY <1>1, <1>2, <1>3, <1>4, <1>5, <1>6 DEF Next

\* What names are in the list.
Named == Connections \cup {Listening, Free}

\* Served, of any vector c and table f.
ServedOf(c, f) ==
  LET all == [i \in DOMAIN c |-> IF c[i].fd = NoFd THEN Free ELSE f[c[i].fd]]
      gone == {i \in DOMAIN c : c[i].fd = NoFd} IN
  IF gone = {} THEN all ELSE RemoveAt(all, CHOOSE i \in gone : TRUE)

\* The list t is that of all elements of c, ...
Lists(t, c, f) ==
  /\ t \in Seq(Named) /\ Len(t) = Len(c)
  /\ \A i \in 1 .. Len(c) : t[i] = f[c[i].fd]

\* ... or that of all but the one at h.
ListsBut(t, c, f, h) ==
  /\ t \in Seq(Named) /\ Len(t) = Len(c) - 1
  /\ \A i \in 1 .. Len(t) : i < h => t[i] = f[c[i].fd]
  /\ \A i \in 1 .. Len(t) : ~(i < h) => t[i] = f[c[i + 1].fd]

\* Served is ServedOf, before and after a step.
LEMMA ServedIs == Served = ServedOf(clients, open) /\ Served' = ServedOf(clients', open')
BY DEF Served, ServedOf, Names, MovedFrom

\* r is t without the element at h.
Removed(r, t, h) ==
  /\ r \in Seq(Named) /\ Len(r) = Len(t) - 1
  /\ \A j \in 1 .. Len(r) : j < h => r[j] = t[j]
  /\ \A j \in 1 .. Len(r) : ~(j < h) => r[j] = t[j + 1]

\* RemoveAt does that.
LEMMA RemoveAtIs ==
  ASSUME NEW t \in Seq(Named), NEW h \in 1 .. Len(t)
  PROVE  Removed(RemoveAt(t, h), t, h)
<1>1. PICK r : r = RemoveAt(t, h)
  OBVIOUS
<1>2. Removed(r, t, h)
  BY <1>1, RemoveAtProperties DEF Removed
<1> QED
  BY <1>1, <1>2

\* With no element moved from, ...
LEMMA ServedAll ==
  ASSUME NEW c \in Seq(Elements), NEW f \in [Fds -> Named],
         \A i \in DOMAIN c : c[i].fd # NoFd
  PROVE  Lists(ServedOf(c, f), c, f)
<1> DEFINE t == [i \in DOMAIN c |-> f[c[i].fd]]
<1>1. Len(c) \in Nat /\ DOMAIN c = 1 .. Len(c)
  BY LenProperties
<1>2. ASSUME NEW i \in 1 .. Len(c) PROVE f[c[i].fd] \in Named
  <2>1. c[i] \in Elements /\ c[i].fd # NoFd
    BY <1>1, ElementOfSeq
  <2> QED
    BY <2>1 DEF Elements
<1>3. t \in Seq(Named) /\ Len(t) = Len(c) /\ \A i \in 1 .. Len(c) : t[i] = f[c[i].fd]
  BY <1>1, <1>2
<1>4. ServedOf(c, f) = t
  BY DEF ServedOf
<1> QED
  BY <1>3, <1>4 DEF Lists

\* ... and with the one at h.
LEMMA ServedBut ==
  ASSUME NEW c \in Seq(Elements), NEW f \in [Fds -> Named], NEW h \in DOMAIN c, c[h].fd = NoFd,
         \A i \in DOMAIN c : i # h => c[i].fd # NoFd
  PROVE  ListsBut(ServedOf(c, f), c, f, h)
<1> DEFINE t == [i \in DOMAIN c |-> IF c[i].fd = NoFd THEN Free ELSE f[c[i].fd]]
           gone == {i \in DOMAIN c : c[i].fd = NoFd}
           r == RemoveAt(t, h)
<1>1. Len(c) \in Nat /\ DOMAIN c = 1 .. Len(c) /\ h \in 1 .. Len(c)
  BY LenProperties
<1>2. ASSUME NEW i \in 1 .. Len(c), i # h PROVE f[c[i].fd] \in Named /\ c[i].fd # NoFd
  <2>1. c[i] \in Elements /\ c[i].fd # NoFd
    BY <1>1, <1>2, ElementOfSeq
  <2> QED
    BY <2>1 DEF Elements
<1>3. /\ t \in Seq(Named) /\ Len(t) = Len(c)
      /\ \A i \in 1 .. Len(c) : i # h => t[i] = f[c[i].fd]
  <2>1. Free \in Named
    BY DEF Named
  <2> QED
    BY <1>1, <1>2, <2>1
<1>4. ServedOf(c, f) = r
  <2>1. gone = {h}
    OBVIOUS
  <2>2. (CHOOSE i \in gone : TRUE) = h
    BY <2>1
  <2>3. ServedOf(c, f) = IF gone = {} THEN t ELSE RemoveAt(t, CHOOSE i \in gone : TRUE)
    BY DEF ServedOf
  <2> HIDE DEF t, gone
  <2> QED
    BY <2>1, <2>2, <2>3 DEF r
<1> HIDE DEF t
<1>5. /\ r \in Seq(Named) /\ Len(r) = Len(t) - 1
      /\ \A j \in 1 .. Len(r) : j < h => r[j] = t[j]
      /\ \A j \in 1 .. Len(r) : ~(j < h) => r[j] = t[j + 1]
  <2>1. h \in 1 .. Len(t)
    BY <1>1, <1>3
  <2>2. t \in Seq(Named) /\ r = RemoveAt(t, h)
    BY <1>3
  <2> HIDE DEF r
  <2> QED
    BY <2>1, <2>2, RemoveAtIs DEF Removed
<1> HIDE DEF r
<1>6. ASSUME NEW i \in 1 .. Len(r) PROVE /\ i < h => r[i] = f[c[i].fd]
                                         /\ ~(i < h) => r[i] = f[c[i + 1].fd]
  <2>1. i \in 1 .. Len(c) /\ i + 1 \in 1 .. Len(c) /\ (i < h => i # h) /\ (~(i < h) => i + 1 # h)
    BY <1>1, <1>3, <1>5
  <2> QED
    BY <1>3, <1>5, <2>1
<1> QED
  BY <1>3, <1>4, <1>5, <1>6 DEF ListsBut

\* What the list is when nothing is being erased, ...
LEMMA ServedNow ==
  ASSUME Inv, phase = "erase" => clients[hole].fd # NoFd
  PROVE  Lists(Served, clients, open)
<1>1. clients \in Seq(Elements) /\ open \in [Fds -> Named]
  BY DEF Inv, TypeOK, Named
<1>2. \A i \in DOMAIN clients : clients[i].fd # NoFd
  BY DEF Inv, OnlyHoleEmpty
<1> QED
  BY <1>1, <1>2, ServedAll, ServedIs

\* ... or from the first move of an erase on.
LEMMA ServedErasing ==
  ASSUME Inv, phase = "erase", clients[hole].fd = NoFd
  PROVE  ListsBut(Served, clients, open, hole)
<1>1. clients \in Seq(Elements) /\ open \in [Fds -> Named] /\ hole \in DOMAIN clients
  BY LenProperties DEF Inv, TypeOK, Named
<1>2. \A i \in DOMAIN clients : i # hole => clients[i].fd # NoFd
  BY DEF Inv, OnlyHoleEmpty
<1> QED
  BY <1>1, <1>2, ServedBut, ServedIs

\* The same after a step.
LEMMA ServedNext ==
  ASSUME Inv', phase' = "erase" => clients'[hole'].fd # NoFd
  PROVE  Lists(Served', clients', open')
<1>1. clients' \in Seq(Elements) /\ open' \in [Fds -> Named]
  BY DEF Inv, TypeOK, Named
<1>2. \A i \in DOMAIN clients' : clients'[i].fd # NoFd
  BY DEF Inv, OnlyHoleEmpty
<1> QED
  BY <1>1, <1>2, ServedAll, ServedIs

LEMMA ServedErasingNext ==
  ASSUME Inv', phase' = "erase", clients'[hole'].fd = NoFd
  PROVE  ListsBut(Served', clients', open', hole')
<1>1. clients' \in Seq(Elements) /\ open' \in [Fds -> Named] /\ hole' \in DOMAIN clients'
  BY LenProperties DEF Inv, TypeOK, Named
<1>2. \A i \in DOMAIN clients' : i # hole' => clients'[i].fd # NoFd
  BY DEF Inv, OnlyHoleEmpty
<1> QED
  BY <1>1, <1>2, ServedBut, ServedIs

\* The list is the same while the sockets and what they name are.
LEMMA SameList ==
  ASSUME Inv, Inv', phase # "erase", phase' = "erase" => clients'[hole'].fd # NoFd,
         Len(clients') = Len(clients),
         \A i \in 1 .. Len(clients) : open'[clients'[i].fd] = open[clients[i].fd]
  PROVE  Served' = Served
<1>1. Lists(Served, clients, open) /\ Lists(Served', clients', open')
  BY ServedNow, ServedNext
<1>2. /\ Served \in Seq(Named) /\ Served' \in Seq(Named) /\ Len(Served') = Len(Served)
      /\ \A i \in 1 .. Len(Served') : Served'[i] = Served[i]
  BY <1>1 DEF Lists
<1> QED
  BY <1>2, SeqEqual

\* A descriptor that is opened or closed is none of a client's.
LEMMA OtherSocketsList ==
  ASSUME Inv, Inv', phase # "erase", phase' # "erase", clients' = clients, NEW f \in Fds, NEW v,
         \A i \in DOMAIN clients : clients[i].fd # f,
         open' = [open EXCEPT ![f] = v] \/ open' = open
  PROVE  Served' = Served
<1>1. Len(clients') = Len(clients) /\ DOMAIN clients = 1 .. Len(clients)
  BY ClientsAreElements DEF Inv
<1>2. \A i \in 1 .. Len(clients) : clients[i].fd \in Fds
  BY <1>1, ClientsAreElements DEF Inv, OnlyHoleEmpty
<1>3. \A i \in 1 .. Len(clients) : open'[clients'[i].fd] = open[clients[i].fd]
  BY <1>1, <1>2 DEF Inv, TypeOK
<1> QED
  BY <1>1, <1>3, SameList

\* Opening, accepting and failing to set up leave the list alone.
LEMMA OpenSocketList ==
  ASSUME Inv, Inv', OpenSocket
  PROVE  Served' = Served
<1>1. PICK f \in Fds : open[f] = Free /\ open' = [open EXCEPT ![f] = Listening]
  BY DEF OpenSocket, LowestFree
<1> QED
  BY <1>1, FreeIsNotHeld, OtherSocketsList DEF OpenSocket

LEMMA StartListeningList ==
  ASSUME Inv, Inv', StartListening
  PROVE  Served' = Served
<1>1. local \in Fds /\ clients = <<>> /\ DOMAIN clients = {} /\ open' = open
  BY DEF Inv, PhaseKnows, StartListening, Reset
<1> QED
  BY <1>1, OtherSocketsList DEF StartListening

LEMMA AcceptList ==
  ASSUME Inv, Inv', NEW k \in Connections, Accept(k)
  PROVE  Served' = Served
<1>1. PICK f \in Fds : open[f] = Free /\ open' = [open EXCEPT ![f] = k]
  BY DEF Accept, LowestFree
<1> QED
  BY <1>1, FreeIsNotHeld, OtherSocketsList DEF Accept

LEMMA SetUpFailsList ==
  ASSUME Inv, Inv', SetUpFails
  PROVE  Served' = Served
<1>1. local \in Fds /\ open' = [open EXCEPT ![local] = Free]
  BY FdsAreReal DEF Inv, PhaseKnows, SetUpFails, Reset
<1>2. \A i \in DOMAIN clients : clients[i].fd # local
  BY <1>1 DEF Inv, OwnedOnce, HeldByClients
<1> QED
  BY <1>1, <1>2, OtherSocketsList DEF SetUpFails

\* An accepted socket comes last.
LEMMA PushBackList ==
  ASSUME Inv, Inv', PushBack
  PROVE  Len(Served') = Len(Served) + 1 /\ SubSeq(Served', 1, Len(Served)) = Served
<1>1. Lists(Served, clients, open) /\ Lists(Served', clients', open')
  BY ServedNow, ServedNext DEF PushBack
<1>2. /\ Len(clients) \in Nat /\ Len(clients') = Len(clients) + 1 /\ open' = open
      /\ \A i \in 1 .. Len(clients) : clients'[i] = clients[i]
  <2>1. clients \in Seq(Elements) /\ [fd |-> local, bytes |-> {}] \in Elements
    BY DEF Inv, TypeOK, PhaseKnows, PushBack, Elements
  <2> QED
    BY <2>1, AppendProperties, LenProperties DEF PushBack
<1>3. /\ Served \in Seq(Named) /\ Served' \in Seq(Named) /\ Len(Served) \in Nat
      /\ Len(Served') = Len(Served) + 1
      /\ \A i \in 1 .. Len(Served) : Served'[i] = Served[i]
  BY <1>1, <1>2 DEF Lists
<1> DEFINE s == Served
           t == Served'
           r == SubSeq(t, 1, Len(s))
<1>4. Len(s) <= Len(t)
  BY <1>3
<1> HIDE DEF s, t
<1>5. s \in Seq(Named) /\ t \in Seq(Named) /\ Len(s) \in Nat /\ \A i \in 1 .. Len(s) : t[i] = s[i]
  BY <1>3 DEF s, t
<1>6. r \in Seq(Named) /\ Len(r) = Len(s) /\ \A i \in 1 .. Len(s) : r[i] = t[i]
  BY <1>4, <1>5, SplitJoin
<1> HIDE DEF r
<1>7. r = s
  BY <1>5, <1>6, SeqEqual
<1> QED
  BY <1>3, <1>7 DEF r, s, t

\* Reading changes no socket.
LEMMA ReadList ==
  ASSUME Inv, Inv', NEW i \in DOMAIN clients, ReadSome(i) \/ ReadAll(i)
  PROVE  Served' = Served
<1>1. phase = "run" /\ phase' = "run" /\ open' = open
  BY DEF ReadSome, ReadAll
<1>2. /\ DOMAIN clients' = DOMAIN clients
      /\ \A j \in DOMAIN clients : clients'[j].fd = clients[j].fd
  <2>1. PICK b : clients' = [clients EXCEPT ![i] = [clients[i] EXCEPT !.bytes = b]]
    BY DEF ReadSome, ReadAll
  <2>2. \A j \in DOMAIN clients : clients[j] \in Elements
    BY ClientsAreElements DEF Inv
  <2> QED
    BY <2>1, <2>2 DEF Elements
<1>3. DOMAIN clients = 1 .. Len(clients) /\ Len(clients') = Len(clients)
  BY <1>2, LenProperties DEF Inv, TypeOK
<1> QED
  BY <1>1, <1>2, <1>3, SameList

\* Nor does erase, before its first move.
LEMMA EraseList ==
  ASSUME Inv, Inv', NEW i \in DOMAIN clients, Erase(i)
  PROVE  Served' = Served
<1>1. clients[i].fd # NoFd
  BY DEF Inv, OnlyHoleEmpty, Erase
<1> QED
  BY <1>1, SameList DEF Erase

\* What a socket names stays when another one is moved down, ...
LEMMA ShiftDownNames ==
  ASSUME Inv, ShiftDown
  PROVE  \A i \in DOMAIN clients : i # hole => open'[clients[i].fd] = open[clients[i].fd]
<1> DEFINE old == clients[hole].fd
<1>1. hole \in DOMAIN clients /\ hole + 1 \in DOMAIN clients /\ hole # hole + 1
  BY ShiftDownShape
<1>2. old \in Fds \cup {NoFd} /\ clients[hole + 1].fd # old
  BY <1>1, ShiftDownShape, ClientsAreElements, FdsAreReal, ZenonT(30) DEF Inv, OwnedOnce, HeldByClients
<1>3. old # NoFd => \A i \in DOMAIN clients : i # hole => clients[i].fd # old
  BY <1>1, <1>2 DEF Inv, OwnedOnce, HeldByClients
<1>4. open' = IF old = NoFd THEN open ELSE [open EXCEPT ![old] = Free]
  BY <1>2 DEF ShiftDown, Reset
<1> QED
  BY <1>2, <1>3, <1>4 DEF Inv, TypeOK

\* ... so the first move takes the connection at erased from the list, ...
LEMMA FirstMoveList ==
  ASSUME Inv, Inv', EraseBegins, ShiftDown, clients[hole].fd # NoFd
  PROVE  Served' = RemoveAt(Served, erased)
<1> DEFINE s == Served
           t == Served'
           h == hole
           r == RemoveAt(s, h)
<1>1. phase = "erase" /\ phase' = "erase" /\ hole' = hole + 1 /\ erased = hole
  BY DEF EraseBegins, ShiftDown
<1>2. /\ hole \in DOMAIN clients /\ hole + 1 \in DOMAIN clients
      /\ Len(clients') = Len(clients) /\ DOMAIN clients = 1 .. Len(clients) /\ Len(clients) \in Nat
      /\ clients'[hole] = clients[hole + 1] /\ clients'[hole + 1].fd = NoFd
      /\ \A j \in DOMAIN clients \ {hole, hole + 1} : clients'[j] = clients[j]
  BY ShiftDownShape, ClientsAreElements DEF Inv
<1>3. Lists(s, clients, open) /\ ListsBut(t, clients', open', hole + 1)
  BY <1>1, <1>2, ServedNow, ServedErasingNext
<1> HIDE DEF s, t
<1>4. /\ s \in Seq(Named) /\ Len(s) = Len(clients) /\ h \in 1 .. Len(s)
      /\ t \in Seq(Named) /\ Len(t) = Len(s) - 1
  BY <1>2, <1>3 DEF Lists, ListsBut
<1>5. Removed(r, s, h)
  BY <1>4, RemoveAtIs
<1> HIDE DEF r
<1>6. ASSUME NEW i \in 1 .. Len(t) PROVE t[i] = r[i]
  <2>1. i \in 1 .. Len(clients) /\ i + 1 \in 1 .. Len(clients) /\ i \in 1 .. Len(r)
    BY <1>2, <1>4, <1>5 DEF Removed
  <2>2. CASE i < h
    <3>1. i < hole + 1 /\ i # hole /\ i # hole + 1
      BY <1>2, <2>1, <2>2
    <3>2. t[i] = open'[clients'[i].fd] /\ clients'[i] = clients[i] /\ s[i] = open[clients[i].fd]
      BY <1>2, <1>3, <2>1, <3>1 DEF Lists, ListsBut
    <3>3. open'[clients[i].fd] = open[clients[i].fd]
      BY <1>2, <2>1, <3>1, ShiftDownNames
    <3>4. r[i] = s[i]
      BY <1>5, <2>1, <2>2 DEF Removed
    <3> QED
      BY <3>2, <3>3, <3>4
  <2>3. CASE i = h
    <3>1. i < hole + 1 /\ hole + 1 # hole
      BY <1>2, <2>1, <2>3
    <3>2. t[i] = open'[clients'[i].fd] /\ clients'[i] = clients[i + 1] /\ s[i + 1] = open[clients[i + 1].fd]
      BY <1>2, <1>3, <2>1, <2>3, <3>1 DEF Lists, ListsBut
    <3>3. open'[clients[i + 1].fd] = open[clients[i + 1].fd]
      BY <1>2, <2>1, <2>3, <3>1, ShiftDownNames
    <3>4. r[i] = s[i + 1]
      BY <1>5, <2>1, <2>3 DEF Removed
    <3> QED
      BY <3>2, <3>3, <3>4
  <2>4. CASE ~(i < h) /\ i # h
    <3>1. ~(i < hole + 1) /\ i + 1 # hole /\ i + 1 # hole + 1
      BY <1>2, <2>1, <2>4
    <3>2. /\ t[i] = open'[clients'[i + 1].fd] /\ clients'[i + 1] = clients[i + 1]
          /\ s[i + 1] = open[clients[i + 1].fd]
      BY <1>2, <1>3, <2>1, <3>1 DEF Lists, ListsBut
    <3>3. open'[clients[i + 1].fd] = open[clients[i + 1].fd]
      BY <1>2, <2>1, <3>1, ShiftDownNames
    <3>4. r[i] = s[i + 1]
      BY <1>5, <2>1, <2>4 DEF Removed
    <3> QED
      BY <3>2, <3>3, <3>4
  <2> QED
    BY <2>2, <2>3, <2>4
<1>7. t = r
  BY <1>4, <1>5, <1>6, SeqEqual DEF Removed
<1> QED
  BY <1>1, <1>7 DEF r, s, t

\* ... and the later ones nothing.
LEMMA LaterMoveList ==
  ASSUME Inv, Inv', ShiftDown, clients[hole].fd = NoFd
  PROVE  Served' = Served
<1> DEFINE s == Served
           t == Served'
           h == hole
<1>1. phase = "erase" /\ phase' = "erase" /\ hole' = hole + 1
  BY DEF ShiftDown
<1>2. /\ hole \in DOMAIN clients /\ hole + 1 \in DOMAIN clients
      /\ Len(clients') = Len(clients) /\ DOMAIN clients = 1 .. Len(clients) /\ Len(clients) \in Nat
      /\ clients'[hole] = clients[hole + 1] /\ clients'[hole + 1].fd = NoFd
      /\ \A j \in DOMAIN clients \ {hole, hole + 1} : clients'[j] = clients[j]
  BY ShiftDownShape, ClientsAreElements DEF Inv
<1>3. ListsBut(s, clients, open, hole) /\ ListsBut(t, clients', open', hole + 1)
  BY <1>1, <1>2, ServedErasing, ServedErasingNext
<1> HIDE DEF s, t
<1>4. s \in Seq(Named) /\ t \in Seq(Named) /\ Len(s) = Len(clients) - 1 /\ Len(t) = Len(s)
  BY <1>2, <1>3 DEF ListsBut
<1>5. ASSUME NEW i \in 1 .. Len(t) PROVE t[i] = s[i]
  <2>1. i \in 1 .. Len(clients) /\ i + 1 \in 1 .. Len(clients) /\ i \in 1 .. Len(s)
    BY <1>2, <1>4
  <2>2. CASE i < h
    <3>1. i < hole + 1 /\ i # hole /\ i # hole + 1
      BY <1>2, <2>1, <2>2
    <3>2. t[i] = open'[clients'[i].fd] /\ clients'[i] = clients[i] /\ s[i] = open[clients[i].fd]
      BY <1>2, <1>3, <2>1, <2>2, <3>1 DEF ListsBut
    <3>3. open'[clients[i].fd] = open[clients[i].fd]
      BY <1>2, <2>1, <3>1, ShiftDownNames
    <3> QED
      BY <3>2, <3>3
  <2>3. CASE i = h
    <3>1. i < hole + 1 /\ ~(i < hole) /\ hole + 1 # hole
      BY <1>2, <2>1, <2>3
    <3>2. t[i] = open'[clients'[i].fd] /\ clients'[i] = clients[i + 1] /\ s[i] = open[clients[i + 1].fd]
      BY <1>2, <1>3, <2>1, <2>3, <3>1 DEF ListsBut
    <3>3. open'[clients[i + 1].fd] = open[clients[i + 1].fd]
      BY <1>2, <2>1, <2>3, <3>1, ShiftDownNames
    <3> QED
      BY <3>2, <3>3
  <2>4. CASE ~(i < h) /\ i # h
    <3>1. ~(i < hole) /\ ~(i < hole + 1) /\ i + 1 # hole /\ i + 1 # hole + 1
      BY <1>2, <2>1, <2>4
    <3>2. /\ t[i] = open'[clients'[i + 1].fd] /\ clients'[i + 1] = clients[i + 1]
          /\ s[i] = open[clients[i + 1].fd]
      BY <1>2, <1>3, <2>1, <3>1 DEF ListsBut
    <3>3. open'[clients[i + 1].fd] = open[clients[i + 1].fd]
      BY <1>2, <2>1, <3>1, ShiftDownNames
    <3> QED
      BY <3>2, <3>3
  <2> QED
    BY <2>2, <2>3, <2>4
<1>6. t = s
  BY <1>4, <1>5, SeqEqual
<1> QED
  BY <1>6 DEF s, t

\* Destroying the last element takes it from the list if nothing was moved.
LEMMA DestroyLastList ==
  ASSUME Inv, Inv', EraseBegins, DestroyLast
  PROVE  Served' = Served \/ Served' = RemoveAt(Served, erased)
<1> DEFINE s == Served
           t == Served'
           n == Len(clients)
           r == RemoveAt(s, n)
<1>1. phase = "erase" /\ phase' = "run" /\ hole = n
  BY DEF DestroyLast
<1>2. n \in Nat /\ n \in 1 .. n /\ DOMAIN clients = 1 .. n
  BY <1>1, ClientsAreElements DEF Inv, TypeOK
<1>3. Len(clients') = n - 1 /\ \A i \in 1 .. n - 1 : clients'[i] = clients[i]
  <2>1. clients \in Seq(Elements) /\ n - 1 \in Nat /\ n - 1 <= n /\ clients' = SubSeq(clients, 1, n - 1)
    BY <1>2 DEF Inv, TypeOK, DestroyLast
  <2> HIDE DEF n
  <2> QED
    BY <2>1, SplitJoin DEF n
<1>4. \A i \in 1 .. n - 1 : open'[clients[i].fd] = open[clients[i].fd]
  <2>1. clients[n].fd # NoFd => \A i \in 1 .. n - 1 : clients[i].fd # clients[n].fd
    BY <1>2, ClientsAreElements DEF Inv, OwnedOnce, HeldByClients
  <2>2. open' = IF clients[n].fd = NoFd THEN open ELSE [open EXCEPT ![clients[n].fd] = Free]
    BY <1>1 DEF DestroyLast, Reset
  <2> QED
    BY <2>1, <2>2 DEF Inv, TypeOK
<1>5. Lists(t, clients', open')
  BY <1>1, ServedNext
<1>6. t \in Seq(Named) /\ Len(t) = n - 1 /\ \A i \in 1 .. n - 1 : t[i] = open[clients[i].fd]
  <2> HIDE DEF t
  <2> QED
    BY <1>3, <1>4, <1>5 DEF Lists
<1>7. CASE clients[hole].fd = NoFd
  <2>1. ListsBut(s, clients, open, n)
    BY <1>1, <1>7, ServedErasing
  <2> HIDE DEF s, t
  <2>2. \A i \in 1 .. n - 1 : i < n
    BY <1>2
  <2>3. s \in Seq(Named) /\ Len(s) = n - 1 /\ \A i \in 1 .. n - 1 : s[i] = open[clients[i].fd]
    BY <2>1, <2>2 DEF ListsBut
  <2>4. t = s
    BY <1>6, <2>3, SeqEqual
  <2> QED
    BY <2>4 DEF s, t
<1>8. CASE clients[hole].fd # NoFd
  <2>1. Lists(s, clients, open) /\ erased = n
    BY <1>1, <1>8, ServedNow DEF EraseBegins
  <2> HIDE DEF s, t
  <2>2. s \in Seq(Named) /\ Len(s) = n /\ n \in 1 .. Len(s) /\ \A i \in 1 .. n : s[i] = open[clients[i].fd]
    BY <1>2, <2>1 DEF Lists
  <2>3. Removed(r, s, n)
    BY <2>2, RemoveAtIs
  <2> HIDE DEF r
  <2>4. \A i \in 1 .. n - 1 : i < n /\ i \in 1 .. n
    BY <1>2
  <2>5. r \in Seq(Named) /\ Len(r) = n - 1 /\ \A i \in 1 .. n - 1 : r[i] = open[clients[i].fd]
    BY <2>2, <2>3, <2>4 DEF Removed
  <2>6. t = r
    BY <1>6, <2>5, SeqEqual
  <2> QED
    BY <2>1, <2>6 DEF r, s, t
<1> QED
  BY <1>7, <1>8

\* Nothing changes without a step.
LEMMA StutterList ==
  ASSUME UNCHANGED vars
  PROVE  Served' = Served
BY DEF vars, Served, MovedFrom, Names

\* What a step does to the list.
ListMoves ==
  \/ Served' = Served
  \/ Len(Served') = Len(Served) + 1 /\ SubSeq(Served', 1, Len(Served)) = Served
  \/ phase = "erase" /\ Served' = RemoveAt(Served, erased)
  \/ phase' = "ended"

LEMMA NextList ==
  ASSUME Inv, Inv', EraseBegins, [Next]_vars
  PROVE  ListMoves
<1>1. CASE OpenSocket \/ StartListening \/ SetUpFails \/ \E k \in Connections : Accept(k)
  BY <1>1, OpenSocketList, StartListeningList, SetUpFailsList, AcceptList DEF ListMoves
<1>2. CASE \E i \in DOMAIN clients : ReadSome(i) \/ ReadAll(i) \/ Erase(i)
  BY <1>2, ReadList, EraseList DEF ListMoves
<1>3. CASE PushBack
  BY <1>3, PushBackList DEF ListMoves
<1>4. CASE ShiftDown
  BY <1>4, FirstMoveList, LaterMoveList DEF ListMoves, ShiftDown
<1>5. CASE DestroyLast
  BY <1>5, DestroyLastList DEF ListMoves, DestroyLast
<1>6. CASE StartFails \/ Close
  BY <1>6 DEF ListMoves, StartFails, Close
<1>7. CASE UNCHANGED vars
  BY <1>7, StutterList DEF ListMoves
<1> QED
  BY <1>1, <1>2, <1>3, <1>4, <1>5, <1>6, <1>7 DEF Next

\* Connections come at the end of the list, and go from it at the index that
\* erase was given, with all others in their order: for any number of clients.
THEOREM ListMovesRight == Spec => ListMovesTogether
<1>1. Init => EraseBegins
  BY DEF Init, EraseBegins
<1>2. Inv /\ EraseBegins /\ [Next]_vars => EraseBegins'
  BY NextEraseBegins
<1>3. Inv /\ Inv' /\ EraseBegins /\ [Next]_vars => ListMoves
  BY NextList
<1>4. Spec => []Inv
  BY Invariance
<1>5. [][ListMoves]_vars => ListMovesTogether
  BY PTL DEF ListMovesTogether, ListMoves
<1> QED
  BY <1>1, <1>2, <1>3, <1>4, <1>5, PTL DEF Spec
=============================================================================

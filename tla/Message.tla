------------------------------ MODULE Message -------------------------------
(***************************************************************************)
(* The framing of messages (lib/src/message.cpp).  A frame is a header of  *)
(* HeaderSize bytes that holds the size of the payload, then the payload.  *)
(* A byte is a record: one of a header tells the size that is announced,   *)
(* one of a payload the message it is a part of; part counts the bytes.    *)
(***************************************************************************)
EXTENDS Integers, Sequences

CONSTANTS
  HeaderSize,  (* sizeof(std::uint32_t)                                     *)
  MaxMessage   (* MAX_MESSAGE_SIZE                                          *)

ASSUME MessageAssumption == HeaderSize \in Nat \ {0} /\ MaxMessage \in Nat

\* MessageWriter::queue and write_message: the bytes of a message.
Frame(message, size) ==
  [j \in 1 .. HeaderSize |-> [size |-> size, part |-> j]] \o
  [j \in 1 .. size |-> [message |-> message, part |-> j]]

\* The size that the header tells, once the header is there.
Announced(bytes) == bytes[1].size

HasHeader(bytes) == Len(bytes) >= HeaderSize

Oversize(bytes) == HasHeader(bytes) /\ Announced(bytes) > MaxMessage

\* MessageReader::read_from and read_message, given all the bytes that have
\* come since the last message: whether they make a message, which one (the
\* empty one has no byte of its own), and the bytes behind it, which stay in
\* the socket.
IsComplete(bytes) ==
  HasHeader(bytes) /\ Len(bytes) >= HeaderSize + Announced(bytes)

MessageOf(bytes) ==
  IF Announced(bytes) = 0 THEN <<>> ELSE bytes[HeaderSize + 1].message

\* Mutant: everything that was received is taken for this message.
BehindLost(bytes) == <<>>

Behind(bytes) == SubSeq(bytes, HeaderSize + Announced(bytes) + 1, Len(bytes))
=============================================================================

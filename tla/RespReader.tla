----------------------------- MODULE RespReader -----------------------------
(***************************************************************************)
(* One command of the benchmark over a connection to Redis                 *)
(* (RedisBackend::command in benchmark/src/redis_backend.cpp): the request *)
(* is encoded and written, then one reply is read, byte by byte.  The peer *)
(* may send any bytes at all, and stop at any of them.  Nothing tells the  *)
(* reader where a reply ends but the reply, and what it leaves or takes    *)
(* too much of is missing or in the way when the next one is read.         *)
(***************************************************************************)
EXTENDS Integers, Sequences, SequencesExt

CONSTANTS
  Bytes,     (* the bytes a peer may send                                   *)
  Base,      (* of the numbers: 10                                          *)
  Digit,     (* the value of each byte that is a digit                      *)
  MaxReply,  (* k_max_reply_size                                            *)
  MaxInt,    (* the largest std::int64_t                                    *)
  Requests   (* the lists of arguments that are sent                        *)

ASSUME LimitsAssumption == MaxReply \in Nat /\ MaxInt \in Nat /\ MaxReply <= MaxInt

\* There is a digit for each value, and none has a second meaning in a line.
ASSUME DigitsAssumption ==
  /\ Base \in Nat \ {0, 1}
  /\ Digit \in [DOMAIN Digit -> 0 .. Base - 1]
  /\ \A d \in 0 .. Base - 1 : \E b \in DOMAIN Digit : Digit[b] = d
  /\ DOMAIN Digit \cap {"-", "CR", "LF"} = {}

\* Arguments are strings of bytes.
ASSUME RequestsAssumption == Requests \subseteq Seq(Seq(Bytes))

VARIABLES
  arguments,  (* of this command                                            *)
  wire,       (* what write_all has sent                                    *)
  place,      (* where command is                                           *)
  input,      (* history: the bytes received                                *)
  prefix, line, size, text, ending,  (* as in read_reply                    *)
  result      (* the reply, or why there is none                            *)

parts == <<prefix, line, size, text, ending>>
vars == <<arguments, wire, place, input, parts, result>>

Crlf == <<"CR", "LF">>

-----------------------------------------------------------------------------
(* Numbers.                                                                *)

Integral == -MaxInt - 1 .. MaxInt

Unsigned(s) == IF s # <<>> /\ Head(s) = "-" THEN Tail(s) ELSE s

ValueOf(s) ==
  LET v == FoldLeft(LAMBDA sum, d : Base * sum + Digit[d], 0, Unsigned(s)) IN
  IF Unsigned(s) = s THEN v ELSE -v

\* Does parse_integer succeed?
IsInteger(s) ==
  /\ Unsigned(s) # <<>>
  /\ \A i \in DOMAIN Unsigned(s) : Unsigned(s)[i] \in DOMAIN Digit
  /\ ValueOf(s) \in Integral

\* How a number is written, by format as by Redis.
DigitFor(d) == CHOOSE b \in DOMAIN Digit : Digit[b] = d

SpellUnsigned(n) ==
  LET Digits[m \in 0 .. n] == IF m < Base THEN <<DigitFor(m)>>
                              ELSE Append(Digits[m \div Base], DigitFor(m % Base))
  IN Digits[n]

Spell(n) == IF n < 0 THEN <<"-">> \o SpellUnsigned(-n) ELSE SpellUnsigned(n)

\* An integer needs 20 bytes, and a line may have millions.
ASSUME IntegersFit == \A n \in Integral : Len(Spell(n)) <= MaxReply

-----------------------------------------------------------------------------
(* The request.                                                            *)

\* A string with its size in front, in a request as in a reply.
Bulk(a) == <<"$">> \o Spell(Len(a)) \o Crlf \o a \o Crlf

\* Mutant: an inline command, without the sizes.
EncodeInline(request) ==
  FoldLeft(LAMBDA bytes, a : bytes \o a \o <<" ">>, <<>>, request) \o Crlf

EncodeRequest(request) ==
  <<"*">> \o Spell(Len(request)) \o Crlf \o
    FlattenSeq([i \in DOMAIN request |-> Bulk(request[i])])

Init ==
  /\ arguments \in Requests
  /\ wire = <<>>
  /\ place = "write"
  /\ input = <<>>
  /\ prefix = "" /\ line = <<>> /\ size = 0 /\ text = <<>> /\ ending = <<>>
  /\ result = [type |-> "none"]

\* write_all: send takes as many bytes as there is room for.
WriteSome ==
  /\ place = "write"
  /\ LET rest == Len(EncodeRequest(arguments)) - Len(wire) IN
     \E n \in 1 .. rest :
       /\ wire' = wire \o SubSeq(EncodeRequest(arguments), Len(wire) + 1, Len(wire) + n)
       /\ place' = IF n = rest THEN "prefix" ELSE "write"
  /\ UNCHANGED <<arguments, input, parts, result>>

-----------------------------------------------------------------------------
(* The reply: read_exact, read_line and read_reply.                        *)

Broken == [type |-> "broken"]

Return(reply) == place' = "done" /\ result' = reply

GoTo(p) == place' = p /\ UNCHANGED result

Receive(b) == input' = Append(input, b) /\ UNCHANGED <<arguments, wire>>

\* What has been sent is forgotten.
ReadPrefix(b) ==
  /\ place = "prefix"
  /\ input' = Append(input, b)
  /\ arguments' = <<>> /\ wire' = <<>>
  /\ prefix' = b
  /\ GoTo("line")
  /\ UNCHANGED <<line, size, text, ending>>

\* Mutant: the loop does not look at the length of the line.
NeverTooLong(s) == FALSE

TooLong(s) == Len(s) > MaxReply

ReadLine(b) ==
  /\ place = "line"
  /\ Receive(b)
  /\ IF b = "CR"
       THEN GoTo("newline") /\ UNCHANGED line
       ELSE /\ line' = Append(line, b)
            /\ IF TooLong(line') THEN Return(Broken) ELSE GoTo("line")
  /\ UNCHANGED <<prefix, size, text, ending>>

\* Mutant: the largest size is refused.
SizeAllowedBelow(n) == n \in 0 .. MaxReply - 1

SizeAllowed(n) == n \in 0 .. MaxReply

\* Behind a line that is a reply of its own.
ReadNewline(b) ==
  /\ place = "newline"
  /\ Receive(b)
  /\ ~(b = "LF" /\ prefix = "$")
  /\ Return(IF b # "LF" THEN Broken
            ELSE CASE prefix = "-"                    -> [type |-> "error", text |-> line]
                   [] prefix = "+"                    -> [type |-> "string", text |-> line]
                   [] prefix = ":" /\ IsInteger(line) -> [type |-> "integer", integer |-> ValueOf(line)]
                   [] OTHER                           -> Broken)
  /\ UNCHANGED parts

\* Behind the size of a bulk string.
ReadBulkSize(b) ==
  /\ place = "newline"
  /\ Receive(b)
  /\ b = "LF" /\ prefix = "$"
  /\ IF IsInteger(line) /\ SizeAllowed(ValueOf(line))
       THEN size' = ValueOf(line) /\ GoTo(IF size' = 0 THEN "ending" ELSE "payload")
       ELSE /\ Return(IF IsInteger(line) /\ ValueOf(line) = -1 THEN [type |-> "nil"] ELSE Broken)
            /\ UNCHANGED size
  /\ UNCHANGED <<prefix, line, text, ending>>

ReadPayload(b) ==
  /\ place = "payload"
  /\ Receive(b)
  /\ text' = Append(text, b)
  /\ GoTo(IF Len(text') = size THEN "ending" ELSE "payload")
  /\ UNCHANGED <<prefix, line, size, ending>>

\* Mutant: the last byte is read but not looked at.
EndsWellFirst(s) == s[1] = "CR"

EndsWell(s) == s = Crlf

\* Both bytes are there before one is looked at.
ReadEnding(b) ==
  /\ place = "ending"
  /\ Receive(b)
  /\ ending' = Append(ending, b)
  /\ IF Len(ending') < 2
       THEN GoTo("ending")
       ELSE Return(IF EndsWell(ending') THEN [type |-> "bulk", text |-> text] ELSE Broken)
  /\ UNCHANGED <<prefix, line, size, text>>

\* send or recv fails, or the peer closes the connection.
ConnectionEnds ==
  /\ place # "done"
  /\ Return([type |-> "closed"])
  /\ UNCHANGED <<arguments, wire, input, parts>>

Next ==
  \/ WriteSome
  \/ ConnectionEnds
  \/ \E b \in Bytes : \/ ReadPrefix(b) \/ ReadLine(b) \/ ReadNewline(b) \/ ReadBulkSize(b)
                      \/ ReadPayload(b) \/ ReadEnding(b)

Spec == Init /\ [][Next]_vars

-----------------------------------------------------------------------------
(* What a Redis that keeps the protocol sends.                             *)

Texts == BoundedSeq(Bytes, MaxReply)

OneLine(s) == \A i \in DOMAIN s : s[i] \notin {"CR", "LF"}

Replies ==
  {[type |-> t, text |-> s] : t \in {"string", "error"}, s \in {s \in Texts : OneLine(s)}} \cup
  {[type |-> "bulk", text |-> s] : s \in Texts} \cup
  {[type |-> "integer", integer |-> n] : n \in Integral} \cup
  {[type |-> "nil"]}

Encode(reply) ==
  CASE reply.type = "string"  -> <<"+">> \o reply.text \o Crlf
    [] reply.type = "error"   -> <<"-">> \o reply.text \o Crlf
    [] reply.type = "integer" -> <<":">> \o Spell(reply.integer) \o Crlf
    [] reply.type = "nil"     -> <<"$">> \o Spell(-1) \o Crlf
    [] reply.type = "bulk"    -> Bulk(reply.text)

Encodings == {Encode(reply) : reply \in Replies}

\* What may still become a reply.
Beginnings == UNION {{SubSeq(e, 1, n) : n \in 0 .. Len(e)} : e \in Encodings}

-----------------------------------------------------------------------------
(* Properties.                                                             *)

\* Every variable holds what its C++ counterpart can; no peer makes the reader
\* keep more than one byte above the limit.
TypeOK ==
  /\ arguments \in Requests \cup {<<>>}
  /\ place \in {"write", "prefix", "line", "newline", "payload", "ending", "done"}
  /\ Len(line) <= MaxReply + 1
  /\ size \in 0 .. MaxReply
  /\ Len(text) <= size
  /\ Len(ending) <= 2

\* A reply is returned as soon as its last byte is there, as what it was, and not
\* refused before, also if it is as long as allowed, is empty, or has the bytes
\* in it that end other replies; and not one byte behind it is taken.
ReadsOneReply ==
  /\ input \in Encodings => result \in Replies /\ Encode(result) = input
  /\ result.type = "broken" => input \notin Beginnings
  /\ \A n \in 0 .. Len(input) - 1 : SubSeq(input, 1, n) \notin Encodings

\* What is returned as a reply has been sent as one: a cut or a garbled one is
\* an error.  The reader is lenient in two ways, which change no text: numbers
\* may have zeros in front, and a line may hold a line feed.
ReturnsOnlyReplies ==
  LET number == prefix \in {"$", ":"} IN
  /\ place = "done" /\ result.type \notin {"broken", "closed"}
  /\ IF number THEN Spell(ValueOf(line)) = line ELSE OneLine(line)
  => input \in Encodings

\* Redis can take one list of arguments only from what has been sent, also if
\* the arguments hold line ends, or the bytes of other requests, or nothing.
RequestUnambiguous ==
  place = "prefix" =>
    {r \in Requests : IsPrefix(EncodeRequest(r), wire)} = {arguments}
=============================================================================

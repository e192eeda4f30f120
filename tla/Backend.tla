------------------------------- MODULE Backend -------------------------------
(***************************************************************************)
(* The Backend interface of the benchmark and its two implementations      *)
(* (benchmark/src/attokv_backend.cpp, redis_backend.cpp): what each makes  *)
(* of the answer of its server.  attokv answers with a text, in which a    *)
(* missing key and a value are told apart by the word NULL alone; Redis    *)
(* answers with a typed reply.                                             *)
(*                                                                         *)
(* A call is a record [kind, key, value], a result a record [ok, out]: out *)
(* is a value or Missing for get, TRUE or FALSE for remove.                *)
(***************************************************************************)

CONSTANTS
  Keys,     (* the keys                                                     *)
  Missing   (* std::nullopt                                                 *)

Call(kind, key, value) == [kind |-> kind, key |-> key, value |-> value]

Gives(out) == [ok |-> TRUE, out |-> out]

Done == Gives("done")

Failure == [ok |-> FALSE, out |-> "failure"]

-----------------------------------------------------------------------------
(* The servers: what a call does to the contents, and the answers.         *)

Effect(call, store) ==
  CASE call.kind = "set"    -> [store EXCEPT ![call.key] = call.value]
    [] call.kind = "remove" -> [store EXCEPT ![call.key] = Missing]
    [] call.kind = "flush"  -> [k \in Keys |-> Missing]
    [] OTHER                -> store

AttoAnswer(call, store) ==
  CASE call.kind = "ping"             -> "pong"
    [] call.kind \in {"set", "flush"} -> "OK"
    [] call.kind = "get"              -> IF store[call.key] = Missing THEN "NULL" ELSE store[call.key]
    [] call.kind = "remove"           -> IF store[call.key] = Missing THEN "NULL" ELSE "OK"

RedisAnswer(call, store) ==
  CASE call.kind = "ping"             -> [type |-> "string", text |-> "PONG"]
    [] call.kind \in {"set", "flush"} -> [type |-> "string", text |-> "OK"]
    [] call.kind = "get"              -> IF store[call.key] = Missing THEN [type |-> "nil"]
                                           ELSE [type |-> "bulk", text |-> store[call.key]]
    [] call.kind = "remove"           -> [type |-> "integer",
                                          integer |-> IF store[call.key] = Missing THEN 0 ELSE 1]

-----------------------------------------------------------------------------
(* The backends.                                                           *)

ExpectOk(text) == IF text = "OK" THEN Done ELSE Failure

\* AttoBackend::ping, flush, set, get, remove.
AttoResult(call, text) ==
  CASE call.kind = "ping"             -> IF text = "pong" THEN Done ELSE Failure
    [] call.kind \in {"set", "flush"} -> ExpectOk(text)
    [] call.kind = "get"              -> Gives(IF text = "NULL" THEN Missing ELSE text)
    [] call.kind = "remove"           -> IF text \in {"OK", "NULL"} THEN Gives(text = "OK") ELSE Failure

IsString(reply, text) == reply.type = "string" /\ reply.text = text

\* RedisBackend::ping, flush, set, get, remove.
RedisResult(call, reply) ==
  CASE call.kind = "ping"             -> IF IsString(reply, "PONG") THEN Done ELSE Failure
    [] call.kind \in {"set", "flush"} -> IF IsString(reply, "OK") THEN Done ELSE Failure
    [] call.kind = "get" /\ reply.type = "nil"  -> Gives(Missing)
    [] call.kind = "get" /\ reply.type = "bulk" -> Gives(reply.text)
    [] call.kind = "get" /\ reply.type \notin {"nil", "bulk"} -> Failure
    [] call.kind = "remove"           -> IF reply.type = "integer" /\ reply.integer \in {0, 1}
                                           THEN Gives(reply.integer = 1) ELSE Failure

\* make_backend, and the call through it while the connection works.
Result(backend, call, store) ==
  IF backend = "attokv" THEN AttoResult(call, AttoAnswer(call, store))
                        ELSE RedisResult(call, RedisAnswer(call, store))
=============================================================================

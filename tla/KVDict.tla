------------------------------- MODULE KVDict -------------------------------
(***************************************************************************)
(* What a key-value store of attokv promises: one dictionary, and four     *)
(* operations on it that each take effect at one instant.  This is the     *)
(* interface of KVStore (server/include/attokv_server/store.h) with the    *)
(* outputs the get, set, del and flush commands make of its results.       *)
(***************************************************************************)

CONSTANTS
  Keys,     (* what a key may be                                            *)
  Values,   (* what a value may be                                          *)
  NoKey,    (* stands where an operation has no key                         *)
  NoValue,  (* std::nullopt and false: the command prints NULL              *)
  OK        (* what set, del and flush return when they have done it        *)

VARIABLES
  dict,     (* the contents: a value, or NoValue, for every key             *)
  reply     (* the last operation and what it returned                      *)

vars == <<dict, reply>>

Replies == [op : {"none", "get", "set", "del", "flush"},
            key : Keys \cup {NoKey},
            value : Values \cup {NoValue},
            out : Values \cup {NoValue, OK}]

Reply(op, k, v, out) == [op |-> op, key |-> k, value |-> v, out |-> out]

TypeOK == /\ dict \in [Keys -> Values \cup {NoValue}]
          /\ reply \in Replies

Init == /\ dict = [k \in Keys |-> NoValue]
        /\ reply = Reply("none", NoKey, NoValue, NoValue)

Get(k) == /\ reply' = Reply("get", k, NoValue, dict[k])
          /\ UNCHANGED dict

Set(k, v) == /\ reply' = Reply("set", k, v, OK)
             /\ dict' = [dict EXCEPT ![k] = v]

Del(k) == /\ reply' = Reply("del", k, NoValue, IF dict[k] = NoValue THEN NoValue ELSE OK)
          /\ dict' = [dict EXCEPT ![k] = NoValue]

Flush == /\ reply' = Reply("flush", NoKey, NoValue, OK)
         /\ dict' = [k \in Keys |-> NoValue]

Next == \/ \E k \in Keys : Get(k) \/ Del(k)
        \/ \E k \in Keys, v \in Values : Set(k, v)
        \/ Flush

Spec == Init /\ [][Next]_vars
=============================================================================

---------------------------- MODULE MCBenchmark ----------------------------
(***************************************************************************)
(* Three clients with four operations, so that one has more than the       *)
(* others, after a warmup of one, so that two have none.  An earlier       *)
(* program left the value NULL under every key.                            *)
(***************************************************************************)
EXTENDS Benchmark, TLC

MCKeys == AllKeys

MCWorkloads == {"ping", "set", "get-hit", "get-miss", "del-hit", "mixed"}

MCBackends == {"attokv", "redis"}
=============================================================================

------------------------------ MODULE Benchmark ------------------------------
(***************************************************************************)
(* The benchmark (benchmark/src/main.cpp): a main thread that prepares the *)
(* contents of the server through a connection of its own, and in each of  *)
(* two phases starts one worker thread per connection, lets them begin     *)
(* together, waits for all and collects what they measured.  Thread 0 is   *)
(* main, 1 .. Clients are the workers.                                     *)
(***************************************************************************)
EXTENDS Backend, Integers, Sequences
LOCAL INSTANCE FiniteSets
LOCAL INSTANCE FiniteSetsExt

CONSTANTS
  Clients,    (* --clients                                                  *)
  Requests,   (* --requests                                                 *)
  Warmup,     (* --warmup                                                   *)
  Keyspace,   (* --keyspace                                                 *)
  Workloads,  (* the values of --workload                                   *)
  Backends,   (* the values of --backend                                    *)
  Value,      (* --value-size times the letter x                            *)
  Leftover    (* a value that an earlier program may have left in the store *)

ASSUME CountsAssumption ==
  /\ Clients \in Nat \ {0} /\ Requests \in Nat \ {0} /\ Keyspace \in Nat \ {0}
  /\ Warmup \in Nat

Workers == 1 .. Clients

Threads == 0 .. Clients

VARIABLES
  workload, backend,  (* the options                                        *)
  planned,   (* warmup_operations and operations                            *)
  store,     (* the contents of the server                                  *)
  phase,     (* "warmup" or "measured"                                      *)
  pc,        (* where each thread is                                        *)
  item,      (* the counter of the loop that main is in                     *)
  arrived,   (* the threads that have arrived at each barrier               *)
  timing,    (* between phase_start and phase_end                           *)
  first, last,  (* begin and begin + count of each worker                   *)
  index,     (* i of each worker                                            *)
  errors,    (* the workers with an error                                   *)
  recorded,  (* the number of latencies of each worker                      *)
  ran,       (* history: how often each operation of the phase was executed *)
  broken     (* history: the workers whose connection has failed            *)

options == <<workload, backend, planned>>
loopVars == <<first, last, index, errors, recorded, ran, broken>>
vars == <<options, store, phase, pc, item, arrived, timing, loopVars>>

-----------------------------------------------------------------------------
(* generate_operations.                                                    *)

KeyNumbers == 0 .. Keyspace - 1

OperationsOf(w) ==
  CASE w = "ping"     -> {[kind |-> "ping", key |-> <<"none">>]}
    [] w = "set"      -> {[kind |-> "set", key |-> <<"key", n>>] : n \in KeyNumbers}
    [] w = "get-hit"  -> {[kind |-> "get_hit", key |-> <<"key", n>>] : n \in KeyNumbers}
    [] w = "get-miss" -> {[kind |-> "get_miss", key |-> <<"missing", n>>] : n \in KeyNumbers}
    [] w = "mixed"    -> {[kind |-> k, key |-> <<"key", n>>] : k \in {"get_hit", "set"}, n \in KeyNumbers}

\* Mutant: the position is left out of the keys.
GeneratedRepeats(w, count, name) ==
  IF w = "del-hit"
    THEN {[i \in 1 .. count |-> [kind |-> "remove", key |-> <<"delete", name, 1>>]]}
    ELSE [1 .. count -> OperationsOf(w)]

Generated(w, count, name) ==
  IF w = "del-hit"
    THEN {[i \in 1 .. count |-> [kind |-> "remove", key |-> <<"delete", name, i>>]]}
    ELSE [1 .. count -> OperationsOf(w)]

AllKeys ==
  {<<s, n>> : s \in {"key", "missing"}, n \in KeyNumbers} \cup
  {<<"delete", "warmup", i>> : i \in 1 .. Warmup} \cup
  {<<"delete", "measured", i>> : i \in 1 .. Requests}

\* The workloads have these names, a key can be any text, and --value-size makes at
\* least one x and nothing else.
ASSUME OptionsAssumption ==
  /\ Workloads \subseteq {"ping", "set", "get-hit", "get-miss", "del-hit", "mixed"}
  /\ AllKeys \subseteq Keys
  /\ Value \notin {Missing, "NULL"}

Init ==
  /\ workload \in Workloads
  /\ backend \in Backends
  /\ \E w \in Generated(workload, Warmup, "warmup") :
     \E m \in Generated(workload, Requests, "measured") :
       planned = [warmup |-> w, measured |-> m]
  /\ store \in {[k \in Keys |-> v] : v \in {Missing, Leftover}}
  /\ phase = IF Warmup = 0 THEN "measured" ELSE "warmup"
  /\ pc = [t \in Threads |-> IF t = 0 THEN "connect" ELSE "none"]
  /\ item = 0
  /\ arrived = [b \in {"ready", "start", "done"} |-> {}]
  /\ timing = FALSE
  /\ first = [w \in Workers |-> 0]
  /\ last = [w \in Workers |-> 0]
  /\ index = [w \in Workers |-> 0]
  /\ errors = {}
  /\ recorded = [w \in Workers |-> 0]
  /\ ran = <<>>
  /\ broken = {}

Operations == planned[phase]

Returned == pc[0] \in {"failed", "finished", "terminated"}

GoTo(t, place) == pc' = [pc EXCEPT ![t] = place]

-----------------------------------------------------------------------------
(* main and prepare.                                                       *)

Connect ==
  /\ pc[0] = "connect"
  /\ GoTo(0, "prepare")
  /\ UNCHANGED <<options, store, phase, item, arrived, timing, loopVars>>

\* The keys that prepare sets after the flush.
SetupKeys ==
  CASE workload \in {"get-hit", "mixed"} -> [n \in 1 .. Keyspace |-> <<"key", n - 1>>]
    [] workload = "del-hit"              -> [i \in DOMAIN Operations |-> Operations[i].key]
    [] OTHER                             -> <<>>

\* A connection cannot be made, or the one of prepare fails.
ControlFails ==
  /\ pc[0] = "connect" \/ (pc[0] = "prepare" /\ item <= Len(SetupKeys))
  /\ GoTo(0, "failed")
  /\ UNCHANGED <<options, store, phase, item, arrived, timing, loopVars>>

SetupCall(n) ==
  IF n = 0 THEN Call("flush", <<"none">>, Missing) ELSE Call("set", SetupKeys[n], Value)

Prepare ==
  /\ pc[0] = "prepare"
  /\ item <= Len(SetupKeys)
  /\ LET result == Result(backend, SetupCall(item), store) IN
       GoTo(0, IF result.ok THEN "prepare" ELSE "failed")
  /\ store' = Effect(SetupCall(item), store)
  /\ item' = item + 1
  /\ UNCHANGED <<options, phase, arrived, timing, loopVars>>

-----------------------------------------------------------------------------
(* run_phase: its locals are set up, and the workers started.              *)

StartPhase ==
  /\ pc[0] = "prepare"
  /\ item = Len(SetupKeys) + 1
  /\ pc' = [t \in Threads |-> IF t = 0 THEN "spawn" ELSE "none"]
  /\ item' = 0
  /\ arrived' = [b \in DOMAIN arrived |-> {}]
  /\ first' = [w \in Workers |-> 0]
  /\ last' = [w \in Workers |-> 0]
  /\ index' = [w \in Workers |-> 0]
  /\ errors' = {}
  /\ recorded' = [w \in Workers |-> 0]
  /\ ran' = [i \in DOMAIN Operations |-> 0]
  /\ UNCHANGED <<options, store, phase, timing, broken>>

\* Mutant: the remainder goes to nobody.
CountTruncated(w) == Len(Operations) \div Clients

\* The operations of a worker: the first ones get the remainder.
Count(w) ==
  Len(Operations) \div Clients + (IF w - 1 < Len(Operations) % Clients THEN 1 ELSE 0)

\* offset, after the slices of the workers before.
Offset == IF item = 0 THEN 0 ELSE last[item]

Spawn ==
  /\ pc[0] = "spawn"
  /\ item < Clients
  /\ item' = item + 1
  /\ GoTo(item + 1, "ready")
  /\ first' = [first EXCEPT ![item + 1] = Offset]
  /\ last' = [last EXCEPT ![item + 1] = Offset + Count(item + 1)]
  /\ index' = [index EXCEPT ![item + 1] = Offset]
  /\ UNCHANGED <<options, store, phase, arrived, timing, errors, recorded, ran, broken>>

\* The thread cannot be created: the exception destroys a vector of threads
\* that can be joined, which ends the program.
SpawnFails ==
  /\ pc[0] = "spawn"
  /\ item < Clients
  /\ GoTo(0, "terminated")
  /\ UNCHANGED <<options, store, phase, item, arrived, timing, loopVars>>

Spawned ==
  /\ pc[0] = "spawn"
  /\ item = Clients
  /\ GoTo(0, "ready")
  /\ UNCHANGED <<options, store, phase, item, arrived, timing, loopVars>>

-----------------------------------------------------------------------------
(* The barriers: arrive_and_wait.                                          *)

Arrive(t, b) ==
  /\ ~Returned
  /\ pc[t] = b
  /\ t \notin arrived[b]
  /\ arrived' = [arrived EXCEPT ![b] = @ \cup {t}]
  /\ UNCHANGED <<options, store, phase, pc, item, timing, loopVars>>

\* Mutant: the workers do not wait for start.
BehindNoStart(t, b) ==
  CASE b = "ready" -> IF t = 0 THEN "start" ELSE "loop"
    [] b = "start" -> "done"
    [] b = "done"  -> IF t = 0 THEN "join" ELSE "gone"

\* What a thread does behind a barrier.
Behind(t, b) ==
  CASE b = "ready" -> "start"
    [] b = "start" -> IF t = 0 THEN "done" ELSE "loop"
    [] b = "done"  -> IF t = 0 THEN "join" ELSE "gone"

Pass(t, b) ==
  /\ ~Returned
  /\ pc[t] = b
  /\ arrived[b] = Threads
  /\ GoTo(t, Behind(t, b))
  /\ timing' = IF t = 0 THEN b # "done" ELSE timing
  /\ UNCHANGED <<options, store, phase, item, arrived, loopVars>>

-----------------------------------------------------------------------------
(* The loop of a worker, and execute.                                      *)

CallOf(o) ==
  Call(CASE o.kind \in {"get_hit", "get_miss"} -> "get" [] OTHER -> o.kind, o.key, Value)

\* Does execute accept the result?
Accepts(o, result) ==
  /\ result.ok
  /\ o.kind = "get_hit"  => result.out = Value
  /\ o.kind = "get_miss" => result.out = Missing
  /\ o.kind = "remove"   => result.out = TRUE

InLoop(w) == ~Returned /\ pc[w] = "loop" /\ index[w] < last[w]

Execute(w) ==
  /\ InLoop(w)
  /\ LET o == Operations[index[w] + 1] IN
       /\ store' = Effect(CallOf(o), store)
       /\ ran' = [ran EXCEPT ![index[w] + 1] = @ + 1]
       /\ IF Accepts(o, Result(backend, CallOf(o), store))
            THEN /\ index' = [index EXCEPT ![w] = @ + 1]
                 /\ recorded' = IF phase = "measured"
                                  THEN [recorded EXCEPT ![w] = @ + 1] ELSE recorded
                 /\ UNCHANGED <<pc, errors>>
            ELSE /\ errors' = errors \cup {w}
                 /\ GoTo(w, "done")
                 /\ UNCHANGED <<index, recorded>>
  /\ UNCHANGED <<options, phase, item, arrived, timing, first, last, broken>>

\* Mutant: the worker returns instead of leaving its loop.
LoseConnectionReturns(w) ==
  /\ InLoop(w)
  /\ \/ UNCHANGED store
     \/ store' = Effect(CallOf(Operations[index[w] + 1]), store)
  /\ errors' = errors \cup {w}
  /\ broken' = broken \cup {w}
  /\ GoTo(w, "gone")
  /\ UNCHANGED <<options, phase, item, arrived, timing, first, last, index, recorded, ran>>

\* The connection fails before or after the server has run the command.
LoseConnection(w) ==
  /\ InLoop(w)
  /\ \/ UNCHANGED store
     \/ store' = Effect(CallOf(Operations[index[w] + 1]), store)
  /\ errors' = errors \cup {w}
  /\ broken' = broken \cup {w}
  /\ GoTo(w, "done")
  /\ UNCHANGED <<options, phase, item, arrived, timing, first, last, index, recorded, ran>>

LeaveLoop(w) ==
  /\ ~Returned
  /\ pc[w] = "loop"
  /\ index[w] = last[w]
  /\ GoTo(w, "done")
  /\ UNCHANGED <<options, store, phase, item, arrived, timing, loopVars>>

-----------------------------------------------------------------------------
(* The end of run_phase, and main again.                                   *)

Total(counts) == MapThenSumSet(LAMBDA w : counts[w], Workers)

Latencies == Total(recorded)

\* percentile.
Rank(size, percent) == (size * percent + 99) \div 100 - 1

\* Mutant: main waits for the first worker only.
JoinedFirst == pc[1] = "gone"

\* Have the threads that main joins returned?
Joined == \A w \in Workers : pc[w] = "gone"

\* Mutant: main goes on after a warmup with errors.
VerdictWarmupIgnored == errors = {} \/ phase = "warmup"

\* No error has been collected.
Verdict == errors = {}

\* The threads are joined, their errors and latencies collected.
Collect ==
  /\ pc[0] = "join"
  /\ Joined
  /\ IF Verdict
       THEN IF phase = "warmup"
              THEN phase' = "measured" /\ GoTo(0, "prepare")
              ELSE /\ GoTo(0, IF Latencies = Requests THEN "finished" ELSE "failed")
                   /\ UNCHANGED phase
       ELSE GoTo(0, "failed") /\ UNCHANGED phase
  /\ item' = 0
  /\ UNCHANGED <<options, store, arrived, timing, loopVars>>

Main == Connect \/ ControlFails \/ Prepare \/ StartPhase \/ Spawn \/ SpawnFails \/ Spawned \/ Collect

Barrier(t) == \E b \in DOMAIN arrived : Arrive(t, b) \/ Pass(t, b)

Loop(w) == Execute(w) \/ LoseConnection(w) \/ LeaveLoop(w)

Next == Main \/ (\E t \in Threads : Barrier(t)) \/ (\E w \in Workers : Loop(w))

Spec == Init /\ [][Next]_vars

\* Every thread runs, and every call returns, with a result or an error.
FairSpec ==
  /\ Spec
  /\ WF_vars(Main)
  /\ \A t \in Threads : WF_vars(Barrier(t))
  /\ \A w \in Workers : WF_vars(Loop(w))

-----------------------------------------------------------------------------
(* Properties.                                                             *)

\* Operations are executed between phase_start and phase_end only, so what is
\* reported as elapsed is the time of all of them and of nothing else.
TimedWhole == \A w \in Workers : pc[w] = "loop" => timing

\* run_phase returns when no worker can touch its barriers, errors or
\* latencies any more.
ReturnsAlone ==
  pc[0] \in {"connect", "prepare", "failed", "finished"} =>
    \A w \in Workers : pc[w] \in {"none", "gone"}

\* The place of the smallest of some sorted latencies for which at least that
\* part of all is not larger.
IsPercentile(place, size, percent) ==
  /\ place \in 0 .. size - 1
  /\ 100 * (place + 1) >= percent * size
  /\ 100 * place < percent * size

\* The slices of the workers are all operations and do not overlap: none is
\* executed twice, whatever the number of clients, none is left out in a phase
\* without errors, and what is reported has been measured in full, over
\* connections that all still work, with every percentile inside of it.
ReportsEveryOperation ==
  /\ \A i \in DOMAIN ran : ran[i] <= 1
  /\ pc[0] \in {"join", "finished"} /\ errors = {} => \A i \in DOMAIN ran : ran[i] = 1
  /\ pc[0] = "finished" =>
       /\ Latencies = Len(Operations)
       /\ broken = {}
       /\ \A p \in {50, 95, 99} : IsPercentile(Rank(Latencies, p), Latencies, p)

\* Against a server that is a dictionary, no workload fails unless a connection
\* does, in whatever order the clients get their turns, and although a missing
\* key and the value NULL look alike.
FailsForAReason == errors \subseteq broken

\* A backend that has failed may hold the rest of an answer, so none of them is
\* ever called again.
BrokenNeverUsed == \A w \in broken : pc[w] # "loop"

\* What makes these properties inductive.  While run_phase is at work, the
\* threads that have arrived at a barrier have come to it, and a thread that is
\* past it has seen all arrive; ...
Working == pc[0] \in {"spawn", "ready", "start", "done", "join"}

Past(b) ==
  CASE b = "ready" -> {"start", "loop", "done", "join", "gone"}
    [] b = "start" -> {"loop", "done", "join", "gone"}
    [] b = "done"  -> {"join", "gone"}

BarriersHold ==
  Working => \A b \in DOMAIN arrived : \A t \in Threads :
    /\ t \in arrived[b] => pc[t] = b \/ pc[t] \in Past(b)
    /\ pc[t] \in Past(b) => arrived[b] = Threads

\* ... the threads that main has not made yet are none, the clock runs while main
\* is between the barriers, and what is broken is in errors until the program
\* fails because of it.
ThreadsMatchMain ==
  /\ pc[0] = "spawn" => item \in Nat /\ \A w \in Workers : w > item => pc[w] = "none"
  /\ pc[0] \in {"start", "done"} => timing
  /\ pc[0] = "terminated" => \A w \in Workers : pc[w] \in {"none", "ready"}

BrokenHasError ==
  /\ pc[0] \in {"connect", "prepare"} => broken = {}
  /\ Working => broken \subseteq errors
  /\ \A w \in broken : w \in Workers /\ pc[w] \in {"done", "gone"}

\* (the places where a thread can be)
TypeOK ==
  /\ pc \in [Threads -> {"connect", "prepare", "spawn", "ready", "start", "done", "join",
                          "failed", "finished", "terminated", "none", "loop", "gone"}]
  /\ pc[0] \notin {"none", "loop", "gone"}
  /\ \A w \in Workers : pc[w] \in {"none", "ready", "start", "loop", "done", "gone"}
  /\ arrived \in [{"ready", "start", "done"} -> SUBSET Threads]

Inv == TypeOK /\ BarriersHold /\ ThreadsMatchMain /\ BrokenHasError /\ ReturnsAlone

\* The benchmark ends, also if workers fail: every barrier is reached by all.
Ends == <>Returned
=============================================================================

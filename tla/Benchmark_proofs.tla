-------------------------- MODULE Benchmark_proofs --------------------------
(***************************************************************************)
(* The barriers of run_phase, the slices of its workers and the answers    *)
(* they get, for every number of clients, operations and keys, and the     *)
(* percentiles of every number of latencies.                               *)
(***************************************************************************)
EXTENDS Benchmark, TLAPS

Barriers == {"ready", "start", "done"}

\* Main is a thread and no worker.
LEMMA MainIsNoWorker ==
  /\ 0 \in Threads /\ 0 \notin Workers
  /\ Workers \subseteq Threads
  /\ \A t \in Threads : t # 0 => t \in Workers
BY CountsAssumption DEF Threads, Workers

\* One thread goes on and the others stay.
LEMMA GoToMoves ==
  ASSUME TypeOK, NEW t \in Threads, NEW place, GoTo(t, place)
  PROVE  /\ pc'[t] = place
         /\ \A u \in Threads : u # t => pc'[u] = pc[u]
BY DEF TypeOK, GoTo

\* The types of the places after a thread has gone on.
LEMMA GoToTyped ==
  ASSUME TypeOK, NEW t \in Threads, NEW place, GoTo(t, place),
         t = 0 => place \in {"connect", "prepare", "spawn", "ready", "start", "done", "join",
                             "failed", "finished", "terminated"},
         t # 0 => place \in {"ready", "start", "loop", "done", "gone"},
         arrived' \in [Barriers -> SUBSET Threads]
  PROVE  TypeOK'
BY GoToMoves, MainIsNoWorker DEF TypeOK, GoTo, Barriers

\* As long as a worker has not left, main is in run_phase.
LEMMA WorkerMeansWorking ==
  ASSUME Inv, ~Returned, NEW w \in Workers, pc[w] \notin {"none", "gone"}
  PROVE  Working
BY MainIsNoWorker DEF Inv, TypeOK, Returned, Working, ReturnsAlone

-----------------------------------------------------------------------------
(* The invariant is inductive: one lemma for each operation.               *)

LEMMA InitInv ==
  ASSUME Init
  PROVE  Inv
<1>1. pc[0] = "connect" /\ \A w \in Workers : pc[w] = "none"
  BY MainIsNoWorker DEF Init
<1>2. TypeOK
  BY <1>1, MainIsNoWorker DEF Init, TypeOK
<1> QED
  BY <1>1, <1>2
     DEF Init, Inv, Working, BarriersHold, ThreadsMatchMain, BrokenHasError, ReturnsAlone

\* A step of main outside of run_phase that changes its place alone.
LEMMA OutsideInv ==
  ASSUME Inv, pc[0] \in {"connect", "prepare"}, NEW place \in {"prepare", "failed"}, GoTo(0, place),
         UNCHANGED <<arrived, timing, errors, broken>>
  PROVE  Inv'
<1>1. pc'[0] = place /\ \A w \in Workers : pc'[w] = pc[w]
  BY GoToMoves, MainIsNoWorker DEF Inv
<1>2. TypeOK'
  BY MainIsNoWorker, GoToTyped DEF Inv, TypeOK, Barriers
<1> QED
  BY <1>1, <1>2
     DEF Inv, Working, BarriersHold, ThreadsMatchMain, BrokenHasError, ReturnsAlone

LEMMA ConnectInv ==
  ASSUME Inv, Connect
  PROVE  Inv'
BY OutsideInv DEF Connect, loopVars

LEMMA ControlFailsInv ==
  ASSUME Inv, ControlFails
  PROVE  Inv'
BY OutsideInv DEF ControlFails, loopVars

LEMMA PrepareInv ==
  ASSUME Inv, Prepare
  PROVE  Inv'
<1>1. PICK place \in {"prepare", "failed"} : GoTo(0, place)
  BY DEF Prepare
<1> QED
  BY <1>1, OutsideInv DEF Prepare, loopVars

LEMMA StartPhaseInv ==
  ASSUME Inv, StartPhase
  PROVE  Inv'
<1>1. /\ pc'[0] = "spawn" /\ \A w \in Workers : pc'[w] = "none"
      /\ pc' \in [Threads -> {"spawn", "none"}]
      /\ item' = 0 /\ errors' = {} /\ broken' = {}
  BY MainIsNoWorker DEF StartPhase, Inv, BrokenHasError
<1>2. arrived' \in [Barriers -> SUBSET Threads] /\ \A b \in Barriers : arrived'[b] = {}
  BY DEF StartPhase, Inv, TypeOK, Barriers
<1>3. TypeOK'
  BY <1>1, <1>2, MainIsNoWorker DEF TypeOK, Barriers
<1>4. BarriersHold'
  <2> SUFFICES ASSUME NEW b \in Barriers, NEW t \in Threads
               PROVE  t \notin arrived'[b] /\ pc'[t] \notin Past(b)
    BY <1>2 DEF BarriersHold
  <2>1. pc'[t] \in {"spawn", "none"}
    BY <1>1
  <2> QED
    BY <1>2, <2>1 DEF Past, Barriers
<1> QED
  BY <1>1, <1>3, <1>4 DEF Inv, Working, ThreadsMatchMain, BrokenHasError, ReturnsAlone

LEMMA SpawnInv ==
  ASSUME Inv, Spawn
  PROVE  Inv'
<1>1. /\ item \in Nat /\ item + 1 \in Workers /\ item' = item + 1
      /\ pc[0] = "spawn" /\ pc[item + 1] = "none"
      /\ UNCHANGED <<arrived, timing, errors, broken>>
  BY CountsAssumption DEF Inv, ThreadsMatchMain, Spawn, Workers
<1>2. /\ pc'[item + 1] = "ready"
      /\ \A u \in Threads : u # item + 1 => pc'[u] = pc[u]
      /\ pc'[0] = "spawn"
  BY <1>1, GoToMoves, MainIsNoWorker DEF Inv, Spawn
<1>3. TypeOK'
  BY <1>1, GoToTyped, MainIsNoWorker DEF Inv, TypeOK, Spawn, Barriers
<1>4. BarriersHold'
  <2> SUFFICES ASSUME NEW b \in Barriers, NEW t \in Threads
               PROVE  /\ t \in arrived[b] => pc'[t] = b \/ pc'[t] \in Past(b)
                      /\ pc'[t] \in Past(b) => arrived[b] = Threads
    BY <1>1, <1>3 DEF BarriersHold, TypeOK, Barriers
  <2>1. /\ t \in arrived[b] => pc[t] = b \/ pc[t] \in Past(b)
        /\ pc[t] \in Past(b) => arrived[b] = Threads
    BY <1>1 DEF Inv, BarriersHold, TypeOK, Working, Barriers
  <2>2. CASE t = item + 1
    BY <1>1, <1>2, <2>1, <2>2 DEF Past, Barriers
  <2>3. CASE t # item + 1
    BY <1>2, <2>1, <2>3
  <2> QED
    BY <2>2, <2>3
<1>5. ThreadsMatchMain'
  <2>1. ASSUME NEW w \in Workers, w > item + 1
        PROVE  pc'[w] = "none"
    BY <1>1, <1>2, <2>1, MainIsNoWorker DEF Inv, ThreadsMatchMain, Workers
  <2> QED
    BY <1>1, <1>2, <2>1 DEF ThreadsMatchMain
<1>6. BrokenHasError'
  BY <1>1, <1>2, MainIsNoWorker DEF Inv, BrokenHasError, Working
<1> QED
  BY <1>2, <1>3, <1>4, <1>5, <1>6 DEF Inv, ReturnsAlone

\* While main makes threads, none of them is past the first barrier.
LEMMA SpawnedWait ==
  ASSUME Inv, pc[0] = "spawn", NEW w \in Workers
  PROVE  pc[w] \in {"none", "ready"}
<1>1. 0 \notin arrived["ready"]
  BY MainIsNoWorker DEF Inv, BarriersHold, Working, TypeOK, Past
<1>2. pc[w] \notin Past("ready")
  BY <1>1, MainIsNoWorker DEF Inv, BarriersHold, Working, TypeOK
<1> QED
  BY <1>2 DEF Inv, TypeOK, Past

LEMMA SpawnFailsInv ==
  ASSUME Inv, SpawnFails
  PROVE  Inv'
<1>1. /\ pc[0] = "spawn" /\ pc'[0] = "terminated" /\ \A w \in Workers : pc'[w] = pc[w]
      /\ UNCHANGED <<arrived, timing, errors, broken>>
  BY GoToMoves, MainIsNoWorker DEF Inv, SpawnFails, loopVars
<1>2. TypeOK'
  BY <1>1, GoToTyped, MainIsNoWorker DEF Inv, TypeOK, SpawnFails, Barriers
<1>3. \A w \in Workers : pc'[w] \in {"none", "ready"}
  BY <1>1, SpawnedWait
<1> QED
  BY <1>1, <1>2, <1>3
     DEF Inv, Working, BarriersHold, ThreadsMatchMain, BrokenHasError, ReturnsAlone

\* A thread goes on inside run_phase, neither past a barrier nor back.
LEMMA InsideInv ==
  ASSUME Inv, Working, NEW t \in Threads, NEW place, GoTo(t, place),
         \/ t = 0 /\ pc[t] = "spawn" /\ place = "ready"
         \/ t \in Workers /\ pc[t] = "loop" /\ place = "done",
         UNCHANGED <<arrived, timing>>,
         \/ UNCHANGED <<errors, broken>>
         \/ t \in Workers /\ errors' = errors \cup {t} /\ broken' \in {broken, broken \cup {t}}
  PROVE  Inv'
<1>1. pc'[t] = place /\ \A u \in Threads : u # t => pc'[u] = pc[u]
  BY GoToMoves DEF Inv
<1>2. TypeOK'
  BY GoToTyped, MainIsNoWorker DEF Inv, TypeOK, Barriers
<1>3. BarriersHold'
  <2> SUFFICES ASSUME NEW b \in Barriers, NEW u \in Threads
               PROVE  /\ u \in arrived[b] => pc'[u] = b \/ pc'[u] \in Past(b)
                      /\ pc'[u] \in Past(b) => arrived[b] = Threads
    BY <1>2 DEF BarriersHold, TypeOK, Barriers
  <2>1. /\ u \in arrived[b] => pc[u] = b \/ pc[u] \in Past(b)
        /\ pc[u] \in Past(b) => arrived[b] = Threads
    BY DEF Inv, BarriersHold, TypeOK, Barriers
  <2>2. CASE u = t
    BY <1>1, <2>1, <2>2 DEF Past, Barriers
  <2>3. CASE u # t
    BY <1>1, <2>1, <2>3
  <2> QED
    BY <2>2, <2>3
<1>4. pc'[0] = (IF t = 0 THEN "ready" ELSE pc[0]) /\ pc'[0] \in {"spawn", "ready", "start", "done", "join"}
  BY <1>1, MainIsNoWorker DEF Working
<1>5. ThreadsMatchMain'
  <2>1. CASE t = 0
    BY <1>4, <2>1 DEF ThreadsMatchMain
  <2>2. CASE t # 0
    <3>1. pc[0] # "spawn" /\ pc'[0] = pc[0]
      BY <1>4, <2>2, SpawnedWait
    <3> QED
      BY <1>4, <3>1 DEF Inv, ThreadsMatchMain
  <2> QED
    BY <2>1, <2>2
<1>6. BrokenHasError'
  <2>1. \A w \in broken : w \in Workers /\ pc[w] \in {"done", "gone"}
    BY DEF Inv, BrokenHasError
  <2>2. broken \subseteq errors
    BY DEF Inv, BrokenHasError
  <2>3. broken' \subseteq errors' /\ (broken' = broken \/ (broken' = broken \cup {t} /\ t \in Workers))
    <3>1. CASE UNCHANGED <<errors, broken>>
      BY <2>2, <3>1
    <3>2. CASE t \in Workers /\ errors' = errors \cup {t} /\ broken' \in {broken, broken \cup {t}}
      BY <2>2, <3>2
    <3> QED
      BY <3>1, <3>2
  <2>4. \A w \in broken' : w \in Workers /\ pc'[w] \in {"done", "gone"}
    BY <1>1, <2>1, <2>3, MainIsNoWorker
  <2> QED
    BY <1>4, <2>3, <2>4 DEF BrokenHasError
<1> QED
  BY <1>2, <1>3, <1>4, <1>5, <1>6 DEF Inv, ReturnsAlone

LEMMA SpawnedInv ==
  ASSUME Inv, Spawned
  PROVE  Inv'
BY InsideInv, MainIsNoWorker DEF Spawned, Working, loopVars

LEMMA ArriveInv ==
  ASSUME Inv, NEW t \in Threads, NEW b \in DOMAIN arrived, Arrive(t, b)
  PROVE  Inv'
<1>1. /\ b \in Barriers /\ pc' = pc /\ pc[t] = b
      /\ UNCHANGED <<item, timing, errors, broken>>
      /\ arrived' = [arrived EXCEPT ![b] = @ \cup {t}]
      /\ arrived' \in [Barriers -> SUBSET Threads]
  BY DEF Inv, TypeOK, Arrive, Barriers, loopVars
<1>2. TypeOK'
  BY <1>1 DEF Inv, TypeOK, Barriers
<1>3. BarriersHold'
  <2> SUFFICES ASSUME Working, NEW c \in Barriers, NEW u \in Threads
               PROVE  /\ u \in arrived'[c] => pc[u] = c \/ pc[u] \in Past(c)
                      /\ pc[u] \in Past(c) => arrived'[c] = Threads
    BY <1>1, <1>2 DEF BarriersHold, TypeOK, Barriers, Working
  <2>1. /\ u \in arrived[c] => pc[u] = c \/ pc[u] \in Past(c)
        /\ pc[u] \in Past(c) => arrived[c] = Threads
    BY DEF Inv, BarriersHold, TypeOK, Barriers
  <2>2. arrived'[c] = IF c = b THEN arrived[c] \cup {t} ELSE arrived[c]
    BY <1>1 DEF Inv, TypeOK, Barriers
  <2> QED
    BY <1>1, <2>1, <2>2
<1> QED
  BY <1>1, <1>2, <1>3 DEF Inv, ThreadsMatchMain, BrokenHasError, ReturnsAlone, Working

LEMMA PassInv ==
  ASSUME Inv, NEW t \in Threads, NEW b \in DOMAIN arrived, Pass(t, b)
  PROVE  Inv'
<1>1. /\ b \in Barriers /\ pc[t] = b /\ arrived[b] = Threads /\ ~Returned
      /\ UNCHANGED <<item, arrived, errors, broken>>
      /\ timing' = IF t = 0 THEN b # "done" ELSE timing
  BY DEF Inv, TypeOK, Pass, Barriers, loopVars
<1>2. Working
  BY <1>1, WorkerMeansWorking, MainIsNoWorker DEF Working, Barriers
<1>3. pc'[t] = Behind(t, b) /\ \A u \in Threads : u # t => pc'[u] = pc[u]
  BY GoToMoves DEF Inv, Pass
<1>4. /\ t = 0 => Behind(t, b) = (CASE b = "ready" -> "start" [] b = "start" -> "done" [] b = "done" -> "join")
      /\ t # 0 => Behind(t, b) = (CASE b = "ready" -> "start" [] b = "start" -> "loop" [] b = "done" -> "gone")
  BY <1>1 DEF Behind, Barriers
<1>5. TypeOK'
  BY <1>1, <1>4, GoToTyped, MainIsNoWorker DEF Inv, TypeOK, Pass, Barriers
<1>6. BarriersHold'
  <2> SUFFICES ASSUME NEW c \in Barriers, NEW u \in Threads
               PROVE  /\ u \in arrived[c] => pc'[u] = c \/ pc'[u] \in Past(c)
                      /\ pc'[u] \in Past(c) => arrived[c] = Threads
    BY <1>1, <1>5 DEF BarriersHold, TypeOK, Barriers
  <2>1. /\ u \in arrived[c] => pc[u] = c \/ pc[u] \in Past(c)
        /\ pc[u] \in Past(c) => arrived[c] = Threads
    BY <1>2 DEF Inv, BarriersHold, TypeOK, Barriers
  <2>2. CASE u = t
    BY <1>1, <1>3, <1>4, <2>1, <2>2 DEF Past, Barriers
  <2>3. CASE u # t
    BY <1>3, <2>1, <2>3
  <2> QED
    BY <2>2, <2>3
<1>7. pc'[0] = (IF t = 0 THEN Behind(t, b) ELSE pc[0]) /\ pc'[0] \in {"spawn", "ready", "start", "done", "join"}
  BY <1>1, <1>2, <1>3, <1>4, MainIsNoWorker DEF Working, Barriers
<1>8. ThreadsMatchMain'
  <2>1. CASE t = 0
    BY <1>1, <1>4, <1>7, <2>1 DEF ThreadsMatchMain, Barriers
  <2>2. CASE t # 0
    <3>1. pc'[0] = pc[0] /\ timing' = timing
      BY <1>1, <1>7, <2>2
    <3>2. pc[0] # "spawn"
      BY <1>1, <1>2, MainIsNoWorker DEF Inv, BarriersHold, TypeOK, Barriers, Past
    <3> QED
      BY <1>7, <3>1, <3>2 DEF Inv, ThreadsMatchMain
  <2> QED
    BY <2>1, <2>2
<1>9. BrokenHasError'
  <2>1. \A w \in broken : w \in Workers /\ pc[w] \in {"done", "gone"}
    BY DEF Inv, BrokenHasError
  <2>2. \A w \in broken : pc'[w] \in {"done", "gone"}
    BY <1>1, <1>3, <1>4, <2>1, MainIsNoWorker DEF Barriers
  <2> QED
    BY <1>1, <1>2, <1>7, <2>1, <2>2 DEF Inv, BrokenHasError
<1> QED
  BY <1>5, <1>6, <1>7, <1>8, <1>9 DEF Inv, ReturnsAlone

\* A step of a worker that stays in its loop.
LEMMA InLoopInv ==
  ASSUME Inv, UNCHANGED <<pc, item, arrived, timing, errors, broken>>
  PROVE  Inv'
BY DEF Inv, TypeOK, BarriersHold, Working, ThreadsMatchMain, BrokenHasError, ReturnsAlone

LEMMA LoopInv ==
  ASSUME Inv, NEW w \in Workers, Loop(w)
  PROVE  Inv'
<1>1. Working /\ w \in Threads /\ pc[w] = "loop"
  BY WorkerMeansWorking, MainIsNoWorker DEF Loop, Execute, LoseConnection, LeaveLoop, InLoop
<1>2. CASE Execute(w)
  <2>1. CASE UNCHANGED <<pc, errors>>
    BY <1>2, <2>1, InLoopInv DEF Execute
  <2>2. CASE errors' = errors \cup {w} /\ GoTo(w, "done")
    BY <1>1, <1>2, <2>2, InsideInv DEF Execute
  <2> QED
    BY <1>2, <2>1, <2>2 DEF Execute
<1>3. CASE LoseConnection(w)
  BY <1>1, <1>3, InsideInv DEF LoseConnection
<1>4. CASE LeaveLoop(w)
  BY <1>1, <1>4, InsideInv DEF LeaveLoop, loopVars
<1> QED
  BY <1>2, <1>3, <1>4 DEF Loop

LEMMA CollectInv ==
  ASSUME Inv, Collect
  PROVE  Inv'
<1>1. /\ pc[0] = "join" /\ \A w \in Workers : pc[w] = "gone"
      /\ UNCHANGED <<arrived, timing, errors, broken>>
  BY DEF Collect, Joined, loopVars
<1>2. PICK place \in {"prepare", "finished", "failed"} :
        GoTo(0, place) /\ (place = "prepare" => errors = {})
  BY DEF Collect, Verdict
<1>3. pc'[0] = place /\ \A w \in Workers : pc'[w] = "gone"
  BY <1>1, <1>2, GoToMoves, MainIsNoWorker DEF Inv
<1>4. TypeOK'
  BY <1>1, <1>2, GoToTyped, MainIsNoWorker DEF Inv, TypeOK, Barriers
<1>5. BrokenHasError'
  BY <1>1, <1>2, <1>3 DEF Inv, BrokenHasError, Working
<1> QED
  BY <1>3, <1>4, <1>5 DEF Inv, BarriersHold, Working, ThreadsMatchMain, ReturnsAlone

LEMMA NextInv ==
  ASSUME Inv, [Next]_vars
  PROVE  Inv'
<1>1. CASE Main
  BY <1>1, ConnectInv, ControlFailsInv, PrepareInv, StartPhaseInv, SpawnInv, SpawnFailsInv,
     SpawnedInv, CollectInv DEF Main
<1>2. CASE \E t \in Threads : Barrier(t)
  BY <1>2, ArriveInv, PassInv DEF Barrier
<1>3. CASE \E w \in Workers : Loop(w)
  BY <1>3, LoopInv
<1>4. CASE UNCHANGED vars
  BY <1>4, InLoopInv DEF vars, loopVars
<1> QED
  BY <1>1, <1>2, <1>3, <1>4 DEF Next

-----------------------------------------------------------------------------
(* The theorems.                                                           *)

\* The inductive invariant, for every number of clients.
THEOREM Invariance == Spec => []Inv
<1>1. Init => Inv
  BY InitInv
<1>2. Inv /\ [Next]_vars => Inv'
  BY NextInv
<1> QED
  BY <1>1, <1>2, PTL DEF Spec

\* No operation is executed while the clock stands: a worker that is in its loop
\* is past the second barrier, which main passes after the first and reads the
\* clock between them, and cannot have left the third.
THEOREM AlwaysTimed == Spec => []TimedWhole
<1>1. Inv => TimedWhole
  <2> SUFFICES ASSUME Inv, NEW w \in Workers, pc[w] = "loop"
               PROVE  timing
    BY DEF TimedWhole
  <2>1. pc[0] \notin {"connect", "prepare", "failed", "finished", "terminated"}
    BY DEF Inv, ReturnsAlone, ThreadsMatchMain
  <2>2. Working
    BY <2>1, MainIsNoWorker DEF Inv, TypeOK, Working
  <2>3. arrived["start"] = Threads
    BY <2>2, MainIsNoWorker DEF Inv, BarriersHold, TypeOK, Past
  <2>4. pc[0] \in {"start", "done", "join"}
    BY <2>2, <2>3, MainIsNoWorker DEF Inv, BarriersHold, TypeOK, Past
  <2>5. pc[0] = "join" => arrived["done"] = Threads
    BY <2>2, MainIsNoWorker DEF Inv, BarriersHold, TypeOK, Past
  <2>6. w \notin arrived["done"]
    BY <2>2, MainIsNoWorker DEF Inv, BarriersHold, TypeOK, Past
  <2> QED
    BY <2>4, <2>5, <2>6, MainIsNoWorker DEF Inv, ThreadsMatchMain
<1> QED
  BY <1>1, Invariance, PTL

\* run_phase returns when all its workers have.
THEOREM AlwaysReturnsAlone == Spec => []ReturnsAlone
BY Invariance, PTL DEF Inv

\* No worker is in its loop with a connection that has failed.
THEOREM NeverUsedBroken == Spec => []BrokenNeverUsed
<1>1. Inv => BrokenNeverUsed
  BY DEF Inv, BrokenHasError, BrokenNeverUsed
<1> QED
  BY <1>1, Invariance, PTL

\* percentile reads inside the latencies, and the right one, however many they
\* are and for every part of a hundred.
THEOREM PercentileRight ==
  \A size \in Nat \ {0} : \A percent \in 1 .. 100 : IsPercentile(Rank(size, percent), size, percent)
<1> SUFFICES ASSUME NEW size \in Nat \ {0}, NEW percent \in 1 .. 100
             PROVE  IsPercentile(Rank(size, percent), size, percent)
  OBVIOUS
<1> DEFINE p == size * percent
           rank == Rank(size, percent)
<1>1. p \in Nat /\ p >= 1 /\ p <= 100 * size /\ p = percent * size
  OBVIOUS
<1>2. rank = (p + 99) \div 100 - 1
  BY DEF Rank
<1> HIDE DEF p, rank
<1>3. rank \in Int /\ 100 * (rank + 1) <= p + 99 /\ p + 99 < 100 * (rank + 2)
  BY <1>1, <1>2
<1>4. rank \in 0 .. size - 1 /\ 100 * (rank + 1) >= p /\ 100 * rank < p
  BY <1>1, <1>3
<1> QED
  BY <1>1, <1>4 DEF IsPercentile, rank

-----------------------------------------------------------------------------
(* The slices of the workers, and the operations they execute.             *)

\* offset after the slices of w workers of a phase with n operations.
SliceEnd(n, w) == w * (n \div Clients) + (IF w < n % Clients THEN w ELSE n % Clients)

\* The workers that run_phase has started are 1 .. Made.
Made == IF pc[0] = "spawn" THEN item ELSE Clients

PlanMade ==
  /\ workload \in Workloads /\ phase \in {"warmup", "measured"}
  /\ planned.warmup \in Generated(workload, Warmup, "warmup")
  /\ planned.measured \in Generated(workload, Requests, "measured")

\* The slices follow each other, and each operation up to the end of the last one
\* is in one of them.
Sliced ==
  Working =>
    /\ Made \in 0 .. Clients
    /\ first \in [Workers -> Nat] /\ last \in [Workers -> Nat] /\ index \in [Workers -> Nat]
    /\ \A w \in 1 .. Made : first[w] <= last[w] /\ last[w] = SliceEnd(Len(Operations), w)
    /\ \A v, w \in 1 .. Made : v < w => last[v] <= first[w]
    /\ \A i \in 1 .. Len(Operations) :
         Made > 0 /\ i <= last[Made] => \E w \in 1 .. Made : first[w] < i /\ i <= last[w]

\* A worker has executed its operations up to its index once, and before it leaves
\* its loop none of the others; it leaves it at the end of its slice or with an
\* error.
Executed ==
  Working =>
    /\ ran \in [1 .. Len(Operations) -> 0 .. 1]
    /\ pc[0] = "spawn" => \A i \in 1 .. Len(Operations) : ran[i] = 0
    /\ \A w \in 1 .. Made :
         /\ index[w] \in first[w] .. last[w]
         /\ pc[w] \in {"ready", "start"} => index[w] = first[w]
         /\ pc[w] \in {"ready", "start", "loop"} =>
              \A i \in 1 .. Len(Operations) : index[w] < i /\ i <= last[w] => ran[i] = 0
         /\ \A i \in 1 .. Len(Operations) : first[w] < i /\ i <= index[w] => ran[i] = 1
         /\ pc[w] \in {"done", "gone"} => w \in errors \/ index[w] = last[w]

\* What has been executed, and what is known of it when main has returned.
Reported ==
  /\ \A i \in DOMAIN ran : ran[i] <= 1
  /\ pc[0] = "finished" =>
       /\ phase = "measured" /\ errors = {} /\ broken = {} /\ Latencies = Requests
       /\ \A i \in DOMAIN ran : ran[i] = 1

ReportInv == Inv /\ PlanMade /\ Sliced /\ Executed /\ Reported

\* The quotient and the remainder of the operations that the workers share.
LEMMA Shares ==
  ASSUME NEW n \in Nat
  PROVE  /\ n \div Clients \in Nat /\ n % Clients \in Nat /\ n % Clients < Clients
         /\ n = Clients * (n \div Clients) + (n % Clients)
BY CountsAssumption

\* The ends of the slices, from the first to the last.
LEMMA SliceEnds ==
  ASSUME NEW n \in Nat, NEW w \in Nat
  PROVE  /\ SliceEnd(n, w) \in Nat
         /\ SliceEnd(n, w + 1) = SliceEnd(n, w) + (n \div Clients + (IF w < n % Clients THEN 1 ELSE 0))
         /\ SliceEnd(n, Clients) = n
<1> DEFINE q == n \div Clients
           r == n % Clients
<1>1. q \in Nat /\ r \in Nat /\ r < Clients /\ n = Clients * q + r
  BY Shares
<1>2. /\ SliceEnd(n, w) = w * q + (IF w < r THEN w ELSE r)
      /\ SliceEnd(n, w + 1) = (w + 1) * q + (IF w + 1 < r THEN w + 1 ELSE r)
      /\ SliceEnd(n, Clients) = Clients * q + (IF Clients < r THEN Clients ELSE r)
  BY DEF SliceEnd
<1> HIDE DEF q, r
<1>3. w * q \in Nat /\ (w + 1) * q = w * q + q
  BY <1>1
<1>4. SliceEnd(n, w) \in Nat /\ SliceEnd(n, Clients) = n
  BY <1>1, <1>2, <1>3, CountsAssumption
<1>5. SliceEnd(n, w + 1) = SliceEnd(n, w) + (q + (IF w < r THEN 1 ELSE 0))
  BY <1>1, <1>2, <1>3
<1> QED
  BY <1>4, <1>5 DEF q, r

\* The first slice begins with the first operation.
LEMMA SliceStartsAtZero ==
  ASSUME NEW n \in Nat
  PROVE  SliceEnd(n, 0) = 0
<1> DEFINE q == n \div Clients
           r == n % Clients
<1>1. q \in Nat /\ r \in Nat
  BY Shares
<1>2. SliceEnd(n, 0) = 0 * q + (IF 0 < r THEN 0 ELSE r)
  BY DEF SliceEnd
<1> HIDE DEF q, r
<1> QED
  BY <1>1, <1>2

\* Both phases have a list of operations.
LEMMA OperationsListed ==
  ASSUME PlanMade
  PROVE  /\ Len(Operations) \in Nat /\ DOMAIN Operations = 1 .. Len(Operations)
         /\ phase = "measured" => Len(Operations) = Requests
<1>1. ASSUME NEW n \in Nat, NEW name, NEW f \in Generated(workload, n, name)
      PROVE  DOMAIN f = 1 .. n /\ Len(f) = n
  <2>1. DOMAIN f = 1 .. n /\ f = [i \in DOMAIN f |-> f[i]]
    BY <1>1 DEF Generated
  <2> QED
    BY <2>1
<1> QED
  BY <1>1, CountsAssumption DEF PlanMade, Operations

\* An operation is in one slice only.
LEMMA SlicesDisjoint ==
  ASSUME Sliced, Working, NEW v \in 1 .. Made, NEW w \in 1 .. Made, v # w,
         NEW i \in Nat, first[v] < i, i <= last[v]
  PROVE  ~(first[w] < i /\ i <= last[w])
<1>1. /\ v \in Int /\ w \in Int /\ v \in Workers /\ w \in Workers
      /\ first[v] \in Nat /\ last[v] \in Nat /\ first[w] \in Nat /\ last[w] \in Nat
      /\ v < w => last[v] <= first[w]
      /\ w < v => last[w] <= first[v]
  BY CountsAssumption DEF Sliced, Workers
<1> QED
  BY <1>1

\* When all workers are started, the slices are all operations.
LEMMA SlicesComplete ==
  ASSUME PlanMade, Sliced, Working, Made = Clients, NEW i \in DOMAIN Operations
  PROVE  \E w \in Workers : first[w] < i /\ i <= last[w]
<1>1. last[Clients] = Len(Operations)
  <2>1. Clients \in Nat /\ Clients \in 1 .. Made
    BY CountsAssumption
  <2>2. Len(Operations) \in Nat
    BY OperationsListed
  <2> QED
    BY <2>1, <2>2, SliceEnds DEF Sliced
<1>2. i \in 1 .. Len(Operations) /\ i <= last[Clients]
  BY <1>1, OperationsListed
<1> QED
  BY <1>2, CountsAssumption DEF Sliced, Workers

\* No slice goes further than the operations.
LEMMA SliceInside ==
  ASSUME PlanMade, Sliced, Working, Made = Clients, NEW w \in Workers
  PROVE  last[w] <= Len(Operations)
<1>1. last[Clients] = Len(Operations)
  <2>1. Clients \in Nat /\ Clients \in 1 .. Made
    BY CountsAssumption
  <2>2. Len(Operations) \in Nat
    BY OperationsListed
  <2> QED
    BY <2>1, <2>2, SliceEnds DEF Sliced
<1>2. w = Clients \/ (w < Clients /\ last[w] <= first[Clients])
  BY CountsAssumption DEF Sliced, Workers
<1>3. first[Clients] <= last[Clients] /\ Clients \in Workers
  BY CountsAssumption DEF Sliced, Workers
<1> QED
  BY <1>1, <1>2, <1>3, OperationsListed DEF Sliced

\* The operations of a program stay, and those of a phase until its end.
LEMMA PlanStays ==
  ASSUME PlanMade, [Next]_vars
  PROVE  PlanMade' /\ (phase' = phase => Operations' = Operations)
<1>1. UNCHANGED options /\ phase' \in {phase, "measured"}
  BY DEF Next, Main, Connect, ControlFails, Prepare, StartPhase, Spawn, SpawnFails, Spawned, Collect,
         Barrier, Arrive, Pass, Loop, Execute, LoseConnection, LeaveLoop, vars
<1> QED
  BY <1>1 DEF PlanMade, Operations, options

LEMMA StartPhaseSliced ==
  ASSUME ReportInv, StartPhase
  PROVE  Sliced' /\ Executed'
<1>1. /\ pc'[0] = "spawn" /\ item' = 0 /\ Operations' = Operations
      /\ first' \in [Workers -> Nat] /\ last' \in [Workers -> Nat] /\ index' \in [Workers -> Nat]
      /\ ran' = [i \in DOMAIN Operations |-> 0]
  BY MainIsNoWorker DEF StartPhase, Operations, options
<1>2. Made' = 0 /\ Len(Operations)' = Len(Operations) /\ DOMAIN Operations = 1 .. Len(Operations)
  BY <1>1, OperationsListed DEF Made, ReportInv
<1>3. Sliced'
  BY <1>1, <1>2, CountsAssumption DEF Sliced
<1>4. Executed'
  BY <1>1, <1>2 DEF Executed
<1> QED
  BY <1>3, <1>4

LEMMA SpawnSliced ==
  ASSUME ReportInv, Spawn
  PROVE  Sliced' /\ Executed'
<1> DEFINE w == item + 1
           n == Len(Operations)
<1>1. /\ pc[0] = "spawn" /\ pc'[0] = "spawn" /\ Working
      /\ item \in Nat /\ w \in Workers /\ item' = w /\ Made = item /\ Made' = w
      /\ Operations' = Operations /\ n \in Nat
      /\ UNCHANGED <<ran, errors>>
  <2>1. pc[0] = "spawn" /\ item \in Nat /\ item < Clients
    BY DEF Spawn, ReportInv, Inv, ThreadsMatchMain
  <2>2. w \in Workers /\ w # 0
    BY <2>1, CountsAssumption DEF Workers
  <2>3. pc'[0] = "spawn"
    BY <2>1, <2>2, GoToMoves, MainIsNoWorker DEF Spawn, ReportInv, Inv
  <2> QED
    BY <2>1, <2>2, <2>3, OperationsListed DEF Spawn, Working, Made, ReportInv, Operations, options
<1>2. /\ first \in [Workers -> Nat] /\ last \in [Workers -> Nat] /\ index \in [Workers -> Nat]
      /\ \A v \in 1 .. item : v \in Workers /\ first[v] <= last[v] /\ last[v] = SliceEnd(n, v)
      /\ \A u, v \in 1 .. item : u < v => last[u] <= first[v]
      /\ \A i \in 1 .. n : item > 0 /\ i <= last[item] => \E v \in 1 .. item : first[v] < i /\ i <= last[v]
  <2>1. \A v \in 1 .. item : v \in Workers
    BY <1>1, CountsAssumption DEF Workers
  <2>2. /\ first \in [Workers -> Nat] /\ last \in [Workers -> Nat] /\ index \in [Workers -> Nat]
        /\ \A v \in 1 .. Made : first[v] <= last[v] /\ last[v] = SliceEnd(n, v)
        /\ \A u, v \in 1 .. Made : u < v => last[u] <= first[v]
        /\ \A i \in 1 .. n : Made > 0 /\ i <= last[Made] => \E v \in 1 .. Made : first[v] < i /\ i <= last[v]
    BY <1>1 DEF ReportInv, Sliced
  <2> QED
    BY <1>1, <2>1, <2>2
<1>3. /\ Offset \in Nat /\ Offset = SliceEnd(n, item)
      /\ \A v \in 1 .. item : last[v] <= Offset
  <2>1. CASE item = 0
    <3>1. SliceEnd(n, 0) = 0
      BY <1>1, SliceStartsAtZero
    <3> QED
      BY <2>1, <3>1 DEF Offset
  <2>2. CASE item # 0
    <3>1. item \in 1 .. item /\ item \in Workers /\ Offset = last[item]
      BY <1>1, <1>2, <2>2 DEF Offset
    <3>2. ASSUME NEW v \in 1 .. item
          PROVE  last[v] <= last[item]
      <4>1. v = item \/ (v < item /\ last[v] <= first[item])
        BY <1>1, <1>2, <3>1
      <4> QED
        BY <1>2, <3>1, <4>1
    <3> QED
      BY <1>2, <3>1, <3>2
  <2> QED
    BY <2>1, <2>2
<1>4. Count(w) \in Nat /\ Offset + Count(w) = SliceEnd(n, w)
  <2>1. Count(w) = n \div Clients + (IF item < n % Clients THEN 1 ELSE 0)
    BY <1>1 DEF Count
  <2>2. Count(w) \in Nat
    <3>1. n \div Clients \in Nat
      BY <1>1, Shares
    <3> HIDE DEF n
    <3> QED
      BY <2>1, <3>1
  <2> QED
    BY <1>1, <1>3, <2>1, <2>2, SliceEnds
<1>5. /\ first' = [first EXCEPT ![w] = Offset]
      /\ last' = [last EXCEPT ![w] = Offset + Count(w)]
      /\ index' = [index EXCEPT ![w] = Offset]
  BY DEF Spawn
<1> HIDE DEF w, n
<1>6. /\ first' \in [Workers -> Nat] /\ last' \in [Workers -> Nat] /\ index' \in [Workers -> Nat]
      /\ first'[w] = Offset /\ index'[w] = Offset /\ last'[w] = SliceEnd(n, w)
      /\ \A v \in 1 .. item : first'[v] = first[v] /\ last'[v] = last[v] /\ index'[v] = index[v]
  BY <1>1, <1>2, <1>3, <1>4, <1>5 DEF w
<1>7. /\ 1 .. w = (1 .. item) \cup {w} /\ Made' \in 0 .. Clients /\ Len(Operations)' = n
      /\ \A v \in 1 .. item : v < w /\ v # w
  BY <1>1, CountsAssumption DEF w, n, Workers
<1>8. Sliced'
  <2>1. \A v \in 1 .. w : first'[v] <= last'[v] /\ last'[v] = SliceEnd(n, v)
    <3>1. Offset <= SliceEnd(n, w)
      BY <1>3, <1>4
    <3> QED
      BY <1>2, <1>6, <1>7, <3>1
  <2>2. ASSUME NEW u \in 1 .. w, NEW v \in 1 .. w, u < v
        PROVE  last'[u] <= first'[v]
    <3>1. u \in 1 .. item
      BY <1>1, <1>7, <2>2 DEF w
    <3>2. CASE v = w
      BY <1>3, <1>6, <3>1, <3>2
    <3>3. CASE v \in 1 .. item
      BY <1>2, <1>6, <2>2, <3>1, <3>3
    <3> QED
      BY <1>7, <3>2, <3>3
  <2>3. ASSUME NEW i \in 1 .. n, i <= last'[w]
        PROVE  \E v \in 1 .. w : first'[v] < i /\ i <= last'[v]
    <3>1. CASE Offset < i
      BY <1>6, <1>7, <2>3, <3>1
    <3>2. CASE ~(Offset < i)
      <4>1. item > 0 /\ i <= last[item]
        BY <1>1, <1>3, <3>2 DEF Offset
      <4>2. PICK v \in 1 .. item : first[v] < i /\ i <= last[v]
        BY <1>2, <4>1
      <4> QED
        BY <1>6, <1>7, <4>2
    <3> QED
      BY <3>1, <3>2
  <2> QED
    BY <1>1, <1>6, <1>7, <2>1, <2>2, <2>3 DEF Sliced
<1>9. Executed'
  <2>1. ran' \in [1 .. n -> 0 .. 1] /\ \A i \in 1 .. n : ran'[i] = 0
    BY <1>1 DEF ReportInv, Executed, n
  <2>2. /\ \A v \in Workers : pc'[v] \in {"none", "ready"}
        /\ \A v \in 1 .. item : pc[v] \in {"none", "ready"}
        /\ \A v \in 1 .. item : pc'[v] = pc[v]
    <3>1. \A v \in Workers : pc[v] \in {"none", "ready"}
      BY <1>1, SpawnedWait DEF ReportInv
    <3>2. pc'[w] = "ready" /\ \A v \in Workers : v # w => pc'[v] = pc[v]
      BY <1>1, GoToMoves, MainIsNoWorker DEF Spawn, ReportInv, Inv, w
    <3> QED
      BY <1>2, <1>7, <3>1, <3>2
  <2>3. ASSUME NEW v \in 1 .. item
        PROVE  /\ index[v] \in first[v] .. last[v]
               /\ pc[v] \in {"ready", "start"} => index[v] = first[v]
               /\ \A i \in 1 .. n : first[v] < i /\ i <= index[v] => ran[i] = 1
    BY <1>1 DEF ReportInv, Executed, n
  <2>4. ASSUME NEW v \in 1 .. w
        PROVE  /\ index'[v] \in first'[v] .. last'[v]
               /\ pc'[v] \in {"ready", "start"} => index'[v] = first'[v]
               /\ \A i \in 1 .. n : first'[v] < i /\ i <= index'[v] => ran'[i] = 1
    <3>1. CASE v = w
      BY <1>3, <1>4, <1>6, <3>1
    <3>2. CASE v \in 1 .. item
      BY <1>1, <1>6, <2>2, <2>3, <3>2
    <3> QED
      BY <1>7, <3>1, <3>2
  <2>5. \A v \in 1 .. w : v \in Workers
    BY <1>1, <1>2, <1>7
  <2> QED
    BY <1>1, <1>7, <2>1, <2>2, <2>4, <2>5 DEF Executed
<1> QED
  BY <1>8, <1>9

\* A step that neither executes an operation nor leaves a loop.
LEMMA QuietSliced ==
  ASSUME ReportInv, Working, Made' = Made, Operations' = Operations,
         UNCHANGED <<first, last, index, ran, errors>>, pc'[0] = "spawn" => pc[0] = "spawn",
         \A w \in Workers :
           \/ pc'[w] = pc[w]
           \/ pc[w] = "ready" /\ pc'[w] = "start"
           \/ pc[w] = "start" /\ pc'[w] = "loop"
           \/ pc[w] = "done" /\ pc'[w] = "gone"
  PROVE  Sliced' /\ Executed'
<1>1. Sliced'
  BY DEF ReportInv, Sliced
<1>2. 1 .. Made \subseteq Workers
  BY CountsAssumption DEF ReportInv, Sliced, Workers
<1>3. Executed'
  <2> SUFFICES
        /\ pc'[0] = "spawn" => \A i \in 1 .. Len(Operations) : ran[i] = 0
        /\ \A w \in 1 .. Made :
             /\ pc'[w] \in {"ready", "start"} => index[w] = first[w]
             /\ pc'[w] \in {"ready", "start", "loop"} =>
                  \A i \in 1 .. Len(Operations) : index[w] < i /\ i <= last[w] => ran[i] = 0
             /\ pc'[w] \in {"done", "gone"} => w \in errors \/ index[w] = last[w]
    BY DEF ReportInv, Executed
  <2> QED
    BY <1>2 DEF ReportInv, Executed
<1> QED
  BY <1>1, <1>3

LEMMA BarrierSliced ==
  ASSUME ReportInv, NEW t \in Threads, NEW b \in DOMAIN arrived, Arrive(t, b) \/ Pass(t, b)
  PROVE  Sliced' /\ Executed'
<1>1. /\ b \in Barriers /\ pc[t] = b /\ ~Returned
      /\ UNCHANGED <<options, phase, item, first, last, index, ran, errors>>
  BY DEF Arrive, Pass, loopVars, ReportInv, Inv, TypeOK, Barriers
<1>2. Working
  BY <1>1, WorkerMeansWorking, MainIsNoWorker DEF ReportInv, Working, Barriers
<1>3. CASE Arrive(t, b)
  BY <1>1, <1>2, <1>3, QuietSliced DEF Arrive, Made, Operations, options
<1>4. CASE Pass(t, b)
  <2>1. pc'[t] = Behind(t, b) /\ \A u \in Threads : u # t => pc'[u] = pc[u]
    BY <1>4, GoToMoves DEF ReportInv, Inv, Pass
  <2>2. /\ t = 0 => Behind(t, b) \in {"start", "done", "join"}
        /\ t # 0 /\ b = "ready" => Behind(t, b) = "start"
        /\ t # 0 /\ b = "start" => Behind(t, b) = "loop"
        /\ t # 0 /\ b = "done" => Behind(t, b) = "gone"
    BY <1>1 DEF Behind, Barriers
  <2>3. (pc'[0] = "spawn") = (pc[0] = "spawn")
    BY <1>1, <2>1, <2>2, MainIsNoWorker DEF Barriers
  <2>4. \A w \in Workers :
           \/ pc'[w] = pc[w]
           \/ pc[w] = "ready" /\ pc'[w] = "start"
           \/ pc[w] = "start" /\ pc'[w] = "loop"
           \/ pc[w] = "done" /\ pc'[w] = "gone"
    BY <1>1, <2>1, <2>2, MainIsNoWorker DEF Barriers
  <2>5. Made' = Made /\ Operations' = Operations
    BY <1>1, <2>3 DEF Made, Operations, options
  <2> QED
    BY <1>1, <1>2, <2>3, <2>4, <2>5, QuietSliced
<1> QED
  BY <1>3, <1>4

LEMMA SpawnedSliced ==
  ASSUME ReportInv, Spawned
  PROVE  Sliced' /\ Executed'
<1>1. /\ pc[0] = "spawn" /\ item = Clients /\ pc'[0] = "ready" /\ \A w \in Workers : pc'[w] = pc[w]
      /\ UNCHANGED <<options, phase, item, first, last, index, ran, errors>>
  BY GoToMoves, MainIsNoWorker DEF Spawned, loopVars, ReportInv, Inv
<1>2. Made' = Made /\ Operations' = Operations /\ Working
  BY <1>1 DEF Made, Operations, options, Working
<1> QED
  BY <1>1, <1>2, QuietSliced

\* A worker that is past its loop, or executes the next operation of its slice.
LEMMA LoopSliced ==
  ASSUME ReportInv, NEW w \in Workers, Loop(w)
  PROVE  Sliced' /\ Executed'
<1> DEFINE n == Len(Operations)
<1>1. /\ Working /\ pc[w] = "loop" /\ w \in Threads
      /\ UNCHANGED <<options, phase, item, first, last>>
  BY WorkerMeansWorking, MainIsNoWorker
     DEF ReportInv, Loop, Execute, LoseConnection, LeaveLoop, InLoop, loopVars
<1>2. pc[0] # "spawn" /\ pc'[0] = pc[0] /\ \A v \in Workers : v # w => pc'[v] = pc[v]
  <2>1. pc' = pc \/ GoTo(w, "done")
    BY DEF Loop, Execute, LoseConnection, LeaveLoop
  <2>2. pc[0] # "spawn"
    BY <1>1, SpawnedWait DEF ReportInv
  <2> QED
    BY <2>1, <2>2, <1>1, GoToMoves, MainIsNoWorker DEF ReportInv, Inv
<1>3. /\ Made = Clients /\ Made' = Clients /\ Operations' = Operations /\ Working' /\ n \in Nat
      /\ 1 .. Clients = Workers
  BY <1>1, <1>2, OperationsListed DEF Made, Operations, options, Working, ReportInv, Workers
<1>4. /\ first \in [Workers -> Nat] /\ last \in [Workers -> Nat] /\ index \in [Workers -> Nat]
      /\ ran \in [1 .. n -> 0 .. 1]
      /\ \A v \in Workers :
           /\ index[v] \in first[v] .. last[v]
           /\ pc[v] \in {"ready", "start"} => index[v] = first[v]
           /\ pc[v] \in {"ready", "start", "loop"} => \A i \in 1 .. n : index[v] < i /\ i <= last[v] => ran[i] = 0
           /\ \A i \in 1 .. n : first[v] < i /\ i <= index[v] => ran[i] = 1
           /\ pc[v] \in {"done", "gone"} => v \in errors \/ index[v] = last[v]
  BY <1>1, <1>3 DEF ReportInv, Sliced, Executed
<1>5. index' \in [Workers -> Nat] => Sliced'
  BY <1>1, <1>3 DEF ReportInv, Sliced
<1>6. ASSUME ran' \in [1 .. n -> 0 .. 1],
             \A v \in Workers :
               /\ index'[v] \in first[v] .. last[v]
               /\ pc'[v] \in {"ready", "start"} => index'[v] = first[v]
               /\ pc'[v] \in {"ready", "start", "loop"} =>
                    \A i \in 1 .. n : index'[v] < i /\ i <= last[v] => ran'[i] = 0
               /\ \A i \in 1 .. n : first[v] < i /\ i <= index'[v] => ran'[i] = 1
               /\ pc'[v] \in {"done", "gone"} => v \in errors' \/ index'[v] = last[v]
      PROVE  Executed'
  BY <1>1, <1>2, <1>3, <1>6 DEF Executed
<1> HIDE DEF n
<1>7. CASE LeaveLoop(w) \/ LoseConnection(w)
  <2>1. /\ UNCHANGED <<index, ran>> /\ errors \subseteq errors' /\ pc'[w] = "done"
        /\ w \in errors' \/ index[w] = last[w]
    BY <1>1, <1>7, GoToMoves DEF LeaveLoop, LoseConnection, loopVars, ReportInv, Inv
  <2> QED
    BY <1>2, <1>4, <1>5, <1>6, <2>1
<1>8. CASE Execute(w)
  <2> DEFINE o == index[w] + 1
  <2>1. /\ index[w] < last[w] /\ ran' = [ran EXCEPT ![o] = @ + 1]
        /\ \/ index' = [index EXCEPT ![w] = o] /\ UNCHANGED <<pc, errors>>
           \/ index' = index /\ errors' = errors \cup {w} /\ GoTo(w, "done")
    BY <1>8 DEF Execute, InLoop
  <2>2. o \in 1 .. n /\ first[w] < o /\ o <= last[w]
    <3>1. last[w] <= n
      BY <1>1, <1>3, SliceInside DEF ReportInv, n
    <3> QED
      BY <1>3, <1>4, <2>1, <3>1
  <2>3. \A v \in Workers : v # w => ~(first[v] < o /\ o <= last[v])
    <3>1. Sliced /\ w \in 1 .. Made /\ o \in Nat
      <4>1. w \in 1 .. Made
        BY <1>3
      <4>2. o \in Nat
        BY <1>4
      <4> QED
        BY <4>1, <4>2 DEF ReportInv
    <3>2. ASSUME NEW v \in Workers, v # w
          PROVE  ~(first[v] < o /\ o <= last[v])
      <4>1. v \in 1 .. Made
        BY <1>3
      <4> QED
        BY <1>1, <2>2, <3>1, <3>2, <4>1, SlicesDisjoint
    <3> QED
      BY <3>2
  <2> HIDE DEF o
  <2>4. /\ ran' \in [1 .. n -> 0 .. 1] /\ ran'[o] = 1
        /\ \A i \in 1 .. n : i # o => ran'[i] = ran[i]
    <3>1. ran[o] = 0
      BY <1>1, <1>4, <2>1, <2>2 DEF o
    <3> QED
      BY <1>4, <2>1, <2>2, <3>1
  <2>5. CASE index' = [index EXCEPT ![w] = o] /\ UNCHANGED <<pc, errors>>
    <3>1. index' \in [Workers -> Nat] /\ index'[w] = o /\ \A v \in Workers : v # w => index'[v] = index[v]
      BY <1>4, <2>2, <2>5
    <3>2. ASSUME NEW v \in Workers
          PROVE  /\ index'[v] \in first[v] .. last[v]
                 /\ pc'[v] \in {"ready", "start"} => index'[v] = first[v]
                 /\ pc'[v] \in {"ready", "start", "loop"} =>
                      \A i \in 1 .. n : index'[v] < i /\ i <= last[v] => ran'[i] = 0
                 /\ \A i \in 1 .. n : first[v] < i /\ i <= index'[v] => ran'[i] = 1
                 /\ pc'[v] \in {"done", "gone"} => v \in errors' \/ index'[v] = last[v]
      <4>1. CASE v = w
        <5>1. \A i \in 1 .. n : (o < i => i # o /\ index[w] < i) /\ (i <= o => i = o \/ i <= index[w])
          BY <1>4 DEF o
        <5> QED
          BY <1>1, <1>4, <2>2, <2>4, <2>5, <3>1, <4>1, <5>1
      <4>2. CASE v # w
        BY <1>4, <2>3, <2>4, <2>5, <3>1, <4>2
      <4> QED
        BY <4>1, <4>2
    <3> QED
      BY <1>5, <1>6, <2>4, <3>1, <3>2
  <2>6. CASE index' = index /\ errors' = errors \cup {w} /\ GoTo(w, "done")
    <3>1. pc'[w] = "done"
      BY <1>1, <2>6, GoToMoves DEF ReportInv, Inv
    <3>2. ASSUME NEW v \in Workers
          PROVE  /\ index'[v] \in first[v] .. last[v]
                 /\ pc'[v] \in {"ready", "start"} => index'[v] = first[v]
                 /\ pc'[v] \in {"ready", "start", "loop"} =>
                      \A i \in 1 .. n : index'[v] < i /\ i <= last[v] => ran'[i] = 0
                 /\ \A i \in 1 .. n : first[v] < i /\ i <= index'[v] => ran'[i] = 1
                 /\ pc'[v] \in {"done", "gone"} => v \in errors' \/ index'[v] = last[v]
      <4>1. CASE v = w
        <5>1. \A i \in 1 .. n : i <= index[w] => i # o
          BY <1>4 DEF o
        <5> QED
          BY <1>4, <2>4, <2>6, <3>1, <4>1, <5>1
      <4>2. CASE v # w
        <5>1. pc'[v] = pc[v] /\ index'[v] = index[v] /\ (v \in errors => v \in errors')
          BY <1>2, <2>6, <4>2
        <5>2. \A i \in 1 .. n : first[v] < i /\ i <= last[v] => ran'[i] = ran[i]
          BY <2>3, <2>4, <4>2
        <5> QED
          BY <1>4, <5>1, <5>2
      <4> QED
        BY <4>1, <4>2
    <3> QED
      BY <1>4, <1>5, <1>6, <2>4, <2>6, <3>2
  <2> QED
    BY <2>1, <2>5, <2>6
<1> QED
  BY <1>7, <1>8 DEF Loop

\* When main has joined the workers and none has an error, each operation has
\* been executed.
LEMMA AllExecuted ==
  ASSUME ReportInv, pc[0] = "join", errors = {}
  PROVE  \A i \in DOMAIN ran : ran[i] = 1
<1>1. Working /\ Made = Clients /\ 1 .. Clients = Workers
  BY DEF Working, Made, Workers
<1>2. ASSUME NEW w \in Workers
      PROVE  index[w] = last[w]
  <2>1. arrived["done"] = Threads
    BY <1>1, MainIsNoWorker DEF ReportInv, Inv, BarriersHold, TypeOK, Past
  <2>2. pc[w] \in {"done", "gone"}
    BY <1>1, <2>1, MainIsNoWorker DEF ReportInv, Inv, BarriersHold, TypeOK, Past
  <2> QED
    BY <1>1, <2>2 DEF ReportInv, Executed
<1>3. DOMAIN ran = 1 .. Len(Operations) /\ DOMAIN ran = DOMAIN Operations
  BY <1>1, OperationsListed DEF ReportInv, Executed
<1>4. ASSUME NEW i \in DOMAIN ran
      PROVE  ran[i] = 1
  <2>1. PICK w \in Workers : first[w] < i /\ i <= last[w]
    BY <1>1, <1>3, SlicesComplete DEF ReportInv
  <2> QED
    BY <1>1, <1>2, <1>3, <2>1 DEF ReportInv, Executed
<1> QED
  BY <1>4

LEMMA NextReport ==
  ASSUME ReportInv, [Next]_vars
  PROVE  ReportInv'
<1>1. Inv' /\ PlanMade'
  BY NextInv, PlanStays DEF ReportInv
<1>2. CASE Connect \/ ControlFails \/ Prepare \/ SpawnFails
  <2>1. pc'[0] \in {"prepare", "failed", "terminated"} /\ UNCHANGED ran
    BY <1>2, GoToMoves, MainIsNoWorker
       DEF Connect, ControlFails, Prepare, SpawnFails, loopVars, ReportInv, Inv
  <2> QED
    BY <1>1, <2>1 DEF ReportInv, Sliced, Executed, Reported, Working
<1>3. CASE StartPhase
  BY <1>1, <1>3, StartPhaseSliced, MainIsNoWorker DEF ReportInv, Reported, StartPhase
<1>4. CASE Spawn
  <2>1. UNCHANGED ran /\ pc'[0] = pc[0] /\ pc[0] = "spawn"
    <3>1. item + 1 \in Threads /\ item + 1 # 0
      BY <1>4, CountsAssumption DEF Spawn, ReportInv, Inv, ThreadsMatchMain, Threads
    <3> QED
      BY <1>4, <3>1, GoToMoves, MainIsNoWorker DEF Spawn, ReportInv, Inv
  <2> QED
    BY <1>1, <1>4, <2>1, SpawnSliced DEF ReportInv, Reported
<1>5. CASE Spawned
  <2>1. UNCHANGED ran /\ pc'[0] = "ready"
    BY <1>5, GoToMoves, MainIsNoWorker DEF Spawned, loopVars, ReportInv, Inv
  <2> QED
    BY <1>1, <1>5, <2>1, SpawnedSliced DEF ReportInv, Reported
<1>6. CASE Collect
  <2>1. /\ pc[0] = "join" /\ UNCHANGED <<ran, errors, broken, recorded>>
        /\ \/ pc'[0] \in {"prepare", "failed"}
           \/ /\ pc'[0] = "finished" /\ errors = {} /\ phase # "warmup" /\ phase' = phase
              /\ Latencies = Requests
    BY <1>6, GoToMoves, MainIsNoWorker DEF Collect, Verdict, loopVars, ReportInv, Inv
  <2>2. ~Working'
    BY <2>1 DEF Working
  <2>3. Latencies' = Latencies
    BY <2>1 DEF Latencies
  <2>4. errors = {} => broken = {} /\ \A i \in DOMAIN ran : ran[i] = 1
    BY <2>1, AllExecuted DEF ReportInv, Inv, BrokenHasError, Working
  <2>5. Reported'
    BY <2>1, <2>3, <2>4 DEF Reported, ReportInv, PlanMade
  <2> QED
    BY <1>1, <2>2, <2>5 DEF ReportInv, Sliced, Executed
<1>7. CASE \E t \in Threads : Barrier(t)
  <2>1. PICK t \in Threads, b \in DOMAIN arrived : Arrive(t, b) \/ Pass(t, b)
    BY <1>7 DEF Barrier
  <2>2. Sliced' /\ Executed'
    BY <2>1, BarrierSliced
  <2>3. UNCHANGED ran /\ pc'[0] # "finished"
    <3>1. UNCHANGED ran /\ ~Returned /\ b \in Barriers
      BY <2>1 DEF Arrive, Pass, loopVars, ReportInv, Inv, TypeOK, Barriers
    <3>2. CASE Arrive(t, b)
      BY <3>1, <3>2 DEF Arrive, Returned
    <3>3. CASE Pass(t, b)
      BY <3>1, <3>3, GoToMoves, MainIsNoWorker DEF Pass, Behind, Barriers, Returned, ReportInv, Inv
    <3> QED
      BY <2>1, <3>1, <3>2, <3>3
  <2> QED
    BY <1>1, <2>2, <2>3 DEF ReportInv, Reported
<1>8. CASE \E w \in Workers : Loop(w)
  <2>1. PICK w \in Workers : Loop(w)
    BY <1>8
  <2>2. Sliced' /\ Executed'
    BY <2>1, LoopSliced
  <2>3. Working'
    <3>1. Working /\ (pc' = pc \/ GoTo(w, "done"))
      BY <2>1, WorkerMeansWorking
         DEF ReportInv, Loop, Execute, LoseConnection, LeaveLoop, InLoop
    <3> QED
      BY <3>1, GoToMoves, MainIsNoWorker DEF Working, ReportInv, Inv
  <2> QED
    BY <1>1, <2>2, <2>3, OperationsListed DEF ReportInv, Reported, Executed, Working
<1>9. CASE UNCHANGED vars
  <2>1. Sliced' /\ Executed' /\ Reported'
    <3>1. UNCHANGED <<Working, Made, Operations, Latencies>>
      BY <1>9 DEF vars, options, loopVars, Working, Made, Operations, Latencies
    <3> QED
      BY <1>9, <3>1 DEF vars, options, loopVars, ReportInv, Sliced, Executed, Reported
  <2> QED
    BY <1>1, <2>1 DEF ReportInv
<1> QED
  BY <1>2, <1>3, <1>4, <1>5, <1>6, <1>7, <1>8, <1>9 DEF Next, Main

LEMMA InitReport ==
  ASSUME Init
  PROVE  ReportInv
<1>1. pc[0] = "connect"
  BY MainIsNoWorker DEF Init
<1>2. PlanMade
  BY DEF Init, PlanMade
<1>3. DOMAIN ran = {}
  BY DEF Init
<1> QED
  BY <1>1, <1>2, <1>3, InitInv DEF ReportInv, Sliced, Executed, Reported, Working

\* Every operation is executed once at most, in a phase without errors exactly
\* once, and what is reported is all of them, for every number of clients.
THEOREM AlwaysReportsAll == Spec => []ReportsEveryOperation
<1>1. Init => ReportInv
  BY InitReport
<1>2. ReportInv /\ [Next]_vars => ReportInv'
  BY NextReport
<1>3. ReportInv => ReportsEveryOperation
  <2> SUFFICES ASSUME ReportInv
               PROVE  ReportsEveryOperation
    OBVIOUS
  <2>1. ASSUME pc[0] = "finished"
        PROVE  /\ Latencies = Len(Operations) /\ broken = {}
               /\ \A p \in {50, 95, 99} : IsPercentile(Rank(Latencies, p), Latencies, p)
    <3>1. Latencies = Requests /\ Len(Operations) = Requests /\ broken = {}
      BY <2>1, OperationsListed DEF ReportInv, Reported
    <3> QED
      BY <3>1, PercentileRight, CountsAssumption
  <2> QED
    BY <2>1, AllExecuted DEF ReportInv, Reported, ReportsEveryOperation
<1> QED
  BY <1>1, <1>2, <1>3, PTL DEF Spec

-----------------------------------------------------------------------------
(* The contents of the server, and why no call fails on its own.           *)

Holds(key) == store[key] = Value

HasNoMissing == workload = "get-miss" => \A n \in KeyNumbers : store[<<"missing", n>>] = Missing

HasHits == workload \in {"get-hit", "mixed"} => \A n \in KeyNumbers : Holds(<<"key", n>>)

\* What is still to be removed is there.
HasDeletes ==
  workload = "del-hit" =>
    /\ pc[0] = "spawn" => \A i \in 1 .. Len(Operations) : Holds(Operations[i].key)
    /\ \A w \in 1 .. Made :
         pc[w] \in {"ready", "start", "loop"} =>
           \A i \in 1 .. Len(Operations) : index[w] < i /\ i <= last[w] => Holds(Operations[i].key)

Stocked ==
  /\ store \in [Keys -> {Value, Missing, Leftover}]
  /\ pc[0] = "connect" => item = 0
  /\ pc[0] \in {"connect", "prepare"} => item \in Nat /\ errors = {}
  /\ pc[0] = "prepare" /\ item >= 1 =>
       HasNoMissing /\ \A k \in 1 .. item - 1 : Holds(SetupKeys[k])
  /\ Working => HasNoMissing /\ HasHits /\ HasDeletes

ReasonInv == ReportInv /\ Stocked /\ FailsForAReason

\* What the operations of a workload are.
LEMMA OperationKinds ==
  ASSUME PlanMade, NEW i \in DOMAIN Operations, NEW o, o = Operations[i]
  PROVE  /\ workload = "ping" => o.kind = "ping"
         /\ workload = "set" => o.kind = "set"
         /\ workload = "get-hit" => o.kind = "get_hit"
         /\ workload = "get-miss" => o.kind = "get_miss"
         /\ workload = "mixed" => o.kind \in {"get_hit", "set"}
         /\ workload = "del-hit" => o.kind = "remove" /\ o.key = <<"delete", phase, i>>
         /\ workload \in {"set", "get-hit", "mixed"} => \E n \in KeyNumbers : o.key = <<"key", n>>
         /\ workload = "get-miss" => \E n \in KeyNumbers : o.key = <<"missing", n>>
         /\ workload \in {"ping", "set", "get-hit", "get-miss", "mixed", "del-hit"}
         /\ i \in Nat
<1>1. PICK count \in Nat : Operations \in Generated(workload, count, phase)
  BY CountsAssumption DEF PlanMade, Operations
<1>2. CASE workload = "del-hit"
  BY <1>1, <1>2 DEF Generated
<1>3. CASE workload # "del-hit"
  <2>1. o \in OperationsOf(workload) /\ i \in Nat
    BY <1>1, <1>3 DEF Generated
  <2> QED
    BY <1>3, <2>1, OptionsAssumption DEF OperationsOf, PlanMade
<1> QED
  BY <1>2, <1>3

\* The keys of the program are keys of the store.
LEMMA KeysKnown ==
  ASSUME PlanMade
  PROVE  /\ \A n \in KeyNumbers : <<"key", n>> \in Keys /\ <<"missing", n>> \in Keys
         /\ workload = "del-hit" => \A i \in DOMAIN Operations : Operations[i].key \in Keys
<1>1. \A n \in KeyNumbers : <<"key", n>> \in AllKeys /\ <<"missing", n>> \in AllKeys
  BY DEF AllKeys
<1>2. ASSUME workload = "del-hit", NEW i \in DOMAIN Operations
      PROVE  Operations[i].key \in AllKeys
  <2>1. Operations[i].key = <<"delete", phase, i>>
    BY <1>2, OperationKinds
  <2>2. i \in 1 .. (IF phase = "warmup" THEN Warmup ELSE Requests) /\ phase \in {"warmup", "measured"}
    BY <1>2 DEF PlanMade, Operations, Generated
  <2> QED
    BY <2>1, <2>2 DEF AllKeys
<1> QED
  BY <1>1, <1>2, OptionsAssumption

\* What an operation does to the store, whether its answer arrives or not.
LEMMA OperationEffect ==
  ASSUME PlanMade, store \in [Keys -> {Value, Missing, Leftover}], NEW i \in DOMAIN Operations,
         NEW s, s = Effect(CallOf(Operations[i]), store)
  PROVE  /\ s \in [Keys -> {Value, Missing, Leftover}]
         /\ workload = "get-miss" => s = store
         /\ workload \in {"get-hit", "mixed"} => \A k \in Keys : store[k] = Value => s[k] = Value
         /\ workload = "del-hit" =>
              \A j \in DOMAIN Operations : j # i => s[Operations[j].key] = store[Operations[j].key]
<1> DEFINE o == Operations[i]
           call == CallOf(o)
<1>1. /\ call.key = o.key /\ call.value = Value
      /\ o.kind \in {"get_hit", "get_miss"} => call.kind = "get"
      /\ o.kind \notin {"get_hit", "get_miss"} => call.kind = o.kind
  BY DEF CallOf, Call
<1>2. /\ workload = "ping" => o.kind = "ping"
      /\ workload = "set" => o.kind = "set"
      /\ workload = "get-hit" => o.kind = "get_hit"
      /\ workload = "get-miss" => o.kind = "get_miss"
      /\ workload = "mixed" => o.kind \in {"get_hit", "set"}
      /\ workload = "del-hit" => o.kind = "remove"
      /\ workload \in {"ping", "set", "get-hit", "get-miss", "mixed", "del-hit"}
  BY OperationKinds
<1>3. s = CASE call.kind = "set"    -> [store EXCEPT ![call.key] = call.value]
            [] call.kind = "remove" -> [store EXCEPT ![call.key] = Missing]
            [] call.kind = "flush"  -> [k \in Keys |-> Missing]
            [] OTHER                -> store
  BY DEF Effect
<1>4. workload = "del-hit" =>
        \A j \in DOMAIN Operations : j # i => Operations[j].key # o.key
  <2> SUFFICES ASSUME workload = "del-hit", NEW j \in DOMAIN Operations, j # i
               PROVE  Operations[j].key # o.key
    OBVIOUS
  <2>1. o.key = <<"delete", phase, i>> /\ Operations[j].key = <<"delete", phase, j>>
    BY OperationKinds
  <2> QED
    BY <2>1
<1> HIDE DEF o, call
<1>5. s \in [Keys -> {Value, Missing, Leftover}]
  BY <1>1, <1>2, <1>3
<1>6. workload = "get-miss" => s = store
  BY <1>1, <1>2, <1>3
<1>7. workload \in {"get-hit", "mixed"} => \A k \in Keys : store[k] = Value => s[k] = Value
  BY <1>1, <1>2, <1>3
<1>8. workload = "del-hit" =>
        \A j \in DOMAIN Operations : j # i => s[Operations[j].key] = store[Operations[j].key]
  BY <1>1, <1>2, <1>3, <1>4, KeysKnown
<1> QED
  BY <1>5, <1>6, <1>7, <1>8

\* Each backend makes of the answer of its server what execute expects, if the
\* store holds it: a value of x's is not the word NULL.
LEMMA OperationAccepted ==
  ASSUME NEW o, o.kind \in {"ping", "set", "get_hit", "get_miss", "remove"},
         o.kind \in {"get_hit", "remove"} => Holds(o.key),
         o.kind = "get_miss" => store[o.key] = Missing
  PROVE  Accepts(o, Result(backend, CallOf(o), store))
<1> DEFINE call == CallOf(o)
<1>1. /\ call.key = o.key
      /\ o.kind \in {"get_hit", "get_miss"} => call.kind = "get"
      /\ o.kind \notin {"get_hit", "get_miss"} => call.kind = o.kind
  BY DEF CallOf, Call
<1> HIDE DEF call
<1>2. CASE backend = "attokv"
  BY <1>1, <1>2, OptionsAssumption
     DEF Accepts, Result, AttoResult, AttoAnswer, ExpectOk, Done, Gives, Failure, Holds, call
<1>3. CASE backend # "attokv"
  BY <1>1, <1>3, OptionsAssumption
     DEF Accepts, Result, RedisResult, RedisAnswer, IsString, Done, Gives, Failure, Holds, call
<1> QED
  BY <1>2, <1>3

\* The keys that prepare sets are those of the workload.
LEMMA SetupComplete ==
  ASSUME PlanMade
  PROVE  /\ Len(SetupKeys) \in Nat
         /\ workload = "get-miss" => Len(SetupKeys) = 0
         /\ workload \in {"get-hit", "mixed"} =>
              \A n \in KeyNumbers : n + 1 \in 1 .. Len(SetupKeys) /\ SetupKeys[n + 1] = <<"key", n>>
         /\ workload = "del-hit" =>
              \A i \in DOMAIN Operations : i \in 1 .. Len(SetupKeys) /\ SetupKeys[i] = Operations[i].key
         /\ \A k \in 1 .. Len(SetupKeys) : SetupKeys[k] \in Keys
<1>1. CASE workload \in {"get-hit", "mixed"}
  <2>1. SetupKeys = [n \in 1 .. Keyspace |-> <<"key", n - 1>>]
    BY <1>1 DEF SetupKeys
  <2>2. Len(SetupKeys) = Keyspace /\ \A n \in 1 .. Keyspace : SetupKeys[n] = <<"key", n - 1>>
    BY <2>1, CountsAssumption
  <2>3. \A n \in 1 .. Keyspace : n - 1 \in KeyNumbers
    BY CountsAssumption DEF KeyNumbers
  <2>4. \A n \in KeyNumbers : n + 1 \in 1 .. Keyspace /\ (n + 1) - 1 = n
    BY CountsAssumption DEF KeyNumbers
  <2> QED
    BY <1>1, <2>2, <2>3, <2>4, KeysKnown, CountsAssumption
<1>2. CASE workload = "del-hit"
  <2>1. SetupKeys = [i \in DOMAIN Operations |-> Operations[i].key]
    BY <1>2 DEF SetupKeys
  <2>2. DOMAIN Operations = 1 .. Len(Operations) /\ Len(Operations) \in Nat
    BY OperationsListed
  <2>3. Len(SetupKeys) = Len(Operations) /\ \A i \in DOMAIN Operations : SetupKeys[i] = Operations[i].key
    BY <2>1, <2>2
  <2> QED
    BY <1>2, <2>2, <2>3, KeysKnown
<1>3. CASE workload \notin {"get-hit", "mixed", "del-hit"}
  <2>1. SetupKeys = <<>>
    BY <1>3 DEF SetupKeys
  <2> QED
    BY <1>3, <2>1
<1> QED
  BY <1>1, <1>2, <1>3

LEMMA PrepareStocked ==
  ASSUME ReasonInv, Prepare
  PROVE  Stocked' /\ FailsForAReason'
<1>1. /\ pc[0] = "prepare" /\ item \in Nat /\ item <= Len(SetupKeys) /\ item' = item + 1
      /\ errors = {} /\ errors' = {} /\ pc'[0] \in {"prepare", "failed"}
      /\ store \in [Keys -> {Value, Missing, Leftover}]
      /\ store' = Effect(SetupCall(item), store)
      /\ SetupKeys' = SetupKeys /\ workload' = workload
  BY GoToMoves, MainIsNoWorker
     DEF Prepare, ReasonInv, ReportInv, Inv, Stocked, loopVars, options, SetupKeys, Operations
<1>2. CASE item = 0
  <2>1. store' = [k \in Keys |-> Missing]
    BY <1>1, <1>2 DEF SetupCall, Effect, Call
  <2>2. HasNoMissing'
    BY <2>1, KeysKnown DEF HasNoMissing, ReasonInv, ReportInv
  <2> QED
    BY <1>1, <1>2, <2>1, <2>2 DEF Stocked, Working, FailsForAReason
<1>3. CASE item # 0
  <2>1. store' = [store EXCEPT ![SetupKeys[item]] = Value]
    BY <1>1, <1>3 DEF SetupCall, Effect, Call
  <2>2. item \in 1 .. Len(SetupKeys) /\ SetupKeys[item] \in Keys /\ workload # "get-miss"
    BY <1>1, <1>3, SetupComplete DEF ReasonInv, ReportInv
  <2>3. \A k \in 1 .. item - 1 : Holds(SetupKeys[k])
    BY <1>1, <1>3 DEF ReasonInv, Stocked
  <2>4. ASSUME NEW k \in 1 .. item
        PROVE  store'[SetupKeys[k]] = Value
    <3>1. SetupKeys[k] \in Keys
      BY <1>1, <2>2, SetupComplete DEF ReasonInv, ReportInv
    <3>2. k = item \/ k \in 1 .. item - 1
      BY <1>1
    <3> QED
      BY <1>1, <2>1, <2>2, <2>3, <3>1, <3>2 DEF Holds
  <2>5. HasNoMissing'
    BY <1>1, <2>2 DEF HasNoMissing
  <2>6. \A k \in 1 .. item' - 1 : Holds(SetupKeys[k])'
    BY <1>1, <2>4 DEF Holds
  <2>7. store' \in [Keys -> {Value, Missing, Leftover}]
    BY <1>1, <2>1
  <2> QED
    BY <1>1, <2>5, <2>6, <2>7 DEF Stocked, Working, FailsForAReason
<1> QED
  BY <1>2, <1>3

LEMMA StartPhaseStocked ==
  ASSUME ReasonInv, StartPhase
  PROVE  Stocked' /\ FailsForAReason'
<1>1. /\ pc[0] = "prepare" /\ item = Len(SetupKeys) + 1 /\ item' = 0 /\ pc'[0] = "spawn"
      /\ errors' = {} /\ UNCHANGED <<store, workload, Operations>>
  BY MainIsNoWorker DEF StartPhase, options, Operations
<1>2. /\ store \in [Keys -> {Value, Missing, Leftover}] /\ HasNoMissing
      /\ \A k \in 1 .. Len(SetupKeys) : Holds(SetupKeys[k])
  BY <1>1, SetupComplete DEF ReasonInv, ReportInv, Stocked
<1>3. HasHits
  BY <1>2, SetupComplete DEF HasHits, ReasonInv, ReportInv
<1>4. workload = "del-hit" => \A i \in 1 .. Len(Operations) : Holds(Operations[i].key)
  BY <1>2, SetupComplete, OperationsListed DEF ReasonInv, ReportInv
<1>5. HasDeletes'
  BY <1>1, <1>4 DEF HasDeletes, Made, Holds
<1>6. HasNoMissing' /\ HasHits'
  BY <1>1, <1>2, <1>3 DEF HasNoMissing, HasHits, Holds
<1> QED
  BY <1>1, <1>2, <1>5, <1>6 DEF Stocked, FailsForAReason

\* A step of run_phase that calls nothing.
LEMMA QuietStocked ==
  ASSUME ReasonInv, Working, Working', UNCHANGED <<store, workload, Operations, errors, broken>>,
         HasDeletes'
  PROVE  Stocked' /\ FailsForAReason'
BY DEF ReasonInv, Stocked, FailsForAReason, Working, HasNoMissing, HasHits, Holds

LEMMA SpawnStocked ==
  ASSUME ReasonInv, Spawn
  PROVE  Stocked' /\ FailsForAReason'
<1>1. /\ pc[0] = "spawn" /\ pc'[0] = "spawn" /\ item \in Nat /\ item + 1 \in Threads /\ item + 1 # 0
      /\ UNCHANGED <<store, workload, Operations, errors, broken>>
  <2>1. pc[0] = "spawn" /\ item \in Nat /\ item + 1 \in Threads /\ item + 1 # 0
    BY CountsAssumption DEF Spawn, ReasonInv, ReportInv, Inv, ThreadsMatchMain, Threads
  <2>2. pc'[0] = "spawn"
    BY <2>1, GoToMoves, MainIsNoWorker DEF Spawn, ReasonInv, ReportInv, Inv
  <2> QED
    BY <2>1, <2>2 DEF Spawn, options, Operations
<1>2. HasDeletes'
  <2>1. workload = "del-hit" => \A i \in 1 .. Len(Operations) : Holds(Operations[i].key)
    BY <1>1 DEF ReasonInv, Stocked, Working, HasDeletes
  <2> QED
    BY <1>1, <2>1 DEF HasDeletes, Holds
<1> QED
  BY <1>1, <1>2, QuietStocked DEF Working

LEMMA BarrierStocked ==
  ASSUME ReasonInv, NEW t \in Threads, NEW b \in DOMAIN arrived, Arrive(t, b) \/ Pass(t, b)
  PROVE  Stocked' /\ FailsForAReason'
<1>1. /\ b \in Barriers /\ pc[t] = b /\ ~Returned
      /\ UNCHANGED <<workload, store, phase, item, first, last, index, ran, errors, broken, Operations>>
  BY DEF Arrive, Pass, loopVars, options, Operations, ReasonInv, ReportInv, Inv, TypeOK, Barriers
<1>2. Working
  BY <1>1, WorkerMeansWorking, MainIsNoWorker DEF ReasonInv, ReportInv, Working, Barriers
<1>3. /\ (pc'[0] = "spawn") = (pc[0] = "spawn") /\ Working'
      /\ \A w \in Workers : pc'[w] \in {"ready", "start", "loop"} => pc[w] \in {"ready", "start", "loop"}
  <2>1. CASE Arrive(t, b)
    BY <1>2, <2>1 DEF Arrive, Working
  <2>2. CASE Pass(t, b)
    <3>1. pc'[t] = Behind(t, b) /\ \A u \in Threads : u # t => pc'[u] = pc[u]
      BY <2>2, GoToMoves DEF ReasonInv, ReportInv, Inv, Pass
    <3>2. /\ t = 0 => Behind(t, b) \in {"start", "done", "join"}
          /\ t # 0 /\ b = "done" => Behind(t, b) = "gone"
      BY <1>1 DEF Behind, Barriers
    <3> QED
      BY <1>1, <1>2, <3>1, <3>2, MainIsNoWorker DEF Barriers, Working
  <2> QED
    BY <2>1, <2>2
<1>4. Made' = Made /\ 1 .. Made \subseteq Workers
  BY <1>1, <1>2, <1>3, CountsAssumption DEF Made, ReasonInv, ReportInv, Sliced, Workers
<1>5. HasDeletes'
  <2>1. HasDeletes
    BY <1>2 DEF ReasonInv, Stocked
  <2> QED
    BY <1>1, <1>3, <1>4, <2>1 DEF HasDeletes, Holds
<1> QED
  BY <1>1, <1>2, <1>3, <1>5, QuietStocked

LEMMA SpawnedStocked ==
  ASSUME ReasonInv, Spawned
  PROVE  Stocked' /\ FailsForAReason'
<1>1. /\ pc[0] = "spawn" /\ item = Clients /\ pc'[0] = "ready" /\ \A w \in Workers : pc'[w] = pc[w]
      /\ UNCHANGED <<workload, store, phase, item, first, last, index, errors, broken, Operations>>
  BY GoToMoves, MainIsNoWorker DEF Spawned, loopVars, options, Operations, ReasonInv, ReportInv, Inv
<1>2. Made' = Made /\ Made = Clients /\ Working /\ Working' /\ 1 .. Clients = Workers
  BY <1>1 DEF Made, Working, Workers
<1>3. HasDeletes'
  <2>1. HasDeletes
    BY <1>2 DEF ReasonInv, Stocked
  <2> QED
    BY <1>1, <1>2, <2>1 DEF HasDeletes, Holds
<1> QED
  BY <1>1, <1>2, <1>3, QuietStocked

\* Every call of a worker finds in the store what it expects.
LEMMA CallAccepted ==
  ASSUME ReasonInv, NEW w \in Workers, InLoop(w)
  PROVE  /\ index[w] + 1 \in DOMAIN Operations
         /\ LET o == Operations[index[w] + 1] IN Accepts(o, Result(backend, CallOf(o), store))
<1> DEFINE i == index[w] + 1
           o == Operations[i]
<1>1. Working /\ pc[w] = "loop" /\ pc[0] # "spawn" /\ index[w] < last[w]
  BY WorkerMeansWorking, SpawnedWait DEF InLoop, ReasonInv, ReportInv
<1>2. Made = Clients /\ w \in 1 .. Made /\ index[w] \in Nat /\ last[w] <= Len(Operations)
  BY <1>1, SliceInside DEF Made, Workers, ReasonInv, ReportInv, Sliced
<1>3. i \in DOMAIN Operations /\ index[w] < i /\ i <= last[w]
  <2>1. DOMAIN Operations = 1 .. Len(Operations) /\ Len(Operations) \in Nat
    BY OperationsListed DEF ReasonInv, ReportInv
  <2>2. last[w] \in Nat
    BY <1>1 DEF ReasonInv, ReportInv, Sliced
  <2> QED
    BY <1>1, <1>2, <2>1, <2>2
<1>4. PlanMade /\ HasNoMissing /\ HasHits /\ HasDeletes
  BY <1>1 DEF ReasonInv, ReportInv, Stocked
<1>5. /\ workload = "ping" => o.kind = "ping"
      /\ workload = "set" => o.kind = "set"
      /\ workload = "get-hit" => o.kind = "get_hit"
      /\ workload = "get-miss" => o.kind = "get_miss"
      /\ workload = "mixed" => o.kind \in {"get_hit", "set"}
      /\ workload = "del-hit" => o.kind = "remove"
      /\ workload \in {"get-hit", "mixed"} => \E n \in KeyNumbers : o.key = <<"key", n>>
      /\ workload = "get-miss" => \E n \in KeyNumbers : o.key = <<"missing", n>>
      /\ workload \in {"ping", "set", "get-hit", "get-miss", "mixed", "del-hit"}
  BY <1>3, <1>4, OperationKinds
<1>6. workload = "del-hit" => Holds(o.key)
  BY <1>1, <1>2, <1>3, <1>4, OperationsListed DEF HasDeletes
<1> HIDE DEF i, o
<1>7. /\ o.kind \in {"get_hit", "remove"} => Holds(o.key)
      /\ o.kind = "get_miss" => store[o.key] = Missing
  BY <1>4, <1>5, <1>6 DEF HasNoMissing, HasHits
<1>8. o.kind \in {"ping", "set", "get_hit", "get_miss", "remove"}
  BY <1>5
<1>9. Accepts(o, Result(backend, CallOf(o), store))
  BY <1>7, <1>8, OperationAccepted
<1> QED
  BY <1>3, <1>9 DEF i, o

LEMMA LoopStocked ==
  ASSUME ReasonInv, NEW w \in Workers, Loop(w)
  PROVE  Stocked' /\ FailsForAReason'
<1>1. /\ Working /\ pc[w] = "loop" /\ w \in Threads
      /\ UNCHANGED <<options, workload, phase, item, first, last, Operations>>
  BY WorkerMeansWorking, MainIsNoWorker
     DEF ReasonInv, ReportInv, Loop, Execute, LoseConnection, LeaveLoop, InLoop, loopVars, options, Operations
<1>2. pc[0] # "spawn" /\ pc'[0] = pc[0] /\ \A v \in Workers : v # w => pc'[v] = pc[v]
  <2>1. pc' = pc \/ GoTo(w, "done")
    BY DEF Loop, Execute, LoseConnection, LeaveLoop
  <2>2. pc[0] # "spawn"
    BY <1>1, SpawnedWait DEF ReasonInv, ReportInv
  <2> QED
    BY <2>1, <2>2, <1>1, GoToMoves, MainIsNoWorker DEF ReasonInv, ReportInv, Inv
<1>3. Made = Clients /\ Made' = Clients /\ Working' /\ 1 .. Clients = Workers
  BY <1>1, <1>2 DEF Made, Working, Workers
<1>4. errors' \subseteq broken'
  <2>1. CASE Execute(w)
    BY <2>1, CallAccepted DEF Execute, ReasonInv, FailsForAReason
  <2>2. CASE LoseConnection(w) \/ LeaveLoop(w)
    BY <2>2 DEF LoseConnection, LeaveLoop, loopVars, ReasonInv, FailsForAReason
  <2> QED
    BY <2>1, <2>2 DEF Loop
<1>5. CASE UNCHANGED store /\ UNCHANGED index
  <2>1. \A v \in Workers : pc'[v] \in {"ready", "start", "loop"} => pc[v] \in {"ready", "start", "loop"}
    BY <1>1, <1>2
  <2>2. HasDeletes
    BY <1>1 DEF ReasonInv, Stocked
  <2>3. HasDeletes'
    BY <1>1, <1>2, <1>3, <1>5, <2>1, <2>2 DEF HasDeletes, Holds
  <2> QED
    BY <1>1, <1>2, <1>3, <1>4, <1>5, <2>3
       DEF ReasonInv, Stocked, FailsForAReason, Working, HasNoMissing, HasHits, Holds
<1>6. CASE /\ InLoop(w) /\ store' = Effect(CallOf(Operations[index[w] + 1]), store)
           /\ \/ UNCHANGED index /\ pc'[w] = "done"
              \/ index' = [index EXCEPT ![w] = @ + 1] /\ UNCHANGED pc
  <2> DEFINE o == index[w] + 1
  <2>1. /\ o \in DOMAIN Operations /\ PlanMade /\ store \in [Keys -> {Value, Missing, Leftover}]
        /\ HasNoMissing /\ HasHits /\ HasDeletes
    BY <1>1, <1>6, CallAccepted DEF ReasonInv, ReportInv, Stocked
  <2>2. /\ store' \in [Keys -> {Value, Missing, Leftover}]
        /\ workload = "get-miss" => store' = store
        /\ workload \in {"get-hit", "mixed"} => \A k \in Keys : store[k] = Value => store'[k] = Value
        /\ workload = "del-hit" =>
             \A j \in DOMAIN Operations : j # o => store'[Operations[j].key] = store[Operations[j].key]
    BY <1>6, <2>1, OperationEffect
  <2>3. HasNoMissing' /\ HasHits'
    BY <1>1, <2>1, <2>2, KeysKnown DEF HasNoMissing, HasHits, Holds
  <2>4. ASSUME workload = "del-hit", NEW v \in Workers, pc'[v] \in {"ready", "start", "loop"},
               NEW i \in 1 .. Len(Operations), index'[v] < i, i <= last[v]
        PROVE  store'[Operations[i].key] = Value
    <3>1. DOMAIN Operations = 1 .. Len(Operations) /\ Len(Operations) \in Nat /\ i \in Nat /\ o \in Nat
      BY <2>1, OperationsListed
    <3>2. /\ index \in [Workers -> Nat] /\ first \in [Workers -> Nat] /\ last \in [Workers -> Nat]
          /\ \A u \in Workers : index[u] \in first[u] .. last[u]
      BY <1>1, <1>3 DEF ReasonInv, ReportInv, Sliced, Executed
    <3>3. CASE v = w
      <4>1. index' = [index EXCEPT ![w] = @ + 1] /\ index'[w] = o /\ index[w] < i /\ i # o
        BY <1>6, <2>4, <3>1, <3>2, <3>3
      <4>2. Holds(Operations[i].key)
        BY <1>1, <1>3, <2>1, <2>4, <3>3, <4>1 DEF HasDeletes
      <4> QED
        BY <2>2, <2>4, <3>1, <4>1, <4>2 DEF Holds
    <3>4. CASE v # w
      <4>1. index'[v] = index[v] /\ pc'[v] = pc[v]
        BY <1>2, <1>6, <3>2, <3>4
      <4>2. Holds(Operations[i].key)
        BY <1>1, <1>3, <2>1, <2>4, <4>1 DEF HasDeletes
      <4>3. first[v] < i /\ i <= last[v] /\ first[w] < o /\ o <= last[w]
        BY <1>6, <2>4, <3>1, <3>2, <4>1 DEF InLoop
      <4>4. i # o
        <5>1. Sliced /\ v \in 1 .. Made /\ w \in 1 .. Made
          <6>1. v \in 1 .. Made /\ w \in 1 .. Made
            BY <1>3
          <6> QED
            BY <6>1 DEF ReasonInv, ReportInv
        <5> QED
          BY <1>1, <3>1, <3>4, <4>3, <5>1, SlicesDisjoint
      <4> QED
        BY <2>2, <2>4, <3>1, <4>2, <4>4 DEF Holds
    <3> QED
      BY <3>3, <3>4
  <2>5. HasDeletes'
    BY <1>1, <1>2, <1>3, <2>4 DEF HasDeletes, Holds
  <2> QED
    BY <1>1, <1>2, <1>3, <1>4, <2>2, <2>3, <2>5 DEF Stocked, FailsForAReason, Working
<1>7. \/ UNCHANGED store /\ UNCHANGED index
      \/ /\ InLoop(w) /\ store' = Effect(CallOf(Operations[index[w] + 1]), store)
         /\ \/ UNCHANGED index /\ pc'[w] = "done"
            \/ index' = [index EXCEPT ![w] = @ + 1] /\ UNCHANGED pc
  <2>1. CASE Execute(w)
    BY <2>1, CallAccepted DEF Execute
  <2>2. CASE LoseConnection(w)
    BY <1>1, <2>2, GoToMoves DEF LoseConnection, ReasonInv, ReportInv, Inv
  <2>3. CASE LeaveLoop(w)
    BY <2>3 DEF LeaveLoop, loopVars
  <2> QED
    BY <2>1, <2>2, <2>3 DEF Loop
<1> QED
  BY <1>5, <1>6, <1>7

LEMMA NextReason ==
  ASSUME ReasonInv, [Next]_vars
  PROVE  ReasonInv'
<1>1. ReportInv'
  BY NextReport DEF ReasonInv
<1>2. CASE Connect \/ ControlFails \/ SpawnFails
  <2>1. /\ pc'[0] \in {"prepare", "failed", "terminated"} /\ UNCHANGED <<store, item, errors, broken>>
        /\ pc'[0] = "prepare" => pc[0] = "connect"
    BY <1>2, GoToMoves, MainIsNoWorker DEF Connect, ControlFails, SpawnFails, loopVars, ReasonInv, ReportInv, Inv
  <2> QED
    BY <1>1, <2>1 DEF ReasonInv, Stocked, FailsForAReason, Working
<1>3. CASE Collect
  <2>1. /\ pc[0] = "join" /\ pc'[0] \in {"prepare", "finished", "failed"} /\ item' = 0
        /\ pc'[0] = "prepare" => errors = {}
        /\ UNCHANGED <<store, errors, broken>>
    BY <1>3, GoToMoves, MainIsNoWorker DEF Collect, Verdict, loopVars, ReasonInv, ReportInv, Inv
  <2> QED
    BY <1>1, <2>1 DEF ReasonInv, Stocked, FailsForAReason, Working
<1>4. CASE UNCHANGED vars
  <2>1. /\ UNCHANGED <<Working, Made, Operations, SetupKeys>>
        /\ UNCHANGED <<workload, store, pc, item, first, last, index, errors, broken>>
    BY <1>4 DEF vars, options, loopVars, Working, Made, Operations, SetupKeys
  <2>2. UNCHANGED <<HasNoMissing, HasHits, HasDeletes>>
    BY <2>1 DEF HasNoMissing, HasHits, HasDeletes, Holds
  <2> QED
    BY <1>1, <2>1, <2>2 DEF ReasonInv, Stocked, FailsForAReason, Holds
<1> QED
  BY <1>1, <1>2, <1>3, <1>4, PrepareStocked, StartPhaseStocked, SpawnStocked, SpawnedStocked,
     BarrierStocked, LoopStocked DEF Next, Main, Barrier, ReasonInv

\* No phase fails unless a connection does, for every number of clients, workload
\* and backend.
THEOREM NeverFailsAlone == Spec => []FailsForAReason
<1>1. Init => ReasonInv
  <2> SUFFICES ASSUME Init
               PROVE  ReasonInv
    OBVIOUS
  <2>1. pc[0] = "connect" /\ ReportInv
    BY MainIsNoWorker, InitReport DEF Init
  <2>2. store \in [Keys -> {Value, Missing, Leftover}]
    BY DEF Init
  <2> QED
    BY <2>1, <2>2 DEF Init, ReasonInv, Stocked, FailsForAReason, Working
<1>2. ReasonInv /\ [Next]_vars => ReasonInv'
  BY NextReason
<1>3. ReasonInv => FailsForAReason
  BY DEF ReasonInv
<1> QED
  BY <1>1, <1>2, <1>3, PTL DEF Spec
=============================================================================

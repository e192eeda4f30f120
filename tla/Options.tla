------------------------------- MODULE Options -------------------------------
(***************************************************************************)
(* The command lines of the three programs (parse_options in               *)
(* server/src/main.cpp, client/src/main.cpp and benchmark/src/main.cpp).   *)
(* Each reads its arguments in one loop, in which some options take the    *)
(* next argument with them, and starts, prints its usage, or refuses.      *)
(***************************************************************************)
EXTENDS Integers, Sequences, FiniteSetsExt

CONSTANTS
  CommandLines,  (* for each program, the lists of arguments it may be given *)
  Number,        (* the numbers that from_chars makes of whole arguments    *)
  Unset          (* what an option without a default holds at first         *)

ASSUME CommandLinesAssumption ==
  /\ DOMAIN CommandLines \subseteq {"server", "client", "benchmark"}
  /\ \A p \in DOMAIN CommandLines : \A a \in CommandLines[p] : a \in Seq(STRING)

ASSUME NumberAssumption == \A s \in DOMAIN Number : Number[s] \in Int

\* An option that is not set is none that is.
ASSUME UnsetAssumption == Unset \notin STRING /\ Unset \notin Int

VARIABLES
  program,   (* "server", "client" or "benchmark"                           *)
  argv,      (* the arguments                                               *)
  index,     (* of the loop                                                 *)
  options,   (* the members of Options, by the name of their option         *)
  outcome    (* "reading", "run", "help" or "refused"                       *)

parseVars == <<program, argv, index, options, outcome>>

ServerDefaults == [o \in {"--host", "--port", "--repl"} |->
  CASE o = "--host" -> "127.0.0.1" [] o = "--port" -> 6337 [] OTHER -> FALSE]

ClientDefaults == [o \in {"--host", "--port"} |-> IF o = "--host" THEN "127.0.0.1" ELSE 6337]

BenchmarkDefaults ==
  [o \in {"--backend", "--workload", "--host", "--port", "--clients", "--requests",
          "--warmup", "--keyspace", "--value-size", "--get-ratio", "--seed"} |->
     CASE o \in {"--backend", "--workload", "--port"} -> Unset
       [] o = "--host"                                -> "127.0.0.1"
       [] o \in {"--clients", "--seed"}               -> 1
       [] o = "--requests"                            -> 100000
       [] o \in {"--warmup", "--keyspace"}            -> 10000
       [] o = "--value-size"                          -> 256
       [] o = "--get-ratio"                           -> 80]

Defaults(p) ==
  CASE p = "server"    -> ServerDefaults
    [] p = "client"    -> ClientDefaults
    [] p = "benchmark" -> BenchmarkDefaults

ParseInit ==
  /\ program \in DOMAIN CommandLines
  /\ argv \in CommandLines[program]
  /\ index = 1
  /\ options = Defaults(program)
  /\ outcome = "reading"

Reading(p) == program = p /\ outcome = "reading" /\ index <= Len(argv)

HasNext == index < Len(argv)

Finish(end) == outcome' = end /\ UNCHANGED <<program, argv, index, options>>

\* Mutant: the loop goes on with the value.
TakeNextTwice(value) ==
  /\ options' = [options EXCEPT ![argv[index]] = value]
  /\ index' = index + 1
  /\ UNCHANGED <<program, argv, outcome>>

\* The option takes the next argument, which is not looked at as an option.
TakeNext(value) ==
  /\ options' = [options EXCEPT ![argv[index]] = value]
  /\ index' = index + 2
  /\ UNCHANGED <<program, argv, outcome>>

-----------------------------------------------------------------------------
(* The server and the client.  A port that is refused has been written to  *)
(* the options all the same, but then the program ends.                    *)

Ports == 1 .. 65535

IsPort(s) == s \in DOMAIN Number /\ Number[s] \in Ports

PortIsNext == argv[index] = "--port" /\ HasNext /\ IsPort(argv[index + 1])

HostIsNext == argv[index] = "--host" /\ HasNext

ParseServer ==
  /\ Reading("server")
  /\ \/ argv[index] = "--help" /\ Finish("help")
     \/ /\ argv[index] = "--repl"
        /\ options' = [options EXCEPT !["--repl"] = TRUE]
        /\ index' = index + 1
        /\ UNCHANGED <<program, argv, outcome>>
     \/ HostIsNext /\ TakeNext(argv[index + 1])
     \/ PortIsNext /\ TakeNext(Number[argv[index + 1]])
     \/ argv[index] \notin {"--help", "--repl"} /\ ~HostIsNext /\ ~PortIsNext /\ Finish("refused")

ParseClient ==
  /\ Reading("client")
  /\ \/ argv[index] = "--help" /\ Finish("help")
     \/ HostIsNext /\ TakeNext(argv[index + 1])
     \/ PortIsNext /\ TakeNext(Number[argv[index + 1]])
     \/ argv[index] # "--help" /\ ~HostIsNext /\ ~PortIsNext /\ Finish("refused")

-----------------------------------------------------------------------------
(* The benchmark.                                                          *)

WorkloadNames == {"ping", "set", "get-hit", "get-miss", "del-hit", "mixed"}

IsNumber(s, least) == s \in DOMAIN Number /\ Number[s] >= least

\* The test of each option on its value; one that is unknown has none.
IsValid(option, s) ==
  CASE option = "--backend"  -> s \in {"attokv", "redis"}
    [] option = "--workload" -> s \in WorkloadNames
    [] option = "--host"     -> TRUE
    [] option = "--port"     -> IsPort(s)
    [] option \in {"--clients", "--requests", "--keyspace", "--value-size"} -> IsNumber(s, 1)
    [] option \in {"--warmup", "--seed"} -> IsNumber(s, 0)
    [] option = "--get-ratio" -> IsNumber(s, 0) /\ Number[s] <= 100
    [] OTHER -> FALSE

ValueOf(option, s) == IF option \in {"--backend", "--workload", "--host"} THEN s ELSE Number[s]

ParseBenchmark ==
  /\ Reading("benchmark")
  /\ \/ argv[index] = "--help" /\ Finish("help")
     \/ /\ argv[index] # "--help"
        /\ IF HasNext /\ IsValid(argv[index], argv[index + 1])
             THEN TakeNext(ValueOf(argv[index], argv[index + 1]))
             ELSE Finish("refused")

-----------------------------------------------------------------------------
DefaultPort(backend) == IF backend = "attokv" THEN 6337 ELSE 6379

\* Behind the loop: the benchmark needs two options, and only now, when the
\* backend is known, takes the port of that.
EndOfArguments ==
  /\ outcome = "reading"
  /\ index > Len(argv)
  /\ LET missing == program = "benchmark" /\ Unset \in {options["--backend"], options["--workload"]}
     IN outcome' = IF missing THEN "refused" ELSE "run"
  /\ options' = IF program = "benchmark" /\ options["--port"] = Unset /\ outcome' = "run"
                  THEN [options EXCEPT !["--port"] = DefaultPort(options["--backend"])]
                  ELSE options
  /\ UNCHANGED <<program, argv, index>>

ParseNext == ParseServer \/ ParseClient \/ ParseBenchmark \/ EndOfArguments

ParseOptions == ParseInit /\ [][ParseNext]_parseVars

-----------------------------------------------------------------------------
(* Properties.                                                             *)

\* The one way to read a command line: the positions that hold options, given
\* those that stand alone.
Alone == {"--repl", "--help"}

Positions(args) ==
  LET Option[p \in 1 .. Len(args)] ==
        \/ p = 1
        \/ p > 1 /\ Option[p - 1] /\ args[p - 1] \in Alone
        \/ p > 2 /\ Option[p - 2] /\ args[p - 2] \notin Alone
  IN {p \in 1 .. Len(args) : Option[p]}

\* What an option gets that stands at position p.
ValueAt(args, o, p) ==
  CASE o = "--repl" -> TRUE
    [] o \in {"--host", "--backend", "--workload"} -> args[p + 1]
    [] OTHER -> Number[args[p + 1]]

\* The positions that one option is given at.
Given(o) == {p \in Positions(argv) : argv[p] = o}

\* What an option without a value has in the end.
DefaultOf(o) ==
  IF program # "benchmark" \/ o # "--port" THEN Defaults(program)[o]
  ELSE IF options["--backend"] = "redis" THEN 6379 ELSE 6337

\* No port that make_sockaddr refuses, and no count that would divide by zero.
CanStart ==
  /\ options["--port"] \in Ports
  /\ program = "benchmark" => 0 \notin {options["--clients"], options["--keyspace"]}

\* Each option has the value that it was given last, or the default.
AsTold ==
  \A o \in DOMAIN options :
    options[o] = IF Given(o) # {} THEN ValueAt(argv, o, Max(Given(o))) ELSE DefaultOf(o)

\* A program that starts does so with the last value given for each option,
\* whatever the values look like and in whatever order the options come; an
\* option that is not given has its default, which for the benchmark's port
\* is that of the backend, named before or after.  And it can run with them.
StartsAsTold == outcome = "run" => CanStart /\ AsTold
=============================================================================

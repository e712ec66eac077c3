------------------------------ MODULE Startup --------------------------------
(***************************************************************************)
(* RunImpl and RunForTestImpl up to the accept loop: the options, the      *)
(* listening socket, and the handler the target selects, for every         *)
(* environment and command line. AcceptLoop takes over at pc = "serving".  *)
(***************************************************************************)
EXTENDS Integers, FiniteSets

CONSTANTS Function,     \* the functions of the program
          Mapping,      \* those made of a map: for each, target -> function
          Target,       \* the values --target may have; the default is one of them
          DefaultTarget,
          Port,         \* the integers PORT and --port may be
          Client,       \* clients that try to connect
          None,         \* an option or a variable that is not there
          Word          \* a PORT or --port that is no number

ASSUME StartupAssumption ==
  /\ DefaultTarget \in Target
  /\ Port \subseteq Int
  /\ IsFiniteSet(Function) /\ DOMAIN Mapping \subseteq Function
  /\ \A f \in DOMAIN Mapping :
       DOMAIN Mapping[f] \subseteq Target /\ \A t \in DOMAIN Mapping[f] : Mapping[f][t] \in Function
  \* A map is made of functions that exist already.
  /\ \E rank \in [Function -> 1..Cardinality(Function)] :
       \A f \in DOMAIN Mapping : \A t \in DOMAIN Mapping[f] : rank[Mapping[f][t]] < rank[f]

kDefaultPort == 8080
MaxPort == 65535

VARIABLES
  env,      \* PORT: None, an integer, or a Word std::stoi does not take
  cmdline,  \* [port, target, help, address]; the default address is a number
  root,     \* the function given to Run
  taken,    \* the ports in use: here none, or all
  pc,       \* where the thread is
  port,     \* the default of --port, then its value, an int
  bound,    \* the port the acceptor was given, an uint16_t
  at,       \* the function whose GetHandler runs
  queue,    \* clients the kernel connected
  result    \* the exit code

inputVars == <<env, cmdline, root, taken>>
vars == <<inputVars, pc, port, bound, at, queue, result>>

InRange(p) == 0 <= p /\ p <= MaxPort
TargetOf == IF cmdline.target = None THEN DefaultTarget ELSE cmdline.target

Init ==
  /\ env \in Port \cup {None, Word}
  /\ cmdline \in [port : Port \cup {None, Word}, target : Target \cup {None},
                  help : BOOLEAN, address : {"number", "name"}]
  /\ root \in Function
  /\ taken \in {{}, {p \in Port : InRange(p)}}
  /\ pc = "env"
  /\ port = None /\ bound = None
  /\ at = None
  /\ queue = {}
  /\ result = "none"

-----------------------------------------------------------------------------
Goto(place) == pc' = place

\* Mutant: the acceptor outlives the exception.
ThrowOpen ==
  /\ Goto("exited")
  /\ result' = "one"
  /\ UNCHANGED <<inputVars, port, bound, at, queue>>

\* Any exception ends in a catch clause of RunImpl, and closes the acceptor.
Throw ==
  /\ Goto("exited")
  /\ result' = "one"
  /\ queue' = {}
  /\ UNCHANGED <<inputVars, port, bound, at>>

\* The default of --port is computed first, whether or not it will be used.
ReadEnv ==
  /\ pc = "env"
  /\ env # Word
  /\ port' = IF env = None THEN kDefaultPort ELSE env
  /\ Goto("cmdline")
  /\ UNCHANGED <<inputVars, bound, at, queue, result>>

ReadEnvThrows == pc = "env" /\ env = Word /\ Throw

ParseCommandLine ==
  /\ pc = "cmdline"
  /\ cmdline.port # Word
  /\ port' = IF cmdline.port = None THEN port ELSE cmdline.port
  /\ Goto("range")
  /\ UNCHANGED <<inputVars, bound, at, queue, result>>

ParseCommandLineThrows == pc = "cmdline" /\ cmdline.port = Word /\ Throw

\* The help text is out by now; whether it was asked for is looked at afterwards.
CheckRange ==
  /\ pc = "range"
  /\ InRange(port)
  /\ Goto("help")
  /\ UNCHANGED <<inputVars, port, bound, at, queue, result>>

CheckRangeThrows == pc = "range" /\ ~InRange(port) /\ Throw

Help ==
  /\ pc = "help"
  /\ cmdline.help
  /\ Goto("exited")
  /\ result' = "zero"
  /\ UNCHANGED <<inputVars, port, bound, at, queue>>

\* Mutant: the program goes on after --help.
MakeAddressAnyway ==
  /\ pc = "help"
  /\ cmdline.address # "name"
  /\ Goto("bind")
  /\ UNCHANGED <<inputVars, port, bound, at, queue, result>>

\* make_address takes numbers only.
MakeAddress ==
  /\ pc = "help"
  /\ ~cmdline.help
  /\ cmdline.address # "name"
  /\ Goto("bind")
  /\ UNCHANGED <<inputVars, port, bound, at, queue, result>>

MakeAddressThrows == pc = "help" /\ ~cmdline.help /\ cmdline.address = "name" /\ Throw

\* The acceptor's constructor binds, listen() follows; port 0 is any free port.
uint16(p) == p % (MaxPort + 1)

Listen ==
  /\ pc = "bind"
  /\ uint16(port) = 0 \/ uint16(port) \notin taken
  /\ bound' = uint16(port)
  /\ at' = root
  /\ Goto("handler")
  /\ UNCHANGED <<inputVars, port, queue, result>>

BindThrows == pc = "bind" /\ uint16(port) \in taken \ {0} /\ Throw

\* Mutant: the function found is asked for the default target.
FindTargetOnce ==
  /\ pc = "handler"
  /\ at \in DOMAIN Mapping
  /\ \E t \in IF at = root THEN {TargetOf} ELSE {DefaultTarget} :
       t \in DOMAIN Mapping[at] /\ at' = Mapping[at][t]
  /\ UNCHANGED <<inputVars, pc, port, bound, queue, result>>

\* MapFunctionImpl::GetHandler asks the function it finds, for the same target.
FindTarget ==
  /\ pc = "handler"
  /\ at \in DOMAIN Mapping
  /\ TargetOf \in DOMAIN Mapping[at]
  /\ at' = Mapping[at][TargetOf]
  /\ UNCHANGED <<inputVars, pc, port, bound, queue, result>>

TargetMissing ==
  /\ pc = "handler"
  /\ at \in DOMAIN Mapping
  /\ TargetOf \notin DOMAIN Mapping[at]
  /\ Throw

\* BaseFunctionImpl::GetHandler has its handler, for every target.
HasHandler ==
  /\ pc = "handler"
  /\ at \notin DOMAIN Mapping
  /\ Goto("serving")
  /\ UNCHANGED <<inputVars, port, bound, at, queue, result>>

\* The kernel connects clients from the moment the socket listens.
Connect(c) ==
  /\ pc \in {"handler", "serving"}
  /\ c \notin queue
  /\ queue' = queue \cup {c}
  /\ UNCHANGED <<inputVars, pc, port, bound, at, result>>

HandOver == pc \in {"serving", "exited"} /\ UNCHANGED vars

Proceed ==
  \/ ReadEnv \/ ReadEnvThrows \/ ParseCommandLine \/ ParseCommandLineThrows
  \/ CheckRange \/ CheckRangeThrows \/ Help \/ MakeAddress \/ MakeAddressThrows
  \/ Listen \/ BindThrows \/ FindTarget \/ TargetMissing \/ HasHandler

Next == Proceed \/ (\E c \in Client : Connect(c)) \/ HandOver

\* Startup is one thread that waits for nothing.
Spec == Init /\ [][Next]_vars /\ WF_vars(Proceed)

-----------------------------------------------------------------------------
(* Properties.                                                             *)

TypeOK ==
  /\ pc \in {"env", "cmdline", "range", "help", "bind", "handler", "serving", "exited"}
  /\ port \in Int \cup {None}
  /\ bound \in 0..MaxPort \cup {None}
  /\ at \in Function \cup {None}
  /\ queue \subseteq Client
  /\ result \in {"none", "zero", "one"}
  /\ result # "none" <=> pc = "exited"
  /\ queue # {} => pc \in {"handler", "serving"}

\* Reference definitions: the port asked for, and the function a target leads to from
\* each function, all at once instead of step by step.
AskedPort ==
  IF cmdline.port # None THEN cmdline.port ELSE IF env # None THEN env ELSE kDefaultPort

Leads(t) ==
  {lead \in [Function -> Function] : \A f \in Function :
     lead[f] = IF f \in DOMAIN Mapping /\ t \in DOMAIN Mapping[f] THEN lead[Mapping[f][t]] ELSE f}

Named(t) == (CHOOSE lead \in Leads(t) : TRUE)[root]

Usable ==
  /\ env # Word /\ cmdline.port # Word
  /\ InRange(AskedPort)
  /\ ~cmdline.help
  /\ cmdline.address # "name"
  /\ AskedPort \notin taken \ {0}
  /\ Named(TargetOf) \notin DOMAIN Mapping

\* A server that runs was given everything it needs, listens on the port it was asked
\* to (the command line before PORT before 8080, no bit of it lost in the uint16_t)
\* and has the handler of the function its target names.
ServesAsAsked ==
  pc = "serving" => Usable /\ bound = AskedPort /\ at = Named(TargetOf)

\* A program that could run does, and 0 is the exit code of --help alone.
StartsOrFails ==
  /\ Usable => <>(pc = "serving")
  /\ ~Usable => <>(pc = "exited")
  /\ [](result = "zero" => cmdline.help)

\* "Ignored. This is required by the Functions Framework contract." says the text of
\* --target (parse_options.cc:47): a server with a target has the handler it would
\* have without.
TargetIgnored == pc = "serving" => at = Named(DefaultTarget)
==============================================================================

---------------------------- MODULE StartupProofs ----------------------------
(***************************************************************************)
(* Proofs about Startup, for every program, environment and command line:  *)
(* a server that runs has what it was asked for.                           *)
(***************************************************************************)
EXTENDS Startup, FiniteSetTheorems, WellFoundedInduction, TLAPS

Input ==
  /\ env \in Port \cup {None, Word}
  /\ cmdline \in [port : Port \cup {None, Word}, target : Target \cup {None},
                  help : BOOLEAN, address : {"number", "name"}]
  /\ root \in Function

\* What was found out on the way to each place. The function asked now leads to the same
\* one as the first did.
EnvRead == pc \notin {"env", "exited"} => env # Word
PortRead ==
  /\ pc = "cmdline" => port = IF env = None THEN kDefaultPort ELSE env
  /\ pc \in {"range", "help", "bind", "handler", "serving"} => cmdline.port # Word /\ port = AskedPort
PortChecked == pc \in {"help", "bind", "handler", "serving"} => InRange(port)
Asked == pc \in {"bind", "handler", "serving"} => ~cmdline.help /\ cmdline.address # "name"
Listening == pc \in {"handler", "serving"} => bound = port /\ port \notin taken \ {0}
OnTheWay ==
  pc \in {"handler", "serving"} =>
    at \in Function /\ \A lead \in Leads(TargetOf) : lead[at] = lead[root]
Found == pc = "serving" => at \notin DOMAIN Mapping

IInv ==
  TypeOK /\ Input /\ EnvRead /\ PortRead /\ PortChecked /\ Asked /\ Listening /\ OnTheWay /\ Found

-----------------------------------------------------------------------------
(* Every target leads somewhere.                                           *)

\* A set of numbers up to N has a least one.
LEMMA Least ==
  ASSUME NEW N \in Nat, NEW S \in SUBSET (0..N), S # {}
  PROVE  \E n \in S : \A m \in S : n <= m
<1> DEFINE Up == {0..n : n \in S}
<1>1. IsFiniteSet(0..N)
  BY FS_Interval
<1>2. Up \subseteq SUBSET (0..N)
  OBVIOUS
<1>3. Up \subseteq FiniteSubsetsOf(0..N) /\ Up # {}
  <2>1. FiniteSubsetsOf(0..N) = SUBSET (0..N)
    BY <1>1, FS_FiniteSubsetsOfFinite
  <2>2. \E n \in S : 0..n \in Up
    OBVIOUS
  <2> HIDE DEF Up
  <2> QED
    BY <1>2, <2>1, <2>2
<1>4. IsWellFoundedOn(StrictSubsetOrdering(0..N), FiniteSubsetsOf(0..N))
  BY FS_StrictSubsetOrderingWellFounded
<1> HIDE DEF Up
<1>5. PICK x \in Up : \A y \in Up : <<y, x>> \notin StrictSubsetOrdering(0..N)
  BY <1>3, <1>4, WFMin
<1>6. PICK n \in S : x = 0..n
  BY DEF Up
<1>7. ASSUME NEW m \in S, m < n PROVE FALSE
  <2>1. 0..m \in Up
    BY DEF Up
  <2>2. 0..m \subseteq 0..n /\ n \in 0..n /\ n \notin 0..m
    BY <1>7
  <2> QED
    BY <1>2, <1>5, <1>6, <2>1, <2>2 DEF StrictSubsetOrdering
<1> QED
  BY <1>7

Leading(lead, t, f) ==
  lead[f] = IF f \in DOMAIN Mapping /\ t \in DOMAIN Mapping[f] THEN lead[Mapping[f][t]] ELSE f

\* Maps are made of functions that exist, so following a target comes to an end
\* (function_impl.cc:51).
LEMMA SomeLead == ASSUME NEW t PROVE Leads(t) # {}
<1> USE StartupAssumption
<1> DEFINE N == Cardinality(Function)
<1>1. N \in Nat
  BY FS_CardinalityType
<1>2. PICK rank \in [Function -> 1..N] :
        \A f \in DOMAIN Mapping : \A u \in DOMAIN Mapping[f] : rank[Mapping[f][u]] < rank[f]
  OBVIOUS
<1> DEFINE Good(lead, n) == \A f \in Function : rank[f] <= n => Leading(lead, t, f)
           Solved(n) == \E lead \in [Function -> Function] : Good(lead, n)
           Bad == {n \in 0..N : ~Solved(n)}
<1> HIDE DEF N
<1>3. Bad = {}
  <2> SUFFICES ASSUME Bad # {} PROVE FALSE
    OBVIOUS
  <2>1. PICK n \in Bad : \A m \in Bad : n <= m
    BY <1>1, Least
  <2>2. n # 0
    <3>1. Good([f \in Function |-> f], 0)
      BY <1>1, <1>2
    <3> QED
      BY <3>1
  <2>3. n - 1 \in 0..N /\ Solved(n - 1)
    <3>1. n \in 0..N /\ n - 1 \in 0..N /\ ~(n <= n - 1)
      BY <1>1, <2>1, <2>2
    <3>2. n - 1 \notin Bad
      BY <2>1, <3>1
    <3> HIDE DEF Solved
    <3> QED
      BY <3>1, <3>2
  <2>4. PICK lead \in [Function -> Function] : Good(lead, n - 1)
    BY <2>3
  <2> DEFINE more == [f \in Function |->
               IF rank[f] < n THEN lead[f]
               ELSE IF f \in DOMAIN Mapping /\ t \in DOMAIN Mapping[f] THEN lead[Mapping[f][t]] ELSE f]
  <2>5. more \in [Function -> Function]
    OBVIOUS
  <2>6. ASSUME NEW f \in Function, rank[f] <= n PROVE Leading(more, t, f)
    <3>0. rank[f] \in Int /\ n \in Int
      BY <1>1, <1>2
    <3>1. CASE f \in DOMAIN Mapping /\ t \in DOMAIN Mapping[f]
      <4>1. Mapping[f][t] \in Function /\ rank[Mapping[f][t]] < rank[f]
        BY <1>2, <3>1
      <4>2. rank[Mapping[f][t]] < n
        BY <1>1, <1>2, <2>6, <3>0, <4>1
      <4>3. more[Mapping[f][t]] = lead[Mapping[f][t]]
        BY <4>1, <4>2
      <4>4. more[f] = lead[Mapping[f][t]]
        <5>1. CASE rank[f] < n
          <6>1. rank[f] <= n - 1
            BY <3>0, <5>1
          <6> QED
            BY <2>4, <3>1, <5>1, <6>1 DEF Leading
        <5>2. CASE ~(rank[f] < n)
          BY <3>1, <5>2
        <5> QED
          BY <5>1, <5>2
      <4> HIDE DEF more
      <4> QED
        BY <3>1, <4>3, <4>4 DEF Leading
    <3>2. CASE ~(f \in DOMAIN Mapping /\ t \in DOMAIN Mapping[f])
      <4>1. CASE rank[f] < n
        <5>1. rank[f] <= n - 1
          BY <3>0, <4>1
        <5> QED
          BY <2>4, <3>2, <4>1, <5>1 DEF Leading
      <4>2. CASE ~(rank[f] < n)
        BY <3>2, <4>2 DEF Leading
      <4> QED
        BY <4>1, <4>2
    <3> QED
      BY <3>1, <3>2
  <2>7. Good(more, n)
    BY <2>6
  <2> HIDE DEF more
  <2> QED
    BY <2>1, <2>5, <2>7
<1>4. PICK lead \in [Function -> Function] : Good(lead, N)
  <2>1. N \in 0..N
    BY <1>1
  <2> HIDE DEF Solved
  <2>2. Solved(N)
    BY <1>3, <2>1
  <2> QED
    BY <2>2 DEF Solved
<1>5. \A f \in Function : Leading(lead, t, f)
  <2> TAKE f \in Function
  <2>1. rank[f] <= N
    BY <1>1, <1>2
  <2> QED
    BY <1>4, <2>1
<1>6. lead \in Leads(t)
  BY <1>5 DEF Leads, Leading
<1> QED
  BY <1>6

-----------------------------------------------------------------------------
(* The invariant.                                                          *)

LEMMA Initially == Init => IInv
BY DEF Init, IInv, TypeOK, Input, EnvRead, PortRead, PortChecked, Asked, Listening, OnTheWay, Found

\* The port of a program that got past both sources is a number.
LEMMA PortIsInt ==
  ASSUME Input, env # Word, cmdline.port # Word
  PROVE  AskedPort \in Int
<1>1. cmdline.port \in Port \cup {None, Word} /\ env \in Port \cup {None, Word}
  BY DEF Input
<1>2. Port \subseteq Int
  BY StartupAssumption
<1>3. (cmdline.port # None => cmdline.port \in Int) /\ (env # None => env \in Int)
  BY <1>1, <1>2
<1> QED
  BY <1>3 DEF AskedPort, kDefaultPort

LEMMA Step == IInv /\ [Next]_vars => IInv'
<1> SUFFICES ASSUME IInv, [Next]_vars PROVE IInv'
  OBVIOUS
<1> USE DEF IInv, Goto
<1>1. CASE UNCHANGED vars
  BY <1>1 DEF vars, inputVars, TypeOK, Input, EnvRead, PortRead, PortChecked, Asked, Listening,
     OnTheWay, Found, AskedPort, TargetOf
<1>2. ASSUME Throw PROVE IInv'
  BY <1>2 DEF Throw, inputVars, TypeOK, Input, EnvRead, PortRead, PortChecked, Asked, Listening,
     OnTheWay, Found
<1>3. CASE ReadEnv
  BY <1>3, StartupAssumption DEF ReadEnv, inputVars, kDefaultPort, TypeOK, Input, EnvRead, PortRead,
     PortChecked, Asked, Listening, OnTheWay, Found
<1>4. CASE ParseCommandLine
  <2>1. env # Word /\ cmdline.port # Word /\ port' = AskedPort
    BY <1>4 DEF ParseCommandLine, EnvRead, PortRead, AskedPort
  <2>2. AskedPort \in Int /\ AskedPort' = AskedPort
    BY <1>4, <2>1, PortIsInt DEF ParseCommandLine, inputVars, AskedPort
  <2> QED
    BY <1>4, <2>1, <2>2 DEF ParseCommandLine, inputVars, TypeOK, Input, EnvRead, PortRead,
       PortChecked, Asked, Listening, OnTheWay, Found
<1>5. CASE CheckRange
  BY <1>5 DEF CheckRange, inputVars, TypeOK, Input, EnvRead, PortRead, PortChecked, Asked, Listening,
     OnTheWay, Found, AskedPort
<1>6. CASE Help
  BY <1>6 DEF Help, inputVars, TypeOK, Input, EnvRead, PortRead, PortChecked, Asked, Listening,
     OnTheWay, Found
<1>7. CASE MakeAddress
  BY <1>7 DEF MakeAddress, inputVars, TypeOK, Input, EnvRead, PortRead, PortChecked, Asked, Listening,
     OnTheWay, Found, AskedPort
<1>8. CASE Listen
  <2>1. port \in Int /\ InRange(port)
    BY <1>8, PortIsInt DEF Listen, EnvRead, PortRead, PortChecked
  <2>2. uint16(port) = port
    BY <2>1 DEF InRange, uint16, MaxPort
  <2>3. bound' = port /\ port \notin taken \ {0} /\ bound' \in 0..MaxPort
    <3>1. bound' = port /\ (port = 0 \/ port \notin taken)
      BY <1>8, <2>2 DEF Listen
    <3>2. port \in 0..MaxPort
      <4>1. port \in Int /\ 0 <= port /\ port <= MaxPort
        BY <2>1 DEF InRange
      <4>2. MaxPort \in Int
        BY DEF MaxPort
      <4> HIDE DEF IInv
      <4> QED
        BY <4>1, <4>2
    <3> QED
      BY <3>1, <3>2
  <2> QED
    BY <1>8, <2>3 DEF Listen, inputVars, TypeOK, Input, EnvRead, PortRead, PortChecked, Asked,
       Listening, OnTheWay, Found, AskedPort, TargetOf
<1>9. CASE FindTarget
  <2>1. at' \in Function /\ at \in Function
    BY <1>9, StartupAssumption DEF FindTarget, OnTheWay
  <2>2. \A lead \in Leads(TargetOf) : lead[at'] = lead[at]
    BY <1>9, <2>1 DEF FindTarget, Leads
  <2>3. TargetOf' = TargetOf /\ AskedPort' = AskedPort
    BY <1>9 DEF FindTarget, inputVars, TargetOf, AskedPort
  <2>4. OnTheWay'
    BY <1>9, <2>1, <2>2, <2>3 DEF FindTarget, inputVars, OnTheWay
  <2> QED
    BY <1>9, <2>1, <2>3, <2>4 DEF FindTarget, inputVars, TypeOK, Input, EnvRead, PortRead,
       PortChecked, Asked, Listening, Found
<1>10. CASE HasHandler
  BY <1>10 DEF HasHandler, inputVars, TypeOK, Input, EnvRead, PortRead, PortChecked, Asked, Listening,
     OnTheWay, Found, AskedPort, TargetOf
<1>11. ASSUME NEW c \in Client, Connect(c) PROVE IInv'
  BY <1>11 DEF Connect, inputVars, TypeOK, Input, EnvRead, PortRead, PortChecked, Asked, Listening,
     OnTheWay, Found, AskedPort, TargetOf
<1> QED
  BY <1>1, <1>2, <1>3, <1>4, <1>5, <1>6, <1>7, <1>8, <1>9, <1>10, <1>11
     DEF Next, Proceed, HandOver, ReadEnvThrows, ParseCommandLineThrows, CheckRangeThrows,
         MakeAddressThrows, BindThrows, TargetMissing

LEMMA Invariance == Spec => []IInv
BY Initially, Step, PTL DEF Spec

-----------------------------------------------------------------------------
\* The types of the startup: an exit code exactly at the end, and no client connected to a
\* program that does not listen.
THEOREM TypeCorrect == Spec => []TypeOK
<1>1. IInv => TypeOK
  BY DEF IInv
<1> QED
  BY <1>1, Invariance, PTL

\* A server that runs was given everything it needs, listens on the port it was asked to
\* and has the handler of the function its target names, however deep in the maps
\* (parse_options.cc:68, function_impl.cc:51).
THEOREM ServesWhatWasAsked == Spec => []ServesAsAsked
<1>1. IInv => ServesAsAsked
  <2> SUFFICES ASSUME IInv, pc = "serving" PROVE Usable /\ bound = AskedPort /\ at = Named(TargetOf)
    BY DEF ServesAsAsked
  <2> DEFINE lead == CHOOSE l \in Leads(TargetOf) : TRUE
  <2>1. lead \in Leads(TargetOf)
    BY SomeLead
  <2>2. Named(TargetOf) = lead[root]
    BY DEF Named
  <2> HIDE DEF lead
  <2>3. at \in Function /\ at \notin DOMAIN Mapping /\ lead[at] = lead[root]
    BY <2>1 DEF IInv, OnTheWay, Found
  <2>4. lead[at] = at
    BY <2>1, <2>3 DEF Leads
  <2>5. env # Word /\ cmdline.port # Word /\ port = AskedPort /\ InRange(port) /\ ~cmdline.help
        /\ cmdline.address # "name" /\ bound = port /\ port \notin taken \ {0}
    BY DEF IInv, EnvRead, PortRead, PortChecked, Asked, Listening
  <2> QED
    BY <2>2, <2>3, <2>4, <2>5 DEF Usable
<1> QED
  BY <1>1, Invariance, PTL
==============================================================================

------------------------ MODULE UserFunctionsProofs --------------------------
(***************************************************************************)
(* For every function of these statements, and any number of calls: values *)
(* are made once and used after, and calls do not show in the answers of   *)
(* others. What a function must be for that is ProgramAssumption.          *)
(***************************************************************************)
EXTENDS UserFunctions, TLAPS

Length == Len(Program[function])
In(c) == phase[c] = "function" /\ at[c] \in 1..Length

\* Who makes a value is at its statement; who is between the braces of the lock_guard
\* holds the lock.
Holders ==
  /\ \A v \in Value : \A c \in makers[v] : In(c) /\ IsLazy(function, at[c], v)
  /\ \A c \in Call : In(c) /\ Op(function, at[c]) \in {"make", "unlock"} => mutex = c
  /\ \A c \in Call : phase[c] = "waiting" => at[c] = 1

LazyInv == TypeOK /\ Holders /\ LazyMadeOnce

\* Numbers are given out below the counter, none twice; a running task has its call waiting.
Counted ==
  /\ \A c \in Call : number[c] <= count
  /\ \A c, d \in Call : c # d /\ number[c] > 0 => number[c] # number[d]
  /\ \A c \in Call : task[c] = "running" => In(c) /\ Op(function, at[c]) = "async"

\* A response is what its call set until it is moved from.
Own ==
  /\ \A c \in Call : phase[c] = "unwrap" => impl[c].payload = TextOf(c)
  /\ \A c \in Call : phase[c] = "answered" => sent[c].payload \in {TextOf(c), ErrorResponse.payload}

AnswerInv == TypeOK /\ Counted /\ Own

-----------------------------------------------------------------------------
USE ProgramAssumption

\* The elements of a sequence over a set are in it.
LEMMA Elements ==
  ASSUME NEW S, NEW q \in Seq(S)
  PROVE  Len(q) \in Nat /\ \A i \in 1..Len(q) : q[i] \in S
OBVIOUS

\* What the assumption says of the function of the process.
LEMMA FunctionShape ==
  ASSUME TypeOK
  PROVE  /\ Length \in Nat
         /\ \A i \in 1..Length :
              /\ Program[function][i].of \in Value
              /\ Program[function][i].ends \subseteq KnownResults \cup {Thrown}
              /\ Op(function, i) = "lock" => i < Length /\ Op(function, i + 1) = "make"
              /\ Op(function, i) = "make" => i > 1 /\ Op(function, i - 1) = "lock"
                                              /\ i < Length /\ Op(function, i + 1) = "unlock"
              /\ Op(function, i) = "unlock" => i > 1 /\ Op(function, i - 1) = "make"
              /\ \A j \in 1..Length : Op(function, i) = "static" /\ Op(function, j) = "make"
                                        => Program[function][i].of # Program[function][j].of
<1>1. function \in DOMAIN Program
  BY DEF TypeOK
<1>2. Program[function] \in Seq([op : STRING, of : Value, throws : STRING,
                                 ends : SUBSET (KnownResults \cup {Thrown})])
  BY <1>1, Zenon
<1>3. Length \in Nat /\ \A i \in 1..Length : Program[function][i] \in
        [op : STRING, of : Value, throws : STRING, ends : SUBSET (KnownResults \cup {Thrown})]
  BY <1>2, Elements, Zenon DEF Length
<1>4. \A i \in 1..Length :
        /\ Program[function][i].of \in Value
        /\ Program[function][i].ends \subseteq KnownResults \cup {Thrown}
  BY <1>3
<1>5. \A i \in 1..Length :
        /\ Op(function, i) = "lock" => i < Length /\ Op(function, i + 1) = "make"
        /\ Op(function, i) = "make" => i > 1 /\ Op(function, i - 1) = "lock"
                                        /\ i < Length /\ Op(function, i + 1) = "unlock"
        /\ Op(function, i) = "unlock" => i > 1 /\ Op(function, i - 1) = "make"
        /\ \A j \in 1..Length : Op(function, i) = "static" /\ Op(function, j) = "make"
                                  => Program[function][i].of # Program[function][j].of
  BY <1>1, Zenon DEF Length
<1>. QED
  BY <1>3, <1>4, <1>5, Zenon

\* The initial state has the types and the invariants.
LEMMA Initially == Init => LazyInv /\ AnswerInv
<1> SUFFICES ASSUME Init PROVE LazyInv /\ AnswerInv
  OBVIOUS
<1> USE DEF Init
<1>1. TypeOK
  BY DEF TypeOK
<1>2. Holders
  BY DEF Holders, In
<1>3. LazyMadeOnce
  <2>1. \A c \in Call : 1..(at[c] - 1) = {}
    OBVIOUS
  <2>. QED  BY <2>1 DEF LazyMadeOnce
<1>4. Counted
  BY DEF Counted
<1>5. Own
  BY DEF Own
<1>. QED
  BY <1>1, <1>2, <1>3, <1>4, <1>5 DEF LazyInv, AnswerInv

-----------------------------------------------------------------------------
\* Every step keeps the types.
LEMMA TypeStep == TypeOK /\ [Next]_vars => TypeOK'
<1> SUFFICES ASSUME TypeOK, [Next]_vars PROVE TypeOK'
  OBVIOUS
<1> USE DEF TypeOK, Step, Raise
<1> USE DEF lazyVars, workVars, replyVars
<1>1. ASSUME NEW c \in Call, Enter(c) PROVE TypeOK'
  BY <1>1 DEF Enter
<1>2. ASSUME NEW c \in Call, Lazily(c) PROVE TypeOK'
  <2>. \A v \in Value : makers[v] \cup {c} \in SUBSET Call /\ makers[v] \ {c} \in SUBSET Call
    OBVIOUS
  <2>1. CASE BeginStatic(c)
    BY <2>1 DEF BeginStatic
  <2>2. CASE BeginMake(c)
    BY <2>2 DEF BeginMake
  <2>3. CASE Made(c)
    <3> DEFINE v == Statement(c).of
    <3>1. /\ makers' = [makers EXCEPT ![v] = @ \ {c}] /\ made' = [made EXCEPT ![v] = TRUE]
          /\ times' = [times EXCEPT ![v] = @ + 1] /\ at' = [at EXCEPT ![c] = @ + 1]
          /\ UNCHANGED <<function, env, phase, mutex, workVars, replyVars>>
      BY <2>3 DEF Made
    <3>. HIDE DEF v
    <3>2. times' \in [Value -> Nat]
      <4>1. times \in [Value -> Nat] /\ times' = [times EXCEPT ![v] = times[v] + 1]
        BY <3>1
      <4>2. v \in Value => times[v] + 1 \in Nat
        BY <4>1
      <4>. HIDE DEF TypeOK
      <4>. QED  BY <4>1, <4>2
    <3>3. made' \in [Value -> BOOLEAN] /\ makers' \in [Value -> SUBSET Call]
      BY <3>1
    <3>. QED  BY <3>1, <3>2, <3>3
  <2>4. CASE MakeThrows(c)
    BY <2>4 DEF MakeThrows, Making, Runs
  <2>5. CASE IsMade(c)
    BY <2>5 DEF IsMade
  <2>6. CASE Lock(c)
    BY <2>6 DEF Lock
  <2>7. CASE Unlock(c)
    BY <2>7 DEF Unlock
  <2>. QED  BY <1>2, <2>1, <2>2, <2>3, <2>4, <2>5, <2>6, <2>7 DEF Lazily
<1>3. ASSUME NEW c \in Call, Work(c) PROVE TypeOK'
  <2>1. CASE Environment(c)
    <3>1. CASE env
      <4>1. /\ at' = [at EXCEPT ![c] = @ + 1] /\ UNCHANGED <<phase, replyVars>>
            /\ UNCHANGED <<function, env, lazyVars, workVars>>
        BY <2>1, <3>1, Zenon DEF Environment, Step
      <4>. QED  BY <4>1
    <3>2. CASE ~env
      <4>1. /\ phase' = [phase EXCEPT ![c] = "answered"] /\ sent' = [sent EXCEPT ![c] = ErrorResponse]
            /\ UNCHANGED <<impl, at, function, env, lazyVars, workVars>>
        BY <2>1, <3>2, Zenon DEF Environment, Raise
      <4>. QED  BY <4>1
    <3>. QED  BY <3>1, <3>2
  <2>2. CASE GoOn(c)
    BY <2>2 DEF GoOn
  <2>3. CASE MayThrow(c)
    BY <2>3 DEF MayThrow, Runs
  <2>4. CASE Count(c)
    BY <2>4 DEF Count
  <2>5. CASE StartTask(c)
    BY <2>5 DEF StartTask
  <2>6. CASE RunTask(c)
    BY <2>6 DEF RunTask
  <2>7. CASE JoinTask(c)
    BY <2>7 DEF JoinTask
  <2>. QED  BY <1>3, <2>1, <2>2, <2>3, <2>4, <2>5, <2>6, <2>7 DEF Work
<1>4. ASSUME NEW c \in Call, Answer(c) PROVE TypeOK'
  <2>1. CASE Reply(c)
    BY <2>1 DEF Reply, Runs
  <2>2. CASE Unwrap(c)
    BY <2>2 DEF Unwrap
  <2>. QED  BY <1>4, <2>1, <2>2 DEF Answer
<1>5. CASE UNCHANGED vars
  BY <1>5 DEF vars
<1>. QED
  BY <1>1, <1>2, <1>3, <1>4, <1>5 DEF Next, Idle

-----------------------------------------------------------------------------
\* A call that starts, or ends at a statement that makes nothing, leaves the values alone.
LEMMA LazyLeft ==
  ASSUME LazyInv, TypeOK', UNCHANGED <<function, at, lazyVars>>,
         \A c \in Call : phase'[c] # phase[c] =>
           \/ phase[c] = "waiting" /\ phase'[c] = "function"
           \/ /\ phase[c] \in {"function", "unwrap"} /\ phase'[c] \in {"unwrap", "answered"}
              /\ In(c) => Op(function, at[c]) \notin {"static", "make"}
  PROVE  LazyInv'
<1>0. /\ UNCHANGED <<function, at, makers, made, times, mutex>>
      /\ Holders /\ LazyMadeOnce
      /\ makers \in [Value -> SUBSET Call]
  BY DEF LazyInv, TypeOK, lazyVars
<1>1. Holders'
  <2>1. ASSUME NEW v \in Value, NEW c \in makers[v]
        PROVE  In(c)' /\ IsLazy(function, at[c], v)'
    <3>1. c \in Call /\ In(c) /\ IsLazy(function, at[c], v)
      BY <1>0, <2>1 DEF Holders
    <3>2. phase'[c] = phase[c]
      BY <3>1 DEF In, IsLazy
    <3>. QED  BY <1>0, <3>1, <3>2 DEF In, IsLazy, Op, Length
  <2>2. ASSUME NEW c \in Call, In(c)', Op(function, at[c]) \in {"make", "unlock"}
        PROVE  mutex = c
    <3>1. CASE phase[c] = "waiting"
      <4>1. at[c] = 1 /\ 1 \in 1..Length
        BY <1>0, <2>2, <3>1 DEF Holders, In, Length
      <4>. QED  BY <2>2, <4>1, FunctionShape DEF LazyInv
    <3>2. CASE phase[c] # "waiting"
      <4>1. In(c)
        BY <1>0, <2>2, <3>2 DEF In, Length
      <4>. QED  BY <1>0, <2>2, <4>1 DEF Holders
    <3>. QED  BY <3>1, <3>2
  <2>3. \A c \in Call : phase'[c] = "waiting" => at[c] = 1
    BY <1>0 DEF Holders
  <2>. QED  BY <1>0, <2>1, <2>2, <2>3 DEF Holders, Op
<1>2. LazyMadeOnce'
  <2>1. \A c \in Call : phase'[c] # "answered" => phase[c] # "answered"
    OBVIOUS
  <2>2. ASSUME NEW v \in Value, NEW c \in Call, phase'[c] # "answered",
               NEW i \in 1..(at[c] - 1), IsLazy(function, i, v)
        PROVE  made[v]
    BY <1>0, <2>1, <2>2 DEF LazyMadeOnce
  <2>. QED  BY <1>0, <2>2 DEF LazyMadeOnce, IsLazy, Op
<1>. QED
  BY <1>1, <1>2 DEF LazyInv

\* So does one that goes on from a statement that makes nothing.
LEMMA LazyPassed ==
  ASSUME LazyInv, TypeOK', UNCHANGED <<function, phase, makers, made, times>>,
         NEW c \in Call, In(c), at' = [at EXCEPT ![c] = @ + 1],
         \A v \in Value : c \notin makers[v] /\ (IsLazy(function, at[c], v) => made[v]),
         \A d \in Call \ {c} : In(d) /\ mutex = d => mutex' = d,
         In(c)' /\ Op(function, at[c] + 1) \in {"make", "unlock"} => mutex' = c
  PROVE  LazyInv'
<1>0. /\ Holders /\ LazyMadeOnce /\ makers \in [Value -> SUBSET Call]
      /\ at \in [Call -> Nat \ {0}]
      /\ at'[c] = at[c] + 1 /\ \A d \in Call \ {c} : at'[d] = at[d]
  BY DEF LazyInv, TypeOK
<1>1. Holders'
  <2>1. ASSUME NEW v \in Value, NEW d \in makers[v]
        PROVE  In(d)' /\ IsLazy(function, at[d], v)'
    <3>1. d \in Call \ {c} /\ In(d) /\ IsLazy(function, at[d], v)
      BY <1>0, <2>1 DEF Holders
    <3>. QED  BY <1>0, <3>1 DEF In, IsLazy, Op, Length
  <2>2. ASSUME NEW d \in Call, In(d)', (Op(function, at[d]) \in {"make", "unlock"})'
        PROVE  mutex' = d
    <3>1. CASE d = c
      BY <1>0, <2>2, <3>1 DEF Op
    <3>2. CASE d # c
      BY <1>0, <2>2, <3>2 DEF Holders, In, Op, Length
    <3>. QED  BY <3>1, <3>2
  <2>3. \A d \in Call : phase'[d] = "waiting" => at'[d] = 1
    BY <1>0 DEF Holders, In
  <2>. QED  BY <1>0, <2>1, <2>2, <2>3 DEF Holders
<1>2. LazyMadeOnce'
  <2>1. ASSUME NEW v \in Value, NEW d \in Call, phase[d] # "answered",
               NEW i \in 1..(at'[d] - 1), IsLazy(function, i, v)
        PROVE  made[v]
    <3>1. CASE i \in 1..(at[d] - 1)
      BY <1>0, <2>1, <3>1 DEF LazyMadeOnce
    <3>2. CASE i \notin 1..(at[d] - 1)
      <4>1. d = c /\ i = at[c]
        BY <1>0, <3>2
      <4>. QED  BY <2>1, <4>1
    <3>. QED  BY <3>1, <3>2
  <2>. QED  BY <1>0, <2>1 DEF LazyMadeOnce, IsLazy, Op
<1>. QED
  BY <1>1, <1>2 DEF LazyInv

\* A call begins to make a value that nobody makes.
LEMMA LazyBegun ==
  ASSUME LazyInv, TypeOK', UNCHANGED <<function, phase, at, made, times, mutex>>,
         NEW c \in Call, NEW v \in Value, In(c), IsLazy(function, at[c], v),
         ~made[v], makers[v] \subseteq {c},
         makers' = [makers EXCEPT ![v] = {c}]
  PROVE  LazyInv'
<1> USE DEF LazyInv, TypeOK
<1>1. Holders'
  BY SMTT(20) DEF Holders, In, IsLazy, Op, Length
<1>2. LazyMadeOnce'
  BY DEF LazyMadeOnce, IsLazy, Op
<1>. QED
  BY <1>1, <1>2

\* What comes before a statement of the lock_guard's block.
LEMMA NextStatement ==
  ASSUME TypeOK, UNCHANGED function, NEW c \in Call, In(c), at' = [at EXCEPT ![c] = @ + 1], In(c)'
  PROVE  /\ Op(function, at[c] + 1) = "make" => Op(function, at[c]) = "lock"
         /\ Op(function, at[c] + 1) = "unlock" => Op(function, at[c]) = "make"
<1>1. at[c] \in Nat /\ at'[c] = at[c] + 1 /\ at[c] + 1 \in 1..Length /\ (at[c] + 1) - 1 = at[c]
  BY DEF TypeOK, In, Length
<1>. QED
  BY <1>1, FunctionShape

\* A statement that makes nothing, and is not in the lock_guard's block.
LEMMA LazyPlain ==
  ASSUME LazyInv, TypeOK', UNCHANGED <<function, phase, lazyVars>>,
         NEW c \in Call, In(c), Step(c),
         Op(function, at[c]) \notin {"static", "lock", "make", "unlock"}
  PROVE  LazyInv'
<1>1. /\ UNCHANGED <<function, phase, makers, made, times, mutex>>
      /\ at' = [at EXCEPT ![c] = @ + 1] /\ TypeOK
  BY DEF lazyVars, Step, LazyInv
<1>2. \A v \in Value : c \notin makers[v] /\ ~IsLazy(function, at[c], v)
  BY DEF LazyInv, Holders, IsLazy
<1>3. ~(In(c)' /\ Op(function, at[c] + 1) \in {"make", "unlock"})
  BY <1>1, NextStatement
<1>. QED
  BY <1>1, <1>2, <1>3, LazyPassed

\* Two calls cannot be at the statement that makes v under the lock, and no other
\* statement makes it.
LEMMA OneMaker ==
  ASSUME LazyInv, NEW c \in Call, NEW v \in Value, In(c), Op(function, at[c]) = "make",
         IsLazy(function, at[c], v)
  PROVE  makers[v] \subseteq {c}
<1> SUFFICES ASSUME NEW d \in Call, d \in makers[v] PROVE d = c
  BY DEF LazyInv, TypeOK
<1>1. In(d) /\ IsLazy(function, at[d], v)
  BY DEF LazyInv, Holders
<1>2. Op(function, at[d]) = "make"
  BY <1>1, FunctionShape DEF LazyInv, In, IsLazy
<1>. QED
  BY <1>1, <1>2 DEF LazyInv, Holders

\* Every step keeps the values made once.
LEMMA LazyStep == LazyInv /\ [Next]_vars => LazyInv'
<1> SUFFICES ASSUME LazyInv, [Next]_vars PROVE LazyInv'
  OBVIOUS
<1>0. TypeOK /\ TypeOK'
  BY TypeStep DEF LazyInv
<1>1. ASSUME NEW c \in Call, Enter(c) PROVE LazyInv'
  <2>1. \A d \in Call : phase'[d] # phase[d] => phase[d] = "waiting" /\ phase'[d] = "function"
    BY <1>0, <1>1 DEF TypeOK, Enter
  <2>. QED  BY <1>0, <1>1, <2>1, LazyLeft DEF Enter
<1>2. ASSUME NEW c \in Call, Lazily(c) PROVE LazyInv'
  <2>1. CASE BeginStatic(c)
    <3>1. In(c) /\ IsLazy(function, at[c], Statement(c).of)
      BY <2>1 DEF BeginStatic, Runs, In, Length, IsLazy, Op, Statement
    <3>2. Statement(c).of \in Value
      BY <1>0, <3>1, FunctionShape DEF In, Statement
    <3>. QED  BY <1>0, <2>1, <3>1, <3>2, LazyBegun DEF BeginStatic
  <2>2. CASE BeginMake(c)
    <3>1. In(c) /\ IsLazy(function, at[c], Statement(c).of) /\ Op(function, at[c]) = "make"
      BY <2>2 DEF BeginMake, Runs, In, Length, IsLazy, Op, Statement
    <3>2. Statement(c).of \in Value
      BY <1>0, <3>1, FunctionShape DEF In, Statement
    <3>3. makers[Statement(c).of] \subseteq {c}
      BY <3>1, <3>2, OneMaker
    <3>4. makers[Statement(c).of] \cup {c} = {c}
      BY <3>3
    <3>5. makers' = [makers EXCEPT ![Statement(c).of] = {c}]
      BY <2>2, <3>4 DEF BeginMake
    <3>. QED  BY <1>0, <2>2, <3>1, <3>2, <3>3, <3>5, LazyBegun DEF BeginMake
  <2>3. CASE Made(c)
    <3> DEFINE v == Statement(c).of
    <3>1. In(c) /\ IsLazy(function, at[c], v) /\ c \in makers[v]
      BY <2>3 DEF Made, Making, Runs, In, Length, IsLazy, Op, Statement
    <3>2. v \in Value
      BY <1>0, <3>1, FunctionShape DEF In, Statement
    <3>3. makers[v] = {c} /\ ~made[v] /\ times[v] = 0
      BY <1>0, <3>1, <3>2, SMTT(20) DEF LazyInv, LazyMadeOnce, TypeOK
    <3>4. /\ makers' = [makers EXCEPT ![v] = @ \ {c}] /\ made' = [made EXCEPT ![v] = TRUE]
          /\ times' = [times EXCEPT ![v] = @ + 1]
          /\ at' = [at EXCEPT ![c] = @ + 1] /\ UNCHANGED <<function, phase, mutex>>
      BY <2>3 DEF Made, Step
    <3>. HIDE DEF v
    <3>5. /\ makers'[v] = {} /\ made'[v] /\ times'[v] = 1
          /\ \A w \in Value \ {v} : makers'[w] = makers[w] /\ made'[w] = made[w] /\ times'[w] = times[w]
          /\ at'[c] = at[c] + 1 /\ \A d \in Call \ {c} : at'[d] = at[d]
      BY <1>0, <3>2, <3>3, <3>4 DEF TypeOK
    <3>6. Holders'
      <4>1. ASSUME NEW w \in Value, NEW d \in makers'[w]
            PROVE  In(d)' /\ IsLazy(function, at[d], w)'
        <5>1. w # v /\ d \in makers[w]
          BY <3>5, <4>1
        <5>2. d \in Call /\ In(d) /\ IsLazy(function, at[d], w)
          BY <1>0, <5>1 DEF LazyInv, Holders, TypeOK
        <5>3. d # c
          BY <3>1, <5>1, <5>2 DEF IsLazy
        <5>. QED  BY <3>4, <3>5, <5>2, <5>3 DEF In, IsLazy, Op, Length
      <4>2. ASSUME NEW d \in Call, In(d)', (Op(function, at[d]) \in {"make", "unlock"})'
            PROVE  mutex = d
        <5>1. CASE d = c
          <6>1. Op(function, at[c] + 1) \in {"make", "unlock"}
            BY <3>4, <3>5, <4>2, <5>1 DEF Op
          <6>2. Op(function, at[c]) = "make"
            BY <1>0, <3>1, <3>4, <4>2, <5>1, <6>1, NextStatement DEF IsLazy
          <6>. QED  BY <3>1, <5>1, <6>2 DEF LazyInv, Holders
        <5>2. CASE d # c
          BY <3>4, <3>5, <4>2, <5>2 DEF LazyInv, Holders, In, Op, Length
        <5>. QED  BY <5>1, <5>2
      <4>3. \A d \in Call : phase'[d] = "waiting" => at'[d] = 1
        BY <3>1, <3>4, <3>5 DEF LazyInv, Holders, In
      <4>. QED  BY <3>4, <4>1, <4>2, <4>3 DEF Holders
    <3>7. LazyMadeOnce'
      <4>1. ASSUME NEW w \in Value, NEW d \in Call, phase[d] # "answered",
                   NEW i \in 1..(at'[d] - 1), IsLazy(function, i, w), w # v
            PROVE  made[w]
        <5>1. CASE i \in 1..(at[d] - 1)
          BY <4>1, <5>1 DEF LazyInv, LazyMadeOnce
        <5>2. CASE i \notin 1..(at[d] - 1)
          <6>1. at[d] \in Nat /\ i \in 1..(at'[d] - 1)
            BY <1>0 DEF TypeOK
          <6>2. d = c /\ at'[d] = at[d] + 1
            BY <3>5, <5>2, <6>1
          <6>3. i = at[c]
            BY <5>2, <6>1, <6>2
          <6>. QED  BY <3>1, <4>1, <6>2, <6>3 DEF IsLazy
        <5>. QED  BY <5>1, <5>2
      <4>. QED  BY <1>0, <3>3, <3>4, <3>5, <4>1 DEF LazyInv, LazyMadeOnce, IsLazy, Op
    <3>. QED  BY <1>0, <3>6, <3>7 DEF LazyInv
  <2>4. CASE MakeThrows(c)
    <3> DEFINE v == Statement(c).of
    <3>1. In(c) /\ IsLazy(function, at[c], v) /\ c \in makers[v]
      BY <2>4 DEF MakeThrows, Making, Runs, In, Length, IsLazy, Op, Statement
    <3>2. v \in Value
      BY <1>0, <3>1, FunctionShape DEF In, Statement
    <3>3. /\ makers' = [makers EXCEPT ![v] = @ \ {c}] /\ mutex' = IF mutex = c THEN None ELSE mutex
          /\ phase' = [phase EXCEPT ![c] = "answered"] /\ UNCHANGED <<function, at, made, times>>
      BY <2>4 DEF MakeThrows, Raise
    <3>4. \A w \in Value : w # v => c \notin makers[w]
      BY <3>1, <3>2 DEF LazyInv, Holders, IsLazy, Op
    <3>. HIDE DEF v
    <3>5. Holders'
      BY <1>0, <3>1, <3>2, <3>3, <3>4 DEF LazyInv, TypeOK, Holders, In, IsLazy, Op, Length
    <3>6. LazyMadeOnce'
      BY <1>0, <3>1, <3>2, <3>3 DEF LazyInv, TypeOK, LazyMadeOnce, In, IsLazy, Op
    <3>. QED  BY <1>0, <3>5, <3>6 DEF LazyInv
  <2>5. CASE IsMade(c)
    <3>1. /\ In(c) /\ IsLazy(function, at[c], Statement(c).of) /\ made[Statement(c).of]
          /\ at' = [at EXCEPT ![c] = @ + 1] /\ UNCHANGED <<function, phase, makers, made, times, mutex>>
      BY <2>5 DEF IsMade, Runs, In, Length, IsLazy, Op, Statement, Step, lazyVars
    <3>2. \A w \in Value : IsLazy(function, at[c], w) => w = Statement(c).of
      BY DEF IsLazy, Statement
    <3>3. \A w \in Value : c \notin makers[w]
      BY <3>1, <3>2 DEF LazyInv, LazyMadeOnce, Holders
    <3>4. In(c)' /\ Op(function, at[c] + 1) \in {"make", "unlock"} => mutex = c
      BY <1>0, <3>1, NextStatement DEF LazyInv, Holders, IsLazy
    <3>. QED  BY <1>0, <3>1, <3>2, <3>3, <3>4, LazyPassed
  <2>6. CASE Lock(c)
    <3>1. /\ In(c) /\ Op(function, at[c]) = "lock" /\ mutex = None /\ mutex' = c
          /\ at' = [at EXCEPT ![c] = @ + 1] /\ UNCHANGED <<function, phase, makers, made, times>>
      BY <2>6 DEF Lock, Runs, In, Length, Op, Statement, Step
    <3>2. \A w \in Value : c \notin makers[w] /\ ~IsLazy(function, at[c], w)
      BY <3>1 DEF LazyInv, Holders, IsLazy
    <3>3. \A d \in Call : mutex # d
      BY <3>1
    <3>. QED  BY <1>0, <3>1, <3>2, <3>3, LazyPassed
  <2>7. CASE Unlock(c)
    <3>1. /\ In(c) /\ Op(function, at[c]) = "unlock" /\ mutex' = None
          /\ at' = [at EXCEPT ![c] = @ + 1] /\ UNCHANGED <<function, phase, makers, made, times>>
      BY <2>7 DEF Unlock, Runs, In, Length, Op, Statement, Step
    <3>2. \A w \in Value : c \notin makers[w] /\ ~IsLazy(function, at[c], w)
      BY <3>1 DEF LazyInv, Holders, IsLazy
    <3>3. mutex = c
      BY <3>1 DEF LazyInv, Holders
    <3>4. ~(In(c)' /\ Op(function, at[c] + 1) \in {"make", "unlock"})
      BY <1>0, <3>1, NextStatement
    <3>. QED  BY <1>0, <3>1, <3>2, <3>3, <3>4, LazyPassed
  <2>. QED  BY <1>2, <2>1, <2>2, <2>3, <2>4, <2>5, <2>6, <2>7 DEF Lazily
<1>3. ASSUME NEW c \in Call, Work(c) PROVE LazyInv'
  <2>1. CASE Environment(c)
    <3>1. In(c) /\ Op(function, at[c]) = "env" /\ UNCHANGED <<function, lazyVars>>
      BY <2>1 DEF Environment, Runs, In, Length, Op, Statement
    <3>2. CASE env
      BY <1>0, <2>1, <3>1, <3>2, LazyPlain DEF Environment
    <3>3. CASE ~env
      <4>1. phase' = [phase EXCEPT ![c] = "answered"] /\ UNCHANGED at
        BY <2>1, <3>3 DEF Environment, Raise
      <4>. QED  BY <1>0, <3>1, <4>1, LazyLeft DEF TypeOK, In
    <3>. QED  BY <3>2, <3>3
  <2>2. CASE GoOn(c)
    BY <1>0, <2>2, LazyPlain DEF GoOn, Runs, In, Length, Op, Statement
  <2>3. CASE MayThrow(c)
    <3>1. /\ In(c) /\ Op(function, at[c]) = "may" /\ UNCHANGED <<function, at, lazyVars>>
          /\ phase' = [phase EXCEPT ![c] = "answered"]
      BY <2>3 DEF MayThrow, Raise, Runs, In, Length, Op, Statement
    <3>. QED  BY <1>0, <3>1, LazyLeft DEF TypeOK, In
  <2>4. CASE Count(c)
    BY <1>0, <2>4, LazyPlain DEF Count, Runs, In, Length, Op, Statement
  <2>5. CASE StartTask(c)
    BY <1>0, <2>5, LazyLeft DEF StartTask
  <2>6. CASE RunTask(c)
    BY <1>0, <2>6, LazyLeft DEF RunTask
  <2>7. CASE JoinTask(c)
    BY <1>0, <2>7, LazyPlain DEF JoinTask, Runs, In, Length, Op, Statement
  <2>. QED  BY <1>3, <2>1, <2>2, <2>3, <2>4, <2>5, <2>6, <2>7 DEF Work
<1>4. ASSUME NEW c \in Call, Answer(c) PROVE LazyInv'
  <2>1. CASE Reply(c)
    <3>1. /\ In(c) /\ Op(function, at[c]) \in {"reply", "may"} /\ UNCHANGED <<function, at, lazyVars>>
          /\ phase' = [phase EXCEPT ![c] = "unwrap"]
      BY <2>1 DEF Reply, Runs, In, Length, Op, Statement
    <3>. QED  BY <1>0, <3>1, LazyLeft DEF TypeOK, In
  <2>2. CASE Unwrap(c)
    <3>1. /\ phase[c] = "unwrap" /\ UNCHANGED <<function, at, lazyVars>>
          /\ phase' = [phase EXCEPT ![c] = "answered"]
      BY <2>2 DEF Unwrap
    <3>. QED  BY <1>0, <3>1, LazyLeft DEF TypeOK, In
  <2>. QED  BY <1>4, <2>1, <2>2 DEF Answer
<1>5. CASE UNCHANGED vars
  BY <1>0, <1>5, LazyLeft DEF vars
<1>. QED
  BY <1>1, <1>2, <1>3, <1>4, <1>5 DEF Next, Idle

\* The types are kept by every step of every behaviour.
THEOREM TypeCorrect == Spec => []TypeOK
<1>1. Init => TypeOK
  BY Initially DEF LazyInv
<1>. QED
  BY <1>1, TypeStep, PTL DEF Spec

\* A value made lazily is made once, by one call at a time, also when making it throws,
\* and no call is past it while it is not there: for every function whose statements are as
\* ProgramAssumption says and any number of calls.
THEOREM ValuesMadeOnce == Spec => []LazyMadeOnce
<1>1. Init => LazyInv
  BY Initially
<1>2. LazyInv => LazyMadeOnce
  BY DEF LazyInv
<1>. QED
  BY <1>1, <1>2, LazyStep, PTL DEF Spec

-----------------------------------------------------------------------------
Awaited(d) == task[d] = "running" => In(d) /\ Op(function, at[d]) = "async"

\* A call at a statement that starts no task has none running, wherever it goes.
LEMMA TasksAwaited ==
  ASSUME AnswerInv, NEW c \in Call, UNCHANGED <<function, task>>,
         \A d \in Call \ {c} : phase'[d] = phase[d] /\ at'[d] = at[d],
         ~In(c) \/ Op(function, at[c]) # "async"
  PROVE  \A d \in Call : Awaited(d)'
<1>1. ASSUME NEW d \in Call \ {c} PROVE Awaited(d)'
  BY DEF AnswerInv, Counted, Awaited, In, Op, Length
<1>2. Awaited(c)'
  BY DEF AnswerInv, Counted, Awaited
<1>. QED
  BY <1>1, <1>2

\* A step that touches no response and ends calls with the error only.
LEMMA AnswersLeft ==
  ASSUME AnswerInv, TypeOK', UNCHANGED <<function, count, number, impl>>,
         \A d \in Call : Awaited(d)',
         \A d \in Call : phase'[d] = "answered" =>
           (phase[d] = "answered" /\ sent'[d] = sent[d]) \/ sent'[d] = ErrorResponse,
         \A d \in Call : phase'[d] = "unwrap" => phase[d] = "unwrap"
  PROVE  AnswerInv'
<1>1. Counted'
  BY DEF AnswerInv, Counted, Awaited
<1>2. Own'
  BY DEF AnswerInv, Own, TextOf
<1>. QED
  BY <1>1, <1>2 DEF AnswerInv

\* Of those, the ones that leave the answers alone too, and the ones that throw.
LEMMA Quiet ==
  ASSUME AnswerInv, TypeOK', UNCHANGED <<function, count, number, replyVars>>,
         \A d \in Call : Awaited(d)',
         \A d \in Call : phase'[d] \in {"unwrap", "answered"} => phase'[d] = phase[d]
  PROVE  AnswerInv'
BY AnswersLeft DEF replyVars

LEMMA Raised ==
  ASSUME AnswerInv, TypeOK', NEW c \in Call, Raise(c), UNCHANGED <<function, at, workVars>>,
         ~In(c) \/ Op(function, at[c]) # "async"
  PROVE  AnswerInv'
<1>1. /\ phase' = [phase EXCEPT ![c] = "answered"] /\ sent' = [sent EXCEPT ![c] = ErrorResponse]
      /\ UNCHANGED <<function, at, impl, count, number, task>>
  BY DEF Raise, workVars
<1>2. phase \in [Call -> {"waiting", "function", "unwrap", "answered"}] /\ DOMAIN sent = Call
  BY DEF AnswerInv, TypeOK
<1>3. \A d \in Call \ {c} : phase'[d] = phase[d] /\ sent'[d] = sent[d]
  BY <1>1, <1>2
<1>4. phase'[c] = "answered"
  BY <1>1, <1>2
<1>5. sent'[c] = ErrorResponse
  BY <1>1, <1>2
<1>6. \A d \in Call : Awaited(d)'
  BY <1>1, <1>3, TasksAwaited
<1>7. \A d \in Call : phase'[d] = "answered" =>
        (phase[d] = "answered" /\ sent'[d] = sent[d]) \/ sent'[d] = ErrorResponse
  BY <1>3, <1>5
<1>8. \A d \in Call : phase'[d] = "unwrap" => phase[d] = "unwrap"
  BY <1>3, <1>4
<1>. QED
  BY <1>1, <1>6, <1>7, <1>8, AnswersLeft

\* A step to the next statement.
LEMMA Passed ==
  ASSUME AnswerInv, TypeOK', NEW c \in Call, at' = [at EXCEPT ![c] = @ + 1],
         UNCHANGED <<function, phase, workVars, replyVars>>,
         ~In(c) \/ Op(function, at[c]) # "async"
  PROVE  AnswerInv'
<1>1. \A d \in Call \ {c} : at'[d] = at[d]
  BY DEF AnswerInv, TypeOK
<1>2. \A d \in Call : Awaited(d)'
  BY <1>1, TasksAwaited DEF workVars
<1>. QED
  BY <1>2, Quiet DEF workVars

\* What a call at a statement is.
LEMMA AtStatement ==
  ASSUME NEW c \in Call, NEW op, Runs(c, op)
  PROVE  In(c) /\ Op(function, at[c]) = op
BY DEF Runs, In, Length, Op, Statement

\* Every step keeps the calls apart.
LEMMA AnswerStep == AnswerInv /\ [Next]_vars => AnswerInv'
<1> SUFFICES ASSUME AnswerInv, [Next]_vars PROVE AnswerInv'
  OBVIOUS
<1>0. TypeOK /\ TypeOK'
  BY TypeStep DEF AnswerInv
<1>1. ASSUME NEW c \in Call, Enter(c) PROVE AnswerInv'
  <2>1. \A d \in Call : phase'[d] \in {"unwrap", "answered"} => phase'[d] = phase[d]
    BY <1>0, <1>1 DEF TypeOK, Enter
  <2>2. \A d \in Call \ {c} : phase'[d] = phase[d]
    BY <1>0, <1>1 DEF TypeOK, Enter
  <2>3. \A d \in Call : Awaited(d)'
    BY <1>1, <2>2, TasksAwaited DEF Enter, In, workVars
  <2>. QED  BY <1>0, <1>1, <2>1, <2>3, Quiet DEF Enter, workVars
<1>2. ASSUME NEW c \in Call, Lazily(c) PROVE AnswerInv'
  <2>1. CASE BeginStatic(c)
    <3>1. \A d \in Call : Awaited(d)'
      BY <2>1, AtStatement, TasksAwaited DEF BeginStatic, workVars
    <3>. QED  BY <1>0, <2>1, <3>1, Quiet DEF BeginStatic, workVars
  <2>2. CASE BeginMake(c)
    <3>1. \A d \in Call : Awaited(d)'
      BY <2>2, AtStatement, TasksAwaited DEF BeginMake, workVars
    <3>. QED  BY <1>0, <2>2, <3>1, Quiet DEF BeginMake, workVars
  <2>3. CASE Made(c)
    <3>1. /\ Op(function, at[c]) \in {"static", "make"} /\ at' = [at EXCEPT ![c] = @ + 1]
          /\ UNCHANGED <<function, phase, workVars, replyVars>>
      BY <2>3, AtStatement DEF Made, Making, Step
    <3>. QED  BY <1>0, <3>1, Passed
  <2>4. CASE MakeThrows(c)
    BY <1>0, <2>4, AtStatement, Raised DEF MakeThrows, Making
  <2>5. CASE IsMade(c)
    <3>1. /\ Op(function, at[c]) \in {"static", "make"} /\ at' = [at EXCEPT ![c] = @ + 1]
          /\ UNCHANGED <<function, phase, workVars, replyVars>>
      BY <2>5, AtStatement DEF IsMade, Step
    <3>. QED  BY <1>0, <3>1, Passed
  <2>6. CASE Lock(c)
    <3>1. /\ Op(function, at[c]) = "lock" /\ at' = [at EXCEPT ![c] = @ + 1]
          /\ UNCHANGED <<function, phase, workVars, replyVars>>
      BY <2>6, AtStatement DEF Lock, Step
    <3>. QED  BY <1>0, <3>1, Passed
  <2>7. CASE Unlock(c)
    <3>1. /\ Op(function, at[c]) = "unlock" /\ at' = [at EXCEPT ![c] = @ + 1]
          /\ UNCHANGED <<function, phase, workVars, replyVars>>
      BY <2>7, AtStatement DEF Unlock, Step
    <3>. QED  BY <1>0, <3>1, Passed
  <2>. QED  BY <1>2, <2>1, <2>2, <2>3, <2>4, <2>5, <2>6, <2>7 DEF Lazily
<1>3. ASSUME NEW c \in Call, Work(c) PROVE AnswerInv'
  <2>1. CASE Environment(c)
    <3>1. CASE env
      BY <1>0, <2>1, <3>1, AtStatement, Passed DEF Environment, Step
    <3>2. CASE ~env
      BY <1>0, <2>1, <3>2, AtStatement, Raised DEF Environment
    <3>. QED  BY <3>1, <3>2
  <2>2. CASE GoOn(c)
    <3>1. /\ Op(function, at[c]) = "may" /\ at' = [at EXCEPT ![c] = @ + 1]
          /\ UNCHANGED <<function, phase, workVars, replyVars>>
      BY <2>2, AtStatement DEF GoOn, Step
    <3>. QED  BY <1>0, <3>1, Passed
  <2>3. CASE MayThrow(c)
    BY <1>0, <2>3, AtStatement, Raised DEF MayThrow
  <2>4. CASE Count(c)
    <3>1. /\ In(c) /\ Op(function, at[c]) = "count" /\ UNCHANGED <<function, phase, task, replyVars>>
          /\ at' = [at EXCEPT ![c] = @ + 1] /\ count' = count + 1
          /\ number' = [number EXCEPT ![c] = count + 1]
      BY <2>4, AtStatement DEF Count, Step
    <3>2. /\ count \in Nat /\ number \in [Call -> Nat]
          /\ number'[c] = count + 1 /\ \A d \in Call \ {c} : number'[d] = number[d] /\ at'[d] = at[d]
      BY <1>0, <3>1 DEF TypeOK
    <3>3. \A d \in Call : Awaited(d)'
      BY <3>1, <3>2, TasksAwaited
    <3>4. Counted'
      <4>1. \A d \in Call : number[d] \in Nat /\ number[d] <= count
        BY <3>2 DEF AnswerInv, Counted
      <4>. QED  BY <3>1, <3>2, <3>3, <4>1 DEF AnswerInv, Counted, Awaited
    <3>5. Own'
      BY <3>1, <3>2 DEF AnswerInv, Own, TextOf, In, replyVars
    <3>. QED  BY <1>0, <3>4, <3>5 DEF AnswerInv
  <2>5. CASE StartTask(c)
    <3>1. /\ In(c) /\ Op(function, at[c]) = "async" /\ task' = [task EXCEPT ![c] = "running"]
          /\ UNCHANGED <<function, phase, at, count, number, replyVars>>
      BY <2>5, AtStatement DEF StartTask
    <3>2. \A d \in Call \ {c} : task'[d] = task[d]
      BY <1>0, <3>1 DEF TypeOK
    <3>3. \A d \in Call : Awaited(d)'
      BY <3>1, <3>2 DEF AnswerInv, Counted, Awaited, In, Op, Length
    <3>. QED  BY <1>0, <3>1, <3>3, Quiet
  <2>6. CASE RunTask(c)
    <3>1. /\ task' = [task EXCEPT ![c] = "done"]
          /\ UNCHANGED <<function, phase, at, count, number, replyVars>>
      BY <2>6 DEF RunTask
    <3>2. \A d \in Call : task'[d] = "running" => task[d] = "running"
      BY <1>0, <3>1 DEF TypeOK
    <3>3. \A d \in Call : Awaited(d)'
      BY <3>1, <3>2 DEF AnswerInv, Counted, Awaited, In, Op, Length
    <3>. QED  BY <1>0, <3>1, <3>3, Quiet
  <2>7. CASE JoinTask(c)
    <3>1. /\ task[c] = "done" /\ at' = [at EXCEPT ![c] = @ + 1]
          /\ UNCHANGED <<function, phase, task, count, number, replyVars>>
      BY <2>7 DEF JoinTask, Step, workVars
    <3>2. \A d \in Call \ {c} : at'[d] = at[d]
      BY <1>0, <3>1 DEF TypeOK
    <3>3. \A d \in Call : Awaited(d)'
      BY <3>1, <3>2 DEF AnswerInv, Counted, Awaited, In, Op, Length
    <3>. QED  BY <1>0, <3>1, <3>3, Quiet
  <2>. QED  BY <1>3, <2>1, <2>2, <2>3, <2>4, <2>5, <2>6, <2>7 DEF Work
<1>4. ASSUME NEW c \in Call, Answer(c) PROVE AnswerInv'
  <2>1. CASE Reply(c)
    <3>1. PICK code \in Statement(c).ends \ {Thrown} :
            impl' = [impl EXCEPT ![c] = set_payload(set_result(MakeHttpResponse, code), TextOf(c))]
      BY <2>1 DEF Reply
    <3>2. /\ Op(function, at[c]) \in {"reply", "may"}
          /\ phase' = [phase EXCEPT ![c] = "unwrap"]
          /\ UNCHANGED <<function, at, count, number, task, sent>>
      BY <2>1, AtStatement DEF Reply, workVars
    <3>3. /\ phase'[c] = "unwrap" /\ \A d \in Call \ {c} : phase'[d] = phase[d]
      BY <1>0, <3>2 DEF TypeOK
    <3>4. impl'[c].payload = TextOf(c) /\ \A d \in Call \ {c} : impl'[d] = impl[d]
      BY <1>0, <3>1 DEF TypeOK, set_payload, set_result, MakeHttpResponse
    <3>5. \A d \in Call : Awaited(d)'
      BY <3>2, <3>3, TasksAwaited
    <3>6. Counted'
      BY <3>2, <3>5 DEF AnswerInv, Counted, Awaited
    <3>7. Own'
      BY <3>2, <3>3, <3>4 DEF AnswerInv, Own, TextOf
    <3>. QED  BY <1>0, <3>6, <3>7 DEF AnswerInv
  <2>2. CASE Unwrap(c)
    <3>1. /\ phase[c] = "unwrap" /\ phase' = [phase EXCEPT ![c] = "answered"]
          /\ UNCHANGED <<function, at, count, number, task>>
          /\ sent' = [sent EXCEPT ![c] = impl[c]]
          /\ impl' = [impl EXCEPT ![c] = MovedFrom(@)]
      BY <2>2 DEF Unwrap, workVars
    <3>2. /\ phase'[c] = "answered" /\ sent'[c] = impl[c]
          /\ \A d \in Call \ {c} :
               phase'[d] = phase[d] /\ sent'[d] = sent[d] /\ impl'[d] = impl[d]
      BY <1>0, <3>1 DEF TypeOK
    <3>3. \A d \in Call : Awaited(d)'
      BY <3>1, <3>2, TasksAwaited DEF In
    <3>4. Counted'
      BY <3>1, <3>3 DEF AnswerInv, Counted, Awaited
    <3>5. sent'[c].payload = TextOf(c)' /\ \A d \in Call : TextOf(d)' = TextOf(d)
      BY <3>1, <3>2 DEF AnswerInv, Own, TextOf
    <3>6. Own'
      BY <3>2, <3>5 DEF AnswerInv, Own
    <3>. QED  BY <1>0, <3>4, <3>6 DEF AnswerInv
  <2>. QED  BY <1>4, <2>1, <2>2 DEF Answer
<1>5. CASE UNCHANGED vars
  <2>1. \A d \in Call : Awaited(d)'
    BY <1>5 DEF vars, workVars, AnswerInv, Counted, Awaited, In, Op, Length
  <2>. QED  BY <1>0, <1>5, <2>1, Quiet DEF vars, workVars
<1>. QED
  BY <1>1, <1>2, <1>3, <1>4, <1>5 DEF Next, Idle

\* For any number of calls, what each client gets is of its own call, numbers are unique
\* and tasks are over.
THEOREM CallsAreIsolated == Spec => []CallsIsolated
<1>1. Init => AnswerInv
  BY Initially
<1>2. AnswerInv => CallsIsolated
  BY DEF AnswerInv, Counted, Own, CallsIsolated, In
<1>. QED
  BY <1>1, <1>2, AnswerStep, PTL DEF Spec
==============================================================================

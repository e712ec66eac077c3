---------------------------- MODULE UserFunctions ----------------------------
(***************************************************************************)
(* The user's function, called by many sessions at once, and the response  *)
(* it gives back to CallUserFunction.                                      *)
(*                                                                         *)
(* A function is a sequence of statements, of which a model has those that *)
(* other calls can see or that can fail (module Examples has the functions *)
(* of the repository):                                                     *)
(*   static v   a local static, or std::call_once: the first call makes v, *)
(*              calls that come meanwhile wait, an exception leaves it     *)
(*              unmade for the next one                                    *)
(*   lock, make v, unlock                                                  *)
(*              if (!v) v = Make(), under a std::lock_guard                *)
(*   env        throws, unless the environment has the function's variables*)
(*   may        goes on, or ends the call in one of the ways it has        *)
(*   count      ++ on an atomic                                            *)
(*   async      the temporary std::future of a task: its destructor waits  *)
(*   reply      returns an HttpResponse made by this call                  *)
(***************************************************************************)
EXTENDS Messages

CONSTANTS Call,     \* the calls, each in its session thread
          Value,    \* what the functions make lazily
          Program,  \* function -> its statements
          None

Thrown == 0   \* ends the call like a status does

Op(f, i) == Program[f][i].op
IsLazy(f, i, v) == Op(f, i) \in {"static", "make"} /\ Program[f][i].of = v

\* A value that is made under the lock is made nowhere else.
ASSUME ProgramAssumption ==
  /\ None \notin Call
  /\ \A f \in DOMAIN Program :
       /\ Program[f] \in Seq([op : STRING, of : Value, throws : STRING, ends : SUBSET (KnownResults \cup {Thrown})])
       /\ \A i \in 1..Len(Program[f]) :
            /\ Op(f, i) = "lock" => i < Len(Program[f]) /\ Op(f, i + 1) = "make"
            /\ Op(f, i) = "make" => i > 1 /\ Op(f, i - 1) = "lock"
                                    /\ i < Len(Program[f]) /\ Op(f, i + 1) = "unlock"
            /\ Op(f, i) = "unlock" => i > 1 /\ Op(f, i - 1) = "make"
            /\ \A j \in 1..Len(Program[f]) :
                 Op(f, i) = "static" /\ Op(f, j) = "make" => Program[f][i].of # Program[f][j].of

VARIABLES
  function,  \* the function of this process
  env,       \* whether its environment variables are set
  phase,     \* where each call is: "waiting", "function", "unwrap", "answered"
  at,        \* the statement each call is at
  makers,    \* the calls that are making each value
  made,      \* whether each value is there
  times,     \* history: how often each was made
  mutex,     \* the call that holds the lock
  count,     \* the atomic counter
  number,    \* what ++count gave each call
  task,      \* the task each call started: "none", "running", "done"
  impl,      \* the Impl behind the HttpResponse of each call
  sent       \* what each call's session writes

lazyVars == <<makers, made, times, mutex>>
workVars == <<count, number, task>>
replyVars == <<impl, sent>>
vars == <<function, env, phase, at, lazyVars, workVars, replyVars>>

ErrorResponse == set_payload(set_result(MakeHttpResponse, 500), <<"error">>)

\* No answer yet.
Nothing == set_payload(MakeHttpResponse, <<"nothing">>)

Init ==
  /\ function \in DOMAIN Program
  /\ env \in BOOLEAN
  /\ phase = [c \in Call |-> "waiting"]
  /\ at = [c \in Call |-> 1]
  /\ makers = [v \in Value |-> {}]
  /\ made = [v \in Value |-> FALSE]
  /\ times = [v \in Value |-> 0]
  /\ mutex = None
  /\ count = 0
  /\ number = [c \in Call |-> 0]
  /\ task = [c \in Call |-> "none"]
  /\ impl = [c \in Call |-> MakeHttpResponse]
  /\ sent = [c \in Call |-> Nothing]

-----------------------------------------------------------------------------
Statement(c) == Program[function][at[c]]
Runs(c, op) == phase[c] = "function" /\ at[c] \in 1..Len(Program[function]) /\ Statement(c).op = op

Step(c) == at' = [at EXCEPT ![c] = @ + 1]

Enter(c) ==
  /\ phase[c] = "waiting"
  /\ phase' = [phase EXCEPT ![c] = "function"]
  /\ UNCHANGED <<function, env, at, lazyVars, workVars, replyVars>>

\* The exception reaches the catch clause of CallUserFunction; its response is made
\* there, and no Impl is behind it.
Raise(c) ==
  /\ phase' = [phase EXCEPT ![c] = "answered"]
  /\ sent' = [sent EXCEPT ![c] = ErrorResponse]
  /\ UNCHANGED impl

-----------------------------------------------------------------------------
(* Values made by the first call that needs them.                          *)

\* A static that is being made makes the others wait.
BeginStatic(c) ==
  /\ Runs(c, "static")
  /\ ~made[Statement(c).of] /\ makers[Statement(c).of] = {}
  /\ makers' = [makers EXCEPT ![Statement(c).of] = {c}]
  /\ UNCHANGED <<function, env, phase, at, made, times, mutex, workVars, replyVars>>

\* if (!connection), under the lock.
BeginMake(c) ==
  /\ Runs(c, "make")
  /\ ~made[Statement(c).of] /\ c \notin makers[Statement(c).of]
  /\ makers' = [makers EXCEPT ![Statement(c).of] = @ \cup {c}]
  /\ UNCHANGED <<function, env, phase, at, made, times, mutex, workVars, replyVars>>

Making(c) == (Runs(c, "static") \/ Runs(c, "make")) /\ c \in makers[Statement(c).of]

CanThrow(c) == Statement(c).throws = "maybe" \/ (Statement(c).throws = "unset" /\ ~env)

Made(c) ==
  /\ Making(c)
  /\ Statement(c).throws = "unset" => env
  /\ makers' = [makers EXCEPT ![Statement(c).of] = @ \ {c}]
  /\ made' = [made EXCEPT ![Statement(c).of] = TRUE]
  /\ times' = [times EXCEPT ![Statement(c).of] = @ + 1]
  /\ Step(c)
  /\ UNCHANGED <<function, env, phase, mutex, workVars, replyVars>>

\* Mutant: the guard of the static is not given back.
MakeThrowsStuck(c) ==
  /\ Making(c)
  /\ CanThrow(c)
  /\ Raise(c)
  /\ UNCHANGED <<function, env, at, lazyVars, workVars>>

\* The static stays unmade, the lock is released.
MakeThrows(c) ==
  /\ Making(c)
  /\ CanThrow(c)
  /\ makers' = [makers EXCEPT ![Statement(c).of] = @ \ {c}]
  /\ mutex' = IF mutex = c THEN None ELSE mutex
  /\ Raise(c)
  /\ UNCHANGED <<function, env, at, made, times, workVars>>

IsMade(c) ==
  /\ Runs(c, "static") \/ Runs(c, "make")
  /\ made[Statement(c).of]
  /\ Step(c)
  /\ UNCHANGED <<function, env, phase, lazyVars, workVars, replyVars>>

\* Mutant: the lock_guard is a temporary, and gone before the next statement.
LockTemporary(c) ==
  /\ Runs(c, "lock")
  /\ mutex = None
  /\ Step(c)
  /\ UNCHANGED <<function, env, phase, lazyVars, workVars, replyVars>>

Lock(c) ==
  /\ Runs(c, "lock")
  /\ mutex = None
  /\ mutex' = c
  /\ Step(c)
  /\ UNCHANGED <<function, env, phase, makers, made, times, workVars, replyVars>>

Unlock(c) ==
  /\ Runs(c, "unlock")
  /\ mutex' = None
  /\ Step(c)
  /\ UNCHANGED <<function, env, phase, makers, made, times, workVars, replyVars>>

-----------------------------------------------------------------------------
(* What may fail, what is counted, what runs beside.                       *)

Environment(c) ==
  /\ Runs(c, "env")
  /\ IF env THEN Step(c) /\ UNCHANGED <<phase, replyVars>> ELSE Raise(c) /\ UNCHANGED at
  /\ UNCHANGED <<function, env, lazyVars, workVars>>

GoOn(c) ==
  /\ Runs(c, "may")
  /\ Step(c)
  /\ UNCHANGED <<function, env, phase, lazyVars, workVars, replyVars>>

MayThrow(c) ==
  /\ Runs(c, "may")
  /\ Thrown \in Statement(c).ends
  /\ Raise(c)
  /\ UNCHANGED <<function, env, at, lazyVars, workVars>>

Count(c) ==
  /\ Runs(c, "count")
  /\ count' = count + 1
  /\ number' = [number EXCEPT ![c] = count + 1]
  /\ Step(c)
  /\ UNCHANGED <<function, env, phase, lazyVars, task, replyVars>>

StartTask(c) ==
  /\ Runs(c, "async") /\ task[c] = "none"
  /\ task' = [task EXCEPT ![c] = "running"]
  /\ UNCHANGED <<function, env, phase, at, lazyVars, count, number, replyVars>>

RunTask(c) ==
  /\ task[c] = "running"
  /\ task' = [task EXCEPT ![c] = "done"]
  /\ UNCHANGED <<function, env, phase, at, lazyVars, count, number, replyVars>>

\* Mutant: nothing waits for the task.
DetachTask(c) ==
  /\ Runs(c, "async") /\ task[c] # "none"
  /\ Step(c)
  /\ UNCHANGED <<function, env, phase, lazyVars, workVars, replyVars>>

JoinTask(c) ==
  /\ Runs(c, "async") /\ task[c] = "done"
  /\ Step(c)
  /\ UNCHANGED <<function, env, phase, lazyVars, workVars, replyVars>>

-----------------------------------------------------------------------------
(* The response.                                                           *)

\* What the call has to say: something of its own, and the number it took, if any.
TextOf(c) == <<c, number[c]>>

\* HttpResponse::HttpResponse() makes an Impl of its own.
Reply(c) ==
  /\ Runs(c, "reply") \/ Runs(c, "may")
  /\ \E code \in Statement(c).ends \ {Thrown} :
       impl' = [impl EXCEPT ![c] = set_payload(set_result(MakeHttpResponse, code), TextOf(c))]
  /\ phase' = [phase EXCEPT ![c] = "unwrap"]
  /\ UNCHANGED <<function, env, at, lazyVars, workVars, sent>>

\* std::move(wrap).response_
Unwrap(c) ==
  /\ phase[c] = "unwrap"
  /\ sent' = [sent EXCEPT ![c] = impl[c]]
  /\ impl' = [impl EXCEPT ![c] = MovedFrom(@)]
  /\ phase' = [phase EXCEPT ![c] = "answered"]
  /\ UNCHANGED <<function, env, at, lazyVars, workVars>>

-----------------------------------------------------------------------------
Lazily(c) ==
  \/ BeginStatic(c) \/ BeginMake(c) \/ Made(c) \/ MakeThrows(c) \/ IsMade(c)
  \/ Lock(c) \/ Unlock(c)

Work(c) ==
  \/ Environment(c) \/ GoOn(c) \/ MayThrow(c) \/ Count(c)
  \/ StartTask(c) \/ RunTask(c) \/ JoinTask(c)

Answer(c) == Reply(c) \/ Unwrap(c)

Idle == (\A c \in Call : phase[c] \in {"waiting", "answered"}) /\ UNCHANGED vars

Next == (\E c \in Call : Enter(c) \/ Lazily(c) \/ Work(c) \/ Answer(c)) \/ Idle

Spec == Init /\ [][Next]_vars

\* The threads run, and what a function waits for (a service, a clock) comes to an end.
FairSpec == Spec /\ \A c \in Call : WF_vars(Lazily(c) \/ Work(c) \/ Answer(c))

-----------------------------------------------------------------------------
(* Properties.                                                             *)

TypeOK ==
  /\ function \in DOMAIN Program
  /\ env \in BOOLEAN
  /\ phase \in [Call -> {"waiting", "function", "unwrap", "answered"}]
  /\ at \in [Call -> Nat \ {0}]
  /\ makers \in [Value -> SUBSET Call]
  /\ made \in [Value -> BOOLEAN]
  /\ times \in [Value -> Nat]
  /\ mutex \in Call \cup {None}
  /\ count \in Nat
  /\ number \in [Call -> Nat]
  /\ task \in [Call -> {"none", "running", "done"}]
  /\ DOMAIN impl = Call /\ DOMAIN sent = Call

\* A value made lazily is made once in the life of the process, by one call at a time,
\* however many calls come first together and however often making it failed; and no
\* call is past it while it is not there (bearer_token.cc:34, tutorial_cloud_bigtable.cc:33).
LazyMadeOnce ==
  \A v \in Value :
    /\ \A c, d \in makers[v] : c = d
    /\ made[v] => makers[v] = {}
    /\ times[v] = IF made[v] THEN 1 ELSE 0
    /\ \A c \in Call : phase[c] # "answered" =>
         \A i \in 1..(at[c] - 1) : IsLazy(function, i, v) => made[v]

\* Concurrent calls do not show in each other's answers: the client of a call gets what
\* that call set, whole, or the error of that call; no number is given out twice; and
\* the task of a call is over when it answers (call_user_function.cc:30,
\* concepts_stateless.cc:29, concepts_after_response.cc:23).
CallsIsolated ==
  \A c \in Call :
    phase[c] = "answered" =>
      /\ sent[c].payload \in {TextOf(c), ErrorResponse.payload}
      /\ \A d \in Call \ {c} : number[c] > 0 => number[c] # number[d]
      /\ task[c] # "running"

\* A call is always answered in the end, also those that waited for a value whose maker
\* threw, or for the lock.
EveryCallAnswered == \A c \in Call : phase[c] = "function" ~> phase[c] = "answered"
==============================================================================

----------------------------- MODULE AcceptLoop ------------------------------
(***************************************************************************)
(* The thread that accepts connections: RunForTestImpl from the first      *)
(* evaluation of shutdown() to its return, and the catch clauses of        *)
(* RunImpl around it.  One session thread per connection is started with   *)
(* std::async; its future is kept in the vector `sessions` until a cleanup *)
(* pass finds it ready, or until the vector is destroyed.                  *)
(*                                                                         *)
(* A session is abstract here: it runs until it returns or throws (module  *)
(* HttpSession gives its steps, module Framework puts the two together).   *)
(* The listening socket's queue is the kernel's.                           *)
(***************************************************************************)
EXTENDS Naturals, Sequences, FiniteSets, Functions

CONSTANTS Conn,                      \* the connections clients may make
          kSessionCleanupThreshold,  \* 80 in the code
          kMaximumSessions,          \* 160 in the code
          None                       \* no socket

ASSUME LoopAssumption ==
  /\ kSessionCleanupThreshold \in Nat \ {0}
  /\ kMaximumSessions \in Nat \ {0}
  /\ kSessionCleanupThreshold <= kMaximumSessions
  /\ None \notin Conn

VARIABLES
  pc,        \* where the accepting thread is
  sessions,  \* the vector of futures, each named by its connection
  todo,      \* cleanup's parameter: the futures it has not examined yet
  running,   \* cleanup's local: the futures it found not ready
  wait,      \* cleanup's other parameter, in this iteration of the loop
  socket,    \* the accepted socket, until a session owns it
  backlog,   \* connections the kernel completed and nobody accepted
  status,    \* what became of each connection
  stop,      \* shutdown() returns TRUE from now on
  result,    \* how RunForTestImpl ends: the exit code RunImpl makes of it
  late       \* history: connections accepted since shutdown() is TRUE

sessionVars == <<sessions, todo, running>>
vars == <<pc, sessionVars, wait, socket, backlog, status, stop, result, late>>

Location == {"loop", "threshold", "maximum", "cleanup", "accept", "spawn", "join", "exited"}
Status == {"none", "queued", "accepted", "active", "done", "failed", "closed"}

\* A future is ready once its session returned or threw.
Ready(c) == status[c] \in {"done", "failed"}
Active == {c \in Conn : status[c] = "active"}

\* The sessions whose future the accepting thread still has, in whichever vector.
Held == Range(sessions) \cup Range(todo) \cup Range(running)

Init ==
  /\ pc = "loop"
  /\ sessions = <<>> /\ todo = <<>> /\ running = <<>>
  /\ wait = "none"
  /\ socket = None
  /\ backlog = <<>>
  /\ status = [c \in Conn |-> "none"]
  /\ stop = FALSE
  /\ result = "none"
  /\ late = 0

-----------------------------------------------------------------------------
(* The environment: clients, the test's shutdown predicate, the sessions.  *)

Connect(c) ==
  /\ pc # "exited"
  /\ status[c] = "none"
  /\ status' = [status EXCEPT ![c] = "queued"]
  /\ backlog' = Append(backlog, c)
  /\ UNCHANGED <<pc, sessionVars, wait, socket, stop, result, late>>

\* Never in RunImpl, whose predicate is constantly false.
RequestShutdown ==
  /\ ~stop
  /\ stop' = TRUE
  /\ UNCHANGED <<pc, sessionVars, wait, socket, backlog, status, result, late>>

SessionEnds(c, how) ==
  /\ status[c] = "active"
  /\ status' = [status EXCEPT ![c] = how]
  /\ UNCHANGED <<pc, sessionVars, wait, socket, backlog, stop, result, late>>

-----------------------------------------------------------------------------
(* while (!shutdown()) { ...                                               *)

\* Leaving the loop returns 0, leaving it by an exception makes RunImpl return 1;
\* either way the locals are destroyed first, which joins the sessions.
LeaveWith(r) ==
  /\ pc' = "join"
  /\ result' = r

\* Mutant: the predicate is called and its answer ignored.
ShutdownIgnored ==
  /\ pc = "loop"
  /\ stop
  /\ pc' = "threshold"
  /\ UNCHANGED <<sessionVars, wait, socket, backlog, status, stop, result, late>>

ShutdownSeen ==
  /\ pc = "loop"
  /\ stop
  /\ LeaveWith("zero")
  /\ UNCHANGED <<sessionVars, wait, socket, backlog, status, stop, late>>

\* Mutant: the iteration starts without asking the predicate.
ShutdownNotAsked ==
  /\ pc = "loop"
  /\ pc' = "threshold"
  /\ wait' = "none"
  /\ UNCHANGED <<sessionVars, socket, backlog, status, stop, result, late>>

ShutdownNotSeen ==
  /\ pc = "loop"
  /\ ~stop
  /\ pc' = "threshold"
  /\ wait' = "none"
  /\ UNCHANGED <<sessionVars, socket, backlog, status, stop, result, late>>

-----------------------------------------------------------------------------
(* sessions = cleanup(std::move(sessions), wait)                           *)

StartCleanup(w) ==
  /\ todo' = sessions
  /\ sessions' = <<>>
  /\ running' = <<>>
  /\ wait' = w
  /\ pc' = "cleanup"

CheckThreshold ==
  /\ pc = "threshold"
  /\ IF Len(sessions) >= kSessionCleanupThreshold
       THEN StartCleanup("0ms")
       ELSE pc' = "maximum" /\ UNCHANGED <<sessionVars, wait>>
  /\ UNCHANGED <<socket, backlog, status, stop, result, late>>

\* Mutant: > for >=.
CheckMaximumOffByOne ==
  /\ pc = "maximum"
  /\ IF Len(sessions) > kMaximumSessions
       THEN StartCleanup("1s")
       ELSE pc' = "accept" /\ UNCHANGED <<sessionVars, wait>>
  /\ UNCHANGED <<socket, backlog, status, stop, result, late>>

CheckMaximum ==
  /\ pc = "maximum"
  /\ IF Len(sessions) >= kMaximumSessions
       THEN StartCleanup("1s")
       ELSE pc' = "accept" /\ UNCHANGED <<sessionVars, wait>>
  /\ UNCHANGED <<socket, backlog, status, stop, result, late>>

Examining(c) == pc = "cleanup" /\ todo # <<>> /\ c = Head(todo)

\* Mutant: the push_back is forgotten, the thread goes on with no future.
KeepRunningForgotten(c) ==
  /\ Examining(c)
  /\ ~Ready(c)
  /\ todo' = Tail(todo)
  /\ UNCHANGED <<pc, sessions, running, wait, socket, backlog, status, stop, result, late>>

\* s.wait_for(wait) timed out: at once, or after a second in which c did not end.
KeepRunning(c) ==
  /\ Examining(c)
  /\ ~Ready(c)
  /\ running' = Append(running, c)
  /\ todo' = Tail(todo)
  /\ UNCHANGED <<pc, sessions, wait, socket, backlog, status, stop, result, late>>

\* Mutant: a ready future is pushed back like the others.
CollectKept(c) ==
  /\ Examining(c)
  /\ status[c] = "done"
  /\ running' = Append(running, c)
  /\ todo' = Tail(todo)
  /\ UNCHANGED <<pc, sessions, wait, socket, backlog, status, stop, result, late>>

\* s.get() on a session that returned.
Collect(c) ==
  /\ Examining(c)
  /\ status[c] = "done"
  /\ todo' = Tail(todo)
  /\ UNCHANGED <<pc, sessions, running, wait, socket, backlog, status, stop, result, late>>

\* Mutant: the ready future is dropped, s.get() never called.
CollectFailureDropped(c) ==
  /\ Examining(c)
  /\ status[c] = "failed"
  /\ todo' = Tail(todo)
  /\ UNCHANGED <<pc, sessions, running, wait, socket, backlog, status, stop, result, late>>

\* s.get() rethrows what the session threw, out of cleanup and of the loop.
CollectFailure(c) ==
  /\ Examining(c)
  /\ status[c] = "failed"
  /\ todo' = Tail(todo)
  /\ LeaveWith("one")
  /\ UNCHANGED <<sessions, running, wait, socket, backlog, status, stop, late>>

CleanupReturns ==
  /\ pc = "cleanup"
  /\ todo = <<>>
  /\ sessions' = running
  /\ running' = <<>>
  /\ pc' = "maximum"
  /\ UNCHANGED <<todo, wait, socket, backlog, status, stop, result, late>>

-----------------------------------------------------------------------------
(* auto socket = acceptor.accept(ioc); ... sessions.push_back(std::async(  *)

Accept ==
  /\ pc = "accept"
  /\ backlog # <<>>
  /\ socket' = Head(backlog)
  /\ backlog' = Tail(backlog)
  /\ status' = [status EXCEPT ![Head(backlog)] = "accepted"]
  /\ pc' = "spawn"
  /\ late' = IF stop THEN late + 1 ELSE late
  /\ UNCHANGED <<sessionVars, wait, stop, result>>

\* accept() throws on an error; a socket that is not open ends the loop.
AcceptFails(r) ==
  /\ pc = "accept"
  /\ LeaveWith(r)
  /\ UNCHANGED <<sessionVars, wait, socket, backlog, status, stop, late>>

Spawn ==
  /\ pc = "spawn"
  /\ sessions' = Append(sessions, socket)
  /\ status' = [status EXCEPT ![socket] = "active"]
  /\ socket' = None
  /\ pc' = "loop"
  /\ UNCHANGED <<todo, running, wait, backlog, stop, result, late>>

\* Mutant: the socket is not moved into the failed call.
SpawnFailsKeepsSocket ==
  /\ pc = "spawn"
  /\ LeaveWith("one")
  /\ UNCHANGED <<sessionVars, wait, socket, backlog, status, stop, late>>

\* std::async could not start a thread; the socket it was given is destroyed.
SpawnFails ==
  /\ pc = "spawn"
  /\ status' = [status EXCEPT ![socket] = "closed"]
  /\ socket' = None
  /\ LeaveWith("one")
  /\ UNCHANGED <<sessionVars, wait, backlog, stop, late>>

-----------------------------------------------------------------------------
(* The vectors are destroyed before the acceptor.  The destructor of a     *)
(* future from std::async waits for its session, and drops its exception.  *)

\* Mutant: detached threads, whose handles do not wait.
ReturnDetached ==
  /\ pc = "join"
  /\ sessions' = <<>> /\ todo' = <<>> /\ running' = <<>>
  /\ backlog' = <<>>
  /\ status' = [c \in Conn |-> IF status[c] = "queued" THEN "closed" ELSE status[c]]
  /\ pc' = "exited"
  /\ UNCHANGED <<wait, socket, stop, result, late>>

Return ==
  /\ pc = "join"
  /\ \A c \in Held : Ready(c)
  /\ sessions' = <<>> /\ todo' = <<>> /\ running' = <<>>
  /\ backlog' = <<>>
  /\ status' = [c \in Conn |-> IF status[c] = "queued" THEN "closed" ELSE status[c]]
  /\ pc' = "exited"
  /\ UNCHANGED <<wait, socket, stop, result, late>>

Exited == pc = "exited" /\ UNCHANGED vars

-----------------------------------------------------------------------------
Cleanup ==
  \/ \E c \in Conn : KeepRunning(c) \/ Collect(c) \/ CollectFailure(c)
  \/ CleanupReturns

\* The steps that concern the accepting thread alone, when no call of it fails ...
Proceed ==
  \/ ShutdownSeen \/ ShutdownNotSeen
  \/ CheckThreshold \/ CheckMaximum \/ Cleanup
  \/ Accept \/ Return

\* ... and when one does.
Fail == SpawnFails \/ \E r \in {"zero", "one"} : AcceptFails(r)

Advance == Proceed \/ Spawn
Main == Advance \/ Fail

Environment ==
  \/ \E c \in Conn : Connect(c)
  \/ RequestShutdown
  \/ \E c \in Conn, how \in {"done", "failed"} : SessionEnds(c, how)

Next == Main \/ Environment \/ Exited

Spec == Init /\ [][Next]_vars

\* The scheduler runs the accepting thread, and accept() returns when there is a
\* connection. Nothing is assumed of clients, of sessions or of the predicate.
FairSpec == Spec /\ WF_vars(Advance)

-----------------------------------------------------------------------------
(* Properties.                                                             *)

\* Types; and the accepting thread owns a socket exactly between accept() and
\* std::async, and has a result exactly when it left the loop.
TypeOK ==
  /\ pc \in Location
  /\ sessions \in Seq(Conn) /\ todo \in Seq(Conn) /\ running \in Seq(Conn)
  /\ wait \in {"none", "0ms", "1s"}
  /\ socket \in Conn \cup {None}
  /\ socket # None <=> pc = "spawn"
  /\ backlog \in Seq(Conn)
  /\ status \in [Conn -> Status]
  /\ stop \in BOOLEAN
  /\ result \in {"none", "zero", "one"}
  /\ result # "none" <=> pc \in {"join", "exited"}
  /\ late \in Nat

\* Never more than kMaximumSessions session threads at a time, although the loop
\* only counts futures and only between accepts (framework_impl.cc:110,117).
SessionBound == Cardinality(Active) <= kMaximumSessions

\* A session thread always has its future in one of cleanup's vectors or in
\* `sessions`, through every move between them: none is lost while it runs.
ActiveHeld == Active \subseteq Held

\* The exception of a session is never lost while the server goes on: its future
\* waits for a cleanup pass, whose get() ends the loop (framework_impl.cc:97).
FailureSurfaces ==
  \A c \in Conn : status[c] = "failed" => c \in Held \/ result # "none"

\* When RunForTestImpl has returned or thrown no session runs any more and no
\* connection is still waiting for one.
NothingLeftBehind ==
  pc = "exited" => \A c \in Conn : status[c] \notin {"queued", "accepted", "active"}

\* Once shutdown() is TRUE at most one more connection is accepted.
OneLateAccept == late <= 1

\* What the loop cannot promise by itself: every session ends.
SessionsEnd == \A c \in Conn : status[c] = "active" ~> status[c] # "active"

\* If sessions end, every connection gets a session or is closed by the server's
\* end: passes at the maximum find the sessions that ended (117-119).
EveryConnectionAnswered ==
  SessionsEnd =>
    \A c \in Conn : status[c] = "queued" ~> status[c] \notin {"queued", "accepted"}

\* If sessions end, a connection made after shutdown() became TRUE is enough to
\* make the server return ("Making a second request guarantees the change in
\* `shutdown` is seen", framework_impl_test.cc:124).
ShutdownCompletes ==
  SessionsEnd => (stop /\ backlog # <<>> ~> pc = "exited")

\* The loop implements the pool of sessions its clients see.
Pool == INSTANCE SessionPool WITH
  waiting <- {c \in Conn : status[c] \in {"queued", "accepted"}},
  active  <- Active,
  over    <- {c \in Conn : Ready(c)},
  refused <- {c \in Conn : status[c] = "closed"},
  stopped <- pc = "exited"

Implements == Pool!PoolSpec

\* What the comment at framework_impl.cc:108 says: "If we reach this number of
\* sessions we block until we are below the cleanup threshold."
BlocksUntilBelowThreshold ==
  [][wait = "1s" /\ pc = "maximum" /\ pc' = "accept"
       => Len(sessions) < kSessionCleanupThreshold]_vars
==============================================================================

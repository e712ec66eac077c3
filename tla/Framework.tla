------------------------------ MODULE Framework ------------------------------
(***************************************************************************)
(* The server: the accept loop and its session threads together.           *)
(*                                                                         *)
(* The loop starts a session where AcceptLoop only marks the connection    *)
(* active, and the future of a session becomes ready at the step by which  *)
(* HandleSession ends. So whether sessions end, which AcceptLoop leaves    *)
(* open, depends here on clients and on the user's function.               *)
(***************************************************************************)
EXTENDS Naturals, Sequences, FiniteSets

CONSTANTS Conn, kSessionCleanupThreshold, kMaximumSessions, None,
          MaxRequests, Pipelining

VARIABLES
  loopPc, sessions, todo, running, wait, socket, backlog, status, stop, result, late,
  sessionPc, client, sent, asked, taken, keep, calls, answers, buffered, logged, killed

loopVars == <<loopPc, sessions, todo, running, wait, socket, backlog, status, stop, result, late>>
httpVars == <<sessionPc, client, sent, asked, taken, keep, calls, answers, buffered, logged, killed>>
vars == <<loopVars, httpVars>>

Loop == INSTANCE AcceptLoop WITH pc <- loopPc
Http == INSTANCE HttpSession WITH pc <- sessionPc

ASSUME FrameworkAssumption == Loop!LoopAssumption /\ Http!SessionAssumption

Init == Loop!Init /\ Http!Init

-----------------------------------------------------------------------------
Connect(c) ==
  /\ ~killed
  /\ Loop!Connect(c)
  /\ UNCHANGED httpVars

\* A client acts on a connection it has and the server did not refuse.
ClientActs(c) ==
  /\ status[c] \notin {"none", "closed"}
  /\ Http!Client(c)
  /\ UNCHANGED loopVars

RequestShutdown ==
  /\ ~killed
  /\ Loop!RequestShutdown
  /\ UNCHANGED httpVars

Kill == Http!Kill /\ UNCHANGED loopVars

-----------------------------------------------------------------------------
\* std::async starts the thread whose future is pushed.
Spawn ==
  /\ Loop!Spawn
  /\ \E c \in Conn : c = socket /\ Http!Start(c)

Proceed == ~killed /\ Loop!Proceed /\ UNCHANGED httpVars

Fail == ~killed /\ Loop!Fail /\ UNCHANGED httpVars

\* Mutant: the exception of a session does not reach its future.
SettleAlwaysDone(c) ==
  IF sessionPc'[c] \in Http!Ended THEN Loop!SessionEnds(c, "done") ELSE UNCHANGED loopVars

\* The future is ready once handle_session returned or threw.
Settle(c) ==
  IF sessionPc'[c] \in Http!Ended
    THEN Loop!SessionEnds(c, IF sessionPc'[c] = "threw" THEN "failed" ELSE "done")
    ELSE UNCHANGED loopVars

Session(c) == Http!Session(c) /\ Settle(c)

\* The step of a session that its client has to make possible.
Write(c) == Http!Write(c) /\ UNCHANGED loopVars

Handler(c) == (Http!Handler(c) \/ Http!ReadRefuses(c)) /\ Settle(c)

Stopped ==
  /\ killed \/ loopPc = "exited"
  /\ UNCHANGED vars

-----------------------------------------------------------------------------
Next ==
  \/ \E c \in Conn : Connect(c) \/ ClientActs(c) \/ Session(c) \/ Write(c) \/ Handler(c)
  \/ RequestShutdown \/ Kill
  \/ Proceed \/ Spawn \/ Fail
  \/ Stopped

Spec == Init /\ [][Next]_vars

\* The scheduler runs the accepting thread and the session threads. Nothing is assumed of
\* clients, of the function, of the predicate, of the platform or of calls that may fail.
FairSpec == Spec /\ WF_vars(Proceed \/ Spawn) /\ \A c \in Conn : WF_vars(Session(c))

-----------------------------------------------------------------------------
(* Properties.                                                             *)

\* Types, and the two views of a connection agree: it is active while its session
\* runs, and its future holds a result or an exception as the session ended.
TypeOK ==
  /\ Loop!TypeOK
  /\ Http!TypeOK
  /\ \A c \in Conn :
       /\ sessionPc[c] = "idle" <=> status[c] \in {"none", "queued", "accepted", "closed"}
       /\ sessionPc[c] = "returned" <=> status[c] = "done"
       /\ sessionPc[c] = "threw" <=> status[c] = "failed"

\* The user's function never runs in more than kMaximumSessions threads at a time.
HandlersBounded == Cardinality({c \in Conn : sessionPc[c] = "handle"}) <= kMaximumSessions

\* Once the server returned every request the function was called for was answered,
\* unless its client had gone or its session threw: stopping cuts nothing short
\* (framework_impl.cc:126, with the destructor of `sessions`).
NoCallCutShort ==
  loopPc = "exited" =>
    \A c \in Conn :
      \/ Len(answers[c]) = Len(calls[c])
      \/ client[c] = "reset"
      \/ sessionPc[c] = "threw"

\* What a place in the pool waits for: the function ends, the client reads its responses,
\* and some time it closes or resets.
SessionCanEnd(c) ==
  /\ Http!HandlerEnds(c) /\ Http!ClientReads(c)
  /\ WF_vars(client[c] = "open" /\ ClientActs(c) /\ client'[c] # "open")

\* At the maximum a connection waits for a session to end, for its future to be found
\* and for its place to be free. If the clients of the sessions leave, a client in the
\* queue has its session in the end, or the server ended: no place is lost on the way from
\* the last read of a session to the vector of futures (framework_impl.cc:49,93,117).
ConnectionsServed ==
  (\A c \in Conn : SessionCanEnd(c)) =>
    \A c \in Conn : status[c] = "queued" ~> status[c] \notin {"queued", "accepted"} \/ killed
==============================================================================

--------------------------- MODULE FrameworkProofs ---------------------------
(***************************************************************************)
(* Theorems about module Framework: the composition is at once a loop with *)
(* abstract sessions and a set of sessions with no loop, so what is proved *)
(* of either alone holds of the two together; what remains to be proved is *)
(* that they agree on each connection.                                     *)
(***************************************************************************)
EXTENDS Framework, FiniteSetTheorems, TLAPS

LP == INSTANCE AcceptLoopProofs WITH pc <- loopPc
HP == INSTANCE HttpSessionProofs WITH pc <- sessionPc

\* What the loop says of a connection and where its session is.
Coupled ==
  \A c \in Conn :
    /\ sessionPc[c] = "idle" <=> status[c] \in {"none", "queued", "accepted", "closed"}
    /\ sessionPc[c] = "returned" <=> status[c] = "done"
    /\ sessionPc[c] = "threw" <=> status[c] = "failed"

\* A session that returned had answered its last call, or lost its client.
Finished ==
  \A c \in Conn :
    sessionPc[c] = "returned" => Len(calls[c]) = Len(answers[c]) \/ client[c] = "reset"

-----------------------------------------------------------------------------
(* The two projections.                                                    *)

\* Each step of the composition is a step of the loop, or leaves it alone.
LEMMA LoopStep == [Next]_vars => [Loop!Next]_(Loop!vars)
<1> SUFFICES ASSUME [Next]_vars PROVE [Loop!Next]_(Loop!vars)
  OBVIOUS
<1> USE DEF loopVars, Loop!vars, Loop!sessionVars
<1>1. CASE UNCHANGED loopVars
  BY <1>1
<1>2. ASSUME NEW c \in Conn, Connect(c) PROVE Loop!Next
  BY <1>2 DEF Connect, Loop!Next, Loop!Environment
<1>3. ASSUME NEW c \in Conn, Settle(c) PROVE Loop!Next \/ UNCHANGED loopVars
  BY <1>3 DEF Settle, Loop!Next, Loop!Environment
<1>4. CASE RequestShutdown
  BY <1>4 DEF RequestShutdown, Loop!Next, Loop!Environment
<1>5. CASE Proceed \/ Spawn \/ Fail
  BY <1>5 DEF Proceed, Spawn, Fail, Loop!Next, Loop!Main, Loop!Advance
<1> QED
  BY <1>1, <1>2, <1>3, <1>4, <1>5
     DEF Next, vars, ClientActs, Session, Write, Handler, Kill, Stopped

\* Each step of the composition is a step of the sessions, or leaves them alone.
LEMMA SessionStep == [Next]_vars => [Http!Next]_(Http!vars)
<1> SUFFICES ASSUME [Next]_vars PROVE [Http!Next]_(Http!vars)
  OBVIOUS
<1> USE DEF httpVars, Http!vars, Http!clientVars
<1>1. CASE UNCHANGED httpVars
  BY <1>1
<1>2. ASSUME NEW c \in Conn, ClientActs(c) \/ Session(c) \/ Write(c) \/ Handler(c) PROVE Http!Next
  BY <1>2 DEF ClientActs, Session, Write, Handler, Http!Next
<1>3. CASE Spawn
  BY <1>3 DEF Spawn, Http!Next
<1>4. CASE Kill
  BY <1>4 DEF Kill, Http!Next
<1> QED
  BY <1>1, <1>2, <1>3, <1>4
     DEF Next, vars, Connect, RequestShutdown, Proceed, Fail, Stopped

-----------------------------------------------------------------------------
(* What is proved of the parts.                                            *)

\* The loop of module AcceptLoopProofs is the loop of the composition.
LEMMA SameLoop ==
  /\ Loop!Init => LP!Init
  /\ [Loop!Next]_(Loop!vars) => [LP!Next]_(LP!vars)
  BY DEF Loop!Init, Loop!vars, Loop!sessionVars, Loop!Next, Loop!Main, Loop!Advance,
      Loop!Proceed, Loop!Fail, Loop!Cleanup, Loop!Environment, Loop!Exited, Loop!Connect,
      Loop!RequestShutdown, Loop!SessionEnds, Loop!ShutdownSeen, Loop!ShutdownNotSeen,
      Loop!LeaveWith, Loop!CheckThreshold, Loop!CheckMaximum, Loop!StartCleanup,
      Loop!KeepRunning, Loop!Collect, Loop!CollectFailure, Loop!CleanupReturns,
      Loop!Examining, Loop!Accept, Loop!AcceptFails, Loop!Spawn, Loop!SpawnFails,
      Loop!Return, Loop!Held, Loop!Ready, Loop!Range, LP!Init, LP!vars, LP!sessionVars,
      LP!Next, LP!Main, LP!Advance, LP!Proceed, LP!Fail, LP!Cleanup, LP!Environment,
      LP!Exited, LP!Connect, LP!RequestShutdown, LP!SessionEnds, LP!ShutdownSeen,
      LP!ShutdownNotSeen, LP!LeaveWith, LP!CheckThreshold, LP!CheckMaximum,
      LP!StartCleanup, LP!KeepRunning, LP!Collect, LP!CollectFailure, LP!CleanupReturns,
      LP!Examining, LP!Accept, LP!AcceptFails, LP!Spawn, LP!SpawnFails, LP!Return,
      LP!Held, LP!Ready, LP!Range

\* The sessions of module HttpSessionProofs are the sessions of the composition.
LEMMA SameSessions ==
  /\ Http!Init => HP!Init
  /\ [Http!Next]_(Http!vars) => [HP!Next]_(HP!vars)
  BY DEF Http!Init, Http!vars, Http!clientVars, Http!Next, Http!Session, Http!Client,
      Http!Handler, Http!BeginRequest, Http!CompleteRequest, Http!Leave, Http!Kill,
      Http!CanSend, Http!At, Http!Goto, Http!Start, Http!ReadRequest, Http!ReadBreaks,
      Http!ReadRefuses, Http!EndOfStream, Http!HandlerReturns, Http!HandlerThrows,
      Http!Flush, Http!Write, Http!WriteFails, Http!Shutdown, Http!Stopped, Http!Ended,
      Http!Current, HP!Init, HP!vars, HP!clientVars, HP!Next, HP!Session, HP!Client,
      HP!Handler, HP!BeginRequest, HP!CompleteRequest, HP!Leave, HP!Kill, HP!CanSend,
      HP!At, HP!Goto, HP!Start, HP!ReadRequest, HP!ReadBreaks, HP!ReadRefuses,
      HP!EndOfStream, HP!HandlerReturns, HP!HandlerThrows, HP!Flush, HP!Write,
      HP!WriteFails, HP!Shutdown, HP!Stopped, HP!Ended, HP!Current

LEMMA LoopInvariant == Spec => []LP!IInv
<1>1. LP!Spec => []LP!IInv
  BY LP!Invariance, FrameworkAssumption
<1>2. Init => LP!Init
  BY SameLoop DEF Init
<1>3. [Next]_vars => [LP!Next]_(LP!vars)
  BY SameLoop, LoopStep
<1> QED
  BY <1>1, <1>2, <1>3, PTL DEF Spec, LP!Spec

LEMMA SessionInvariant == Spec => []HP!IInv
<1>1. HP!Spec => []HP!IInv
  BY HP!Invariance, FrameworkAssumption
<1>2. Init => HP!Init
  BY SameSessions DEF Init
<1>3. [Next]_vars => [HP!Next]_(HP!vars)
  BY SameSessions, SessionStep
<1> QED
  BY <1>1, <1>2, <1>3, PTL DEF Spec, HP!Spec

LEMMA BoundOfLoop == Spec => []LP!SessionBound
<1>1. LP!Spec => []LP!SessionBound
  BY LP!SessionsBounded, FrameworkAssumption
<1>2. Init => LP!Init
  BY SameLoop DEF Init
<1>3. [Next]_vars => [LP!Next]_(LP!vars)
  BY SameLoop, LoopStep
<1> QED
  BY <1>1, <1>2, <1>3, PTL DEF Spec, LP!Spec

-----------------------------------------------------------------------------
(* The parts agree.                                                        *)

\* The types of what the two views share, as the provers need them.
Shapes ==
  /\ status \in [Conn -> Loop!Status]
  /\ sessionPc \in [Conn -> {"idle", "read", "handle", "flush", "write", "shutdown"} \cup Http!Ended]
  /\ client \in [Conn -> {"open", "closed", "reset"}]
  /\ None \notin Conn
  /\ socket # None => socket \in Conn /\ status[socket] = "accepted"
  /\ loopPc = "spawn" => socket # None
  /\ \A i \in 1..Len(backlog) : status[backlog[i]] = "queued"
  /\ backlog \in Seq(Conn)

LEMMA ShapesHold == ASSUME LP!IInv, HP!IInv PROVE Shapes
<1>1. None \notin Conn
  BY FrameworkAssumption DEF Loop!LoopAssumption
<1> QED
  BY <1>1 DEF LP!IInv, HP!IInv, LP!TypeOK, HP!TypeOK, LP!Owned, LP!Status, Loop!Status,
     HP!Ended, Http!Ended, Shapes

\* The accepting thread changes the status of connections that have no session.
LEMMA ProceedCoupled == ASSUME Shapes, Coupled, Proceed \/ Fail PROVE Coupled'
<1> USE DEF Shapes, Coupled, httpVars
<1>1. UNCHANGED sessionPc
  BY DEF Proceed, Fail
<1>2. CASE UNCHANGED status
  BY <1>1, <1>2
<1>3. CASE Loop!Accept
  <2>1. Head(backlog) \in Conn /\ status[Head(backlog)] = "queued"
    BY <1>3 DEF Loop!Accept
  <2>2. status' = [status EXCEPT ![Head(backlog)] = "accepted"]
    BY <1>3 DEF Loop!Accept
  <2> QED
    BY <1>1, <2>1, <2>2
<1>4. CASE Loop!Return
  <2>1. status' = [c \in Conn |-> IF status[c] = "queued" THEN "closed" ELSE status[c]]
    BY <1>4 DEF Loop!Return
  <2> QED
    BY <1>1, <2>1
<1>5. CASE Loop!SpawnFails
  <2>1. status' = [status EXCEPT ![socket] = "closed"] /\ loopPc = "spawn"
    BY <1>5 DEF Loop!SpawnFails
  <2> QED
    BY <1>1, <2>1
<1>6. ASSUME NEW r \in {"zero", "one"}, Loop!AcceptFails(r) PROVE UNCHANGED status
  BY <1>6 DEF Loop!AcceptFails
<1>7. CASE Loop!Cleanup \/ Loop!CheckThreshold \/ Loop!CheckMaximum
  BY <1>7, <1>2 DEF Loop!Cleanup, Loop!CheckThreshold, Loop!CheckMaximum, Loop!KeepRunning,
     Loop!Collect, Loop!CollectFailure, Loop!CleanupReturns
<1>8. CASE Loop!ShutdownSeen \/ Loop!ShutdownNotSeen
  BY <1>8, <1>2 DEF Loop!ShutdownSeen, Loop!ShutdownNotSeen
<1> QED
  BY <1>2, <1>3, <1>4, <1>5, <1>6, <1>7, <1>8 DEF Proceed, Fail, Loop!Proceed, Loop!Fail

\* A step of a session, and where it leads.
LEMMA SessionMoves ==
  ASSUME Shapes, NEW c \in Conn, Session(c) \/ Handler(c)
  PROVE  /\ sessionPc[c] \notin Http!Ended /\ sessionPc[c] # "idle"
         /\ \E place \in {"read", "handle", "flush", "write", "shutdown"} \cup Http!Ended :
              sessionPc' = [sessionPc EXCEPT ![c] = place]
  BY DEF Shapes, Session, Handler, Http!Session, Http!Handler, Http!ReadRequest, Http!ReadBreaks,
     Http!EndOfStream, Http!Flush, Http!WriteFails, Http!Shutdown, Http!ReadRefuses,
     Http!HandlerReturns, Http!HandlerThrows, Http!At, Http!Goto, Http!Ended

LEMMA SessionCoupled ==
  ASSUME Shapes, Coupled, NEW c \in Conn, Session(c) \/ Handler(c)
  PROVE  Coupled'
<1> USE DEF Http!Ended
<1>1. PICK place \in {"read", "handle", "flush", "write", "shutdown"} \cup Http!Ended :
        sessionPc' = [sessionPc EXCEPT ![c] = place]
  BY SessionMoves
<1>2. sessionPc'[c] = place
  BY <1>1 DEF Shapes
<1>3. status[c] = "active"
  BY SessionMoves DEF Shapes, Coupled, Loop!Status
<1>4. Settle(c)
  BY DEF Session, Handler
<1>5. CASE place \in Http!Ended
  <2>1. status' = [status EXCEPT ![c] = IF place = "threw" THEN "failed" ELSE "done"]
    BY <1>2, <1>4, <1>5 DEF Settle, Loop!SessionEnds
  <2> QED
    BY <1>1, <1>3, <1>5, <2>1 DEF Shapes, Coupled
<1>6. CASE place \notin Http!Ended
  <2>1. UNCHANGED status
    BY <1>2, <1>4, <1>6 DEF Settle, loopVars
  <2> QED
    BY <1>1, <1>3, <1>6, <2>1 DEF Shapes, Coupled
<1> QED
  BY <1>5, <1>6

LEMMA CoupledStep == LP!IInv /\ HP!IInv /\ Coupled /\ [Next]_vars => Coupled'
<1> SUFFICES ASSUME LP!IInv, HP!IInv, Coupled, [Next]_vars PROVE Coupled'
  OBVIOUS
<1>0. Shapes
  BY ShapesHold
<1>1. CASE UNCHANGED <<status, sessionPc>>
  BY <1>1 DEF Coupled
<1>2. ASSUME NEW c \in Conn, Connect(c) PROVE Coupled'
  BY <1>0, <1>2 DEF Connect, Loop!Connect, httpVars, Coupled, Shapes
<1>3. ASSUME NEW c \in Conn, ClientActs(c) PROVE UNCHANGED <<status, sessionPc>>
  BY <1>3 DEF ClientActs, Http!Client, Http!BeginRequest, Http!CompleteRequest, Http!Leave, loopVars
<1>4. ASSUME NEW c \in Conn, Session(c) \/ Handler(c) PROVE Coupled'
  BY <1>0, <1>4, SessionCoupled
<1>8. ASSUME NEW c \in Conn, Write(c) PROVE Coupled'
  <2>1. /\ sessionPc[c] = "write" /\ sessionPc' = [sessionPc EXCEPT ![c] = "read"]
        /\ UNCHANGED status
    BY <1>8 DEF Write, Http!Write, Http!At, Http!Goto, loopVars
  <2> QED
    BY <1>0, <2>1 DEF Shapes, Coupled
<1>5. CASE RequestShutdown \/ Kill \/ Stopped \/ UNCHANGED vars
  BY <1>1, <1>5 DEF RequestShutdown, Loop!RequestShutdown, Kill, Http!Kill, Stopped, vars, loopVars, httpVars
<1>6. CASE Proceed \/ Fail
  BY <1>0, <1>6, ProceedCoupled
<1>7. CASE Spawn
  <2>1. PICK c \in Conn : c = socket /\ Http!Start(c)
    BY <1>7 DEF Spawn
  <2>2. status' = [status EXCEPT ![c] = "active"]
    BY <1>7, <2>1 DEF Spawn, Loop!Spawn
  <2>3. sessionPc' = [sessionPc EXCEPT ![c] = "read"]
    BY <2>1 DEF Http!Start, Http!Goto
  <2> QED
    BY <1>0, <2>2, <2>3 DEF Shapes, Coupled
<1> QED
  BY <1>1, <1>2, <1>3, <1>4, <1>5, <1>6, <1>7, <1>8 DEF Next

THEOREM ViewsAgree == Spec => []Coupled
<1>1. Init => Coupled
  BY DEF Init, Loop!Init, Http!Init, Coupled
<1> QED
  BY <1>1, CoupledStep, LoopInvariant, SessionInvariant, PTL DEF Spec

\* Every variable of the loop and of the sessions keeps its type, and a connection is
\* active for the loop exactly while its session runs (framework_impl.cc:86,93).
THEOREM TypeCorrect == Spec => []TypeOK
<1>1. LP!IInv => Loop!TypeOK
  BY DEF LP!IInv, LP!TypeOK, Loop!TypeOK, LP!Location, Loop!Location, LP!Status, Loop!Status
<1>2. HP!IInv => Http!TypeOK
  BY DEF HP!IInv, HP!TypeOK, Http!TypeOK, HP!Ended, Http!Ended, HP!Request, Http!Request
<1>3. LP!IInv /\ HP!IInv /\ Coupled => TypeOK
  BY <1>1, <1>2 DEF TypeOK, Coupled
<1> QED
  BY <1>3, LoopInvariant, SessionInvariant, ViewsAgree, PTL

-----------------------------------------------------------------------------
(* Threads and calls.                                                      *)

\* The user's function never runs in more threads than the code has a limit for, of any
\* number of connections (framework_impl.cc:110,117).
THEOREM CallsBounded == Spec => []HandlersBounded
<1>1. LP!IInv /\ HP!IInv /\ Coupled /\ LP!SessionBound => HandlersBounded
  <2> SUFFICES ASSUME LP!IInv, HP!IInv, Coupled, LP!SessionBound PROVE HandlersBounded
    OBVIOUS
  <2> DEFINE Calling == {c \in Conn : sessionPc[c] = "handle"}
  <2>1. Calling \subseteq LP!Active
    <3>1. \A c \in Conn : sessionPc[c] = "handle" => status[c] = "active"
      BY ShapesHold DEF Shapes, Coupled, Loop!Status
    <3> QED
      BY <3>1 DEF LP!Active
  <2>a. LP!Cardinality(LP!Active) = Cardinality(LP!Active)
    BY DEF LP!Cardinality, Cardinality
  <2>b. LP!IsFiniteSet(LP!Active) = IsFiniteSet(LP!Active)
    BY DEF LP!IsFiniteSet, IsFiniteSet
  <2>c. LP!IsFiniteSet(LP!Active) /\ LP!Cardinality(LP!Active) \in Nat
    BY LP!ActiveCount, FrameworkAssumption DEF Loop!LoopAssumption, LP!LoopAssumption
  <2>2. IsFiniteSet(LP!Active) /\ Cardinality(LP!Active) \in Nat
    BY <2>a, <2>b, <2>c
  <2>3. Cardinality(Calling) <= Cardinality(LP!Active) /\ Cardinality(Calling) \in Nat
    BY <2>1, <2>2, FS_Subset, FS_CardinalityType
  <2>4. Cardinality(LP!Active) <= kMaximumSessions /\ kMaximumSessions \in Nat
    BY <2>a, FrameworkAssumption DEF LP!SessionBound, Loop!LoopAssumption
  <2> HIDE DEF Calling
  <2>5. Cardinality(Calling) <= kMaximumSessions
    BY <2>2, <2>3, <2>4
  <2> QED
    BY <2>5 DEF HandlersBounded, Calling
<1> QED
  BY <1>1, LoopInvariant, SessionInvariant, ViewsAgree, BoundOfLoop, PTL

\* A session returns from a read with all its calls answered, and from a write only when
\* its client is gone.
LEMMA FinishedStep == HP!IInv /\ Finished /\ [Next]_vars => Finished'
<1> SUFFICES ASSUME HP!IInv, Finished, [Next]_vars, NEW c \in Conn
             PROVE  (sessionPc[c] = "returned" => Len(calls[c]) = Len(answers[c]) \/ client[c] = "reset")'
  BY DEF Finished
<1> USE DEF Finished, Http!clientVars
<1>0. /\ sessionPc \in [Conn -> {"idle", "read", "handle", "flush", "write", "shutdown", "returned", "threw"}]
      /\ client \in [Conn -> {"open", "closed", "reset"}]
      /\ \A d \in Conn : sessionPc[d] \in {"read", "shutdown"} => Len(calls[d]) = Len(answers[d])
  BY DEF HP!IInv, HP!TypeOK, HP!Ended, HP!Pending
<1>1. CASE UNCHANGED <<sessionPc, calls, answers, client>>
  BY <1>1
<1>2. ASSUME NEW d \in Conn, Http!Client(d) PROVE UNCHANGED <<sessionPc, calls, answers>>
                                                 /\ (client[c] = "reset" => client'[c] = "reset")
  BY <1>0, <1>2 DEF Http!Client, Http!BeginRequest, Http!CompleteRequest, Http!Leave
<1>3. ASSUME NEW d \in Conn, NEW place \in {"read", "handle", "flush", "write", "shutdown", "threw"},
             sessionPc' = [sessionPc EXCEPT ![d] = place],
             sessionPc[d] \notin Http!Ended,
             \A e \in Conn \ {d} : calls'[e] = calls[e] /\ answers'[e] = answers[e],
             UNCHANGED client
      PROVE  (sessionPc[c] = "returned" => Len(calls[c]) = Len(answers[c]) \/ client[c] = "reset")'
  BY <1>0, <1>3 DEF Http!Ended
<1>4. ASSUME NEW d \in Conn, Http!ReadBreaks(d) \/ Http!ReadRefuses(d) \/ Http!Shutdown(d)
      PROVE  (sessionPc[c] = "returned" => Len(calls[c]) = Len(answers[c]) \/ client[c] = "reset")'
  BY <1>0, <1>4 DEF Http!ReadBreaks, Http!ReadRefuses, Http!Shutdown, Http!At, Http!Goto
<1>5. ASSUME NEW d \in Conn, Http!WriteFails(d)
      PROVE  (sessionPc[c] = "returned" => Len(calls[c]) = Len(answers[c]) \/ client[c] = "reset")'
  BY <1>0, <1>5 DEF Http!WriteFails, Http!At, Http!Goto
<1>6. ASSUME NEW d \in Conn,
             Http!Start(d) \/ Http!EndOfStream(d) \/ Http!Flush(d) \/ Http!Handler(d)
      PROVE  (sessionPc[c] = "returned" => Len(calls[c]) = Len(answers[c]) \/ client[c] = "reset")'
  BY <1>3, <1>6 DEF Http!Start, Http!EndOfStream, Http!Flush, Http!Handler, Http!HandlerReturns,
     Http!HandlerThrows, Http!At, Http!Goto, Http!Ended
<1>7. ASSUME NEW d \in Conn, Http!ReadRequest(d) \/ Http!Write(d)
      PROVE  (sessionPc[c] = "returned" => Len(calls[c]) = Len(answers[c]) \/ client[c] = "reset")'
  <2>1. calls \in [Conn -> Seq(HP!Request)] /\ answers \in [Conn -> Seq([req : HP!Request, keep : BOOLEAN])]
    BY DEF HP!IInv, HP!TypeOK
  <2> QED
    BY <1>3, <1>7, <2>1 DEF Http!ReadRequest, Http!Write, Http!At, Http!Goto, Http!Ended
<1>8. CASE Http!Kill
  BY <1>1, <1>8 DEF Http!Kill
<1>9. CASE UNCHANGED httpVars
  BY <1>1, <1>9 DEF httpVars
<1> QED
  BY <1>1, <1>2, <1>4, <1>5, <1>6, <1>7, <1>8, <1>9
     DEF Next, vars, Connect, ClientActs, RequestShutdown, Kill, Proceed, Spawn, Fail, Stopped,
         Session, Write, Handler, Http!Session

\* Stopping the server cuts no call short: what it was called for is answered when it
\* returns, unless the client was gone or the session threw (framework_impl.cc:126).
THEOREM StoppingWaits == Spec => []NoCallCutShort
<1>1. Init => Finished
  BY DEF Init, Http!Init, Finished
<1>2. Spec => []Finished
  BY <1>1, FinishedStep, SessionInvariant, PTL DEF Spec
<1>3. LP!IInv /\ HP!IInv /\ Coupled /\ Finished => NoCallCutShort
  <2> SUFFICES ASSUME LP!IInv, HP!IInv, Coupled, Finished, loopPc = "exited", NEW c \in Conn
               PROVE  \/ Len(answers[c]) = Len(calls[c])
                      \/ client[c] = "reset"
                      \/ sessionPc[c] = "threw"
    BY DEF NoCallCutShort
  <2>1. status[c] \in Loop!Status \ {"queued", "active"}
    BY ShapesHold DEF LP!IInv, LP!Ended, Shapes
  <2>2. sessionPc[c] \in {"idle", "returned", "threw"}
    BY <2>1 DEF Coupled, Loop!Status
  <2>3. sessionPc[c] = "idle" => Len(calls[c]) = Len(answers[c])
    BY DEF HP!IInv, HP!Pending
  <2> QED
    BY <2>2, <2>3 DEF Finished
<1> QED
  BY <1>2, <1>3, LoopInvariant, SessionInvariant, ViewsAgree, PTL
==============================================================================

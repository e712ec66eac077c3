-------------------------- MODULE AcceptLoopProofs ---------------------------
(***************************************************************************)
(* For every set of connections and every pair of limits: the accept loop  *)
(* never loses a session thread, never runs more than kMaximumSessions of  *)
(* them, and implements SessionPool.                                       *)
(***************************************************************************)
EXTENDS AcceptLoop, FiniteSetTheorems, TLAPS

(***************************************************************************)
(* Sequences and the set of their elements.                                *)
(***************************************************************************)

\* A vector of futures with nothing in it holds nothing.
LEMMA RangeEmpty == Range(<<>>) = {}
  BY DEF Range

\* push_back adds one element.
LEMMA RangeAppend ==
  ASSUME NEW S, NEW s \in Seq(S), NEW e \in S
  PROVE  Range(Append(s, e)) = Range(s) \cup {e}
<1>1. \A i \in 1..Len(s) : Append(s, e)[i] = s[i]
  OBVIOUS
<1>2. Append(s, e)[Len(s) + 1] = e
  OBVIOUS
<1>3. DOMAIN Append(s, e) = (DOMAIN s) \cup {Len(s) + 1} /\ DOMAIN s = 1..Len(s)
  OBVIOUS
<1> QED
  BY <1>1, <1>2, <1>3 DEF Range

\* A vector that is not empty holds its first element and the rest.
LEMMA RangeHeadTail ==
  ASSUME NEW S, NEW s \in Seq(S), s # <<>>
  PROVE  Range(s) = {Head(s)} \cup Range(Tail(s))
<1>1. Len(s) \in Nat \ {0} /\ Head(s) = s[1]
  OBVIOUS
<1>2. DOMAIN s = 1..Len(s) /\ DOMAIN Tail(s) = 1..(Len(s) - 1)
  BY <1>1
<1>3. \A i \in 1..(Len(s) - 1) : Tail(s)[i] = s[i + 1]
  BY <1>1
<1>4. Range(s) \subseteq {Head(s)} \cup Range(Tail(s))
  <2> SUFFICES ASSUME NEW i \in 1..Len(s)
               PROVE  s[i] \in {Head(s)} \cup Range(Tail(s))
    BY <1>2 DEF Range
  <2>1. CASE i = 1
    BY <1>1, <2>1
  <2>2. CASE i # 1
    <3>1. i - 1 \in 1..(Len(s) - 1) /\ Tail(s)[i - 1] = s[i]
      BY <1>1, <1>3, <2>2
    <3> QED
      BY <1>2, <3>1 DEF Range
  <2> QED
    BY <2>1, <2>2
<1>5. {Head(s)} \cup Range(Tail(s)) \subseteq Range(s)
  <2>1. Head(s) \in Range(s)
    BY <1>1, <1>2 DEF Range
  <2>2. ASSUME NEW i \in 1..(Len(s) - 1)
        PROVE  Tail(s)[i] \in Range(s)
    <3>1. i + 1 \in 1..Len(s) /\ Tail(s)[i] = s[i + 1]
      BY <1>1, <1>3
    <3> QED
      BY <1>2, <3>1 DEF Range
  <2> QED
    BY <1>2, <2>1, <2>2 DEF Range
<1> QED
  BY <1>4, <1>5

\* A vector holds no more distinct elements than its length.
LEMMA RangeCardinality ==
  ASSUME NEW S, NEW s \in Seq(S)
  PROVE  IsFiniteSet(Range(s)) /\ Cardinality(Range(s)) <= Len(s)
<1>1. s \in [1..Len(s) -> S] /\ Len(s) \in Nat
  OBVIOUS
<1>2. s \in Surjection(1..Len(s), Range(s))
  BY <1>1 DEF Surjection, Range
<1>3. IsFiniteSet(1..Len(s)) /\ Cardinality(1..Len(s)) = Len(s)
  <2>1. /\ IsFiniteSet(1..Len(s))
        /\ Cardinality(1..Len(s)) = IF 1 > Len(s) THEN 0 ELSE Len(s) - 1 + 1
    BY <1>1, FS_Interval
  <2> QED
    BY <1>1, <2>1
<1> QED
  BY <1>2, <1>3, FS_Surjection

(***************************************************************************)
(* The inductive invariant.                                                *)
(***************************************************************************)

\* Which vectors can hold futures at each point of the loop.
Placed ==
  /\ pc \notin {"cleanup", "join"} => todo = <<>> /\ running = <<>>
  /\ pc \in {"cleanup", "exited"} => sessions = <<>>

\* The futures in the three vectors are counted by the checks of their sizes.
Counted ==
  /\ Len(sessions) + Len(todo) + Len(running) <= kMaximumSessions
  /\ pc \in {"accept", "spawn"} => Len(sessions) < kMaximumSessions

\* A connection is in the queue at most once, and only while it is queued; the
\* socket in hand is the one accepted connection.
Owned ==
  /\ \A i \in 1..Len(backlog) : status[backlog[i]] = "queued"
  /\ \A i, j \in 1..Len(backlog) : backlog[i] = backlog[j] => i = j
  /\ \A c \in Conn : status[c] = "accepted" <=> socket = c

\* At the end every thread was joined and every queued connection closed.
Ended == pc = "exited" => \A c \in Conn : status[c] \notin {"queued", "active"}

\* After a late accept the loop only starts its session and asks shutdown() again.
Late ==
  /\ late \in {0, 1}
  /\ late = 1 => stop /\ pc \in {"spawn", "loop", "join", "exited"}

IInv == TypeOK /\ Placed /\ Counted /\ Owned /\ Ended /\ Late /\ ActiveHeld /\ FailureSurfaces

-----------------------------------------------------------------------------
USE LoopAssumption

\* The types hold at first.
LEMMA InitTypeOK == Init => TypeOK
<1> USE DEF TypeOK, Location, Status
<1> SUFFICES ASSUME Init PROVE TypeOK
  OBVIOUS
<1>1. sessions \in Seq(Conn) /\ todo \in Seq(Conn) /\ running \in Seq(Conn) /\ backlog \in Seq(Conn)
  BY DEF Init
<1>2. status \in [Conn -> Status]
  BY DEF Init
<1> QED
  BY <1>1, <1>2 DEF Init

\* Every variable keeps its type, the thread owns a socket exactly between accept()
\* and std::async, and the result is known exactly once the loop is left.
THEOREM TypeCorrect == Spec => []TypeOK
<1> USE DEF TypeOK, Location, Status
<1>1. Init => TypeOK
  BY InitTypeOK
<1>2. TypeOK /\ [Next]_vars => TypeOK'
  <2> SUFFICES ASSUME TypeOK, [Next]_vars PROVE TypeOK'
    OBVIOUS
  <2>1. CASE UNCHANGED vars
    BY <2>1 DEF vars, sessionVars
  <2>2. ASSUME NEW c \in Conn, Connect(c) PROVE TypeOK'
    BY <2>2 DEF Connect, sessionVars
  <2>3. CASE RequestShutdown
    BY <2>3 DEF RequestShutdown, sessionVars
  <2>4. ASSUME NEW c \in Conn, NEW how \in {"done", "failed"}, SessionEnds(c, how)
        PROVE  TypeOK'
    BY <2>4 DEF SessionEnds, sessionVars
  <2>5. CASE ShutdownSeen
    BY <2>5 DEF ShutdownSeen, LeaveWith, sessionVars
  <2>6. CASE ShutdownNotSeen
    BY <2>6 DEF ShutdownNotSeen, sessionVars
  <2>7. CASE CheckThreshold
    <3>1. CASE Len(sessions) >= kSessionCleanupThreshold
      BY <2>7, <3>1 DEF CheckThreshold, StartCleanup
    <3>2. CASE ~(Len(sessions) >= kSessionCleanupThreshold)
      BY <2>7, <3>2 DEF CheckThreshold, sessionVars
    <3> QED
      BY <3>1, <3>2
  <2>8. CASE CheckMaximum
    <3>1. CASE Len(sessions) >= kMaximumSessions
      BY <2>8, <3>1 DEF CheckMaximum, StartCleanup
    <3>2. CASE ~(Len(sessions) >= kMaximumSessions)
      BY <2>8, <3>2 DEF CheckMaximum, sessionVars
    <3> QED
      BY <3>1, <3>2
  <2>9. ASSUME NEW c \in Conn, KeepRunning(c) PROVE TypeOK'
    BY <2>9 DEF KeepRunning, Examining
  <2>10. ASSUME NEW c \in Conn, Collect(c) PROVE TypeOK'
    BY <2>10 DEF Collect, Examining
  <2>11. ASSUME NEW c \in Conn, CollectFailure(c) PROVE TypeOK'
    BY <2>11 DEF CollectFailure, Examining, LeaveWith
  <2>12. CASE CleanupReturns
    BY <2>12 DEF CleanupReturns
  <2>13. CASE Accept
    BY <2>13 DEF Accept, sessionVars
  <2>14. ASSUME NEW r \in {"zero", "one"}, AcceptFails(r) PROVE TypeOK'
    BY <2>14 DEF AcceptFails, LeaveWith, sessionVars
  <2>15. CASE Spawn
    BY <2>15 DEF Spawn
  <2>16. CASE SpawnFails
    BY <2>16 DEF SpawnFails, LeaveWith, sessionVars
  <2>17. CASE Return
    BY <2>17 DEF Return
  <2>18. CASE Exited
    BY <2>18 DEF Exited, vars, sessionVars
  <2> QED
    BY <2>1, <2>2, <2>3, <2>4, <2>5, <2>6, <2>7, <2>8, <2>9, <2>10, <2>11, <2>12,
       <2>13, <2>14, <2>15, <2>16, <2>17, <2>18
       DEF Next, Main, Advance, Proceed, Fail, Cleanup, Environment
<1> QED
  BY <1>1, <1>2, PTL DEF Spec

\* No step breaks the invariant.
LEMMA InductiveStep == TypeOK /\ TypeOK' /\ IInv /\ [Next]_vars => IInv'
<1> SUFFICES ASSUME TypeOK, TypeOK', IInv, [Next]_vars PROVE IInv'
  OBVIOUS
<1> USE DEF TypeOK, Location, Status
<1>1. CASE UNCHANGED vars
  <2> USE <1>1 DEF vars, sessionVars
  <2>1. Placed' /\ Ended' /\ Late'
    BY DEF IInv, Placed, Ended, Late
  <2>2. Counted'
    BY DEF IInv, Placed, Counted
  <2>3. Owned'
    BY DEF IInv, Owned
  <2>4. ActiveHeld' /\ FailureSurfaces'
    BY RangeEmpty DEF IInv, Placed, ActiveHeld, FailureSurfaces, Active, Held, Ready
  <2> QED
    BY <2>1, <2>2, <2>3, <2>4 DEF IInv
<1>2. ASSUME NEW c \in Conn, Connect(c) PROVE IInv'
  <2> USE <1>2 DEF Connect, sessionVars
  <2>1. Placed' /\ Ended' /\ Late'
    BY DEF IInv, Placed, Ended, Late
  <2>2. Counted'
    BY DEF IInv, Placed, Counted
  <2>3. Owned'
    BY DEF IInv, Owned
  <2>4. ActiveHeld' /\ FailureSurfaces'
    BY RangeEmpty DEF IInv, Placed, ActiveHeld, FailureSurfaces, Active, Held, Ready
  <2> QED
    BY <2>1, <2>2, <2>3, <2>4 DEF IInv
<1>3. CASE RequestShutdown
  <2> USE <1>3 DEF RequestShutdown, sessionVars
  <2>1. Placed' /\ Ended' /\ Late'
    BY DEF IInv, Placed, Ended, Late
  <2>2. Counted'
    BY DEF IInv, Placed, Counted
  <2>3. Owned'
    BY DEF IInv, Owned
  <2>4. ActiveHeld' /\ FailureSurfaces'
    BY RangeEmpty DEF IInv, Placed, ActiveHeld, FailureSurfaces, Active, Held, Ready
  <2> QED
    BY <2>1, <2>2, <2>3, <2>4 DEF IInv
<1>4. ASSUME NEW c \in Conn, NEW how \in {"done", "failed"}, SessionEnds(c, how) PROVE IInv'
  <2> USE <1>4 DEF SessionEnds, sessionVars
  <2>1. Placed' /\ Ended' /\ Late'
    BY DEF IInv, Placed, Ended, Late
  <2>2. Counted'
    BY DEF IInv, Placed, Counted
  <2>3. Owned'
    BY DEF IInv, Owned
  <2>4. ActiveHeld' /\ FailureSurfaces'
    BY RangeEmpty DEF IInv, Placed, ActiveHeld, FailureSurfaces, Active, Held, Ready
  <2> QED
    BY <2>1, <2>2, <2>3, <2>4 DEF IInv
<1>5. CASE ShutdownSeen
  <2> USE <1>5 DEF ShutdownSeen, LeaveWith, sessionVars
  <2>1. Placed' /\ Ended' /\ Late'
    BY DEF IInv, Placed, Ended, Late
  <2>2. Counted'
    BY DEF IInv, Placed, Counted
  <2>3. Owned'
    BY DEF IInv, Owned
  <2>4. ActiveHeld' /\ FailureSurfaces'
    BY RangeEmpty DEF IInv, Placed, ActiveHeld, FailureSurfaces, Active, Held, Ready
  <2> QED
    BY <2>1, <2>2, <2>3, <2>4 DEF IInv
<1>6. CASE ShutdownNotSeen
  <2> USE <1>6 DEF ShutdownNotSeen, sessionVars
  <2>1. Placed' /\ Ended' /\ Late'
    BY DEF IInv, Placed, Ended, Late
  <2>2. Counted'
    BY DEF IInv, Placed, Counted
  <2>3. Owned'
    BY DEF IInv, Owned
  <2>4. ActiveHeld' /\ FailureSurfaces'
    BY RangeEmpty DEF IInv, Placed, ActiveHeld, FailureSurfaces, Active, Held, Ready
  <2> QED
    BY <2>1, <2>2, <2>3, <2>4 DEF IInv
<1>7. CASE CheckThreshold
  <2> USE <1>7 DEF CheckThreshold, StartCleanup, sessionVars
  <2>1. Placed' /\ Ended' /\ Late'
    BY DEF IInv, Placed, Ended, Late
  <2>2. Counted'
    BY DEF IInv, Placed, Counted
  <2>3. Owned'
    BY DEF IInv, Owned
  <2>4. ActiveHeld' /\ FailureSurfaces'
    BY RangeEmpty DEF IInv, Placed, ActiveHeld, FailureSurfaces, Active, Held, Ready
  <2> QED
    BY <2>1, <2>2, <2>3, <2>4 DEF IInv
<1>8. CASE CheckMaximum
  <2> USE <1>8 DEF CheckMaximum, StartCleanup, sessionVars
  <2>1. Placed' /\ Ended' /\ Late'
    BY DEF IInv, Placed, Ended, Late
  <2>2. Counted'
    BY DEF IInv, Placed, Counted
  <2>3. Owned'
    BY DEF IInv, Owned
  <2>4. ActiveHeld' /\ FailureSurfaces'
    BY RangeEmpty DEF IInv, Placed, ActiveHeld, FailureSurfaces, Active, Held, Ready
  <2> QED
    BY <2>1, <2>2, <2>3, <2>4 DEF IInv
<1>9. ASSUME NEW c \in Conn, KeepRunning(c) PROVE IInv'
  <2> USE <1>9 DEF KeepRunning, Examining
  <2>1. Placed' /\ Ended' /\ Late'
    BY DEF IInv, Placed, Ended, Late
  <2>2. Counted'
    BY DEF IInv, Placed, Counted
  <2>3. Owned'
    BY DEF IInv, Owned
  <2>4. ActiveHeld' /\ FailureSurfaces'
    <3>1. Range(todo) = {c} \cup Range(todo')
      BY RangeHeadTail
    <3>2. Range(running') = Range(running) \cup {c}
      BY RangeAppend
    <3> QED
      BY <3>1, <3>2 DEF IInv, ActiveHeld, FailureSurfaces, Active, Held, Ready
  <2> QED
    BY <2>1, <2>2, <2>3, <2>4 DEF IInv
<1>10. ASSUME NEW c \in Conn, Collect(c) PROVE IInv'
  <2> USE <1>10 DEF Collect, Examining
  <2>1. Placed' /\ Ended' /\ Late'
    BY DEF IInv, Placed, Ended, Late
  <2>2. Counted'
    BY DEF IInv, Placed, Counted
  <2>3. Owned'
    BY DEF IInv, Owned
  <2>4. ActiveHeld' /\ FailureSurfaces'
    <3>1. Range(todo) = {c} \cup Range(todo')
      BY RangeHeadTail
    <3> QED
      BY <3>1 DEF IInv, ActiveHeld, FailureSurfaces, Active, Held, Ready
  <2> QED
    BY <2>1, <2>2, <2>3, <2>4 DEF IInv
<1>11. ASSUME NEW c \in Conn, CollectFailure(c) PROVE IInv'
  <2> USE <1>11 DEF CollectFailure, Examining, LeaveWith
  <2>1. Placed' /\ Ended' /\ Late'
    BY DEF IInv, Placed, Ended, Late
  <2>2. Counted'
    BY DEF IInv, Placed, Counted
  <2>3. Owned'
    BY DEF IInv, Owned
  <2>4. ActiveHeld' /\ FailureSurfaces'
    <3>1. Range(todo) = {c} \cup Range(todo')
      BY RangeHeadTail
    <3> QED
      BY <3>1 DEF IInv, ActiveHeld, FailureSurfaces, Active, Held, Ready
  <2> QED
    BY <2>1, <2>2, <2>3, <2>4 DEF IInv
<1>12. CASE CleanupReturns
  <2> USE <1>12 DEF CleanupReturns
  <2>1. Placed' /\ Ended' /\ Late'
    BY DEF IInv, Placed, Ended, Late
  <2>2. Counted'
    BY DEF IInv, Placed, Counted
  <2>3. Owned'
    BY DEF IInv, Owned
  <2>4. ActiveHeld' /\ FailureSurfaces'
    BY RangeEmpty DEF IInv, Placed, ActiveHeld, FailureSurfaces, Active, Held, Ready
  <2> QED
    BY <2>1, <2>2, <2>3, <2>4 DEF IInv
<1>13. CASE Accept
  <2> USE <1>13 DEF Accept, sessionVars
  <2>1. Placed' /\ Ended' /\ Late'
    BY DEF IInv, Placed, Ended, Late
  <2>2. Counted'
    BY DEF IInv, Placed, Counted
  <2>3. Owned'
    BY DEF IInv, Owned
  <2>4. ActiveHeld' /\ FailureSurfaces'
    BY RangeEmpty DEF IInv, Placed, ActiveHeld, FailureSurfaces, Active, Held, Ready
  <2> QED
    BY <2>1, <2>2, <2>3, <2>4 DEF IInv
<1>14. ASSUME NEW r \in {"zero", "one"}, AcceptFails(r) PROVE IInv'
  <2> USE <1>14 DEF AcceptFails, LeaveWith, sessionVars
  <2>1. Placed' /\ Ended' /\ Late'
    BY DEF IInv, Placed, Ended, Late
  <2>2. Counted'
    BY DEF IInv, Placed, Counted
  <2>3. Owned'
    BY DEF IInv, Owned
  <2>4. ActiveHeld' /\ FailureSurfaces'
    BY RangeEmpty DEF IInv, Placed, ActiveHeld, FailureSurfaces, Active, Held, Ready
  <2> QED
    BY <2>1, <2>2, <2>3, <2>4 DEF IInv
<1>15. CASE Spawn
  <2> USE <1>15 DEF Spawn
  <2>1. Placed' /\ Ended' /\ Late'
    BY DEF IInv, Placed, Ended, Late
  <2>2. Counted'
    BY DEF IInv, Placed, Counted
  <2>3. Owned'
    BY DEF IInv, Owned
  <2>4. ActiveHeld' /\ FailureSurfaces'
    <3>1. Range(sessions') = Range(sessions) \cup {socket}
      BY RangeAppend
    <3> QED
      BY <3>1 DEF IInv, ActiveHeld, FailureSurfaces, Active, Held, Ready
  <2> QED
    BY <2>1, <2>2, <2>3, <2>4 DEF IInv
<1>16. CASE SpawnFails
  <2> USE <1>16 DEF SpawnFails, LeaveWith, sessionVars
  <2>1. Placed' /\ Ended' /\ Late'
    BY DEF IInv, Placed, Ended, Late
  <2>2. Counted'
    BY DEF IInv, Placed, Counted
  <2>3. Owned'
    BY DEF IInv, Owned
  <2>4. ActiveHeld' /\ FailureSurfaces'
    BY RangeEmpty DEF IInv, Placed, ActiveHeld, FailureSurfaces, Active, Held, Ready
  <2> QED
    BY <2>1, <2>2, <2>3, <2>4 DEF IInv
<1>17. CASE Return
  <2> USE <1>17 DEF Return
  <2>1. Placed' /\ Ended' /\ Late'
    <3>1. \A d \in Conn : status[d] # "active"
      BY DEF IInv, ActiveHeld, Active, Ready
    <3> QED
      BY <3>1 DEF IInv, Placed, Ended, Late
  <2>2. Counted'
    BY DEF IInv, Placed, Counted
  <2>3. Owned'
    BY DEF IInv, Owned
  <2>4. ActiveHeld' /\ FailureSurfaces'
    BY RangeEmpty DEF IInv, Placed, ActiveHeld, FailureSurfaces, Active, Held, Ready
  <2> QED
    BY <2>1, <2>2, <2>3, <2>4 DEF IInv
<1>18. CASE Exited
  <2> USE <1>18 DEF Exited, vars, sessionVars
  <2>1. Placed' /\ Ended' /\ Late'
    BY DEF IInv, Placed, Ended, Late
  <2>2. Counted'
    BY DEF IInv, Placed, Counted
  <2>3. Owned'
    BY DEF IInv, Owned
  <2>4. ActiveHeld' /\ FailureSurfaces'
    BY RangeEmpty DEF IInv, Placed, ActiveHeld, FailureSurfaces, Active, Held, Ready
  <2> QED
    BY <2>1, <2>2, <2>3, <2>4 DEF IInv
<1> QED
  BY <1>1, <1>2, <1>3, <1>4, <1>5, <1>6, <1>7, <1>8, <1>9, <1>10, <1>11, <1>12, <1>13, <1>14, <1>15, <1>16, <1>17, <1>18
     DEF Next, Main, Advance, Proceed, Fail, Cleanup, Environment

\* Two finite sets together have at most as many elements as they have apart.
LEMMA FS_UnionBound ==
  ASSUME NEW X, NEW Y, IsFiniteSet(X), IsFiniteSet(Y)
  PROVE  /\ IsFiniteSet(X \cup Y)
         /\ Cardinality(X \cup Y) \in Nat
         /\ Cardinality(X \cup Y) <= Cardinality(X) + Cardinality(Y)
<1>1. IsFiniteSet(X \cap Y)
  BY FS_Intersection
<1>2. /\ Cardinality(X) \in Nat /\ Cardinality(Y) \in Nat
      /\ Cardinality(X \cap Y) \in Nat
  BY <1>1, FS_CardinalityType
<1>3. /\ IsFiniteSet(X \cup Y)
      /\ Cardinality(X \cup Y) = Cardinality(X) + Cardinality(Y) - Cardinality(X \cap Y)
  BY FS_Union
<1> QED
  BY <1>2, <1>3, FS_CardinalityType

\* The strengthened invariant holds in every reachable state: the facts every
\* theorem below rests on.
THEOREM Invariance == Spec => []IInv
<1>1. Init => IInv
  <2> SUFFICES ASSUME Init PROVE IInv
    OBVIOUS
  <2>1. TypeOK
    BY InitTypeOK
  <2>2. Placed /\ Counted /\ Ended /\ Late
    BY DEF Init, Placed, Counted, Ended, Late
  <2>3. Owned
    BY DEF Init, Owned
  <2>4. ActiveHeld /\ FailureSurfaces
    BY DEF Init, ActiveHeld, FailureSurfaces, Active
  <2> QED
    BY <2>1, <2>2, <2>3, <2>4 DEF IInv
<1>2. QED
  BY <1>1, TypeCorrect, InductiveStep, PTL DEF Spec

-----------------------------------------------------------------------------
(* What follows from the invariant.                                        *)

\* There are no more active sessions than futures in the three vectors.
LEMMA ActiveCount ==
  ASSUME IInv
  PROVE  /\ IsFiniteSet(Active) /\ Cardinality(Active) \in Nat
         /\ Cardinality(Active) <= Len(sessions) + Len(todo) + Len(running)
<1> DEFINE A == Range(sessions)
           B == Range(todo)
           C == Range(running)
<1>1. sessions \in Seq(Conn) /\ todo \in Seq(Conn) /\ running \in Seq(Conn)
  BY DEF IInv, TypeOK
<1>2. IsFiniteSet(A) /\ Cardinality(A) <= Len(sessions) /\ Cardinality(A) \in Nat
  BY <1>1, RangeCardinality, FS_CardinalityType
<1>3. IsFiniteSet(B) /\ Cardinality(B) <= Len(todo) /\ Cardinality(B) \in Nat
  BY <1>1, RangeCardinality, FS_CardinalityType
<1>4. IsFiniteSet(C) /\ Cardinality(C) <= Len(running) /\ Cardinality(C) \in Nat
  BY <1>1, RangeCardinality, FS_CardinalityType
<1> HIDE DEF A, B, C
<1>5. IsFiniteSet(A \cup B) /\ Cardinality(A \cup B) <= Cardinality(A) + Cardinality(B)
      /\ Cardinality(A \cup B) \in Nat
  BY <1>2, <1>3, FS_UnionBound
<1>6. IsFiniteSet(A \cup B \cup C)
      /\ Cardinality(A \cup B \cup C) <= Cardinality(A \cup B) + Cardinality(C)
      /\ Cardinality(A \cup B \cup C) \in Nat
  BY <1>4, <1>5, FS_UnionBound
<1>7. Active \subseteq A \cup B \cup C
  BY DEF A, B, C, IInv, ActiveHeld, Held
<1>8. IsFiniteSet(Active) /\ Cardinality(Active) \in Nat /\ Cardinality(Active) <= Cardinality(A \cup B \cup C)
  BY <1>6, <1>7, FS_Subset, FS_CardinalityType
<1>9. Len(sessions) \in Nat /\ Len(todo) \in Nat /\ Len(running) \in Nat
  BY <1>1
<1> QED
  BY <1>2, <1>3, <1>4, <1>5, <1>6, <1>8, <1>9

\* Never more than kMaximumSessions session threads at a time.
THEOREM SessionsBounded == Spec => []SessionBound
<1>1. IInv => SessionBound
  <2> SUFFICES ASSUME IInv PROVE Cardinality(Active) <= kMaximumSessions
    BY DEF SessionBound
  <2>1. Len(sessions) + Len(todo) + Len(running) <= kMaximumSessions
    BY DEF IInv, Counted
  <2>2. Len(sessions) \in Nat /\ Len(todo) \in Nat /\ Len(running) \in Nat
    BY DEF IInv, TypeOK
  <2> QED
    BY <2>1, <2>2, ActiveCount
<1> QED
  BY <1>1, Invariance, PTL

\* No session thread is ever without a future that will wait for it.
THEOREM ThreadsHeld == Spec => []ActiveHeld
<1>1. IInv => ActiveHeld
  BY DEF IInv
<1> QED
  BY <1>1, Invariance, PTL

\* No exception of a session disappears while the server goes on.
THEOREM FailuresSurface == Spec => []FailureSurfaces
<1>1. IInv => FailureSurfaces
  BY DEF IInv
<1> QED
  BY <1>1, Invariance, PTL

\* When the server has returned nothing of it runs and nobody waits for it.
THEOREM EndsClean == Spec => []NothingLeftBehind
<1>1. IInv => NothingLeftBehind
  BY DEF IInv, TypeOK, Owned, Ended, NothingLeftBehind
<1> QED
  BY <1>1, Invariance, PTL

\* The loop accepts at most one connection after shutdown() became TRUE.
THEOREM ShutdownIsPrompt == Spec => []OneLateAccept
<1>1. IInv => OneLateAccept
  BY DEF IInv, Late, OneLateAccept
<1> QED
  BY <1>1, Invariance, PTL

-----------------------------------------------------------------------------
(* The loop implements the pool.                                           *)

\* Every step of the loop and of its environment is a step of the pool, or one its
\* clients do not see.
LEMMA StepImplements == IInv /\ IInv' /\ [Next]_vars => [Pool!PoolNext]_(Pool!poolVars)
<1> SUFFICES ASSUME IInv, IInv', [Next]_vars
             PROVE  Pool!PoolNext \/ UNCHANGED Pool!poolVars
  OBVIOUS
<1> DEFINE Waiting == {c \in Conn : status[c] \in {"queued", "accepted"}}
           Over    == {c \in Conn : Ready(c)}
           Refused == {c \in Conn : status[c] = "closed"}
<1> USE DEF Pool!poolVars
<1>0. TypeOK /\ TypeOK'
  BY DEF IInv
<1>s. ASSUME UNCHANGED status, pc = "exited" <=> pc' = "exited"
      PROVE  UNCHANGED Pool!poolVars
  BY <1>s DEF Active, Ready
<1>1. ASSUME NEW c \in Conn, Connect(c) PROVE Pool!Arrive(c)
  <2>1. c \notin Pool!Known
    BY <1>1 DEF Connect, Pool!Known, Active, Ready
  <2>2. Waiting' = Waiting \cup {c} /\ Active' = Active /\ Over' = Over /\ Refused' = Refused
    BY <1>0, <1>1 DEF Connect, TypeOK, Active, Ready
  <2> QED
    BY <1>1, <2>1, <2>2 DEF Connect, Pool!Arrive
<1>2. ASSUME NEW c \in Conn, NEW how \in {"done", "failed"}, SessionEnds(c, how)
      PROVE  Pool!Finish(c)
  <2>1. c \in Active
    BY <1>2 DEF SessionEnds, Active
  <2>2. Waiting' = Waiting /\ Active' = Active \ {c} /\ Over' = Over \cup {c} /\ Refused' = Refused
    BY <1>0, <1>2 DEF SessionEnds, TypeOK, Active, Ready
  <2> QED
    BY <1>2, <2>1, <2>2 DEF SessionEnds, Pool!Finish
<1>3. ASSUME Accept PROVE UNCHANGED Pool!poolVars
  <2>1. Head(backlog) \in Conn /\ status[Head(backlog)] = "queued"
    BY <1>0, <1>3 DEF Accept, TypeOK, IInv, Owned
  <2>2. Waiting' = Waiting /\ Active' = Active /\ Over' = Over /\ Refused' = Refused
    BY <1>0, <1>3, <2>1 DEF Accept, TypeOK, Active, Ready
  <2> QED
    BY <1>3, <2>2 DEF Accept
<1>4. ASSUME NEW c \in Conn, c = socket, Spawn PROVE Pool!Start(c)
  <2>1. status[c] = "accepted"
    BY <1>0, <1>4 DEF Spawn, TypeOK, IInv, Owned
  <2>2. Cardinality(Active) < kMaximumSessions
    <3>1. Len(sessions) < kMaximumSessions /\ todo = <<>> /\ running = <<>>
      BY <1>4 DEF Spawn, IInv, Counted, Placed
    <3>2. Len(sessions) \in Nat /\ Len(todo) = 0 /\ Len(running) = 0
      BY <1>0, <3>1 DEF TypeOK
    <3> QED
      BY <3>1, <3>2, ActiveCount
  <2>3. Waiting' = Waiting \ {c} /\ Active' = Active \cup {c} /\ Over' = Over /\ Refused' = Refused
    BY <1>0, <1>4, <2>1 DEF Spawn, TypeOK, Active, Ready
  <2>4. c \in Waiting
    BY <2>1
  <2>5. (pc = "exited") = (pc' = "exited")
    BY <1>4 DEF Spawn
  <2>6. Pool!Cardinality(Active) = Cardinality(Active)
    BY DEF Pool!Cardinality, Cardinality, Pool!IsFiniteSet, IsFiniteSet
  <2> QED
    BY <2>1, <2>2, <2>3, <2>4, <2>5, <2>6 DEF Pool!Start
<1>5. ASSUME NEW c \in Conn, c = socket, SpawnFails PROVE Pool!Refuse(c)
  <2>1. status[c] = "accepted"
    BY <1>0, <1>5 DEF SpawnFails, TypeOK, IInv, Owned
  <2>2. Waiting' = Waiting \ {c} /\ Active' = Active /\ Over' = Over /\ Refused' = Refused \cup {c}
    BY <1>0, <1>5, <2>1 DEF SpawnFails, TypeOK, Active, Ready
  <2>3. pc # "exited" /\ pc' # "exited"
    BY <1>5 DEF SpawnFails, LeaveWith
  <2> QED
    BY <2>1, <2>2, <2>3 DEF Pool!Refuse
<1>6. ASSUME Return PROVE Pool!Stop
  <2>1. \A c \in Conn : status[c] \notin {"active", "accepted"}
    BY <1>0, <1>6 DEF Return, IInv, Owned, ActiveHeld, Active, Ready, TypeOK
  <2>2. \A c \in Conn : status'[c] = IF status[c] = "queued" THEN "closed" ELSE status[c]
    BY <1>6 DEF Return
  <2>3. Active = {} /\ Active' = {} /\ Waiting' = {}
    BY <2>1, <2>2 DEF Active
  <2>4. Over' = Over
    BY <2>2 DEF Ready
  <2>5. Refused' = Refused \cup Waiting
    BY <2>1, <2>2
  <2>6. pc # "exited" /\ pc' = "exited"
    BY <1>6 DEF Return
  <2> QED
    BY <2>3, <2>4, <2>5, <2>6 DEF Pool!Stop
<1>7. CASE \/ UNCHANGED vars \/ RequestShutdown \/ ShutdownSeen \/ ShutdownNotSeen
           \/ CheckThreshold \/ CheckMaximum \/ CleanupReturns \/ Exited
           \/ \E c \in Conn : KeepRunning(c) \/ Collect(c) \/ CollectFailure(c)
           \/ \E r \in {"zero", "one"} : AcceptFails(r)
  <2>1. UNCHANGED status /\ (pc = "exited" <=> pc' = "exited")
    BY <1>0, <1>7 DEF vars, RequestShutdown, ShutdownSeen, ShutdownNotSeen, CheckThreshold,
       CheckMaximum, CleanupReturns, Exited, KeepRunning, Collect, CollectFailure,
       AcceptFails, StartCleanup, LeaveWith, Examining
  <2> QED
    BY <2>1, <1>s
<1>8. ASSUME NEW c \in Conn, Pool!Arrive(c) \/ Pool!Start(c) \/ Pool!Finish(c) \/ Pool!Refuse(c)
      PROVE  Pool!PoolNext
  BY <1>8 DEF Pool!PoolNext
<1>9. ASSUME Pool!Stop PROVE Pool!PoolNext
  BY <1>9 DEF Pool!PoolNext
<1> QED
  <2> HIDE DEF Pool!poolVars
  <2>1. ASSUME NEW c \in Conn, Connect(c) PROVE Pool!PoolNext
    BY <2>1, <1>1, <1>8
  <2>2. ASSUME NEW c \in Conn, NEW how \in {"done", "failed"}, SessionEnds(c, how)
        PROVE  Pool!PoolNext
    BY <2>2, <1>2, <1>8
  <2>3. CASE Spawn
    <3>1. PICK c \in Conn : c = socket
      BY <1>0, <2>3 DEF Spawn, TypeOK
    <3> QED
      BY <2>3, <3>1, <1>4, <1>8
  <2>4. CASE SpawnFails
    <3>1. PICK c \in Conn : c = socket
      BY <1>0, <2>4 DEF SpawnFails, TypeOK
    <3> QED
      BY <2>4, <3>1, <1>5, <1>8
  <2>5. CASE Return
    BY <2>5, <1>6, <1>9
  <2> QED
    BY <2>1, <2>2, <2>3, <2>4, <2>5, <1>3, <1>7
       DEF Next, Main, Advance, Proceed, Fail, Cleanup, Environment

\* The accept loop, with its vectors, its passes and its checks between accepts, does
\* what SessionPool promises, whatever the connections and the limits.
THEOREM LoopImplementsPool == Spec => Implements
<1>1. Init => Pool!PoolInit
  <2> SUFFICES ASSUME Init PROVE Pool!PoolInit
    OBVIOUS
  <2>1. \A c \in Conn : status[c] = "none"
    BY DEF Init
  <2>2. pc # "exited"
    BY DEF Init
  <2> QED
    BY <2>1, <2>2 DEF Pool!PoolInit, Active, Ready
<1> QED
  BY <1>1, Invariance, StepImplements, PTL DEF Spec, Implements, Pool!PoolSpec
==============================================================================

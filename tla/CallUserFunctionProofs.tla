----------------------- MODULE CallUserFunctionProofs ------------------------
(***************************************************************************)
(* For every batch and any number of overlapping attempts to deliver it:   *)
(* the status an attempt answers with tells whether the function returned  *)
(* from every event, and no event is handled of a batch with a bad one.    *)
(***************************************************************************)
EXTENDS CallUserFunction, TLAPS

AllGood == \A i \in 1..Len(batch) : batch[i] = "good"

\* The attempts the client has not made yet are untouched; the one it waits for is one
\* it made.
Unsent ==
  /\ \A a \in Attempt : a > client.last => pc[a] = "unsent"
  /\ client.waits => client.last \in Attempt

\* The function was called for the events before the one the attempt is at, and for
\* that one while it is in the function.
Counted ==
  \A a \in Attempt :
    /\ pc[a] \in {"unsent", "dispatch"} => next[a] = 1 /\ begun[a] = 0
    /\ pc[a] = "loop" => begun[a] = next[a] - 1
    /\ pc[a] = "function" => begun[a] = next[a]

\* An attempt that caught an exception is at an event the function did not return from;
\* one that answered 200 is past the last. Only events of a good batch are handled.
OnItsWay(a) ==
  /\ pc[a] = "loop" => next[a] <= Len(batch) + 1
  /\ pc[a] \in {"function", "catch", "escaped"} => next[a] <= Len(batch)
  /\ pc[a] = "answered" =>
       \/ response[a] = 200 /\ begun[a] = Len(batch) /\ next[a] = Len(batch) + 1
       \/ response[a] # 200 /\ next[a] <= Len(batch)
  /\ pc[a] \in {"loop", "function"} \/ begun[a] > 0 => AllGood

Progress == kind = "event" /\ target = "function" => \A a \in Attempt : OnItsWay(a)

\* A browser's path gets its 404 and no call.
Untouched ==
  kind = "event" /\ target # "function" =>
    \A a \in Attempt :
      /\ pc[a] \in {"unsent", "dispatch", "answered"} /\ begun[a] = 0
      /\ pc[a] = "answered" => response[a] = 404

\* The client stopped at the attempt that was answered with 200.
Acked ==
  client.acked =>
    /\ ~client.waits /\ client.last \in Attempt
    /\ pc[client.last] = "answered" /\ response[client.last] = 200

IInv == TypeOK /\ Unsent /\ Counted /\ Progress /\ Untouched /\ Acked

-----------------------------------------------------------------------------
USE CallAssumption

\* What an attempt's step may do to it; the other attempts and the client keep still.
LEMMA OneAttempt ==
  ASSUME TypeOK, NEW a \in Attempt, Framework(a) \/ Function(a)
  PROVE  /\ UNCHANGED <<requestVars, client>>
         /\ pc[a] \notin {"unsent", "answered", "escaped"}
         /\ \A b \in Attempt \ {a} :
              pc'[b] = pc[b] /\ next'[b] = next[b] /\ begun'[b] = begun[b]
              /\ response'[b] = response[b]
BY DEF TypeOK, Framework, Function, Intercept, Parse, ParseThrows, CallEvent, CallHttp,
   EventReturns, EventsDone, HttpReturns, FunctionThrows, CatchReports, CatchThrows, Answer,
   Throw, requestVars

\* Counting the batch needs it to be a sequence.
LEMMA BatchLength == TypeOK => Len(batch) \in Nat /\ batch \in Seq({"good", "bad"})
BY DEF TypeOK

\* The places of an attempt.
Place == {"unsent", "dispatch", "loop", "function", "catch", "answered", "escaped"}

\* No step breaks the types, nor the count of calls they need.
LEMMA TypeStep == TypeOK /\ Unsent /\ Counted /\ [Next]_vars => TypeOK' /\ Counted'
<1> SUFFICES ASSUME TypeOK, Unsent, Counted, [Next]_vars PROVE TypeOK' /\ Counted'
  OBVIOUS
<1> USE DEF Counted, requestVars, Answer, Throw
<1>0. \A a \in Attempt : next[a] \in Nat /\ begun[a] \in Nat /\ next[a] - 1 <= begun[a]
  BY DEF TypeOK
<1>1. CASE UNCHANGED vars
  BY <1>1 DEF vars, TypeOK
<1>2. ASSUME NEW a \in Attempt, Send(a) PROVE TypeOK' /\ Counted'
  <2>1. pc[a] = "unsent"
    BY <1>2 DEF Send, Unsent, Attempt, TypeOK
  <2>2. client' \in [last : Attempt \cup {0}, waits : BOOLEAN, acked : BOOLEAN]
    BY <1>2 DEF Send, TypeOK
  <2> QED
    BY <1>2, <2>1, <2>2 DEF Send, TypeOK
<1>3. CASE Receive \/ GiveUpWaiting
  <2>1. client' \in [last : Attempt \cup {0}, waits : BOOLEAN, acked : BOOLEAN]
    <3>1. client \in [last : Attempt \cup {0}, waits : BOOLEAN, acked : BOOLEAN]
      BY DEF TypeOK
    <3>2. CASE GiveUpWaiting
      BY <3>1, <3>2 DEF GiveUpWaiting
    <3>3. CASE Receive
      <4>1. PICK ok \in BOOLEAN : client' = [client EXCEPT !.waits = FALSE, !.acked = ok]
        BY <3>3, Zenon DEF Receive
      <4> QED
        BY <3>1, <4>1
    <3> QED
      BY <1>3, <3>2, <3>3
  <2>2. UNCHANGED <<requestVars, pc, next, begun, thrown, response>>
    BY <1>3 DEF Receive, GiveUpWaiting
  <2> QED
    BY <2>1, <2>2 DEF TypeOK
<1>4. ASSUME NEW a \in Attempt, Intercept(a) \/ Parse(a) \/ EventsDone(a) \/ CatchReports(a)
      PROVE  TypeOK' /\ Counted'
  <2>1. UNCHANGED <<requestVars, next, begun, thrown, client>>
    BY <1>4 DEF Intercept, Parse, EventsDone, CatchReports
  <2>2. /\ pc' \in [Attempt -> Place] /\ \A b \in Attempt \ {a} : pc'[b] = pc[b]
        /\ pc'[a] \in {"loop", "answered"}
        /\ pc'[a] = "loop" => pc[a] = "dispatch"
    <3>1. \/ pc[a] = "dispatch" /\ pc' = [pc EXCEPT ![a] = "loop"]
          \/ pc' = [pc EXCEPT ![a] = "answered"]
      BY <1>4 DEF Intercept, Parse, EventsDone, CatchReports
    <3>2. pc \in [Attempt -> Place]
      BY DEF TypeOK, Place
    <3> QED
      BY <3>1, <3>2 DEF Place
  <2>3. response' \in [Attempt -> Status \cup {0}]
    <3>1. UNCHANGED response \/ \E code \in Status : response' = [response EXCEPT ![a] = code]
      BY <1>4 DEF Status, Intercept, Parse, EventsDone, CatchReports
    <3> QED
      BY <3>1 DEF TypeOK
  <2>4. Counted'
    BY <1>0, <2>1, <2>2
  <2> QED
    BY <2>1, <2>2, <2>3, <2>4 DEF TypeOK, Place
<1>5. ASSUME NEW a \in Attempt,
             \/ \E what \in {"std", "garbled"} : ParseThrows(a, what)
             \/ \E what \in {"std", "garbled", "unknown"} : FunctionThrows(a, what)
             \/ CatchThrows(a)
      PROVE  TypeOK' /\ Counted'
  <2>1. UNCHANGED <<requestVars, next, begun, response, client>>
    BY <1>5 DEF ParseThrows, FunctionThrows, CatchThrows
  <2>2. /\ pc' \in [Attempt -> Place] /\ \A b \in Attempt \ {a} : pc'[b] = pc[b]
        /\ pc'[a] \in {"catch", "escaped"}
        /\ thrown' \in [Attempt -> {"none", "std", "garbled", "unknown"}]
    <3>1. CASE CatchThrows(a)
      BY <3>1 DEF CatchThrows, TypeOK, Place
    <3>2. ASSUME NEW what \in {"std", "garbled", "unknown"},
                 pc' = [pc EXCEPT ![a] = "catch"], thrown' = [thrown EXCEPT ![a] = what]
          PROVE  /\ pc' \in [Attempt -> Place] /\ \A b \in Attempt \ {a} : pc'[b] = pc[b]
                 /\ pc'[a] \in {"catch", "escaped"}
                 /\ thrown' \in [Attempt -> {"none", "std", "garbled", "unknown"}]
      BY <3>2 DEF TypeOK, Place
    <3> QED
      BY <1>5, <3>1, <3>2 DEF ParseThrows, FunctionThrows
  <2>3. Counted'
    BY <2>1, <2>2
  <2> QED
    BY <2>1, <2>2, <2>3 DEF TypeOK, Place
<1>6. ASSUME NEW a \in Attempt, CallEvent(a) \/ CallHttp(a) PROVE TypeOK' /\ Counted'
  <2>1. UNCHANGED <<requestVars, next, thrown, response, client>>
    BY <1>6 DEF CallEvent, CallHttp
  <2>2. /\ pc[a] \in {"dispatch", "loop"} /\ pc' = [pc EXCEPT ![a] = "function"]
        /\ begun' = [begun EXCEPT ![a] = begun[a] + 1]
    BY <1>6 DEF CallEvent, CallHttp
  <2>3. begun[a] = next[a] - 1
    BY <1>0, <2>2
  <2>4. begun' \in [Attempt -> Nat] /\ begun'[a] = next[a] /\ \A b \in Attempt \ {a} : begun'[b] = begun[b]
    BY <1>0, <2>2, <2>3 DEF TypeOK
  <2>5. \A b \in Attempt : next'[b] - 1 <= begun'[b]
    BY <1>0, <2>1, <2>4
  <2>6. Counted'
    BY <2>1, <2>2, <2>4 DEF TypeOK
  <2> QED
    BY <2>1, <2>2, <2>4, <2>5, <2>6 DEF TypeOK
<1>7. ASSUME NEW a \in Attempt, EventReturns(a) \/ \E code \in Status : HttpReturns(a, code)
      PROVE  TypeOK' /\ Counted'
  <2>1. UNCHANGED <<requestVars, begun, thrown, client>>
    BY <1>7 DEF EventReturns, HttpReturns
  <2>2. /\ pc[a] = "function" /\ next' = [next EXCEPT ![a] = next[a] + 1]
        /\ pc' \in [Attempt -> Place] /\ \A b \in Attempt \ {a} : pc'[b] = pc[b]
        /\ pc'[a] \in {"loop", "answered"}
    <3>1. /\ pc[a] = "function" /\ next' = [next EXCEPT ![a] = next[a] + 1]
          /\ \/ pc' = [pc EXCEPT ![a] = "loop"]
             \/ pc' = [pc EXCEPT ![a] = "answered"]
      BY <1>7 DEF EventReturns, HttpReturns
    <3>2. pc \in [Attempt -> Place]
      BY DEF TypeOK, Place
    <3> QED
      BY <3>1, <3>2 DEF Place
  <2>3. begun[a] = next[a] /\ response' \in [Attempt -> Status \cup {0}]
    <3>1. UNCHANGED response \/ \E code \in Status : response' = [response EXCEPT ![a] = code]
      BY <1>7 DEF EventReturns, HttpReturns
    <3> QED
      BY <2>2, <3>1 DEF TypeOK
  <2>4. next' \in [Attempt -> Nat] /\ next'[a] = begun[a] + 1 /\ \A b \in Attempt \ {a} : next'[b] = next[b]
    BY <1>0, <2>2, <2>3 DEF TypeOK
  <2>5. \A b \in Attempt : next'[b] - 1 <= begun'[b]
    BY <1>0, <2>1, <2>4
  <2>6. Counted'
    BY <1>0, <2>1, <2>2, <2>4 DEF TypeOK
  <2> QED
    BY <2>1, <2>2, <2>3, <2>4, <2>5, <2>6 DEF TypeOK, Place
<1> QED
  BY <1>1, <1>2, <1>3, <1>4, <1>5, <1>6, <1>7 DEF Next, Client, Framework, Function, Idle

\* No step of an attempt breaks what is said of it.
LEMMA ProgressStep ==
  ASSUME TypeOK, Counted, Progress, Untouched, NEW a \in Attempt, Framework(a) \/ Function(a)
  PROVE  Progress' /\ Untouched'
<1> USE DEF Answer, Throw, Status
<1>0. Len(batch) \in Nat /\ next[a] \in Nat /\ begun[a] \in Nat
  BY BatchLength DEF TypeOK
<1>1. /\ UNCHANGED <<kind, target, batch>>
      /\ \A b \in Attempt \ {a} : pc'[b] = pc[b] /\ next'[b] = next[b] /\ begun'[b] = begun[b]
           /\ response'[b] = response[b]
  BY OneAttempt DEF requestVars
<1>2. batch' = batch /\ AllGood' = AllGood
  BY <1>1 DEF AllGood
<1>3. ASSUME kind = "event", target = "function" PROVE OnItsWay(a)'
  <2> USE <1>2 DEF OnItsWay
  <2>0. /\ pc[a] = "dispatch" => next[a] = 1 /\ begun[a] = 0
        /\ pc[a] = "loop" => begun[a] = next[a] - 1 /\ next[a] <= Len(batch) + 1 /\ AllGood
        /\ pc[a] = "function" => begun[a] = next[a] /\ next[a] <= Len(batch) /\ AllGood
        /\ pc[a] = "catch" => next[a] <= Len(batch) /\ (begun[a] > 0 => AllGood)
    BY <1>3 DEF Counted, Progress
  <2>1. CASE Parse(a)
    BY <1>0, <2>0, <2>1 DEF Parse, TypeOK, AllGood
  <2>2. ASSUME NEW what \in {"std", "garbled"}, ParseThrows(a, what) PROVE OnItsWay(a)'
    BY <1>0, <2>0, <2>2 DEF ParseThrows, TypeOK
  <2>3. CASE CallEvent(a)
    BY <1>0, <2>0, <2>3 DEF CallEvent, TypeOK
  <2>4. CASE EventsDone(a)
    BY <1>0, <2>0, <2>4 DEF EventsDone, TypeOK
  <2>5. CASE CatchReports(a)
    BY <1>0, <2>0, <2>5 DEF CatchReports, TypeOK
  <2>6. CASE CatchThrows(a)
    BY <1>0, <2>0, <2>6 DEF CatchThrows, TypeOK
  <2>7. CASE EventReturns(a)
    BY <1>0, <2>0, <2>7 DEF EventReturns, TypeOK
  <2>8. ASSUME NEW what \in {"std", "garbled", "unknown"}, FunctionThrows(a, what) PROVE OnItsWay(a)'
    BY <1>0, <2>0, <2>8 DEF FunctionThrows, TypeOK
  <2> QED
    <3> HIDE DEF OnItsWay
    <3> QED
      BY <1>3, <2>1, <2>2, <2>3, <2>4, <2>5, <2>6, <2>7, <2>8
         DEF Framework, Function, Intercept, CallHttp, HttpReturns
<1>4. ASSUME kind = "event", target # "function"
      PROVE  /\ pc'[a] = "answered" /\ response'[a] = 404
             /\ begun'[a] = 0
  <2>1. pc[a] = "dispatch" /\ begun[a] = 0
    BY <1>4, OneAttempt DEF Untouched
  <2>2. Intercept(a)
    BY <1>4, <2>1 DEF Framework, Function, Parse, ParseThrows, CallEvent, CallHttp, EventReturns,
       EventsDone, HttpReturns, FunctionThrows, CatchReports, CatchThrows
  <2> QED
    BY <2>1, <2>2 DEF Intercept, TypeOK
<1>5. Progress'
  BY <1>1, <1>2, <1>3 DEF Progress, OnItsWay
<1>6. Untouched'
  BY <1>1, <1>4 DEF Untouched
<1> QED
  BY <1>5, <1>6

\* The invariant holds at first and no step breaks it.
THEOREM Invariance == Spec => []IInv
<1>1. Init => IInv
  BY DEF Init, IInv, TypeOK, Unsent, Counted, Progress, OnItsWay, Untouched, Acked, Attempt
<1>2. IInv /\ [Next]_vars => IInv'
  <2> SUFFICES ASSUME IInv, [Next]_vars PROVE IInv'
    OBVIOUS
  <2> USE DEF IInv
  <2>0. TypeOK' /\ Counted'
    BY TypeStep
  <2>1. CASE UNCHANGED vars
    BY <2>0, <2>1 DEF vars, requestVars, Unsent, Progress, OnItsWay, Untouched, Acked, AllGood
  <2>2. ASSUME NEW a \in Attempt, Framework(a) \/ Function(a) PROVE IInv'
    <3>1. Progress' /\ Untouched'
      BY <2>2, ProgressStep
    <3>2. UNCHANGED client /\ pc[a] \notin {"unsent", "answered", "escaped"}
      BY <2>2, OneAttempt
    <3>3. \A b \in Attempt \ {a} : pc'[b] = pc[b] /\ response'[b] = response[b]
      BY <2>2, OneAttempt
    <3>4. Unsent'
      BY <3>2, <3>3 DEF Unsent
    <3>5. Acked'
      BY <3>2, <3>3 DEF Acked
    <3> QED
      BY <2>0, <3>1, <3>4, <3>5
  <2>3. ASSUME NEW a \in Attempt, Send(a) PROVE IInv'
    <3>1. pc[a] = "unsent" /\ pc' = [pc EXCEPT ![a] = "dispatch"] /\ pc'[a] = "dispatch"
      BY <2>3 DEF Send, Unsent, TypeOK, Attempt
    <3>2. UNCHANGED <<kind, target, batch, next, begun, response>>
      BY <2>3 DEF Send, requestVars
    <3>3. Progress'
      BY <3>1, <3>2 DEF TypeOK, Progress, OnItsWay, AllGood
    <3>4. Untouched'
      BY <3>1, <3>2 DEF TypeOK, Untouched
    <3>5. Unsent' /\ Acked'
      <4>1. client \in [last : Attempt \cup {0}, waits : BOOLEAN, acked : BOOLEAN]
        BY DEF TypeOK
      <4>2. /\ client'.last = a /\ client'.waits /\ ~client'.acked
            /\ client.last + 1 = a
        BY <2>3, <4>1 DEF Send
      <4>3. \A b \in Attempt \ {a} : pc'[b] = pc[b]
        BY <3>1 DEF TypeOK
      <4>4. Acked'
        BY <4>2 DEF Acked
      <4>5. Unsent'
        BY <4>1, <4>2, <4>3 DEF Unsent, Attempt
      <4> QED
        BY <4>4, <4>5
    <3> QED
      BY <2>0, <3>3, <3>4, <3>5
  <2>4. CASE Receive \/ GiveUpWaiting
    <3>1. UNCHANGED <<kind, target, batch, pc, next, begun, response>> /\ client'.last = client.last
      <4>1. client \in [last : Attempt \cup {0}, waits : BOOLEAN, acked : BOOLEAN]
        BY DEF TypeOK
      <4> QED
        <5>1. CASE Receive
          BY <4>1, <5>1 DEF Receive, requestVars
        <5>2. CASE GiveUpWaiting
          BY <4>1, <5>2 DEF GiveUpWaiting, requestVars
        <5> QED
          BY <2>4, <5>1, <5>2
    <3>2. Progress' /\ Untouched'
      BY <3>1 DEF Progress, OnItsWay, Untouched, AllGood
    <3>3. Unsent' /\ Acked'
      <4>1. client \in [last : Attempt \cup {0}, waits : BOOLEAN, acked : BOOLEAN]
        BY DEF TypeOK
      <4>2. Unsent'
        BY <2>4, <3>1, <4>1 DEF Receive, GiveUpWaiting, Unsent
      <4>3. Acked'
        <5>1. CASE GiveUpWaiting
          BY <3>1, <4>1, <5>1 DEF GiveUpWaiting, Acked
        <5>2. CASE Receive
          BY <3>1, <4>1, <5>2 DEF Receive, Unsent, Acked
        <5> QED
          BY <2>4, <5>1, <5>2
      <4> QED
        BY <4>2, <4>3
    <3> QED
      BY <2>0, <3>2, <3>3
  <2> QED
    BY <2>1, <2>2, <2>3, <2>4 DEF Next, Client, Idle
<1> QED
  BY <1>1, <1>2, PTL DEF Spec

\* Every variable keeps its type, and no attempt is past an event it has not begun.
THEOREM TypeCorrect == Spec => []TypeOK
<1>1. IInv => TypeOK
  BY DEF IInv
<1> QED
  BY <1>1, Invariance, PTL

\* 200 means the function returned from every event of the batch, and only that.
THEOREM StatusTellsTheTruth == Spec => []StatusIsTruthful
<1>1. IInv => StatusIsTruthful
  <2> SUFFICES ASSUME IInv, kind = "event", target = "function", NEW a \in Attempt,
                      pc[a] = "answered"
               PROVE  response[a] = 200 <=> begun[a] = Len(batch) /\ next[a] = Len(batch) + 1
    BY DEF StatusIsTruthful
  <2>1. Len(batch) \in Nat /\ next[a] \in Nat
    BY BatchLength DEF IInv, TypeOK
  <2> QED
    BY <2>1 DEF IInv, Progress, OnItsWay
<1> QED
  BY <1>1, Invariance, PTL

\* A client that stops because of a 200 was told it of a batch handled to its end.
THEOREM AcknowledgedIsHandled == Spec => []AckMeansHandled
<1>1. IInv => AckMeansHandled
  <2> SUFFICES ASSUME IInv, kind = "event", client.acked
               PROVE  next[client.last] = Len(batch) + 1
    BY DEF AckMeansHandled
  <2>1. client.last \in Attempt /\ pc[client.last] = "answered" /\ response[client.last] = 200
    BY DEF IInv, Acked
  <2>2. target = "function"
    BY <2>1 DEF IInv, Untouched
  <2> QED
    BY <2>1, <2>2 DEF IInv, Progress, OnItsWay
<1> QED
  BY <1>1, Invariance, PTL

\* A batch with an event that does not parse is never handed to the function, not even
\* in part and not even again.
THEOREM BadBatchIsRefused == Spec => []BadBatchNeverCalls
<1>1. IInv => BadBatchNeverCalls
  <2> SUFFICES ASSUME IInv, kind = "event", NEW i \in 1..Len(batch), batch[i] = "bad",
                      NEW a \in Attempt
               PROVE  begun[a] = 0
    BY DEF BadBatchNeverCalls
  <2>1. begun[a] \in Nat
    BY DEF IInv, TypeOK
  <2>2. ~AllGood
    BY DEF AllGood
  <2> QED
    BY <2>1, <2>2 DEF IInv, Progress, OnItsWay, Untouched
<1> QED
  BY <1>1, Invariance, PTL
==============================================================================

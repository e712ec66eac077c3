--------------------------- MODULE CallUserFunction --------------------------
(***************************************************************************)
(* The handler of a session: both overloads of CallUserFunction, between   *)
(* HandleSession, which gives it a request, and the user's function.       *)
(*                                                                         *)
(* The other end is a client that delivers one request until it gets a 200 *)
(* (an event source pushing a batch of events): it tries again after any   *)
(* other answer, after losing the connection, and after a time of its own, *)
(* so an old attempt may still run when a new one does. Every attempt has  *)
(* a session of its own.                                                   *)
(***************************************************************************)
EXTENDS Naturals, Sequences

CONSTANTS MaxAttempts,  \* bound: the times the client may try
          Batches       \* the batches it may hold; an event is "good" or "bad"

ASSUME CallAssumption ==
  /\ MaxAttempts \in Nat \ {0}
  /\ Batches \subseteq Seq({"good", "bad"})

VARIABLES
  kind,      \* the signature of the user's function: "http" or "event"
  target,    \* "function", or a path browsers ask for: "favicon", "robots"
  batch,     \* the events in the request; "bad" does not parse
  pc,        \* where each attempt is
  next,      \* the event each attempt is at
  begun,     \* events each attempt has called the function for
  thrown,    \* what each attempt's catch clause caught
  response,  \* the status each attempt answered with
  client     \* the client's last attempt, and whether it waits for the answer

requestVars == <<kind, target, batch>>
vars == <<requestVars, pc, next, begun, thrown, response, client>>

Attempt == 1..MaxAttempts
Status == {200, 404, 500}

Init ==
  /\ kind \in {"http", "event"}
  /\ target \in {"function", "favicon", "robots"}
  /\ batch \in Batches
  /\ pc = [a \in Attempt |-> "unsent"]
  /\ next = [a \in Attempt |-> 1]
  /\ begun = [a \in Attempt |-> 0]
  /\ thrown = [a \in Attempt |-> "none"]
  /\ response = [a \in Attempt |-> 0]
  /\ client = [last |-> 0, waits |-> FALSE, acked |-> FALSE]

-----------------------------------------------------------------------------
(* The client.                                                             *)

Send(a) ==
  /\ ~client.waits /\ ~client.acked
  /\ a = client.last + 1
  /\ client' = [client EXCEPT !.last = a, !.waits = TRUE]
  /\ pc' = [pc EXCEPT ![a] = "dispatch"]
  /\ UNCHANGED <<requestVars, next, begun, thrown, response>>

Receive ==
  /\ client.waits
  /\ pc[client.last] = "answered"
  /\ client' = [client EXCEPT !.waits = FALSE, !.acked = response[client.last] = 200]
  /\ UNCHANGED <<requestVars, pc, next, begun, thrown, response>>

\* The connection was closed or lost, or the client waited long enough.
GiveUpWaiting ==
  /\ client.waits
  /\ client' = [client EXCEPT !.waits = FALSE]
  /\ UNCHANGED <<requestVars, pc, next, begun, thrown, response>>

-----------------------------------------------------------------------------
(* One attempt.                                                            *)

Answer(a, code) ==
  /\ pc' = [pc EXCEPT ![a] = "answered"]
  /\ response' = [response EXCEPT ![a] = code]

Throw(a, what) ==
  /\ pc' = [pc EXCEPT ![a] = "catch"]
  /\ thrown' = [thrown EXCEPT ![a] = what]

\* The paths a browser asks for on its own never reach the function.
Intercept(a) ==
  /\ pc[a] = "dispatch"
  /\ target \in {"favicon", "robots"}
  /\ Answer(a, 404)
  /\ UNCHANGED <<requestVars, next, begun, thrown, client>>

\* Mutant: events are parsed as they come, so only the first one is parsed here.
ParseLazily(a) ==
  /\ pc[a] = "dispatch"
  /\ target = "function" /\ kind = "event"
  /\ \A i \in 1..Len(batch) : i = 1 => batch[i] = "good"
  /\ pc' = [pc EXCEPT ![a] = "loop"]
  /\ UNCHANGED <<requestVars, next, begun, thrown, response, client>>

\* ParseCloudEventHttp makes every event of the request before the first call.
Parse(a) ==
  /\ pc[a] = "dispatch"
  /\ target = "function" /\ kind = "event"
  /\ \A i \in 1..Len(batch) : batch[i] = "good"
  /\ pc' = [pc EXCEPT ![a] = "loop"]
  /\ UNCHANGED <<requestVars, next, begun, thrown, response, client>>

\* The text of the exception may quote the body, which need not be UTF-8.
ParseThrows(a, what) ==
  /\ pc[a] = "dispatch"
  /\ target = "function" /\ kind = "event"
  /\ \E i \in 1..Len(batch) : batch[i] = "bad"
  /\ Throw(a, what)
  /\ UNCHANGED <<requestVars, next, begun, response, client>>

\* for (auto const& ce : events) function(ce)
CallEvent(a) ==
  /\ pc[a] = "loop"
  /\ next[a] <= Len(batch)
  /\ begun' = [begun EXCEPT ![a] = @ + 1]
  /\ pc' = [pc EXCEPT ![a] = "function"]
  /\ UNCHANGED <<requestVars, next, thrown, response, client>>

CallHttp(a) ==
  /\ pc[a] = "dispatch"
  /\ target = "function" /\ kind = "http"
  /\ begun' = [begun EXCEPT ![a] = @ + 1]
  /\ pc' = [pc EXCEPT ![a] = "function"]
  /\ UNCHANGED <<requestVars, next, thrown, response, client>>

EventReturns(a) ==
  /\ pc[a] = "function" /\ kind = "event"
  /\ next' = [next EXCEPT ![a] = @ + 1]
  /\ pc' = [pc EXCEPT ![a] = "loop"]
  /\ UNCHANGED <<requestVars, begun, thrown, response, client>>

\* Mutant: >= for >.
EventsDoneEarly(a) ==
  /\ pc[a] = "loop"
  /\ next[a] >= Len(batch)
  /\ Answer(a, 200)
  /\ UNCHANGED <<requestVars, next, begun, thrown, client>>

\* Mutant: no answer to a batch with no events.
EventsDoneUnlessEmpty(a) ==
  /\ pc[a] = "loop"
  /\ next[a] > Len(batch) /\ batch # <<>>
  /\ Answer(a, 200)
  /\ UNCHANGED <<requestVars, next, begun, thrown, client>>

EventsDone(a) ==
  /\ pc[a] = "loop"
  /\ next[a] > Len(batch)
  /\ Answer(a, 200)
  /\ UNCHANGED <<requestVars, next, begun, thrown, client>>

\* The status is the function's own choice.
HttpReturns(a, code) ==
  /\ pc[a] = "function" /\ kind = "http"
  /\ next' = [next EXCEPT ![a] = @ + 1]
  /\ Answer(a, code)
  /\ UNCHANGED <<requestVars, begun, thrown, client>>

\* The function throws; or the response it returned is not one the framework made,
\* and unwrap() throws.
FunctionThrows(a, what) ==
  /\ pc[a] = "function"
  /\ Throw(a, what)
  /\ UNCHANGED <<requestVars, next, begun, response, client>>

\* Mutant: the response made in the catch clause keeps its default status.
CatchReportsOk(a) ==
  /\ pc[a] = "catch"
  /\ thrown[a] \in {"std", "unknown"}
  /\ Answer(a, 200)
  /\ UNCHANGED <<requestVars, next, begun, thrown, client>>

CatchReports(a) ==
  /\ pc[a] = "catch"
  /\ thrown[a] \in {"std", "unknown"}
  /\ Answer(a, 500)
  /\ UNCHANGED <<requestVars, next, begun, thrown, client>>

\* error.dump() throws on a message that is not UTF-8, out of the catch clause and of
\* the session: the client gets no answer.
CatchThrows(a) ==
  /\ pc[a] = "catch"
  /\ thrown[a] = "garbled"
  /\ pc' = [pc EXCEPT ![a] = "escaped"]
  /\ UNCHANGED <<requestVars, next, begun, thrown, response, client>>

-----------------------------------------------------------------------------
Client == (\E a \in Attempt : Send(a)) \/ Receive \/ GiveUpWaiting

Framework(a) ==
  \/ Intercept(a) \/ Parse(a) \/ \E what \in {"std", "garbled"} : ParseThrows(a, what)
  \/ CallEvent(a) \/ CallHttp(a) \/ EventsDone(a)
  \/ CatchReports(a) \/ CatchThrows(a)

Function(a) ==
  \/ EventReturns(a)
  \/ \E code \in Status : HttpReturns(a, code)
  \/ \E what \in {"std", "garbled", "unknown"} : FunctionThrows(a, what)

Settled(a) == pc[a] \in {"unsent", "answered", "escaped"}

Idle ==
  /\ ~client.waits /\ (client.acked \/ client.last + 1 \notin Attempt)
  /\ \A a \in Attempt : Settled(a)
  /\ UNCHANGED vars

Next == Client \/ (\E a \in Attempt : Framework(a) \/ Function(a)) \/ Idle

Spec == Init /\ [][Next]_vars

\* The session threads run; neither the function nor the client owes anything.
FairSpec == Spec /\ \A a \in Attempt : WF_vars(Framework(a))

-----------------------------------------------------------------------------
(* Properties.                                                             *)

TypeOK ==
  /\ kind \in {"http", "event"} /\ target \in {"function", "favicon", "robots"}
  /\ batch \in Batches
  /\ pc \in [Attempt -> {"unsent", "dispatch", "loop", "function", "catch", "answered", "escaped"}]
  /\ next \in [Attempt -> Nat]
  /\ begun \in [Attempt -> Nat]
  /\ \A a \in Attempt : next[a] - 1 <= begun[a]
  /\ thrown \in [Attempt -> {"none", "std", "garbled", "unknown"}]
  /\ response \in [Attempt -> Status \cup {0}]
  /\ client \in [last : Attempt \cup {0}, waits : BOOLEAN, acked : BOOLEAN]

\* The status of a batch tells the client what it needs to know: 200 exactly when the
\* function returned from every event of it (call_user_function.cc:89-93).
StatusIsTruthful ==
  kind = "event" /\ target = "function" =>
    \A a \in Attempt :
      pc[a] = "answered" =>
        (response[a] = 200 <=> begun[a] = Len(batch) /\ next[a] = Len(batch) + 1)

\* Whatever attempts overlap, a client that was told 200 stops, with each event
\* handled to its end by the attempt it was told about.
AckMeansHandled ==
  kind = "event" /\ client.acked => next[client.last] = Len(batch) + 1

\* If one event of the batch does not parse, the function sees none of them, in any
\* attempt (call_user_function.cc:89).
BadBatchNeverCalls ==
  kind = "event" /\ (\E i \in 1..Len(batch) : batch[i] = "bad") =>
    \A a \in Attempt : begun[a] = 0

\* If the function ends, every attempt is answered or its session throws.
FunctionEnds == \A a \in Attempt : pc[a] = "function" ~> pc[a] # "function"
EveryAttemptSettles ==
  FunctionEnds => \A a \in Attempt : pc[a] = "dispatch" ~> pc[a] \in {"answered", "escaped"}
==============================================================================

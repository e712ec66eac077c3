----------------------------- MODULE HttpSession -----------------------------
(***************************************************************************)
(* The session threads: HandleSession, one per connection, with the client *)
(* at the other end of the socket and the stdio buffers they share.        *)
(*                                                                         *)
(* What a client writes is a stream of parts: the odd part 2r - 1 is the   *)
(* beginning of its request r, the even part 2r the rest of it. The parts  *)
(* in flight are taken + 1 .. sent. The handler is abstract: it prints     *)
(* something and returns a response, or throws.                            *)
(***************************************************************************)
EXTENDS Naturals, Sequences

CONSTANTS Conn,         \* the connections
          MaxRequests,  \* bound: requests a client makes on a connection
          Pipelining    \* clients may send a request before the last is answered

ASSUME SessionAssumption ==
  /\ MaxRequests \in Nat \ {0}
  /\ Pipelining \in BOOLEAN

VARIABLES
  pc,        \* where each session is
  client,    \* what the client did to its end: "open", "closed" (to sending), "reset"
  sent,      \* parts the client has written
  asked,     \* for each request it began, whether it asks to keep the connection
  taken,     \* parts the session has read off the socket
  keep,      \* the session's local keep_alive
  calls,     \* the requests given to the handler, in order
  answers,   \* the responses the client can read, in order
  buffered,  \* requests whose output is in the stdio buffers
  logged,    \* requests whose output left the process
  killed     \* the platform stopped the process

clientVars == <<client, sent, asked>>
vars == <<pc, clientVars, taken, keep, calls, answers, buffered, logged, killed>>

Ended == {"returned", "threw"}
Request == 1..MaxRequests
Current(c) == calls[c][Len(calls[c])]

Init ==
  /\ pc = [c \in Conn |-> "idle"]
  /\ client = [c \in Conn |-> "open"]
  /\ sent = [c \in Conn |-> 0]
  /\ asked = [c \in Conn |-> <<>>]
  /\ taken = [c \in Conn |-> 0]
  /\ keep = [c \in Conn |-> FALSE]
  /\ calls = [c \in Conn |-> <<>>]
  /\ answers = [c \in Conn |-> <<>>]
  /\ buffered = {} /\ logged = {}
  /\ killed = FALSE

-----------------------------------------------------------------------------
(* The client and the platform.                                            *)

CanSend(c) == client[c] = "open" /\ pc[c] \notin Ended /\ ~killed

BeginRequest(c, wantsKeep) ==
  /\ CanSend(c)
  /\ sent[c] % 2 = 0 /\ sent[c] < 2 * MaxRequests
  /\ ~Pipelining => 2 * Len(answers[c]) = sent[c]
  /\ sent' = [sent EXCEPT ![c] = @ + 1]
  /\ asked' = [asked EXCEPT ![c] = Append(@, wantsKeep)]
  /\ UNCHANGED <<pc, client, taken, keep, calls, answers, buffered, logged, killed>>

CompleteRequest(c) ==
  /\ CanSend(c)
  /\ sent[c] % 2 = 1
  /\ sent' = [sent EXCEPT ![c] = @ + 1]
  /\ UNCHANGED <<pc, client, asked, taken, keep, calls, answers, buffered, logged, killed>>

Leave(c, how) ==
  /\ \/ client[c] = "open"
     \/ client[c] = "closed" /\ how = "reset"
  /\ client' = [client EXCEPT ![c] = how]
  /\ UNCHANGED <<pc, sent, asked, taken, keep, calls, answers, buffered, logged, killed>>

Kill ==
  /\ ~killed
  /\ killed' = TRUE
  /\ buffered' = {}
  /\ UNCHANGED <<pc, clientVars, taken, keep, calls, answers, logged>>

-----------------------------------------------------------------------------
(* The session.                                                            *)

At(c, place) == pc[c] = place /\ ~killed
Goto(c, place) == pc' = [pc EXCEPT ![c] = place]

\* std::async runs handle_session in a new thread.
Start(c) ==
  /\ At(c, "idle")
  /\ Goto(c, "read")
  /\ UNCHANGED <<clientVars, taken, keep, calls, answers, buffered, logged, killed>>

\* Mutant: keep_alive is asked of the request after the move, which left it a default
\* HTTP/1.1 message.
ReadRequestMovedFirst(c) ==
  /\ At(c, "read")
  /\ client[c] # "reset"
  /\ taken[c] % 2 = 0
  /\ \E upto \in (taken[c] + 2)..sent[c] : taken' = [taken EXCEPT ![c] = upto]
  /\ keep' = [keep EXCEPT ![c] = TRUE]
  /\ calls' = [calls EXCEPT ![c] = Append(@, taken[c] \div 2 + 1)]
  /\ Goto(c, "handle")
  /\ UNCHANGED <<clientVars, answers, buffered, logged, killed>>

\* Mutant: the read returns before the rest of the request has come.
ReadRequestEarly(c) ==
  /\ At(c, "read")
  /\ client[c] # "reset"
  /\ sent[c] > taken[c]
  /\ taken' = [taken EXCEPT ![c] = taken[c] + 2]
  /\ LET r == taken[c] \div 2 + 1
     IN  /\ keep' = [keep EXCEPT ![c] = asked[c][r]]
         /\ calls' = [calls EXCEPT ![c] = Append(@, r)]
  /\ Goto(c, "handle")
  /\ UNCHANGED <<clientVars, answers, buffered, logged, killed>>

\* http::read got a whole request, and with it whatever else was in the socket: the
\* flat_buffer that holds the surplus is a local of this iteration of the loop.
ReadRequest(c) ==
  /\ At(c, "read")
  /\ client[c] # "reset"
  /\ taken[c] % 2 = 0
  /\ \E upto \in (taken[c] + 2)..sent[c] : taken' = [taken EXCEPT ![c] = upto]
  /\ LET r == taken[c] \div 2 + 1
     IN  /\ keep' = [keep EXCEPT ![c] = asked[c][r]]
         /\ calls' = [calls EXCEPT ![c] = Append(@, r)]
  /\ Goto(c, "handle")
  /\ UNCHANGED <<clientVars, answers, buffered, logged, killed>>

\* The connection is reset, or the stream ends inside a request, or it goes on with
\* the end of a request whose beginning went with an earlier buffer.
ReadBreaks(c) ==
  /\ At(c, "read")
  /\ \/ client[c] = "reset"
     \/ client[c] = "closed" /\ sent[c] = taken[c] + 1
     \/ taken[c] % 2 = 1 /\ sent[c] > taken[c]
  /\ Goto(c, "returned")
  /\ UNCHANGED <<clientVars, taken, keep, calls, answers, buffered, logged, killed>>

\* What the client sent is not a request, or its body is over the parser's limit.
ReadRefuses(c) ==
  /\ At(c, "read")
  /\ sent[c] > taken[c]
  /\ Goto(c, "returned")
  /\ UNCHANGED <<clientVars, taken, keep, calls, answers, buffered, logged, killed>>

\* Mutant: the end of the stream is taken for a request that has not come yet.
EndOfStreamIgnored(c) ==
  /\ At(c, "read")
  /\ client[c] = "closed" /\ sent[c] = taken[c]
  /\ UNCHANGED vars

EndOfStream(c) ==
  /\ At(c, "read")
  /\ client[c] = "closed" /\ sent[c] = taken[c]
  /\ Goto(c, "shutdown")
  /\ UNCHANGED <<clientVars, taken, keep, calls, answers, buffered, logged, killed>>

\* Mutant: the response is written before the buffers are flushed.
HandlerReturnsUnflushed(c) ==
  /\ At(c, "handle")
  /\ buffered' = buffered \cup {<<c, Current(c)>>}
  /\ Goto(c, "write")
  /\ UNCHANGED <<clientVars, taken, keep, calls, answers, logged, killed>>

HandlerReturns(c) ==
  /\ At(c, "handle")
  /\ buffered' = buffered \cup {<<c, Current(c)>>}
  /\ Goto(c, "flush")
  /\ UNCHANGED <<clientVars, taken, keep, calls, answers, logged, killed>>

\* The exception leaves HandleSession, whose socket is destroyed.
HandlerThrows(c) ==
  /\ At(c, "handle")
  /\ buffered' = buffered \cup {<<c, Current(c)>>}
  /\ Goto(c, "threw")
  /\ UNCHANGED <<clientVars, taken, keep, calls, answers, logged, killed>>

\* Mutant: a client that does not keep the connection gets no response.
FlushThenSkip(c) ==
  /\ At(c, "flush")
  /\ logged' = logged \cup buffered
  /\ buffered' = {}
  /\ Goto(c, IF keep[c] THEN "write" ELSE "read")
  /\ UNCHANGED <<clientVars, taken, keep, calls, answers, killed>>

\* The buffers are the process's: what the other sessions printed goes out too.
Flush(c) ==
  /\ At(c, "flush")
  /\ logged' = logged \cup buffered
  /\ buffered' = {}
  /\ Goto(c, "write")
  /\ UNCHANGED <<clientVars, taken, keep, calls, answers, killed>>

\* Mutant: a response is written again after it was sent.
WriteAgain(c) ==
  /\ At(c, "write")
  /\ client[c] # "reset"
  /\ answers' = [answers EXCEPT ![c] = Append(@, [req |-> Current(c), keep |-> keep[c]])]
  /\ \E place \in {"read", "write"} : Goto(c, place)
  /\ UNCHANGED <<clientVars, taken, keep, calls, buffered, logged, killed>>

\* The loop goes on whatever keep_alive is: it is for the client to close. The call has no
\* timeout: it returns when the client has read enough, and may never return.
Write(c) ==
  /\ At(c, "write")
  /\ client[c] # "reset"
  /\ answers' = [answers EXCEPT ![c] = Append(@, [req |-> Current(c), keep |-> keep[c]])]
  /\ Goto(c, "read")
  /\ UNCHANGED <<clientVars, taken, keep, calls, buffered, logged, killed>>

\* Mutant: the error of the write is reported and the loop goes on.
WriteFailsContinues(c) ==
  /\ At(c, "write")
  /\ client[c] = "reset"
  /\ Goto(c, "read")
  /\ UNCHANGED <<clientVars, taken, keep, calls, answers, buffered, logged, killed>>

WriteFails(c) ==
  /\ At(c, "write")
  /\ client[c] = "reset"
  /\ Goto(c, "returned")
  /\ UNCHANGED <<clientVars, taken, keep, calls, answers, buffered, logged, killed>>

Shutdown(c) ==
  /\ At(c, "shutdown")
  /\ Goto(c, "returned")
  /\ UNCHANGED <<clientVars, taken, keep, calls, answers, buffered, logged, killed>>

-----------------------------------------------------------------------------
Client(c) ==
  \/ \E wantsKeep \in BOOLEAN : BeginRequest(c, wantsKeep)
  \/ CompleteRequest(c)
  \/ \E how \in {"closed", "reset"} : Leave(c, how)

\* The steps HandleSession takes by itself: how long the handler takes, and whether
\* the client sends requests or reads responses, is not for it to say.
Session(c) ==
  \/ ReadRequest(c) \/ ReadBreaks(c) \/ EndOfStream(c)
  \/ Flush(c) \/ WriteFails(c) \/ Shutdown(c)

Handler(c) == HandlerReturns(c) \/ HandlerThrows(c)

Stopped ==
  /\ killed \/ \A c \in Conn : pc[c] \in Ended
  /\ UNCHANGED vars

Next ==
  \/ \E c \in Conn : Client(c) \/ Start(c) \/ Session(c) \/ Write(c) \/ ReadRefuses(c) \/ Handler(c)
  \/ Kill
  \/ Stopped

Spec == Init /\ [][Next]_vars

\* The scheduler runs the session threads, up to a call that waits for somebody else.
\* Clients, who may stop reading, the user's function and the platform owe nothing.
FairSpec == Spec /\ \A c \in Conn : WF_vars(Session(c))

-----------------------------------------------------------------------------
(* Properties.                                                             *)

TypeOK ==
  /\ pc \in [Conn -> {"idle", "read", "handle", "flush", "write", "shutdown"} \cup Ended]
  /\ client \in [Conn -> {"open", "closed", "reset"}]
  /\ sent \in [Conn -> 0..(2 * MaxRequests)]
  /\ asked \in [Conn -> Seq(BOOLEAN)]
  /\ \A c \in Conn : Len(asked[c]) = (sent[c] + 1) \div 2
  /\ taken \in [Conn -> 0..(2 * MaxRequests)]
  /\ \A c \in Conn : taken[c] <= sent[c]
  /\ keep \in [Conn -> BOOLEAN]
  /\ calls \in [Conn -> Seq(Request)]
  /\ answers \in [Conn -> Seq([req : Request, keep : BOOLEAN])]
  /\ buffered \subseteq Conn \X Request
  /\ logged \subseteq Conn \X Request
  /\ killed \in BOOLEAN

\* The client takes the i-th response for the response to its i-th request.
AnswersInOrder ==
  \A c \in Conn : \A i \in 1..Len(answers[c]) : answers[c][i].req = i

\* A client that has the response finds the function's output in the log, even if
\* the process dies at once (framework_impl.cc:53).
AnsweredIsLogged ==
  \A c \in Conn : \A i \in 1..Len(answers[c]) : <<c, answers[c][i].req>> \in logged

\* Each response carries the keep-alive of its own request, which was moved away
\* before the response existed (framework_impl.cc:51,61).
KeepAliveEchoed ==
  \A c \in Conn : \A i \in 1..Len(answers[c]) :
    answers[c][i].keep = asked[c][answers[c][i].req]

\* A session that goes on to read another request has answered all it handled, each
\* once; one that stops leaves at most its last call unanswered.
CallsAnswered ==
  \A c \in Conn :
    /\ Len(calls[c]) \in {Len(answers[c]), Len(answers[c]) + 1}
    /\ pc[c] \in {"read", "shutdown"} => Len(calls[c]) = Len(answers[c])

\* What a session waits for without a timeout: the function, which may take as long as
\* it wants but ends; and a client that reads the response, or resets (framework_impl.cc:62).
HandlerEnds(c) == WF_vars(Handler(c))
ClientReads(c) == WF_vars(Write(c))

\* If the function ends and this client reads, or resets, the session ends after its client
\* closed, whatever the functions and the clients of other sessions do.
SessionEndsAfterClient ==
  \A c \in Conn :
    HandlerEnds(c) /\ ClientReads(c) =>
      (client[c] # "open" /\ pc[c] # "idle" ~> pc[c] \in Ended \/ killed)

\* If the function ends and this client reads, a running session always comes to have
\* answered every whole request the client sent, unless it ends first. The client is one
\* that waits for each response before its next request.
RequestAnswered ==
  \A c \in Conn :
    HandlerEnds(c) /\ ClientReads(c) =>
      (pc[c] # "idle" ~> Len(answers[c]) >= sent[c] \div 2 \/ pc[c] \in Ended \/ killed)

\* "invoking @p handler to handle any HTTP request" (framework.h:30): no request is
\* handled while an earlier one of the same connection was not.
NoRequestSkipped ==
  \A c \in Conn : \A i \in 1..Len(calls[c]) : calls[c][i] = i
==============================================================================

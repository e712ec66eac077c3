-------------------------- MODULE HttpSessionProofs --------------------------
(***************************************************************************)
(* For every set of connections, any number of requests on each and any    *)
(* interleaving of their threads: what a session answers, it answers once, *)
(* with its own request's keep-alive, after the function's output is out.  *)
(***************************************************************************)
EXTENDS HttpSession, SequenceTheorems, TLAPS

\* The places at which a session has a request it has not answered.
Busy == {"handle", "flush", "write"}

\* A call is made when all the earlier ones are answered.
Pending ==
  \A c \in Conn :
    /\ pc[c] \in {"idle", "read", "shutdown"} => Len(calls[c]) = Len(answers[c])
    /\ pc[c] \in Busy => Len(calls[c]) = Len(answers[c]) + 1
    /\ pc[c] \in Ended => Len(calls[c]) \in {Len(answers[c]), Len(answers[c]) + 1}

\* The output of a call is in the buffers or out before the write, and out at it. Any
\* session's flush may have been the one that let it out.
Printed ==
  \A c \in Conn :
    /\ pc[c] = "flush" /\ ~killed => <<c, Current(c)>> \in buffered \cup logged
    /\ pc[c] = "write" => <<c, Current(c)>> \in logged

\* A session remembers of the request it moved away whether to keep the connection.
Remembered ==
  \A c \in Conn :
    /\ \A i \in 1..Len(calls[c]) : calls[c][i] <= Len(asked[c])
    /\ \A i \in 1..Len(answers[c]) : answers[c][i].req <= Len(asked[c])
    /\ pc[c] \in Busy => keep[c] = asked[c][Current(c)]

\* A client that waits for each answer never has two requests in the socket, so no
\* read takes more than one.
OneByOne ==
  ~Pipelining =>
    \A c \in Conn :
      /\ sent[c] <= 2 * Len(answers[c]) + 2
      /\ taken[c] = 2 * Len(calls[c])
      /\ \A i \in 1..Len(calls[c]) : calls[c][i] = i

IInv ==
  /\ TypeOK
  /\ Pending /\ Printed /\ Remembered /\ OneByOne
  /\ AnsweredIsLogged /\ KeepAliveEchoed
  /\ ~Pipelining => AnswersInOrder

-----------------------------------------------------------------------------
USE SessionAssumption

\* Of requests in two parts, the one after an even number of parts is among those written.
LEMMA NextOfEven ==
  ASSUME NEW t \in Nat, NEW n \in Nat, t % 2 = 0, t + 2 <= n,
         n <= 2 * MaxRequests
  PROVE  t \div 2 + 1 \in 1..MaxRequests /\ t \div 2 + 1 <= (n + 1) \div 2
<1>1. PICK h \in Nat : t = 2 * h
  <2>1. t \div 2 \in Nat /\ t = 2 * (t \div 2)
    OBVIOUS
  <2> QED
    BY <2>1
<1>2. t \div 2 = h
  BY <1>1
<1>3. MaxRequests \in Nat
  BY SessionAssumption
<1>4. h + 1 <= MaxRequests
  BY <1>1, <1>3
<1>5. h + 1 <= (n + 1) \div 2
  BY <1>1
<1> QED
  BY <1>2, <1>3, <1>4, <1>5

\* The first part of a request adds one to the requests begun, the second part none.
LEMMA HalfOfEven ==
  ASSUME NEW n \in Nat, n % 2 = 0
  PROVE  (n + 2) \div 2 = (n + 1) \div 2 + 1
OBVIOUS

\* And it has a second part only if the bound allows one.
LEMMA HalfOfOdd ==
  ASSUME NEW n \in Nat, NEW m \in Nat, n % 2 = 1, n <= 2 * m
  PROVE  (n + 2) \div 2 = (n + 1) \div 2 /\ n + 1 <= 2 * m
OBVIOUS

\* Two parts are one request.
LEMMA HalfOfDouble ==
  ASSUME NEW n \in Nat
  PROVE  (2 * n) \div 2 = n
OBVIOUS

\* A session that has a call to answer knows which request it is.
LEMMA CurrentIsRequest ==
  ASSUME TypeOK, Pending, NEW c \in Conn, pc[c] \in Busy
  PROVE  Current(c) \in Request
BY SMTT(20) DEF TypeOK, Pending, Busy, Current, Request

\* No step breaks the types, given that a session in its handler has a call.
LEMMA TypeStep == TypeOK /\ Pending /\ [Next]_vars => TypeOK'
<1> SUFFICES ASSUME TypeOK, Pending, [Next]_vars PROVE TypeOK'
  OBVIOUS
<1> USE DEF TypeOK, Ended, Request, clientVars, Goto, At
<1>1. CASE UNCHANGED vars
  BY <1>1 DEF vars
<1>2. ASSUME NEW c \in Conn, NEW k \in BOOLEAN, BeginRequest(c, k) PROVE TypeOK'
  <2>1. sent' \in [Conn -> 0..(2 * MaxRequests)]
    BY <1>2 DEF BeginRequest
  <2>2. asked' \in [Conn -> Seq(BOOLEAN)]
    BY <1>2 DEF BeginRequest
  <2>3. Len(asked'[c]) = Len(asked[c]) + 1 /\ sent'[c] + 1 = sent[c] + 2
    BY <1>2 DEF BeginRequest
  <2>4. (sent[c] + 2) \div 2 = (sent[c] + 1) \div 2 + 1
    <3>1. sent[c] \in Nat /\ sent[c] % 2 = 0
      BY <1>2 DEF BeginRequest
    <3> QED
      BY <3>1, HalfOfEven
  <2>5. \A d \in Conn : Len(asked'[d]) = (sent'[d] + 1) \div 2
    <3> SUFFICES ASSUME NEW d \in Conn PROVE Len(asked'[d]) = (sent'[d] + 1) \div 2
      OBVIOUS
    <3>1. CASE d = c
      BY <2>3, <2>4, <3>1
    <3>2. CASE d # c
      BY <1>2, <3>2 DEF BeginRequest
    <3> QED
      BY <3>1, <3>2
  <2>6. \A d \in Conn : taken'[d] <= sent'[d]
    BY <1>2 DEF BeginRequest
  <2> QED
    BY <1>2, <2>1, <2>2, <2>5, <2>6 DEF BeginRequest
<1>3. ASSUME NEW c \in Conn, CompleteRequest(c) PROVE TypeOK'
  <2>1. /\ sent' = [sent EXCEPT ![c] = sent[c] + 1]
        /\ sent[c] % 2 = 1 /\ sent[c] \in Nat /\ sent[c] <= 2 * MaxRequests
    BY <1>3 DEF CompleteRequest
  <2>2. (sent[c] + 2) \div 2 = (sent[c] + 1) \div 2 /\ sent[c] + 1 <= 2 * MaxRequests
    BY <2>1, HalfOfOdd
  <2>3. sent'[c] = sent[c] + 1 /\ sent'[c] + 1 = sent[c] + 2
    BY <2>1
  <2>4. sent' \in [Conn -> 0..(2 * MaxRequests)]
    BY <2>1, <2>2, SMTT(20)
  <2>5. \A d \in Conn : Len(asked[d]) = (sent'[d] + 1) \div 2 /\ taken[d] <= sent'[d]
    <3> SUFFICES ASSUME NEW d \in Conn
                 PROVE  Len(asked[d]) = (sent'[d] + 1) \div 2 /\ taken[d] <= sent'[d]
      OBVIOUS
    <3>1. CASE d = c
      BY <2>1, <2>2, <2>3, <3>1
    <3>2. CASE d # c
      BY <2>1, <3>2
    <3> QED
      BY <3>1, <3>2
  <2> QED
    BY <1>3, <2>4, <2>5 DEF CompleteRequest
<1>4. ASSUME NEW c \in Conn, NEW how \in {"closed", "reset"}, Leave(c, how) PROVE TypeOK'
  BY <1>4 DEF Leave
<1>5. CASE Kill
  BY <1>5 DEF Kill
<1>6. ASSUME NEW c \in Conn, Start(c) PROVE TypeOK'
  BY <1>6 DEF Start
<1>7. ASSUME NEW c \in Conn, ReadRequest(c) PROVE TypeOK'
  <2> DEFINE r == taken[c] \div 2 + 1
  <2>1. r \in Request /\ r <= Len(asked[c])
    <3>1. /\ taken[c] \in Nat /\ sent[c] \in Nat /\ sent[c] <= 2 * MaxRequests
          /\ Len(asked[c]) = (sent[c] + 1) \div 2
          /\ taken[c] % 2 = 0 /\ taken[c] + 2 <= sent[c]
      BY <1>7, SMTT(20) DEF ReadRequest
    <3> HIDE DEF TypeOK
    <3>2. r \in 1..MaxRequests /\ r <= (sent[c] + 1) \div 2
      BY <3>1, NextOfEven
    <3> QED
      BY <3>1, <3>2 DEF Request
  <2>2. asked[c][r] \in BOOLEAN
    BY <2>1
  <2>3. calls' = [calls EXCEPT ![c] = Append(@, r)] /\ keep' = [keep EXCEPT ![c] = asked[c][r]]
    BY <1>7 DEF ReadRequest
  <2>4. calls' \in [Conn -> Seq(Request)] /\ keep' \in [Conn -> BOOLEAN]
    BY <2>1, <2>2, <2>3, SMTT(20)
  <2>5. taken' \in [Conn -> 0..(2 * MaxRequests)] /\ \A d \in Conn : taken'[d] <= sent'[d]
    BY <1>7, SMTT(20) DEF ReadRequest
  <2> QED
    BY <1>7, <2>4, <2>5 DEF ReadRequest
<1>8. ASSUME NEW c \in Conn, ReadBreaks(c) \/ ReadRefuses(c) \/ EndOfStream(c) PROVE TypeOK'
  BY <1>8 DEF ReadBreaks, ReadRefuses, EndOfStream
<1>9. ASSUME NEW c \in Conn, HandlerReturns(c) \/ HandlerThrows(c) PROVE TypeOK'
  <2>1. Current(c) \in Request
    BY <1>9, CurrentIsRequest DEF HandlerReturns, HandlerThrows, Busy
  <2>2. buffered' = buffered \cup {<<c, Current(c)>>}
    BY <1>9 DEF HandlerReturns, HandlerThrows
  <2>3. buffered' \subseteq Conn \X Request
    BY <2>1, <2>2
  <2> QED
    BY <1>9, <2>3 DEF HandlerReturns, HandlerThrows
<1>10. ASSUME NEW c \in Conn, Flush(c) PROVE TypeOK'
  BY <1>10 DEF Flush
<1>11. ASSUME NEW c \in Conn, Write(c) PROVE TypeOK'
  <2>1. Current(c) \in Request
    BY <1>11, CurrentIsRequest DEF Write, Busy
  <2> DEFINE answer == [req |-> Current(c), keep |-> keep[c]]
             Answer == [req : Request, keep : BOOLEAN]
  <2>2. answer \in Answer
    BY <2>1
  <2>3. answers' = [answers EXCEPT ![c] = Append(answers[c], answer)]
    BY <1>11 DEF Write
  <2>4. answers' \in [Conn -> Seq(Answer)]
    <3> HIDE DEF answer, Answer
    <3>1. answers \in [Conn -> Seq(Answer)]
      BY DEF Answer
    <3>2. Append(answers[c], answer) \in Seq(Answer)
      BY <2>2, <3>1
    <3> QED
      BY <2>3, <3>1, <3>2
  <2> QED
    BY <1>11, <2>4 DEF Write
<1>12. ASSUME NEW c \in Conn, WriteFails(c) \/ Shutdown(c) PROVE TypeOK'
  BY <1>12 DEF WriteFails, Shutdown
<1> QED
  BY <1>1, <1>2, <1>3, <1>4, <1>5, <1>6, <1>7, <1>8, <1>9, <1>10, <1>11, <1>12
     DEF Next, Client, Session, Handler, Stopped

(***************************************************************************)
(* One lemma per part of the invariant, one step per kind of action.       *)
(***************************************************************************)

\* The actions that leave the calls and the answers of every session alone.
Quiet ==
  \/ UNCHANGED vars \/ Kill
  \/ \E c \in Conn :
       \/ Client(c) \/ Start(c)
       \/ ReadBreaks(c) \/ ReadRefuses(c) \/ EndOfStream(c)
       \/ Handler(c) \/ Flush(c) \/ WriteFails(c) \/ Shutdown(c)

\* Every step is a read of a request, a write of an answer, or neither.
LEMMA StepKinds ==
  [Next]_vars => Quiet \/ (\E c \in Conn : ReadRequest(c)) \/ (\E c \in Conn : Write(c))
BY DEF Next, Session, Stopped, Quiet

\* The quiet actions are those.
LEMMA QuietIsQuiet == Quiet => UNCHANGED <<calls, answers>>
BY DEF Quiet, vars, Kill, Client, BeginRequest, CompleteRequest, Leave, Start, ReadBreaks,
   ReadRefuses, EndOfStream, Handler, HandlerReturns, HandlerThrows, Flush, WriteFails, Shutdown

\* A write adds the answer to the current request, with the session's keep_alive.
LEMMA WriteAnswers ==
  ASSUME TypeOK, NEW c \in Conn, Write(c)
  PROVE  /\ Len(answers'[c]) = Len(answers[c]) + 1
         /\ answers'[c][Len(answers[c]) + 1].req = Current(c)
         /\ answers'[c][Len(answers[c]) + 1].keep = keep[c]
         /\ \A i \in 1..Len(answers[c]) : answers'[c][i] = answers[c][i]
         /\ \A d \in Conn \ {c} : answers'[d] = answers[d]
<1>1. answers' = [answers EXCEPT ![c] = Append(@, [req |-> Current(c), keep |-> keep[c]])]
  BY DEF Write
<1>2. answers[c] \in Seq([req : Request, keep : BOOLEAN])
  BY DEF TypeOK
<1> QED
  BY <1>1, <1>2 DEF TypeOK

\* A read adds the call of the request that was first in the socket.
LEMMA ReadCalls ==
  ASSUME TypeOK, NEW c \in Conn, ReadRequest(c)
  PROVE  /\ Len(calls'[c]) = Len(calls[c]) + 1
         /\ calls'[c][Len(calls[c]) + 1] = taken[c] \div 2 + 1
         /\ \A i \in 1..Len(calls[c]) : calls'[c][i] = calls[c][i]
         /\ \A d \in Conn \ {c} : calls'[d] = calls[d]
<1>1. calls' = [calls EXCEPT ![c] = Append(@, taken[c] \div 2 + 1)]
  BY DEF ReadRequest
<1>2. calls[c] \in Seq(Request)
  BY DEF TypeOK
<1> QED
  BY <1>1, <1>2 DEF TypeOK

\* The calls and the answers change together only through a whole turn of the loop.
LEMMA PendingStep == TypeOK /\ Pending /\ [Next]_vars => Pending'
<1> SUFFICES ASSUME TypeOK, Pending, [Next]_vars PROVE Pending'
  OBVIOUS
<1> USE DEF Pending, Busy, Ended, Goto, At
<1>1. CASE Quiet
  <2>1. UNCHANGED <<calls, answers>>
    BY <1>1, QuietIsQuiet
  <2>2. CASE UNCHANGED pc
    BY <2>1, <2>2
  <2>3. ASSUME NEW c \in Conn,
               \/ Start(c) \/ ReadBreaks(c) \/ ReadRefuses(c) \/ EndOfStream(c)
               \/ HandlerReturns(c) \/ HandlerThrows(c) \/ Flush(c) \/ WriteFails(c) \/ Shutdown(c)
        PROVE  Pending'
    BY <2>1, <2>3 DEF TypeOK, Start, ReadBreaks, ReadRefuses, EndOfStream, HandlerReturns,
       HandlerThrows, Flush, WriteFails, Shutdown
  <2> QED
    BY <1>1, <2>2, <2>3 DEF Quiet, vars, Kill, Client, BeginRequest, CompleteRequest, Leave, Handler
<1>2. ASSUME NEW c \in Conn, ReadRequest(c) PROVE Pending'
  <2>1. Len(calls'[c]) = Len(calls[c]) + 1 /\ \A d \in Conn \ {c} : calls'[d] = calls[d]
    BY <1>2 DEF TypeOK, ReadRequest
  <2> QED
    BY <1>2, <2>1 DEF TypeOK, ReadRequest
<1>3. ASSUME NEW c \in Conn, Write(c) PROVE Pending'
  <2>1. Len(answers'[c]) = Len(answers[c]) + 1 /\ \A d \in Conn \ {c} : answers'[d] = answers[d]
    BY <1>3 DEF TypeOK, Write
  <2> QED
    BY <1>3, <2>1 DEF TypeOK, Write
<1> QED
  BY <1>1, <1>2, <1>3, StepKinds

\* A flush takes the output of all sessions with it, so none is ever lost between
\* the buffers and the log but by the end of the process.
LEMMA PrintedStep == TypeOK /\ Pending /\ Printed /\ [Next]_vars => Printed'
<1> SUFFICES ASSUME TypeOK, Pending, Printed, [Next]_vars PROVE Printed'
  OBVIOUS
<1> USE DEF Printed, Goto, At
<1>1. CASE UNCHANGED calls /\ pc' = pc /\ logged' = logged /\ (killed' \/ UNCHANGED <<buffered, killed>>)
  BY <1>1 DEF Current
<1>2. ASSUME NEW c \in Conn,
             \/ Start(c) \/ ReadBreaks(c) \/ ReadRefuses(c) \/ EndOfStream(c)
             \/ WriteFails(c) \/ Shutdown(c) \/ Write(c)
      PROVE  Printed'
  BY <1>2 DEF TypeOK, Current, Ended, Start, ReadBreaks, ReadRefuses, EndOfStream, WriteFails,
     Shutdown, Write
<1>3. ASSUME NEW c \in Conn, ReadRequest(c) PROVE Printed'
  <2>1. \A d \in Conn \ {c} : calls'[d] = calls[d] /\ pc'[d] = pc[d]
    BY <1>3 DEF TypeOK, ReadRequest
  <2>2. pc'[c] = "handle" /\ UNCHANGED <<buffered, logged, killed>>
    BY <1>3 DEF TypeOK, ReadRequest
  <2> QED
    BY <2>1, <2>2 DEF Current
<1>4. ASSUME NEW c \in Conn, HandlerReturns(c) \/ HandlerThrows(c) PROVE Printed'
  <2>1. buffered' = buffered \cup {<<c, Current(c)>>} /\ UNCHANGED <<calls, logged, killed>>
    BY <1>4 DEF HandlerReturns, HandlerThrows
  <2>2. pc'[c] \in {"flush", "threw"} /\ \A d \in Conn \ {c} : pc'[d] = pc[d]
    BY <1>4 DEF TypeOK, HandlerReturns, HandlerThrows
  <2> QED
    BY <2>1, <2>2 DEF Current
<1>5. ASSUME NEW c \in Conn, Flush(c) PROVE Printed'
  <2>1. buffered' = {} /\ logged' = logged \cup buffered /\ UNCHANGED <<calls, killed>>
    BY <1>5 DEF Flush
  <2>2. pc[c] = "flush" /\ ~killed /\ pc'[c] = "write" /\ \A d \in Conn \ {c} : pc'[d] = pc[d]
    BY <1>5 DEF TypeOK, Flush
  <2> QED
    BY <2>1, <2>2 DEF Current
<1> QED
  BY <1>1, <1>2, <1>3, <1>4, <1>5
     DEF Next, Client, BeginRequest, CompleteRequest, Leave, Kill, Session, Handler, Stopped, vars

\* What is answered was printed.
LEMMA AnsweredStep ==
  TypeOK /\ Pending /\ Printed /\ AnsweredIsLogged /\ [Next]_vars => AnsweredIsLogged'
<1> SUFFICES ASSUME TypeOK, Pending, Printed, AnsweredIsLogged, [Next]_vars
             PROVE  AnsweredIsLogged'
  OBVIOUS
<1> USE DEF AnsweredIsLogged
<1>1. logged \subseteq logged'
  BY DEF Next, vars, Client, BeginRequest, CompleteRequest, Leave, Kill, Start, Session, Handler,
     Stopped, ReadRequest, ReadBreaks, ReadRefuses, EndOfStream, HandlerReturns, HandlerThrows,
     Flush, Write, WriteFails, Shutdown
<1>2. CASE UNCHANGED answers
  BY <1>1, <1>2
<1>3. ASSUME NEW c \in Conn, Write(c) PROVE AnsweredIsLogged'
  <2>1. <<c, Current(c)>> \in logged'
    BY <1>1, <1>3 DEF Write, At, Printed
  <2>2. /\ Len(answers'[c]) = Len(answers[c]) + 1
        /\ answers'[c][Len(answers[c]) + 1].req = Current(c)
        /\ \A i \in 1..Len(answers[c]) : answers'[c][i] = answers[c][i]
        /\ \A d \in Conn \ {c} : answers'[d] = answers[d]
    BY <1>3, WriteAnswers
  <2>3. ASSUME NEW i \in 1..Len(answers'[c]) PROVE <<c, answers'[c][i].req>> \in logged'
    <3>1. i \in 1..Len(answers[c]) \/ i = Len(answers[c]) + 1
      BY <2>2 DEF TypeOK
    <3> QED
      BY <1>1, <2>1, <2>2, <3>1
  <2> QED
    BY <1>1, <2>2, <2>3
<1> QED
  BY <1>2, <1>3, StepKinds, QuietIsQuiet DEF ReadRequest

\* What a client asked for is asked for ever; the rest of its stream comes after it.
LEMMA AskedGrows ==
  ASSUME TypeOK, [Next]_vars, NEW c \in Conn
  PROVE  /\ Len(asked[c]) \in Nat /\ Len(asked'[c]) \in Nat
         /\ Len(asked[c]) <= Len(asked'[c])
         /\ \A i \in 1..Len(asked[c]) : asked'[c][i] = asked[c][i]
<1>1. CASE UNCHANGED asked
  BY <1>1 DEF TypeOK
<1>2. ASSUME NEW d \in Conn, NEW k \in BOOLEAN, asked' = [asked EXCEPT ![d] = Append(@, k)]
      PROVE  /\ Len(asked[c]) \in Nat /\ Len(asked'[c]) \in Nat
             /\ Len(asked[c]) <= Len(asked'[c])
             /\ \A i \in 1..Len(asked[c]) : asked'[c][i] = asked[c][i]
  <2>1. asked[c] \in Seq(BOOLEAN) /\ asked[d] \in Seq(BOOLEAN)
    BY DEF TypeOK
  <2>2. asked'[c] = IF d = c THEN Append(asked[c], k) ELSE asked[c]
    BY <1>2 DEF TypeOK
  <2> QED
    BY <2>1, <2>2
<1> QED
  BY <1>1, <1>2 DEF Next, vars, clientVars, Client, BeginRequest, CompleteRequest, Leave, Kill,
     Start, Session, Handler, Stopped, ReadRequest, ReadBreaks, ReadRefuses, EndOfStream,
     HandlerReturns, HandlerThrows, Flush, Write, WriteFails, Shutdown

\* keep_alive stays that of the current request until the answer is written.
LEMMA RememberedStep ==
  TypeOK /\ TypeOK' /\ Pending /\ Remembered /\ [Next]_vars => Remembered'
<1> SUFFICES ASSUME TypeOK, TypeOK', Pending, Remembered, [Next]_vars PROVE Remembered'
  OBVIOUS
<1>1. CASE Quiet
  <2>1. UNCHANGED <<calls, answers>> /\ keep' = keep
    BY <1>1, QuietIsQuiet DEF Quiet, vars, Kill, Client, BeginRequest, CompleteRequest, Leave,
       Start, ReadBreaks, ReadRefuses, EndOfStream, Handler, HandlerReturns, HandlerThrows, Flush,
       WriteFails, Shutdown
  <2>2. \A c \in Conn : pc'[c] \in Busy => pc[c] \in Busy
    <3>1. CASE UNCHANGED pc
      BY <3>1
    <3>2. ASSUME NEW c \in Conn,
                 \/ Start(c) \/ ReadBreaks(c) \/ ReadRefuses(c) \/ EndOfStream(c)
                 \/ HandlerReturns(c) \/ HandlerThrows(c) \/ Flush(c) \/ WriteFails(c) \/ Shutdown(c)
          PROVE  \A d \in Conn : pc'[d] \in Busy => pc[d] \in Busy
      <4>1. PICK place \in {"read", "shutdown", "flush", "write"} \cup Ended :
              /\ pc' = [pc EXCEPT ![c] = place]
              /\ place \in Busy => pc[c] \in Busy
        BY <3>2 DEF Busy, Ended, Goto, At, Start, ReadBreaks, ReadRefuses, EndOfStream,
           HandlerReturns, HandlerThrows, Flush, WriteFails, Shutdown
      <4> QED
        BY <4>1 DEF TypeOK
    <3> QED
      BY <1>1, <3>1, <3>2
         DEF Quiet, vars, Kill, Client, BeginRequest, CompleteRequest, Leave, Handler
  <2>3. ASSUME NEW c \in Conn, pc[c] \in Busy
        PROVE  Current(c) \in 1..Len(asked[c])
    <3>1. Current(c) \in Request
      BY <2>3, CurrentIsRequest
    <3>2. Len(calls[c]) \in Nat \ {0} /\ Len(asked[c]) \in Nat
      BY <2>3, SMTT(20) DEF TypeOK, Pending
    <3>3. Current(c) <= Len(asked[c])
      BY <3>2 DEF Remembered, Current
    <3> QED
      BY <3>1, <3>2, <3>3 DEF Request
  <2> QED
    <3> SUFFICES ASSUME NEW c \in Conn
                 PROVE /\ \A i \in 1..Len(calls'[c]) : calls'[c][i] <= Len(asked'[c])
                       /\ \A i \in 1..Len(answers'[c]) : answers'[c][i].req <= Len(asked'[c])
                       /\ pc'[c] \in Busy => keep'[c] = asked'[c][Current(c)']
      BY DEF Remembered
    <3>0. Len(asked[c]) \in Nat /\ Len(asked'[c]) \in Nat /\ Len(asked[c]) <= Len(asked'[c])
      BY AskedGrows
    <3>1. \A i \in 1..Len(calls'[c]) : calls'[c][i] <= Len(asked'[c])
      <4> SUFFICES ASSUME NEW i \in 1..Len(calls[c]) PROVE calls[c][i] <= Len(asked'[c])
        BY <2>1
      <4>1. calls[c] \in Seq(Request)
        BY DEF TypeOK
      <4>2. calls[c][i] \in Nat
        BY <4>1 DEF Request
      <4> QED
        BY <3>0, <4>2 DEF Remembered
    <3>2. \A i \in 1..Len(answers'[c]) : answers'[c][i].req <= Len(asked'[c])
      <4> SUFFICES ASSUME NEW i \in 1..Len(answers[c]) PROVE answers[c][i].req <= Len(asked'[c])
        BY <2>1
      <4>1. answers[c] \in Seq([req : Request, keep : BOOLEAN])
        BY DEF TypeOK
      <4>2. answers[c][i] \in [req : Request, keep : BOOLEAN]
        BY <4>1, ElementOfSeq
      <4>3. answers[c][i].req \in Nat
        BY <4>2 DEF Request
      <4> QED
        BY <3>0, <4>3 DEF Remembered
    <3>3. pc'[c] \in Busy => keep'[c] = asked'[c][Current(c)']
      BY <2>1, <2>2, <2>3, AskedGrows DEF Remembered, Current
    <3> QED
      BY <3>1, <3>2, <3>3
<1>2. ASSUME NEW c \in Conn, ReadRequest(c) PROVE Remembered'
  <2> DEFINE r == taken[c] \div 2 + 1
  <2>1. r \in Nat /\ r <= Len(asked[c])
    <3>0. taken[c] \in Nat /\ sent[c] \in Nat
      BY DEF TypeOK
    <3>1. taken[c] + 2 <= sent[c] /\ taken[c] % 2 = 0
      BY <1>2, <3>0 DEF ReadRequest
    <3>2. Len(asked[c]) = (sent[c] + 1) \div 2
      BY DEF TypeOK
    <3> QED
      BY <3>0, <3>1, <3>2
  <2>2. keep' = [keep EXCEPT ![c] = asked[c][r]] /\ UNCHANGED <<asked, answers>>
    BY <1>2 DEF ReadRequest, clientVars
  <2>3. Len(calls[c]) \in Nat
    BY DEF TypeOK
  <2>4. \A i \in 1..Len(calls'[c]) : calls'[c][i] <= Len(asked[c])
    BY <1>2, <2>1, <2>3, ReadCalls DEF Remembered
  <2>5. Current(c)' = r
    BY <1>2, ReadCalls DEF Current
  <2>6. keep'[c] = asked'[c][Current(c)']
    BY <2>2, <2>5 DEF TypeOK
  <2>7. \A d \in Conn \ {c} : pc'[d] = pc[d] /\ keep'[d] = keep[d] /\ calls'[d] = calls[d]
    BY <1>2, ReadCalls DEF TypeOK, ReadRequest, Goto
  <2> QED
    BY <2>2, <2>4, <2>6, <2>7 DEF Remembered, Current
<1>3. ASSUME NEW c \in Conn, Write(c) PROVE Remembered'
  <2>1. UNCHANGED <<asked, calls, keep>> /\ pc'[c] = "read" /\ \A d \in Conn \ {c} : pc'[d] = pc[d]
    BY <1>3 DEF TypeOK, Write, clientVars, Goto
  <2>2. Len(calls[c]) \in Nat \ {0} /\ Len(answers[c]) \in Nat
    BY <1>3 DEF TypeOK, Write, At, Pending, Busy
  <2>3. Current(c) <= Len(asked[c])
    BY <2>2 DEF Remembered, Current
  <2>4. /\ Len(answers'[c]) = Len(answers[c]) + 1
        /\ answers'[c][Len(answers[c]) + 1].req = Current(c)
        /\ \A i \in 1..Len(answers[c]) : answers'[c][i] = answers[c][i]
        /\ \A d \in Conn \ {c} : answers'[d] = answers[d]
    BY <1>3, WriteAnswers
  <2>5. ASSUME NEW i \in 1..Len(answers'[c]) PROVE answers'[c][i].req <= Len(asked[c])
    <3>1. i \in 1..Len(answers[c]) \/ i = Len(answers[c]) + 1
      BY <2>2, <2>4
    <3> QED
      BY <2>3, <2>4, <3>1 DEF Remembered
  <2> QED
    <3> SUFFICES ASSUME NEW d \in Conn
                 PROVE /\ \A i \in 1..Len(calls'[d]) : calls'[d][i] <= Len(asked'[d])
                       /\ \A i \in 1..Len(answers'[d]) : answers'[d][i].req <= Len(asked'[d])
                       /\ pc'[d] \in Busy => keep'[d] = asked'[d][Current(d)']
      BY DEF Remembered
    <3>1. CASE d = c
      BY <2>1, <2>5, <3>1 DEF Remembered, Busy
    <3>2. CASE d # c
      BY <2>1, <2>4, <3>2 DEF Remembered, Current
    <3> QED
      BY <3>1, <3>2
<1> QED
  BY <1>1, <1>2, <1>3, StepKinds

\* An answer repeats what its request asked for, which no later request changes.
LEMMA KeepAliveStep ==
  TypeOK /\ Pending /\ Remembered /\ KeepAliveEchoed /\ [Next]_vars => KeepAliveEchoed'
<1> SUFFICES ASSUME TypeOK, Pending, Remembered, KeepAliveEchoed, [Next]_vars
             PROVE  KeepAliveEchoed'
  OBVIOUS
<1>1. CASE UNCHANGED answers
  <2> SUFFICES ASSUME NEW c \in Conn, NEW i \in 1..Len(answers[c])
               PROVE  answers[c][i].keep = asked'[c][answers[c][i].req]
    BY <1>1 DEF KeepAliveEchoed
  <2>1. answers[c] \in Seq([req : Request, keep : BOOLEAN])
    BY DEF TypeOK
  <2>2. answers[c][i] \in [req : Request, keep : BOOLEAN]
    BY <2>1, ElementOfSeq
  <2>3. answers[c][i].req \in Request /\ answers[c][i].req <= Len(asked[c])
    BY <2>2 DEF Remembered
  <2>4. answers[c][i].req \in 1..Len(asked[c])
    BY <2>3, AskedGrows DEF Request
  <2> QED
    BY <2>4, AskedGrows, SMTT(20) DEF KeepAliveEchoed
<1>2. ASSUME NEW c \in Conn, Write(c) PROVE KeepAliveEchoed'
  <2>1. /\ Len(answers'[c]) = Len(answers[c]) + 1
        /\ answers'[c][Len(answers[c]) + 1].req = Current(c)
        /\ answers'[c][Len(answers[c]) + 1].keep = keep[c]
        /\ \A i \in 1..Len(answers[c]) : answers'[c][i] = answers[c][i]
        /\ \A d \in Conn \ {c} : answers'[d] = answers[d]
    BY <1>2, WriteAnswers
  <2>2. Len(answers[c]) \in Nat
    BY DEF TypeOK
  <2>3. asked' = asked /\ keep[c] = asked[c][Current(c)]
    BY <1>2 DEF Write, At, clientVars, Remembered, Busy
  <2>4. ASSUME NEW i \in 1..Len(answers'[c])
        PROVE  answers'[c][i].keep = asked[c][answers'[c][i].req]
    <3>1. i \in 1..Len(answers[c]) \/ i = Len(answers[c]) + 1
      BY <2>1, <2>2
    <3> QED
      BY <2>1, <2>3, <3>1 DEF KeepAliveEchoed
  <2> QED
    BY <2>1, <2>3, <2>4 DEF KeepAliveEchoed
<1> QED
  BY <1>1, <1>2, StepKinds, QuietIsQuiet DEF ReadRequest

\* Without pipelining a read takes one request, the one after the last call.
LEMMA OneByOneStep == TypeOK /\ Pending /\ OneByOne /\ [Next]_vars => OneByOne'
<1> SUFFICES ASSUME TypeOK, Pending, OneByOne, [Next]_vars, ~Pipelining
             PROVE  \A c \in Conn :
                      /\ sent'[c] <= 2 * Len(answers'[c]) + 2
                      /\ taken'[c] = 2 * Len(calls'[c])
                      /\ \A i \in 1..Len(calls'[c]) : calls'[c][i] = i
  BY DEF OneByOne
<1>n. \A c \in Conn : sent[c] \in Nat /\ taken[c] \in Nat /\ Len(answers[c]) \in Nat /\ Len(calls[c]) \in Nat
  BY DEF TypeOK
<1>o. \A c \in Conn :
        /\ sent[c] <= 2 * Len(answers[c]) + 2
        /\ taken[c] = 2 * Len(calls[c])
        /\ \A i \in 1..Len(calls[c]) : calls[c][i] = i
  BY DEF OneByOne
<1>1. CASE UNCHANGED <<sent, taken, calls, answers>>
  BY <1>1, <1>o
<1>2. ASSUME NEW c \in Conn, NEW k \in BOOLEAN, BeginRequest(c, k) \/ CompleteRequest(c)
      PROVE  \A d \in Conn : sent'[d] <= 2 * Len(answers[d]) + 2
  <2>1. sent'[c] = sent[c] + 1 /\ \A d \in Conn \ {c} : sent'[d] = sent[d]
    BY <1>2 DEF TypeOK, BeginRequest, CompleteRequest
  <2>2. 2 * Len(answers[c]) = sent[c] \/ sent[c] % 2 = 1
    BY <1>2 DEF BeginRequest, CompleteRequest
  <2>3. sent[c] + 1 <= 2 * Len(answers[c]) + 2
    <3>1. sent[c] \in Nat /\ Len(answers[c]) + 1 \in Nat /\ sent[c] <= 2 * (Len(answers[c]) + 1)
      BY <1>n, <1>o
    <3>2. CASE sent[c] % 2 = 1
      BY <3>1, <3>2, HalfOfOdd
    <3>3. CASE 2 * Len(answers[c]) = sent[c]
      BY <3>1, <3>3
    <3> QED
      BY <2>2, <3>2, <3>3
  <2> QED
    BY <1>o, <2>1, <2>3
<1>3. ASSUME NEW c \in Conn, ReadRequest(c)
      PROVE  \A d \in Conn :
               /\ sent'[d] <= 2 * Len(answers'[d]) + 2
               /\ taken'[d] = 2 * Len(calls'[d])
               /\ \A i \in 1..Len(calls'[d]) : calls'[d][i] = i
  <2>1. UNCHANGED <<sent, answers>>
    BY <1>3 DEF ReadRequest, clientVars
  <2>2. Len(calls[c]) = Len(answers[c])
    BY <1>3 DEF ReadRequest, At, Pending
  <2>3. PICK upto \in (taken[c] + 2)..sent[c] : taken' = [taken EXCEPT ![c] = upto]
    BY <1>3 DEF ReadRequest
  <2>4. upto = 2 * (Len(calls[c]) + 1) /\ taken[c] \div 2 + 1 = Len(calls[c]) + 1
    <3>1. /\ taken[c] = 2 * Len(calls[c]) /\ sent[c] <= 2 * Len(calls[c]) + 2
          /\ Len(calls[c]) \in Nat /\ sent[c] \in Nat
      BY <1>n, <1>o, <2>2
    <3>2. upto = 2 * (Len(calls[c]) + 1)
      BY <2>3, <3>1
    <3>3. taken[c] \div 2 = Len(calls[c])
      BY <3>1, HalfOfDouble
    <3> QED
      BY <3>2, <3>3
  <2>5. taken'[c] = upto /\ \A d \in Conn \ {c} : taken'[d] = taken[d]
    BY <2>3 DEF TypeOK
  <2>6. /\ Len(calls'[c]) = Len(calls[c]) + 1
        /\ calls'[c][Len(calls[c]) + 1] = Len(calls[c]) + 1
        /\ \A i \in 1..Len(calls[c]) : calls'[c][i] = calls[c][i]
        /\ \A d \in Conn \ {c} : calls'[d] = calls[d]
    BY <1>3, <2>4, ReadCalls
  <2>7. ASSUME NEW i \in 1..Len(calls'[c]) PROVE calls'[c][i] = i
    <3>1. i \in 1..Len(calls[c]) \/ i = Len(calls[c]) + 1
      BY <1>n, <2>6
    <3> QED
      BY <1>o, <2>6, <3>1
  <2> QED
    BY <1>o, <2>1, <2>4, <2>5, <2>6, <2>7
<1>4. ASSUME NEW c \in Conn, Write(c)
      PROVE  \A d \in Conn : sent[d] <= 2 * Len(answers'[d]) + 2
  <2>1. Len(answers'[c]) = Len(answers[c]) + 1 /\ \A d \in Conn \ {c} : answers'[d] = answers[d]
    BY <1>4, WriteAnswers
  <2> QED
    BY <1>n, <1>o, <2>1, SMTT(20)
<1>5. ASSUME NEW c \in Conn, Write(c) PROVE UNCHANGED <<sent, taken, calls>>
  BY <1>5 DEF Write, clientVars
<1>6. ASSUME NEW c \in Conn, NEW k \in BOOLEAN, BeginRequest(c, k) \/ CompleteRequest(c)
      PROVE  UNCHANGED <<taken, calls, answers>>
  BY <1>6 DEF BeginRequest, CompleteRequest
<1> QED
  <2>1. \/ UNCHANGED <<sent, taken, calls, answers>>
        \/ \E c \in Conn, k \in BOOLEAN : BeginRequest(c, k) \/ CompleteRequest(c)
        \/ \E c \in Conn : ReadRequest(c) \/ Write(c)
    BY DEF Next, vars, clientVars, Client, Leave, Kill, Start, Session, Handler, Stopped,
       ReadBreaks, ReadRefuses, EndOfStream, HandlerReturns, HandlerThrows, Flush, WriteFails, Shutdown
  <2> QED
    BY <1>o, <1>1, <1>2, <1>3, <1>4, <1>5, <1>6, <2>1

\* So the next answer is the answer to the next request.
LEMMA InOrderStep ==
  ~Pipelining /\ TypeOK /\ Pending /\ OneByOne /\ AnswersInOrder /\ [Next]_vars => AnswersInOrder'
<1> SUFFICES ASSUME ~Pipelining, TypeOK, Pending, OneByOne, AnswersInOrder, [Next]_vars
             PROVE  AnswersInOrder'
  OBVIOUS
<1>1. CASE UNCHANGED answers
  BY <1>1 DEF AnswersInOrder
<1>2. ASSUME NEW c \in Conn, Write(c) PROVE AnswersInOrder'
  <2>1. /\ Len(answers'[c]) = Len(answers[c]) + 1
        /\ answers'[c][Len(answers[c]) + 1].req = Current(c)
        /\ answers'[c][Len(answers[c]) + 1].keep = keep[c]
        /\ \A i \in 1..Len(answers[c]) : answers'[c][i] = answers[c][i]
        /\ \A d \in Conn \ {c} : answers'[d] = answers[d]
    BY <1>2, WriteAnswers
  <2>2. Len(answers[c]) \in Nat
    BY DEF TypeOK
  <2>3. Len(calls[c]) = Len(answers[c]) + 1
    BY <1>2 DEF Write, At, Pending, Busy
  <2>4. Current(c) = Len(answers[c]) + 1
    BY <2>2, <2>3 DEF OneByOne, Current
  <2>5. ASSUME NEW i \in 1..Len(answers'[c]) PROVE answers'[c][i].req = i
    <3>1. i \in 1..Len(answers[c]) \/ i = Len(answers[c]) + 1
      BY <2>1, <2>2
    <3> QED
      BY <2>1, <2>4, <3>1 DEF AnswersInOrder
  <2> QED
    BY <2>1, <2>5 DEF AnswersInOrder
<1> QED
  BY <1>1, <1>2, StepKinds, QuietIsQuiet DEF ReadRequest

-----------------------------------------------------------------------------
\* The invariant holds at first and no step breaks it.
THEOREM Invariance == Spec => []IInv
<1>1. Init => IInv
  <2> SUFFICES ASSUME Init PROVE IInv
    OBVIOUS
  <2>1. TypeOK
    <3>0. (0 + 1) \div 2 = 0 /\ 0 <= 0
      OBVIOUS
    <3>1. \A c \in Conn : Len(asked[c]) = (sent[c] + 1) \div 2 /\ taken[c] <= sent[c]
      <4>1. \A c \in Conn : Len(asked[c]) = 0 /\ sent[c] = 0 /\ taken[c] = 0
        BY DEF Init
      <4> QED
        BY <3>0, <4>1, Zenon
    <3>2. /\ asked \in [Conn -> Seq(BOOLEAN)] /\ calls \in [Conn -> Seq(Request)]
          /\ answers \in [Conn -> Seq([req : Request, keep : BOOLEAN])]
      BY DEF Init
    <3>3. /\ pc \in [Conn -> {"idle", "read", "handle", "flush", "write", "shutdown"} \cup Ended]
          /\ client \in [Conn -> {"open", "closed", "reset"}]
          /\ sent \in [Conn -> 0..(2 * MaxRequests)] /\ taken \in [Conn -> 0..(2 * MaxRequests)]
          /\ keep \in [Conn -> BOOLEAN]
      BY DEF Init
    <3> QED
      BY <3>1, <3>2, <3>3 DEF Init, TypeOK
  <2>2. \A c \in Conn : Len(calls[c]) = 0 /\ Len(answers[c]) = 0 /\ pc[c] = "idle" /\ sent[c] = 0 /\ taken[c] = 0
    BY DEF Init
  <2> QED
    BY <2>1, <2>2 DEF IInv, Pending, Printed, Remembered, OneByOne, AnsweredIsLogged,
       KeepAliveEchoed, AnswersInOrder, Busy, Ended
<1>2. IInv /\ [Next]_vars => IInv'
  BY TypeStep, PendingStep, PrintedStep, RememberedStep, OneByOneStep, AnsweredStep,
     KeepAliveStep, InOrderStep DEF IInv
<1> QED
  BY <1>1, <1>2, PTL DEF Spec

\* Every variable keeps its type; in particular a session never takes more from the
\* socket than its client sent, and handles no request that was not sent.
THEOREM TypeCorrect == Spec => []TypeOK
<1>1. IInv => TypeOK
  BY DEF IInv
<1> QED
  BY <1>1, Invariance, PTL

\* A client that has a response finds the function's output in the log, whichever
\* session's flush let it out and whenever the process is killed.
THEOREM OutputPrecedesResponse == Spec => []AnsweredIsLogged
<1>1. IInv => AnsweredIsLogged
  BY DEF IInv
<1> QED
  BY <1>1, Invariance, PTL

\* The keep-alive of a response is that of its own request.
THEOREM KeepAliveIsEchoed == Spec => []KeepAliveEchoed
<1>1. IInv => KeepAliveEchoed
  BY DEF IInv
<1> QED
  BY <1>1, Invariance, PTL

\* A session never leaves a call behind and goes on.
THEOREM CallsAreAnswered == Spec => []CallsAnswered
<1>1. IInv => CallsAnswered
  <2> SUFFICES ASSUME IInv, NEW c \in Conn
               PROVE  /\ Len(calls[c]) \in {Len(answers[c]), Len(answers[c]) + 1}
                      /\ pc[c] \in {"read", "shutdown"} => Len(calls[c]) = Len(answers[c])
    BY DEF CallsAnswered
  <2>1. pc[c] \in {"idle", "read", "handle", "flush", "write", "shutdown"} \cup Ended
    BY DEF IInv, TypeOK
  <2> QED
    BY <2>1 DEF IInv, Pending, Busy, Ended
<1> QED
  BY <1>1, Invariance, PTL

\* The responses come in the order of the requests, if the client does not pipeline.
\* (It may lose requests if it does: NoRequestSkipped fails, and then this does too.)
THEOREM ResponsesInOrder == ~Pipelining /\ Spec => []AnswersInOrder
<1>1. ~Pipelining /\ IInv => AnswersInOrder
  BY DEF IInv
<1>2. CASE ~Pipelining
  <2>1. IInv => AnswersInOrder
    BY <1>1, <1>2
  <2> QED
    BY <2>1, Invariance, PTL
<1>3. CASE Pipelining
  BY <1>3
<1> QED
  BY <1>2, <1>3
==============================================================================

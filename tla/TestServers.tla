----------------------------- MODULE TestServers -----------------------------
(***************************************************************************)
(* The integration tests: a server program whose function asks for the     *)
(* shutdown, and a test program that makes requests to it, asks it to quit *)
(* and waits for its exit code.                                            *)
(*                                                                         *)
(* A test is a sequence of requests, each on a connection of its own, the  *)
(* connection named by its place in the sequence, when the ones before it  *)
(* are over; those of SomeParallelism go out together.                     *)
(***************************************************************************)
EXTENDS Framework, Messages

CONSTANTS Tasks   \* the requests SomeParallelism makes together: 16 in the code

VARIABLES
  test,      \* the test that runs
  progress,  \* what the function did with each request: "begun", "written", "stored"
  code,      \* the status of each response
  file,      \* whose data function_output.json has
  outcome,   \* of each request: "none", "open", "answered", "wrong", "refused"
  verdict    \* of the test

testVars == <<test, progress, code, file, outcome, verdict>>
allVars == <<vars, testVars>>

-----------------------------------------------------------------------------
(* The tests.                                                              *)

Unchecked == 0
Ask(path, expected) == [path |-> path, arg |-> Unchecked, expected |-> expected]
AskFor(path, arg, expected) == [path |-> path, arg |-> arg, expected |-> expected]

\* The request of WaitForServerReady, those of the test, and those that quit, whose
\* exceptions are caught; of which `together` go out at once.
Quit == "/quit/program/0"
Together(server, ready, requests, together) ==
  [server |-> server, gets |-> <<ready>> \o requests \o <<Ask(Quit, Unchecked), Ask(Quit, Unchecked)>>,
   together |-> together]
OneByOne(server, ready, requests) == Together(server, ready, requests, {})

Ok == Ask("/ok", 200)
Ping == Ask("ping", 200)

\* The requests of Basic are those of two tests here.
Exceptions(server, ready, more) ==
  OneByOne(server, ready, <<more, Ask("/exception/", 500), Ask("/unknown-exception/", 500)>>)
Browsers(server, ready, hello) ==
  OneByOne(server, ready, <<hello, Ask("/favicon.ico", 404), Ask("/robots.txt", 404)>>)
OutputIsFlushed(server, ready) ==
  OneByOne(server, ready, <<Ask("/buffered-stdout/", 200), Ask("/buffered-stderr/", 200)>>)
ConformanceSmokeTest(server, ready) == OneByOne(server, ready, <<>>)

\* The function has no such path, and answers at once.
SomeParallelism ==
  Together("echo_server", Ok, [i \in 1..Tasks |-> Ask("/sleep/", Unchecked)], 2..(Tasks + 1))

\* Events in a batch, and one in headers, without a subject.
Batch == OneByOne("cloud_event_handler", Ping, <<Ask("hello, in a batch", 200)>>)
Binary == OneByOne("cloud_event_handler", Ping, <<Ask("", 200)>>)

\* Those of basic_integration_test.cc and of cloud_event_integration_test.cc, except
\* ExceptionLogsToStderr; and one with an event whose data is not the JSON it should be.
Tests ==
  {Exceptions("echo_server", Ok, AskFor("/error/", 404, 404)),
   Browsers("echo_server", Ok, Ask("/say/hello", 200)), OutputIsFlushed("echo_server", Ok),
   SomeParallelism, ConformanceSmokeTest("http_conformance", Ok),
   Exceptions("cloud_event_handler", Ping, Ask("hello", 200)),
   Browsers("cloud_event_handler", Ping, Ask("hello", 200)), OutputIsFlushed("cloud_event_handler", Ping),
   Batch, Binary, ConformanceSmokeTest("cloud_event_conformance", Ping),
   OneByOne("cloud_event_conformance", Ping, <<Ask("unparsable", 500), Ask("hello", 200)>>)}

Used == DOMAIN test.gets
Earlier(c) == {d \in Used : d < c /\ ~{c, d} \subseteq test.together}
RequestOf(c) == test.gets[c]
Path(c) == test.gets[c].path

-----------------------------------------------------------------------------
TestInit ==
  /\ Init
  /\ test \in Tests
  /\ progress = [c \in Conn |-> "begun"]
  /\ code = [c \in Conn |-> Unchecked]
  /\ file = None
  /\ outcome = [c \in Conn |-> "none"]
  /\ verdict = "running"

-----------------------------------------------------------------------------
(* The servers' functions, called in their sessions.                       *)

Called(c) == sessionPc[c] = "handle" /\ Path(c) \notin {"/favicon.ico", "/robots.txt"}
Prints(c) == Path(c) \in {"/buffered-stdout/", "/buffered-stderr/"}
WritesFile == test.server \in {"http_conformance", "cloud_event_conformance"}

EchoServer(request) ==
  CASE request.path \in {"/exception/", "/unknown-exception/"} -> 500
    [] request.path = "/error/" -> IF ResultThrows(request.arg) THEN 500 ELSE request.arg
    [] OTHER -> 200
CloudEventHandler(request) == IF request.path \in {"/exception/", "/unknown-exception/"} THEN 500 ELSE 200
HttpConformance(request) == 200
CloudEventConformance(request) == IF request.path = "unparsable" THEN 500 ELSE 200

CodeOf(c) ==
  CASE ~Called(c) -> 404
    [] test.server = "echo_server" -> EchoServer(RequestOf(c))
    [] test.server = "cloud_event_handler" -> CloudEventHandler(RequestOf(c))
    [] test.server = "http_conformance" -> HttpConformance(RequestOf(c))
    [] test.server = "cloud_event_conformance" -> CloudEventConformance(RequestOf(c))

\* The stream is a temporary: its file is closed before the next statement.
WriteFile(c) ==
  /\ Called(c) /\ progress[c] = "begun"
  /\ WritesFile /\ CodeOf(c) = 200
  /\ file' = c
  /\ progress' = [progress EXCEPT ![c] = "written"]
  /\ UNCHANGED <<vars, test, code, outcome, verdict>>

\* Mutant: the flag is a copy of the one the predicate looks at.
StoreFlagElsewhere(c) ==
  /\ Called(c) /\ Path(c) = Quit
  /\ progress[c] = IF WritesFile THEN "written" ELSE "begun"
  /\ progress' = [progress EXCEPT ![c] = "stored"]
  /\ UNCHANGED <<vars, test, code, file, outcome, verdict>>

\* shutdown_server = true: what the predicate of RunForTest returns from now on.
StoreFlag(c) ==
  /\ Called(c) /\ Path(c) = Quit
  /\ progress[c] = IF WritesFile THEN "written" ELSE "begun"
  /\ progress' = [progress EXCEPT ![c] = "stored"]
  /\ IF stop THEN UNCHANGED vars ELSE RequestShutdown
  /\ UNCHANGED <<test, code, file, outcome, verdict>>

\* The function is over: it returned, or CallUserFunction caught what it threw.
FunctionEnds(c) ==
  /\ Called(c) /\ Path(c) = Quit => progress[c] = "stored"
  /\ Called(c) /\ WritesFile /\ CodeOf(c) = 200 => progress[c] # "begun"
  /\ Http!HandlerReturns(c)
  /\ code' = [code EXCEPT ![c] = CodeOf(c)]
  /\ UNCHANGED <<loopVars, test, progress, file, outcome, verdict>>

Function(c) == WriteFile(c) \/ StoreFlag(c) \/ FunctionEnds(c)

-----------------------------------------------------------------------------
(* The test program.                                                       *)

\* The earlier ones are over, and the lines they print were read.
Turn(c) ==
  /\ c \in Used /\ outcome[c] = "none"
  /\ \A d \in Earlier(c) :
       outcome[d] \notin {"none", "open"} /\ (Prints(d) => <<d, 1>> \in logged)

Becomes(c, how) == outcome' = [outcome EXCEPT ![c] = how]

Connects(c) ==
  /\ Turn(c)
  /\ Connect(c)
  /\ Becomes(c, "open")
  /\ UNCHANGED <<test, progress, code, file, verdict>>

\* Nobody listens any more; or the listening socket went with the connection in its queue.
\* Only the second request to quit can meet this: the test is over with the exception.
Refused(c) ==
  /\ \/ Turn(c) /\ loopPc = "exited"
     \/ outcome[c] = "open" /\ status[c] = "closed"
  /\ Becomes(c, "refused")
  /\ UNCHANGED <<vars, test, progress, code, file, verdict>>

\* An HTTP/1.0 request, which does not ask to keep the connection.
Writes(c) ==
  /\ outcome[c] = "open" /\ status[c] # "closed"
  /\ Http!BeginRequest(c, FALSE) \/ Http!CompleteRequest(c)
  /\ UNCHANGED <<loopVars, testVars>>

\* The status is what it should be, and so is the file; then the connection is closed.
AsExpected(c) ==
  RequestOf(c).expected # Unchecked =>
    code[c] = RequestOf(c).expected /\ (WritesFile => (file = c <=> code[c] = 200))

Reads(c) ==
  /\ outcome[c] = "open" /\ answers[c] # <<>>
  /\ Becomes(c, IF AsExpected(c) THEN "answered" ELSE "wrong")
  /\ Http!Leave(c, "closed")
  /\ UNCHANGED <<loopVars, test, progress, code, file, verdict>>

Client(c) == Connects(c) \/ Refused(c) \/ Writes(c) \/ Reads(c)

\* server.wait() returned: nothing but the requests to quit may have gone wrong.
Waited ==
  /\ verdict = "running"
  /\ loopPc = "exited" /\ \A c \in Used : outcome[c] \notin {"none", "open"}
  /\ verdict' = IF result = "zero" /\ \A c \in Used : outcome[c] = "answered" \/ Path(c) = Quit
                  THEN "passed" ELSE "failed"
  /\ UNCHANGED <<vars, test, progress, code, file, outcome>>

-----------------------------------------------------------------------------
Main == (Proceed \/ Spawn) /\ UNCHANGED testVars
\* The tests read what they asked for, so a write returns.
Serves(c) == (Session(c) \/ Write(c)) /\ UNCHANGED testVars

Over == verdict # "running" /\ UNCHANGED allVars

TestNext ==
  \/ Main \/ Waited \/ Over
  \/ \E c \in Conn : Serves(c) \/ Function(c) \/ Client(c)

\* The two processes and all their threads run.
TestSpec ==
  /\ TestInit /\ [][TestNext]_allVars
  /\ WF_allVars(Main) /\ WF_allVars(Waited)
  /\ \A c \in Conn : WF_allVars(Serves(c)) /\ WF_allVars(Function(c)) /\ WF_allVars(Client(c))

-----------------------------------------------------------------------------
(* Properties.                                                             *)

\* Every test comes to its end and passes: each request gets the status and the output its
\* test expects, one request to quit, or the second, makes the server return, in whatever
\* order the store of the flag, the accepting thread and the client's next connection come
\* (echo_server.cc:30, basic_integration_test.cc:126).
TestsPass == <>(verdict = "passed")
==============================================================================

# Verification of the C++ Functions Framework

The Functions Framework for C++ is a library that turns a function of the user into an
HTTP server: `Run(argc, argv, function)` parses the options, listens on a port, and calls
the function for each HTTP request, or for each CloudEvent in a request. This directory
holds TLA+ models of that server, TLC configurations that check them on small instances,
and proofs, checked by TLAPS, of what matters most for every value of the constants.

Paths are relative to the repository; a file without a directory is in
`google/cloud/functions/internal/`.

## 1. Inventory

| Part | Source | State it keeps | Operations |
|---|---|---|---|
| Accept loop and pool of session threads | `framework_impl.cc` 68-169 | the vector `sessions` of futures, the vectors of a cleanup pass, the listening socket, the accepted socket | ask `shutdown()`, cleanup passes at the two limits, `accept()`, `std::async`, the destructors at the end |
| HTTP session | `framework_impl.cc` 37-66 | socket, buffer and request of an iteration, `keep_alive`; the stdio buffers are shared by the sessions | read, call the handler, flush, write, shut down |
| Invocation of the function | `call_user_function.cc` | the event it is at, the response it builds | intercept, parse, call, report an exception |
| Startup | `parse_options.cc`, `function_impl.cc`, `framework_impl.cc` 68-86 | options, acceptor, the handler selected | read `PORT`, parse the command line, check the range, bind, select the handler of the target |
| CloudEvents HTTP binding | `parse_cloud_event_http.cc` | none | choose by content type and headers: binary, structured, batch, legacy |
| CloudEvents JSON format | `parse_cloud_event_json.cc` | none | an event, a batch of events |
| Legacy and storage events | `parse_cloud_event_legacy.cc`, `parse_cloud_event_storage.cc` | constant tables | convert an event of the older formats |
| base64 decoder | `base64_decode.cc` | none | pad and decode |
| CloudEvent | `cloud_event.h`, `cloud_event.cc` | the attributes and the data | constructor, setters |
| Request and response wrappers | `../http_request.h`, `../http_response.h`, `wrap_*.cc` | a message | accessors, setters, `unwrap` |
| Example functions | `examples/site/*`, `examples/hello_gcs` | local statics, a connection behind a lock, a counter, a task; the others keep nothing | one call, from many sessions at once |
| Integration test servers and tests | `../integration_tests/*` | the flag of `shutdown()`, a file; the requests made so far | answer, store the flag; make requests, ask to quit, wait for the exit code |
| Everything else | build, CI, buildpack, version and compiler information, the helper of the tests that sets the environment | | |

How they interact. The accepting thread runs the startup, then the loop. It starts one
thread per connection with `std::async`; the thread runs `HandleSession`, whose only
channel back is its future. Sessions share the handler, which is called from all of them
at once, and the stdio buffers of the process. `HandleSession` calls the handler that
`GetHandler` selected, which is one of the overloads of `CallUserFunction`; that of
CloudEvents parses the request first and calls the function once per event. An exception
of the function ends in a 500; one thrown while that 500 is made leaves the session, waits in
the future, and is rethrown by the cleanup pass that finds the future ready, which
ends the server.

What is hard in this code, and what must be true of it:

* **Loop.** The limit on threads is kept by counting futures, between accepts only, while
  sessions end at any time; futures are moved between three vectors; an exception of a
  session surfaces many accepts later; exceptions leave from every line and the destructors
  do the rest. *No more than `kMaximumSessions` threads; no running thread without its
  future; no exception lost while the server runs; nothing left behind at the end; at most
  one connection accepted after `shutdown()` became true; every connection gets its session
  if sessions end, and sessions end if clients leave.*
* **Session.** The request is moved away before the response exists; the platform may stop
  the process once the response is sent; clients close, reset, send half a request, or send
  the next one early; the stdio buffers are shared. *Responses in the order of the requests,
  each with the keep-alive of its request and after the output of its call; a call
  answered once; a session ends after its client, if that client read what it was sent or reset.*
* **Invocation.** A client delivers a batch again when an attempt failed or took too long,
  while the old attempt may still be running. *200 means that the function returned from
  every event; no event of a malformed batch is handled; every attempt ends.*
* **Functions of the user.** They run in all sessions at once; what they make at the first call
  may fail to be made, and other calls wait for it meanwhile. *Lazy values are made once; one call
  does not show in the answer of another; every call is answered.*
* **Test servers.** The flag of `shutdown()` is stored from a session, while the accepting thread may
  have looked at it already. *Every test ends and passes.*
* **Startup.** Two sources of the port, an `int` cast to sixteen bits, a socket that listens
  before the handler is known, maps of functions that lead to other maps. *A program
  serves exactly when it was given what it needs, on the port and with the function asked
  for; otherwise it exits, with 0 only for `--help`.*
* **Parsers.** Four formats told apart by prefixes and headers; a batch and a single event take
  different paths; tables that must agree; padding. *The same event whichever binding carries
  it; no data lost; decoding inverts encoding; a form is understood as it was sent.*

`PROJECT.json` lists each hazard with its line and the properties that cover it.

## 2. Modules

| Module | Models | Uses |
|---|---|---|
| `SessionPool` | what the loop promises to clients | |
| `AcceptLoop` | `RunForTestImpl` from the first `shutdown()` to its return, and the catch clauses of `RunImpl` | `SessionPool`, which it implements |
| `HttpSession` | `HandleSession`, a copy for each connection, with clients and platform | |
| `Framework` | the server: the loop with these sessions | `AcceptLoop`, `HttpSession` |
| `CallUserFunction` | both overloads of `CallUserFunction`, with a client that tries again | |
| `Startup` | options, listening socket, handler, up to the loop | |
| `EventValues` | strings, JSON values and `CloudEvent`, as far as the parsers tell them apart | |
| `StructuredEvents` | `parse_cloud_event_json.cc`, `parse_cloud_event_storage.cc` | `EventValues` |
| `LegacyEvents` | `parse_cloud_event_legacy.cc` | `EventValues` |
| `EventBinding` | `parse_cloud_event_http.cc` | `StructuredEvents`, `LegacyEvents` |
| `Base64` | `base64_decode.cc`, and the encoding of RFC 4648 | |
| `Messages` | `http_request.h`, `http_response.h`, `wrap_request.cc`, `wrap_response.h` | |
| `Forms` | `http_content.cc`, `http_form_data.cc` of the examples | `EventValues`, `Messages` |
| `EventDelivery` | senders of messages, each in every way the formats have, and what is made of them | `EventBinding`, `Base64`, `Forms` |
| `UserFunctions` | concurrent calls of one function, and the response it returns, to the end of `UnwrapResponse` | `Messages` |
| `Examples` | the functions of the repository for HTTP, as programs of `UserFunctions` | |
| `TestServers` | the integration tests and their servers | `Framework`, `Messages` |
| `AcceptLoopProofs`, `HttpSessionProofs`, `FrameworkProofs`, `CallUserFunctionProofs`, `UserFunctionsProofs`, `StartupProofs` | theorems | the module they name |
| `EventProofs` | theorems about the parsers, base64, and what the senders of events get | `EventDelivery` |
| `FormProofs` | theorems about the forms of the examples, and what their senders get | `EventProofs` |
| `MC*` | instances for TLC | the module they name |

### How state and actions correspond to the code

**AcceptLoop.** `pc` is the next statement of the accepting thread. `sessions` is the vector of
that name, `todo` and `running` are the parameter and the local of the lambda `cleanup`;
a future is named by its connection. `wait` is the last argument of `cleanup` in this
iteration. `status[c]` is the connection's history as the kernel, the loop and the future
see it. One action is one call that can block, throw, or see what another thread did:
`KeepRunning`, `Collect` and `CollectFailure` are one round of the loop of `cleanup`
(`wait_for` timing out; `get()` returning; `get()` rethrowing), so that sessions end between
two rounds of a pass. Every exception leads to `join`, where the vectors are destroyed: the
destructor of a future of `std::async` waits for its thread. `RequestShutdown` is the
predicate of `RunForTest`; that of `RunImpl` is constantly false, a behaviour included.
`AcceptFails` covers the exceptions of `accept` and the `break` for a socket that is not open.

**HttpSession.** A request is two parts, its beginning and the rest; `sent` and `taken` count the
parts written and read, so the parts in the socket lie between. `ReadRequest` may take more
than the request: what is over dies with the `flat_buffer` of the iteration. `Flush` is the
flush of all stdio and iostream buffers, and moves the output of every session. `Kill` empties
the buffers and stops everything. The loop does not look at `keep_alive` to decide whether
to go on: neither does `Write`. `Write` is apart from `Session`, the steps a session takes by itself: `http::write`
returns when the client has read enough, and has no timeout.

**Framework.** `Spawn` is a step of both; a session's last step is also the loop's
`SessionEnds`. Each other step belongs to one of the two, so that the server implements the loop with
abstract sessions holds by construction, and is no property of a run. What the composition has to show is
what neither part has: whether sessions end, on which the progress of the loop depends.

**CallUserFunction.** One copy per attempt of the client. `Parse` makes every event first;
`CallEvent`, `EventReturns`, `FunctionThrows` are the body of the loop. `CatchThrows` is
`error.dump()` on text that is not UTF-8, thrown from the catch clause. An event either parses or
does not; which ones do is the parsers' part.

**UserFunctions.** A function is a sequence of statements, `Program[function]`: those that another call can
notice, and those that can fail. `BeginStatic` is the thread that gets to initialise a local static,
`Made` and `MakeThrows` the two ends of the initialiser; `Lock`, `BeginMake` and `Unlock` are the idiom
of `get_table_client` and `GetPublisher`. `StartTask`, `RunTask` and `JoinTask` are a `std::async`
whose temporary future waits in its destructor. `impl[c]` is the
message behind the `HttpResponse` of the call, made by its constructor, from which `UnwrapResponse` moves. `MovedFrom` is
what the move constructor of a Beast message leaves: no fields, no body, the same status.
`Examples` has the programs: of `bearer_token` the three statics, the two ways to fail and the request, of
`concepts_stateless` the counter, and so on; what a function computes from its own request
is left out.

**TestServers.** A test is a sequence of requests, each on a connection of its own: `Connects`, `Writes`,
`Reads` for each, in turn. `WriteFile`, `StoreFlag` and `FunctionEnds` are what the function of the
server does within the session's call; what is between `accept()` and the response is `Framework`. `Refused` is a request to
quit that comes when the server has gone, an exception the tests catch. `Waited` is
`server.wait()` with the expectations of the test.

**Forms.** `urldecode`, the split at `&` and `=`, and the `std::from_chars` into a signed `char` are done character by
character. A multipart body is a sequence of pieces (a line end, a boundary, a line), and the search of
`FormDataDelimiter` and the splits of `absl::StrSplit` are done on these.

**The parsers.** They keep no state, so each function is an operator, and the condition under which
it throws is one too. A string is known as far as the code tells strings apart: it is text, a
sequence of pieces that end where a prefix of the code may end; or the JSON text of a value; or
the base64 text of a string. JSON values answer what the code asks of `nlohmann::json`:
`contains`, `value` with its exceptions, `is_object`. A resource's name has its fixed parts and
its names in turn, which is what the regular expressions of the legacy formats tell apart.
`Base64` is apart from the rest, character by character. `EventDelivery` gives them a state: one
sender has one message and sends it in each way the formats allow, in any order; `outcome` is what
came out for each. The senders are written from the formats, not from the parsers, so the properties
compare the code with something else than itself. What a message may be is `MessagesAssumption`: an event
has the attributes it has to have (`Complete`) and a time that is one (`Timed`), what it carries is not itself
announced as an event (`CarriesNoEvent`), a notification is whole (`IsNotification`), and so on for each kind. TLC
evaluates it on the messages of the runs; the proofs are from it alone.

**Startup.** The state is a program counter over the calls that can throw, in the order of the
code: `PORT` is converted before the command line is parsed, the range checked
before `--help` is looked at, the socket listens before the handler is looked up.
`FindTarget` is one level of `MapFunctionImpl::GetHandler`.

## 3. Runs

| Run | Instance | Shows |
|---|---|---|
| `accept_loop` | 3 connections, threshold 1, maximum 2 | the loop's safety properties; it implements `SessionPool`; a connection beyond the maximum gets its session; a connection after the change of `shutdown()` makes the server return |
| `accept_loop_comment` | 4 connections, threshold 1, maximum 3 | finding 1 |
| `http_session` | 2 sessions, 2 requests each | order, keep-alive, output, one answer per call; if the function ends and the client reads, a session ends after its client and whole requests are answered |
| `http_session_pipelining` | 1 session, 3 requests together | finding 2 |
| `framework` | 2 connections, maximum 1, 1 request each | loop and sessions agree; bounded calls; nothing cut short; a client in the queue of a full server has its session once others leave |
| `call_user_function` | every batch of at most 2 events, 2 attempts | what a 200 means; every attempt ends |
| `user_functions` | 3 concurrent calls of each of 22 functions, the environment set or not | lazy values are made once; calls are isolated; every call is answered |
| `test_servers` | 12 tests against 4 servers, limits 80 and 160 | every test ends and passes |
| `event_delivery` | 1491 messages, each in up to 7 ways | an event does not depend on its binding; notifications are converted whole; batches are all or nothing; legacy shapes agree and resources keep their names; decoding inverts encoding; forms are understood |
| `event_conformance` | the same | finding 4 |
| `startup` | every `PORT`, command line, function and use of ports of the bounds | serves as asked, or fails |
| `startup_target` | the same | finding 3 |

**Bounds.** The limits 80 and 160 become 1 and 2: what matters is that the threshold is
below the maximum, that a pass runs at either, that the maximum is reached with connections
left, and that the vector has more than one future so that a pass can be half through it; three
connections give all of that, and the safety properties are proved for all limits. Sessions do not
interact except through the stdio buffers, so two
show every kind of interference; a second request shows what survives an iteration; three are
needed for a request to be lost between two others. `MaxAttempts` of 2 gives an attempt that
overlaps an older one, two events a failure before and after a success. The ports of
`startup` are the limits of the range and their neighbours, its functions a map, a map of a map
and two plain ones. `MaxRequests` and `MaxAttempts` bound guards of the client only.
In `framework` a maximum of 1 makes the second connection wait, in the queue and then at the loop, for the whole of the first.
Connections are symmetric; only `accept_loop_comment`, which has no liveness, uses that.

Three calls in `user_functions` are one that makes a value, one that waits for it and one that comes
later; its safety properties are proved for any number. `test_servers` has the limits of the code, which its
six connections do not reach: in the tests nothing ever waits for a place. Its clients wait for each
response, so no faults are needed; `SomeParallelism` makes `Tasks` requests together,
2 in the model and 16 in the code, and the requests of `Basic` are split over two tests, which
keeps the connections at six.

The messages of `event_delivery` are every combination of the attributes of an event with four
content types, three times and five kinds of data; a storage notification, that one with each of its
members missing, of another value or of another type; batches of at most three events; for each
legacy service names it knows, a name it does not, empty and other fields; up to four bytes
out of four values, which is every length modulo three and a group after a whole one; names of up to two characters
out of eight, each of which has a meaning in a form or is at the edge of ASCII; and forms of
up to two parts whose bodies have blank lines and look like forms themselves.

**Fairness.** Only the scheduler is fair: weak fairness of the accepting thread's own steps
(`Proceed` and `Spawn`; `accept()` returns when there is a connection, `wait_for` after a
second) and of each session thread, up to a call that waits for its client: `http::write`
(`framework_impl.cc:62`) and the reads have no timeout. Nothing is assumed of clients, of the function, of
`shutdown()`, of the platform or of failing calls. What a liveness property needs of them is its
antecedent, and no more than it needs: that sessions end (`SessionsEnd` of `AcceptLoop`), that the function ends (`HandlerEnds`,
`FunctionEnds`), that the client of that connection reads its responses or resets (`ClientReads`), or that
clients do both and leave in the end (`SessionCanEnd`). A client that is half closed and does not read holds its session for
ever; `SessionEndsAfterClient` is false of it, and its antecedent excludes it. In `user_functions` the calls are fair too, because what the
functions wait for is a service with a deadline or each other. In `test_servers` the test program is a process
of its own, fair like the server, and reads every response; there the liveness of the whole framework is checked, from the first
connection to the exit code. The framework has no timeout on reads, so clients that keep idle
connections open hold all of its threads; no property claims otherwise.

**Deadlock** is checked everywhere. Where a system may stop for good the stuttering action `Exited`,
`Stopped`, `Idle`, `Over`, `HandOver` or `AllReceived` says so, and nowhere else.

## 4. Proofs

TLAPS proves, for any set of connections and any limits, without bounds on the number of requests,
attempts or events:

* `AcceptLoopProofs` (from `LoopAssumption`: limits positive, threshold at most the maximum,
  `None` no connection): `TypeOK`, `SessionBound`, `ActiveHeld`, `FailureSurfaces`,
  `NothingLeftBehind`, `OneLateAccept`, and `Implements`. The bound on threads is not inductive:
  it holds because there are at most as many futures as the maximum at the only place where one
  is added. The invariant `IInv` adds to `TypeOK` where each vector is empty (`Placed`), the
  length of the three vectors together by place (`Counted`), that the accepted socket's
  connection has no session (`Owned`), what an exit leaves (`Ended`) and when the loop can still
  accept after the change of `shutdown()` (`Late`). With `ActiveHeld` the active sessions inject
  into the vectors, and their number is at most the length of these. Whether the connections are
  finite in number is not assumed.
* `HttpSessionProofs` (from `SessionAssumption`): `TypeOK`, `AnswersInOrder` without pipelining,
  `AnsweredIsLogged`, `KeepAliveEchoed`, `CallsAnswered`. The invariant says in addition that a
  response about to be written has its output in the log (`Printed`), that the local `keep_alive`
  is that of the current request (`Remembered`), and, without pipelining, that client and session
  are at the same request (`OneByOne`).
* `CallUserFunctionProofs` (from `CallAssumption`): `TypeOK`, `StatusIsTruthful`, `AckMeansHandled`,
  `BadBatchNeverCalls`. The invariant says how far an attempt is at each place (`Counted`,
  `Progress`), what attempts not sent yet are (`Unsent`), and that a client stopped at a 200 only
  (`Acked`). `TypeOK` is in no run here: it is proved, and says little the other three do not.

* `FrameworkProofs` (from `FrameworkAssumption`, the assumptions of both parts): `TypeOK`, `HandlersBounded`,
  `NoCallCutShort`. Each step of the composition is a step of the loop or leaves it alone, and the
  same for the sessions (`LoopStep`, `SessionStep`), so the invariants of both parts hold of it, by
  INSTANCE of their proof modules. What neither part knows is `Coupled`, where the
  session of a connection is by what the loop has it for, and `Finished`, that a session which returned has
  answered or has lost its client.
* `UserFunctionsProofs` (from `ProgramAssumption`: the lock is taken before, and released after, what is made under it): for every program of these statements and any set of calls,
  `LazyMadeOnce`, from who makes what and holds the lock (`Holders`); `CallsIsolated`,
  from how numbers are given out (`Counted`) and what the response of a call is until it is sent (`Own`).
* `StartupProofs` (from `StartupAssumption`: finitely many functions, a map made of functions that exist already):
  `TypeOK`, `ServesAsAsked`. `ServesAsAsked` compares the steps of `GetHandler` with `Named`, which follows the whole path at once.
  The invariant says that the function the lookup is at leads where the root does (`OnTheWay`). That every target leads somewhere
  (`SomeLead`) is by the least rank at which it would not.
* `EventProofs`. First the parsers, with no bound on values: a binary and a structured
  request of the same event give the same (`BinaryKeeps`, `JsonKeeps`, `SameWhateverBinding`), a batch of events that parse gives
  them all in order (`BatchInOrder`), and converting a storage notification twice is converting it once (`ConvertedOnce`).
  Then the senders of `EventDelivery` (from `MessagesAssumption`, any set of messages): `EventKept`, `NotificationConverted`,
  `BatchWhole`, `LegacyShapesAgree`, `ResourceNamed`, `BytesDecoded`. The inductive invariant is `AsParsed`: the
  outcome of each way is what the parser makes of the request of that way, so no order of arrival matters
  (`EachAsParsed`); it also keeps `sent` among the messages. What remains is about one request: that each sender's request has the event in its headers
  or members (`BinaryHeaders`, `JsonMembers`), and what the conversion does with an event that is none (`OthersStay`), a broken one,
  or a whole notification (`NotificationsConvert`). For legacy events `OfShape` says what the parser
  finds, of type, id, time, resource, service and data; all shapes have it
  (`ContextShape`, `FlatShape`), it determines the fields (`SameFields`) and the result of each of the five services
  (`ServiceSame`), and only an event of another service carries the request as its data (`ServiceData`, `LegacySame`).
  `DecodeInvertsEncode` is for bytes of any number and any part of the padding cut off. Characters and
  bytes are compared by their bits (`Bit`): a character has six (`SixBits`), a byte eight (`EightBits`), four characters
  have those of three bytes (`GroupOfBytes`), which is what is left when the positions are taken modulo three. How much padding there is
  (`PadsCounted`) and how long a code is (`Lengths`) make up the rest.
  Last `ResourceNamed`, for names of any number of pieces. A text is spelled by the characters of its pieces, and these
  are the constant `Letters`: all that is known of it is that some fixed pieces are two others together (`LettersAssumption`).
  Each service cuts a name where its regular expressions do (`ResourceAddressed`); the one of storage takes the last `#`
  with digits after it (`GenerationTakenOff`, from `DigitsAssumption`: `#` is no digit), the others a first piece (`PiecePeeled`). That the
  pieces of source and subject are those of the name, none lost and none twice, is `ObjectNamed`, `DocumentNamed` and
  `RefNamed`, which has to find the region of a database in its domain (`RegionOfDomain`).
* `FormProofs` (from `MessagesAssumption`, with the invariant of `EventProofs`): `NameUnderstood` and `PartsUnderstood`. First the
  names in forms, of any length and any bytes: what is decoded of a text put together of pieces is put together of
  what is decoded of each (`PieceDecoded`, `PiecesDecoded`), and each piece is a character, an escape that fits in a signed
  `char`, or one that is kept (`PieceKept`), which gives `EscapesUndone`; no value has a separator in it (`ValueHasNone`),
  so the second token of the form is the name with the whole value, whatever follows (`QueryTokens`, `NameFound`).
  Then the parts, any number of them with any headers and bodies. The text of a form has a marker of three pieces before each
  part and one at its end (`TextOfForm`, `Markers`), a boundary is nowhere else (`Boundaries`: headers have none, and bodies are assumed to have
  none), so the search finds these places, in order, and the parts are what lies between (`NextPart`, `StartsOfForm`, `PartsOfForm`).
  A part is cut where `absl::StrSplit` finds a line end, with its empty tokens skipped (`CutsAre`, `SkipsEmpty`), its headers end at
  the first blank line, whatever blank lines the body has (`BlankLines`), and the lines with a name say it once (`SaidOnce`,
  `DescribedAsSent`). Without a preamble the first boundary is one line of the first part more, and the names are the same (`TitleAsSent`).

Each invariant was a TLC invariant before it was proved. Each proof has one step per action, and
the theorems of the properties follow from the invariant and `PTL`.

`MessagesAssumption` asks no more of a sender than the formats do, with three exceptions that are the code's own: an event
whose data is announced as an event is one to the parser (`parse_cloud_event_http.cc:71`), a legacy event without
type or resource in its context is looked for beside it, and, in a legacy event, a value is not one of its own members (which the
finite values of JSON never are). What the formats ask of a resource is `IsNamed`, the name it has outside of its service: an object
is named without its generation, a database with its region, which is the first label of its domain. Of a form they ask `IsForm`: a sender
chooses a boundary that is in none of the bodies.

Three provers' limits shape the modules. An induction over a text is by the least position at which a claim fails
(`SetInduction`). A recursive function over one is shown to exist before it is used, because it only looks back, or
only ahead (`DecodesFromEnd`, `FlattensFromStart`, `SplitsFromStart`). A fold over a sequence is a function over sets
of positions, and what it computes is proved for paths of two or three keys (`FoldOfPath`), which are all there are.
And `Max` of a set is proved to be its greatest member from the least bound (`LeastNatural`), because induction with
an operator for its parameter cannot be instantiated.

Model-checked only: the liveness properties, which are outside the reach of the prover, `ConnectionsServed` and
`TestsPass` among them. Every invariant that a run checks, and every action property, is a theorem.

## 5. Findings

1. At the maximum the loop goes on as soon as one session has ended; the comment above the
   limit says it blocks until below the cleanup threshold (`framework_impl.cc:108`, `:117`).
2. The read buffer is a local of the iteration, so requests a client sends together can be
   dropped without an answer, although HTTP/1.1 lets clients pipeline and the documentation says
   that any request is handled (`framework_impl.cc:45`).
3. The help text of `--target` says "Ignored", while the target selects the function of a mapping
   and an unknown one stops the program (`parse_options.cc:47`, `function_impl.cc:51`).
4. A structured event whose JSON data is an array, a number, a boolean or null is refused, although
   it conforms to CloudEvents, whose events the README says are unmarshalled
   (`parse_cloud_event_json.cc:53`).

What the models also record, without a statement of the
repository against it:

* A binary event whose body comes in chunks, so without a `Content-Length`, is handled without its data, and is no
  notification (`parse_cloud_event_http.cc:62`). `EventKept` says that this is all that is lost.
* Storage notifications in a batch are not converted, and those whose content type has a parameter
  (`application/json; charset=utf-8`) are not either (`parse_cloud_event_json.cc:83`,
  `parse_cloud_event_storage.cc:24`).
* A Pub/Sub event that has the shape of a storage notification with members of other types is refused,
  not passed on (`parse_cloud_event_storage.cc:28`, `:41`): the `garbled` messages.
* A JSON string as data of a structured event is taken for the data itself, without its quotes
  (`parse_cloud_event_json.cc:53`).
* `concepts_after_response.cc:24` says that the task "may fail to complete, or even fail to start at all";
  the destructor of the temporary future waits for it (`:29`), so it is always over before the
  response: `CallsIsolated`.
* `HttpRequest::headers()` compares names by their spelling, HTTP does not: the functions of the examples that
  look for `content-type` do not find `Content-Type` (`http_content.cc:35`).
* `urldecode` keeps a `+`, keeps an escape above 127 as it came and drops a `%` with fewer than two characters after it
  (`http_content.cc:63`).
* A form without a preamble has its first boundary counted as a header of the first part, and `bodySize` is
  the size of the headers (`http_form_data.cc:82`).
* `SomeParallelism` asks for `/sleep/1000`, which the echo server has no case for, so its requests do not sleep
  (`basic_integration_test.cc:218`, `echo_server.cc:38`).
* base64 text of length 4n + 1 is refused, and `=` inside the text counts as 0 (`base64_decode.cc:34`).

## 6. Not modelled

In the server: headers, paths and payloads, except where a step depends on them. In the parsers: the
characters of names and values, the layout of JSON text, and what RFC 3339 allows (`Instant` lists
the texts of times). The Boost.Beast parser and the
kernel are the environment: what they may do is in the actions of clients and in the
nondeterminism of reads. Of the messages, `set_header` of `HttpResponse`, since no property is about what
a response has in its headers; and `clear_headers` and `remove_header` of `HttpRequest`, which one test only uses.

Copies of an `HttpResponse` share their message, and sending one empties it (`http_response.h:175`,
`call_user_function.cc:30`). A function that kept a response and returned it from two calls would race;
no function of the repository keeps one, and `UserFunctions` gives each call a response of its own.

Of the examples: what a function computes from its own request, except for the two that read forms;
the functions for CloudEvents (`tips_retry`, `tips_infinite_retries`, `hello_world_pubsub` and their like), which look at one event
and print, and whose retries are those of `CallUserFunction`; and the programs whose `main` only
chooses a function. Of the integration tests: `ExceptionLogsToStderr`, which is about the wording of a log.

The wording of logs and error messages, version strings, build files, the
buildpack and the CI have no state.

## 7. Plan

1. `AcceptLoop`, `SessionPool`, `HttpSession`, `Framework`, `CallUserFunction`, `Startup`, with their proofs. *Done.*
2. `EventValues`, `Base64`, `StructuredEvents`, `LegacyEvents`, `EventBinding`, `EventDelivery`, with the proofs
   about the two formats of CloudEvents. *Done.*
3. `Messages`, `UserFunctions`, `Examples`, `Forms`, `TestServers`. *Done.*
4. The proofs of `EventDelivery`: events, notifications, batches, legacy events with their shapes and resources, base64, the
   names and the parts in forms. *Done.*
5. What would add most next: a function for CloudEvents that gives up on old events (`tips_infinite_retries`), with a clock,
   in `CallUserFunction`.

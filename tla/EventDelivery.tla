---------------------------- MODULE EventDelivery ----------------------------
(***************************************************************************)
(* Senders of events and forms, and what the framework and the functions   *)
(* of the examples make of their requests. One sender has one thing to     *)
(* send, and sends it in every way the formats allow, in any order: what   *)
(* arrives must not depend on the way.                                     *)
(***************************************************************************)
EXTENDS EventBinding, Base64

F == INSTANCE Forms

CONSTANTS Messages,    \* what may be sent, each with its kind
          Letters(_)   \* the characters of a piece of text

VARIABLES sent,      \* the message of the sender
          outcome    \* the ways it was sent -> what came out of the parser

vars == <<sent, outcome>>

-----------------------------------------------------------------------------
(* The senders, as the formats have it.                                    *)

\* The part of f that is set.
Present(f) == [k \in {x \in DOMAIN f : f[x] # None} |-> f[k]]
Optionally(s) == IF s = None THEN None ELSE Str(s)
Request(type, body) ==
  [headers |-> [h \in {"content-type"} |-> type], body |-> body, has_content_length |-> TRUE]

\* An event in headers, with its content type in the header of that name.
kAttributeHeaders ==
  {"ce-id", "ce-source", "ce-type", "ce-specversion", "content-type", "ce-dataschema", "ce-subject", "ce-time"}
InHeader(e, h) ==
  CASE h = "ce-id" -> e.id
    [] h = "ce-source" -> e.source
    [] h = "ce-type" -> e.type
    [] h = "ce-specversion" -> e.spec_version
    [] h \in {"content-type", "ce-datacontenttype"} -> e.data_content_type
    [] h = "ce-dataschema" -> e.data_schema
    [] h = "ce-subject" -> e.subject
    [] h = "ce-time" -> e.time
Headers(e, names) == Present([h \in names |-> InHeader(e, h)])

BinaryRequest(e, names, chunked) ==
  [headers |-> Headers(e, names),
   body |-> IF e.data = None THEN EmptyString ELSE e.data,
   has_content_length |-> e.data # None /\ ~chunked]

\* The version that is the default need not be sent, for the code.
Brief(e) == [e EXCEPT !.spec_version = IF @ = kDefaultSpecVersion THEN None ELSE @]

\* Content type in both headers; and in chunks, when the length is not known beforehand.
Binary(e) == BinaryRequest(e, kAttributeHeaders, FALSE)
Repeated(e) == BinaryRequest(Brief(e), kAttributeHeaders \cup {"ce-datacontenttype"}, FALSE)
Chunked(e) == BinaryRequest(e, kAttributeHeaders, TRUE)

\* An event as an object, with the members of its data.
AsObject(e, data, data_base64) ==
  Object(Present([id |-> Str(e.id), source |-> Str(e.source), type |-> Str(e.type),
                  specversion |-> Optionally(e.spec_version),
                  datacontenttype |-> Optionally(e.data_content_type),
                  dataschema |-> Optionally(e.data_schema), subject |-> Optionally(e.subject),
                  time |-> Optionally(e.time), data |-> data, data_base64 |-> data_base64]))

\* JSON data of a JSON content type is the member itself, other data a string.
IsMember(e) ==
  /\ e.data # None /\ IsJson(e.data)
  /\ e.data_content_type = None \/ StartsWith(e.data_content_type, "application/json")
InJson(e) == AsObject(e, IF IsMember(e) THEN Parsed(e.data) ELSE Optionally(e.data), None)
InBase64(e) ==
  AsObject(Brief(e), None, IF e.data = None THEN None ELSE Str([base64 |-> e.data]))

Structured(json) == Request(Text(<<"application/cloudevents+json", "; charset=utf-8">>), Dump(json))
Batch(events) ==
  Request(Word("application/cloudevents-batch+json"),
          Dump([array |-> [i \in DOMAIN events |-> InJson(events[i])]]))

\* A legacy event has its fields in a context, or beside the data; or in both places, of
\* which the context counts, for the fields that are not empty in it.
Context(l) ==
  Object([eventType |-> Str(l.type), eventId |-> Str(l.id), timestamp |-> Str(l.time),
          resource |-> Object(Present([name |-> Str(l.resource), service |-> Optionally(l.service)]))])
LegacyObject(context, type, id, time, resource, l) ==
  Object(Present([context |-> context, eventType |-> type, eventId |-> id, timestamp |-> time,
                  resource |-> resource, data |-> l.data, domain |-> Optionally(l.domain)]))
InContext(l) == LegacyObject(Context(l), None, None, None, None, l)
Flat(l) == LegacyObject(None, Str(l.type), Str(l.id), Str(l.time), Str(l.resource), l)
Both(l) ==
  LegacyObject(Context(l), Str(Text(<<"providers/firebase.auth/", "eventTypes/user.delete">>)),
               Str(IF l.id = EmptyString THEN l.id ELSE Word("unused")), Str(l.time),
               Str(Word("unused")), l)
Legacy(json) == Request(Word("application/json"), Dump(json))

Requests(m) ==
  CASE m.kind \in {"event", "garbled", "notification"} ->
         [binary |-> Binary(m.event), repeated |-> Repeated(m.event), chunked |-> Chunked(m.event),
          structured |-> Structured(InJson(m.event)), base64 |-> Structured(InBase64(m.event))]
    [] m.kind = "batch" -> [batch |-> Batch(m.events)]
    [] m.kind = "legacy" ->
         Present([context |-> Legacy(InContext(m.legacy)), both |-> Legacy(Both(m.legacy)),
                  flat |-> IF m.legacy.service = None THEN Legacy(Flat(m.legacy)) ELSE None])

\* A decoder may be given less padding than there should be.
Codes(m) ==
  LET code == Encode(m.bytes)
  IN  [n \in 0..PadCount(code) |-> SubSeq(code, 1, Len(code) - n)]

\* A request with a form, its content type under some spelling of the header.
Posted(verb, shown, type, payload) ==
  F!MakeHttpRequest(
    [verb |-> verb, target |-> "/", payload |-> payload, version |-> F!Version(1, 1),
     headers |-> IF type = <<>> THEN <<>> ELSE <<F!Field(F!Name("content-type", shown), type[1])>>])

\* Characters that are no letter or digit are escaped; a browser has '+' for a space.
Hex(d) == IF d < 10 THEN 48 + d ELSE 55 + d
Escaped(c) == <<37, Hex(c \div 16), Hex(c % 16)>>
UrlEncoded(name) ==
  FlattenSeq([i \in DOMAIN name |->
    IF name[i] \in (48..57) \cup (97..122) THEN <<name[i]>> ELSE Escaped(name[i])])
Plus(name) == [i \in DOMAIN name |-> IF name[i] = 32 THEN 43 ELSE name[i]]
FromBrowser(name) ==
  FlattenSeq([i \in DOMAIN name |->
    IF name[i] = 32 THEN <<43>> ELSE UrlEncoded(<<name[i]>>)])

\* "id=1&name=...", and another "&name=x".
NameKey == <<110, 97, 109, 101>>
Query(value) == <<105, 100, 61, 49, 38>> \o NameKey \o <<61>> \o value
Again == <<38>> \o NameKey \o <<61, 120>>

NameRequests(name) ==
  LET form(value) == Posted("POST", "content-type", <<"application/x-www-form-urlencoded">>, value)
      plain(shown) == Posted("POST", shown, <<"text/plain">>, name)
  IN  Present(
        [plain |-> plain("content-type"), spelled |-> plain("Content-Type"),
         form |-> form(Query(UrlEncoded(name))), again |-> form(Query(UrlEncoded(name)) \o Again),
         browser |-> form(Query(FromBrowser(name))),
         json |-> IF \A i \in DOMAIN name : name[i] < 128
                    THEN Posted("POST", "content-type", <<"application/json">>,
                                Dump(Object([name |-> Str(Text(name))])))
                    ELSE None])

\* A form of parts, after the line end of a preamble or with none.
HeadOf(p) == <<F!Disposition(p.name, p.filename)>> \o FlattenSeq([i \in 1..p.lines |-> <<F!CRLF, F!Line("more")>>])
Multipart(parts, preamble) ==
  preamble \o
  FlattenSeq([i \in DOMAIN parts |->
    <<F!Boundary("B"), F!CRLF>> \o HeadOf(parts[i]) \o <<F!CRLF, F!CRLF>> \o parts[i].body \o <<F!CRLF>>])
  \o <<F!LastBoundary("B"), F!CRLF>>

PartRequests(parts) ==
  LET post(type, preamble) == Posted("POST", "content-type", type, Multipart(parts, preamble))
      form == <<"multipart/form-data", "B">>
  IN  [unquoted |-> post(<<form>>, <<F!CRLF>>),
       quoted |-> post(<< <<"multipart/form-data", F!Quote, "B", F!Quote>> >>, <<F!CRLF>>),
       bare |-> post(<<form>>, <<>>),
       unbounded |-> post(<< <<"multipart/form-data">> >>, <<F!CRLF>>),
       otherwise |-> post(<< <<"text/plain">> >>, <<F!CRLF>>),
       untyped |-> post(<<>>, <<F!CRLF>>),
       put |-> Posted("PUT", "content-type", <<form>>, Multipart(parts, <<F!CRLF>>))]

\* All there is to send of a message, and what comes of it.
Sendings(m) ==
  CASE m.kind = "bytes" -> Codes(m)
    [] m.kind = "name" -> NameRequests(m.name)
    [] m.kind = "parts" -> PartRequests(m.parts)
    [] OTHER -> Requests(m)

-----------------------------------------------------------------------------
(* What there is to send.                                                  *)

\* The attributes there have to be are there; JSON data is the text of a value.
Complete(e) ==
  /\ e = [id |-> e.id, source |-> e.source, type |-> e.type, spec_version |-> e.spec_version,
          data_content_type |-> e.data_content_type, data_schema |-> e.data_schema,
          subject |-> e.subject, time |-> e.time, data |-> e.data]
  /\ None \notin {e.id, e.source, e.type, e.spec_version}
  /\ IsJson(e.data) => e.data = Dump(Parsed(e.data))

\* What an event carries is not said to be an event.
CarriesNoEvent(e) ==
  \A type \in {"application/cloudevents+json", "application/cloudevents-batch+json"} :
    ~StartsWith(e.data_content_type, type)

Timed(e) == e.time = None \/ IsTime(e.time)

\* A message of Pub/Sub, and what its attributes say.
IsPubSub(e) == e.type = kPubSubType /\ e.data_content_type = kJson /\ e.data # None
HasMessage(e) == IsPubSub(e) /\ IsJson(e.data) /\ Has(Parsed(e.data), "message")
MessageOf(e) == At(Parsed(e.data), "message")
Said(message, k) == At(At(message, "attributes"), k)

\* A whole notification of Cloud Storage ...
Notifies(e) ==
  LET message == MessageOf(e)
  IN  /\ HasMessage(e) /\ LooksLikeStorage(message)
      /\ \A k \in {"payloadFormat", "eventType", "bucketId", "objectId"} : IsString(Said(message, k))
      /\ Said(message, "payloadFormat").string = Word("JSON_API_V1")
      /\ IsMapped(Said(message, "eventType").string)
      /\ IsString(At(message, "data")) /\ IsBase64(At(message, "data").string)

\* ... and one that says it is none, before there is anything wrong in it.
SaysOtherwise(message) ==
  \/ ~LooksLikeStorage(message)
  \/ /\ IsString(Said(message, "payloadFormat"))
     /\ \/ Said(message, "payloadFormat").string # Word("JSON_API_V1")
        \/ IsString(Said(message, "eventType")) /\ ~IsMapped(Said(message, "eventType").string)
IsOther(e) ==
  IsPubSub(e) => IsJson(e.data) /\ (HasMessage(e) => SaysOtherwise(MessageOf(e)))

\* The types of Cloud Storage, as its documentation has them.
StorageTypes ==
  [OBJECT_FINALIZE |-> "google.cloud.storage.object.v1.finalized",
   OBJECT_METADATA_UPDATE |-> "google.cloud.storage.object.v1.metadataUpdated",
   OBJECT_DELETE |-> "google.cloud.storage.object.v1.deleted",
   OBJECT_ARCHIVE |-> "google.cloud.storage.object.v1.archived"]

IsNotification(m) ==
  LET message == MessageOf(m.event)
  IN  /\ Notifies(m.event)
      /\ m.bucket = Said(message, "bucketId").string
      /\ m.object = Said(message, "objectId").string
      /\ m.data = Base64Decode(At(message, "data").string)
      /\ m.type = Word(StorageTypes[Said(message, "eventType").string.text[1]])

\* A batch of events whose times are right, or are "never".
IsBatch(events) ==
  /\ Len(events) \in Nat /\ DOMAIN events = 1..Len(events)
  /\ \A i \in DOMAIN events :
       /\ Complete(events[i])
       /\ IsMember(events[i]) => IsObject(Parsed(events[i].data))
       /\ events[i].time # None => (IsTime(events[i].time) <=> events[i].time # Word("never"))

\* The characters of a text are those of its pieces, and there are pieces that are two others.
IsSpelled(text) ==
  text \in Seq(STRING) /\ \A i \in DOMAIN text : Letters(text[i]) \in Seq(STRING)
Characters(s) == FlattenSeq([i \in DOMAIN s.text |-> Letters(s.text[i])])

ASSUME LettersAssumption ==
  /\ IsSpelled(<<"//storage.googleapis.com/", "projects/_/buckets/", "//firestore.googleapis.com/", "projects/",
                 "//firebasedatabase.googleapis.com/projects/_/locations/", "/databases/", "/instances/",
                 "/", "objects/", "documents/", "refs/", "us-central1",
                 "//storage.googleapis.com/projects/_/buckets/", "//firestore.googleapis.com/projects/">>)
  /\ Letters("//storage.googleapis.com/projects/_/buckets/") =
       Letters("//storage.googleapis.com/") \o Letters("projects/_/buckets/")
  /\ Letters("//firestore.googleapis.com/projects/") = Letters("//firestore.googleapis.com/") \o Letters("projects/")
  /\ Letters("/objects/") = Letters("/") \o Letters("objects/")
  /\ Letters("/documents/") = Letters("/") \o Letters("documents/")
  /\ Letters("/refs/") = Letters("/") \o Letters("refs/")

\* The name by which a resource is known outside of its service. An object has it without
\* the generation at the end; a database is in a region, the first label of its domain.
IsNamed(l, named) ==
  LET name == l.resource.text
      service == IF l.service \in {None, EmptyString} THEN MapGCFTypeToService(l.type) ELSE l.service
      Generation(i) == name[i] = "#" /\ \A j \in (i + 1)..Len(name) : name[j] \in Digits
  IN  /\ IsSpelled(name)
      /\ service # Word("firebaseauth.googleapis.com")
      /\ service = Word("storage.googleapis.com") =>
           \E k \in 3..Len(name) :
             /\ IF k = Len(name) THEN \A i \in 4..k : ~Generation(i) ELSE Generation(k + 1)
             /\ named.text = <<"//storage.googleapis.com/">> \o SubSeq(name, 1, k)
      /\ service = Word("firestore.googleapis.com") =>
           named.text = <<"//firestore.googleapis.com/">> \o name
      /\ service = Word("firebasedatabase.googleapis.com") =>
           LET region == named.text[2]
               domain == l.domain.text
           IN  /\ named.text = <<"//firebasedatabase.googleapis.com/projects/_/locations/", region,
                                 "/instances/">> \o Tail(name)
               /\ l.domain # None =>
                    /\ IsText(l.domain) /\ IsSpelled(domain)
                    /\ domain = <<"firebaseio.com">> => region = "us-central1"
                    /\ Contains(domain, ".") => Len(domain) > 1 /\ domain[1] = region /\ region # "." /\ domain[2] = "."

\* A legacy event has a type and a resource. (No value is one of its own members.)
IsLegacy(m) ==
  /\ m.named # None => IsNamed(m.legacy, m.named)
  /\ None \notin {m.legacy.type, m.legacy.id, m.legacy.resource, m.legacy.time, m.legacy.data}
  /\ EmptyString \notin {m.legacy.type, m.legacy.resource}
  /\ \A way \in DOMAIN Requests(m) : m.legacy.data # Parsed(Requests(m)[way].body)

\* The parts of a form, whose boundary is not in the body of any.
IsForm(parts) ==
  /\ Len(parts) \in Nat /\ DOMAIN parts = 1..Len(parts)
  /\ \A i \in DOMAIN parts :
       /\ parts[i].name \in STRING /\ parts[i].filename \in STRING /\ parts[i].lines \in Nat
       /\ parts[i].body \in Seq(Seq(STRING) \ {F!Boundary("B"), F!LastBoundary("B")})

ASSUME MessagesAssumption ==
  \A m \in Messages :
    /\ m.kind \in {"event", "garbled", "notification"} =>
         Complete(m.event) /\ CarriesNoEvent(m.event) /\ Timed(m.event)
    /\ m.kind = "event" => IsOther(m.event)
    /\ m.kind = "garbled" => ~Notifies(m.event)
    /\ m.kind = "notification" => IsNotification(m)
    /\ m.kind = "batch" => IsBatch(m.events)
    /\ m.kind = "legacy" => IsLegacy(m)
    /\ m.kind = "bytes" => m.bytes \in Seq(0..255)
    /\ m.kind = "name" => m.name \in Seq(0..255)
    /\ m.kind = "parts" => IsForm(m.parts)

-----------------------------------------------------------------------------
Init == sent \in Messages /\ outcome = <<>>

Receive(kinds, way, result) ==
  /\ sent.kind \in kinds
  /\ way \in DOMAIN Sendings(sent) \ DOMAIN outcome
  /\ outcome' = [w \in DOMAIN outcome \cup {way} |-> IF w = way THEN result ELSE outcome[w]]
  /\ UNCHANGED sent

ReceiveRequest(way) ==
  Receive({"event", "garbled", "notification", "batch", "legacy"}, way,
          ParseCloudEventHttp(Sendings(sent)[way]))

ReceiveName(way) == Receive({"name"}, way, F!http_content(Sendings(sent)[way], NameKey))

ReceiveForm(way) == Receive({"parts"}, way, F!http_form_data_impl(Sendings(sent)[way]))

ReceiveBytes(way) == Receive({"bytes"}, way, Decode(Sendings(sent)[way]))

AllReceived == DOMAIN outcome = DOMAIN Sendings(sent) /\ UNCHANGED vars

Next ==
  \/ \E way \in {"binary", "repeated", "chunked", "structured", "base64", "batch",
                 "context", "both", "flat"} : ReceiveRequest(way)
  \/ \E way \in {"plain", "spelled", "form", "again", "browser", "json"} : ReceiveName(way)
  \/ \E way \in {"unquoted", "quoted", "bare", "unbounded", "otherwise", "untyped", "put"} :
       ReceiveForm(way)
  \/ \E way \in 0..2 : ReceiveBytes(way)
  \/ AllReceived

Spec == Init /\ [][Next]_vars

-----------------------------------------------------------------------------
(* Properties.                                                             *)

\* The event the function should get: the text of the time became an instant.
AsSent(e) == [e EXCEPT !.time = IF @ = None THEN None ELSE TimePoint(@)]

\* JSON that is no object does not survive as a member: everything else does.
Survives(e, way) == way = "structured" /\ IsMember(e) => IsObject(Parsed(e.data))

\* A body without a length is not taken for data, so what arrives is the event without it.
Dataless(e) == [e EXCEPT !.data = None]
Arrived(e, way) == IF way = "chunked" THEN Dataless(e) ELSE e

\* The function gets the event that was sent, whatever the request looks like: every
\* attribute, and the data if its length came with it; if not, the data is lost, all of it
\* and nothing else, and the event is no notification. One that looks like a notification
\* of Cloud Storage, and is not a whole one, is refused or kept, never converted in part
\* (parse_cloud_event_http.cc:33, :62, parse_cloud_event_json.cc:25).
EventKept ==
  sent.kind \in {"event", "garbled", "notification"} =>
    \A way \in DOMAIN outcome :
      Survives(sent.event, way) /\ (sent.kind = "notification" => way = "chunked") =>
        \/ outcome[way] = Events(<<AsSent(Arrived(sent.event, way))>>)
        \/ outcome[way] = Thrown /\ sent.kind = "garbled" /\ way # "chunked"

\* A Pub/Sub notification of Cloud Storage becomes the event it is about: the same id,
\* time and version, the bucket and the object, and the data that was in the message;
\* and what came out is not converted again (parse_cloud_event_storage.cc:22).
NotificationConverted ==
  sent.kind = "notification" =>
    \A way \in DOMAIN outcome \ {"chunked"} :
      LET e == outcome[way].events[1]
      IN  /\ outcome[way] # Thrown
          /\ e.id = sent.event.id /\ e.time = AsSent(sent.event).time
          /\ e.spec_version = sent.event.spec_version
          /\ e.source = Join(Word("//storage.googleapis.com/projects/_/buckets/"), sent.bucket)
          /\ e.subject = Join(Word("objects/"), sent.object)
          /\ e.data = sent.data
          /\ e.type = sent.type
          /\ ParseCloudEventStorage(e) = e

\* A batch is all of its events in order, or nothing: none is skipped when another does
\* not parse (call_user_function.cc:89, parse_cloud_event_json.cc:80). Notifications in
\* a batch stay what they are.
BatchWhole ==
  sent.kind = "batch" =>
    \A way \in DOMAIN outcome :
      outcome[way] = IF \E i \in DOMAIN sent.events : sent.events[i].time = Word("never")
                       THEN Thrown
                       ELSE Events([i \in DOMAIN sent.events |-> AsSent(sent.events[i])])

\* The data of a service without a format of its own is the whole request.
WithoutBody(way) ==
  IF outcome[way] # Thrown /\ outcome[way].events[1].data = Requests(sent)[way].body
    THEN Events(<<[outcome[way].events[1] EXCEPT !.data = None]>>)
    ELSE outcome[way]

\* A legacy event is the same event wherever its fields are, and what is beside the
\* context does not count (parse_cloud_event_legacy.cc:39).
LegacyShapesAgree ==
  sent.kind = "legacy" => \A v, w \in DOMAIN outcome : WithoutBody(v) = WithoutBody(w)

\* Source and subject together name the resource of a legacy event: nothing of its name
\* is lost on the way but the generation of an object.
ResourceNamed ==
  sent.kind = "legacy" =>
    \A way \in DOMAIN outcome :
      outcome[way] # Thrown /\ outcome[way].events[1].subject # None /\ sent.named # None =>
        LET e == outcome[way].events[1]
        IN  Characters(e.source) \o Letters("/") \o Characters(e.subject) = Characters(sent.named)

\* Decoding gives the bytes that were encoded, however much of the padding is missing
\* (base64_decode.cc:24).
BytesDecoded ==
  sent.kind = "bytes" => \A way \in DOMAIN outcome : outcome[way] = sent.bytes

\* A name is greeted whatever it came in, if not under a header of another spelling; of
\* a form, a '+' stays and so does the escape of what is no ASCII character.
Greeted(name, way) ==
  CASE way = "spelled" -> <<>>
    [] way \in {"form", "again"} ->
         FlattenSeq([i \in DOMAIN name |-> IF name[i] < 128 THEN <<name[i]>> ELSE Escaped(name[i])])
    [] way = "browser" ->
         FlattenSeq([i \in DOMAIN name |->
           IF name[i] < 128 THEN Plus(<<name[i]>>) ELSE Escaped(name[i])])
    [] OTHER -> name

\* A function that greets finds the name its sender put in the request, up to the last
\* escape, and of two names in a form the first (http_content.cc:63).
NameUnderstood ==
  sent.kind = "name" => \A way \in DOMAIN outcome : outcome[way] = Greeted(sent.name, way)

Described(p) ==
  LET blank == \E i \in 1..(Len(p.body) - 1) : p.body[i] = F!CRLF /\ p.body[i + 1] = F!CRLF
  IN  [bodySize |-> IF blank THEN 0 ELSE Len(HeadOf(p)), headerCount |-> 1 + p.lines,
       name |-> {p.name} \ {""}, isFile |-> p.filename # "", filename |-> {p.filename} \ {""}]
Titles(descriptors) == [i \in DOMAIN descriptors |-> <<descriptors[i].name, descriptors[i].filename>>]

\* A function that describes a form finds in it every part, once and in order, whatever is
\* in their bodies; the first boundary counts as a header where nothing is before it
\* (http_form_data.cc:82).
PartsUnderstood ==
  sent.kind = "parts" =>
    LET expected == [i \in DOMAIN sent.parts |-> Described(sent.parts[i])]
    IN  \A way \in DOMAIN outcome :
          CASE way \in {"unquoted", "quoted"} -> outcome[way] = [parts |-> expected]
            [] way = "bare" ->
                 sent.parts # <<>> => Titles(outcome[way].parts) = Titles(expected)
            [] way = "unbounded" -> outcome[way] = Thrown
            [] OTHER -> outcome[way] = [status |-> IF way = "put" THEN 405 ELSE 400]

\* "Automatically unmarshal events conforming to the [CloudEvents] spec" (README.md:94):
\* an event that conforms, with its version, is never refused.
ConformingUnmarshalled ==
  sent.kind = "event" =>
    \A way \in DOMAIN outcome \ {"repeated", "base64"} : outcome[way] # Thrown
==============================================================================

--------------------------- MODULE MCEventDelivery ---------------------------
(* An instance of EventDelivery for TLC. *)
EXTENDS EventDelivery

MCInstant == <<"10:00Z">> :> 10 @@ <<"12:00+02:00">> :> 10
MCDigits == {"12", "34"}
MCLetters(p) == [i \in 1..Len(p) |-> SubSeq(p, i, i)]

Event(type, version, content, schema, subject, time, data) ==
  [CloudEvent(Word("id"), Word("/source"), Word(type), Word(version))
   EXCEPT !.data_content_type = content, !.data_schema = schema, !.subject = subject,
          !.time = time, !.data = data]

Times == {None, Word("10:00Z"), Word("12:00+02:00")}
ContentTypes ==
  {None, Word("application/json"), Text(<<"application/json", "; charset=utf-8">>), Word("text/plain")}
AnyData ==
  {None, EmptyString, Word("text"), Dump(Object("a" :> Str(Word("b")))), Dump([array |-> <<Null>>])}

\* Events of any shape ...
PlainEvents ==
  {Event("example", version, content, schema, subject, time, data) :
     version \in {"1.0", "1.1"}, content \in ContentTypes, schema \in {None, Word("schema")},
     subject \in {None, Word("subject")}, time \in Times, data \in AnyData}

\* ... and what looks like a notification, from one that is whole.
Notified ==
  "notificationConfig" :> Word("config") @@ "eventType" :> Word("OBJECT_DELETE") @@
  "payloadFormat" :> Word("JSON_API_V1") @@ "bucketId" :> Word("bucket") @@
  "objectId" :> Text(<<"dir/", "object">>) @@ "objectGeneration" :> Word("12")
Strings(f) == [k \in DOMAIN f |-> Str(f[k])]
Whole == "attributes" :> Object(Strings(Notified)) @@ "data" :> Str([base64 |-> Word("payload")])
Message(members) == Dump(Object("message" :> Object(members)))
PubSubEvent(content, time, data) ==
  Event("google.cloud.pubsub.topic.v1.messagePublished", "1.0", content, None, None, time, data)
InPubSub(data) == PubSubEvent(Word("application/json"), None, data)

WithAttribute(k, v) ==
  Message([Whole EXCEPT !["attributes"] = Object([Strings(Notified) EXCEPT ![k] = v])])

Kept ==
  {PubSubEvent(content, time, Message(Whole)) : content \in ContentTypes \ {Word("application/json")},
                                                time \in Times} \cup
  {InPubSub(data) : data \in
     {None, Dump(Object("a" :> Null)), Dump(Object("message" :> Null)), Message(<<>>)} \cup
     {Message([k \in DOMAIN Whole \ {gone} |-> Whole[k]]) : gone \in DOMAIN Whole} \cup
     {Message([Whole EXCEPT !["attributes"] =
        Object([k \in DOMAIN Notified \ {gone} |-> Str(Notified[k])])]) : gone \in DOMAIN Notified} \cup
     {WithAttribute("payloadFormat", Str(Word("NONE"))), WithAttribute("eventType", Str(Word("OBJECT_COPY")))}}

Garbled ==
  {InPubSub(data) : data \in
     {EmptyString, Word("text"), Message([Whole EXCEPT !["data"] = Str(Word("text"))]),
      Message([Whole EXCEPT !["data"] = Null])} \cup
     {WithAttribute(k, Null) : k \in {"payloadFormat", "eventType", "bucketId", "objectId"}}}

StorageType ==
  [OBJECT_FINALIZE |-> "finalized", OBJECT_METADATA_UPDATE |-> "metadataUpdated",
   OBJECT_DELETE |-> "deleted", OBJECT_ARCHIVE |-> "archived"]
Notifications ==
  {[kind |-> "notification",
    event |-> PubSubEvent(Word("application/json"), time, WithAttribute("eventType", Str(Word(t)))),
    bucket |-> Word("bucket"), object |-> Text(<<"dir/", "object">>), data |-> Word("payload"),
    type |-> Word("google.cloud.storage.object.v1." \o StorageType[t])] :
     time \in Times, t \in DOMAIN StorageType}

\* Batches of good events, of one that has no time, and of a notification.
InBatch ==
  {Event("example", "1.0", None, None, None, time, Word("text")) :
     time \in {None, Word("10:00Z"), Word("never")}} \cup {InPubSub(Message(Whole))}
Batches == {[kind |-> "batch", events |-> b] : b \in UNION {[1..n -> InBatch] : n \in 0..3}}

\* Legacy events: of each service, with a name it knows and one it does not.
Named(resource, named) == [resource |-> Text(resource), named |-> named]
Unknown == Named(<<"elsewhere">>, None)
Objects ==
  LET bucket == <<"projects/_/buckets/", "b", "/objects/">>
      Object1(name) ==
        Named(bucket \o name \o <<"#", "12">>, Text(<<"//storage.googleapis.com/">> \o bucket \o name))
  IN  {Object1(name) : name \in {<<"o">>, <<"dir/", "o">>, <<"o", "#", "x">>, <<"o", "#", "34">>}} \cup
      {Named(bucket \o <<"o", "#", "x">>, Text(<<"//storage.googleapis.com/">> \o bucket \o <<"o", "#", "x">>))}
Documents ==
  {Named(d, Text(<<"//firestore.googleapis.com/">> \o d)) :
     d \in {<<"projects/", "p", "/databases/", "d", "/documents/", "c/", "x">>}}
Refs(region) ==
  {Named(<<"projects/_/instances/", "i", "/refs/", "r">>,
         Text(<<"//firebasedatabase.googleapis.com/projects/_/locations/", region, "/instances/", "i", "/refs/", "r">>))}

Of(types, services, resources, data, domains) ==
  {[kind |-> "legacy", named |-> r.named,
    legacy |-> [type |-> Text(t), service |-> s, id |-> id, resource |-> r.resource, time |-> time,
                data |-> d, domain |-> domain]] :
     t \in types, s \in {None} \cup services, r \in resources \cup {Unknown}, d \in data,
     domain \in domains, id \in {EmptyString, Word("id")}, time \in {EmptyString, Word("10:00Z")}}

Elsewhere == Word("other.googleapis.com")
User(metadata) == Object("uid" :> Str(Word("u")) @@ "metadata" :> metadata)
LegacyMessages ==
  Of({<<"google.storage.object.", "finalize">>, <<"google.storage.object.", "other">>},
     {Elsewhere}, Objects, {Null}, {None}) \cup
  Of({<<"providers/cloud.firestore/", "eventTypes/document.write">>, <<"providers/cloud.firestore/", "x">>},
     {}, Documents, {Null}, {None}) \cup
  Of({<<"providers/google.firebase.database/", "eventTypes/ref.write">>}, {}, Refs("us-central1"),
     {Null}, {None, Word("firebaseio.com"), Word("nowhere")}) \cup
  Of({<<"providers/google.firebase.database/", "eventTypes/ref.write">>}, {}, Refs("asia"),
     {Null}, {Text(<<"asia", ".", "firebasedatabase.app">>)}) \cup
  Of({<<"providers/firebase.auth/", "eventTypes/user.create">>}, {}, {},
     {Null, Object("metadata" :> Null), User(Null), User(Object("createdAt" :> Null)),
      User(Object("createdAt" :> Str(Word("10:00Z")) @@ "lastSignedInAt" :> Str(EmptyString)))}, {None}) \cup
  Of({<<"providers/cloud.pubsub/", "eventTypes/topic.publish">>, <<"google.pubsub.topic.", "publish">>},
     {Word("pubsub.googleapis.com")}, {},
     {Null, Str(Word("text")), Object("messageId" :> Null)}, {None}) \cup
  Of({<<"providers/google.firebase.analytics/", "eventTypes/event.log">>,
      <<"providers/firebase.remoteConfig/", "remoteconfig.update">>},
     {Elsewhere}, {}, {Null}, {None})

Bytes == {[kind |-> "bytes", bytes |-> b] : b \in UNION {[1..n -> {0, 5, 127, 255}] : n \in 0..4}}

\* Names of a letter, a space, a '+', an '=', a '&', a '%', the last ASCII character and one
\* that is none.
Names == {[kind |-> "name", name |-> n] : n \in UNION {[1..k -> {97, 32, 43, 61, 38, 37, 127, 195}] : k \in 0..2}}

\* Forms of parts: with and without a file, whose body may look like a form.
FormParts ==
  {[name |-> name, filename |-> filename, lines |-> lines, body |-> body] :
     name \in {"n", ""}, filename \in {"", "f"}, lines \in 0..1,
     body \in {<<>>, <<F!CRLF>>, <<F!Line("v")>>, <<F!Line("v"), F!CRLF, F!CRLF, F!Line("w")>>,
               <<F!Boundary("C"), F!CRLF, F!Line("v"), F!CRLF, F!LastBoundary("C")>>}}
MultipartForms == {[kind |-> "parts", parts |-> f] : f \in UNION {[1..k -> FormParts] : k \in 0..1}} \cup
  {[kind |-> "parts", parts |-> <<p, q>>] : p \in {r \in FormParts : r.name = "n"}, q \in {r \in FormParts : r.name = "" /\ r.lines = 0}}

MCMessages ==
  {[kind |-> "event", event |-> e] : e \in PlainEvents \cup Kept} \cup
  {[kind |-> "garbled", event |-> e] : e \in Garbled} \cup
  Notifications \cup Batches \cup LegacyMessages \cup Bytes \cup Names \cup MultipartForms
==============================================================================

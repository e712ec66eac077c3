---------------------------- MODULE LegacyEvents -----------------------------
(***************************************************************************)
(* Events in the formats that came before CloudEvents:                     *)
(* parse_cloud_event_legacy.cc. A type of event is two pieces of text, so  *)
(* that the prefixes of the code are first pieces; in the name of a        *)
(* resource the pieces alternate between fixed parts and names.            *)
(***************************************************************************)
EXTENDS EventValues, TLC

CONSTANTS Digits   \* the pieces made of digits only

ASSUME DigitsAssumption == "#" \notin Digits

-----------------------------------------------------------------------------
\* GetNestedKey: the string at the end of the path, or nothing.
GetNestedKey(json, path) ==
  LET end == FoldLeft(Member, json, path)
  IN  IF IsString(end) THEN end.string ELSE EmptyString

\* Mutant: the alternative comes first.
AlternativeFirst(json, primary, alternative) ==
  IF Value(json, alternative) # EmptyString
    THEN Value(json, alternative)
    ELSE GetNestedKey(json, primary)

GetAlternatives(json, primary, alternative) ==
  IF GetNestedKey(json, primary) # EmptyString
    THEN GetNestedKey(json, primary)
    ELSE Value(json, alternative)

AlternativesThrow(json, primary, alternative) ==
  GetNestedKey(json, primary) = EmptyString /\ ValueThrows(json, alternative)

-----------------------------------------------------------------------------
\* The tables of MapGCFTypeToService and MapGCFTypeToCloudEventType.
kPrefixes ==
  "providers/cloud.firestore/" :> "firestore.googleapis.com" @@
  "providers/google.firebase.analytics/" :> "firebaseanalytics.googleapis.com" @@
  "providers/firebase.auth/" :> "firebaseauth.googleapis.com" @@
  "providers/google.firebase.database/" :> "firebasedatabase.googleapis.com" @@
  "providers/cloud.pubsub/" :> "pubsub.googleapis.com" @@
  "google.storage.object." :> "storage.googleapis.com"

kMapping ==
  <<"google.pubsub.topic.", "publish">> :> "google.cloud.pubsub.topic.v1.messagePublished" @@
  <<"providers/cloud.pubsub/", "eventTypes/topic.publish">> :> "google.cloud.pubsub.topic.v1.messagePublished" @@
  <<"google.storage.object.", "finalize">> :> "google.cloud.storage.object.v1.finalized" @@
  <<"google.storage.object.", "delete">> :> "google.cloud.storage.object.v1.deleted" @@
  <<"google.storage.object.", "archive">> :> "google.cloud.storage.object.v1.archived" @@
  <<"google.storage.object.", "metadataUpdate">> :> "google.cloud.storage.object.v1.metadataUpdated" @@
  <<"providers/cloud.firestore/", "eventTypes/document.write">> :> "google.cloud.firestore.document.v1.written" @@
  <<"providers/cloud.firestore/", "eventTypes/document.create">> :> "google.cloud.firestore.document.v1.created" @@
  <<"providers/cloud.firestore/", "eventTypes/document.update">> :> "google.cloud.firestore.document.v1.updated" @@
  <<"providers/cloud.firestore/", "eventTypes/document.delete">> :> "google.cloud.firestore.document.v1.deleted" @@
  <<"providers/firebase.auth/", "eventTypes/user.create">> :> "google.firebase.auth.user.v1.created" @@
  <<"providers/firebase.auth/", "eventTypes/user.delete">> :> "google.firebase.auth.user.v1.deleted" @@
  <<"providers/firebase.remoteConfig/", "remoteconfig.update">> :> "google.firebase.remoteconfig.remoteConfig.v1.updated" @@
  <<"providers/google.firebase.analytics/", "eventTypes/event.log">> :> "google.firebase.analytics.log.v1.written" @@
  <<"providers/google.firebase.database/", "eventTypes/ref.create">> :> "google.firebase.database.ref.v1.created" @@
  <<"providers/google.firebase.database/", "eventTypes/ref.write">> :> "google.firebase.database.ref.v1.written" @@
  <<"providers/google.firebase.database/", "eventTypes/ref.update">> :> "google.firebase.database.ref.v1.updated" @@
  <<"providers/google.firebase.database/", "eventTypes/ref.delete">> :> "google.firebase.database.ref.v1.deleted"

HasService(type) == \E prefix \in DOMAIN kPrefixes : StartsWith(type, prefix)
MapGCFTypeToService(type) == Word(kPrefixes[type.text[1]])

\* A type of storage event that is not in the table stays as it is.
HasType(type) ==
  \/ IsText(type) /\ type.text \in DOMAIN kMapping
  \/ StartsWith(type, "google.storage.object.")

MapGCFTypeToCloudEventType(type) ==
  IF type.text \in DOMAIN kMapping THEN Word(kMapping[type.text]) ELSE type

-----------------------------------------------------------------------------
(* ParseLegacyCommonFields.                                                *)

CommonFieldsThrow(json) ==
  \/ AlternativesThrow(json, <<"context", "eventType">>, "eventType")
  \/ AlternativesThrow(json, <<"context", "eventId">>, "eventId")
  \/ AlternativesThrow(json, <<"context", "resource", "name">>, "resource")
  \/ AlternativesThrow(json, <<"context", "timestamp">>, "timestamp")
  \/ /\ GetNestedKey(json, <<"context", "resource", "service">>) = EmptyString
     /\ ~HasService(GetAlternatives(json, <<"context", "eventType">>, "eventType"))

CommonFields(json) ==
  LET type == GetAlternatives(json, <<"context", "eventType">>, "eventType")
      explicit == GetNestedKey(json, <<"context", "resource", "service">>)
      service == IF explicit # EmptyString THEN explicit ELSE MapGCFTypeToService(type)
      resource == GetAlternatives(json, <<"context", "resource", "name">>, "resource")
  IN  [event_type |-> type,
       service |-> service,
       event_id |-> GetAlternatives(json, <<"context", "eventId">>, "eventId"),
       resource_name |-> resource,
       timestamp |-> GetAlternatives(json, <<"context", "timestamp">>, "timestamp"),
       source |-> Join(Join(Word("//"), service), Join(Word("/"), resource)),
       subject |-> EmptyString]

\* ParseLegacyCommon: the event of these fields and data.
Common(gcf, data) ==
  IF ~HasType(gcf.event_type) \/ (gcf.timestamp # EmptyString /\ ~IsTime(gcf.timestamp))
    THEN Thrown
    ELSE [CloudEvent(gcf.event_id, gcf.source, MapGCFTypeToCloudEventType(gcf.event_type),
                     kDefaultSpecVersion)
          EXCEPT !.time = IF gcf.timestamp = EmptyString THEN None ELSE TimePoint(gcf.timestamp),
                 !.subject = IF gcf.subject = EmptyString THEN None ELSE gcf.subject,
                 !.data_content_type = Word("application/json"),
                 !.data = Dump(data)]

-----------------------------------------------------------------------------
(* One format per service. A name matches fixed parts when they alternate  *)
(* with its own, the last of which may have many pieces.                   *)

Matches(name, parts) ==
  /\ IsText(name)
  /\ Len(name.text) >= 2 * Len(parts)
  /\ \A i \in 1..Len(parts) : name.text[2 * i - 1] = parts[i]

Part(name, i) == Word(name.text[2 * i])
Rest(name, parts) == Text(SubSeq(name.text, 2 * Len(parts), Len(name.text)))

\* Mutant: the first '#' is looked for instead of the last.
WithoutGenerationFirst(object) ==
  LET hash == SelectInSeq(object.text, LAMBDA p : p = "#")
  IN  IF hash # 0 /\ \A i \in (hash + 1)..Len(object.text) : object.text[i] \in Digits
        THEN Text(SubSeq(object.text, 1, hash - 1))
        ELSE object

\* The generation of the object, if it is there, is not part of the subject.
WithoutGeneration(object) ==
  LET hash == SelectLastInSeq(object.text, LAMBDA p : p = "#")
  IN  IF hash # 0 /\ \A i \in (hash + 1)..Len(object.text) : object.text[i] \in Digits
        THEN Text(SubSeq(object.text, 1, hash - 1))
        ELSE object

Storage(json, gcf) ==
  LET parts == <<"projects/_/buckets/", "/objects/">>
      bucket == Join(Word("//storage.googleapis.com/projects/_/buckets/"), Part(gcf.resource_name, 1))
      object == WithoutGeneration(Rest(gcf.resource_name, parts))
  IN  Common(IF Matches(gcf.resource_name, parts)
               THEN [gcf EXCEPT !.source = bucket, !.subject = Join(Word("objects/"), object)]
               ELSE gcf,
             Member(json, "data"))

\* The message gets two members more, for which it has to be an object, or null.
PubSub(json, gcf) ==
  LET fields == {f \in {<<"messageId", gcf.event_id>>, <<"publishTime", gcf.timestamp>>} :
                   f[2] # EmptyString}
      sent == Member(json, "data")
      message == IF sent = Null /\ fields # {} THEN Object(<<>>) ELSE sent
      Add(v, f) == IF f \in fields THEN With(v, f[1], Str(f[2])) ELSE v
  IN  IF fields # {} /\ ~IsObject(message)
        THEN Thrown
        ELSE Common(gcf, Object([message |->
               Add(Add(message, <<"messageId", gcf.event_id>>), <<"publishTime", gcf.timestamp>>)]))

\* The region is the domain's first label, or that of the domain without one.
DomainThrows(json) ==
  \/ ~Has(json, "domain")
  \/ ValueThrows(json, "domain")
  \/ LET domain == Value(json, "domain")
     IN  domain # Word("firebaseio.com") /\ ~Contains(domain.text, ".")

Location(domain) ==
  IF domain = Word("firebaseio.com")
    THEN Word("us-central1")
    ELSE Text(SubSeq(domain.text, 1, SelectInSeq(domain.text, LAMBDA p : p = ".") - 1))

FirebaseDatabase(json, gcf) ==
  LET parts == <<"projects/_/instances/", "/refs/">>
      database == Join(Join(Word("//firebasedatabase.googleapis.com/projects/_/locations/"),
                            Location(Value(json, "domain"))),
                       Join(Word("/instances/"), Part(gcf.resource_name, 1)))
  IN  IF DomainThrows(json) THEN Thrown
      ELSE Common(IF Matches(gcf.resource_name, parts)
                    THEN [gcf EXCEPT !.source = database,
                                     !.subject = Join(Word("refs/"), Rest(gcf.resource_name, parts))]
                    ELSE gcf,
                  Member(json, "data"))

Rename(metadata, old, new) ==
  IF ~Has(metadata, old) \/ At(metadata, old) = Str(EmptyString)
    THEN metadata
    ELSE Without(With(metadata, new, At(metadata, old)), old)

FirebaseAuth(json, gcf) ==
  LET data == Member(json, "data")
      metadata == At(data, "metadata")
      uid == GetNestedKey(json, <<"data", "uid">>)
      renamed == Rename(Rename(metadata, "createdAt", "createTime"), "lastSignedInAt", "lastSignInTime")
  IN  IF \/ ~Has(data, "metadata") \/ uid = EmptyString
         \/ \E old \in {"createdAt", "lastSignedInAt"} : Has(metadata, old) /\ ~IsString(At(metadata, old))
        THEN Thrown
        ELSE Common([gcf EXCEPT !.subject = Join(Word("users/"), uid)], With(data, "metadata", renamed))

Firestore(json, gcf) ==
  LET parts == <<"projects/", "/databases/", "/documents/">>
      name == gcf.resource_name
      database == Join(Join(Word("//firestore.googleapis.com/projects/"), Part(name, 1)),
                       Join(Word("/databases/"), Part(name, 2)))
  IN  Common(IF Matches(name, parts)
               THEN [gcf EXCEPT !.source = database,
                                !.subject = Join(Word("documents/"), Rest(name, parts))]
               ELSE gcf,
             Member(json, "data"))

ParseCloudEventLegacy(json) ==
  LET gcf == CommonFields(json)
      Is(service) == gcf.service = Word(service)
  IN  IF CommonFieldsThrow(json) THEN Thrown
      ELSE IF Is("storage.googleapis.com") THEN Storage(json, gcf)
      ELSE IF Is("pubsub.googleapis.com") THEN PubSub(json, gcf)
      ELSE IF Is("firebasedatabase.googleapis.com") THEN FirebaseDatabase(json, gcf)
      ELSE IF Is("firebaseauth.googleapis.com") THEN FirebaseAuth(json, gcf)
      ELSE IF Is("firestore.googleapis.com") THEN Firestore(json, gcf)
      ELSE Common(gcf, json)
==============================================================================

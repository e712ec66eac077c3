-------------------------- MODULE StructuredEvents ---------------------------
(***************************************************************************)
(* The JSON format of events, and the Pub/Sub notifications that are made  *)
(* into Cloud Storage events: parse_cloud_event_json.cc and                *)
(* parse_cloud_event_storage.cc.                                           *)
(*                                                                         *)
(* A parser returns an event, or Thrown; the condition under which it      *)
(* throws is a definition of its own.                                      *)
(***************************************************************************)
EXTENDS EventValues

-----------------------------------------------------------------------------
(* ParseCloudEventStorage.                                                 *)

kPubSubType == Word("google.cloud.pubsub.topic.v1.messagePublished")
kJson == Word("application/json")

required_attributes ==
  {"notificationConfig", "eventType", "payloadFormat", "bucketId", "objectId", "objectGeneration"}

kMessageTypeMappings ==
  [OBJECT_FINALIZE |-> "google.cloud.storage.object.v1.finalized",
   OBJECT_METADATA_UPDATE |-> "google.cloud.storage.object.v1.metadataUpdated",
   OBJECT_DELETE |-> "google.cloud.storage.object.v1.deleted",
   OBJECT_ARCHIVE |-> "google.cloud.storage.object.v1.archived"]

IsMapped(s) == IsText(s) /\ Len(s.text) = 1 /\ s.text[1] \in DOMAIN kMessageTypeMappings

StorageEvent(e, attributes, data) ==
  LET Attribute(k) == At(attributes, k).string
  IN  [CloudEvent(e.id, Join(Word("//storage.googleapis.com/projects/_/buckets/"), Attribute("bucketId")),
                  Word(kMessageTypeMappings[Attribute("eventType").text[1]]), e.spec_version)
       EXCEPT !.data_content_type = kJson,
              !.data_schema = Word("google.events.cloud.storage.v1.StorageObjectData"),
              !.subject = Join(Word("objects/"), Attribute("objectId")),
              !.time = e.time,
              !.data = Base64Decode(data)]

LooksLikeStorage(message) ==
  /\ Has(message, "attributes") /\ Has(message, "data")
  /\ \A k \in required_attributes : Has(At(message, "attributes"), k)

\* A lookup that finds another type than a string throws, each in its turn.
FromMessage(e, message) ==
  LET attributes == At(message, "attributes")
  IN  IF ~LooksLikeStorage(message) THEN e
      ELSE IF ValueThrows(attributes, "payloadFormat") THEN Thrown
      ELSE IF Value(attributes, "payloadFormat") # Word("JSON_API_V1") THEN e
      ELSE IF ValueThrows(attributes, "eventType") THEN Thrown
      ELSE IF ~IsMapped(Value(attributes, "eventType")) THEN e
      ELSE IF \/ ValueThrows(attributes, "bucketId") \/ ValueThrows(attributes, "objectId")
              \/ ValueThrows(message, "data") \/ ~IsBase64(Value(message, "data"))
        THEN Thrown
        ELSE StorageEvent(e, attributes, Value(message, "data"))

ParseCloudEventStorage(e) ==
  IF e.type # kPubSubType \/ e.data_content_type # kJson THEN e
  ELSE IF e.data # None /\ ~IsJson(e.data) THEN Thrown
  ELSE IF e.data # None /\ Has(Parsed(e.data), "message")
    THEN FromMessage(e, At(Parsed(e.data), "message"))
    ELSE e

-----------------------------------------------------------------------------
(* ParseCloudEventJson, ParseCloudEventJsonBatch.                          *)

AttributesThrow(json) ==
  \/ \E k \in {"id", "source", "type"} : ~Has(json, k) \/ ~IsString(At(json, k))
  \/ \E k \in {"specversion", "datacontenttype", "dataschema", "subject", "time"} :
       Has(json, k) /\ ~IsString(At(json, k))
  \/ Has(json, "time") /\ ~IsTime(At(json, "time").string)

DataThrows(json) ==
  IF Has(json, "data")
    THEN ~IsObject(At(json, "data")) /\ ~IsString(At(json, "data"))
    ELSE /\ Has(json, "data_base64")
         /\ ~IsString(At(json, "data_base64")) \/ ~IsBase64(At(json, "data_base64").string)

\* Only an object keeps its JSON text; a string is taken for the data itself.
DataOf(json) ==
  IF Has(json, "data")
    THEN LET d == At(json, "data") IN IF IsObject(d) THEN Dump(d) ELSE d.string
    ELSE IF Has(json, "data_base64") THEN Base64Decode(At(json, "data_base64").string) ELSE None

Optional(json, k) == IF Has(json, k) THEN At(json, k).string ELSE None

\* Mutant: a member that is not there leaves an empty attribute.
EventOfNoDefaults(json) ==
  LET Required(k) == At(json, k).string
  IN  [CloudEvent(Required("id"), Required("source"), Required("type"), Value(json, "specversion"))
       EXCEPT !.data_content_type = Optional(json, "datacontenttype"),
              !.data_schema = Optional(json, "dataschema"),
              !.subject = Optional(json, "subject"),
              !.time = IF Has(json, "time") THEN TimePoint(At(json, "time").string) ELSE None,
              !.data = DataOf(json)]

EventOf(json) ==
  LET Required(k) == At(json, k).string
  IN  [CloudEvent(Required("id"), Required("source"), Required("type"),
                  IF Has(json, "specversion") THEN Required("specversion") ELSE kDefaultSpecVersion)
       EXCEPT !.data_content_type = Optional(json, "datacontenttype"),
              !.data_schema = Optional(json, "dataschema"),
              !.subject = Optional(json, "subject"),
              !.time = IF Has(json, "time") THEN TimePoint(At(json, "time").string) ELSE None,
              !.data = DataOf(json)]

ParseCloudEventJson(json) ==
  IF AttributesThrow(json) \/ DataThrows(json) THEN Thrown ELSE EventOf(json)

\* A function from an array of events to their sequence; one that throws is enough.
BatchThrows(body) ==
  \/ ~IsJson(body) \/ ~IsArray(Parsed(body))
  \/ \E i \in 1..Len(Parsed(body).array) : ParseCloudEventJson(Parsed(body).array[i]) = Thrown

\* Mutant: an event that does not parse is skipped.
BatchSkipsBad(body) ==
  IF ~IsJson(body) \/ ~IsArray(Parsed(body)) THEN Thrown
  ELSE Events(SelectSeq([i \in 1..Len(Parsed(body).array) |->
                           ParseCloudEventJson(Parsed(body).array[i])], LAMBDA e : e # Thrown))

ParseCloudEventJsonBatch(body) ==
  IF BatchThrows(body) THEN Thrown
  ELSE Events([i \in 1..Len(Parsed(body).array) |-> ParseCloudEventJson(Parsed(body).array[i])])
==============================================================================

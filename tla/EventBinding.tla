---------------------------- MODULE EventBinding -----------------------------
(***************************************************************************)
(* From an HTTP request to its events: parse_cloud_event_http.cc. Names of *)
(* headers are compared without regard to case, so they are in lower case. *)
(***************************************************************************)
EXTENDS StructuredEvents, LegacyEvents

HasHeader(request, header) == header \in DOMAIN request.headers

HasMinimalCloudEventHeaders(request) ==
  \A h \in {"ce-id", "ce-source", "ce-type"} : HasHeader(request, h)

-----------------------------------------------------------------------------
BinaryThrows(request) ==
  \/ ~HasMinimalCloudEventHeaders(request)
  \/ /\ HasHeader(request, "ce-datacontenttype") /\ HasHeader(request, "content-type")
     /\ request.headers["ce-datacontenttype"] # request.headers["content-type"]
  \/ HasHeader(request, "ce-time") /\ ~IsTime(request.headers["ce-time"])

\* The attribute ce-datacontenttype comes before the header Content-Type. A body counts
\* as data when the request has a Content-Length.
ParseCloudEventHttpBinary(request) ==
  LET Header(h, default) == IF HasHeader(request, h) THEN request.headers[h] ELSE default
  IN  IF BinaryThrows(request) THEN Thrown
      ELSE [CloudEvent(Header("ce-id", None), Header("ce-source", None), Header("ce-type", None),
                       Header("ce-specversion", kDefaultSpecVersion))
            EXCEPT !.data_content_type = Header("ce-datacontenttype", Header("content-type", None)),
                   !.data_schema = Header("ce-dataschema", None),
                   !.subject = Header("ce-subject", None),
                   !.time = IF HasHeader(request, "ce-time")
                              THEN TimePoint(request.headers["ce-time"])
                              ELSE None,
                   !.data = IF request.has_content_length THEN request.body ELSE None]

-----------------------------------------------------------------------------
Converted(e) == IF e = Thrown THEN Thrown ELSE ParseCloudEventStorage(e)
Single(e) == IF e = Thrown THEN Thrown ELSE Events(<<e>>)

IsContentType(request, type) ==
  HasHeader(request, "content-type") /\ StartsWith(request.headers["content-type"], type)

\* ParseCloudEventJson of a string.
StructuredEvent(body) ==
  IF IsJson(body) THEN Converted(ParseCloudEventJson(Parsed(body))) ELSE Thrown

LegacyEvent(body) ==
  IF IsJson(body) THEN ParseCloudEventLegacy(Parsed(body)) ELSE Thrown

\* Mutant: a binary event with a content type is not looked at for a notification.
HttpUnconverted(request) ==
  IF IsContentType(request, "application/cloudevents-batch+json")
    THEN ParseCloudEventJsonBatch(request.body)
  ELSE IF IsContentType(request, "application/cloudevents+json")
    THEN Single(StructuredEvent(request.body))
  ELSE IF IsContentType(request, "application/json") /\ ~HasMinimalCloudEventHeaders(request)
    THEN Single(LegacyEvent(request.body))
  ELSE Single(ParseCloudEventHttpBinary(request))

ParseCloudEventHttp(request) ==
  IF IsContentType(request, "application/cloudevents-batch+json")
    THEN ParseCloudEventJsonBatch(request.body)
  ELSE IF IsContentType(request, "application/cloudevents+json")
    THEN Single(StructuredEvent(request.body))
  ELSE IF IsContentType(request, "application/json") /\ ~HasMinimalCloudEventHeaders(request)
    THEN Single(LegacyEvent(request.body))
  ELSE Single(Converted(ParseCloudEventHttpBinary(request)))
==============================================================================

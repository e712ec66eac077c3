---------------------------- MODULE EventValues ------------------------------
(***************************************************************************)
(* The values the parsers of events handle: strings, JSON values and the   *)
(* class CloudEvent.                                                       *)
(*                                                                         *)
(* A string is known as far as the code tells strings apart. It is text, a *)
(* sequence of pieces (a prefix ends where a piece does, and a character   *)
(* the code searches for is a piece); or the JSON text of a value; or the  *)
(* base64 encoding of a string (module Base64 is about the characters).    *)
(***************************************************************************)
EXTENDS Naturals, Sequences, SequencesExt

CONSTANTS Instant   \* RFC 3339 texts -> the time each denotes

-----------------------------------------------------------------------------
(* Strings.                                                                *)

Text(pieces) == [text |-> pieces]
Word(w) == Text(<<w>>)
EmptyString == Text(<<>>)
Join(s, t) == Text(s.text \o t.text)

IsText(s) == "text" \in DOMAIN s
StartsWith(s, w) == IsText(s) /\ s.text # <<>> /\ s.text[1] = w

IsTime(s) == IsText(s) /\ s.text \in DOMAIN Instant
IsBase64(s) == "base64" \in DOMAIN s
Base64Decode(s) == s.base64

-----------------------------------------------------------------------------
(* JSON: nlohmann::json.                                                   *)

Object(f) == [object |-> f]
Str(s) == [string |-> s]
Null == [null |-> TRUE]

IsObject(v) == "object" \in DOMAIN v
IsString(v) == "string" \in DOMAIN v
IsArray(v) == "array" \in DOMAIN v

\* contains() and count() find nothing in what is not an object.
Has(v, k) == IsObject(v) /\ k \in DOMAIN v.object
At(v, k) == v.object[k]

\* value(k, "") throws on what is not an object, and on a member that is no string.
ValueThrows(v, k) == IF IsObject(v) THEN Has(v, k) /\ ~IsString(At(v, k)) ELSE TRUE
Value(v, k) == IF Has(v, k) THEN At(v, k).string ELSE EmptyString

\* value(k, json{}), of an object.
Member(v, k) == IF Has(v, k) THEN At(v, k) ELSE Null

With(v, k, w) == Object([x \in DOMAIN v.object \cup {k} |-> IF x = k THEN w ELSE v.object[x]])
Without(v, k) == Object([x \in DOMAIN v.object \ {k} |-> v.object[x]])

IsJson(s) == "json" \in DOMAIN s
Parsed(s) == s.json
Dump(v) == [json |-> v]

-----------------------------------------------------------------------------
(* CloudEvent, and what a parser returns when it throws.                   *)

None == [none |-> TRUE]
Thrown == [thrown |-> TRUE]
Events(sequence) == [events |-> sequence]
kDefaultSpecVersion == Word("1.0")

CloudEvent(id, source, type, spec_version) ==
  [id |-> id, source |-> source, type |-> type, spec_version |-> spec_version,
   data_content_type |-> None, data_schema |-> None, subject |-> None,
   time |-> None, data |-> None]

\* set_time() of a string that IsTime.
TimePoint(s) == [instant |-> Instant[s.text]]
==============================================================================

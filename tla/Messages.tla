------------------------------ MODULE Messages -------------------------------
(***************************************************************************)
(* The requests and responses a function sees: HttpRequest, which is a     *)
(* copy of what the client sent, and the Impl behind an HttpResponse, a    *)
(* message of Boost.Beast. Setters return the message they leave.          *)
(*                                                                         *)
(* The name of a header is [lower, shown]: Beast compares the names in     *)
(* lower case, the maps of the functions compare the spelling.             *)
(***************************************************************************)
EXTENDS Integers, Sequences

Name(lower, shown) == [lower |-> lower, shown |-> shown]
Field(name, value) == [name |-> name, value |-> value]

\* A version is one number in Beast.
kBeastHttpVersionFactor == 10
Version(major, minor) == major * kBeastHttpVersionFactor + minor
version_major(m) == m.version \div kBeastHttpVersionFactor
version_minor(m) == m.version % kBeastHttpVersionFactor

-----------------------------------------------------------------------------
(* Responses.                                                              *)

\* The status codes HttpResponse has names for.
KnownResults ==
  (100..103) \cup (200..208) \cup {226} \cup (300..305) \cup {307, 308}
    \cup (400..418) \cup (421..426) \cup {428, 429, 431, 451}
    \cup (500..508) \cup {510, 511}

NoText == <<>>
MakeHttpResponse == [payload |-> NoText, result |-> 200, headers |-> <<>>, version |-> Version(1, 1)]

set_payload(m, v) == [m EXCEPT !.payload = v]

\* Beast refuses a code of more than three digits; an int below zero is one.
ResultThrows(code) == code \notin 0..999
set_result(m, code) == [m EXCEPT !.result = code]

set_version(m, major, minor) == [m EXCEPT !.version = Version(major, minor)]

\* What a move leaves: strings and fields go, numbers stay.
MovedFrom(m) == [m EXCEPT !.payload = NoText, !.headers = <<>>]

-----------------------------------------------------------------------------
(* Requests.                                                               *)

HttpRequest ==
  [verb |-> "", target |-> "", payload |-> NoText, headers |-> <<>>, version |-> Version(1, 1)]

set_verb(r, v) == [r EXCEPT !.verb = v]
set_target(r, v) == [r EXCEPT !.target = v]
add_header(r, name, value) == [r EXCEPT !.headers = Append(@, Field(name, value))]

\* Every field of the message, with its spelling, in the order it came.
MakeHttpRequest(beast) ==
  LET r == set_version(set_target(set_verb(HttpRequest, beast.verb), beast.target),
                       version_major(beast), version_minor(beast))
      Added[n \in 0..Len(beast.headers)] ==
        IF n = 0 THEN r
        ELSE LET h == beast.headers[n] IN add_header(Added[n - 1], h.name, h.value)
  IN  set_payload(Added[Len(beast.headers)], beast.payload)

\* headers().find(shown): among equal keys the multimap keeps the order they came in.
Found(r, shown) == \E i \in 1..Len(r.headers) : r.headers[i].name.shown = shown
Find(r, shown) ==
  LET IsFirst(i) == /\ r.headers[i].name.shown = shown
                    /\ \A j \in 1..(i - 1) : r.headers[j].name.shown # shown
  IN  r.headers[CHOOSE i \in 1..Len(r.headers) : IsFirst(i)].value
==============================================================================

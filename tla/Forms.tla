-------------------------------- MODULE Forms --------------------------------
(***************************************************************************)
(* The two functions of the examples that read the body of a request by    *)
(* its content type: http_content, which greets the name it finds, and     *)
(* http_form_data, which describes the parts of a form.                    *)
(*                                                                         *)
(* The characters of a name are their codes. A multipart body is pieces,   *)
(* tuples of strings: a line end, a boundary, a line.                      *)
(***************************************************************************)
EXTENDS EventValues, Messages, FiniteSetsExt

content_type == "content-type"

-----------------------------------------------------------------------------
(* http_content.                                                           *)

Percent == 37
Minus == 45
Ampersand == 38
Equals == 61

HexDigits == (48..57) \cup (65..70) \cup (97..102)
HexValue(c) == IF c <= 57 THEN c - 48 ELSE IF c <= 70 THEN c - 55 ELSE c - 87

\* from_chars() of two characters into a char, which is signed: at most 127, and a sign
\* and a digit are a number too.
FromChars(a, b) ==
  LET value == IF a = Minus THEN -HexValue(b) ELSE 16 * HexValue(a) + HexValue(b)
  IN  IF a \in HexDigits \cup {Minus} /\ b \in HexDigits /\ value <= 127 THEN value % 256 ELSE -1

\* Mutant: the escape that ends the text does not fit.
EscapeFitsShort(encoded, i) == i + 3 <= Len(encoded)

\* i + 3 <= size(), of positions from zero.
EscapeFits(encoded, i) == i + 2 <= Len(encoded)

\* What is no escape is kept; a '%' with fewer than two characters after it is dropped.
urldecode(encoded) ==
  LET n == Len(encoded)
      From[i \in 1..(n + 3)] ==
        IF i > n THEN <<>>
        ELSE IF encoded[i] # Percent THEN <<encoded[i]>> \o From[i + 1]
        ELSE IF ~EscapeFits(encoded, i) THEN From[i + 1]
        ELSE LET value == FromChars(encoded[i + 1], encoded[i + 2])
             IN  IF value # -1 THEN <<value>> \o From[i + 3] ELSE <<Percent>> \o From[i + 1]
  IN  From[1]

SplitAt(text, c) ==
  LET UpTo[i \in 0..Len(text)] ==
        IF i = 0 THEN << <<>> >>
        ELSE LET tokens == UpTo[i - 1]
             IN  IF text[i] = c THEN Append(tokens, <<>>)
                 ELSE [tokens EXCEPT ![Len(tokens)] = Append(@, text[i])]
  IN  UpTo[Len(text)]

\* getline() gives no token for the nothing after the last '&'.
Tokens(text) ==
  LET tokens == SplitAt(text, Ampersand)
  IN  IF Last(tokens) = <<>> THEN Front(tokens) ELSE tokens

\* A token without '=' is its own value; of equal keys the first counts.
parse_www_form_urlencoded(text, key) ==
  LET Cut(tk) == SelectInSeq(tk, LAMBDA c : c = Equals)
      Key(tk) == urldecode(IF Cut(tk) = 0 THEN tk ELSE SubSeq(tk, 1, Cut(tk) - 1))
      at == SelectInSeq(Tokens(text), LAMBDA tk : Key(tk) = key)
      of == Tokens(text)[at]
  IN  IF at = 0 THEN <<>> ELSE urldecode(SubSeq(of, Cut(of) + 1, Len(of)))

\* The name greeted, or Thrown; no name, for a content type it does not know.
http_content(request, key) ==
  LET type == IF Found(request, content_type) THEN Find(request, content_type) ELSE ""
  IN  CASE type = "application/json" ->
             IF ~IsJson(request.payload) \/ ValueThrows(Parsed(request.payload), "name") THEN Thrown
             ELSE Value(Parsed(request.payload), "name").text
        [] type \in {"application/octet-stream", "text/plain"} -> request.payload
        [] type = "application/x-www-form-urlencoded" -> parse_www_form_urlencoded(request.payload, key)
        [] OTHER -> <<>>

-----------------------------------------------------------------------------
(* http_form_data.                                                         *)

CRLF == <<"CRLF">>
Boundary(b) == <<"--", b>>
LastBoundary(b) == <<"--", b, "--">>
Line(text) == <<"line", text>>
Disposition(name, filename) == <<"disposition", name, filename>>
Quote == "quote"

IsAt(text, marker, i) ==
  i + Len(marker) - 1 <= Len(text) /\ SubSeq(text, i, i + Len(marker) - 1) = marker
Places(text, marker, pos) == {i \in pos..Len(text) : IsAt(text, marker, i)}

\* Cut at the first place that may be next, at most `splits` times: where each token begins.
Begins(width, splits, next) ==
  LET UpTo[n \in 0..splits] ==
        IF n = 0 THEN <<1>>
        ELSE LET begins == UpTo[n - 1]
                 places == next[Last(begins)]
             IN  IF places = {} THEN begins ELSE Append(begins, Min(places) + width)
  IN  UpTo[splits]
Cuts(text, width, splits, next) ==
  LET begins == Begins(width, splits, next)
      n == Len(begins)
  IN  [i \in 1..n |->
         SubSeq(text, begins[i], IF i = n THEN Len(text) ELSE begins[i + 1] - width - 1)]

SkipEmpty(tokens) ==
  FlattenSeq([i \in DOMAIN tokens |-> IF tokens[i] = <<>> THEN <<>> ELSE <<tokens[i]>>])

StrSplit(text, marker, splits) ==
  Cuts(text, Len(marker), splits, [pos \in 1..(Len(text) + 1) |-> Places(text, marker, pos)])

\* FormDataDelimiter::Find(): the end of the body only where no part follows.
Parts(text, b) ==
  LET part == <<CRLF, Boundary(b), CRLF>>
      body == <<CRLF, LastBoundary(b), CRLF>>
      next == [pos \in 1..(Len(text) + 1) |->
                 IF Places(text, part, pos) # {} THEN Places(text, part, pos)
                 ELSE Places(text, body, pos)]
  IN  SkipEmpty(Cuts(text, 3, Len(text), next))

\* Mutant: the quotes are kept.
GetBoundaryQuoted(type) == type[2]

\* A parameter of that name, without the quotes around it.
GetBoundaryThrows(type) == Len(type) = 1
GetBoundary(type) == IF type[2] = Quote /\ Last(type) = Quote THEN type[3] ELSE type[2]

\* The size is that of the headers, where one blank line ends them.
Descriptor(p) ==
  LET components == StrSplit(p, <<CRLF, CRLF>>, 2)
      headers == StrSplit(components[1], <<CRLF>>, Len(p))
      Said(k) == {headers[i][1][k] : i \in {j \in DOMAIN headers :
                    headers[j] # <<>> /\ headers[j][1][1] = "disposition" /\ headers[j][1][k] # ""}}
  IN  [bodySize |-> IF Len(components) = 2 THEN Len(components[1]) ELSE 0,
       headerCount |-> Len(headers), name |-> Said(2), isFile |-> Said(3) # {}, filename |-> Said(3)]

\* The status, or Thrown, or the descriptors.
http_form_data_impl(request) ==
  IF request.verb # "POST" THEN [status |-> 405]
  ELSE IF ~Found(request, content_type) THEN [status |-> 400]
  ELSE LET type == Find(request, content_type)
       IN  IF type[1] # "multipart/form-data" THEN [status |-> 400]
           ELSE IF GetBoundaryThrows(type) THEN Thrown
           ELSE LET parts == Parts(request.payload, GetBoundary(type))
                IN  [parts |-> [i \in DOMAIN parts |-> Descriptor(parts[i])]]
==============================================================================

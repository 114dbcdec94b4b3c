---------------------------- MODULE Negotiation ----------------------------
(***************************************************************************)
(* How a request's headers choose the form of the response                 *)
(* (memodb/lib/HTTP.cpp).  A header's value is a sequence of characters; a *)
(* word that is only ever compared as a whole (a media type, an entity     *)
(* tag) is one character.  None stands for a header that is not there.     *)
(***************************************************************************)
EXTENDS Integers, SequencesExt

CONSTANTS
  Headers,  \* lists of media ranges, each with the way it is written
  Tags,     \* lists of entity tags, written the same way
  None

Digit == <<"0", "1", "2", "3", "4", "5", "6", "7", "8", "9">>
IsDigit(c) == c \in ToSet(Digit)
Drop(s, n) == SubSeq(s, n + 1, Len(s))
StartsWith(s, c) == s # <<>> /\ s[1] = c

\* How many characters of s come before the first of the set chars.
Before(s, chars) ==
  LET at == SelectInSeq(s, LAMBDA c : c \in chars) IN IF at = 0 THEN Len(s) ELSE at - 1

LTrim(s) ==
  LET some == SelectInSeq(s, LAMBDA c : c # " ") IN IF some = 0 THEN <<>> ELSE Drop(s, some - 1)
RTrim(s) == Reverse(LTrim(Reverse(s)))

-----------------------------------------------------------------------------
(* getAcceptQuality *)

Wanted(type) ==
  CASE type = "OctetStream" -> <<"application", "octet-stream">>
    [] type = "JSON" -> <<"application", "json">>
    [] type = "CBOR" -> <<"application", "cbor">>
    [] type = "HTML" -> <<"text", "html">>
    [] type = "ProblemJSON" -> <<"application", "problem+json">>

\* The characters of a quoted string with its quotes, or 0 if it does not end.
QuotedLength(s) ==
  LET skipped[i \in 1 .. Len(s)] == i > 1 /\ s[i - 1] = "\\" /\ ~skipped[i - 1]
      ends == {i \in 2 .. Len(s) : s[i] = "\"" /\ ~skipped[i]}
  IN  IF ends = {} THEN 0 ELSE CHOOSE i \in ends : \A j \in ends : i <= j

\* Mutant: the digits after the first one are not looked at.
QualityWhole(value, q) == IF value # <<>> /\ IsDigit(value[1]) THEN 1000 * (CHOOSE d \in 0 .. 9 : Digit[d + 1] = value[1]) ELSE q

\* The value of q=, in thousandths; one that is no number leaves q as it was.
Quality(value, q) ==
  LET at(i) == IF Len(value) >= i /\ value[2] = "." THEN value[i] ELSE "0"
      buffer == <<value[1], at(3), at(4), at(5)>>
  IN  IF value # <<>> /\ \A i \in 1 .. 4 : IsDigit(buffer[i])
      THEN FoldLeft(LAMBDA n, c : 10 * n + (CHOOSE d \in 0 .. 9 : Digit[d + 1] = c), 0, buffer)
      ELSE q

\* The parameters of a media range: q, what follows them, and whether they can be read.
RECURSIVE Parameters(_, _)
ValueLength(text) == IF StartsWith(text, "\"") THEN QuotedLength(text) ELSE Before(text, {";", ","})
WithValue(param, text, n, q) ==
  IF StartsWith(text, "\"") /\ n = 0 THEN [ok |-> FALSE, q |-> 0, rest |-> <<>>]
  ELSE Parameters(LTrim(Drop(text, n)), IF RTrim(param) = <<"q">> THEN Quality(RTrim(SubSeq(text, 1, n)), q) ELSE q)
WithParam(param, rest, q) ==
  IF ~StartsWith(rest, "=") THEN Parameters(rest, q) ELSE WithValue(param, Tail(rest), ValueLength(Tail(rest)), q)
WithName(name, i, q) == WithParam(SubSeq(name, 1, i), Drop(name, i), q)
Parameters(s, q) ==
  IF ~StartsWith(s, ";") THEN [ok |-> TRUE, q |-> q, rest |-> s]
  ELSE LET name == LTrim(Tail(s)) IN WithName(name, Before(name, {";", ",", "="}), q)

\* type/* is more specific than */*.
Result(any_subtype_q, any_type_q) == IF any_subtype_q # None THEN any_subtype_q ELSE any_type_q

RECURSIVE Ranges(_, _, _, _)
AfterRange(rest, wanted, sub, any) ==
  IF rest = <<>> THEN Result(sub, any) ELSE IF rest[1] # "," THEN 0 ELSE Ranges(Tail(rest), wanted, sub, any)
WithRange(type, subtype, params, wanted, any_subtype_q, any_type_q) ==
  IF ~params.ok THEN 0
  ELSE IF type = <<wanted[1]>> /\ subtype = <<wanted[2]>> THEN params.q
  ELSE AfterRange(params.rest, wanted,
                  IF type = <<wanted[1]>> /\ subtype = <<"*">> THEN params.q ELSE any_subtype_q,
                  IF type = <<"*">> /\ subtype = <<"*">> THEN params.q ELSE any_type_q)
WithType(type, after, i, wanted, any_subtype_q, any_type_q) ==
  WithRange(type, RTrim(SubSeq(after, 1, i)), Parameters(Drop(after, i), 1000), wanted, any_subtype_q, any_type_q)
Trimmed(r, slash, wanted, any_subtype_q, any_type_q) ==
  IF r = <<>> THEN Result(any_subtype_q, any_type_q)
  ELSE LET after == Drop(r, slash + 1)
       IN  WithType(SubSeq(r, 1, slash), after, Before(after, {";", ","}), wanted, any_subtype_q, any_type_q)
Ranges(s, wanted, any_subtype_q, any_type_q) ==
  LET r == LTrim(s) IN Trimmed(r, Before(r, {"/"}), wanted, any_subtype_q, any_type_q)

getAcceptQuality(accept, type) ==
  IF accept = None THEN IF type \in {"JSON", "ProblemJSON"} THEN 1 ELSE 0
  ELSE Ranges(accept, Wanted(type), None, 0)

-----------------------------------------------------------------------------
(* The choice *)

Choose(octet, json, cbor, html, isBytes) ==
  IF isBytes /\ octet > json /\ octet >= cbor /\ octet >= html THEN "OctetStream"
  ELSE IF html > cbor /\ html > json THEN "HTML"
  ELSE IF cbor > json THEN "CBOR" ELSE "JSON"

chooseNodeContentType(accept, isBytes) ==
  Choose(getAcceptQuality(accept, "OctetStream"), getAcceptQuality(accept, "JSON"),
         getAcceptQuality(accept, "CBOR"), getAcceptQuality(accept, "HTML"), isBytes)

\* sendErrorAfterStatus.
ErrorType(accept) ==
  IF getAcceptQuality(accept, "HTML") > getAcceptQuality(accept, "ProblemJSON") THEN "HTML" ELSE "ProblemJSON"

\* After a tag that is not the wanted one comes a comma, or the header does not match.
MoreTags(s) == StartsWith(s, ",")

RECURSIVE TagListed(_, _)
AfterTag(rest, etag) == MoreTags(rest) /\ TagListed(Tail(rest), etag)
InTag(text, quote, etag) ==
  quote < Len(text) /\ (SubSeq(text, 1, quote) = <<etag>> \/ AfterTag(LTrim(Drop(text, quote + 1)), etag))
StrongTag(strong, etag) == StartsWith(strong, "\"") /\ InTag(Tail(strong), Before(Tail(strong), {"\""}), etag)
AnyTag(r, etag) == r # <<>> /\ (r[1] = "*" \/ StrongTag(IF StartsWith(r, "W/") THEN Tail(r) ELSE r, etag))
TagListed(s, etag) == AnyTag(LTrim(s), etag)

hasIfNoneMatch(if_none_match, etag) == if_none_match # None /\ TagListed(if_none_match, etag)

-----------------------------------------------------------------------------
(* Headers as clients write them.  A range is [range, q, space, quoted]: q is  *)
(* a sequence of characters, or None; space is written around the separators,  *)
(* and quoted is a parameter, written before q, that holds separators.         *)

Write(r) ==
  LET space == IF r.space THEN <<" ">> ELSE <<>>
      semicolon == space \o <<";">> \o space
  IN  <<r.range[1], "/", r.range[2]>> \o
      (IF r.quoted THEN semicolon \o <<"v", "=", "\"", ",", "\\", "\"", ";", "\"">> ELSE <<>>) \o
      (IF r.q = None THEN <<>> ELSE semicolon \o <<"q", "=">> \o r.q) \o space

WriteTag(t) ==
  IF t.tag = "*" THEN <<"*">>
  ELSE (IF t.weak THEN <<"W/">> ELSE <<>>) \o <<"\"", t.tag, "\"">> \o IF t.space THEN <<" ">> ELSE <<>>

\* The elements of a header, with commas between.
Listed(texts) ==
  FlattenSeq([i \in 1 .. Len(texts) |-> IF i = 1 THEN texts[i] ELSE <<",", " ">> \o texts[i]])

Written(header) == Listed([i \in 1 .. Len(header) |-> Write(header[i])])
WrittenTags(tags) == Listed([i \in 1 .. Len(tags) |-> WriteTag(tags[i])])

VARIABLES header, tags, chosen

vars == <<header, tags, chosen>>

Init ==
  /\ \/ header \in Headers /\ tags = None
     \/ header = None /\ tags \in Tags
  /\ chosen = None

\* One request for a byte string, and one for another node.
Respond ==
  /\ chosen = None
  /\ chosen' = IF header = None THEN <<hasIfNoneMatch(WrittenTags(tags), "e1")>>
               ELSE <<chooseNodeContentType(Written(header), TRUE),
                      chooseNodeContentType(Written(header), FALSE), ErrorType(Written(header))>>
  /\ UNCHANGED <<header, tags>>

Next == Respond

Spec == Init /\ [][Next]_vars

-----------------------------------------------------------------------------
Types == {"OctetStream", "JSON", "CBOR", "HTML", "ProblemJSON"}

\* A q value as RFC 7231 means it, in thousandths.
Thousandths(q) ==
  LET d(i) == IF i <= Len(q) THEN (CHOOSE n \in 0 .. 9 : Digit[n + 1] = q[i]) ELSE 0
  IN  IF q = None THEN 1000 ELSE 1000 * d(1) + 100 * d(3) + 10 * d(4) + d(5)

\* What RFC 7231 says of a list without a range twice: the most specific one decides.
Specified(list, type) ==
  LET of(range) == {i \in 1 .. Len(list) : list[i].range = range}
      best == IF of(Wanted(type)) # {} THEN of(Wanted(type))
              ELSE IF of(<<Wanted(type)[1], "*">>) # {} THEN of(<<Wanted(type)[1], "*">>)
              ELSE of(<<"*", "*">>)
  IN  IF best = {} THEN 0 ELSE Thousandths(list[CHOOSE i \in best : TRUE].q)

\* getAcceptQuality gives every content type the quality of the most specific range
\* that matches it, wherever the ranges, parameters, quoted strings and spaces are.
MostSpecific ==
  chosen # None /\ header # None => \A type \in Types : getAcceptQuality(Written(header), type) = Specified(header, type)

\* "we prefer json > octet-stream > cbor > html": the response has the best quality,
\* and of the equally good ones the first in this order that can hold the node.
Preferred ==
  chosen # None /\ header # None =>
    LET order(isBytes) == IF isBytes THEN <<"JSON", "OctetStream", "CBOR", "HTML">> ELSE <<"JSON", "CBOR", "HTML">>
        q(type) == Specified(header, type)
    IN  \A n \in 1 .. 2 :
          LET o == order(n = 1)
              best == {i \in 1 .. Len(o) : \A j \in 1 .. Len(o) : q(o[i]) >= q(o[j])}
          IN  chosen[n] = o[CHOOSE i \in best : \A j \in best : i <= j]

\* hasIfNoneMatch finds a tag anywhere in the list, weak or not, and * matches all.
TagFound ==
  chosen # None /\ header = None => chosen[1] = (\E i \in 1 .. Len(tags) : tags[i].tag \in {"e1", "*"})

=============================================================================
